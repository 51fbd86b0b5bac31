--------------------------- MODULE StrategyContext ---------------------------
(***************************************************************************)
(* The strategies of intentful_core, which hold the kind, the user and the *)
(* provider of the request that fetched them last.  IntentfulContext makes *)
(* one object per behaviour when the process starts, and every request     *)
(* gets the same object: what a request reads from it after an await may   *)
(* have been set by another request.                                       *)
(*                                                                         *)
(* held[s] is the request whose kind, user and provider the strategy s     *)
(* holds.  request[r].uses says what r has read from its strategy, and     *)
(* whose it was.  What the requests do to the database is in EntityStore.  *)
(***************************************************************************)
EXTENDS Naturals

CONSTANTS
    Requests,     \* requests that are served at the same time
    Kinds,        \* kinds of the registered providers
    Behaviour,    \* intentful_behaviour of each kind
    Constructed,  \* kinds with a procedure __kind_create
    Destructed,   \* kinds with a procedure __kind_delete
    Nobody        \* holder of a strategy that was never fetched

ASSUME NobodyIsNoRequest == Nobody \notin Requests

VARIABLES held, request

strategyVars == <<held, request>>

Behaviours == {"Basic", "SpecOnly", "Differ"}

Strategies == ({"intentful", "status"} \X Behaviours)
                \cup ({"creation"} \X {"constructor", "basic"})

Uses == {"constructor", "destructor", "metadata", "validation", "watcher",
         "watchlist", "diffs"}

Places == {"idle", "called", "named", "saving", "updating", "merging", "done"}

Idle == [op |-> "none", kind |-> Nobody, pc |-> "idle", uses |-> {}]

StrategyInit ==
    /\ held = [s \in Strategies |-> Nobody]
    /\ request = [r \in Requests |-> Idle]

-----------------------------------------------------------------------------
(* Fetching a strategy                                                     *)

\* Mutant: one strategy for every creation
OneCreationStrategy(k) == <<"creation", "basic">>

CreationStrategy(k) ==
    <<"creation", IF k \in Constructed THEN "constructor" ELSE "basic">>

StrategyOf(r) ==
    LET q == request[r]
    IN  CASE q.op = "create" -> CreationStrategy(q.kind)
          [] q.op = "status" -> <<"status", Behaviour[q.kind]>>
          [] OTHER           -> <<"intentful", Behaviour[q.kind]>>

\* Mutant: the fields are set once only
FetchOnce(r, s) ==
    held' = [held EXCEPT ![s] = IF @ = Nobody THEN r ELSE @]

\* setKind, setUser and, for creations, setProvider
Fetch(r, s) == held' = [held EXCEPT ![s] = r]

Start(r, op, k, pc, uses) ==
    /\ request[r] = Idle
    /\ request' = [request EXCEPT
           ![r] = [op |-> op, kind |-> k, pc |-> pc, uses |-> uses]]

\* The request reads the fields of its strategy and awaits the next call
Use(r, uses, pc) ==
    /\ request' = [request EXCEPT ![r].uses = @ \cup uses, ![r].pc = pc]
    /\ UNCHANGED held

Holder(r) == held[StrategyOf(r)]

HeldKind(r) == request[Holder(r)].kind

-----------------------------------------------------------------------------
(* Creation.  A constructor is called with the fields just set, before the *)
(* first await; the metadata of a creation without a constructor are named *)
(* then too.                                                               *)

\* Mutant: every creation names its metadata after a call
StartUnnamed(r, k) ==
    LET s == CreationStrategy(k)
    IN  /\ Fetch(r, s)
        /\ Start(r, "create", k, "called",
                 IF k \in Constructed THEN {<<"constructor", held'[s]>>} ELSE {})

StartCreate(r, k) ==
    LET s == CreationStrategy(k)
        u == IF k \in Constructed THEN "constructor" ELSE "metadata"
    IN  /\ Fetch(r, s)
        /\ Start(r, "create", k,
                 IF k \in Constructed THEN "called" ELSE "named",
                 {<<u, held'[s]>>})

\* create_metadata of the entity that the constructor returned
NameConstructed(r) ==
    /\ request[r].op = "create"
    /\ request[r].pc = "called"
    /\ Use(r, {<<"metadata", Holder(r)>>}, "named")

\* validate_entity; after a constructor, whether spec and status may differ
\* depends on the behaviour held too
ValidateEntity(r) ==
    /\ request[r].op = "create"
    /\ request[r].pc = "named"
    /\ Use(r, {<<"validation", Holder(r)>>}, "saving")

\* A constructed entity whose status differs from its spec gets a watcher when
\* the kind held is not spec-only; an entity created equal to its spec is only
\* put on the watchlist, when the kind held has behaviour Differ
FinishCreate(r) ==
    LET q == request[r]
        b == Behaviour[HeldKind(r)]
    IN  /\ q.op = "create"
        /\ q.pc = "saving"
        /\ \E differs \in BOOLEAN :
              Use(r,
                  IF q.kind \in Constructed
                  THEN IF differs /\ b \in {"Differ", "Basic"}
                       THEN {<<"watcher", Holder(r)>>} ELSE {}
                  ELSE IF b = "Differ" THEN {<<"watchlist", Holder(r)>>} ELSE {},
                  "done")

-----------------------------------------------------------------------------
(* Spec update, deletion, and status                                       *)

StartUpdate(r, k) ==
    /\ Behaviour[k] \in Behaviours
    /\ Fetch(r, <<"intentful", Behaviour[k]>>)
    /\ Start(r, "update", k,
             IF Behaviour[k] = "SpecOnly" THEN "done" ELSE "updating", {})

\* The watcher takes its user and its differences from what is held now
SaveWatcher(r) ==
    /\ request[r].op = "update"
    /\ request[r].pc = "updating"
    /\ Use(r, {<<"watcher", Holder(r)>>}, "done")

\* The destructor is called before the first await of the strategy
StartDelete(r, k) ==
    LET s == <<"intentful", Behaviour[k]>>
    IN  /\ Behaviour[k] \in Behaviours
        /\ Fetch(r, s)
        /\ Start(r, "delete", k, "done",
                 IF k \in Destructed THEN {<<"destructor", held'[s]>>} ELSE {})

\* A spec-only strategy is set and then refused; only updates of kinds with
\* behaviour Differ read the kind again
StartStatus(r, k) ==
    /\ Behaviour[k] \in Behaviours
    /\ Fetch(r, <<"status", Behaviour[k]>>)
    /\ \E pc \in {"merging", "done"} :
          /\ pc = "merging" => Behaviour[k] = "Differ"
          /\ Start(r, "status", k, pc, {})

DiffStatus(r) ==
    /\ request[r].op = "status"
    /\ request[r].pc = "merging"
    /\ Use(r, {<<"diffs", Holder(r)>>}, "done")

\* A call, a check of permission or a validation fails
FailRequest(r) ==
    /\ request[r].pc \notin {"idle", "done"}
    /\ Use(r, {}, "done")

\* getIntentfulStrategy and getStatusUpdateStrategy find no strategy
NoStrategy(r, k) ==
    /\ Behaviour[k] \notin Behaviours
    /\ \E op \in {"update", "delete", "status"} : Start(r, op, k, "done", {})
    /\ UNCHANGED held

Request(r) ==
    \/ \E k \in Kinds : \/ StartCreate(r, k)
                        \/ StartUpdate(r, k)
                        \/ StartDelete(r, k)
                        \/ StartStatus(r, k)
                        \/ NoStrategy(r, k)
    \/ NameConstructed(r)
    \/ ValidateEntity(r)
    \/ FinishCreate(r)
    \/ SaveWatcher(r)
    \/ DiffStatus(r)
    \/ FailRequest(r)

StrategyNext == \E r \in Requests : Request(r)

StrategySpec == StrategyInit /\ [][StrategyNext]_strategyVars

-----------------------------------------------------------------------------
(* Properties                                                              *)

\* Strategies hold requests, and requests record uses of such.
StrategyTypeOK ==
    /\ held \in [Strategies -> Requests \cup {Nobody}]
    /\ request \in [Requests ->
           [op : {"none", "create", "update", "delete", "status"},
            kind : Kinds \cup {Nobody}, pc : Places,
            uses : SUBSET (Uses \X (Requests \cup {Nobody}))]]

\* The provider's constructor and destructor that a request calls are those
\* of its own kind, called on behalf of its own user: invoke_constructor and
\* invoke_destructor read the strategy before they await anything.
OwnProcedure ==
    \A r \in Requests : \A u \in request[r].uses :
        u[1] \in {"constructor", "destructor"} => u[2] = r

\* An entity created without a constructor is stored under the kind and the
\* provider it was requested for, although the same strategy goes on to
\* validate it by whatever kind it holds then.
OwnKindWithoutConstructor ==
    \A r \in Requests : \A u \in request[r].uses :
        u[1] = "metadata" /\ request[r].kind \notin Constructed => u[2] = r

\* What a request reads from its strategy was set by a request that fetched
\* the same strategy: kinds with a constructor do not meet kinds without one,
\* and a watcher's differences are taken with a kind of the same behaviour.
SharedByBehaviour ==
    \A r \in Requests : \A u \in request[r].uses :
        /\ u[2] \in Requests
        /\ request[r].op \in {"update", "delete"} =>
               Behaviour[request[u[2]].kind] = Behaviour[request[r].kind]
        /\ request[r].op = "create" =>
               (request[u[2]].kind \in Constructed)
                   = (request[r].kind \in Constructed)
=============================================================================
