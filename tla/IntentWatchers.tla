---------------------------- MODULE IntentWatchers ----------------------------
(***************************************************************************)
(* The intent watchers of one entity of papiea-engine: the requests that   *)
(* change its spec and save a watcher for the change                       *)
(* (constructor_entity_creation_strategy.ts,                               *)
(* differ_intentful_strategy.ts), and the two loops of the resolver        *)
(* process that judge active watchers: the listener, which polls the       *)
(* listed entities for changes (intentful_listener_mongo_simple.ts), and   *)
(* the periodic pass of the intent resolver (intent_resolver.ts).          *)
(*                                                                         *)
(* Both loops read the entity first, then the active watchers, and write   *)
(* each watcher back without a compare; they interleave at every database  *)
(* call, with each other and with the requests.  There is one action per   *)
(* database call, with the code up to the next call.                       *)
(*                                                                         *)
(* The diff resolver appears by what it does to the watchlist: it removes  *)
(* an entity that it finds without diffs, or does not find, or cannot      *)
(* compare, and adds random entities.                                      *)
(*                                                                         *)
(* The graveyard and the hash of the status are in EntityStore.  Without   *)
(* them more happens here: a creation that names no version, which the     *)
(* engine takes from the graveyard, or one that the graveyard refuses, is  *)
(* one that names any version, a provider's status never conflicts, and    *)
(* that of a creation only with one that is already there.                 *)
(***************************************************************************)
EXTENDS Naturals, FiniteSets, Sequences

CONSTANTS
  Fields, Values,  \* fields of specs and statuses, and what they may hold
  Compound,        \* the values that are objects or arrays
  Signatures,      \* the fields of each intentful signature, in their order
  Updates,         \* the requests that change the spec; each runs once
  CreateVersions,  \* metadata.spec_version in creations
  UpdateVersions,  \* metadata.spec_version in spec updates
  Given,           \* the statuses that constructors and providers give
  None             \* a missing document

ASSUME SignaturesAssumption ==
  /\ Signatures \in Seq((SUBSET Fields) \ {{}}) \ {<<>>}
  /\ Compound \subseteq Values

(* Specs are complete; statuses may miss fields.                            *)
Specs == [Fields -> Values]
Statuses == UNION {[F -> Values] : F \in SUBSET Fields}

ASSUME RequestsAssumption ==
  /\ CreateVersions \cup UpdateVersions \subseteq Nat
  /\ Given \subseteq Statuses

(* A diff maps the fields of its signature to the values the spec gives     *)
(* them.  The diffs of a watcher are a set: the judgement compares counts   *)
(* with 0 and with the number of all diffs, which duplicates do not change. *)
Diffs == UNION {[F -> Values] : F \in SUBSET Fields}

(* An upsert over a deletion leaves a document with a spec or a status      *)
(* only; without a spec it has no spec_version either, here 0.              *)
Entities == [version : Nat, spec : Specs \cup {None}, status : Statuses \cup {None}]

ASSUME NoneAssumption == None \notin Entities \cup Specs \cup Statuses

Terminal == {"Completed Partially", "Completed Successfully", "Outdated"}

Watchers == [version : Nat, diffs : SUBSET Diffs, status : {"Active"} \cup Terminal]

Loops == {"listener", "periodic"}

VARIABLES
  entity,    \* the live entity, or None
  listed,    \* the entity has an entry in the watchlist
  watchers,  \* the watcher of every update, None before and after its time
  upd,       \* the state of every update
  known,     \* the entity as the listener has seen it last, or None
  pass,      \* the state of both loops
  newest,    \* history: the highest spec_version that a spec was written with
  removed    \* history: an entity has been deleted

vars == <<entity, listed, watchers, upd, known, pass, newest, removed>>

history == <<newest, removed>>

------------------------------------------------------------------------------
(* Diffs *)

(* The differ throws on a spec or a status that is not there.               *)
Comparable(e) == e.spec # None /\ e.status # None

(* A signature reports a diff when all its fields differ.                   *)
Differs(e, i) ==
  \A f \in Signatures[i] : f \in DOMAIN e.status => e.spec[f] # e.status[f]

DiffOf(e, i) == [f \in Signatures[i] |-> e.spec[f]]

AllDiffs(e) == {DiffOf(e, i) : i \in {j \in DOMAIN Signatures : Differs(e, j)}}

(* The signatures of the current diffs that share a field with diff d.      *)
Sharing(e, d) ==
  {i \in DOMAIN Signatures : Differs(e, i) /\ Signatures[i] \cap DOMAIN d # {}}

(* getExisting: the first of them, if there is one.                         *)
Existing(e, d) == {i \in Sharing(e, d) : \A j \in Sharing(e, d) : i <= j}

(* pathValuesEqual compares with !==: an object is never equal to another.  *)
PathValuesEqual(e, d) == \A f \in DOMAIN d : e.spec[f] = d[f] /\ d[f] \notin Compound

------------------------------------------------------------------------------
(* The judgement of a watcher, processActiveWatcher *)

(* Mutant: the spec versions are not compared.                              *)
AffectedAnyVersion(e, w) == {d \in w.diffs : ~ PathValuesEqual(e, d)}

Affected(e, w) ==
  IF e.version > w.version THEN {d \in w.diffs : ~ PathValuesEqual(e, d)} ELSE {}

Unresolved(e, w) == {d \in w.diffs \ Affected(e, w) : Existing(e, d) # {}}

Resolved(e, w) == w.diffs \ (Affected(e, w) \cup Unresolved(e, w))

(* Mutant: nothing is returned in the end.                                  *)
StatusWithoutDefault(e, w) ==
  IF Affected(e, w) # {}
    THEN IF Resolved(e, w) # {} THEN "Completed Partially"
         ELSE IF Affected(e, w) = w.diffs THEN "Outdated"
         ELSE None
    ELSE IF Resolved(e, w) = w.diffs THEN "Completed Successfully"
         ELSE None

(* Mutant: a watcher completes by the diffs it has resolved.                *)
StatusByResolved(e, w) ==
  IF Affected(e, w) # {}
    THEN IF Resolved(e, w) # {} THEN "Completed Partially" ELSE "Outdated"
    ELSE IF Unresolved(e, w) = {} /\ Resolved(e, w) # {} THEN "Completed Successfully"
         ELSE "Active"

DetermineWatcherStatus(e, w) ==
  IF Affected(e, w) # {}
    THEN IF Resolved(e, w) # {} THEN "Completed Partially"
         ELSE IF Affected(e, w) = w.diffs THEN "Outdated"
         ELSE "Active"
    ELSE IF Resolved(e, w) = w.diffs THEN "Completed Successfully"
         ELSE "Active"

Judged(e, w) ==
  [w EXCEPT !.status = DetermineWatcherStatus(e, w),
            !.diffs = {DiffOf(e, i) : i \in UNION {Existing(e, d) : d \in Unresolved(e, w)}}]

------------------------------------------------------------------------------

EndedUpdate(how) == [pc |-> how, version |-> 0, spec |-> None, diffs |-> {}]

IdlePass == [pc |-> "idle", entity |-> None, todo |-> {}]

(* The entity does not exist yet, or has just been created.                 *)
Init ==
  /\ \/ entity = None /\ newest = 0
     \/ /\ entity \in {[version |-> 1, spec |-> s, status |-> s] : s \in Specs}
        /\ newest = 1
  /\ listed = FALSE
  /\ watchers = [u \in Updates |-> None]
  /\ upd = [u \in Updates |-> EndedUpdate("idle")]
  /\ known = None
  /\ pass = [l \in Loops |-> IdlePass]
  /\ removed = FALSE

------------------------------------------------------------------------------
(* The requests *)

GotoUpdate(u, pc) == upd' = [upd EXCEPT ![u] = EndedUpdate(pc)]

EndUpdate(u) == GotoUpdate(u, "done")

(* A request with the version it names.                                     *)
Arrive(u, pc, versions) ==
  /\ upd[u].pc = "idle"
  /\ \E v \in versions, spec \in Specs :
       upd' = [upd EXCEPT ![u] = [pc |-> pc, version |-> v, spec |-> spec, diffs |-> {}]]
  /\ UNCHANGED <<entity, listed, watchers, known, pass, history>>

(* A creation, by a constructor or plain, that finds no entity with its     *)
(* uuid: the first, or one after a deletion.                                *)
Construct(u) == entity = None /\ Arrive(u, "create", CreateVersions)

(* A spec update, which reads the entity first.                             *)
Update(u) == entity # None /\ Arrive(u, "update", UpdateVersions)

(* update_spec of either is an upsert: it increments the version that it    *)
(* matches, inserts a document when there is none, and conflicts with       *)
(* another version.  The watcher of an update gets this version; a creation *)
(* goes on with the status.                                                 *)
WriteSpec(u) ==
  /\ upd[u].pc \in {"create", "update"}
  /\ LET version == upd[u].version + 1
         matches == entity.spec # None /\ entity.version = upd[u].version
     IN
     \/ /\ entity # None => matches
        /\ entity' = [version |-> version, spec |-> upd[u].spec,
                      status |-> IF entity = None THEN None ELSE entity.status]
        /\ newest' = IF version > newest THEN version ELSE newest
        /\ upd' = [upd EXCEPT ![u] =
             IF upd[u].pc = "create" THEN [EndedUpdate("status") EXCEPT !.spec = upd[u].spec]
             ELSE [EndedUpdate("updated") EXCEPT !.version = version]]
     \/ /\ entity # None
        /\ ~ matches
        /\ EndUpdate(u)
        /\ UNCHANGED <<entity, newest>>
  /\ UNCHANGED <<listed, watchers, known, pass, removed>>

(* What a status operation leaves, which is an upsert, too.                 *)
StoreStatus(status) ==
  entity' = IF entity = None THEN [version |-> 0, spec |-> None, status |-> status]
            ELSE [entity EXCEPT !.status = status]

(* The status of a creation: that of the constructor, or the spec.  There   *)
(* is a watcher when they differ.  A status that came before is a conflict. *)
WriteStatus(u) ==
  /\ upd[u].pc = "status"
  /\ \/ /\ entity # None => entity.status = None
        /\ \E status \in Given \cup {upd[u].spec} :
             /\ StoreStatus(status)
             /\ GotoUpdate(u, IF status = upd[u].spec THEN "done" ELSE "created")
     \/ /\ entity # None /\ entity.status # None
        /\ EndUpdate(u)
        /\ UNCHANGED entity
  /\ UNCHANGED <<listed, watchers, known, pass, history>>

(* The entity is read back for the diffs of the watcher, and, after a       *)
(* creation, for its version.                                               *)
ReadBack(u) ==
  /\ upd[u].pc \in {"created", "updated"}
  /\ \/ /\ entity # None => ~ Comparable(entity)
        /\ EndUpdate(u)
     \/ /\ entity # None /\ Comparable(entity)
        /\ upd' = [upd EXCEPT ![u] =
             [pc |-> "save", spec |-> None, diffs |-> AllDiffs(entity),
              version |-> IF upd[u].pc = "created" THEN entity.version ELSE upd[u].version]]
  /\ UNCHANGED <<entity, listed, watchers, known, pass, history>>

SaveWatcher(u) ==
  /\ upd[u].pc = "save"
  /\ watchers' = [watchers EXCEPT ![u] = [version |-> upd[u].version,
                                          diffs |-> upd[u].diffs, status |-> "Active"]]
  /\ GotoUpdate(u, "list")
  /\ UNCHANGED <<entity, listed, known, pass, history>>

AddToWatchlist(u) ==
  /\ upd[u].pc = "list"
  /\ listed' = TRUE
  /\ EndUpdate(u)
  /\ UNCHANGED <<entity, watchers, known, pass, history>>

(* A database error, or the end of the engine process.                      *)
FailUpdate(u) ==
  /\ upd[u].pc \notin {"idle", "done"}
  /\ EndUpdate(u)
  /\ UNCHANGED <<entity, listed, watchers, known, pass, history>>

------------------------------------------------------------------------------
(* The rest of the engine *)

(* A provider replaces the status, or updates a part of it, to this one.    *)
SetStatus(status) ==
  /\ StoreStatus(status)
  /\ UNCHANGED <<listed, watchers, upd, known, pass, history>>

DeleteEntity ==
  /\ entity # None
  /\ entity' = None
  /\ removed' = TRUE
  /\ UNCHANGED <<listed, watchers, upd, known, pass, newest>>

(* The diff resolver drops the entry: some time before, it has found the    *)
(* entity missing, has found it without diffs, or has failed to compare it. *)
RemoveFromWatchlist ==
  /\ listed
  /\ listed' = FALSE
  /\ UNCHANGED <<entity, watchers, upd, known, pass, history>>

AddRandomEntities ==
  /\ entity # None
  /\ ~ listed
  /\ listed' = TRUE
  /\ UNCHANGED <<entity, watchers, upd, known, pass, history>>

------------------------------------------------------------------------------
(* The listener *)

GotoPass(l, pc) == pass' = [pass EXCEPT ![l].pc = pc]

EndPass(l) == pass' = [pass EXCEPT ![l] = IdlePass]

ListenerWatchlist ==
  /\ pass["listener"].pc = "idle"
  /\ listed
  /\ GotoPass("listener", "entity")
  /\ UNCHANGED <<entity, listed, watchers, upd, known, history>>

(* check_watchlist_changes: the first sight of an entity is only recorded.  *)
ListenerEntity ==
  /\ pass["listener"].pc = "entity"
  /\ \/ entity = None /\ EndPass("listener") /\ UNCHANGED known
     \/ /\ entity # None
        /\ known' = [spec |-> entity.spec, status |-> entity.status]
        /\ IF known = None \/ known' = known
             THEN EndPass("listener")
             ELSE pass' = [pass EXCEPT !["listener"].pc = "watchers",
                                       !["listener"].entity = entity]
  /\ UNCHANGED <<entity, listed, watchers, upd, history>>

------------------------------------------------------------------------------
(* The periodic pass of the intent resolver *)

(* clearTerminalStateWatchers lists the watchers, and deletes those that    *)
(* ended long ago.                                                          *)
ListTerminal ==
  /\ pass["periodic"].pc = "idle"
  /\ \E S \in SUBSET {u \in Updates : watchers[u] # None /\ watchers[u].status \in Terminal} :
       pass' = [pass EXCEPT !["periodic"].pc = IF S = {} THEN "watchlist" ELSE "clear",
                            !["periodic"].todo = S]
  /\ UNCHANGED <<entity, listed, watchers, upd, known, history>>

DeleteWatcher(u) ==
  /\ pass["periodic"].pc = "clear"
  /\ u \in pass["periodic"].todo
  /\ watchers' = [watchers EXCEPT ![u] = None]
  /\ pass' = [pass EXCEPT
       !["periodic"].pc = IF pass["periodic"].todo = {u} THEN "watchlist" ELSE @,
       !["periodic"].todo = @ \ {u}]
  /\ UNCHANGED <<entity, listed, upd, known, history>>

PeriodicWatchlist ==
  /\ pass["periodic"].pc = "watchlist"
  /\ IF listed THEN GotoPass("periodic", "any") ELSE EndPass("periodic")
  /\ UNCHANGED <<entity, listed, watchers, upd, known, history>>

ActiveWatchers == {u \in Updates : watchers[u] # None /\ watchers[u].status = "Active"}

HasWatcher ==
  /\ pass["periodic"].pc = "any"
  /\ IF ActiveWatchers = {} THEN EndPass("periodic") ELSE GotoPass("periodic", "entity")
  /\ UNCHANGED <<entity, listed, watchers, upd, known, history>>

PeriodicEntity ==
  /\ pass["periodic"].pc = "entity"
  /\ \/ entity = None /\ EndPass("periodic")
     \/ /\ entity # None
        /\ pass' = [pass EXCEPT !["periodic"].pc = "watchers", !["periodic"].entity = entity]
  /\ UNCHANGED <<entity, listed, watchers, upd, known, history>>

------------------------------------------------------------------------------
(* onChange, in either loop *)

ListActiveWatchers(l) ==
  /\ pass[l].pc = "watchers"
  /\ IF ActiveWatchers = {}
       THEN EndPass(l)
       ELSE /\ Comparable(pass[l].entity)
            /\ pass' = [pass EXCEPT
                 ![l] = [pc |-> "write", entity |-> None,
                         todo |-> {[of |-> u, as |-> Judged(pass[l].entity, watchers[u])] :
                                     u \in ActiveWatchers}]]
  /\ UNCHANGED <<entity, listed, watchers, upd, known, history>>

(* Mutant: update_watcher is an upsert.                                     *)
UpdateWatcherUpsert(u, w) == watchers' = [watchers EXCEPT ![u] = w]

(* update_watcher writes the status and the diffs of an existing watcher.   *)
UpdateWatcher(u, w) ==
  watchers' = [watchers EXCEPT ![u] = IF @ = None THEN None ELSE w]

ProcessActiveWatcher(l, u) ==
  /\ pass[l].pc = "write"
  /\ \E t \in pass[l].todo :
       /\ t.of = u
       /\ UpdateWatcher(u, t.as)
       /\ IF pass[l].todo = {t} THEN EndPass(l)
          ELSE pass' = [pass EXCEPT ![l].todo = @ \ {t}]
  /\ UNCHANGED <<entity, listed, upd, known, history>>

(* onChange, and the periodic pass around it, log an error, that of the     *)
(* differ among them, and go on with the next entity.                       *)
Abandon(l) ==
  /\ \/ pass[l].pc \in {"watchers", "write"}
     \/ l = "periodic" /\ pass[l].pc = "entity"
  /\ EndPass(l)
  /\ UNCHANGED <<entity, listed, watchers, upd, known, history>>

(* Elsewhere an error ends the loop, and nothing awaits its promise; in the *)
(* listener so may one in the error handler of onChange, which iterates a   *)
(* cursor it has closed.  What the listener knew is of no use any more.      *)
Die(l) ==
  /\ pass[l].pc \in IF l = "listener" THEN {"idle", "entity", "watchers", "write"}
                    ELSE {"idle", "clear", "watchlist", "any"}
  /\ pass' = [pass EXCEPT ![l] = [IdlePass EXCEPT !.pc = "dead"]]
  /\ known' = IF l = "listener" THEN None ELSE known
  /\ UNCHANGED <<entity, listed, watchers, upd, history>>

(* The resolver process starts again.                                       *)
Restart ==
  /\ pass' = [l \in Loops |-> IdlePass]
  /\ known' = None
  /\ UNCHANGED <<entity, listed, watchers, upd, history>>

------------------------------------------------------------------------------

Request(u) ==
  \/ Construct(u) \/ Update(u) \/ WriteSpec(u) \/ WriteStatus(u)
  \/ ReadBack(u) \/ SaveWatcher(u) \/ AddToWatchlist(u) \/ FailUpdate(u)

Engine ==
  \/ \E status \in Given : SetStatus(status)
  \/ DeleteEntity \/ RemoveFromWatchlist \/ AddRandomEntities

OnChange(l) == ListActiveWatchers(l) \/ \E u \in Updates : ProcessActiveWatcher(l, u)

Listener == ListenerWatchlist \/ ListenerEntity \/ OnChange("listener")

Periodic ==
  \/ ListTerminal \/ (\E u \in Updates : DeleteWatcher(u))
  \/ PeriodicWatchlist \/ HasWatcher \/ PeriodicEntity \/ OnChange("periodic")

Next ==
  \/ \E u \in Updates : Request(u)
  \/ Engine
  \/ Listener
  \/ Periodic
  \/ \E l \in Loops : Abandon(l) \/ Die(l)
  \/ Restart

Spec == Init /\ [][Next]_vars

(* The loops go on and their calls do not fail each time; random entities   *)
(* are added again and again, also while the periodic pass, whose delay is  *)
(* its own, is about to read the watchlist.                                 *)
Fairness ==
  /\ WF_vars(Listener)
  /\ SF_vars(ListTerminal \/ \E u \in Updates : DeleteWatcher(u))
  /\ WF_vars(PeriodicWatchlist)
  /\ SF_vars(AddRandomEntities /\ pass["periodic"].pc = "watchlist")
  /\ SF_vars(PeriodicWatchlist /\ listed)
  /\ SF_vars(HasWatcher)
  /\ SF_vars(PeriodicEntity)
  /\ SF_vars(ListActiveWatchers("periodic"))
  /\ \A u \in Updates : SF_vars(ProcessActiveWatcher("periodic", u))

FairSpec == Spec /\ Fairness

------------------------------------------------------------------------------
(* Properties *)

UpdateStates ==
  [pc : {"idle", "create", "update", "status", "created", "updated", "save", "list", "done"},
   version : Nat, spec : Specs \cup {None}, diffs : SUBSET Diffs]

Todo == Updates \cup [of : Updates, as : Watchers]

PassStates ==
  [pc : {"idle", "entity", "watchers", "write", "clear", "watchlist", "any", "dead"},
   entity : Entities \cup {None}, todo : SUBSET Todo]

TypeOK ==
  /\ entity \in Entities \cup {None}
  /\ listed \in BOOLEAN
  /\ watchers \in [Updates -> Watchers \cup {None}]
  /\ upd \in [Updates -> UpdateStates]
  /\ known \in [spec : Specs \cup {None}, status : Statuses \cup {None}] \cup {None}
  /\ pass \in [Loops -> PassStates]
  /\ newest \in Nat
  /\ removed \in BOOLEAN

(* What an update, or a loop, holds depends on where it stands.             *)
UpdateShape(q) == q.pc \in {"create", "update", "status"} => q.spec \in Specs

Shape(q) ==
  /\ q.pc = "watchers" => q.entity \in Entities
  /\ q.pc = "write" => q.todo \subseteq [of : Updates, as : Watchers]

TypeInv ==
  /\ TypeOK
  /\ \A u \in Updates : UpdateShape(upd[u])
  /\ \A l \in Loops : Shape(pass[l])

(* A watcher is judged outdated or partially completed only when its entity *)
(* has had a newer spec, whichever of the two loops wrote last; the live    *)
(* entity has it as long as no entity was deleted.  After a deletion the    *)
(* entity may come back with an older version than its watchers.            *)
OnlySuperseded ==
  \A u \in Updates :
    watchers[u] # None /\ watchers[u].status \in {"Outdated", "Completed Partially"} =>
      /\ newest > watchers[u].version
      /\ ~ removed => entity # None /\ entity.version > watchers[u].version

(* Its inductive form.  The live entity is not newer than the newest spec,  *)
(* and has it without deletions; no loop holds a newer one either.          *)
Superseded(w) == w.status \in {"Outdated", "Completed Partially"} => newest > w.version

LiveNotNewer ==
  /\ entity # None => entity.version <= newest
  /\ ~ removed => newest = IF entity = None THEN 0 ELSE entity.version

HeldNotNewer ==
  \A l \in Loops :
    /\ pass[l].pc = "watchers" => pass[l].entity.version <= newest
    /\ pass[l].pc = "write" => \A t \in pass[l].todo : Superseded(t.as)

NewestInv ==
  /\ LiveNotNewer
  /\ HeldNotNewer
  /\ \A u \in Updates : watchers[u] # None => Superseded(watchers[u])

SupersededInv == TypeInv /\ NewestInv

(* Only the request that makes a change creates its watcher: a loop that    *)
(* still holds a watcher does not bring it back after it was deleted.       *)
DeletedStaysDeleted ==
  [][\A u \in Updates :
       watchers[u] = None /\ watchers'[u] # None => upd[u].pc = "save"]_vars

(* When the entity stays without diffs, no request is on its way and the    *)
(* periodic pass lives, every watcher ends and stays so, although a loop    *)
(* may write an older judgement over a newer one.                           *)
Quiet ==
  /\ entity # None /\ Comparable(entity) /\ AllDiffs(entity) = {}
  /\ \A u \in Updates : upd[u].pc \in {"idle", "done"}
  /\ pass["periodic"].pc # "dead"

Ended ==
  \A u \in Updates : watchers[u] # None => watchers[u].status \in Terminal

WatchersEnd == <>[]Quiet => <>[]Ended

==============================================================================
