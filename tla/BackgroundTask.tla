---------------------------- MODULE BackgroundTask ----------------------------
(***************************************************************************)
(* The background tasks of papiea-sdk (BackgroundTaskBuilder): a task is an *)
(* entity of a kind of its own, with one field, state, whose handler runs   *)
(* the task: the engine calls it, again and again, while the spec and the   *)
(* status of state differ.  start_task makes them differ, stop_task makes   *)
(* them equal, each by a spec update and a status update.                   *)
(*                                                                          *)
(* Every call of the builder is a chain of requests.  The arguments of a    *)
(* request are fixed when it is sent; task_entity is a field all calls read *)
(* and write; the engine refuses a spec update by its version and a status  *)
(* update by its hash, which is that of the last partial status written.    *)
(***************************************************************************)
EXTENDS Naturals

CONSTANTS
    Calls,         \* calls of the builder's methods
    Ids,           \* 1..n, entities the task may get
    Fields,        \* what update_task writes into the status
    Null,          \* no task_entity, no argument
    Absent, Gone   \* an entity not created yet, and a deleted one

VARIABLES
    entities,  \* the engine's entities of the kind
    task,      \* task_entity: the metadata last seen
    call,      \* the calls in progress
    lone       \* history: no two starts met, and no creation lost its answer

taskVars == <<entities, task, call, lone>>

Wanted(op) == IF op = "start" THEN "ShouldRun" ELSE "Idle"

Reached(op) == IF op = "start" THEN "Running" ELSE "Idle"

Alive(id) == entities[id] \notin {Absent, Gone}

Metadata(id) == [id |-> id, version |-> entities[id].version, hash |-> entities[id].hash]

InCall(c) == call[c].pc \notin {"idle", "ok", "failed"}

TaskInit ==
    /\ entities = [id \in Ids |-> Absent]
    /\ task = Null
    /\ call = [c \in Calls |-> [op |-> Null, pc |-> "idle", meta |-> Null, alone |-> TRUE]]
    /\ lone = TRUE

Continue(c, pc, meta) == call' = [call EXCEPT ![c].pc = pc, ![c].meta = meta]

End(c, how) == Continue(c, how, Null)

Steering == {"start", "stop", "kill"}

Operations == Steering \cup {"update"}

-----------------------------------------------------------------------------
(* A call begins: start_task creates without a task_entity, the others fail *)

\* Mutant: start_task creates an entity each time
CreateAlways(op) ==
    IF op = "start" THEN "create" ELSE IF task # Null THEN "get" ELSE "failed"

FirstStep(op) ==
    IF task # Null THEN "get" ELSE IF op = "start" THEN "create" ELSE "failed"

\* alone: no start, stop or kill overlaps this one
Begin(c, op) ==
    LET met(d) == d # c /\ InCall(d) /\ call[d].op \in Steering
    IN  /\ call[c].pc = "idle"
        /\ call' = [d \in Calls |->
               IF d = c
               THEN [op |-> op, pc |-> FirstStep(op), meta |-> task,
                     alone |-> ~ \E e \in Calls : met(e)]
               ELSE [call[d] EXCEPT !.alone = @ /\ (met(d) => op \notin Steering)]]
        /\ lone' = (lone /\ ~ (op = "start" /\ \E d \in Calls : met(d) /\ call[d].op = "start"))
        /\ UNCHANGED <<entities, task>>

-----------------------------------------------------------------------------
(* The engine serves the request of a call; the last answer may be lost    *)

\* The created status is the spec: nothing to do for the task until it is patched
ServeCreate(c) ==
    /\ call[c].pc = "create"
    /\ \E id \in Ids :
          /\ entities[id] = Absent
          /\ \A i \in Ids : i < id => entities[i] # Absent
          /\ entities' = [entities EXCEPT ![id] =
                [spec |-> "ShouldRun", state |-> "ShouldRun", version |-> 1, hash |-> "ShouldRun"]]
          /\ Continue(c, "created", [id |-> id, version |-> 1, hash |-> "ShouldRun"])
    /\ UNCHANGED <<task, lone>>

\* update_task_entity
ServeGet(c) ==
    /\ call[c].pc = "get"
    /\ IF Alive(call[c].meta.id) THEN Continue(c, "got", Metadata(call[c].meta.id))
       ELSE End(c, "failed")
    /\ UNCHANGED <<entities, task, lone>>

ServeSpec(c) ==
    LET m == call[c].meta
    IN  /\ call[c].pc = "spec"
        /\ \/ /\ Alive(m.id) /\ entities[m.id].version = m.version
              /\ entities' = [entities EXCEPT ![m.id].spec = Wanted(call[c].op),
                                              ![m.id].version = @ + 1]
              /\ Continue(c, "updated", m)
           \/ /\ ~ (Alive(m.id) /\ entities[m.id].version = m.version)
              /\ End(c, "failed")
              /\ UNCHANGED entities
        /\ UNCHANGED <<task, lone>>

HashMatches(m) == Alive(m.id) /\ entities[m.id].hash = m.hash

\* Mutant: update_task writes its field where the state is
PatchedState(e, op, partial) == [e EXCEPT !.hash = partial, !.state = partial]

Patched(e, op, partial) ==
    IF op = "update" THEN [e EXCEPT !.hash = partial]
    ELSE [e EXCEPT !.hash = partial, !.state = partial]

Partials(op) == IF op = "update" THEN Fields ELSE {Reached(op)}

ServeStatus(c) ==
    LET m == call[c].meta
    IN  /\ call[c].pc = "status"
        /\ \/ /\ HashMatches(m)
              /\ \E p \in Partials(call[c].op) :
                    entities' = [entities EXCEPT ![m.id] = Patched(@, call[c].op, p)]
              /\ \E answer \in {"ok", "failed"} : End(c, answer)
           \/ /\ ~ HashMatches(m)
              /\ End(c, "failed")
              /\ UNCHANGED entities
        /\ UNCHANGED <<task, lone>>

ServeDelete(c) ==
    /\ call[c].pc = "delete"
    /\ entities' = [entities EXCEPT ![call[c].meta.id] = Gone]
    /\ \E answer \in {"ok", "failed"} : End(c, IF Alive(call[c].meta.id) THEN answer ELSE "failed")
    /\ UNCHANGED <<task, lone>>

-----------------------------------------------------------------------------
(* The builder goes on with the answer                                     *)

\* Mutant: stop_task patches the status only
OnlyStatus(op) == CASE op = "start" -> "spec" [] op = "kill" -> "delete" [] OTHER -> "status"

AfterGet(op) == CASE op = "update" -> "status" [] op = "kill" -> "delete" [] OTHER -> "spec"

Take(c) ==
    /\ call[c].pc \in {"created", "got"}
    /\ task' = call[c].meta
    /\ Continue(c, IF call[c].pc = "created" THEN "status" ELSE AfterGet(call[c].op), task')
    /\ UNCHANGED <<entities, lone>>

\* The status update goes with the task_entity of this moment
SendStatus(c) ==
    /\ call[c].pc = "updated"
    /\ Continue(c, "status", task)
    /\ UNCHANGED <<entities, task, lone>>

\* A request fails before it is served, or the answer of a served one is lost
Fails(c) ==
    /\ InCall(c)
    /\ End(c, "failed")
    /\ lone' = (lone /\ call[c].pc # "created")
    /\ UNCHANGED <<entities, task>>

TaskNext ==
    \E c \in Calls :
        \/ \E op \in Operations : Begin(c, op)
        \/ ServeCreate(c) \/ ServeGet(c) \/ ServeSpec(c) \/ ServeStatus(c) \/ ServeDelete(c)
        \/ Take(c) \/ SendStatus(c) \/ Fails(c)

TaskSpec == TaskInit /\ [][TaskNext]_taskVars

-----------------------------------------------------------------------------
(* Properties                                                              *)

Hashes == {"ShouldRun", "Running", "Idle"} \cup Fields

Metadatas == [id : Ids, version : Nat, hash : Hashes]

Entities == [spec : {"ShouldRun", "Idle"}, version : Nat, hash : Hashes,
             state : {"ShouldRun", "Running", "Idle"}]

\* The markers are told apart from what they mark the absence of
ASSUME TaskMarkers ==
    /\ Null \notin Metadatas \cup Operations
    /\ Absent \notin Entities /\ Gone \notin Entities /\ Absent # Gone

\* The variables have their types.
TaskTypeOK ==
    /\ entities \in [Ids -> Entities \cup {Absent, Gone}]
    /\ task = Null \/ task \in Metadatas
    /\ \A c \in Calls :
          /\ call[c].pc \in {"idle", "create", "created", "get", "got", "spec", "updated",
                             "status", "delete", "ok", "failed"}
          /\ InCall(c) => call[c].op \in Operations
          /\ InCall(c) /\ call[c].pc # "create" => call[c].meta \in Metadatas
          /\ call[c].alone \in BOOLEAN
    /\ lone \in BOOLEAN

\* While the task has one entity, a start_task or stop_task that no other start,
\* stop or kill overlapped does not report success unless the task runs, or is
\* idle, as it asked: whatever calls failed before it, and whatever update_task
\* wrote meanwhile.
TrueReport ==
    lone => \A c \in Calls :
        LET m == call[c].meta IN
        call[c].op \in {"start", "stop"} /\ call[c].alone /\ InCall(c) /\ call'[c].pc = "ok"
        => /\ entities'[m.id].spec = Wanted(call[c].op)
           /\ entities'[m.id].state = Reached(call[c].op)

ReportsTheState == [][TrueReport]_taskVars

\* Unless two starts met, or a creation lost its answer, there is one entity at
\* most, and it is the one task_entity names: no task runs that the provider
\* can no longer stop.
NoForgottenTask ==
    lone => \A id \in Ids : Alive(id) =>
        \/ task # Null /\ task.id = id
        \/ \E c \in Calls : call[c].pc = "created" /\ call[c].meta.id = id
=============================================================================
