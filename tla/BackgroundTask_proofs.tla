------------------------- MODULE BackgroundTask_proofs -------------------------
(* Proofs about BackgroundTask: a start or stop that nobody overlapped reports  *)
(* the truth, and no task is forgotten.  The argument is that, while no two     *)
(* starts meet, whoever creates the entity is alone in doing so and finds none  *)
(* created before, so that every call speaks of one entity.                     *)
EXTENDS BackgroundTask, TLAPS

Progress == {"idle", "create", "created", "get", "got", "spec", "updated", "status",
             "delete", "ok", "failed"}

CallRecords == [op : Operations \cup {Null}, pc : Progress, meta : Metadatas \cup {Null},
                alone : BOOLEAN]

Types ==
    /\ entities \in [Ids -> Entities \cup {Absent, Gone}]
    /\ task \in Metadatas \cup {Null}
    /\ call \in [Calls -> CallRecords]
    /\ lone \in BOOLEAN

Steers(c) == InCall(c) /\ call[c].op \in Steering

Creates(c) == call[c].pc \in {"create", "created"}

\* What the progress of a call says of it
Steps ==
    \A c \in Calls :
        LET q == call[c]
        IN  /\ InCall(c) => q.op \in Operations
            /\ Creates(c) => q.op = "start"
            /\ q.pc \in {"spec", "updated"} => q.op \in {"start", "stop"}
            /\ q.pc = "status" => q.op # "kill"
            /\ q.pc = "delete" => q.op = "kill"
            /\ InCall(c) /\ q.pc # "create" => q.meta # Null
            /\ InCall(c) /\ ~ Creates(c) => task # Null

\* Who was alone still is
Alones ==
    \A c, d \in Calls : Steers(c) /\ call[c].alone /\ d # c => ~ Steers(d)

\* One start at a time, and none creates once there is a task_entity
OneStart ==
    lone => /\ \A c, d \in Calls : Steers(c) /\ Steers(d) /\ call[c].op = "start"
                                   /\ call[d].op = "start" => c = d
            /\ \A c \in Calls : Creates(c) => task = Null

\* All calls speak of the entity of task_entity, and there is no other
OneEntity ==
    lone => /\ \A c \in Calls : InCall(c) /\ ~ Creates(c) => call[c].meta.id = task.id
            /\ \A id \in Ids : entities[id] # Absent =>
                   \/ task # Null /\ task.id = id
                   \/ \E c \in Calls : call[c].pc = "created" /\ call[c].meta.id = id

\* Past its spec update, a call that nobody overlapped has the spec it wants
SpecIsWanted ==
    lone => \A c \in Calls :
        /\ call[c].alone /\ Steers(c) /\ call[c].pc \in {"created", "updated", "status"}
        /\ Alive(call[c].meta.id)
        => entities[call[c].meta.id].spec = Wanted(call[c].op)

TaskInv == Types /\ Steps /\ Alones /\ OneStart /\ OneEntity /\ SpecIsWanted

-----------------------------------------------------------------------------

\* What a call is after a step of its own.
LEMMA ContinueFacts ==
    ASSUME Types, NEW c \in Calls, NEW pc \in Progress, NEW meta \in Metadatas \cup {Null},
           Continue(c, pc, meta)
    PROVE  /\ call' \in [Calls -> CallRecords]
           /\ \A d \in Calls : d # c => call'[d] = call[d]
           /\ call'[c].op = call[c].op /\ call'[c].alone = call[c].alone
           /\ call'[c].pc = pc /\ call'[c].meta = meta
  <1>1. call' = [call EXCEPT ![c].pc = pc, ![c].meta = meta]
    BY DEF Continue
  <1>2. call \in [Calls -> CallRecords]
    BY DEF Types
  <1>3. call'[c] = [call[c] EXCEPT !.pc = pc, !.meta = meta]
    BY <1>1, <1>2
  <1>4. call[c] \in CallRecords
    BY <1>2
  <1>5. call'[c] \in CallRecords
    BY <1>3, <1>4 DEF CallRecords
  <1>6. call' \in [Calls -> CallRecords]
    BY <1>1, <1>2, <1>5
  <1> QED
    BY <1>1, <1>2, <1>3, <1>4, <1>6 DEF CallRecords

\* An entity stays one when its spec is updated.
LEMMA SpecOfEntity ==
    ASSUME NEW e \in Entities, NEW w \in {"ShouldRun", "Idle"},
           NEW f, f = [e EXCEPT !.spec = w, !.version = e.version + 1]
    PROVE  f \in Entities /\ f.spec = w
  <1>1. /\ e = [spec |-> e.spec, version |-> e.version, hash |-> e.hash, state |-> e.state]
        /\ e.version + 1 \in Nat /\ e.hash \in Hashes
        /\ e.state \in {"ShouldRun", "Running", "Idle"}
    BY DEF Entities
  <1>2. f = [spec |-> w, version |-> e.version + 1, hash |-> e.hash, state |-> e.state]
    BY <1>1
  <1> QED
    BY <1>1, <1>2 DEF Entities

\* The invariant holds before any call.
LEMMA TaskInitInv ==
    ASSUME TaskInit
    PROVE  TaskInv
  <1>1. \A c \in Calls : ~ InCall(c) /\ ~ Steers(c) /\ ~ Creates(c)
    BY DEF TaskInit, InCall, Steers, Creates
  <1>2. \A c \in Calls : call[c].pc = "idle"
    BY DEF TaskInit
  <1>3. Types
    BY DEF TaskInit, Types, CallRecords, Progress
  <1>4. Steps /\ Alones /\ OneStart
    BY <1>1, <1>2 DEF Steps, Alones, OneStart
  <1>5. OneEntity /\ SpecIsWanted
    BY <1>1 DEF TaskInit, OneEntity, SpecIsWanted
  <1> QED
    BY <1>3, <1>4, <1>5 DEF TaskInv

\* A call ends, and creates nothing.
LEMMA EndKeeps ==
    ASSUME TaskInv, NEW c \in Calls, NEW how \in {"ok", "failed"},
           End(c, how), InCall(c), task' = task, lone' \in {lone, FALSE},
           call[c].pc = "created" => ~ lone',
           entities' \in [Ids -> Entities \cup {Absent, Gone}],
           lone => \A id \in Ids : entities'[id] # Absent =>
               entities[id] # Absent \/ (task # Null /\ task.id = id),
           \A id \in Ids : Alive(id)' => Alive(id) /\ entities'[id].spec = entities[id].spec
    PROVE  TaskInv'
  <1>a. /\ call' \in [Calls -> CallRecords]
        /\ \A d \in Calls : d # c => call'[d] = call[d]
        /\ call'[c].op = call[c].op /\ call'[c].alone = call[c].alone
        /\ call'[c].pc = how /\ call'[c].meta = Null
    <2>1. Continue(c, how, Null) /\ how \in Progress
      BY DEF End, Progress
    <2> QED
      BY <2>1, ContinueFacts DEF TaskInv
  <1>b. \A d \in Calls : d # c => /\ InCall(d)' <=> InCall(d)
                                  /\ Steers(d)' <=> Steers(d)
                                  /\ Creates(d)' <=> Creates(d)
    BY <1>a DEF InCall, Steers, Creates
  <1>c. ~ InCall(c)' /\ ~ Steers(c)' /\ ~ Creates(c)'
    BY <1>a DEF InCall, Steers, Creates
  <1>1. Types'
    BY <1>a, <1>b DEF TaskInv, Types
  <1>2. Steps'
    BY <1>a, <1>b, <1>c DEF TaskInv, Steps, Steers, Creates, InCall, Operations, Steering
  <1>3. Alones'
    BY <1>a, <1>b, <1>c DEF TaskInv, Alones
  <1>4. OneStart'
    BY <1>a, <1>b, <1>c DEF TaskInv, OneStart
  <1>5. OneEntity'
    <2> SUFFICES ASSUME lone'
                 PROVE  /\ \A d \in Calls : InCall(d)' /\ ~ Creates(d)' => call'[d].meta.id = task.id
                        /\ \A id \in Ids : entities'[id] # Absent =>
                               \/ task # Null /\ task.id = id
                               \/ \E d \in Calls : call'[d].pc = "created" /\ call'[d].meta.id = id
      BY DEF OneEntity, InCall
    <2>1. lone /\ call[c].pc # "created"
      OBVIOUS
    <2>2. \A d \in Calls : InCall(d)' /\ ~ Creates(d)' => call'[d].meta.id = task.id
      BY <2>1, <1>a, <1>b, <1>c DEF TaskInv, OneEntity
    <2>3. ASSUME NEW id \in Ids, entities'[id] # Absent, ~ (task # Null /\ task.id = id)
          PROVE  \E d \in Calls : call'[d].pc = "created" /\ call'[d].meta.id = id
      <3>1. PICK d \in Calls : call[d].pc = "created" /\ call[d].meta.id = id
        BY <2>1, <2>3 DEF TaskInv, OneEntity
      <3> QED
        BY <3>1, <2>1, <1>a
    <2> QED
      BY <2>2, <2>3
  <1>6. SpecIsWanted'
    <2> SUFFICES ASSUME lone', NEW d \in Calls, call'[d].alone, Steers(d)',
                        call'[d].pc \in {"created", "updated", "status"},
                        Alive(call[d].meta.id)'
                 PROVE  entities'[call'[d].meta.id].spec = Wanted(call'[d].op)
      BY DEF SpecIsWanted, Wanted
    <2>1. d # c /\ call'[d] = call[d] /\ Steers(d)
      BY <1>a, <1>b, <1>c
    <2>2. call[d].meta # Null /\ call[d].meta.id \in Ids
      BY <2>1 DEF TaskInv, Types, CallRecords, Metadatas, Steps, Steers
    <2>3. Alive(call[d].meta.id) /\ entities'[call[d].meta.id].spec = entities[call[d].meta.id].spec
      BY <2>1, <2>2
    <2> QED
      BY <2>1, <2>3 DEF TaskInv, SpecIsWanted
  <1> QED
    BY <1>1, <1>2, <1>3, <1>4, <1>5, <1>6 DEF TaskInv

\* A call goes on, with metadata of the same entity.
LEMMA GoOnKeeps ==
    ASSUME TaskInv, NEW c \in Calls, NEW pc \in {"got", "spec", "status", "delete"},
           NEW meta \in Metadatas, Continue(c, pc, meta),
           InCall(c), task' \in {task, meta}, task # Null, ~ Creates(c),
           lone' = lone, entities' = entities,
           lone => meta.id = task.id,
           pc = "spec" => call[c].op \in {"start", "stop"},
           pc = "status" => call[c].op # "kill",
           pc = "status" => call[c].pc = "updated" \/ call[c].op = "update",
           pc = "delete" => call[c].op = "kill"
    PROVE  TaskInv'
  <1>a. /\ call' \in [Calls -> CallRecords]
        /\ \A d \in Calls : d # c => call'[d] = call[d]
        /\ call'[c].op = call[c].op /\ call'[c].alone = call[c].alone
        /\ call'[c].pc = pc /\ call'[c].meta = meta
    BY ContinueFacts DEF TaskInv, Progress
  <1>b. \A d \in Calls : d # c => /\ InCall(d)' <=> InCall(d)
                                  /\ Steers(d)' <=> Steers(d)
                                  /\ Creates(d)' <=> Creates(d)
    BY <1>a DEF InCall, Steers, Creates
  <1>c. InCall(c)' /\ (Steers(c)' <=> Steers(c)) /\ ~ Creates(c)' /\ meta # Null
        /\ (lone => task'.id = task.id) /\ task' # Null
    BY TaskMarkers, <1>a DEF InCall, Steers, Creates
  <1>1. Types'
    BY <1>a, <1>b DEF TaskInv, Types
  <1>2. Steps'
    BY <1>a, <1>b, <1>c DEF TaskInv, Steps, Steers, Creates, InCall, Operations, Steering
  <1>3. Alones'
    BY <1>a, <1>b, <1>c DEF TaskInv, Alones
  <1>4. OneStart'
    BY <1>a, <1>b, <1>c DEF TaskInv, OneStart
  <1>5. OneEntity'
    BY <1>a, <1>b, <1>c DEF TaskInv, OneEntity, Creates, InCall
  <1>6. SpecIsWanted'
    <2> SUFFICES ASSUME lone', NEW d \in Calls, call'[d].alone, Steers(d)',
                        call'[d].pc \in {"created", "updated", "status"},
                        Alive(call[d].meta.id)'
                 PROVE  entities'[call'[d].meta.id].spec = Wanted(call'[d].op)
      BY DEF SpecIsWanted, Wanted
    <2>1. CASE d # c
      <3>1. call'[d] = call[d] /\ Steers(d) /\ Alive(call[d].meta.id)
        BY <2>1, <1>a, <1>b DEF Alive
      <3> QED
        BY <3>1 DEF TaskInv, SpecIsWanted
    <2>2. CASE d = c
      <3>1. call[c].pc = "updated" /\ call[c].alone /\ Steers(c)
        BY <2>2, <1>a, <1>c DEF Steers, Steering
      <3>2. call[c].meta.id = meta.id
        BY <3>1 DEF TaskInv, OneEntity
      <3> QED
        BY <2>2, <3>1, <3>2, <1>a DEF TaskInv, SpecIsWanted, Alive
    <2> QED
      BY <2>1, <2>2
  <1> QED
    BY <1>1, <1>2, <1>3, <1>4, <1>5, <1>6 DEF TaskInv

\* A call begins.
LEMMA BeginKeeps ==
    ASSUME TaskInv, NEW c \in Calls, NEW op \in Operations, Begin(c, op)
    PROVE  TaskInv'
  <1> DEFINE met(d) == d # c /\ Steers(d)
  <1>a. /\ call' \in [Calls -> CallRecords]
        /\ \A d \in Calls : d # c =>
               /\ call'[d].op = call[d].op /\ call'[d].pc = call[d].pc
               /\ call'[d].meta = call[d].meta
               /\ call'[d].alone = (call[d].alone /\ (met(d) => op \notin Steering))
        /\ call'[c] = [op |-> op, pc |-> FirstStep(op), meta |-> task,
                       alone |-> ~ \E d \in Calls : met(d)]
        /\ lone' = (lone /\ ~ (op = "start" /\ \E d \in Calls : met(d) /\ call[d].op = "start"))
        /\ entities' = entities /\ task' = task /\ call[c].pc = "idle"
    <2>1. call' = [d \in Calls |->
               IF d = c
               THEN [op |-> op, pc |-> FirstStep(op), meta |-> task,
                     alone |-> ~ \E e \in Calls : met(e)]
               ELSE [call[d] EXCEPT !.alone = call[d].alone /\ (met(d) => op \notin Steering)]]
      BY DEF Begin, Steers
    <2>2. \A d \in Calls : call[d] \in CallRecords
      BY DEF TaskInv, Types
    <2>3. FirstStep(op) \in Progress /\ task \in Metadatas \cup {Null} /\ op \in Operations \cup {Null}
      BY DEF FirstStep, Progress, TaskInv, Types
    <2>4. ASSUME NEW d \in Calls
          PROVE  call'[d] \in CallRecords
      <3>1. CASE d = c
        BY <3>1, <2>1, <2>3 DEF CallRecords
      <3>2. CASE d # c
        BY <3>2, <2>1, <2>2 DEF CallRecords
      <3> QED
        BY <3>1, <3>2
    <2>5. call' \in [Calls -> CallRecords]
      BY <2>1, <2>4
    <2>6. \A d \in Calls : d # c =>
               /\ call'[d].op = call[d].op /\ call'[d].pc = call[d].pc
               /\ call'[d].meta = call[d].meta
               /\ call'[d].alone = (call[d].alone /\ (met(d) => op \notin Steering))
      BY <2>1, <2>2 DEF CallRecords
    <2>7. call'[c] = [op |-> op, pc |-> FirstStep(op), meta |-> task,
                      alone |-> ~ \E d \in Calls : met(d)]
      BY <2>1
    <2>8. lone' = (lone /\ ~ (op = "start" /\ \E d \in Calls : met(d) /\ call[d].op = "start"))
      BY DEF Begin, Steers
    <2> QED
      BY <2>5, <2>6, <2>7, <2>8 DEF Begin
  <1>b. \A d \in Calls : d # c => /\ InCall(d)' <=> InCall(d)
                                  /\ Steers(d)' <=> Steers(d)
                                  /\ Creates(d)' <=> Creates(d)
    BY <1>a DEF InCall, Steers, Creates
  <1>c. /\ call'[c].pc \in {"create", "get", "failed"} /\ call'[c].op = op
        /\ call'[c].meta = task /\ lone' \in BOOLEAN
        /\ call'[c].pc = "create" => op = "start" /\ task = Null
        /\ call'[c].pc = "get" => task # Null
        /\ Steers(c)' => op \in Steering
    BY <1>a DEF FirstStep, Steers, TaskInv, Types
  <1>d. Creates(c)' <=> call'[c].pc = "create"
    BY <1>c DEF Creates
  <1>1. Types'
    BY <1>a, <1>c DEF TaskInv, Types
  <1>2. Steps'
    BY <1>a, <1>b, <1>c, <1>d DEF TaskInv, Steps, Steers, Creates, InCall, Operations, Steering
  <1>3. Alones'
    <2> SUFFICES ASSUME NEW d \in Calls, NEW e \in Calls, Steers(d)', call'[d].alone, e # d, Steers(e)'
                 PROVE  FALSE
      BY DEF Alones
    <2>1. CASE d = c
      <3>1. e # c /\ Steers(e)
        BY <2>1, <1>b
      <3>2. met(e)
        BY <3>1
      <3>3. call'[c].alone = ~ \E f \in Calls : met(f)
        BY <1>a
      <3> HIDE DEF met
      <3> QED
        BY <2>1, <3>2, <3>3
    <2>2. CASE e = c
      BY <2>2, <1>a, <1>b, <1>c
    <2>3. CASE d # c /\ e # c
      BY <2>3, <1>a, <1>b DEF TaskInv, Alones
    <2> QED
      BY <2>1, <2>2, <2>3
  <1>4. OneStart'
    <2> SUFFICES ASSUME lone'
                 PROVE  /\ \A d, e \in Calls : Steers(d)' /\ Steers(e)' /\ call'[d].op = "start"
                               /\ call'[e].op = "start" => d = e
                        /\ \A d \in Calls : Creates(d)' => task = Null
      BY <1>a DEF OneStart
    <2>1. lone /\ \A d \in Calls : op = "start" /\ d # c /\ Steers(d) => call[d].op # "start"
      BY <1>a
    <2>2. \A d, e \in Calls : Steers(d)' /\ Steers(e)' /\ call'[d].op = "start"
                               /\ call'[e].op = "start" => d = e
      BY <2>1, <1>a, <1>b, <1>c DEF TaskInv, OneStart
    <2>3. \A d \in Calls : Creates(d)' => task = Null
      BY <2>1, <1>b, <1>c, <1>d DEF TaskInv, OneStart
    <2> QED
      BY <2>2, <2>3
  <1>5. OneEntity'
    <2> SUFFICES ASSUME lone'
                 PROVE  /\ \A d \in Calls : InCall(d)' /\ ~ Creates(d)' => call'[d].meta.id = task.id
                        /\ \A id \in Ids : entities[id] # Absent =>
                               \/ task # Null /\ task.id = id
                               \/ \E d \in Calls : call'[d].pc = "created" /\ call'[d].meta.id = id
      BY <1>a DEF OneEntity, InCall
    <2>1. lone
      BY <1>a
    <2>2. \A d \in Calls : InCall(d)' /\ ~ Creates(d)' => call'[d].meta.id = task.id
      BY <2>1, <1>a, <1>b, <1>c, <1>d DEF TaskInv, OneEntity
    <2>3. ASSUME NEW id \in Ids, entities[id] # Absent, ~ (task # Null /\ task.id = id)
          PROVE  \E d \in Calls : call'[d].pc = "created" /\ call'[d].meta.id = id
      <3>1. PICK d \in Calls : call[d].pc = "created" /\ call[d].meta.id = id
        BY <2>1, <2>3 DEF TaskInv, OneEntity
      <3>2. d # c
        BY <3>1, <1>a
      <3> QED
        BY <3>1, <3>2, <1>a
    <2> QED
      BY <2>2, <2>3
  <1>6. SpecIsWanted'
    <2> SUFFICES ASSUME lone', NEW d \in Calls, call'[d].alone, Steers(d)',
                        call'[d].pc \in {"created", "updated", "status"},
                        Alive(call[d].meta.id)'
                 PROVE  entities'[call'[d].meta.id].spec = Wanted(call'[d].op)
      BY DEF SpecIsWanted, Wanted
    <2>1. d # c /\ Steers(d) /\ call[d].alone /\ lone
      BY <1>a, <1>b, <1>c
    <2> QED
      BY <2>1, <1>a DEF TaskInv, SpecIsWanted, Alive
  <1> QED
    BY <1>1, <1>2, <1>3, <1>4, <1>5, <1>6 DEF TaskInv

\* The engine creates the entity.
LEMMA CreateKeeps ==
    ASSUME TaskInv, NEW c \in Calls, ServeCreate(c)
    PROVE  TaskInv'
  <1> DEFINE new == [spec |-> "ShouldRun", state |-> "ShouldRun", version |-> 1, hash |-> "ShouldRun"]
  <1>1x. PICK id \in Ids :
            /\ entities[id] = Absent
            /\ entities' = [entities EXCEPT ![id] = new]
            /\ Continue(c, "created", [id |-> id, version |-> 1, hash |-> "ShouldRun"])
    BY DEF ServeCreate
  <1>a. /\ call' \in [Calls -> CallRecords]
        /\ \A d \in Calls : d # c => call'[d] = call[d]
        /\ call'[c].op = call[c].op /\ call'[c].alone = call[c].alone
        /\ call'[c].pc = "created" /\ call'[c].meta = [id |-> id, version |-> 1, hash |-> "ShouldRun"]
        /\ task' = task /\ lone' = lone /\ call[c].pc = "create"
    <2>1. [id |-> id, version |-> 1, hash |-> "ShouldRun"] \in Metadatas
      BY DEF Metadatas, Hashes
    <2> QED
      BY <1>1x, <2>1, ContinueFacts DEF ServeCreate, TaskInv, Progress
  <1>b. \A d \in Calls : d # c => /\ InCall(d)' <=> InCall(d)
                                  /\ Steers(d)' <=> Steers(d)
                                  /\ Creates(d)' <=> Creates(d)
    BY <1>a DEF InCall, Steers, Creates
  <1>c. /\ new \in Entities
        /\ entities' \in [Ids -> Entities \cup {Absent, Gone}]
        /\ entities'[id] = new /\ \A i \in Ids : i # id => entities'[i] = entities[i]
    <2>1. new \in Entities
      BY DEF Entities, Hashes
    <2> QED
      BY <2>1, <1>1x DEF TaskInv, Types
  <1>d. /\ InCall(c) /\ Steers(c) /\ Creates(c) /\ call[c].op = "start"
        /\ InCall(c)' /\ Steers(c)' /\ Creates(c)'
        /\ call'[c].meta.id = id /\ call'[c].meta # Null
    <2>1. [id |-> id, version |-> 1, hash |-> "ShouldRun"] \in Metadatas
      BY DEF Metadatas, Hashes
    <2>2. call[c].op = "start"
      BY <1>a DEF TaskInv, Steps, Creates
    <2>3. call'[c].meta # Null
      BY TaskMarkers, <1>a, <2>1
    <2>4. call'[c].meta.id = id
      BY <1>a
    <2>5. InCall(c) /\ Steers(c) /\ Creates(c)
      BY <1>a, <2>2 DEF InCall, Steers, Creates, Steering
    <2>6. InCall(c)' /\ Steers(c)' /\ Creates(c)'
      BY <1>a, <2>2 DEF InCall, Steers, Creates, Steering
    <2> QED
      BY <2>2, <2>3, <2>4, <2>5, <2>6
  <1>e. lone => task = Null /\ \A d \in Calls : d # c => ~ Creates(d) /\ ~ InCall(d)
    <2> SUFFICES ASSUME lone
                 PROVE  task = Null /\ \A d \in Calls : d # c => ~ Creates(d) /\ ~ InCall(d)
      OBVIOUS
    <2>1. task = Null
      BY <1>d DEF TaskInv, OneStart
    <2>2. \A d \in Calls : Creates(d) => Steers(d) /\ call[d].op = "start"
      BY DEF TaskInv, Steps, Creates, Steers, InCall, Steering
    <2>3. \A d \in Calls : d # c => ~ Creates(d)
      BY <2>2, <1>d DEF TaskInv, OneStart
    <2>4. \A d \in Calls : d # c => ~ InCall(d)
      BY <2>1, <2>3 DEF TaskInv, Steps
    <2> QED
      BY <2>1, <2>3, <2>4
  <1>1. Types'
    BY <1>a, <1>c DEF TaskInv, Types
  <1>2. Steps'
    BY <1>a, <1>b, <1>d DEF TaskInv, Steps, Steers, Creates, InCall, Operations, Steering
  <1>3. Alones'
    BY <1>a, <1>b, <1>d DEF TaskInv, Alones
  <1>4. OneStart'
    BY <1>a, <1>b, <1>d DEF TaskInv, OneStart
  <1>5. OneEntity'
    <2> SUFFICES ASSUME lone
                 PROVE  /\ \A d \in Calls : InCall(d)' /\ ~ Creates(d)' => call'[d].meta.id = task.id
                        /\ \A i \in Ids : entities'[i] # Absent =>
                               \/ task # Null /\ task.id = i
                               \/ \E d \in Calls : call'[d].pc = "created" /\ call'[d].meta.id = i
      BY <1>a DEF OneEntity, InCall
    <2>1. \A d \in Calls : InCall(d)' => d = c
      BY <1>b, <1>e
    <2>2. \A i \in Ids : i # id => entities[i] = Absent
      <3>1. \A d \in Calls : call[d].pc # "created"
        BY <1>a, <1>e DEF Creates
      <3> QED
        BY <3>1, <1>e DEF TaskInv, OneEntity
    <2> QED
      BY <2>1, <2>2, <1>a, <1>c, <1>d
  <1>6. SpecIsWanted'
    <2> SUFFICES ASSUME lone', NEW d \in Calls, call'[d].alone, Steers(d)',
                        call'[d].pc \in {"created", "updated", "status"},
                        Alive(call[d].meta.id)'
                 PROVE  entities'[call'[d].meta.id].spec = Wanted(call'[d].op)
      BY DEF SpecIsWanted, Wanted
    <2>1. d = c
      BY <1>a, <1>b, <1>e DEF Steers
    <2>2. entities'[call'[d].meta.id].spec = "ShouldRun"
      <3>1. new.spec = "ShouldRun"
        OBVIOUS
      <3>2. call'[d].meta.id = id
        BY <2>1, <1>d
      <3>3. entities'[id] = new
        BY <1>c
      <3> HIDE DEF new
      <3> QED
        BY <3>1, <3>2, <3>3
    <2>3. call'[d].op = "start"
      BY <2>1, <1>a, <1>d
    <2> QED
      BY <2>2, <2>3 DEF Wanted
  <1> QED
    BY <1>1, <1>2, <1>3, <1>4, <1>5, <1>6 DEF TaskInv

\* The engine takes the spec of a call.
LEMMA SpecKeeps ==
    ASSUME TaskInv, NEW c \in Calls, call[c].pc = "spec", Alive(call[c].meta.id), task' = task, lone' = lone,
           entities' = [entities EXCEPT
               ![call[c].meta.id].spec = Wanted(call[c].op),
               ![call[c].meta.id].version = entities[call[c].meta.id].version + 1],
           Continue(c, "updated", call[c].meta)
    PROVE  TaskInv'
  <1> DEFINE m == call[c].meta
  <1>0x. m \in Metadatas /\ m.id \in Ids /\ InCall(c) /\ ~ Creates(c)
        /\ call[c].op \in {"start", "stop"} /\ task # Null
    BY DEF TaskInv, Types, CallRecords, Steps, Metadatas, InCall, Creates
  <1>a. /\ call' \in [Calls -> CallRecords]
        /\ \A d \in Calls : d # c => call'[d] = call[d]
        /\ call'[c].op = call[c].op /\ call'[c].alone = call[c].alone
        /\ call'[c].pc = "updated" /\ call'[c].meta = m
    BY <1>0x, ContinueFacts DEF TaskInv, Progress
  <1>b. \A d \in Calls : d # c => /\ InCall(d)' <=> InCall(d)
                                  /\ Steers(d)' <=> Steers(d)
                                  /\ Creates(d)' <=> Creates(d)
    BY SMTT(60), <1>a DEF InCall, Steers, Creates
  <1>c. /\ entities' \in [Ids -> Entities \cup {Absent, Gone}]
        /\ \A i \in Ids : i # m.id => entities'[i] = entities[i]
        /\ entities'[m.id].spec = Wanted(call[c].op) /\ entities[m.id] # Absent
    <2>1. entities[m.id] \in Entities
      BY <1>0x DEF Alive, TaskInv, Types
    <2>2. entities'[m.id] = [entities[m.id] EXCEPT !.spec = Wanted(call[c].op),
                                                  !.version = entities[m.id].version + 1]
      BY <1>0x DEF TaskInv, Types
    <2>3. Wanted(call[c].op) \in {"ShouldRun", "Idle"}
      BY DEF Wanted
    <2>5. entities'[m.id] \in Entities /\ entities'[m.id].spec = Wanted(call[c].op)
      <3> DEFINE e == entities[m.id]
                 f == entities'[m.id]
                 w == Wanted(call[c].op)
      <3>1. e \in Entities /\ w \in {"ShouldRun", "Idle"}
            /\ f = [e EXCEPT !.spec = w, !.version = e.version + 1]
        BY SMTT(60), <2>1, <2>2, <2>3
      <3> HIDE DEF e, f, w
      <3>2. f \in Entities /\ f.spec = w
        BY ZenonT(60), <3>1, SpecOfEntity
      <3> QED
        BY SMTT(60), <3>2 DEF e, f, w
    <2>6. entities' \in [Ids -> Entities \cup {Absent, Gone}]
          /\ \A i \in Ids : i # m.id => entities'[i] = entities[i]
      BY <2>5, <1>0x DEF TaskInv, Types
    <2> QED
      BY ZenonT(60), <2>5, <2>6 DEF Alive
  <1>d. InCall(c)' /\ Steers(c)' /\ Steers(c) /\ ~ Creates(c)' /\ m # Null
    BY TaskMarkers, <1>0x, <1>a DEF InCall, Steers, Creates, Steering
  <1>1. Types'
    BY ZenonT(60), <1>a, <1>c DEF TaskInv, Types
  <1>2. Steps'
    BY <1>0x, <1>a, <1>b, <1>d DEF TaskInv, Steps, Steers, Creates, InCall, Operations, Steering
  <1>3. Alones'
    BY <1>a, <1>b, <1>d DEF TaskInv, Alones
  <1>4. OneStart'
    BY SMTT(60), <1>0x, <1>a, <1>b, <1>d DEF TaskInv, OneStart
  <1>5. OneEntity'
    <2> SUFFICES ASSUME lone
                 PROVE  /\ \A d \in Calls : InCall(d)' /\ ~ Creates(d)' => call'[d].meta.id = task.id
                        /\ \A id \in Ids : entities'[id] # Absent =>
                               \/ task # Null /\ task.id = id
                               \/ \E d \in Calls : call'[d].pc = "created" /\ call'[d].meta.id = id
      BY ZenonT(60) DEF OneEntity, InCall
    <2>1. \A d \in Calls : InCall(d)' /\ ~ Creates(d)' => call'[d].meta.id = task.id
      BY <1>0x, <1>a, <1>b, <1>d DEF TaskInv, OneEntity
    <2>2. ASSUME NEW id \in Ids, entities'[id] # Absent, ~ (task # Null /\ task.id = id)
          PROVE  \E d \in Calls : call'[d].pc = "created" /\ call'[d].meta.id = id
      <3>1. entities[id] # Absent
        BY ZenonT(60), <2>2, <1>c
      <3>2. PICK d \in Calls : call[d].pc = "created" /\ call[d].meta.id = id
        BY SMTT(60), <2>2, <3>1 DEF TaskInv, OneEntity
      <3> QED
        BY SMTT(60), <3>2, <1>a
    <2> QED
      BY ZenonT(60), <2>1, <2>2
  <1>6. SpecIsWanted'
    <2> SUFFICES ASSUME lone', NEW d \in Calls, call'[d].alone, Steers(d)',
                        call'[d].pc \in {"created", "updated", "status"},
                        Alive(call[d].meta.id)'
                 PROVE  entities'[call'[d].meta.id].spec = Wanted(call'[d].op)
      BY ZenonT(60) DEF SpecIsWanted, Wanted
    <2>1. CASE d = c
      BY ZenonT(60), <2>1, <1>a, <1>c
    <2>2. CASE d # c
      BY <2>2, <1>a, <1>b, <1>d DEF TaskInv, Alones
    <2> QED
      BY ZenonT(60), <2>1, <2>2
  <1> QED
    BY <1>1, <1>2, <1>3, <1>4, <1>5, <1>6 DEF TaskInv

\* The builder takes the entity it created.
LEMMA TakeCreatedKeeps ==
    ASSUME TaskInv, NEW c \in Calls, Take(c), call[c].pc = "created"
    PROVE  TaskInv'
  <1> DEFINE m == call[c].meta
  <1>0x. /\ m \in Metadatas /\ InCall(c) /\ Creates(c) /\ Steers(c) /\ call[c].op = "start"
         /\ m # Null /\ task' = m /\ entities' = entities /\ lone' = lone
    BY DEF Take, TaskInv, Types, CallRecords, Steps, InCall, Creates, Steers, Steering
  <1>a. /\ call' \in [Calls -> CallRecords]
        /\ \A d \in Calls : d # c => call'[d] = call[d]
        /\ call'[c].op = call[c].op /\ call'[c].alone = call[c].alone
        /\ call'[c].pc = "status" /\ call'[c].meta = m
    BY <1>0x, ContinueFacts DEF Take, TaskInv, Progress
  <1>b. \A d \in Calls : d # c => /\ InCall(d)' <=> InCall(d)
                                  /\ Steers(d)' <=> Steers(d)
                                  /\ Creates(d)' <=> Creates(d)
    BY <1>a DEF InCall, Steers, Creates
  <1>c. InCall(c)' /\ Steers(c)' /\ ~ Creates(c)'
    BY <1>0x, <1>a DEF InCall, Steers, Creates
  <1>d. lone => \A d \in Calls : d # c => ~ Creates(d) /\ ~ InCall(d)
    <2> SUFFICES ASSUME lone
                 PROVE  \A d \in Calls : d # c => ~ Creates(d) /\ ~ InCall(d)
      OBVIOUS
    <2>1. task = Null
      BY <1>0x DEF TaskInv, OneStart
    <2>2. \A d \in Calls : Creates(d) => Steers(d) /\ call[d].op = "start"
      BY DEF TaskInv, Steps, Creates, Steers, InCall, Steering
    <2>3. \A d \in Calls : d # c => ~ Creates(d)
      BY <2>2, <1>0x DEF TaskInv, OneStart
    <2> QED
      BY <2>1, <2>3 DEF TaskInv, Steps
  <1>1. Types'
    BY <1>0x, <1>a DEF TaskInv, Types
  <1>2. Steps'
    BY <1>0x, <1>a, <1>b, <1>c DEF TaskInv, Steps, Steers, Creates, InCall, Operations, Steering
  <1>3. Alones'
    BY <1>0x, <1>a, <1>b, <1>c DEF TaskInv, Alones
  <1>4. OneStart'
    BY <1>0x, <1>a, <1>b, <1>c, <1>d DEF TaskInv, OneStart
  <1>5. OneEntity'
    <2> SUFFICES ASSUME lone
                 PROVE  /\ \A d \in Calls : InCall(d)' /\ ~ Creates(d)' => call'[d].meta.id = m.id
                        /\ \A id \in Ids : entities[id] # Absent => m.id = id
      BY <1>0x DEF OneEntity, InCall
    <2>1. \A d \in Calls : InCall(d)' => d = c
      BY <1>b, <1>d
    <2>2. task = Null /\ \A d \in Calls : call[d].pc = "created" => d = c
      BY <1>0x, <1>d DEF TaskInv, OneStart, Creates
    <2> QED
      BY <2>1, <2>2, <1>a DEF TaskInv, OneEntity
  <1>6. SpecIsWanted'
    <2> SUFFICES ASSUME lone', NEW d \in Calls, call'[d].alone, Steers(d)',
                        call'[d].pc \in {"created", "updated", "status"},
                        Alive(call[d].meta.id)'
                 PROVE  entities'[call'[d].meta.id].spec = Wanted(call'[d].op)
      BY DEF SpecIsWanted, Wanted
    <2>1. d = c
      BY <1>b, <1>0x, <1>d DEF Steers
    <2> QED
      BY <2>1, <1>0x, <1>a DEF TaskInv, SpecIsWanted, Alive
  <1> QED
    BY <1>1, <1>2, <1>3, <1>4, <1>5, <1>6 DEF TaskInv

\* Every step keeps the invariant.
LEMMA TaskNextKeeps ==
    ASSUME TaskInv, [TaskNext]_taskVars
    PROVE  TaskInv'
  <1>1. CASE UNCHANGED taskVars
    <2>1. entities' = entities /\ task' = task /\ call' = call /\ lone' = lone
      BY <1>1 DEF taskVars
    <2>2. Types' /\ Steps' /\ Alones'
      BY <2>1 DEF TaskInv, Types, Steps, Alones, InCall, Steers, Creates
    <2>3. OneStart' /\ OneEntity' /\ SpecIsWanted'
      BY <2>1 DEF TaskInv, OneStart, OneEntity, SpecIsWanted, InCall, Steers, Creates, Alive, Wanted
    <2> QED
      BY <2>2, <2>3 DEF TaskInv
  <1>2. ASSUME NEW c \in Calls, NEW op \in Operations, Begin(c, op)
        PROVE  TaskInv'
    BY <1>2, BeginKeeps
  <1>3. ASSUME NEW c \in Calls, ServeGet(c)
        PROVE  TaskInv'
    <2> DEFINE m == call[c].meta
    <2>1. /\ call[c].pc = "get" /\ InCall(c) /\ ~ Creates(c) /\ task # Null
          /\ m \in Metadatas /\ m.id \in Ids
          /\ entities' = entities /\ task' = task /\ lone' = lone
      BY <1>3 DEF ServeGet, TaskInv, Types, CallRecords, Steps, InCall, Creates, Metadatas
    <2>2. CASE Alive(m.id)
      <3>1. Metadata(m.id) \in Metadatas /\ Metadata(m.id).id = m.id
        <4>1. entities[m.id] \in Entities
          BY <2>1, <2>2 DEF Alive, TaskInv, Types
        <4> QED
          BY <2>1, <4>1 DEF Metadata, Metadatas, Entities
      <3>2. Continue(c, "got", Metadata(m.id))
        BY <1>3, <2>2 DEF ServeGet
      <3>3. lone => m.id = task.id
        BY <2>1 DEF TaskInv, OneEntity
      <3> QED
        BY <2>1, <3>1, <3>2, <3>3, GoOnKeeps
    <2>3. CASE ~ Alive(m.id)
      <3>1. End(c, "failed")
        BY <1>3, <2>3 DEF ServeGet
      <3> QED
        BY <2>1, <3>1, EndKeeps DEF Alive, TaskInv, Types
    <2> QED
      BY <2>2, <2>3
  <1>4. ASSUME NEW c \in Calls, ServeSpec(c)
        PROVE  TaskInv'
    <2> DEFINE m == call[c].meta
    <2>1. /\ call[c].pc = "spec" /\ InCall(c) /\ task' = task /\ lone' = lone
      BY SMTT(60), <1>4 DEF ServeSpec, InCall
    <2>2. CASE Alive(m.id) /\ entities[m.id].version = m.version
      <3>1. /\ entities' = [entities EXCEPT ![m.id].spec = Wanted(call[c].op),
                                            ![m.id].version = entities[m.id].version + 1]
            /\ Continue(c, "updated", m)
        BY <1>4, <2>2 DEF ServeSpec
      <3> QED
        BY ZenonT(60), <2>1, <2>2, <3>1, SpecKeeps
    <2>3. CASE ~ (Alive(m.id) /\ entities[m.id].version = m.version)
      <3>1. End(c, "failed") /\ entities' = entities
        BY <1>4, <2>3 DEF ServeSpec
      <3> QED
        BY <2>1, <3>1, EndKeeps DEF Alive, TaskInv, Types
    <2> QED
      BY <2>2, <2>3
  <1>5. ASSUME NEW c \in Calls, ServeStatus(c)
        PROVE  TaskInv'
    <2> DEFINE m == call[c].meta
    <2>1. /\ call[c].pc = "status" /\ InCall(c) /\ task' = task /\ lone' = lone
      BY SMTT(60), <1>5 DEF ServeStatus, InCall
    <2>2. CASE HashMatches(m)
      <3>1. PICK p \in Partials(call[c].op), answer \in {"ok", "failed"} :
                /\ entities' = [entities EXCEPT ![m.id] = Patched(entities[m.id], call[c].op, p)]
                /\ End(c, answer)
        BY <1>5, <2>2 DEF ServeStatus
      <3>2. m.id \in Ids /\ entities[m.id] \in Entities
        BY <2>1, <2>2 DEF HashMatches, Alive, TaskInv, Types, Steps, CallRecords, Metadatas, InCall
      <3>3. p \in Hashes /\ (call[c].op # "update" => p \in {"ShouldRun", "Running", "Idle"})
        BY <3>1 DEF Partials, Reached, Hashes
      <3>4. Patched(entities[m.id], call[c].op, p) \in Entities
            /\ Patched(entities[m.id], call[c].op, p).spec = entities[m.id].spec
        BY <3>2, <3>3 DEF Patched, Entities
      <3>5. /\ entities' \in [Ids -> Entities \cup {Absent, Gone}]
            /\ \A id \in Ids : id # m.id => entities'[id] = entities[id]
            /\ entities'[m.id].spec = entities[m.id].spec
        BY <3>1, <3>2, <3>4 DEF TaskInv, Types
      <3>6. Alive(m.id) /\ entities[m.id] # Absent
        BY <2>2 DEF HashMatches, Alive
      <3>7. \A id \in Ids : /\ entities'[id] # Absent => entities[id] # Absent
                            /\ Alive(id)' => Alive(id) /\ entities'[id].spec = entities[id].spec
        BY <3>5, <3>6 DEF Alive
      <3> QED
        BY ZenonT(60), <2>1, <3>1, <3>5, <3>7, EndKeeps
    <2>3. CASE ~ HashMatches(m)
      <3>1. End(c, "failed") /\ entities' = entities
        BY <1>5, <2>3 DEF ServeStatus
      <3> QED
        BY <2>1, <3>1, EndKeeps DEF Alive, TaskInv, Types
    <2> QED
      BY <2>2, <2>3
  <1>6. ASSUME NEW c \in Calls, ServeDelete(c)
        PROVE  TaskInv'
    <2> DEFINE m == call[c].meta
    <2>1. /\ call[c].pc = "delete" /\ InCall(c) /\ ~ Creates(c) /\ task' = task /\ lone' = lone
          /\ entities' = [entities EXCEPT ![m.id] = Gone]
      BY <1>6 DEF ServeDelete, InCall, Creates
    <2>2. PICK how \in {"ok", "failed"} : End(c, how)
      BY <1>6 DEF ServeDelete
    <2>3. /\ entities' \in [Ids -> Entities \cup {Absent, Gone}]
          /\ \A id \in Ids : id # m.id => entities'[id] = entities[id]
          /\ m.id \in Ids => entities'[m.id] = Gone
      BY <2>1 DEF TaskInv, Types
    <2>4. lone => \A id \in Ids : entities'[id] # Absent =>
              entities[id] # Absent \/ (task # Null /\ task.id = id)
      BY <2>1, <2>3 DEF TaskInv, OneEntity, Steps
    <2>5. \A id \in Ids : Alive(id)' => Alive(id) /\ entities'[id].spec = entities[id].spec
      BY <2>3 DEF Alive
    <2> QED
      BY <2>1, <2>2, <2>3, <2>4, <2>5, EndKeeps
  <1>7. ASSUME NEW c \in Calls, Take(c)
        PROVE  TaskInv'
    <2>1. CASE call[c].pc = "created"
      BY <1>7, <2>1, TakeCreatedKeeps
    <2>2. CASE call[c].pc = "got"
      <3> DEFINE m == call[c].meta
                 pc == AfterGet(call[c].op)
      <3>1. /\ InCall(c) /\ ~ Creates(c) /\ task # Null /\ m \in Metadatas
            /\ call[c].op \in Operations
        BY <2>2 DEF TaskInv, Types, CallRecords, Steps, InCall, Creates
      <3>2. /\ pc \in {"status", "delete", "spec"}
            /\ pc = "spec" => call[c].op \in {"start", "stop"}
            /\ pc = "status" => call[c].op = "update"
            /\ pc = "delete" => call[c].op = "kill"
        BY <3>1 DEF AfterGet, Operations, Steering
      <3>3. Continue(c, pc, m) /\ task' = m /\ lone' = lone /\ entities' = entities
        BY <1>7, <2>2 DEF Take
      <3>4. lone => m.id = task.id
        BY <3>1 DEF TaskInv, OneEntity
      <3> HIDE DEF pc
      <3> QED
        BY <3>1, <3>2, <3>3, <3>4, GoOnKeeps
    <2> QED
      BY <1>7, <2>1, <2>2 DEF Take
  <1>8. ASSUME NEW c \in Calls, SendStatus(c)
        PROVE  TaskInv'
    <2>1. /\ call[c].pc = "updated" /\ InCall(c) /\ ~ Creates(c)
          /\ task # Null /\ task \in Metadatas /\ call[c].op # "kill"
      BY <1>8 DEF SendStatus, InCall, Creates, TaskInv, Steps, Types
    <2>2. Continue(c, "status", task) /\ task' = task /\ lone' = lone /\ entities' = entities
      BY <1>8 DEF SendStatus
    <2> QED
      BY <2>1, <2>2, GoOnKeeps
  <1>9. ASSUME NEW c \in Calls, Fails(c)
        PROVE  TaskInv'
    <2>1. /\ InCall(c) /\ End(c, "failed") /\ task' = task /\ entities' = entities
          /\ lone' = (lone /\ call[c].pc # "created") /\ lone \in BOOLEAN
      BY <1>9 DEF Fails, TaskInv, Types
    <2>2. lone' \in {lone, FALSE} /\ (call[c].pc = "created" => ~ lone')
      BY <2>1
    <2>3. entities \in [Ids -> Entities \cup {Absent, Gone}]
      BY DEF TaskInv, Types
    <2> QED
      BY <2>1, <2>2, <2>3, EndKeeps DEF Alive
  <1> QED
    BY <1>1, <1>2, <1>3, <1>4, <1>5, <1>6, <1>7, <1>8, <1>9, CreateKeeps DEF TaskNext

\* A step that reports success reports the truth.
LEMMA ReportIsTrue ==
    ASSUME TaskInv, TaskNext
    PROVE  TrueReport
  <1> SUFFICES ASSUME lone, NEW c \in Calls, call[c].op \in {"start", "stop"}, call[c].alone,
                      InCall(c), call'[c].pc = "ok"
               PROVE  /\ entities'[call[c].meta.id].spec = Wanted(call[c].op)
                      /\ entities'[call[c].meta.id].state = Reached(call[c].op)
    BY DEF TrueReport
  <1> DEFINE m == call[c].meta
  <1>1. \A d \in Calls, op \in Operations : Begin(d, op) => FALSE
    <2> SUFFICES ASSUME NEW d \in Calls, NEW op \in Operations, Begin(d, op)
                 PROVE  FALSE
      OBVIOUS
    <2>1. CASE d = c
      BY <2>1 DEF Begin, InCall
    <2>2. CASE d # c
      <3>1. call'[c].pc = call[c].pc
        BY <2>2 DEF Begin, TaskInv, Types, CallRecords
      <3> QED
        BY <3>1 DEF InCall
    <2> QED
      BY <2>1, <2>2
  <1>2. \A d \in Calls, pc \in Progress, meta \in Metadatas \cup {Null} :
            Continue(d, pc, meta) => d = c /\ pc = "ok"
    BY ContinueFacts DEF TaskInv, InCall
  <1>3. \A d \in Calls, how \in {"ok", "failed"} : End(d, how) => d = c /\ how = "ok"
    BY <1>2 DEF End, Progress
  <1>4. \A d \in Calls : ~ ServeCreate(d) /\ ~ Fails(d)
    <2>1. ASSUME NEW d \in Calls, ServeCreate(d)
          PROVE  FALSE
      <3>1. PICK id \in Ids : Continue(d, "created", [id |-> id, version |-> 1, hash |-> "ShouldRun"])
        BY <2>1 DEF ServeCreate
      <3>2. [id |-> id, version |-> 1, hash |-> "ShouldRun"] \in Metadatas
        BY DEF Metadatas, Hashes
      <3> QED
        BY <3>1, <3>2, <1>2 DEF Progress
    <2> QED
      BY <2>1, <1>3 DEF Fails
  <1>5. \A d \in Calls : ~ ServeGet(d) /\ ~ SendStatus(d) /\ ~ Take(d)
    <2>1. \A d \in Calls : InCall(d) /\ call[d].pc # "create" =>
              call[d].meta \in Metadatas /\ call[d].meta.id \in Ids
      BY DEF TaskInv, Steps, Types, CallRecords, Metadatas
    <2>2. ASSUME NEW d \in Calls, ServeGet(d)
          PROVE  FALSE
      <3>1. InCall(d) /\ call[d].pc # "create"
        BY <2>2 DEF ServeGet, InCall
      <3>2. CASE Alive(call[d].meta.id)
        <4>1. entities[call[d].meta.id] \in Entities
          BY <2>1, <3>1, <3>2 DEF Alive, TaskInv, Types
        <4>2. Metadata(call[d].meta.id) \in Metadatas
          BY <2>1, <3>1, <4>1 DEF Metadata, Metadatas, Entities
        <4>3. Continue(d, "got", Metadata(call[d].meta.id))
          BY <2>2, <3>2 DEF ServeGet
        <4> QED
          BY <4>2, <4>3, <1>2 DEF Progress
      <3>3. CASE ~ Alive(call[d].meta.id)
        BY <2>2, <3>3, <1>3 DEF ServeGet
      <3> QED
        BY <3>2, <3>3
    <2>3. ASSUME NEW d \in Calls, SendStatus(d)
          PROVE  FALSE
      <3>1. task \in Metadatas \cup {Null}
        BY DEF TaskInv, Types
      <3> QED
        BY <2>3, <3>1, <1>2 DEF SendStatus, Progress
    <2>4. ASSUME NEW d \in Calls, Take(d)
          PROVE  FALSE
      <3>1. InCall(d) /\ call[d].meta \in Metadatas
        BY <2>1, <2>4 DEF Take, InCall
      <3>2. PICK pc \in {"status", "delete", "spec"} : Continue(d, pc, call[d].meta)
        BY <2>4 DEF Take, AfterGet
      <3> QED
        BY <3>1, <3>2, <1>2 DEF Progress
    <2> QED
      BY <2>2, <2>3, <2>4
  <1>6. \A d \in Calls : ~ ServeSpec(d) /\ ~ ServeDelete(d)
    <2>1. ASSUME NEW d \in Calls, ServeSpec(d)
          PROVE  FALSE
      <3>1. call[d].meta \in Metadatas \cup {Null}
        BY DEF TaskInv, Types, CallRecords
      <3>2. Continue(d, "updated", call[d].meta) \/ End(d, "failed")
        BY <2>1 DEF ServeSpec
      <3> QED
        BY <3>1, <3>2, <1>2, <1>3 DEF Progress
    <2>2. ASSUME NEW d \in Calls, ServeDelete(d)
          PROVE  FALSE
      <3>1. PICK how \in {"ok", "failed"} : End(d, how)
        BY <2>2 DEF ServeDelete
      <3>2. d = c /\ call[d].op = "kill"
        BY <2>2, <3>1, <1>3 DEF ServeDelete, TaskInv, Steps
      <3> QED
        BY <3>2
    <2> QED
      BY <2>1, <2>2
  <1>7. PICK d \in Calls : ServeStatus(d)
    BY <1>1, <1>4, <1>5, <1>6 DEF TaskNext, Operations
  <1>8. CASE ~ HashMatches(call[d].meta)
    BY <1>7, <1>8, <1>3 DEF ServeStatus
  <1>9. CASE HashMatches(call[d].meta)
    <2>1. PICK p \in Partials(call[d].op), answer \in {"ok", "failed"} :
              /\ entities' = [entities EXCEPT
                     ![call[d].meta.id] = Patched(entities[call[d].meta.id], call[d].op, p)]
              /\ End(d, answer)
      BY <1>7, <1>9 DEF ServeStatus
    <2>2. d = c
      BY <2>1, <1>3
    <2>3. /\ call[c].pc = "status" /\ Alive(m.id) /\ p = Reached(call[c].op)
      BY <1>7, <1>9, <2>1, <2>2 DEF ServeStatus, HashMatches, Partials
    <2>4. m.id \in Ids /\ entities[m.id] \in Entities
      BY <2>3 DEF Alive, TaskInv, Types, Steps, CallRecords, Metadatas, InCall
    <2>5. entities[m.id].spec = Wanted(call[c].op)
      BY <2>3 DEF TaskInv, SpecIsWanted, Steers, Steering
    <2>6. entities'[m.id] = Patched(entities[m.id], call[c].op, p)
      BY <2>1, <2>2, <2>4 DEF TaskInv, Types
    <2>7. /\ Patched(entities[m.id], call[c].op, p).spec = entities[m.id].spec
          /\ Patched(entities[m.id], call[c].op, p).state = p
      BY <2>4 DEF Patched, Entities
    <2> QED
      BY <2>3, <2>5, <2>6, <2>7
  <1> QED
    BY <1>8, <1>9

-----------------------------------------------------------------------------

\* The types of tasks and calls hold, for any number of calls and entities.
THEOREM TaskTypeCorrect == TaskSpec => []TaskTypeOK
  <1>1. TaskInv => TaskTypeOK
    BY TaskMarkers DEF TaskInv, Types, Steps, TaskTypeOK, CallRecords, Entities, Progress,
       Operations, Alive, InCall
  <1> QED
    BY <1>1, TaskInitInv, TaskNextKeeps, PTL DEF TaskSpec

\* While no two starts meet and no creation loses its answer, each task that is
\* alive is the one the builder knows, for any number of calls in any order.
THEOREM TaskKnown == TaskSpec => []NoForgottenTask
  <1>1. TaskInv => NoForgottenTask
    BY DEF TaskInv, OneEntity, NoForgottenTask, Alive
  <1> QED
    BY <1>1, TaskInitInv, TaskNextKeeps, PTL DEF TaskSpec

\* A start or stop that nobody overlapped reports success only when the task
\* runs, or is idle, as it asked, for any number of calls that fail before it.
THEOREM ReportCorrect == TaskSpec => ReportsTheState
  <1>1. TaskInv /\ [TaskNext]_taskVars => [TrueReport]_taskVars
    BY ReportIsTrue
  <1> QED
    BY <1>1, TaskInitInv, TaskNextKeeps, PTL DEF TaskSpec, ReportsTheState
=============================================================================
