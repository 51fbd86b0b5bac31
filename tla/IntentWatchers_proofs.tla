------------------------- MODULE IntentWatchers_proofs -------------------------
(***************************************************************************)
(* Proofs about IntentWatchers, for any updates, fields, values and        *)
(* signatures, and any failures and restarts.                              *)
(***************************************************************************)
EXTENDS IntentWatchers, TLAPS

------------------------------------------------------------------------------
(* Diffs and judgements *)

LEMMA DiffType ==
  ASSUME NEW e \in Entities, Comparable(e), NEW i \in DOMAIN Signatures
  PROVE  DiffOf(e, i) \in Diffs
  <1>1. Signatures[i] \in SUBSET Fields
    BY SignaturesAssumption
  <1>2. e.spec \in [Fields -> Values]
    BY DEF Comparable, Entities, Specs
  <1>3. DiffOf(e, i) \in [Signatures[i] -> Values]
    BY <1>1, <1>2 DEF DiffOf
  <1> QED BY <1>1, <1>3 DEF Diffs

LEMMA AllDiffsType ==
  ASSUME NEW e \in Entities, Comparable(e)
  PROVE  AllDiffs(e) \in SUBSET Diffs
  BY DiffType DEF AllDiffs

LEMMA JudgedType ==
  ASSUME NEW e \in Entities, Comparable(e), NEW w \in Watchers
  PROVE  Judged(e, w) \in Watchers /\ Judged(e, w).version = w.version
  <1> DEFINE D == {DiffOf(e, i) : i \in UNION {Existing(e, d) : d \in Unresolved(e, w)}}
  <1>1. \A d : Existing(e, d) \subseteq DOMAIN Signatures
    BY DEF Existing, Sharing
  <1>2. D \in SUBSET Diffs
    BY <1>1, DiffType
  <1>3. DetermineWatcherStatus(e, w) \in {"Active"} \cup Terminal
    BY DEF DetermineWatcherStatus, Terminal
  <1> HIDE DEF D
  <1>4. Judged(e, w) = [w EXCEPT !.status = DetermineWatcherStatus(e, w), !.diffs = D]
    BY DEF Judged, D
  <1> QED BY <1>2, <1>3, <1>4 DEF Watchers

(* A judgement that finds a diff affected compares with a newer version.    *)
LEMMA JudgedSuperseded ==
  ASSUME NEW e \in Entities, NEW w \in Watchers,
         Judged(e, w).status \in {"Outdated", "Completed Partially"}
  PROVE  e.version > w.version
  <1>1. Judged(e, w).status = DetermineWatcherStatus(e, w)
    BY DEF Judged, Watchers
  <1>2. Affected(e, w) # {}
    BY <1>1 DEF DetermineWatcherStatus
  <1> QED BY <1>2 DEF Affected

------------------------------------------------------------------------------
(* Changes to the state of one loop, and of one update *)

LEMMA IdlePassType == IdlePass \in PassStates /\ Shape(IdlePass)
  BY DEF IdlePass, PassStates, Shape

LEMMA PassEdit ==
  ASSUME TypeInv, NEW l \in Loops, NEW q \in PassStates, Shape(q),
         pass' = [pass EXCEPT ![l] = q]
  PROVE  pass' \in [Loops -> PassStates] /\ \A k \in Loops : Shape(pass'[k])
  BY DEF TypeInv, TypeOK

LEMMA PassStep ==
  ASSUME TypeInv, NEW l \in Loops,
         \/ EndPass(l)
         \/ \E pc \in {"entity", "watchlist", "any"} : GotoPass(l, pc)
         \/ pass' = [pass EXCEPT ![l] = [IdlePass EXCEPT !.pc = "dead"]]
         \/ UNCHANGED pass
  PROVE  pass' \in [Loops -> PassStates] /\ \A k \in Loops : Shape(pass'[k])
  <1>1. pass \in [Loops -> PassStates] /\ \A k \in Loops : Shape(pass[k])
    BY DEF TypeInv, TypeOK
  <1>2. CASE EndPass(l)
    BY <1>2, PassEdit, IdlePassType DEF EndPass
  <1>3. ASSUME NEW pc \in {"entity", "watchlist", "any"}, GotoPass(l, pc)
        PROVE  pass' \in [Loops -> PassStates] /\ \A k \in Loops : Shape(pass'[k])
    <2> DEFINE q == [pass[l] EXCEPT !.pc = pc]
    <2>1. q \in PassStates /\ Shape(q)
      BY <1>1 DEF PassStates, Shape
    <2>2. pass' = [pass EXCEPT ![l] = q]
      BY <1>1, <1>3 DEF GotoPass
    <2> QED BY <2>1, <2>2, PassEdit
  <1>4. CASE pass' = [pass EXCEPT ![l] = [IdlePass EXCEPT !.pc = "dead"]]
    <2>1. [IdlePass EXCEPT !.pc = "dead"] \in PassStates /\ Shape([IdlePass EXCEPT !.pc = "dead"])
      BY DEF IdlePass, PassStates, Shape
    <2> QED BY <2>1, <1>4, PassEdit
  <1>5. CASE UNCHANGED pass
    BY <1>1, <1>5
  <1> QED BY <1>2, <1>3, <1>4, <1>5

UpdateTyped == upd' \in [Updates -> UpdateStates] /\ \A v \in Updates : UpdateShape(upd'[v])

LEMMA UpdateEdit ==
  ASSUME TypeInv, NEW u \in Updates, NEW q \in UpdateStates, UpdateShape(q),
         upd' = [upd EXCEPT ![u] = q]
  PROVE  UpdateTyped
  BY DEF TypeInv, TypeOK, UpdateTyped

LEMMA UpdateStep ==
  ASSUME TypeInv, NEW u \in Updates,
         \E pc \in {"created", "list", "done"} : GotoUpdate(u, pc)
  PROVE  UpdateTyped
  <1>1. PICK pc \in {"created", "list", "done"} : upd' = [upd EXCEPT ![u] = EndedUpdate(pc)]
    BY DEF GotoUpdate
  <1>2. EndedUpdate(pc) \in UpdateStates /\ UpdateShape(EndedUpdate(pc))
    BY DEF EndedUpdate, UpdateStates, UpdateShape
  <1> QED BY <1>1, <1>2, UpdateEdit

------------------------------------------------------------------------------
(* Type correctness *)

LEMMA TypeInit == Init => TypeInv
  <1> SUFFICES ASSUME Init PROVE TypeInv
    OBVIOUS
  <1>1. entity \in Entities \cup {None} /\ newest \in Nat
    BY DEF Init, Entities, Specs, Statuses
  <1>2. /\ upd \in [Updates -> UpdateStates]
        /\ \A u \in Updates : UpdateShape(upd[u])
    BY DEF Init, EndedUpdate, UpdateStates, UpdateShape
  <1>3. pass \in [Loops -> PassStates] /\ \A l \in Loops : Shape(pass[l])
    BY IdlePassType DEF Init
  <1> QED BY <1>1, <1>2, <1>3 DEF Init, TypeInv, TypeOK

LEMMA StatusStored ==
  ASSUME TypeInv, NEW status \in Statuses, StoreStatus(status)
  PROVE  /\ entity' \in Entities /\ entity' # None
         /\ entity'.version = IF entity = None THEN 0 ELSE entity.version
  <1>1. CASE entity = None
    BY <1>1, NoneAssumption DEF StoreStatus, Entities
  <1>2. CASE entity # None
    <2>1. entity \in Entities
      BY <1>2 DEF TypeInv, TypeOK
    <2>2. entity' = [version |-> entity.version, spec |-> entity.spec, status |-> status]
      BY <1>2, <2>1 DEF StoreStatus, Entities
    <2> QED BY <1>2, <2>1, <2>2, NoneAssumption DEF Entities
  <1> QED BY <1>1, <1>2

LEMMA SpecWritten ==
  ASSUME TypeInv, NEW u \in Updates, WriteSpec(u)
  PROVE  /\ upd[u].spec \in Specs /\ upd[u].version \in Nat
         /\ \/ /\ entity' \in Entities /\ entity' # None
               /\ entity'.version = upd[u].version + 1
               /\ newest' = IF entity'.version > newest THEN entity'.version ELSE newest
               /\ entity # None => entity.version = upd[u].version
            \/ UNCHANGED <<entity, newest>>
  <1>1. upd[u].spec \in Specs /\ upd[u].version \in Nat
    BY DEF WriteSpec, TypeInv, TypeOK, UpdateShape, UpdateStates
  <1> DEFINE status == IF entity = None THEN None ELSE entity.status
             version == upd[u].version + 1
  <1>2. ASSUME entity' = [version |-> version, spec |-> upd[u].spec, status |-> status]
        PROVE  entity' \in Entities /\ entity' # None /\ entity'.version = version
    <2>1. status \in Statuses \cup {None}
      BY DEF TypeInv, TypeOK, Entities
    <2> HIDE DEF status
    <2> QED BY <1>1, <1>2, <2>1, NoneAssumption DEF Entities
  <1> QED BY <1>1, <1>2 DEF WriteSpec

LEMMA RequestType ==
  ASSUME TypeInv, NEW u \in Updates, Request(u)
  PROVE  TypeInv'
  <1> USE DEF TypeInv, TypeOK
  <1>1. CASE Construct(u) \/ Update(u)
    <2>1. PICK pc \in {"create", "update"}, v \in CreateVersions \cup UpdateVersions, spec \in Specs :
            upd' = [upd EXCEPT ![u] = [pc |-> pc, version |-> v, spec |-> spec, diffs |-> {}]]
      BY <1>1 DEF Construct, Update, Arrive
    <2>2. UpdateTyped
      <3> DEFINE q == [pc |-> pc, version |-> v, spec |-> spec, diffs |-> {}]
      <3>1. q \in UpdateStates /\ UpdateShape(q)
        BY RequestsAssumption DEF UpdateStates, UpdateShape
      <3> QED BY <2>1, <3>1, UpdateEdit
    <2> QED BY <1>1, <2>2 DEF Construct, Update, Arrive, UpdateTyped, history
  <1>2. CASE WriteSpec(u)
    <2>1. UpdateTyped
      <3>1. upd[u].spec \in Specs /\ upd[u].version + 1 \in Nat
        BY <1>2, SpecWritten
      <3>2. [EndedUpdate("status") EXCEPT !.spec = upd[u].spec] \in UpdateStates
        BY <3>1 DEF EndedUpdate, UpdateStates
      <3>3. UpdateShape([EndedUpdate("status") EXCEPT !.spec = upd[u].spec])
        BY <3>1 DEF EndedUpdate, UpdateShape
      <3>4. [EndedUpdate("updated") EXCEPT !.version = upd[u].version + 1] \in UpdateStates
        BY <3>1 DEF EndedUpdate, UpdateStates
      <3>5. UpdateShape([EndedUpdate("updated") EXCEPT !.version = upd[u].version + 1])
        BY DEF EndedUpdate, UpdateShape
      <3>6. \/ EndUpdate(u)
            \/ upd' = [upd EXCEPT ![u] = [EndedUpdate("status") EXCEPT !.spec = upd[u].spec]]
            \/ upd' = [upd EXCEPT ![u] = [EndedUpdate("updated") EXCEPT !.version = upd[u].version + 1]]
        BY <1>2 DEF WriteSpec
      <3>7. CASE EndUpdate(u)
        BY <3>7, UpdateStep DEF EndUpdate
      <3> QED BY <3>2, <3>3, <3>4, <3>5, <3>6, <3>7, UpdateEdit
    <2>2. entity' \in Entities \cup {None} /\ newest' \in Nat
      BY <1>2, SpecWritten DEF Entities
    <2> QED BY <1>2, <2>1, <2>2 DEF WriteSpec, UpdateTyped
  <1>3. CASE WriteStatus(u)
    <2>1. UpdateTyped
      BY <1>3, UpdateStep DEF WriteStatus, EndUpdate
    <2>2. entity' \in Entities \cup {None}
      <3>1. CASE UNCHANGED entity
        BY <3>1
      <3>2. ASSUME NEW status \in Given \cup {upd[u].spec}, StoreStatus(status)
            PROVE  entity' \in Entities
        <4>1. status \in Statuses
          BY RequestsAssumption, <1>3 DEF WriteStatus, UpdateShape, Specs, Statuses
        <4> QED BY <4>1, <3>2, StatusStored
      <3> QED BY <1>3, <3>1, <3>2 DEF WriteStatus
    <2> QED BY <1>3, <2>1, <2>2 DEF WriteStatus, UpdateTyped, history
  <1>4. CASE ReadBack(u)
    <2>1. UpdateTyped
      <3>1. CASE EndUpdate(u)
        BY <3>1, UpdateStep DEF EndUpdate
      <3>2. CASE entity # None /\ Comparable(entity)
        <4>1. entity.version \in Nat /\ AllDiffs(entity) \in SUBSET Diffs
          BY <3>2, AllDiffsType DEF Entities
        <4> DEFINE q(v) == [pc |-> "save", spec |-> None, diffs |-> AllDiffs(entity), version |-> v]
        <4>2. \A v \in Nat : q(v) \in UpdateStates /\ UpdateShape(q(v))
          BY <4>1 DEF UpdateStates, UpdateShape
        <4>3. upd[u].version \in Nat
          BY DEF UpdateStates
        <4>4. \/ EndUpdate(u)
              \/ \E v \in {entity.version, upd[u].version} : upd' = [upd EXCEPT ![u] = q(v)]
          BY <1>4 DEF ReadBack
        <4> HIDE DEF q
        <4> QED BY <3>1, <4>1, <4>2, <4>3, <4>4, UpdateEdit
      <3> QED BY <1>4, <3>1, <3>2 DEF ReadBack
    <2> QED BY <1>4, <2>1 DEF ReadBack, UpdateTyped, history
  <1>5. CASE SaveWatcher(u)
    <2>1. UpdateTyped
      BY <1>5, UpdateStep DEF SaveWatcher
    <2>2. [version |-> upd[u].version, diffs |-> upd[u].diffs, status |-> "Active"] \in Watchers
      BY DEF Watchers, UpdateStates
    <2>3. watchers' \in [Updates -> Watchers \cup {None}]
      BY <1>5, <2>2 DEF SaveWatcher
    <2> QED BY <1>5, <2>1, <2>3 DEF SaveWatcher, UpdateTyped, history
  <1>6. CASE AddToWatchlist(u) \/ FailUpdate(u)
    <2>1. UpdateTyped
      BY <1>6, UpdateStep DEF AddToWatchlist, FailUpdate, EndUpdate
    <2> QED BY <1>6, <2>1 DEF AddToWatchlist, FailUpdate, UpdateTyped, history
  <1> QED BY <1>1, <1>2, <1>3, <1>4, <1>5, <1>6 DEF Request

LEMMA EngineType ==
  ASSUME TypeInv, Engine
  PROVE  TypeInv'
  <1> USE DEF TypeInv, TypeOK
  <1>1. ASSUME NEW status \in Given, SetStatus(status)
        PROVE  TypeInv'
    <2>1. entity' \in Entities
      BY <1>1, StatusStored, RequestsAssumption DEF SetStatus
    <2> QED BY <1>1, <2>1 DEF SetStatus, history
  <1>2. CASE DeleteEntity \/ RemoveFromWatchlist \/ AddRandomEntities
    BY <1>2 DEF DeleteEntity, RemoveFromWatchlist, AddRandomEntities, history
  <1> QED BY <1>1, <1>2 DEF Engine

LEMMA WriteType ==
  ASSUME TypeInv, NEW l \in Loops, NEW u \in Updates, ProcessActiveWatcher(l, u)
  PROVE  TypeInv'
  <1>1. PICK t \in pass[l].todo :
          /\ t.of = u
          /\ UpdateWatcher(u, t.as)
          /\ IF pass[l].todo = {t} THEN EndPass(l)
             ELSE pass' = [pass EXCEPT ![l].todo = @ \ {t}]
    BY DEF ProcessActiveWatcher
  <1>2. pass[l] \in PassStates /\ Shape(pass[l]) /\ pass[l].pc = "write"
    BY DEF TypeInv, TypeOK, ProcessActiveWatcher
  <1>3. t.as \in Watchers
    BY <1>2 DEF Shape
  <1>4. watchers' \in [Updates -> Watchers \cup {None}]
    BY <1>1, <1>3 DEF UpdateWatcher, TypeInv, TypeOK
  <1>5. pass' \in [Loops -> PassStates] /\ \A k \in Loops : Shape(pass'[k])
    <2> DEFINE q == [pass[l] EXCEPT !.todo = @ \ {t}]
    <2>1. q \in PassStates /\ Shape(q)
      BY <1>2 DEF PassStates, Shape
    <2>2. CASE EndPass(l)
      BY <2>2, PassStep
    <2>3. CASE pass' = [pass EXCEPT ![l] = q]
      BY <2>1, <2>3, PassEdit
    <2>4. pass' = [pass EXCEPT ![l].todo = @ \ {t}] => pass' = [pass EXCEPT ![l] = q]
      BY DEF TypeInv, TypeOK
    <2> QED BY <1>1, <2>2, <2>3, <2>4
  <1> QED BY <1>4, <1>5 DEF ProcessActiveWatcher, TypeInv, TypeOK, history

(* The judgements that a loop has still to write.                           *)
LEMMA ListedType ==
  ASSUME TypeInv, NEW l \in Loops, ListActiveWatchers(l)
  PROVE  TypeInv'
  <1> DEFINE T == {[of |-> u, as |-> Judged(pass[l].entity, watchers[u])] : u \in ActiveWatchers}
             q == [pc |-> "write", entity |-> None, todo |-> T]
  <1>1. pass[l].entity \in Entities
    BY DEF ListActiveWatchers, TypeInv, TypeOK, Shape
  <1>2. \A u \in ActiveWatchers : u \in Updates /\ watchers[u] \in Watchers
    BY DEF ActiveWatchers, TypeInv, TypeOK
  <1>3. Comparable(pass[l].entity) => q \in PassStates /\ Shape(q)
    <2>1. Comparable(pass[l].entity) => T \subseteq [of : Updates, as : Watchers]
      BY <1>1, <1>2, JudgedType
    <2> QED BY <2>1 DEF PassStates, Shape, Todo
  <1>4. \/ EndPass(l)
        \/ Comparable(pass[l].entity) /\ pass' = [pass EXCEPT ![l] = q]
    BY DEF ListActiveWatchers
  <1>5. pass' \in [Loops -> PassStates] /\ \A k \in Loops : Shape(pass'[k])
    BY <1>3, <1>4, PassEdit, PassStep
  <1> QED BY <1>5 DEF ListActiveWatchers, TypeInv, TypeOK, history

LEMMA ListenerType ==
  ASSUME TypeInv, Listener
  PROVE  TypeInv'
  <1> USE DEF TypeInv, TypeOK
  <1>1. CASE ListenerWatchlist
    <2>1. pass' \in [Loops -> PassStates] /\ \A k \in Loops : Shape(pass'[k])
      BY <1>1, PassStep DEF ListenerWatchlist, Loops
    <2> QED BY <1>1, <2>1 DEF ListenerWatchlist, history
  <1>2. CASE ListenerEntity
    <2> DEFINE q == [pass["listener"] EXCEPT !.pc = "watchers", !.entity = entity]
    <2>1. entity # None => q \in PassStates /\ Shape(q)
      BY DEF PassStates, Shape, Loops
    <2>2. \/ EndPass("listener")
          \/ entity # None /\ pass' = [pass EXCEPT !["listener"] = q]
      BY <1>2 DEF ListenerEntity, Loops
    <2>3. pass' \in [Loops -> PassStates] /\ \A k \in Loops : Shape(pass'[k])
      BY <2>1, <2>2, PassEdit, PassStep DEF Loops
    <2>4. known' \in [spec : Specs \cup {None}, status : Statuses \cup {None}] \cup {None}
      BY <1>2 DEF ListenerEntity, Entities
    <2> QED BY <1>2, <2>3, <2>4 DEF ListenerEntity, history
  <1>3. CASE OnChange("listener")
    BY <1>3, ListedType, WriteType DEF OnChange, Loops
  <1> QED BY <1>1, <1>2, <1>3 DEF Listener

LEMMA PeriodicType ==
  ASSUME TypeInv, Periodic
  PROVE  TypeInv'
  <1> USE DEF TypeInv, TypeOK
  <1>1. CASE ListTerminal
    <2>1. PICK S \in SUBSET Updates :
            pass' = [pass EXCEPT !["periodic"].pc = IF S = {} THEN "watchlist" ELSE "clear",
                                 !["periodic"].todo = S]
      BY <1>1 DEF ListTerminal
    <2> DEFINE q == [pass["periodic"] EXCEPT !.pc = IF S = {} THEN "watchlist" ELSE "clear",
                                             !.todo = S]
    <2>2. q \in PassStates /\ Shape(q)
      BY DEF PassStates, Shape, Loops, Todo
    <2>3. pass' \in [Loops -> PassStates] /\ \A k \in Loops : Shape(pass'[k])
      BY <2>1, <2>2, PassEdit DEF Loops
    <2> QED BY <1>1, <2>3 DEF ListTerminal, history
  <1>2. ASSUME NEW u \in Updates, DeleteWatcher(u)
        PROVE  TypeInv'
    <2> DEFINE q == [pass["periodic"] EXCEPT
                       !.pc = IF pass["periodic"].todo = {u} THEN "watchlist" ELSE @,
                       !.todo = @ \ {u}]
    <2>1. q \in PassStates /\ Shape(q)
      BY ZenonT(60), <1>2 DEF DeleteWatcher, PassStates, Shape, Loops
    <2>2. pass' \in [Loops -> PassStates] /\ \A k \in Loops : Shape(pass'[k])
      BY <1>2, <2>1, PassEdit DEF DeleteWatcher, Loops
    <2> QED BY <1>2, <2>2 DEF DeleteWatcher, history
  <1>3. CASE PeriodicWatchlist \/ HasWatcher
    <2>1. pass' \in [Loops -> PassStates] /\ \A k \in Loops : Shape(pass'[k])
      BY <1>3, PassStep DEF PeriodicWatchlist, HasWatcher, Loops
    <2> QED BY <1>3, <2>1 DEF PeriodicWatchlist, HasWatcher, history
  <1>4. CASE PeriodicEntity
    <2> DEFINE q == [pass["periodic"] EXCEPT !.pc = "watchers", !.entity = entity]
    <2>1. entity # None => q \in PassStates /\ Shape(q)
      BY DEF PassStates, Shape, Loops
    <2>2. \/ EndPass("periodic")
          \/ entity # None /\ pass' = [pass EXCEPT !["periodic"] = q]
      BY <1>4 DEF PeriodicEntity, Loops
    <2>3. pass' \in [Loops -> PassStates] /\ \A k \in Loops : Shape(pass'[k])
      BY <2>1, <2>2, PassEdit, PassStep DEF Loops
    <2> QED BY <1>4, <2>3 DEF PeriodicEntity, history
  <1>5. CASE OnChange("periodic")
    BY <1>5, ListedType, WriteType DEF OnChange, Loops
  <1> QED BY <1>1, <1>2, <1>3, <1>4, <1>5 DEF Periodic

LEMMA TypeStep == TypeInv /\ [Next]_vars => TypeInv'
  <1> SUFFICES ASSUME TypeInv, [Next]_vars PROVE TypeInv'
    OBVIOUS
  <1>1. ASSUME NEW l \in Loops, Abandon(l) \/ Die(l)
        PROVE  TypeInv'
    <2>1. pass' \in [Loops -> PassStates] /\ \A k \in Loops : Shape(pass'[k])
      BY <1>1, PassStep DEF Abandon, Die
    <2> QED BY <1>1, <2>1 DEF Abandon, Die, TypeInv, TypeOK, history
  <1>2. CASE Restart
    BY <1>2, IdlePassType DEF Restart, TypeInv, TypeOK, history
  <1>3. CASE UNCHANGED vars
    BY <1>3 DEF vars, TypeInv, TypeOK
  <1> QED BY <1>1, <1>2, <1>3, RequestType, EngineType, ListenerType, PeriodicType DEF Next

(* Every entity, watcher and diff is well formed in every reachable state,  *)
(* and what a loop holds fits the place where it stands.                    *)
THEOREM TypeCorrect == Spec => []TypeOK
  <1>1. Init => TypeInv
    BY TypeInit
  <1>2. TypeInv /\ [Next]_vars => TypeInv'
    BY TypeStep
  <1>3. TypeInv => TypeOK
    BY DEF TypeInv
  <1> QED BY <1>1, <1>2, <1>3, PTL DEF Spec

------------------------------------------------------------------------------
(* A watcher is superseded only by a newer spec *)

LEMMA SupersededInit == Init => SupersededInv
  <1> SUFFICES ASSUME Init PROVE SupersededInv
    OBVIOUS
  <1>1. \A l \in Loops : pass[l].pc = "idle"
    BY DEF Init, IdlePass
  <1>2. \A u \in Updates : watchers[u] = None
    BY DEF Init
  <1>3. LiveNotNewer
    <2>1. CASE entity = None /\ newest = 0
      BY <2>1 DEF LiveNotNewer
    <2>2. CASE entity # None /\ newest = 1 /\ entity.version = 1
      BY <2>2 DEF LiveNotNewer
    <2> QED BY <2>1, <2>2, TypeInit, NoneAssumption DEF Init, TypeInv, TypeOK, Entities, Specs, Statuses
  <1> QED BY <1>1, <1>2, <1>3, TypeInit DEF SupersededInv, NewestInv, HeldNotNewer

(* The newest version only grows, so what was superseded stays so.          *)
LEMMA SupersededStays ==
  ASSUME TypeInv, TypeInv', newest' >= newest, NEW w \in Watchers, Superseded(w)
  PROVE  Superseded(w)'
  <1>1. newest \in Nat /\ newest' \in Nat /\ w.version \in Nat
    BY DEF TypeInv, TypeOK, Watchers
  <1>2. newest > w.version => newest' > w.version
    BY <1>1
  <1> QED BY <1>2 DEF Superseded

(* A step that writes no new judgement and leaves the loops with what they  *)
(* held, or a part of it.                                                   *)
LEMMA QuietStep ==
  ASSUME SupersededInv, TypeInv', newest' >= newest, LiveNotNewer',
         \A u \in Updates : \/ watchers'[u] \in {watchers[u], None}
                            \/ watchers'[u].status = "Active"
                            \/ Superseded(watchers[u])',
         \A l \in Loops : \/ pass'[l].pc \notin {"watchers", "write"}
                          \/ pass'[l] = pass[l]
                          \/ pass'[l].pc = "write" /\ pass[l].pc = "write"
                             /\ pass'[l].todo \subseteq pass[l].todo
  PROVE  SupersededInv'
  <1>1. TypeInv
    BY DEF SupersededInv
  <1>2. \A w \in Watchers : Superseded(w) => Superseded(w)'
    BY <1>1, SupersededStays
  <1>3. ASSUME NEW u \in Updates, watchers'[u] # None
        PROVE  Superseded(watchers[u])'
    <2>1. CASE watchers'[u] = watchers[u]
      <3>1. watchers[u] \in Watchers /\ Superseded(watchers[u])
        BY <1>1, <1>3, <2>1 DEF TypeInv, TypeOK, SupersededInv, NewestInv
      <3>2. PICK w \in Watchers : w = watchers[u]
        BY <3>1
      <3>3. Superseded(w)'
        BY <1>2, <3>1, <3>2
      <3> QED BY <2>1, <3>2, <3>3 DEF Superseded
    <2>2. CASE watchers'[u].status = "Active"
      BY <2>2 DEF Superseded
    <2> QED BY <1>3, <2>1, <2>2
  <1>4. ASSUME NEW l \in Loops, pass'[l].pc = "watchers"
        PROVE  pass'[l].entity.version <= newest'
    <2>1. pass'[l] = pass[l] /\ pass[l].entity \in Entities
      BY <1>1, <1>4 DEF TypeInv, Shape
    <2>2. pass[l].entity.version <= newest
      BY <1>4, <2>1 DEF SupersededInv, NewestInv, HeldNotNewer
    <2>3. newest \in Nat /\ newest' \in Nat /\ pass[l].entity.version \in Nat
      BY <1>1, <2>1 DEF TypeInv, TypeOK, Entities
    <2> QED BY <2>1, <2>2, <2>3
  <1>5. ASSUME NEW l \in Loops, pass'[l].pc = "write"
        PROVE  \A t \in pass'[l].todo : Superseded(t.as)'
    <2>1. pass[l].pc = "write" /\ pass'[l].todo \subseteq pass[l].todo
      BY <1>5
    <2>2. \A t \in pass[l].todo : t.as \in Watchers /\ Superseded(t.as)
      BY <1>1, <2>1 DEF TypeInv, Shape, SupersededInv, NewestInv, HeldNotNewer
    <2> QED BY <1>2, <2>1, <2>2
  <1>6. HeldNotNewer'
    BY <1>4, <1>5 DEF HeldNotNewer
  <1> QED BY <1>3, <1>6 DEF SupersededInv, NewestInv

LEMMA PassQuiet ==
  ASSUME TypeInv, NEW l \in Loops,
         \/ EndPass(l)
         \/ \E pc \in {"entity", "watchlist", "any"} : GotoPass(l, pc)
         \/ pass' = [pass EXCEPT ![l] = [IdlePass EXCEPT !.pc = "dead"]]
         \/ UNCHANGED pass
  PROVE  \A k \in Loops : pass'[k].pc \notin {"watchers", "write"} \/ pass'[k] = pass[k]
  <1>1. pass \in [Loops -> PassStates]
    BY DEF TypeInv, TypeOK
  <1>2. \A k \in Loops \ {l} : pass'[k] = pass[k]
    BY <1>1 DEF EndPass, GotoPass
  <1>3. pass'[l].pc \notin {"watchers", "write"} \/ pass'[l] = pass[l]
    BY <1>1 DEF EndPass, GotoPass, IdlePass, PassStates
  <1> QED BY <1>2, <1>3

(* A step that leaves the entity alone.                                     *)
LEMMA SameEntityStep ==
  ASSUME SupersededInv, TypeInv', UNCHANGED <<entity, newest, removed>>,
         \A u \in Updates : \/ watchers'[u] \in {watchers[u], None}
                            \/ watchers'[u].status = "Active"
                            \/ Superseded(watchers[u])',
         \A l \in Loops : \/ pass'[l].pc \notin {"watchers", "write"}
                          \/ pass'[l] = pass[l]
                          \/ pass'[l].pc = "write" /\ pass[l].pc = "write"
                             /\ pass'[l].todo \subseteq pass[l].todo
  PROVE  SupersededInv'
  <1>1. newest \in Nat /\ newest' = newest
    BY DEF SupersededInv, TypeInv, TypeOK
  <1>2. LiveNotNewer'
    BY DEF SupersededInv, NewestInv, LiveNotNewer
  <1> QED BY <1>1, <1>2, QuietStep

(* A status, of whichever request, leaves the version alone, or inserts a   *)
(* document without one.                                                    *)
LEMMA StatusNotNewer ==
  ASSUME SupersededInv, NEW status \in Statuses, StoreStatus(status),
         UNCHANGED <<newest, removed>>
  PROVE  LiveNotNewer' /\ newest' >= newest
  <1>1. newest \in Nat
    BY DEF SupersededInv, TypeInv, TypeOK
  <1>2. entity' # None /\ entity'.version = IF entity = None THEN 0 ELSE entity.version
    BY StatusStored DEF SupersededInv
  <1>3. entity # None => entity.version <= newest
    BY DEF SupersededInv, NewestInv, LiveNotNewer
  <1>4. ~ removed => newest = IF entity = None THEN 0 ELSE entity.version
    BY DEF SupersededInv, NewestInv, LiveNotNewer
  <1>5. entity'.version <= newest'
    BY <1>1, <1>2, <1>3
  <1>6. ~ removed' => newest' = entity'.version
    BY <1>2, <1>4
  <1> QED BY <1>1, <1>2, <1>5, <1>6 DEF LiveNotNewer

LEMMA RequestSuperseded ==
  ASSUME SupersededInv, TypeInv', NEW u \in Updates, Request(u)
  PROVE  SupersededInv'
  <1>1. TypeInv /\ newest \in Nat /\ LiveNotNewer
    BY DEF SupersededInv, NewestInv, TypeInv, TypeOK
  <1>2. CASE WriteSpec(u)
    <2>1. UNCHANGED <<watchers, pass, removed>>
      BY <1>2 DEF WriteSpec
    <2>2. CASE UNCHANGED <<entity, newest>>
      BY <2>1, <2>2, SameEntityStep
    <2>3. CASE /\ entity' \in Entities /\ entity' # None
               /\ entity'.version = upd[u].version + 1
               /\ newest' = IF entity'.version > newest THEN entity'.version ELSE newest
               /\ entity # None => entity.version = upd[u].version
      <3>1. upd[u].version \in Nat /\ entity'.version \in Nat
        BY <1>1, <1>2, <2>3, SpecWritten
      <3>2. newest' >= newest /\ entity'.version <= newest'
        BY <1>1, <2>3, <3>1
      <3>3. ASSUME ~ removed
            PROVE  newest' = entity'.version
        <4>1. newest = IF entity = None THEN 0 ELSE entity.version
          BY <1>1, <3>3 DEF LiveNotNewer
        <4>2. newest < entity'.version
          BY <2>3, <3>1, <4>1
        <4> QED BY <1>1, <2>3, <3>1, <4>2
      <3>4. LiveNotNewer'
        BY <2>1, <2>3, <3>2, <3>3 DEF LiveNotNewer
      <3> QED BY <2>1, <3>2, <3>4, QuietStep
    <2> QED BY <1>1, <1>2, <2>2, <2>3, SpecWritten
  <1>3. CASE WriteStatus(u)
    <2>1. UNCHANGED <<watchers, pass, newest, removed>>
      BY <1>3 DEF WriteStatus, history
    <2>2. CASE UNCHANGED entity
      BY <2>1, <2>2, SameEntityStep
    <2>3. ASSUME NEW status \in Given \cup {upd[u].spec}, StoreStatus(status)
          PROVE  SupersededInv'
      <3>1. status \in Statuses
        BY RequestsAssumption, <1>1, <1>3
           DEF WriteStatus, TypeInv, UpdateShape, Specs, Statuses
      <3> QED BY <2>1, <2>3, <3>1, StatusNotNewer, QuietStep
    <2> QED BY <1>3, <2>2, <2>3 DEF WriteStatus
  <1>4. CASE \/ Construct(u) \/ Update(u) \/ ReadBack(u)
             \/ AddToWatchlist(u) \/ FailUpdate(u)
    <2>1. UNCHANGED <<entity, watchers, pass, newest, removed>>
      BY <1>4 DEF Construct, Update, Arrive, ReadBack, AddToWatchlist, FailUpdate, history
    <2> QED BY <2>1, SameEntityStep
  <1>5. CASE SaveWatcher(u)
    <2>1. /\ UNCHANGED <<entity, pass, newest, removed>>
          /\ \A v \in Updates \ {u} : watchers'[v] = watchers[v]
      BY <1>1, <1>5 DEF SaveWatcher, TypeInv, TypeOK, history
    <2>2. watchers'[u].status = "Active"
      BY <1>1, <1>5 DEF SaveWatcher, TypeInv, TypeOK
    <2> QED BY <2>1, <2>2, SameEntityStep
  <1> QED BY <1>2, <1>3, <1>4, <1>5 DEF Request

LEMMA EngineSuperseded ==
  ASSUME SupersededInv, TypeInv', Engine
  PROVE  SupersededInv'
  <1>1. UNCHANGED <<watchers, pass>>
    BY DEF Engine, SetStatus, DeleteEntity, RemoveFromWatchlist, AddRandomEntities
  <1>2. newest \in Nat
    BY DEF SupersededInv, TypeInv, TypeOK
  <1>3. ASSUME NEW status \in Given, SetStatus(status)
        PROVE  SupersededInv'
    BY <1>1, <1>3, RequestsAssumption, StatusNotNewer, QuietStep DEF SetStatus, history
  <1>4. CASE DeleteEntity
    <2>1. entity' = None /\ removed' /\ newest' >= newest
      BY <1>2, <1>4 DEF DeleteEntity
    <2> QED BY <1>1, <2>1, QuietStep DEF LiveNotNewer
  <1>5. CASE RemoveFromWatchlist \/ AddRandomEntities
    BY <1>1, <1>5, SameEntityStep DEF RemoveFromWatchlist, AddRandomEntities, history
  <1> QED BY <1>3, <1>4, <1>5 DEF Engine

LEMMA EntitySuperseded ==
  ASSUME SupersededInv, TypeInv', NEW l \in Loops, entity # None,
         pass' = [pass EXCEPT ![l].pc = "watchers", ![l].entity = entity],
         UNCHANGED <<entity, watchers, newest, removed>>
  PROVE  SupersededInv'
  <1>1. pass \in [Loops -> PassStates]
    BY DEF SupersededInv, TypeInv, TypeOK
  <1>2. \A k \in Loops \ {l} : pass'[k] = pass[k]
    BY <1>1
  <1>3. pass'[l].pc = "watchers" /\ pass'[l].entity = entity
    BY <1>1 DEF PassStates
  <1>4. entity.version <= newest /\ LiveNotNewer'
    BY DEF SupersededInv, NewestInv, LiveNotNewer
  <1>5. HeldNotNewer'
    BY <1>2, <1>3, <1>4 DEF SupersededInv, NewestInv, HeldNotNewer, Superseded
  <1> QED BY <1>4, <1>5 DEF SupersededInv, NewestInv, Superseded

(* The judgements of a snapshot that is not newer than the newest spec.     *)
LEMMA ListedSuperseded ==
  ASSUME SupersededInv, TypeInv', NEW l \in Loops, ListActiveWatchers(l)
  PROVE  SupersededInv'
  <1> DEFINE T == {[of |-> u, as |-> Judged(pass[l].entity, watchers[u])] : u \in ActiveWatchers}
             q == [pc |-> "write", entity |-> None, todo |-> T]
  <1>1. TypeInv /\ UNCHANGED <<entity, watchers, newest, removed>>
    BY DEF SupersededInv, ListActiveWatchers, history
  <1>2. CASE EndPass(l)
    BY <1>1, <1>2, PassQuiet, SameEntityStep
  <1>3. CASE Comparable(pass[l].entity) /\ pass' = [pass EXCEPT ![l] = q]
    <2>1. pass[l].entity \in Entities /\ pass[l].pc = "watchers"
      BY <1>1 DEF ListActiveWatchers, TypeInv, Shape
    <2>2. \A k \in Loops \ {l} : pass'[k] = pass[k]
      BY <1>1, <1>3 DEF TypeInv, TypeOK
    <2>3. pass'[l].pc = "write" /\ pass'[l].todo = T
      BY <1>1, <1>3 DEF TypeInv, TypeOK
    <2>4. ASSUME NEW u \in ActiveWatchers
          PROVE  Superseded(Judged(pass[l].entity, watchers[u]))
      <3> DEFINE w == watchers[u]
                 e == pass[l].entity
                 j == Judged(e, w)
      <3>1. w \in Watchers
        BY <1>1 DEF ActiveWatchers, TypeInv, TypeOK
      <3>2. j.version = w.version
        BY <1>3, <2>1, <3>1, JudgedType
      <3>3. j.status \in {"Outdated", "Completed Partially"} => e.version > w.version
        BY <2>1, <3>1, JudgedSuperseded
      <3>4. e.version <= newest
        BY <2>1 DEF SupersededInv, NewestInv, HeldNotNewer
      <3>5. e.version \in Nat /\ w.version \in Nat /\ newest \in Nat
        BY <1>1, <2>1, <3>1 DEF TypeInv, TypeOK, Entities, Watchers
      <3> HIDE DEF w, e, j
      <3>6. ASSUME j.status \in {"Outdated", "Completed Partially"}
            PROVE  newest > j.version
        <4>1. e.version > w.version
          BY <3>3, <3>6
        <4>2. newest > w.version
          BY <3>4, <3>5, <4>1
        <4> QED BY <3>2, <4>2
      <3> QED BY <3>6 DEF Superseded, j, e, w
    <2>5. \A t \in pass'[l].todo : Superseded(t.as)'
      <3>1. \A t \in T : Superseded(t.as)
        BY <2>4
      <3> QED BY <1>1, <2>3, <3>1 DEF Superseded
    <2>6. HeldNotNewer'
      BY <1>1, <2>2, <2>3, <2>5 DEF SupersededInv, NewestInv, HeldNotNewer, Superseded
    <2> QED BY <1>1, <2>6 DEF SupersededInv, NewestInv, LiveNotNewer, Superseded
  <1> QED BY <1>2, <1>3 DEF ListActiveWatchers

LEMMA WriteSuperseded ==
  ASSUME SupersededInv, TypeInv', NEW l \in Loops, NEW u \in Updates, ProcessActiveWatcher(l, u)
  PROVE  SupersededInv'
  <1>1. TypeInv /\ UNCHANGED <<entity, newest, removed>>
    BY DEF SupersededInv, ProcessActiveWatcher, history
  <1>2. PICK t \in pass[l].todo :
          /\ UpdateWatcher(u, t.as)
          /\ \/ EndPass(l)
             \/ pass' = [pass EXCEPT ![l].todo = @ \ {t}]
    BY DEF ProcessActiveWatcher
  <1>3. Superseded(t.as) /\ pass[l].pc = "write"
    BY DEF ProcessActiveWatcher, SupersededInv, NewestInv, HeldNotNewer
  <1>4. /\ \A v \in Updates \ {u} : watchers'[v] = watchers[v]
        /\ watchers'[u] = IF watchers[u] = None THEN None ELSE t.as
    BY <1>1, <1>2 DEF UpdateWatcher, TypeInv, TypeOK
  <1>5. watchers'[u] = None \/ Superseded(watchers[u])'
    BY <1>1, <1>3, <1>4 DEF Superseded
  <1>6. \A k \in Loops : \/ pass'[k].pc \notin {"watchers", "write"}
                         \/ pass'[k] = pass[k]
                         \/ pass'[k].pc = "write" /\ pass[k].pc = "write"
                            /\ pass'[k].todo \subseteq pass[k].todo
    <2>1. CASE EndPass(l)
      BY <1>1, <2>1, PassQuiet
    <2>2. CASE pass' = [pass EXCEPT ![l].todo = @ \ {t}]
      BY <1>1, <1>3, <2>2 DEF TypeInv, TypeOK, PassStates
    <2> QED BY <1>2, <2>1, <2>2
  <1> QED BY <1>1, <1>4, <1>5, <1>6, SameEntityStep

LEMMA LoopSuperseded ==
  ASSUME SupersededInv, TypeInv', Listener \/ Periodic
  PROVE  SupersededInv'
  <1>1. TypeInv
    BY DEF SupersededInv
  <1> DEFINE Ordinary(l) ==
        \/ EndPass(l)
        \/ \E pc \in {"entity", "watchlist", "any"} : GotoPass(l, pc)
  <1>2. ASSUME UNCHANGED <<entity, watchers, newest, removed>>, NEW l \in Loops, Ordinary(l)
        PROVE  SupersededInv'
    BY <1>1, <1>2, PassQuiet, SameEntityStep
  <1>3. CASE ListenerWatchlist
    BY <1>2, <1>3 DEF ListenerWatchlist, Loops, history
  <1>4. CASE ListenerEntity
    <2>1. \/ EndPass("listener")
          \/ /\ entity # None
             /\ pass' = [pass EXCEPT !["listener"].pc = "watchers", !["listener"].entity = entity]
      BY <1>4 DEF ListenerEntity
    <2>2. UNCHANGED <<entity, watchers, newest, removed>>
      BY <1>4 DEF ListenerEntity, history
    <2> QED BY <1>2, <2>1, <2>2, EntitySuperseded DEF Loops
  <1>5. CASE ListTerminal \/ \E u \in Updates : DeleteWatcher(u)
    <2>1. pass \in [Loops -> PassStates]
      BY <1>1 DEF TypeInv, TypeOK
    <2>2. \A k \in Loops : pass'[k].pc \notin {"watchers", "write"} \/ pass'[k] = pass[k]
      BY <1>5, <2>1 DEF ListTerminal, DeleteWatcher, PassStates, Loops
    <2>3. /\ UNCHANGED <<entity, newest, removed>>
          /\ \A u \in Updates : watchers'[u] \in {watchers[u], None}
      BY <1>1, <1>5 DEF ListTerminal, DeleteWatcher, TypeInv, TypeOK, history
    <2> QED BY <2>2, <2>3, SameEntityStep
  <1>6. CASE PeriodicWatchlist \/ HasWatcher
    BY <1>2, <1>6 DEF PeriodicWatchlist, HasWatcher, Loops, history
  <1>7. CASE PeriodicEntity
    <2>1. \/ EndPass("periodic")
          \/ /\ entity # None
             /\ pass' = [pass EXCEPT !["periodic"].pc = "watchers", !["periodic"].entity = entity]
      BY <1>7 DEF PeriodicEntity
    <2>2. UNCHANGED <<entity, watchers, newest, removed>>
      BY <1>7 DEF PeriodicEntity, history
    <2> QED BY <1>2, <2>1, <2>2, EntitySuperseded DEF Loops
  <1>8. CASE OnChange("listener") \/ OnChange("periodic")
    BY <1>8, ListedSuperseded, WriteSuperseded DEF OnChange, Loops
  <1> QED BY <1>3, <1>4, <1>5, <1>6, <1>7, <1>8 DEF Listener, Periodic

LEMMA SupersededStep == SupersededInv /\ [Next]_vars => SupersededInv'
  <1> SUFFICES ASSUME SupersededInv, [Next]_vars PROVE SupersededInv'
    OBVIOUS
  <1>1. TypeInv /\ TypeInv'
    BY TypeStep DEF SupersededInv
  <1>2. ASSUME NEW l \in Loops, Abandon(l) \/ Die(l)
        PROVE  SupersededInv'
    <2>1. \A k \in Loops : pass'[k].pc \notin {"watchers", "write"} \/ pass'[k] = pass[k]
      BY <1>1, <1>2, PassQuiet DEF Abandon, Die
    <2>2. UNCHANGED <<entity, watchers, newest, removed>>
      BY <1>2 DEF Abandon, Die, history
    <2> QED BY <1>1, <2>1, <2>2, SameEntityStep
  <1>3. CASE Restart
    <2>1. \A k \in Loops : pass'[k].pc = "idle"
      BY <1>3 DEF Restart, IdlePass
    <2>2. UNCHANGED <<entity, watchers, newest, removed>>
      BY <1>3 DEF Restart, history
    <2> QED BY <1>1, <2>1, <2>2, SameEntityStep
  <1>4. CASE UNCHANGED vars
    BY <1>1, <1>4, SameEntityStep DEF vars
  <1> QED BY <1>1, <1>2, <1>3, <1>4, RequestSuperseded, EngineSuperseded, LoopSuperseded DEF Next

LEMMA NothingBelowZero ==
  ASSUME NEW m \in Nat, NEW n \in Nat, m > n
  PROVE  m # 0
  OBVIOUS

(* A watcher is judged outdated or partially completed only when its entity *)
(* has had a newer spec, which the live entity has unless an entity was     *)
(* deleted: neither loop holds an entity newer than the newest spec, so a   *)
(* judgement that is written late is still true.                            *)
THEOREM SupersededCorrect == Spec => []OnlySuperseded
  <1>1. Init => SupersededInv
    BY SupersededInit
  <1>2. SupersededInv /\ [Next]_vars => SupersededInv'
    BY SupersededStep
  <1>3. SupersededInv => OnlySuperseded
    <2> SUFFICES ASSUME SupersededInv, NEW u \in Updates, watchers[u] # None,
                        watchers[u].status \in {"Outdated", "Completed Partially"}
                 PROVE  /\ newest > watchers[u].version
                        /\ ~ removed => entity # None /\ entity.version > watchers[u].version
      BY DEF OnlySuperseded
    <2>1. newest > watchers[u].version
      BY DEF SupersededInv, NewestInv, Superseded
    <2>2. watchers[u].version \in Nat
      BY DEF SupersededInv, TypeInv, TypeOK, Watchers
    <2>3. ~ removed => newest = IF entity = None THEN 0 ELSE entity.version
      BY DEF SupersededInv, NewestInv, LiveNotNewer
    <2>4. CASE entity = None
      <3>1. newest \in Nat
        BY DEF SupersededInv, TypeInv, TypeOK
      <3>2. newest # 0
        BY ONLY <2>1, <2>2, <3>1, NothingBelowZero
      <3> QED BY <2>1, <2>3, <2>4, <3>2
    <2>5. CASE entity # None
      BY <2>1, <2>3, <2>5
    <2> QED BY <2>4, <2>5
  <1> QED BY <1>1, <1>2, <1>3, PTL DEF Spec

------------------------------------------------------------------------------
(* A deleted watcher stays deleted *)

LEMMA OnlySaved ==
  ASSUME TypeInv, [Next]_vars, NEW u \in Updates, watchers[u] = None, watchers'[u] # None
  PROVE  upd[u].pc = "save"
  <1>1. watchers \in [Updates -> Watchers \cup {None}]
    BY DEF TypeInv, TypeOK
  <1>2. ASSUME NEW v \in Updates, Request(v)
        PROVE  upd[u].pc = "save"
    BY <1>1, <1>2 DEF Request, Construct, Update, Arrive, WriteSpec, WriteStatus, ReadBack,
                      SaveWatcher, AddToWatchlist, FailUpdate
  <1>3. ASSUME NEW l \in Loops, NEW v \in Updates, ProcessActiveWatcher(l, v)
        PROVE  FALSE
    BY <1>1, <1>3 DEF ProcessActiveWatcher, UpdateWatcher
  <1>4. ASSUME NEW l \in Loops, ListActiveWatchers(l) \/ Abandon(l) \/ Die(l)
        PROVE  FALSE
    BY <1>4 DEF ListActiveWatchers, Abandon, Die
  <1>5. ASSUME NEW v \in Updates, DeleteWatcher(v)
        PROVE  FALSE
    BY <1>1, <1>5 DEF DeleteWatcher
  <1>6. ~ (\/ ListenerWatchlist \/ ListenerEntity \/ ListTerminal
           \/ PeriodicWatchlist \/ HasWatcher \/ PeriodicEntity)
    BY DEF ListenerWatchlist, ListenerEntity, ListTerminal, PeriodicWatchlist, HasWatcher,
           PeriodicEntity
  <1>7. ~ (Engine \/ Restart \/ UNCHANGED vars)
    BY DEF Engine, SetStatus, DeleteEntity, RemoveFromWatchlist, AddRandomEntities,
           Restart, vars
  <1> QED BY <1>2, <1>3, <1>4, <1>5, <1>6, <1>7 DEF Next, Listener, Periodic, OnChange, Loops

(* Whatever a loop still holds of a watcher, writing it does not bring a    *)
(* deleted watcher back.                                                    *)
THEOREM DeletedCorrect == Spec => DeletedStaysDeleted
  <1> DEFINE Saved == \A u \in Updates :
                        watchers[u] = None /\ watchers'[u] # None => upd[u].pc = "save"
  <1>1. TypeInv /\ [Next]_vars => [Saved]_vars
    BY OnlySaved
  <1>2. Init => TypeInv
    BY TypeInit
  <1>3. TypeInv /\ [Next]_vars => TypeInv'
    BY TypeStep
  <1>4. Spec => [][Saved]_vars
    BY <1>1, <1>2, <1>3, PTL DEF Spec
  <1> QED BY <1>4 DEF DeletedStaysDeleted

==============================================================================
