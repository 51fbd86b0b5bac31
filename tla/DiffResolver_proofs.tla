------------------------- MODULE DiffResolver_proofs -------------------------
(***************************************************************************)
(* Proofs about DiffResolver, for any diffs and any bounds on the delays   *)
(* and on the runs of editors again.                                       *)
(***************************************************************************)
EXTENDS DiffResolver, SequenceTheorems, FiniteSetTheorems, TLAPS

------------------------------------------------------------------------------
(* The lists *)

LEMMA UnhandledType == \A d \in Diffs : Unhandled(d) \in Watch
  BY DEF Unhandled, Watch

(* A function on an initial segment of the naturals is a list.              *)
LEMMA ListOf ==
  ASSUME NEW S, NEW n \in Nat, NEW f \in [1 .. n -> S]
  PROVE  f \in Seq(S)
  BY SeqDef

LEMMA PushType ==
  ASSUME NEW l \in Seq(Watch), NEW d \in Diffs, NEW n \in Nat
  PROVE  Push(l, d, n) \in Seq(Watch)
  <1>1. [k \in 1 .. n |-> Unhandled(d)] \in [1 .. n -> Watch]
    BY UnhandledType
  <1>2. [k \in 1 .. n |-> Unhandled(d)] \in Seq(Watch)
    BY <1>1, ListOf
  <1> QED BY <1>2, ConcatProperties DEF Push

LEMMA SpliceType ==
  ASSUME NEW l \in Seq(Watch), NEW p \in Nat \ {0}, NEW n \in Nat
  PROVE  Splice(l, p, n) \in Seq(Watch)
  <1>1. CASE p > Len(l)
    BY <1>1 DEF Splice
  <1>2. CASE p <= Len(l)
    <2>1. Len(l) \in Nat /\ \A k \in 1 .. Len(l) : l[k] \in Watch
      BY LenProperties, ElementOfSeq
    <2>2. SubSeq(l, 1, p - 1) \in Seq(Watch)
      BY <1>2, <2>1, SubSeqProperties
    <2>3. SubSeq(l, p + n, Len(l)) \in Seq(Watch)
      BY <1>2, <2>1, SubSeqProperties
    <2>4. Splice(l, p, n) = SubSeq(l, 1, p - 1) \o SubSeq(l, p + n, Len(l))
      <3>1. ~ (p > Len(l))
        BY <1>2, <2>1
      <3> QED BY <3>1, Zenon DEF Splice
    <2> QED BY <2>2, <2>3, <2>4, ConcatProperties
  <1> QED
    <2>1. Len(l) \in Nat
      BY LenProperties
    <2> QED BY <1>1, <1>2, <2>1

(* A list whose entries are changed one by one is a list.                   *)
LEMMA DiffsOfType ==
  ASSUME NEW l \in Seq(Watch)
  PROVE  DiffsOf(l) \in Seq(Diffs \cup {Marked})
  <1>1. Len(l) \in Nat /\ DOMAIN l = 1 .. Len(l) /\ \A k \in 1 .. Len(l) : l[k] \in Watch
    BY LenProperties, ElementOfSeq
  <1>2. DiffsOf(l) \in [1 .. Len(l) -> Diffs \cup {Marked}]
    BY <1>1 DEF DiffsOf, Watch
  <1> QED BY <1>1, <1>2, ListOf

LEMMA LessType ==
  ASSUME NEW l \in Seq(Watch)
  PROVE  Less(l) \in Seq(Watch)
  <1>1. Len(l) \in Nat /\ DOMAIN l = 1 .. Len(l) /\ \A k \in 1 .. Len(l) : l[k] \in Watch
    BY LenProperties, ElementOfSeq
  <1>2. ASSUME NEW w \in Watch, w.backoff # None, w.backoff > 0
        PROVE  [w EXCEPT !.backoff = @ - 1] \in Watch
    BY <1>2, BoundsAssumption DEF Watch, Delays
  <1>3. Less(l) \in [1 .. Len(l) -> Watch]
    BY <1>1, <1>2 DEF Less
  <1> QED BY <1>1, <1>3, ListOf

(* The list of an operation, when its diff is taken up and when its backoff *)
(* is set.                                                                  *)
LEMMA MarkType ==
  ASSUME NEW l \in Seq(Watch), NEW idx
  PROVE  [l EXCEPT ![idx].diff = Marked] \in Seq(Watch)
  <1>1. Len(l) \in Nat /\ DOMAIN l = 1 .. Len(l) /\ \A k \in 1 .. Len(l) : l[k] \in Watch
    BY LenProperties, ElementOfSeq
  <1>2. [l EXCEPT ![idx].diff = Marked] \in [1 .. Len(l) -> Watch]
    BY <1>1 DEF Watch
  <1> QED BY <1>1, <1>2, ListOf

LEMMA BackoffType ==
  ASSUME NEW l \in Seq(Watch), NEW idx, NEW d \in Delays
  PROVE  [l EXCEPT ![idx].backoff = d] \in Seq(Watch)
  <1>1. Len(l) \in Nat /\ DOMAIN l = 1 .. Len(l) /\ \A k \in 1 .. Len(l) : l[k] \in Watch
    BY LenProperties, ElementOfSeq
  <1>2. [l EXCEPT ![idx].backoff = d] \in [1 .. Len(l) -> Watch]
    BY <1>1 DEF Watch
  <1> QED BY <1>1, <1>2, ListOf

------------------------------------------------------------------------------
(* The steps preserve the invariant *)

LEMMA FreshType ==
  ASSUME TypeOK, NEW idx \in DOMAIN fresh
  PROVE  idx \in Nat /\ fresh[idx] \in Diffs
  <1>1. fresh \in Seq(Diffs)
    BY DEF TypeOK
  <1> QED BY <1>1, LenProperties, ElementOfSeq

LEMMA EmptyLists ==
  <<>> \in Seq(Watch) /\ <<>> \in Seq(Diffs) /\ <<>> \in Seq(Diffs \cup {Marked})
  BY EmptySeq

LEMMA InitInv == Init => Inv
  <1> SUFFICES ASSUME Init PROVE Inv
    OBVIOUS
  <1>1. watched \in BOOLEAN
    BY DEF Init
  <1>2. TypeOK
    BY <1>1, EmptyLists, BoundsAssumption DEF Init, TypeOK, PCs
  <1>3. WorksAlone /\ FlightIsWatched
    BY DEF Init, WorksAlone, FlightIsWatched, InFlight
  <1> QED BY <1>2, <1>3 DEF Inv

(* The edits that drop or add an entry, and those of its list.              *)
LEMMA TurnInv == Inv /\ (PushDiff \/ SpliceDiff \/ NextTurn) => Inv'
  <1> SUFFICES ASSUME Inv, PushDiff \/ SpliceDiff \/ NextTurn PROVE Inv'
    OBVIOUS
  <1> USE DEF Inv
  <1>1. CASE PushDiff
    <2>1. fresh[i] \in Diffs
      BY <1>1, ElementOfSeq, LenProperties DEF TypeOK, PushDiff, ToPush
    <2>2. PICK n \in 1 .. MaxReruns - reruns + 1 :
            list' = Push(list, fresh[i], n) /\ reruns' = reruns + n - 1
      BY <1>1 DEF PushDiff
    <2>3. n \in Nat /\ reruns' \in 0 .. MaxReruns
      BY <2>2, BoundsAssumption DEF TypeOK
    <2>4. stored' \in Seq(Watch) /\ list' \in Seq(Watch)
      BY <1>1, <2>1, <2>2, <2>3, PushType DEF TypeOK, PushDiff
    <2>5. TypeOK'
      BY <1>1, <2>3, <2>4 DEF TypeOK, PushDiff
    <2> QED BY <1>1, <2>5 DEF PushDiff, WorksAlone, FlightIsWatched, InFlight
  <1>2. CASE SpliceDiff
    <2>1. PICK n \in 1 .. MaxReruns - reruns + 1 :
            list' = Splice(list, i, n) /\ reruns' = reruns + n - 1
      BY <1>2 DEF SpliceDiff
    <2>2. n \in Nat /\ reruns' \in 0 .. MaxReruns
      BY <2>1, BoundsAssumption DEF TypeOK
    <2>3. stored' \in Seq(Watch) /\ list' \in Seq(Watch)
      BY <1>2, <2>1, <2>2, SpliceType DEF TypeOK, SpliceDiff
    <2>4. TypeOK'
      BY <1>2, <2>2, <2>3 DEF TypeOK, SpliceDiff
    <2> QED BY <1>2, <2>4 DEF SpliceDiff, WorksAlone, FlightIsWatched, InFlight
  <1>3. CASE NextTurn
    <2>1. /\ i' = i + 1 \/ i' = 1
          /\ before' = before \/ before' = <<>>
          /\ pc' = pc \/ pc' = "select"
      BY <1>3 DEF NextTurn
    <2>2. TypeOK'
      <3>1. i' \in Nat \ {0} /\ pc' \in PCs
        BY <2>1 DEF TypeOK, PCs
      <3>2. before' \in Seq(Diffs \cup {Marked})
        BY <2>1, EmptyLists DEF TypeOK
      <3> QED BY <1>3, <3>1, <3>2 DEF TypeOK, NextTurn
    <2> QED BY <1>3, <2>2 DEF NextTurn, WorksAlone, FlightIsWatched, InFlight
  <1> QED BY <1>1, <1>2, <1>3

LEMMA SelectInv == ASSUME Inv, NEW idx \in DOMAIN fresh, Select(idx) PROVE Inv'
  <1> USE DEF Inv
  <1>2. flight' \in Operation \cup {None}
    <2>1. \A stage \in {"call", "health"} : Start(stage, idx) => flight' \in Operation
      <3>1. idx \in Nat /\ fresh[idx] \in Diffs
        BY FreshType
      <3>2. [list EXCEPT ![idx].diff = Marked] \in Seq(Watch)
        BY MarkType DEF TypeOK
      <3> QED BY <3>1, <3>2 DEF Start, Operation
    <2> QED BY <2>1 DEF Select, TypeOK
  <1>3. TypeOK'
    BY EmptyLists, <1>2 DEF Select, EndPass, TypeOK, PCs
  <1>4. watched /\ watched' /\ pc' = "end"
    BY DEF Select, EndPass, WorksAlone
  <1> QED BY <1>3, <1>4 DEF WorksAlone, FlightIsWatched

LEMMA LoopInv == Inv /\ Loop => Inv'
  <1> SUFFICES ASSUME Inv, Loop PROVE Inv'
    OBVIOUS
  <1> USE DEF Inv, InFlight, WorksAlone, FlightIsWatched
  <1>1. CASE ReadWatchlist
    BY <1>1 DEF ReadWatchlist, TypeOK, PCs
  <1>2. CASE SkipInFlight
    BY EmptyLists, <1>2 DEF SkipInFlight, EndPass, TypeOK, PCs
  <1>3. CASE Rediff
    <2>1. cur \in Seq(Diffs)
      BY <1>3, ListsAssumption DEF Rediff, TypeOK
    <2>2. before' \in Seq(Diffs \cup {Marked})
      BY <1>3, DiffsOfType DEF Rediff, TypeOK
    <2>3. pc' \in {"drop", "push", "splice", "select"}
      BY <1>3 DEF Rediff, NextAfterRediff
    <2>4. TypeOK'
      BY <1>3, <2>1, <2>2, <2>3 DEF Rediff, TypeOK, PCs
    <2> QED BY <1>3, <2>3, <2>4 DEF Rediff
  <1>4. CASE RediffGone
    BY <1>4 DEF RediffGone, CannotRediff, loopVars, TypeOK, PCs
  <1>5. CASE RemoveFromWatchlist
    <2>1. watched' \in BOOLEAN
      BY <1>5 DEF RemoveFromWatchlist
    <2>2. TypeOK'
      BY <1>5, <2>1, EmptyLists DEF RemoveFromWatchlist, EndPass, TypeOK, PCs
    <2> QED BY <1>5, <2>2 DEF RemoveFromWatchlist, EndPass
  <1>6. CASE PushDiff \/ SpliceDiff \/ NextTurn
    BY <1>6, TurnInv
  <1>7. CASE SelectNothing
    BY EmptyLists, <1>7 DEF SelectNothing, EndPass, TypeOK, PCs
  <1>8. CASE \E idx \in DOMAIN fresh : Select(idx)
    BY <1>8, SelectInv
  <1>9. CASE Race \/ OtherWakes \/ Draw \/ DrawOthers
    BY <1>9 DEF Race, OtherWakes, Draw, DrawOthers, loopVars, TypeOK, PCs
  <1>10. CASE AddRandomEntities
    BY <1>10 DEF AddRandomEntities, loopVars, TypeOK, PCs
  <1> QED BY <1>1, <1>2, <1>3, <1>4, <1>5, <1>6, <1>7, <1>8, <1>9, <1>10 DEF Loop

LEMMA SetBackoffType ==
  ASSUME TypeOK, InFlight, NEW stage \in {"store", "restore"}, SetBackoff(stage)
  PROVE  flight' \in Operation
  <1>1. PICK d \in Delays :
          flight' = [flight EXCEPT !.stage = stage, !.list[flight.idx].backoff = d]
    BY DEF SetBackoff
  <1>2. flight \in Operation
    BY DEF TypeOK, InFlight
  <1>3. [flight.list EXCEPT ![flight.idx].backoff = d] \in Seq(Watch)
    BY <1>2, BackoffType DEF Operation
  <1>4. flight' = [flight EXCEPT !.stage = stage,
                     !.list = [flight.list EXCEPT ![flight.idx].backoff = d]]
    BY <1>1, <1>2 DEF Operation
  <1> QED BY <1>2, <1>3, <1>4 DEF Operation

LEMMA OperateInv == Inv /\ (Operate \/ StoreFails \/ RestoreFails) => Inv'
  <1> SUFFICES ASSUME Inv, Operate \/ StoreFails \/ RestoreFails PROVE Inv'
    OBVIOUS
  <1> USE DEF Inv, WorksAlone, FlightIsWatched
  <1>1. InFlight /\ flight \in Operation /\ flight.list \in Seq(Watch)
    BY DEF Operate, CheckHealthy, Unhealthy, Answer, HandlerError, StoreList, StoreFails,
           RestoreFails, InFlight, TypeOK, Operation
  <1>2. CASE CheckHealthy
    <2>1. flight' \in Operation
      BY <1>1, <1>2 DEF CheckHealthy, Operation
    <2> QED BY <1>2, <2>1 DEF CheckHealthy, loopVars, TypeOK, InFlight
  <1>3. CASE Answer \/ HandlerError
    <2>1. flight' \in Operation
      BY <1>1, <1>3, SetBackoffType DEF Answer, HandlerError
    <2> QED BY <1>3, <2>1 DEF Answer, HandlerError, loopVars, TypeOK, InFlight
  <1>4. CASE Unhealthy \/ StoreList
    BY <1>1, <1>4 DEF Unhealthy, StoreList, Settle, loopVars, TypeOK, PCs, InFlight
  <1>5. CASE StoreFails
    <2>1. flight' \in Operation
      BY <1>1, <1>5, SetBackoffType DEF StoreFails
    <2> QED BY <1>1, <1>5, <2>1 DEF StoreFails, loopVars, TypeOK, InFlight
  <1>6. CASE RestoreFails
    BY <1>1, <1>6 DEF RestoreFails, loopVars, TypeOK, PCs, InFlight
  <1> QED BY <1>2, <1>3, <1>4, <1>5, <1>6 DEF Operate

LEMMA TickInv == Inv /\ Tick => Inv'
  <1> SUFFICES ASSUME Inv, Tick PROVE Inv'
    OBVIOUS
  <1> USE DEF Inv
  <1>1. stored' \in Seq(Watch) /\ list' \in Seq(Watch)
    BY LessType DEF TypeOK, Tick
  <1>2. (InFlight' <=> InFlight) /\ flight' \in Operation \cup {None}
    <2>1. CASE InFlight
      <3>1. flight \in Operation /\ Less(flight.list) \in Seq(Watch)
        BY <2>1, LessType DEF TypeOK, InFlight, Operation
      <3>2. flight' \in Operation /\ flight' = [flight EXCEPT !.list = Less(@)]
        BY <2>1, <3>1 DEF Tick, Operation
      <3>3. InFlight'
        BY <3>2, NoneAssumption DEF InFlight
      <3> QED BY <2>1, <3>2, <3>3
    <2>2. CASE ~ InFlight
      BY <2>2 DEF Tick, InFlight
    <2> QED BY <2>1, <2>2
  <1>3. TypeOK'
    BY <1>1, <1>2 DEF TypeOK, Tick
  <1> QED BY <1>2, <1>3 DEF Tick, WorksAlone, FlightIsWatched

LEMMA EnvironmentInv ==
  Inv /\ (Change \/ CannotRediff \/ AddToWatchlist \/ Die \/ Restart) => Inv'
  <1> SUFFICES ASSUME Inv, Change \/ CannotRediff \/ AddToWatchlist \/ Die \/ Restart
               PROVE  Inv'
    OBVIOUS
  <1> USE DEF Inv, WorksAlone, FlightIsWatched, InFlight
  <1>1. CASE Change \/ CannotRediff \/ AddToWatchlist
    BY <1>1 DEF Change, CannotRediff, AddToWatchlist, loopVars, TypeOK, PCs
  <1>2. CASE Die
    <2>1. stored' \in Seq(Watch)
      <3>1. ToPush => fresh[i] \in Diffs
        BY ElementOfSeq, LenProperties DEF TypeOK, ToPush
      <3>2. ToPush => Push(stored, fresh[i], 1) \in Seq(Watch)
        BY <3>1, PushType DEF TypeOK
      <3>3. Splice(stored, i, 1) \in Seq(Watch)
        BY SpliceType DEF TypeOK
      <3> QED BY <1>2, <3>2, <3>3, EmptyLists DEF Die, TypeOK
    <2>2. (flight # None => watched') /\ watched' \in BOOLEAN
      BY <1>2 DEF Die, TypeOK
    <2>3. TypeOK'
      BY <1>2, <2>1, <2>2, EmptyLists DEF Die, TypeOK, PCs
    <2> QED BY <1>2, <2>2, <2>3 DEF Die
  <1>3. CASE Restart
    BY <1>3, EmptyLists DEF Restart, TypeOK, PCs
  <1> QED BY <1>1, <1>2, <1>3

------------------------------------------------------------------------------
(* The theorems *)

LEMMA NextInv == Inv /\ [Next]_vars => Inv'
  <1> SUFFICES ASSUME Inv, [Next]_vars PROVE Inv'
    OBVIOUS
  <1>1. CASE Loop
    BY <1>1, LoopInv
  <1>2. CASE Operate \/ StoreFails \/ RestoreFails
    BY <1>2, OperateInv
  <1>3. CASE Tick
    BY <1>3, TickInv
  <1>4. CASE Change \/ CannotRediff \/ AddToWatchlist \/ Die \/ Restart
    BY <1>4, EnvironmentInv
  <1>5. CASE UNCHANGED vars
    BY <1>5 DEF vars, Inv, TypeOK, WorksAlone, FlightIsWatched, InFlight
  <1> QED BY <1>1, <1>2, <1>3, <1>4, <1>5 DEF Next, Undisturbed

LEMMA Invariance == Spec => []Inv
  BY InitInv, NextInv, PTL DEF Spec

(* The variables keep their types: whatever the pushes and splices do to a  *)
(* list, a list it stays, of diffs with or without a backoff.               *)
THEOREM TypeCorrect == Spec => []TypeOK
  BY Invariance, PTL DEF Inv

(* While an operation is in flight its entity stays on the watchlist, so    *)
(* that the editor which stores its backoff finds the entry.                *)
THEOREM FlightIsWatchedCorrect == Spec => []FlightIsWatched
  BY Invariance, PTL DEF Inv

------------------------------------------------------------------------------
(* The list is bounded, by the number of diffs and the runs of editors      *)
(* again.                                                                   *)

N == Cardinality(Diffs)

(* The numbers differ by no more than the editors have run again            *)
Near(m, n) == m <= n + reruns /\ n <= m + reruns

(* The loop's copy, the stored list and the list of the operation in flight *)
(* are about equally long whenever one of them takes another's place, and a *)
(* pass that pushes started with a copy shorter than the diffs found.       *)
Lengths ==
  /\ Len(stored) <= MaxList + reruns
  /\ Len(fresh) <= N
  /\ pc \in {"reach", "push", "splice", "select"} =>
       Len(list) <= MaxList + reruns /\ Near(Len(list), Len(stored))
  /\ InFlight => /\ Len(flight.list) <= MaxList + reruns
                 /\ Near(Len(flight.list), Len(stored))
                 /\ pc = "reach" => Near(Len(flight.list), Len(list))
  /\ pc = "push" => /\ Len(list) <= N - 1 + (i - 1) + reruns
                    /\ Len(stored) <= N - 1 + (i - 1) + reruns

LEMMA CountOfDiffs == N \in Nat /\ N > 0
  <1>1. IsFiniteSet(Diffs) /\ Diffs # {}
    BY SignaturesAssumption
  <1>2. N \in Nat
    BY <1>1, FS_CardinalityType DEF N
  <1>3. N # 0
    BY <1>1, FS_EmptySet DEF N
  <1> QED BY <1>2, <1>3

(* The lengths of what the edits make of a list.                            *)
LEMMA PushLength ==
  ASSUME NEW l \in Seq(Watch), NEW d \in Diffs, NEW n \in Nat
  PROVE  Len(Push(l, d, n)) = Len(l) + n
  <1> DEFINE pushed == [k \in 1 .. n |-> Unhandled(d)]
  <1>1. pushed \in [1 .. n -> Watch]
    BY UnhandledType
  <1>2. pushed \in Seq(Watch) /\ DOMAIN pushed = 1 .. n
    BY <1>1, ListOf
  <1> HIDE DEF pushed
  <1>3. Len(pushed) = n
    BY <1>2, LenProperties
  <1>4. Len(l \o pushed) = Len(l) + Len(pushed)
    BY <1>2, ConcatProperties
  <1> QED BY <1>3, <1>4 DEF Push, pushed

LEMMA SpliceLength ==
  ASSUME NEW l \in Seq(Watch), NEW p \in Nat \ {0}, NEW n \in Nat \ {0}
  PROVE  Len(Splice(l, p, n)) = IF p > Len(l) THEN Len(l)
                                ELSE IF p + n > Len(l) THEN p - 1 ELSE Len(l) - n
  <1>1. Len(l) \in Nat /\ \A k \in 1 .. Len(l) : l[k] \in Watch
    BY LenProperties, ElementOfSeq
  <1>2. CASE p > Len(l)
    BY <1>2 DEF Splice
  <1>3. CASE p <= Len(l)
    <2> DEFINE left == SubSeq(l, 1, p - 1)
               right == SubSeq(l, p + n, Len(l))
    <2>1. left \in Seq(Watch) /\ Len(left) = p - 1
      BY <1>1, <1>3, SubSeqProperties
    <2>2. /\ right \in Seq(Watch)
          /\ Len(right) = IF p + n > Len(l) THEN 0 ELSE Len(l) - (p + n) + 1
      BY <1>1, <1>3, SubSeqProperties
    <2>3. ~ (p > Len(l))
      BY <1>1, <1>3
    <2>4. Splice(l, p, n) = left \o right
      BY <2>3, Zenon DEF Splice
    <2> HIDE DEF left, right
    <2>5. Len(left \o right) = Len(left) + Len(right)
      BY <2>1, <2>2, ConcatProperties
    <2>6. Len(Splice(l, p, n)) = Len(left) + Len(right)
      BY <2>4, <2>5, Zenon
    <2> QED BY <1>1, <2>1, <2>2, <2>3, <2>6
  <1> QED BY <1>1, <1>2, <1>3

(* When the copy loses an entry for each run of the editor and the stored   *)
(* list one, they grow apart by no more than the runs again.                *)
LEMMA SplicedNear ==
  ASSUME NEW c \in Nat, NEW t \in Nat, NEW r \in Nat, NEW p \in Nat \ {0}, NEW n \in Nat \ {0},
         c <= t + r, t <= c + r,
         NEW c1, c1 = IF p > c THEN c ELSE IF p + n > c THEN p - 1 ELSE c - n,
         NEW t1, t1 = IF p > t THEN t ELSE IF p + 1 > t THEN p - 1 ELSE t - 1
  PROVE  /\ c1 \in Nat /\ t1 \in Nat /\ c1 <= c /\ t1 <= t
         /\ c1 <= t1 + (r + n - 1) /\ t1 <= c1 + (r + n - 1)
  OBVIOUS

(* A pass pushes once for each diff found at most.                          *)
LEMMA PushedBound ==
  ASSUME NEW n \in Nat, NEW l \in Nat, NEW k \in Nat \ {0}, NEW r \in Nat,
         l <= n - 1 + (k - 1) + r, k - 1 <= n
  PROVE  l <= 2 * n - 1 + r
  OBVIOUS

LEMMA LessLength ==
  ASSUME NEW l \in Seq(Watch)
  PROVE  Len(Less(l)) = Len(l)
  <1>1. Less(l) \in Seq(Watch) /\ DOMAIN Less(l) = DOMAIN l
    BY LessType DEF Less
  <1> QED BY <1>1, LenProperties

LEMMA ExceptLength ==
  ASSUME NEW l \in Seq(Watch), NEW idx
  PROVE  /\ Len([l EXCEPT ![idx].diff = Marked]) = Len(l)
         /\ \A d \in Delays : Len([l EXCEPT ![idx].backoff = d]) = Len(l)
  <1>1. /\ [l EXCEPT ![idx].diff = Marked] \in Seq(Watch)
        /\ DOMAIN [l EXCEPT ![idx].diff = Marked] = DOMAIN l
    BY MarkType
  <1>2. ASSUME NEW d \in Delays
        PROVE  Len([l EXCEPT ![idx].backoff = d]) = Len(l)
    <2>1. /\ [l EXCEPT ![idx].backoff = d] \in Seq(Watch)
          /\ DOMAIN [l EXCEPT ![idx].backoff = d] = DOMAIN l
      BY BackoffType
    <2> QED BY <2>1, LenProperties
  <1> QED BY <1>1, <1>2, LenProperties

LEMMA LengthsInit == Init => Lengths
  <1> SUFFICES ASSUME Init PROVE Lengths
    OBVIOUS
  <1>1. Len(<<>>) = 0
    OBVIOUS
  <1>2. MaxList \in Int /\ MaxList >= 0
    BY CountOfDiffs, BoundsAssumption DEF MaxList, N
  <1> QED BY <1>1, <1>2, CountOfDiffs DEF Init, Lengths, InFlight, Near

(* The lists and the numbers of a state, for arithmetic about them.         *)
LEMMA LengthsTyped ==
  ASSUME Inv
  PROVE  /\ Len(stored) \in Nat /\ Len(list) \in Nat /\ Len(fresh) \in Nat
         /\ Len(before) \in Nat /\ Len(<<>>) = 0
         /\ MaxList = 2 * N - 1
         /\ i \in Nat \ {0} /\ N \in Nat /\ N > 0
         /\ InFlight => flight.list \in Seq(Watch) /\ Len(flight.list) \in Nat
         /\ reruns \in Nat
  <1>1. MaxList = 2 * N - 1
    BY CountOfDiffs DEF MaxList, N
  <1>2. InFlight => flight.list \in Seq(Watch)
    BY DEF InFlight, Inv, TypeOK, Operation
  <1>3. reruns \in Nat
    BY BoundsAssumption DEF Inv, TypeOK
  <1> QED BY <1>3, <1>1, <1>2, CountOfDiffs, LenProperties DEF Inv, TypeOK

LEMMA TurnLengths ==
  ASSUME Inv, Lengths, PushDiff \/ SpliceDiff \/ NextTurn
  PROVE  Lengths'
  <1>0. /\ Len(stored) \in Nat /\ Len(list) \in Nat /\ Len(fresh) \in Nat /\ Len(before) \in Nat
        /\ MaxList = 2 * N - 1 /\ i \in Nat \ {0} /\ N \in Nat /\ N > 0 /\ reruns \in Nat
    BY LengthsTyped
  <1>1. list \in Seq(Watch) /\ stored \in Seq(Watch) /\ fresh \in Seq(Diffs)
    BY DEF Inv, TypeOK
  <1>2. ~ InFlight
    BY DEF Inv, WorksAlone, PushDiff, ToPush, SpliceDiff, ToSplice, NextTurn
  <1>3. CASE PushDiff
    <2>1. pc = "push" /\ i <= Len(fresh) /\ fresh[i] \in Diffs
      BY <1>0, <1>1, <1>3, ElementOfSeq DEF PushDiff, ToPush
    <2>2. PICK n \in 1 .. MaxReruns - reruns + 1 :
            list' = Push(list, fresh[i], n) /\ reruns' = reruns + n - 1
      BY <1>3 DEF PushDiff
    <2>3. n \in Nat \ {0}
      BY <2>2
    <2>4. stored' = Push(stored, fresh[i], 1)
      BY <1>3 DEF PushDiff
    <2>5. Len(list') = Len(list) + n /\ Len(stored') = Len(stored) + 1
      BY <1>1, <2>1, <2>2, <2>3, <2>4, PushLength
    <2>6. UNCHANGED <<pc, fresh, flight>> /\ i' = i + 1
      BY <1>3 DEF PushDiff
    <2>7. /\ Near(Len(list), Len(stored)) /\ Len(fresh) <= N
          /\ Len(list) <= N - 1 + (i - 1) + reruns
          /\ Len(stored) <= N - 1 + (i - 1) + reruns
      BY <2>1 DEF Lengths
    <2>8. Near(Len(list), Len(stored))'
      BY <1>0, <2>2, <2>3, <2>5, <2>7 DEF Near
    <2>9. /\ Len(list') <= N - 1 + (i' - 1) + reruns'
          /\ Len(stored') <= N - 1 + (i' - 1) + reruns'
      BY <1>0, <2>2, <2>3, <2>5, <2>6, <2>7
    <2>10. Len(list') <= MaxList + reruns' /\ Len(stored') <= MaxList + reruns'
      <3>1. i' - 1 <= N /\ i' \in Nat \ {0} /\ reruns' \in Nat
        BY <1>0, <2>1, <2>2, <2>3, <2>6, <2>7
      <3>2. Len(list') \in Nat /\ Len(stored') \in Nat
        BY <1>0, <2>3, <2>5
      <3> QED BY <1>0, <2>9, <3>1, <3>2, PushedBound
    <2>11. ~ InFlight'
      BY <1>2, <2>6 DEF InFlight
    <2> QED BY <2>6, <2>7, <2>8, <2>9, <2>10, <2>11 DEF Lengths, N, MaxList
  <1>4. CASE SpliceDiff
    <2>1. PICK n \in 1 .. MaxReruns - reruns + 1 :
            list' = Splice(list, i, n) /\ reruns' = reruns + n - 1
      BY <1>4 DEF SpliceDiff
    <2>2. n \in Nat \ {0}
      BY <2>1
    <2>3. stored' = Splice(stored, i, 1) /\ pc = "splice" /\ UNCHANGED <<pc, fresh, flight>>
      BY <1>4 DEF SpliceDiff, ToSplice
    <2>4. /\ Near(Len(list), Len(stored))
          /\ Len(list) <= MaxList + reruns /\ Len(stored) <= MaxList + reruns
      BY <2>3 DEF Lengths
    <2>5. /\ Len(list') = IF i > Len(list) THEN Len(list)
                          ELSE IF i + n > Len(list) THEN i - 1 ELSE Len(list) - n
          /\ Len(stored') = IF i > Len(stored) THEN Len(stored)
                            ELSE IF i + 1 > Len(stored) THEN i - 1 ELSE Len(stored) - 1
      <3>1. i \in Nat \ {0} /\ 1 \in Nat \ {0}
        BY <1>0
      <3>2. Len(Splice(list, i, n)) = IF i > Len(list) THEN Len(list)
                                      ELSE IF i + n > Len(list) THEN i - 1 ELSE Len(list) - n
        BY <1>1, <2>2, <3>1, SpliceLength
      <3>3. Len(Splice(stored, i, 1)) = IF i > Len(stored) THEN Len(stored)
                                        ELSE IF i + 1 > Len(stored) THEN i - 1 ELSE Len(stored) - 1
        BY <1>1, <3>1, SpliceLength
      <3> QED BY <2>1, <2>3, <3>2, <3>3, Zenon
    <2>6. /\ Len(list') \in Nat /\ Len(stored') \in Nat
          /\ Len(list') <= Len(list) /\ Len(stored') <= Len(stored)
          /\ Len(list') <= Len(stored') + (reruns + n - 1)
          /\ Len(stored') <= Len(list') + (reruns + n - 1)
      <3>1. Len(list) <= Len(stored) + reruns /\ Len(stored) <= Len(list) + reruns
        BY <2>4 DEF Near
      <3> DEFINE c == Len(list)
                 t == Len(stored)
                 c1 == Len(list')
                 t1 == Len(stored')
      <3>2. c \in Nat /\ t \in Nat /\ reruns \in Nat /\ i \in Nat \ {0}
        BY <1>0
      <3>3. /\ c1 = IF i > c THEN c ELSE IF i + n > c THEN i - 1 ELSE c - n
            /\ t1 = IF i > t THEN t ELSE IF i + 1 > t THEN i - 1 ELSE t - 1
        BY <2>5
      <3>4. c <= t + reruns /\ t <= c + reruns
        BY <3>1
      <3> HIDE DEF c, t, c1, t1
      <3>5. /\ c1 \in Nat /\ t1 \in Nat /\ c1 <= c /\ t1 <= t
            /\ c1 <= t1 + (reruns + n - 1) /\ t1 <= c1 + (reruns + n - 1)
        BY <2>2, <3>2, <3>3, <3>4, SplicedNear
      <3> QED BY <3>5 DEF c, t, c1, t1
    <2>7. /\ Near(Len(list), Len(stored))'
          /\ Len(list') <= MaxList + reruns' /\ Len(stored') <= MaxList + reruns'
      BY <1>0, <2>1, <2>2, <2>4, <2>6 DEF Near
    <2>8. ~ InFlight' /\ pc' = "splice" /\ Len(fresh') <= N
      BY <1>2, <2>3 DEF InFlight, Lengths
    <2> QED BY <2>7, <2>8 DEF Lengths, N, MaxList
  <1>5. CASE NextTurn
    <2>1. UNCHANGED <<list, stored, fresh, flight, reruns>>
      BY <1>5 DEF NextTurn
    <2>2. \/ pc' = pc /\ i' = i + 1
          \/ pc' = "select"
      BY <1>5 DEF NextTurn
    <2>3. pc \in {"push", "splice"}
      BY <1>5 DEF NextTurn
    <2>4. ~ InFlight' /\ (Near(Len(list), Len(stored)))'
      BY <1>2, <2>1, <2>3 DEF Lengths, InFlight, Near
    <2>5. Len(list') <= MaxList + reruns' /\ Len(stored') <= MaxList + reruns' /\ Len(fresh') <= N
      BY <2>1, <2>3 DEF Lengths
    <2>6. ASSUME pc' = "push"
          PROVE  /\ Len(list') <= N - 1 + (i' - 1) + reruns'
                 /\ Len(stored') <= N - 1 + (i' - 1) + reruns'
      <3>1. pc = "push" /\ i' = i + 1
        BY <2>2, <2>6
      <3> QED BY <1>0, <2>1, <3>1 DEF Lengths
    <2> QED BY <2>4, <2>5, <2>6 DEF Lengths, N, MaxList
  <1> QED BY <1>3, <1>4, <1>5

LEMMA SelectLengths ==
  ASSUME Inv, Lengths, NEW idx \in DOMAIN fresh, Select(idx)
  PROVE  Lengths'
  <1>1. /\ list \in Seq(Watch) /\ ~ InFlight
        /\ Len(list) <= MaxList + reruns /\ Near(Len(list), Len(stored))
    BY DEF Inv, TypeOK, WorksAlone, Lengths, Select
  <1>2. InFlight' => Len(flight'.list) = Len(list)
    <2>1. \A stage : Start(stage, idx) => Len(flight'.list) = Len(list)
      BY <1>1, ExceptLength DEF Start
    <2> QED BY <1>1, <2>1 DEF Select, InFlight
  <1>3. stored' = stored /\ fresh' = <<>> /\ pc' = "end" /\ reruns' = reruns
    BY DEF Select, EndPass
  <1> QED BY <1>1, <1>2, <1>3, LengthsTyped DEF Lengths, MaxList, N, Near

LEMMA LoopLengths ==
  ASSUME Inv, Lengths, Loop
  PROVE  Lengths'
  <1> USE LengthsTyped
  <1>1. CASE ReadWatchlist
    BY <1>1 DEF ReadWatchlist, Lengths, InFlight, MaxList, N, Near
  <1>2. CASE SkipInFlight \/ SelectNothing
    BY <1>2 DEF SkipInFlight, SelectNothing, EndPass, Lengths, InFlight, MaxList, N, Near
  <1>3. CASE Rediff
    <2>1. cur \in Seq(Diffs) /\ Len(cur) \in Nat /\ Len(cur) <= N
      BY <1>3, ListsAssumption, SignaturesAssumption, LenProperties
        DEF Rediff, Inv, TypeOK, N
    <2>2. /\ pc' \in {"drop", "push", "splice", "select"} /\ i' = 1 /\ fresh' = cur
          /\ pc' = "push" => Len(list) < Len(cur)
      BY <1>3 DEF Rediff, NextAfterRediff
    <2>3. UNCHANGED <<list, stored, flight, reruns>> /\ ~ InFlight /\ pc = "reach"
      BY <1>3 DEF Rediff
    <2> QED BY <2>1, <2>2, <2>3 DEF Lengths, InFlight, MaxList, N, Near
  <1>4. CASE RediffGone \/ Race \/ OtherWakes \/ Draw \/ DrawOthers \/ AddRandomEntities
    BY <1>4 DEF RediffGone, CannotRediff, Race, OtherWakes, Draw, DrawOthers, AddRandomEntities,
      loopVars, Lengths, InFlight, MaxList, N, Near
  <1>5. CASE RemoveFromWatchlist
    <2>1. ~ InFlight
      BY <1>5 DEF RemoveFromWatchlist, Inv, WorksAlone
    <2> QED BY <1>5, <2>1 DEF RemoveFromWatchlist, EndPass, Lengths, InFlight, MaxList, N, Near
  <1>6. CASE PushDiff \/ SpliceDiff \/ NextTurn
    BY <1>6, TurnLengths
  <1>7. CASE \E idx \in DOMAIN fresh : Select(idx)
    BY <1>7, SelectLengths
  <1> QED BY <1>1, <1>2, <1>3, <1>4, <1>5, <1>6, <1>7 DEF Loop

LEMMA OperateLengths ==
  ASSUME Inv, Lengths, Operate \/ StoreFails \/ RestoreFails
  PROVE  Lengths'
  <1> USE LengthsTyped
  <1>1. InFlight /\ flight \in Operation /\ pc \notin {"drop", "push", "splice", "select"}
    BY DEF Operate, CheckHealthy, Unhealthy, Answer, HandlerError, StoreList, StoreFails,
           RestoreFails, InFlight, Inv, TypeOK, WorksAlone
  <1>2. ASSUME NEW stage, SetBackoff(stage)
        PROVE  Len(flight'.list) = Len(flight.list)
    <2>1. PICK d \in Delays :
            flight' = [flight EXCEPT !.stage = stage, !.list[flight.idx].backoff = d]
      BY <1>2 DEF SetBackoff
    <2>2. flight'.list = [flight.list EXCEPT ![flight.idx].backoff = d]
      BY <1>1, <2>1 DEF Operation
    <2> QED BY <1>1, <2>2, ExceptLength
  <1>3. CASE CheckHealthy
    BY <1>1, <1>3 DEF CheckHealthy, loopVars, Lengths, InFlight, MaxList, N, Near, Operation
  <1>4. CASE Answer \/ HandlerError
    <2>1. UNCHANGED <<stored, list, fresh, pc, i, reruns>>
      BY <1>4 DEF Answer, HandlerError, loopVars
    <2>2. Len(flight'.list) = Len(flight.list)
      BY <1>2, <1>4 DEF Answer, HandlerError
    <2> QED BY <1>1, <2>1, <2>2 DEF Lengths, InFlight, MaxList, N, Near
  <1>5. CASE Unhealthy \/ StoreList \/ RestoreFails
    <2>1. /\ UNCHANGED <<list, fresh, i, reruns>> /\ flight' = None
          /\ pc' = pc \/ pc' \in {"read", "dead"}
          /\ stored' = stored \/ stored' = flight.list
      BY <1>5 DEF Unhealthy, StoreList, RestoreFails, Settle, loopVars
    <2>2. /\ Len(stored') <= MaxList + reruns
          /\ pc = "reach" => Near(Len(list), Len(stored'))
      BY <1>1, <2>1 DEF Lengths, Near
    <2> QED BY <1>1, <2>1, <2>2 DEF Lengths, InFlight, MaxList, N, Near
  <1>6. CASE StoreFails
    <2>1. UNCHANGED <<list, fresh, i, pc, reruns>> /\ (stored' = stored \/ stored' = flight.list)
      BY <1>6 DEF StoreFails, loopVars
    <2>2. /\ Len(stored') <= MaxList + reruns
          /\ Near(Len(flight.list), Len(stored'))
          /\ pc = "reach" => Near(Len(list), Len(stored'))
      BY <1>1, <2>1 DEF Lengths, Near
    <2>3. Len(flight'.list) = Len(flight.list)
      BY <1>2, <1>6 DEF StoreFails
    <2> QED BY <1>1, <2>1, <2>2, <2>3 DEF Lengths, InFlight, MaxList, N, Near
  <1> QED BY <1>3, <1>4, <1>5, <1>6 DEF Operate

LEMMA TickLengths ==
  ASSUME Inv, Lengths, Tick
  PROVE  Lengths'
  <1>1. Len(stored') = Len(stored) /\ Len(list') = Len(list)
    BY LessLength DEF Tick, Inv, TypeOK
  <1>2. InFlight' => InFlight /\ Len(flight'.list) = Len(flight.list)
    <2>1. InFlight => flight \in Operation /\ flight.list \in Seq(Watch)
      BY DEF InFlight, Inv, TypeOK, Operation
    <2>2. InFlight => flight'.list = Less(flight.list)
      BY <2>1 DEF Tick, Operation
    <2>3. ~ InFlight => ~ InFlight'
      BY DEF Tick, InFlight
    <2> QED BY <2>1, <2>2, <2>3, LessLength
  <1>3. UNCHANGED <<fresh, pc, i, reruns>>
    BY DEF Tick
  <1> QED BY <1>1, <1>2, <1>3, LengthsTyped DEF Lengths, MaxList, N, Near

LEMMA EnvironmentLengths ==
  ASSUME Inv, Lengths,
         Change \/ CannotRediff \/ AddToWatchlist \/ Die \/ Restart
  PROVE  Lengths'
  <1> USE LengthsTyped
  <1>1. CASE Change \/ CannotRediff \/ AddToWatchlist
    BY <1>1 DEF Change, CannotRediff, AddToWatchlist, loopVars, Lengths, InFlight, MaxList, N, Near
  <1>2. CASE Die
    <2>1. UNCHANGED <<flight, reruns>> /\ pc' = "dead" /\ fresh' = <<>>
      BY <1>2 DEF Die
    <2>2. stored \in Seq(Watch) /\ fresh \in Seq(Diffs)
      BY DEF Inv, TypeOK
    <2>3. CASE stored' = stored
      BY <2>1, <2>3 DEF Lengths, InFlight, MaxList, N, Near
    <2>4. CASE pc = "drop" /\ stored' = <<>>
      <3>1. ~ InFlight
        BY <2>4 DEF Inv, WorksAlone
      <3> QED BY <2>1, <2>4, <3>1 DEF Lengths, InFlight, MaxList, N, Near
    <2>5. CASE ToPush /\ stored' = Push(stored, fresh[i], 1)
      <3>1. ~ InFlight /\ pc = "push" /\ i <= Len(fresh) /\ fresh[i] \in Diffs
        BY <2>2, <2>5, ElementOfSeq DEF ToPush, Inv, WorksAlone
      <3>2. Len(stored') = Len(stored) + 1
        BY <2>2, <2>5, <3>1, PushLength
      <3>3. Len(stored') <= MaxList + reruns
        BY <3>1, <3>2 DEF Lengths
      <3> QED BY <2>1, <3>1, <3>3 DEF Lengths, InFlight, MaxList, N, Near
    <2>6. CASE ToSplice /\ stored' = Splice(stored, i, 1)
      <3>1. ~ InFlight
        BY <2>6 DEF ToSplice, Inv, WorksAlone
      <3>2. stored' \in Seq(Watch) /\ Len(stored') <= Len(stored)
        <4>1. i \in Nat \ {0} /\ Len(stored) \in Nat
          OBVIOUS
        <4>2. Splice(stored, i, 1) \in Seq(Watch)
          BY <2>2, <4>1, SpliceType
        <4>3. Len(Splice(stored, i, 1))
                = IF i > Len(stored) THEN Len(stored)
                  ELSE IF i + 1 > Len(stored) THEN i - 1 ELSE Len(stored) - 1
          BY <2>2, <4>1, SpliceLength
        <4> QED BY <2>6, <4>1, <4>2, <4>3
      <3>3. Len(stored') \in Nat
        BY <3>2, LenProperties
      <3> QED BY <2>1, <3>1, <3>2, <3>3 DEF Lengths, InFlight, MaxList, N, Near
    <2> QED BY <1>2, <2>3, <2>4, <2>5, <2>6 DEF Die
  <1>3. CASE Restart
    BY <1>3 DEF Restart, Lengths, InFlight, MaxList, N, Near
  <1> QED BY <1>1, <1>2, <1>3

LEMMA NextLengths ==
  ASSUME Inv, Lengths, [Next]_vars
  PROVE  Lengths'
  <1>1. CASE Loop
    BY <1>1, LoopLengths
  <1>2. CASE Operate \/ StoreFails \/ RestoreFails
    BY <1>2, OperateLengths
  <1>3. CASE Tick
    BY <1>3, TickLengths
  <1>4. CASE Change \/ CannotRediff \/ AddToWatchlist \/ Die \/ Restart
    BY <1>4, EnvironmentLengths
  <1>5. CASE UNCHANGED vars
    BY <1>5, LengthsTyped DEF vars, Lengths, InFlight, MaxList, N, Near
  <1> QED BY <1>1, <1>2, <1>3, <1>4, <1>5 DEF Next, Undisturbed

(* The list of an entity is at most twice as long as its diffs are many,    *)
(* less one, and longer by one for each run of an editor again: a diff that *)
(* was handled is watched once more, a conflict costs an entry, and that is *)
(* all, whatever is computed, pushed, spliced, stored, lost and restarted.  *)
THEOREM ListBoundedCorrect == Spec => []ListBounded
  <1>1. Init => Inv /\ Lengths
    BY InitInv, LengthsInit
  <1>2. (Inv /\ Lengths) /\ [Next]_vars => (Inv /\ Lengths)'
    BY NextInv, NextLengths
  <1>3. Inv /\ Lengths => ListBounded
    BY DEF Lengths, ListBounded
  <1> QED BY <1>1, <1>2, <1>3, PTL DEF Spec
=============================================================================
