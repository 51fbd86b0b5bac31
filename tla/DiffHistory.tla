----------------------------- MODULE DiffHistory -----------------------------
(***************************************************************************)
(* DiffResolver with the delay that a diff handler asked for: how long its *)
(* diff has still to wait, whatever the watchlist remembers of it.         *)
(***************************************************************************)
EXTENDS DiffResolver

VARIABLE waiting   \* waiting[d]: the rest of the delay that d's handler asked for

InitHistory == Init /\ waiting = [d \in Diffs |-> 0]

(* The delay begins when the handler answers and ends with its time, or     *)
(* with the diff.                                                           *)
Record ==
  waiting' =
    [d \in Diffs |->
      IF ~ Has(d)' THEN 0
      ELSE IF Answer /\ flight.diff = d THEN flight'.list[flight.idx].backoff
      ELSE IF Tick /\ waiting[d] > 0 THEN waiting[d] - 1
      ELSE waiting[d]]

(* Nothing fails and nothing restarts.                                      *)
SpecHistory == InitHistory /\ [][(Undisturbed \/ Change) /\ Record]_<<vars, waiting>>

------------------------------------------------------------------------------
(* Properties *)

(* A test of the SDK says that the delay to intentful operations should be  *)
(* awaited: the handler of a diff is not called for the same diff before    *)
(* the delay it asked for has passed.                                       *)
DelayAwaited == [][\A d \in Diffs : Calls(d) => waiting[d] = 0]_<<vars, waiting>>

==============================================================================
