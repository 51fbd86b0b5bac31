--------------------------- MODULE MCIntentWatchers ---------------------------
(* Instances of IntentWatchers for TLC. *)
EXTENDS IntentWatchers, TLC

CONSTANTS f1, v1

OneSignature == <<{f1}>>

OneStatus == {[f \in {f1} |-> v1]}
WholeStatuses == [{f1} -> Values]

SymmetryUpdates == Permutations(Updates)

===============================================================================
