---------------------------- MODULE MCIntentHistory ----------------------------
(* Instances of IntentHistory for TLC. *)
EXTENDS IntentHistory, TLC

CONSTANT f1

WholeStatuses == [{f1} -> Values]

OneSignature == <<{f1}>>

SymmetryAll == Permutations(Updates) \cup Permutations(Values)

================================================================================
