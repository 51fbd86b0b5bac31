---------------------------- MODULE MCDiffHistory ----------------------------
(* Instances of DiffHistory for TLC. *)
EXTENDS DiffHistory

CONSTANTS d1, d2

(* Two signatures with a diff each. *)
TwoSignatures == {<<>>, <<d1>>, <<d2>>, <<d1, d2>>}

==============================================================================
