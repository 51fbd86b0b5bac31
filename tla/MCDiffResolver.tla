---------------------------- MODULE MCDiffResolver ----------------------------
(* Instances of DiffResolver for TLC. *)
EXTENDS DiffResolver

CONSTANTS d1, d2

(* Two signatures with a diff each; all_diffs lists them in the order of    *)
(* the signatures: the second one moves when the first comes or goes.       *)
TwoSignatures == {<<>>, <<d2>>, <<d1, d2>>}

===============================================================================
