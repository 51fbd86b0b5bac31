---------------------------- MODULE MCEntityStore ----------------------------
(* Instances of EntityStore for TLC. *)
EXTENDS EntityStore, TLC

CreateVersionsAll == {None, 0, 1}
CreateVersionsDefault == {None}

SymmetryAll == Permutations(Requests) \cup Permutations(Fields) \cup Permutations(Values)

==============================================================================
