------------------------------ MODULE MCServices ------------------------------
(* The parts of Services for TLC.  Requests, clients, calls and processes are *)
(* two or three each; as one part moves at a time, they may share values.     *)
EXTENDS Services, TLC

\* Three behaviours, two kinds of one behaviour, and a kind without one; with
\* and without constructor
StrategyKinds == {"a", "b", "c", "d"}

BehaviourOfKind == [k \in StrategyKinds |->
    CASE k \in {"a", "c"} -> "Differ" [] k = "b" -> "SpecOnly" [] OTHER -> "none"]

\* One registration has a kind more, after those of the other
RegisteredKinds == {<<"k1", "k2">>, <<"k1">>}

Symmetry == Permutations(ApiCalls) \cup Permutations(Processes)
==============================================================================
