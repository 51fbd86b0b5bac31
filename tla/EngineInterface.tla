--------------------------- MODULE EngineInterface ---------------------------
(***************************************************************************)
(* What the engine promises at its interface: the checks of kinds and       *)
(* entities, the documented and the served routes, and the way of a failure *)
(* back to the caller.  They share no state, so one of them moves in a      *)
(* behaviour and the others stay as they begin: part says which.            *)
(***************************************************************************)
EXTENDS Validator, Interface, Procedures

VARIABLE part

vars == <<part, validatorVars, interfaceVars, procedureVars>>

Parts == {"validation", "api", "failures"}

Init ==
    /\ part \in Parts
    /\ ValidatorInit
    /\ InterfaceInit
    /\ ProceduresInit

Others(mine) ==
    /\ part = mine
    /\ part' = part
    /\ mine # "validation" => UNCHANGED validatorVars
    /\ mine # "api" => UNCHANGED interfaceVars
    /\ mine # "failures" => UNCHANGED procedureVars

Next ==
    \/ Others("validation") /\ ValidatorNext
    \/ Others("api") /\ InterfaceNext
    \/ Others("failures") /\ ProceduresNext

Spec == Init /\ [][Next]_vars

\* The variables of every part have their types.
TypeOK ==
    /\ part \in Parts
    /\ ValidatorTypeOK
    /\ InterfaceTypeOK
    /\ ProceduresTypeOK
=============================================================================
