------------------------------- MODULE Services -------------------------------
(***************************************************************************)
(* The parts of the engine and of the SDK that keep their state in memory  *)
(* or in a collection of their own, next to each other: the strategies,    *)
(* the provider registry, the keys of requests, a provider built with the  *)
(* SDK, and its background tasks.  They share no state, so one of them     *)
(* moves in a behaviour and the others stay as they begin: part says which.*)
(***************************************************************************)
EXTENDS StrategyContext, ProviderRegistry, SessionKeys, ProviderSdk, BackgroundTask

VARIABLE part

vars == <<part, strategyVars, registryVars, keyVars, sdkVars, taskVars>>

Parts == {"strategies", "registry", "keys", "sdk", "tasks"}

Init ==
    /\ part \in Parts
    /\ StrategyInit
    /\ RegistryInit
    /\ KeysInit
    /\ SdkInit
    /\ TaskInit

Others(mine) ==
    /\ part = mine
    /\ part' = part
    /\ mine # "strategies" => UNCHANGED strategyVars
    /\ mine # "registry" => UNCHANGED registryVars
    /\ mine # "keys" => UNCHANGED keyVars
    /\ mine # "sdk" => UNCHANGED sdkVars
    /\ mine # "tasks" => UNCHANGED taskVars

Next ==
    \/ Others("strategies") /\ StrategyNext
    \/ Others("registry") /\ RegistryNext
    \/ Others("keys") /\ KeysNext
    \/ Others("sdk") /\ SdkNext
    \/ Others("tasks") /\ TaskNext

Spec == Init /\ [][Next]_vars

OnlyRegistry == part = "registry" /\ Init

OnlyRegistrySpec == OnlyRegistry /\ [][Next]_vars

\* The variables of every part have their types.
TypeOK ==
    /\ part \in Parts
    /\ StrategyTypeOK
    /\ RegistryTypeOK
    /\ KeysTypeOK
    /\ SdkTypeOK
    /\ TaskTypeOK
=============================================================================
