---------------------------- MODULE IntentHistory ----------------------------
(***************************************************************************)
(* IntentWatchers with the history that the meanings of the watcher        *)
(* statuses speak of (the comments of IntentfulStatus in core.ts): what    *)
(* every update asked for, and which fields have since been set.           *)
(***************************************************************************)
EXTENDS IntentWatchers

VARIABLES
  asked,     \* the spec every update asked for, or None
  settled    \* the fields that have had the value the update asked for

historyVars == <<vars, asked, settled>>

InitHistory ==
  /\ Init
  /\ asked = [u \in Updates |-> None]
  /\ settled = [u \in Updates |-> {}]

Record ==
  /\ asked' = [u \in Updates |->
       IF upd[u].pc = "idle" /\ upd'[u].pc # "idle" THEN upd'[u].spec ELSE asked[u]]
  /\ settled' = [u \in Updates |->
       settled[u] \cup
         {f \in Fields : /\ entity' # None /\ asked'[u] # None
                         /\ entity'.status # None /\ f \in DOMAIN entity'.status
                         /\ entity'.status[f] = asked'[u][f]}]

SpecHistory == InitHistory /\ [][Next /\ Record]_historyVars

------------------------------------------------------------------------------
(* Properties *)

JudgedAs(u, status) == watchers[u] # None /\ watchers[u].status = status

(* core.ts says of a watcher completed successfully: all fields were set to *)
(* the spec value at some point after the spec change was issued.           *)
CompletedWasSet ==
  \A u \in Updates : JudgedAs(u, "Completed Successfully") => settled[u] = Fields

==============================================================================
