--------------------------- MODULE AtomicWatchlist ---------------------------
(***************************************************************************)
(* What edit_watchlist promises its callers: every call takes effect at    *)
(* one instant between its invocation and its return.  A call that returns *)
(* normally has applied its editor, once, to the watchlist of that         *)
(* instant, and returns the watchlist it left; a call whose editor throws  *)
(* has changed nothing; a call that fails on a database error has applied  *)
(* its editor at most once.                                                *)
(***************************************************************************)
EXTENDS Watchlist

CONSTANT Editors  \* the concurrent callers: request handlers and resolvers

VARIABLES
  watchlist,  \* the shared watchlist
  outcome,    \* outcome[e]: "idle", "pending", or how the last call of e ended
  asked,      \* asked[e]: the editor of the call
  result      \* result[e]: the watchlist the call returned, if it succeeded

vars == <<watchlist, outcome, asked, result>>

Init ==
  /\ watchlist = EmptyWatchlist
  /\ outcome = [e \in Editors |-> "idle"]
  /\ asked = [e \in Editors |-> ReadEdit]
  /\ result = [e \in Editors |-> EmptyWatchlist]

Invoke(e) ==
  /\ outcome[e] # "pending"
  /\ outcome' = [outcome EXCEPT ![e] = "pending"]
  /\ \E edit \in Edits : asked' = [asked EXCEPT ![e] = edit]
  /\ result' = [result EXCEPT ![e] = EmptyWatchlist]
  /\ UNCHANGED watchlist

Succeed(e) ==
  /\ outcome[e] = "pending"
  /\ Applicable(asked[e], watchlist)
  /\ watchlist' = ApplyEdit(asked[e], watchlist)
  /\ result' = [result EXCEPT ![e] = watchlist']
  /\ outcome' = [outcome EXCEPT ![e] = "done"]
  /\ UNCHANGED asked

Throw(e) ==
  /\ outcome[e] = "pending"
  /\ ~ Applicable(asked[e], watchlist)
  /\ outcome' = [outcome EXCEPT ![e] = "thrown"]
  /\ UNCHANGED <<watchlist, asked, result>>

Fail(e) ==
  /\ outcome[e] = "pending"
  /\ outcome' = [outcome EXCEPT ![e] = "failed"]
  /\ \/ UNCHANGED watchlist
     \/ /\ Applicable(asked[e], watchlist)
        /\ watchlist' = ApplyEdit(asked[e], watchlist)
  /\ UNCHANGED <<asked, result>>

Next == \E e \in Editors : Invoke(e) \/ Succeed(e) \/ Throw(e) \/ Fail(e)

Spec == Init /\ [][Next]_vars

==============================================================================
