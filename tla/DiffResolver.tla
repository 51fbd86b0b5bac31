---------------------------- MODULE DiffResolver ----------------------------
(***************************************************************************)
(* The loop of the diff resolver process (intentful_engine/                *)
(* diff_resolver.ts), as seen by ONE entity: its list of diffs on the      *)
(* watchlist, the copy of it the loop works on, and the one diff handler   *)
(* that may be running for it (its promise is in inFlightKeys).            *)
(*                                                                         *)
(* An edit of the watchlist is atomic here (WatchlistDb shows that it is), *)
(* but the editors of the loop change the loop's own copy too, and they do *)
(* so once for every run of the editor: an edit that meets a conflict runs *)
(* again.                                                                  *)
(*                                                                         *)
(* A stored diff that was handled carries the handler's URL and is equal   *)
(* to no diff that is computed anew; Marked stands for all of them.  Time  *)
(* is the time left to wait; zero means that the delay has passed.         *)
(***************************************************************************)
EXTENDS Naturals, Sequences, FiniteSets

CONSTANTS
  Diffs,          \* the diffs there can be between spec and status
  DiffLists,      \* what all_diffs can return for the entity
  Marked,         \* a diff with a handler_url
  None,           \* no backoff, no operation, no entry, no entity
  Strategy,       \* diff_selection_strategy of the kind: "random" or "basic"
  OtherEntities,  \* whether other entities are on the watchlist
  MaxDelay,       \* bound on the time to wait
  MaxReruns       \* bound on the runs of editors again, after a conflict

ASSUME ListsAssumption == DiffLists \subseteq Seq(Diffs)
ASSUME MarkedAssumption == Marked \notin Diffs
ASSUME BoundsAssumption ==
  /\ MaxDelay \in Nat /\ MaxReruns \in Nat
  /\ Strategy \in {"random", "basic"} /\ OtherEntities \in BOOLEAN

(* all_diffs returns one diff at most for each signature of the kind.       *)
ASSUME SignaturesAssumption ==
  /\ IsFiniteSet(Diffs) /\ Diffs # {}
  /\ \A l \in DiffLists : Len(l) <= Cardinality(Diffs)

Delays == 0 .. MaxDelay

(* The length of the list, when every diff is pushed to one that is just    *)
(* too short.                                                               *)
MaxList == 2 * Cardinality(Diffs) - 1

Watch == [diff : Diffs \cup {Marked}, backoff : Delays \cup {None}]

VARIABLES
  cur,      \* what all_diffs would return now; None if there is no entity
  watched,  \* the entity is on the watchlist
  stored,   \* the list of its entry, empty if it has none
  pc,       \* where the loop is
  list,     \* diff_results: the list in the loop's copy
  fresh,    \* rediff.diffs
  before,   \* watched_diffs: the diffs of list before the first splice
  i,        \* the turn of the loop over diffs, from 1
  flight,   \* the operation in inFlightKeys, with its own list
  reruns    \* how often an editor of the loop has run again (history)

vars == <<cur, watched, stored, pc, list, fresh, before, i, flight, reruns>>

loopVars == <<list, fresh, before, i, reruns>>

Operation == [stage : {"health", "call", "store", "restore"},
              list : Seq(Watch), idx : Nat, diff : Diffs]

ASSUME NoneAssumption == None \notin Seq(Diffs) \cup Nat \cup Operation

Init ==
  /\ cur \in DiffLists \cup {None}
  /\ watched = FALSE /\ stored = <<>>
  /\ pc = "read"
  /\ list = <<>> /\ fresh = <<>> /\ before = <<>> /\ i = 1
  /\ flight = None /\ reruns = 0

DiffsOf(l) == [n \in DOMAIN l |-> l[n].diff]

(* includesDiff: deepEqual with one of the diffs of the list.               *)
Includes(ds, d) == \E n \in DOMAIN ds : ds[n] = d

Splice(l, p, n) ==
  IF p > Len(l) THEN l ELSE SubSeq(l, 1, p - 1) \o SubSeq(l, p + n, Len(l))

Unhandled(d) == [diff |-> d, backoff |-> None]

Push(l, d, n) == l \o [k \in 1 .. n |-> Unhandled(d)]

(* The loop is through with the entity and drops its copy.                  *)
EndPass ==
  /\ pc' = "end"
  /\ list' = <<>> /\ fresh' = <<>> /\ before' = <<>> /\ i' = 1

------------------------------------------------------------------------------
(* The loop: one pass over the watchlist.                                   *)

(* The copy is read once, before the entities that come first in it are     *)
(* dealt with; a handler may still be running for this entity if another    *)
(* entity's ended the race.                                                 *)
ReadWatchlist ==
  /\ pc = "read"
  /\ pc' = IF watched THEN "reach" ELSE "end"
  /\ list' = stored
  /\ UNCHANGED <<cur, watched, stored, fresh, before, i, flight, reruns>>

InFlight == flight # None

SkipInFlight ==
  /\ pc = "reach"
  /\ InFlight
  /\ EndPass
  /\ UNCHANGED <<cur, watched, stored, flight, reruns>>

(* Mutant: every diff found that is not recognised is watched, however many *)
(* are watched already.                                                     *)
NextAfterRediffAlways(ds) ==
  IF list = <<>> /\ ds = <<>> THEN "drop"
  ELSE IF Len(ds) > 0 THEN "push"
  ELSE "splice"

NextAfterRediff(ds) ==
  IF list = <<>> /\ ds = <<>> THEN "drop"
  ELSE IF Len(ds) > Len(list) THEN "push"
  ELSE IF Len(ds) < Len(list) THEN "splice"
  ELSE "select"

(* Mutant: the keys in flight are not skipped.                              *)
RediffInFlight ==
  /\ pc = "reach"
  /\ cur # None
  /\ fresh' = cur
  /\ before' = DiffsOf(list)
  /\ i' = 1
  /\ pc' = NextAfterRediff(cur)
  /\ UNCHANGED <<cur, watched, stored, list, flight, reruns>>

Rediff ==
  /\ pc = "reach"
  /\ ~ InFlight
  /\ cur # None
  /\ fresh' = cur
  /\ before' = DiffsOf(list)
  /\ i' = 1
  /\ pc' = NextAfterRediff(cur)
  /\ UNCHANGED <<cur, watched, stored, list, flight, reruns>>

(* Mutant: the keys in flight are not skipped.                              *)
CannotRediffInFlight ==
  /\ pc = "reach"
  /\ pc' = "drop"
  /\ UNCHANGED <<cur, watched, stored, loopVars, flight>>

(* get_entity, get_provider or all_diffs throws.                            *)
CannotRediff ==
  /\ pc = "reach"
  /\ ~ InFlight
  /\ pc' = "drop"
  /\ UNCHANGED <<cur, watched, stored, loopVars, flight>>

RediffGone == cur = None /\ CannotRediff

RemoveFromWatchlist ==
  /\ pc = "drop"
  /\ watched' = FALSE /\ stored' = <<>>
  /\ EndPass
  /\ UNCHANGED <<cur, flight, reruns>>

(* The turn of the loop over the diffs found that has an edit to do: the    *)
(* diff is not watched yet.                                                 *)
ToPush == pc = "push" /\ i <= Len(fresh) /\ ~ Includes(DiffsOf(list), fresh[i])

PushDiff ==
  /\ ToPush
  /\ \E n \in 1 .. MaxReruns - reruns + 1 :
       list' = Push(list, fresh[i], n) /\ reruns' = reruns + n - 1
  /\ stored' = Push(stored, fresh[i], 1)
  /\ i' = i + 1
  /\ UNCHANGED <<cur, watched, pc, fresh, before, flight>>

(* The turn of the loop over the diffs watched that has an edit to do: the  *)
(* diff is gone.  The loop runs over the list as it was, one position       *)
(* further than its end, and splices the list as it is.                     *)
ToSplice ==
  /\ pc = "splice" /\ i <= Len(before) + 1
  /\ i <= Len(before) => ~ Includes(fresh, before[i])

SpliceDiff ==
  /\ ToSplice
  /\ \E n \in 1 .. MaxReruns - reruns + 1 :
       list' = Splice(list, i, n) /\ reruns' = reruns + n - 1
  /\ stored' = Splice(stored, i, 1)
  /\ i' = i + 1
  /\ UNCHANGED <<cur, watched, pc, fresh, before, flight>>

(* A turn without an edit, or the end of the turns.                         *)
NextTurn ==
  /\ pc \in {"push", "splice"}
  /\ ~ ToPush /\ ~ ToSplice
  /\ \/ i <= Len(IF pc = "push" THEN fresh ELSE before)
        /\ i' = i + 1
        /\ UNCHANGED <<pc, before>>
     \/ i > Len(IF pc = "push" THEN fresh ELSE before)
        /\ pc' = "select" /\ i' = 1 /\ before' = <<>>
  /\ UNCHANGED <<cur, watched, stored, list, fresh, flight, reruns>>

(* selectOne throws.                                                        *)
SelectNothing ==
  /\ pc = "select"
  /\ fresh = <<>>
  /\ EndPass
  /\ UNCHANGED <<cur, watched, stored, flight, reruns>>

Selectable == IF Strategy = "basic" THEN {1} ELSE DOMAIN fresh

(* The entry of the list that startDiffsResolution takes for the selected   *)
(* diff: the one at the same position.                                      *)
Start(stage, idx) ==
  flight' = [stage |-> stage, idx |-> idx, diff |-> fresh[idx],
             list |-> [list EXCEPT ![idx].diff = Marked]]

Select(idx) ==
  /\ pc = "select"
  /\ fresh # <<>>
  /\ idx \in Selectable
  /\ \/ /\ idx > Len(list)                 \* TypeError: the promise rejects
        /\ UNCHANGED flight
     \/ /\ idx <= Len(list)
        /\ list[idx].backoff = None
        /\ Start("call", idx)
     \/ /\ idx <= Len(list)
        /\ list[idx].backoff # None /\ list[idx].backoff > 0
        /\ UNCHANGED flight
     \/ /\ idx <= Len(list)
        /\ list[idx].backoff = 0
        /\ Start("health", idx)
  /\ EndPass
  /\ UNCHANGED <<cur, watched, stored, reruns>>

(* Promise.race over the operations in flight, of this entity or of others. *)
Race ==
  /\ pc = "end"
  /\ InFlight \/ OtherEntities
  /\ pc' = "race"
  /\ UNCHANGED <<cur, watched, stored, loopVars, flight>>

OtherWakes ==
  /\ OtherEntities
  /\ pc = "race"
  /\ pc' = "read"
  /\ UNCHANGED <<cur, watched, stored, loopVars, flight>>

(* No operation is in flight: entities drawn at random are added to the     *)
(* watchlist, this one or not.                                              *)
Draw ==
  /\ pc = "end"
  /\ ~ InFlight
  /\ cur # None
  /\ pc' = "add"
  /\ UNCHANGED <<cur, watched, stored, loopVars, flight>>

DrawOthers ==
  /\ pc = "end"
  /\ ~ InFlight
  /\ pc' = "read"
  /\ UNCHANGED <<cur, watched, stored, loopVars, flight>>

(* Mutant: the loop only reads the watchlist again.                         *)
AddNothing ==
  /\ pc = "add"
  /\ pc' = "read"
  /\ UNCHANGED <<cur, watched, stored, loopVars, flight>>

AddRandomEntities ==
  /\ pc = "add"
  /\ watched' = TRUE
  /\ pc' = "read"
  /\ UNCHANGED <<cur, stored, loopVars, flight>>

------------------------------------------------------------------------------
(* The operation in flight.                                                 *)

(* The operation's promise settles: it leaves inFlightKeys and, if the loop *)
(* waits for it, the loop goes on.                                          *)
Settle ==
  /\ flight' = None
  /\ pc' = IF pc = "race" THEN "read" ELSE pc

CheckHealthy ==
  /\ InFlight /\ flight.stage = "health"
  /\ flight' = [flight EXCEPT !.stage = "call"]
  /\ UNCHANGED <<cur, watched, stored, pc, loopVars>>

Unhealthy ==
  /\ InFlight /\ flight.stage = "health"
  /\ Settle
  /\ UNCHANGED <<cur, watched, stored, loopVars>>

SetBackoff(stage) ==
  \E d \in Delays :
    flight' = [flight EXCEPT !.stage = stage, !.list[flight.idx].backoff = d]

(* The handler answers: its delay, or the computed backoff without one.     *)
Answer ==
  /\ InFlight /\ flight.stage = "call"
  /\ SetBackoff("store")
  /\ UNCHANGED <<cur, watched, stored, pc, loopVars>>

HandlerError ==
  /\ InFlight /\ flight.stage = "call"
  /\ SetBackoff("restore")
  /\ UNCHANGED <<cur, watched, stored, pc, loopVars>>

(* The editor of the backoff writes the operation's list over the stored    *)
(* one.                                                                     *)
StoreList ==
  /\ InFlight /\ flight.stage \in {"store", "restore"}
  /\ watched
  /\ stored' = flight.list
  /\ Settle
  /\ UNCHANGED <<cur, watched, loopVars>>

(* The editor of the backoff throws (no entry on the watchlist), or         *)
(* edit_watchlist does, its write done or not.                              *)
StoreFails ==
  /\ InFlight /\ flight.stage = "store"
  /\ \/ UNCHANGED stored
     \/ watched /\ stored' = flight.list
  /\ SetBackoff("restore")
  /\ UNCHANGED <<cur, watched, pc, loopVars>>

(* In the error handler there is nobody left to catch it: the promise       *)
(* rejects, and a loop that waits for it ends.                              *)
RestoreFails ==
  /\ InFlight /\ flight.stage = "restore"
  /\ \/ UNCHANGED stored
     \/ watched /\ stored' = flight.list
  /\ flight' = None
  /\ pc' = IF pc = "race" THEN "dead" ELSE pc
  /\ UNCHANGED <<cur, watched, loopVars>>

------------------------------------------------------------------------------
(* The environment.                                                         *)

(* Spec or status change, the entity is created or deleted.                 *)
Change ==
  /\ cur' \in (DiffLists \cup {None}) \ {cur}
  /\ UNCHANGED <<watched, stored, pc, loopVars, flight>>

(* A request that changed the spec puts the entity on the watchlist.        *)
AddToWatchlist ==
  /\ ~ watched
  /\ watched' = TRUE
  /\ UNCHANGED <<cur, stored, pc, loopVars, flight>>

(* A database error ends _run, the write of an edit done or not; so does    *)
(* the rejection of another entity's operation.                             *)
Die ==
  /\ \/ /\ \/ pc \in {"read", "drop", "add"} \/ ToPush \/ ToSplice
           \/ pc = "end" /\ ~ InFlight
           \/ pc = "race" /\ OtherEntities
        /\ UNCHANGED <<watched, stored>>
     \/ pc = "drop" /\ watched' = FALSE /\ stored' = <<>>
     \/ pc = "add" /\ watched' = TRUE /\ UNCHANGED stored
     \/ ToPush /\ stored' = Push(stored, fresh[i], 1) /\ UNCHANGED watched
     \/ ToSplice /\ stored' = Splice(stored, i, 1) /\ UNCHANGED watched
  /\ pc' = "dead"
  /\ list' = <<>> /\ fresh' = <<>> /\ before' = <<>> /\ i' = 1
  /\ UNCHANGED <<cur, flight, reruns>>

(* The process ends, the operation in flight with it, and starts again.     *)
Restart ==
  /\ pc' = "read"
  /\ flight' = None
  /\ list' = <<>> /\ fresh' = <<>> /\ before' = <<>> /\ i' = 1
  /\ UNCHANGED <<cur, watched, stored, reruns>>

(* Mutant: the time left of a backoff runs below zero.                      *)
LessForEver(l) ==
  [n \in DOMAIN l |->
    IF l[n].backoff # None THEN [l[n] EXCEPT !.backoff = @ - 1] ELSE l[n]]

Less(l) ==
  [n \in DOMAIN l |->
    IF l[n].backoff # None /\ l[n].backoff > 0
      THEN [l[n] EXCEPT !.backoff = @ - 1] ELSE l[n]]

Tick ==
  /\ stored' = Less(stored)
  /\ list' = Less(list)
  /\ flight' = IF InFlight THEN [flight EXCEPT !.list = Less(@)] ELSE None
  /\ <<stored, list, flight>>' # <<stored, list, flight>>
  /\ UNCHANGED <<cur, watched, pc, fresh, before, i, reruns>>

------------------------------------------------------------------------------
Loop ==
  \/ ReadWatchlist \/ SkipInFlight \/ Rediff \/ RediffGone
  \/ RemoveFromWatchlist \/ PushDiff \/ SpliceDiff \/ NextTurn
  \/ SelectNothing \/ (\E idx \in DOMAIN fresh : Select(idx))
  \/ Race \/ OtherWakes \/ Draw \/ DrawOthers \/ AddRandomEntities

Operate == CheckHealthy \/ Unhealthy \/ Answer \/ HandlerError \/ StoreList

(* Nothing fails, and the diffs are what they are.                          *)
Undisturbed == Loop \/ Operate \/ AddToWatchlist \/ Tick

Next ==
  \/ Undisturbed
  \/ Change \/ CannotRediff \/ StoreFails \/ RestoreFails \/ Die \/ Restart

Spec == Init /\ [][Next]_vars

(* The loop and its calls of the database and of handlers go on.  A random  *)
(* choice, of a diff whether the list is too long or not, or of the         *)
(* entities to watch, falls on everything again and again; every handler is healthy     *)
(* and the resolver without other work again and again.                     *)
Fairness ==
  /\ WF_vars(Loop)
  /\ WF_vars(Operate)
  /\ WF_vars(Tick)
  /\ SF_vars(Draw)
  /\ \A d \in Diffs : SF_vars(CheckHealthy /\ flight.diff = d)
  /\ \A d \in Diffs, longer \in BOOLEAN :
       SF_vars(/\ (Len(list) > Len(fresh)) = longer
               /\ \E idx \in DOMAIN fresh : fresh[idx] = d /\ Select(idx))

FairSpec == Spec /\ Fairness

------------------------------------------------------------------------------
(* Properties *)

PCs == {"read", "reach", "drop", "push", "splice", "select", "end", "race", "add",
        "dead"}

(* Types of the variables. *)
TypeOK ==
  /\ cur \in DiffLists \cup {None}
  /\ watched \in BOOLEAN /\ stored \in Seq(Watch)
  /\ pc \in PCs
  /\ list \in Seq(Watch) /\ fresh \in Seq(Diffs) /\ before \in Seq(Diffs \cup {Marked})
  /\ i \in Nat \ {0}
  /\ flight \in Operation \cup {None}
  /\ reruns \in 0 .. MaxReruns

(* While an operation is in flight its entity stays on the watchlist: the   *)
(* editor that stores the backoff would throw without the entry, twice, and *)
(* the rejection would end the loop for every entity.                       *)
FlightIsWatched == InFlight => watched

(* Why: the loop works on an entity only while it is watched and no         *)
(* operation is in flight for it.                                           *)
WorksAlone ==
  /\ pc = "reach" => watched
  /\ pc \in {"drop", "push", "splice", "select"} => watched /\ ~ InFlight

Inv == TypeOK /\ WorksAlone /\ FlightIsWatched

(* Diffs handled before are not recognised and are watched once more.       *)
(* Still the list does not grow with every pass: it is at most twice as     *)
(* long as the diffs are many, less one, and longer by one for each time    *)
(* that an editor has run again after a conflict.  Such a run changes the   *)
(* loop's copy once more and not the stored list; the lists grow apart, and *)
(* they change places when an answer is stored between the read and the     *)
(* comparison, so that each can make the other grow.                        *)
ListBounded == Len(stored) <= MaxList + reruns

(* As long as an entity keeps a diff, its handler is called for it again    *)
(* and again: neither another diff whose handler fails, nor the delays, nor *)
(* the churn of the list keeps it waiting for ever.                         *)
Calls(d) ==
  /\ flight' # None /\ flight'.stage = "call" /\ flight'.diff = d
  /\ flight = None \/ flight.stage = "health"

Has(d) == cur # None /\ Includes(cur, d)

EveryDiffIsCalled ==
  <>[][Undisturbed]_vars /\ <>[](pc # "dead") =>
    \A d \in Diffs : <>[]Has(d) => []<><<Calls(d)>>_vars

==============================================================================
