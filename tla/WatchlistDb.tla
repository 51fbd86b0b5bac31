----------------------------- MODULE WatchlistDb -----------------------------
(***************************************************************************)
(* Watchlist_Db_Mongo: the watchlist is ONE document of a MongoDB          *)
(* collection, shared by every request handler, by the diff resolver and   *)
(* by the intent resolver, possibly of several processes.  edit_watchlist  *)
(* reads it, runs an editor on the copy, and writes the copy back with a   *)
(* compare-and-swap on the hash of the content that was read; on a         *)
(* duplicate-key error, which is how an upsert whose filter misses an      *)
(* existing document ends, it starts again.                                *)
(*                                                                         *)
(* Every await of the code is a point where the other callers run: one     *)
(* action per database call, together with the code that follows it up to  *)
(* the next call.                                                          *)
(***************************************************************************)
EXTENDS Watchlist

CONSTANTS
  Editors,   \* the concurrent callers of edit_watchlist
  Hash(_),   \* getObjectHash
  NoDoc      \* the collection is empty

(* Two different watchlists do not have the same hash. *)
ASSUME HashInjective ==
  \A a, b \in Watchlists : Hash(a) = Hash(b) => a = b

Document == [entries : Watchlists, hash : {Hash(wl) : wl \in Watchlists}]

ASSUME NoDocAssumption == NoDoc \notin Document

VARIABLES
  doc,     \* the document of the "watchlist" collection
  pc,      \* pc[e]: the call e is awaiting, or how the last call of e ended
  edit,    \* edit[e]: the editor passed to edit_watchlist
  local,   \* local[e]: the Watchlist object, its _entries and its _hash
  result   \* result[e]: what the call returned, if it succeeded

vars == <<doc, pc, edit, local, result>>

InCall == {"get", "create", "update"}

Ended == {"idle", "done", "thrown", "failed"}

(* Mutant: the entries are stored where their hash should be.               *)
StoredAsUnhashed(wl) == [entries |-> wl, hash |-> wl]

StoredAs(wl) == [entries |-> wl, hash |-> Hash(wl)]

Init ==
  /\ doc = NoDoc
  /\ pc = [e \in Editors |-> "idle"]
  /\ edit = [e \in Editors |-> ReadEdit]
  /\ local = [e \in Editors |-> StoredAs(EmptyWatchlist)]
  /\ result = [e \in Editors |-> EmptyWatchlist]

(* Mutant: the write is not conditional on the hash.                        *)
CanWriteAlways(h) == TRUE

(* The filter {id: 1, hash: h} of the upsert: it writes when there is no    *)
(* document at all or when the stored hash is h; otherwise the insertion    *)
(* breaks the unique index on id.                                           *)
CanWrite(h) == doc # NoDoc => doc.hash = h

(* Mutant: the editor gets a clone of the entries, as if entries() copied.  *)
RunEditorOnClone(e, wl, h) ==
  \/ /\ Applicable(edit[e], wl)
     /\ local' = [local EXCEPT ![e] = [entries |-> wl, hash |-> h]]
     /\ pc' = [pc EXCEPT ![e] = "update"]
  \/ /\ ~ Applicable(edit[e], wl)
     /\ pc' = [pc EXCEPT ![e] = "thrown"]
     /\ UNCHANGED local

(* The rest of edit_watchlist after get_watchlist: run the editor on the    *)
(* copy just read.  Either it throws, out of edit_watchlist, or the copy    *)
(* goes to update_watchlist with the hash it was read with.                 *)
RunEditor(e, wl, h) ==
  \/ /\ Applicable(edit[e], wl)
     /\ local' = [local EXCEPT ![e] = [entries |-> ApplyEdit(edit[e], wl), hash |-> h]]
     /\ pc' = [pc EXCEPT ![e] = "update"]
  \/ /\ ~ Applicable(edit[e], wl)
     /\ pc' = [pc EXCEPT ![e] = "thrown"]
     /\ UNCHANGED local

(* The Watchlist object is local to one turn of the loop.                   *)
DropCopy(e) == local' = [local EXCEPT ![e] = StoredAs(EmptyWatchlist)]

Call(e) ==
  /\ pc[e] \in Ended
  /\ pc' = [pc EXCEPT ![e] = "get"]
  /\ \E ed \in Edits : edit' = [edit EXCEPT ![e] = ed]
  /\ result' = [result EXCEPT ![e] = EmptyWatchlist]
  /\ UNCHANGED <<doc, local>>

GetWatchlist(e) ==
  /\ pc[e] = "get"
  /\ doc # NoDoc
  /\ RunEditor(e, doc.entries, doc.hash)
  /\ UNCHANGED <<doc, edit, result>>

(* get_watchlist found nothing: it writes an empty watchlist first.         *)
GetMissing(e) ==
  /\ pc[e] = "get"
  /\ doc = NoDoc
  /\ pc' = [pc EXCEPT ![e] = "create"]
  /\ UNCHANGED <<doc, edit, local, result>>

CreateWatchlist(e) ==
  /\ pc[e] = "create"
  /\ CanWrite(Hash(EmptyWatchlist))
  /\ doc' = StoredAs(EmptyWatchlist)
  /\ RunEditor(e, EmptyWatchlist, Hash(EmptyWatchlist))
  /\ UNCHANGED <<edit, result>>

(* get_watchlist is called outside the try block: the conflict of this      *)
(* write is not retried but thrown to the caller.                           *)
CreateConflict(e) ==
  /\ pc[e] = "create"
  /\ ~ CanWrite(Hash(EmptyWatchlist))
  /\ pc' = [pc EXCEPT ![e] = "failed"]
  /\ UNCHANGED <<doc, edit, local, result>>

(* Mutant: the write leaves the hash of the document as it was.             *)
UpdateWatchlistKeepingHash(e) ==
  /\ pc[e] = "update"
  /\ CanWrite(local[e].hash)
  /\ doc' = [entries |-> local[e].entries, hash |-> local[e].hash]
  /\ result' = [result EXCEPT ![e] = local[e].entries]
  /\ pc' = [pc EXCEPT ![e] = "done"]
  /\ DropCopy(e)
  /\ UNCHANGED edit

UpdateWatchlist(e) ==
  /\ pc[e] = "update"
  /\ CanWrite(local[e].hash)
  /\ doc' = StoredAs(local[e].entries)
  /\ result' = [result EXCEPT ![e] = local[e].entries]
  /\ pc' = [pc EXCEPT ![e] = "done"]
  /\ DropCopy(e)
  /\ UNCHANGED edit

(* Mutant: the same copy is written again instead of being read anew.       *)
UpdateConflictSameCopy(e) ==
  /\ pc[e] = "update"
  /\ ~ CanWrite(local[e].hash)
  /\ UNCHANGED vars

UpdateConflict(e) ==
  /\ pc[e] = "update"
  /\ ~ CanWrite(local[e].hash)
  /\ pc' = [pc EXCEPT ![e] = "get"]
  /\ DropCopy(e)
  /\ UNCHANGED <<doc, edit, result>>

(* A database error, or the end of the caller's process: the call is over.  *)
(* The write it was waiting for may have been done, the answer lost.        *)
MongoError(e) ==
  /\ pc[e] \in InCall
  /\ pc' = [pc EXCEPT ![e] = "failed"]
  /\ DropCopy(e)
  /\ UNCHANGED <<doc, edit, result>>

LostAnswer(e) ==
  /\ \/ /\ pc[e] = "create"
        /\ CanWrite(Hash(EmptyWatchlist))
        /\ doc' = StoredAs(EmptyWatchlist)
     \/ /\ pc[e] = "update"
        /\ CanWrite(local[e].hash)
        /\ doc' = StoredAs(local[e].entries)
  /\ pc' = [pc EXCEPT ![e] = "failed"]
  /\ DropCopy(e)
  /\ UNCHANGED <<edit, result>>

Progress(e) ==
  \/ GetWatchlist(e)
  \/ GetMissing(e)
  \/ CreateWatchlist(e)
  \/ CreateConflict(e)
  \/ UpdateWatchlist(e)
  \/ UpdateConflict(e)

Next == \E e \in Editors : Call(e) \/ Progress(e) \/ MongoError(e) \/ LostAnswer(e)

Spec == Init /\ [][Next]_vars

(* A call that awaits the database goes on: the driver answers or fails.    *)
Fairness == \A e \in Editors : WF_vars(Progress(e))

FairSpec == Spec /\ Fairness

------------------------------------------------------------------------------
(* Properties *)

(* Types of the variables. *)
TypeOK ==
  /\ doc \in Document \cup {NoDoc}
  /\ pc \in [Editors -> InCall \cup Ended]
  /\ edit \in [Editors -> Edits]
  /\ local \in [Editors -> Document]
  /\ result \in [Editors -> Watchlists]

(* The stored hash is the hash of the stored entries, whoever wrote them    *)
(* last: otherwise every later compare-and-swap would miss and every caller *)
(* would retry for ever (update_watchlist computes it anew at each write).  *)
HashMatchesEntries == doc # NoDoc => doc.hash = Hash(doc.entries)

(* A copy waiting to be written is the caller's edit of the very watchlist  *)
(* whose hash will be compared: the hash kept in the Watchlist object is    *)
(* that of the content before the editor ran, not after.                    *)
CopyIsEditOfItsHash ==
  \A e \in Editors :
    pc[e] = "update" =>
      \E wl \in Watchlists :
        /\ local[e].hash = Hash(wl)
        /\ Applicable(edit[e], wl)
        /\ local[e].entries = ApplyEdit(edit[e], wl)

(* Once written the document stays, so a copy never meets an empty          *)
(* collection, where the upsert would write it unconditionally.             *)
CopyHasDocument == \A e \in Editors : pc[e] = "update" => doc # NoDoc

(* The inductive invariant of the proofs. *)
Inv == TypeOK /\ HashMatchesEntries /\ CopyIsEditOfItsHash /\ CopyHasDocument

(* edit_watchlist implements an atomic edit of a shared watchlist: no edit  *)
(* of a call that returns is lost, none is applied to a stale watchlist,    *)
(* none survives an editor that throws, and a call returns the watchlist at *)
(* the instant of its edit.                                                 *)
Content == IF doc = NoDoc THEN EmptyWatchlist ELSE doc.entries

Outcome == [e \in Editors |-> IF pc[e] \in InCall THEN "pending" ELSE pc[e]]

Atomic == INSTANCE AtomicWatchlist WITH
            watchlist <- Content, outcome <- Outcome, asked <- edit, result <- result

AtomicEdits == Atomic!Spec

(* The retry loop is lock-free: as long as calls keep being in flight,      *)
(* calls keep returning.  A conflict means that another call got through.   *)
Returns == \E e \in Editors : pc[e] \in InCall /\ pc'[e] \in Ended

LockFree == []<>(\E e \in Editors : pc[e] \in InCall) => []<><<Returns>>_vars

==============================================================================
