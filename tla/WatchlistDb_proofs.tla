-------------------------- MODULE WatchlistDb_proofs --------------------------
(***************************************************************************)
(* Proofs about WatchlistDb, for any sets of callers, entities and diffs   *)
(* and any injective hash.                                                 *)
(***************************************************************************)
EXTENDS WatchlistDb, TLAPS

------------------------------------------------------------------------------
(* The dictionary and its editors *)

LEMMA EmptyIsWatchlist == EmptyWatchlist \in Watchlists
  BY ZenonT(60) DEF EmptyWatchlist, Watchlists

(* A watchlist is a function from some of the keys to sets of diffs.        *)
LEMMA WatchlistShape ==
  ASSUME NEW wl
  PROVE  wl \in Watchlists
           <=> /\ DOMAIN wl \subseteq Keys
               /\ wl = [k \in DOMAIN wl |-> wl[k]]
               /\ \A k \in DOMAIN wl : wl[k] \in SUBSET Diffs
  <1>1. ASSUME wl \in Watchlists
        PROVE  /\ DOMAIN wl \subseteq Keys
               /\ wl = [k \in DOMAIN wl |-> wl[k]]
               /\ \A k \in DOMAIN wl : wl[k] \in SUBSET Diffs
    <2>1. PICK K \in SUBSET Keys : wl \in [K -> SUBSET Diffs]
      BY <1>1 DEF Watchlists
    <2> QED BY <2>1
  <1>2. ASSUME DOMAIN wl \subseteq Keys,
               wl = [k \in DOMAIN wl |-> wl[k]],
               \A k \in DOMAIN wl : wl[k] \in SUBSET Diffs
        PROVE  wl \in Watchlists
    <2>1. wl \in [DOMAIN wl -> SUBSET Diffs]
      BY <1>2
    <2> QED BY <1>2, <2>1 DEF Watchlists
  <1> QED BY <1>1, <1>2

LEMMA SetType ==
  ASSUME NEW wl \in Watchlists, NEW k \in Keys, NEW w \in SUBSET Diffs
  PROVE  Set(wl, k, w) \in Watchlists
  <1>1. \A j \in DOMAIN wl : wl[j] \in SUBSET Diffs
    BY WatchlistShape
  <1>2. DOMAIN wl \cup {k} \in SUBSET Keys
    BY WatchlistShape
  <1>3. Set(wl, k, w) \in [DOMAIN wl \cup {k} -> SUBSET Diffs]
    BY <1>1 DEF Set
  <1> QED BY <1>2, <1>3 DEF Watchlists

LEMMA DeleteType ==
  ASSUME NEW wl \in Watchlists, NEW k \in Keys
  PROVE  Delete(wl, k) \in Watchlists
  <1>1. \A j \in DOMAIN wl : wl[j] \in SUBSET Diffs
    BY WatchlistShape
  <1>2. DOMAIN wl \ {k} \in SUBSET Keys
    BY WatchlistShape
  <1>3. Delete(wl, k) \in [DOMAIN wl \ {k} -> SUBSET Diffs]
    BY <1>1 DEF Delete
  <1> QED BY <1>2, <1>3 DEF Watchlists

(* An editor that does not throw turns a watchlist into a watchlist.        *)
LEMMA EditType ==
  ASSUME NEW wl \in Watchlists, NEW ed \in Edits, Applicable(ed, wl)
  PROVE  ApplyEdit(ed, wl) \in Watchlists
  <1>1. \A j \in DOMAIN wl : wl[j] \in SUBSET Diffs
    BY WatchlistShape
  <1>2. DOMAIN wl \subseteq Keys
    BY WatchlistShape
  <1>3. CASE ed \in AddEdits
    <2>1. DOMAIN wl \cup ed.keys \in SUBSET Keys
      BY <1>2, <1>3 DEF AddEdits
    <2>2. [k \in DOMAIN wl \cup ed.keys |-> IF Has(wl, k) THEN wl[k] ELSE {}]
            \in [DOMAIN wl \cup ed.keys -> SUBSET Diffs]
      BY <1>1 DEF Has
    <2>3. ApplyEdit(ed, wl)
            = [k \in DOMAIN wl \cup ed.keys |-> IF Has(wl, k) THEN wl[k] ELSE {}]
      BY <1>3 DEF AddEdits, ApplyEdit
    <2> QED BY <2>1, <2>2, <2>3 DEF Watchlists
  <1>4. CASE ed \in DeleteEdits
    <2>1. ApplyEdit(ed, wl) = Delete(wl, ed.key) /\ ed.key \in Keys
      BY <1>4 DEF DeleteEdits, ApplyEdit
    <2> QED BY <2>1, DeleteType
  <1>5. CASE ed \in ListEdits
    <2>1. ed.key \in Keys /\ ed.diff \in Diffs /\ ed.type \in {"push", "splice"}
      BY <1>5 DEF ListEdits
    <2>2. wl[ed.key] \in SUBSET Diffs
      BY <1>1, <2>1 DEF Applicable, Has
    <2>3. CASE ed.type = "push"
      <3>1. ApplyEdit(ed, wl) = Set(wl, ed.key, wl[ed.key] \cup {ed.diff})
        BY <2>3 DEF ApplyEdit
      <3> QED BY <2>1, <2>2, <3>1, SetType
    <2>4. CASE ed.type = "splice"
      <3>1. ApplyEdit(ed, wl) = Set(wl, ed.key, wl[ed.key] \ {ed.diff})
        BY <2>4 DEF ApplyEdit
      <3> QED BY <2>1, <2>2, <3>1, SetType
    <2> QED BY <2>1, <2>3, <2>4
  <1>6. CASE ed \in SetEdits
    <2>1. ApplyEdit(ed, wl) = Set(wl, ed.key, ed.diffs)
      BY <1>6 DEF SetEdits, ApplyEdit
    <2>2. ed.key \in Keys /\ ed.diffs \in SUBSET Diffs
      BY <1>6 DEF SetEdits
    <2> QED BY <2>1, <2>2, SetType
  <1>7. CASE ed = ReadEdit
    BY <1>7 DEF ReadEdit, ApplyEdit
  <1> QED BY <1>3, <1>4, <1>5, <1>6, <1>7 DEF Edits

LEMMA StoredType ==
  ASSUME NEW wl \in Watchlists
  PROVE  StoredAs(wl) \in Document
  BY DEF StoredAs, Document

------------------------------------------------------------------------------
(* The inductive invariant *)

LEMMA InitInv == Init => Inv
  <1> SUFFICES ASSUME Init PROVE Inv
    OBVIOUS
  <1>1. StoredAs(EmptyWatchlist) \in Document
    BY EmptyIsWatchlist, StoredType
  <1>2. ReadEdit \in Edits
    BY DEF Edits
  <1>3. TypeOK
    BY <1>1, <1>2, EmptyIsWatchlist DEF Init, TypeOK, InCall, Ended
  <1>4. HashMatchesEntries /\ CopyIsEditOfItsHash /\ CopyHasDocument
    BY DEF Init, HashMatchesEntries, CopyIsEditOfItsHash, CopyHasDocument
  <1> QED BY <1>3, <1>4 DEF Inv

(* The editor run on a stored watchlist leaves a copy that is an edit of    *)
(* the watchlist it was read from, and keeps the hash of that one.          *)
LEMMA RunEditorInv ==
  ASSUME TypeOK, CopyIsEditOfItsHash, UNCHANGED edit,
         NEW e \in Editors, NEW wl \in Watchlists, RunEditor(e, wl, Hash(wl))
  PROVE  /\ pc' \in [Editors -> InCall \cup Ended]
         /\ local' \in [Editors -> Document]
         /\ CopyIsEditOfItsHash'
  <1>1. CASE Applicable(edit[e], wl)
    <2>1. ApplyEdit(edit[e], wl) \in Watchlists
      BY <1>1, EditType DEF TypeOK
    <2> DEFINE copy == [entries |-> ApplyEdit(edit[e], wl), hash |-> Hash(wl)]
    <2>2. copy \in Document
      BY <2>1 DEF Document
    <2>3. local' = [local EXCEPT ![e] = copy] /\ pc' = [pc EXCEPT ![e] = "update"]
      BY <1>1 DEF RunEditor
    <2>4. pc' \in [Editors -> InCall \cup Ended] /\ local' \in [Editors -> Document]
      BY <2>2, <2>3 DEF TypeOK, InCall
    <2>5. ASSUME NEW f \in Editors, pc'[f] = "update"
          PROVE  \E w \in Watchlists :
                   /\ local'[f].hash = Hash(w)
                   /\ Applicable(edit'[f], w)
                   /\ local'[f].entries = ApplyEdit(edit'[f], w)
      <3>1. CASE f = e
        <4>1. local'[f] = copy /\ edit'[f] = edit[e]
          BY <2>3, <3>1 DEF TypeOK
        <4> QED BY <1>1, <4>1
      <3>2. CASE f # e
        <4>1. local'[f] = local[f] /\ pc[f] = "update" /\ edit'[f] = edit[f]
          BY <2>3, <2>5, <3>2 DEF TypeOK
        <4> QED BY <4>1 DEF CopyIsEditOfItsHash
      <3> QED BY <3>1, <3>2
    <2> QED BY <2>4, <2>5 DEF CopyIsEditOfItsHash
  <1>2. CASE ~ Applicable(edit[e], wl)
    <2>1. pc' = [pc EXCEPT ![e] = "thrown"] /\ UNCHANGED local
      BY <1>2 DEF RunEditor
    <2>2. \A f \in Editors : pc'[f] = "update" => pc[f] = "update"
      BY <2>1 DEF TypeOK
    <2> QED BY <2>1, <2>2 DEF TypeOK, Ended, CopyIsEditOfItsHash
  <1> QED BY <1>1, <1>2

(* A step that moves one call out of "update", and drops its copy, keeps    *)
(* the copies of the others.                                                *)
LEMMA LeaveUpdateInv ==
  ASSUME TypeOK, CopyIsEditOfItsHash,
         NEW e \in Editors, NEW to \in (InCall \cup Ended) \ {"update"},
         pc' = [pc EXCEPT ![e] = to],
         \A f \in Editors \ {e} : local'[f] = local[f] /\ edit'[f] = edit[f]
  PROVE  pc' \in [Editors -> InCall \cup Ended] /\ CopyIsEditOfItsHash'
  <1>1. pc' \in [Editors -> InCall \cup Ended]
    BY DEF TypeOK
  <1>2. \A f \in Editors : pc'[f] = "update" => f # e /\ pc[f] = "update"
    BY DEF TypeOK
  <1> QED BY <1>1, <1>2 DEF CopyIsEditOfItsHash

LEMMA DropCopyType ==
  ASSUME TypeOK, NEW e \in Editors, DropCopy(e)
  PROVE  /\ local' \in [Editors -> Document]
         /\ \A f \in Editors \ {e} : local'[f] = local[f]
  <1>1. StoredAs(EmptyWatchlist) \in Document
    BY EmptyIsWatchlist, StoredType
  <1> QED BY <1>1 DEF TypeOK, DropCopy

(* What a write leaves in the collection is a document with its own hash.   *)
LEMMA WriteInv ==
  ASSUME NEW wl \in Watchlists, doc' = StoredAs(wl)
  PROVE  doc' \in Document \cup {NoDoc} /\ HashMatchesEntries'
  BY StoredType DEF StoredAs, HashMatchesEntries

LEMMA StepHasDocument == Inv /\ [Next]_vars => CopyHasDocument'
  <1> SUFFICES ASSUME Inv, [Next]_vars, NEW e \in Editors, pc'[e] = "update"
               PROVE  doc' # NoDoc
    BY DEF CopyHasDocument
  <1>1. \A wl \in Watchlists : StoredAs(wl) # NoDoc
    BY StoredType, NoDocAssumption
  <1>2. \A f \in Editors : local[f].entries \in Watchlists
    BY DEF Inv, TypeOK, Document
  <1>3. doc # NoDoc => doc' # NoDoc
    BY <1>1, <1>2, EmptyIsWatchlist
       DEF Next, Progress, Call, GetWatchlist, GetMissing, CreateWatchlist, CreateConflict,
           UpdateWatchlist, UpdateConflict, MongoError, LostAnswer, vars
  <1>4. CASE pc[e] = "update"
    BY <1>3, <1>4 DEF Inv, CopyHasDocument
  <1>5. CASE pc[e] # "update"
    <2>1. GetWatchlist(e) \/ CreateWatchlist(e)
      BY <1>5 DEF Next, Progress, Call, GetMissing, CreateConflict, UpdateWatchlist,
                  UpdateConflict, MongoError, LostAnswer, vars, RunEditor, GetWatchlist,
                  CreateWatchlist, Inv, TypeOK
    <2> QED BY <1>1, <1>3, <2>1, EmptyIsWatchlist DEF GetWatchlist, CreateWatchlist
  <1> QED BY <1>4, <1>5

LEMMA StepInv == Inv /\ [Next]_vars => Inv'
  <1> SUFFICES ASSUME Inv, [Next]_vars PROVE Inv'
    OBVIOUS
  <1> USE DEF Inv
  <1> DEFINE Copies == TypeOK /\ HashMatchesEntries /\ CopyIsEditOfItsHash
  <1>0. /\ {"get", "create", "done", "thrown", "failed"}
              \subseteq (InCall \cup Ended) \ {"update"}
        /\ \A f \in Editors : local[f].entries \in Watchlists
    BY DEF InCall, Ended, TypeOK, Document
  <1>1. ASSUME NEW e \in Editors, Call(e) PROVE Copies'
    <2>1. PICK ed \in Edits : edit' = [edit EXCEPT ![e] = ed]
      BY <1>1 DEF Call
    <2>2. /\ edit' \in [Editors -> Edits]
          /\ \A f \in Editors \ {e} : edit'[f] = edit[f]
      BY <2>1 DEF TypeOK
    <2>3. pc' \in [Editors -> InCall \cup Ended] /\ CopyIsEditOfItsHash'
      BY <1>0, <1>1, <2>2, LeaveUpdateInv DEF Call
    <2>4. TypeOK' /\ HashMatchesEntries'
      BY <1>1, <2>2, <2>3, EmptyIsWatchlist DEF Call, TypeOK, HashMatchesEntries
    <2> QED BY <2>3, <2>4
  <1>2. ASSUME NEW e \in Editors, GetWatchlist(e) PROVE Copies'
    <2>1. doc.entries \in Watchlists /\ doc.hash = Hash(doc.entries)
      BY <1>2 DEF GetWatchlist, TypeOK, Document, HashMatchesEntries
    <2>2. RunEditor(e, doc.entries, Hash(doc.entries)) /\ UNCHANGED <<doc, edit, result>>
      BY <1>2, <2>1 DEF GetWatchlist
    <2>3. /\ pc' \in [Editors -> InCall \cup Ended]
          /\ local' \in [Editors -> Document]
          /\ CopyIsEditOfItsHash'
      BY <2>1, <2>2, RunEditorInv
    <2> QED BY <2>2, <2>3 DEF TypeOK, HashMatchesEntries
  <1>3. ASSUME NEW e \in Editors, GetMissing(e) PROVE Copies'
    <2>1. pc' \in [Editors -> InCall \cup Ended] /\ CopyIsEditOfItsHash'
      BY <1>0, <1>3, LeaveUpdateInv DEF GetMissing
    <2> QED BY <1>3, <2>1 DEF GetMissing, TypeOK, HashMatchesEntries
  <1>4. ASSUME NEW e \in Editors, CreateWatchlist(e) PROVE Copies'
    <2>1. doc' \in Document \cup {NoDoc} /\ HashMatchesEntries'
      BY <1>4, EmptyIsWatchlist, WriteInv DEF CreateWatchlist
    <2>2. /\ pc' \in [Editors -> InCall \cup Ended]
          /\ local' \in [Editors -> Document]
          /\ CopyIsEditOfItsHash'
      BY <1>4, EmptyIsWatchlist, RunEditorInv DEF CreateWatchlist
    <2> QED BY <1>4, <2>1, <2>2 DEF CreateWatchlist, TypeOK
  <1>5. ASSUME NEW e \in Editors, CreateConflict(e) PROVE Copies'
    <2>1. pc' \in [Editors -> InCall \cup Ended] /\ CopyIsEditOfItsHash'
      BY <1>0, <1>5, LeaveUpdateInv DEF CreateConflict
    <2> QED BY <1>5, <2>1 DEF CreateConflict, TypeOK, HashMatchesEntries
  <1>6. ASSUME NEW e \in Editors, UpdateWatchlist(e) PROVE Copies'
    <2>1. doc' \in Document \cup {NoDoc} /\ HashMatchesEntries'
      BY <1>0, <1>6, WriteInv DEF UpdateWatchlist
    <2>2. /\ local' \in [Editors -> Document]
          /\ \A f \in Editors \ {e} : local'[f] = local[f]
      BY <1>6, DropCopyType DEF UpdateWatchlist
    <2>3. pc' \in [Editors -> InCall \cup Ended] /\ CopyIsEditOfItsHash'
      BY <1>0, <1>6, <2>2, LeaveUpdateInv DEF UpdateWatchlist
    <2>4. result' \in [Editors -> Watchlists] /\ UNCHANGED edit
      BY <1>0, <1>6 DEF UpdateWatchlist, TypeOK
    <2> QED BY <2>1, <2>2, <2>3, <2>4 DEF TypeOK
  <1>7. ASSUME NEW e \in Editors, UpdateConflict(e) PROVE Copies'
    <2>1. /\ local' \in [Editors -> Document]
          /\ \A f \in Editors \ {e} : local'[f] = local[f]
      BY <1>7, DropCopyType DEF UpdateConflict
    <2>2. pc' \in [Editors -> InCall \cup Ended] /\ CopyIsEditOfItsHash'
      BY <1>0, <1>7, <2>1, LeaveUpdateInv DEF UpdateConflict
    <2> QED BY <1>7, <2>1, <2>2 DEF UpdateConflict, TypeOK, HashMatchesEntries
  <1>8. ASSUME NEW e \in Editors, MongoError(e) PROVE Copies'
    <2>1. /\ local' \in [Editors -> Document]
          /\ \A f \in Editors \ {e} : local'[f] = local[f]
      BY <1>8, DropCopyType DEF MongoError
    <2>2. pc' \in [Editors -> InCall \cup Ended] /\ CopyIsEditOfItsHash'
      BY <1>0, <1>8, <2>1, LeaveUpdateInv DEF MongoError
    <2> QED BY <1>8, <2>1, <2>2 DEF MongoError, TypeOK, HashMatchesEntries
  <1>9. ASSUME NEW e \in Editors, LostAnswer(e) PROVE Copies'
    <2>1. \E wl \in Watchlists : doc' = StoredAs(wl)
      BY <1>0, <1>9, EmptyIsWatchlist DEF LostAnswer
    <2>2. doc' \in Document \cup {NoDoc} /\ HashMatchesEntries'
      BY <2>1, WriteInv
    <2>3. /\ local' \in [Editors -> Document]
          /\ \A f \in Editors \ {e} : local'[f] = local[f]
      BY <1>9, DropCopyType DEF LostAnswer
    <2>4. pc' \in [Editors -> InCall \cup Ended] /\ CopyIsEditOfItsHash'
      BY <1>0, <1>9, <2>3, LeaveUpdateInv DEF LostAnswer
    <2> QED BY <1>9, <2>2, <2>3, <2>4 DEF LostAnswer, TypeOK
  <1>10. ASSUME UNCHANGED vars PROVE Copies'
    BY <1>10 DEF vars, TypeOK, HashMatchesEntries, CopyIsEditOfItsHash
  <1> QED
    BY <1>1, <1>2, <1>3, <1>4, <1>5, <1>6, <1>7, <1>8, <1>9, <1>10, StepHasDocument
       DEF Next, Progress

(* The watchlist document is well typed, carries the hash of its own        *)
(* content, and every copy waiting to be written is an edit of the          *)
(* watchlist whose hash the write will compare.                             *)
THEOREM InvHolds == Spec => []Inv
  BY InitInv, StepInv, PTL DEF Spec

(* Every variable keeps its type. *)
THEOREM TypeCorrect == Spec => []TypeOK
  BY InvHolds, PTL DEF Inv

(* update_watchlist always stores a document with the hash of its entries.  *)
THEOREM HashCorrect == Spec => []HashMatchesEntries
  BY InvHolds, PTL DEF Inv

(* The hash a call compares is that of the watchlist its editor was run on. *)
THEOREM CopyCorrect == Spec => []CopyIsEditOfItsHash
  BY InvHolds, PTL DEF Inv

------------------------------------------------------------------------------
(* Refinement *)

(* When the filter of a write matches, the content it replaces is the       *)
(* content the hash was taken of: the hash is injective, and a collection   *)
(* without a document counts as the empty watchlist.                        *)
LEMMA ReplacedContent ==
  ASSUME TypeOK, HashMatchesEntries, NEW wl \in Watchlists, CanWrite(Hash(wl)), doc # NoDoc
  PROVE  Content = wl
  <1>1. doc.entries \in Watchlists /\ Hash(doc.entries) = Hash(wl)
    BY DEF CanWrite, HashMatchesEntries, TypeOK, Document
  <1> QED BY <1>1, HashInjective DEF Content

LEMMA StoredContent ==
  ASSUME NEW wl \in Watchlists, doc' = StoredAs(wl)
  PROVE  Content' = wl
  <1>1. doc' # NoDoc
    BY StoredType, NoDocAssumption
  <1> QED BY <1>1 DEF Content, StoredAs

LEMMA OutcomeStep ==
  ASSUME TypeOK, NEW e \in Editors, NEW to \in InCall \cup Ended,
         pc' = [pc EXCEPT ![e] = to]
  PROVE  Outcome' = [Outcome EXCEPT ![e] = IF to \in InCall THEN "pending" ELSE to]
  BY DEF Outcome, TypeOK

LEMMA OutcomeOf ==
  ASSUME NEW e \in Editors
  PROVE  /\ pc[e] \in InCall => Outcome[e] = "pending"
         /\ pc[e] \in Ended => Outcome[e] # "pending"
  BY DEF Outcome, InCall, Ended

(* The abstract watchlist has the editors of the concrete one.              *)
LEMMA SameEditors ==
  ASSUME NEW ed, NEW wl
  PROVE  /\ Atomic!Applicable(ed, wl) = Applicable(ed, wl)
         /\ Atomic!ApplyEdit(ed, wl) = ApplyEdit(ed, wl)
  <1>1. Atomic!Applicable(ed, wl) = Applicable(ed, wl)
    BY DEF Atomic!Applicable, Applicable, Atomic!Has, Has
  <1>2. Atomic!ApplyEdit(ed, wl) = ApplyEdit(ed, wl)
    BY Zenon DEF Atomic!ApplyEdit, ApplyEdit, Atomic!Has, Has, Atomic!Set, Set,
                 Atomic!Delete, Delete
  <1> QED BY <1>1, <1>2

(* Running the editor on the current content either goes on with the call,  *)
(* which the abstract watchlist does not see, or throws there and then.     *)
LEMMA RunEditorRefines ==
  ASSUME TypeOK, NEW e \in Editors, pc[e] \in InCall, Content' = Content,
         RunEditor(e, Content, Hash(Content)), UNCHANGED <<edit, result>>
  PROVE  Atomic!Next \/ UNCHANGED Atomic!vars
  <1>1. Outcome[e] = "pending"
    BY OutcomeOf
  <1>2. CASE Applicable(edit[e], Content)
    <2>1. pc' = [pc EXCEPT ![e] = "update"]
      BY <1>2 DEF RunEditor
    <2>2. Outcome' = Outcome
      BY <2>1 DEF Outcome, TypeOK, InCall
    <2> QED BY <2>2 DEF Atomic!vars
  <1>3. CASE ~ Applicable(edit[e], Content)
    <2>1. pc' = [pc EXCEPT ![e] = "thrown"]
      BY <1>3 DEF RunEditor
    <2>2. Outcome' = [Outcome EXCEPT ![e] = "thrown"]
      BY <2>1, OutcomeStep DEF InCall, Ended
    <2>3. Atomic!Throw(e)
      BY <1>1, <1>3, <2>2 DEF Atomic!Throw, Atomic!Applicable, Applicable, Atomic!Has, Has
    <2> QED BY <2>3 DEF Atomic!Next
  <1> QED BY <1>2, <1>3

LEMMA StepRefines == Inv /\ [Next]_vars => [Atomic!Next]_(Atomic!vars)
  <1> SUFFICES ASSUME Inv, [Next]_vars
               PROVE  Atomic!Next \/ UNCHANGED Atomic!vars
    OBVIOUS
  <1> USE DEF Inv
  <1>1. ASSUME NEW e \in Editors, Call(e) PROVE Atomic!Next
    <2>1. Outcome[e] # "pending"
      BY <1>1, OutcomeOf DEF Call
    <2>2. Outcome' = [Outcome EXCEPT ![e] = "pending"]
      BY <1>1, OutcomeStep DEF Call, InCall
    <2>3. Content' = Content
      BY <1>1 DEF Call, Content
    <2>4. Atomic!Invoke(e)
      BY <1>1, <2>1, <2>2, <2>3
         DEF Call, Atomic!Invoke, Atomic!Edits, Edits, Atomic!AddEdits, AddEdits,
             Atomic!DeleteEdits, DeleteEdits, Atomic!ListEdits, ListEdits,
             Atomic!SetEdits, SetEdits, Atomic!ReadEdit, ReadEdit,
             Atomic!EmptyWatchlist, EmptyWatchlist
    <2> QED BY <2>4 DEF Atomic!Next
  <1>2. ASSUME NEW e \in Editors, GetWatchlist(e)
        PROVE  Atomic!Next \/ UNCHANGED Atomic!vars
    <2>1. /\ Content = doc.entries /\ doc.hash = Hash(doc.entries)
          /\ Content' = Content
      BY <1>2 DEF GetWatchlist, Content, HashMatchesEntries
    <2>2. /\ pc[e] \in InCall /\ UNCHANGED <<edit, result>>
          /\ RunEditor(e, Content, Hash(Content))
      BY <1>2, <2>1 DEF GetWatchlist, InCall
    <2> QED BY <2>1, <2>2, RunEditorRefines
  <1>3. ASSUME NEW e \in Editors, GetMissing(e) PROVE UNCHANGED Atomic!vars
    <2>1. Outcome' = Outcome
      BY <1>3 DEF GetMissing, Outcome, TypeOK, InCall
    <2> QED BY <1>3, <2>1 DEF GetMissing, Content, Atomic!vars
  <1>4. ASSUME NEW e \in Editors, CreateWatchlist(e)
        PROVE  Atomic!Next \/ UNCHANGED Atomic!vars
    <2>1. Content = EmptyWatchlist
      <3>1. CASE doc = NoDoc
        BY <3>1 DEF Content
      <3>2. CASE doc # NoDoc
        BY <1>4, <3>2, EmptyIsWatchlist, ReplacedContent DEF CreateWatchlist
      <3> QED BY <3>1, <3>2
    <2>2. Content' = EmptyWatchlist
      BY <1>4, EmptyIsWatchlist, StoredContent DEF CreateWatchlist
    <2>3. /\ pc[e] \in InCall /\ UNCHANGED <<edit, result>>
          /\ RunEditor(e, Content, Hash(Content))
      BY <1>4, <2>1 DEF CreateWatchlist, InCall
    <2> QED BY <2>1, <2>2, <2>3, RunEditorRefines
  <1>5. ASSUME NEW e \in Editors, CreateConflict(e) PROVE Atomic!Next
    <2>1. Outcome[e] = "pending" /\ Outcome' = [Outcome EXCEPT ![e] = "failed"]
      BY <1>5, OutcomeOf, OutcomeStep DEF CreateConflict, InCall, Ended
    <2>2. Atomic!Fail(e)
      BY <1>5, <2>1 DEF CreateConflict, Content, Atomic!Fail
    <2> QED BY <2>2 DEF Atomic!Next
  <1>6. ASSUME NEW e \in Editors, pc[e] = "update", CanWrite(local[e].hash),
               doc' = StoredAs(local[e].entries)
        PROVE  /\ Applicable(edit[e], Content)
               /\ Content' = ApplyEdit(edit[e], Content)
               /\ Content' = local[e].entries
    <2>1. PICK wl \in Watchlists : /\ local[e].hash = Hash(wl)
                                   /\ Applicable(edit[e], wl)
                                   /\ local[e].entries = ApplyEdit(edit[e], wl)
      BY <1>6 DEF CopyIsEditOfItsHash
    <2>2. Content' = local[e].entries
      BY <1>6, StoredContent DEF TypeOK, Document
    <2>3. Content = wl
      BY <1>6, <2>1, ReplacedContent DEF CopyHasDocument
    <2> QED BY <2>1, <2>2, <2>3
  <1>7. ASSUME NEW e \in Editors, UpdateWatchlist(e) PROVE Atomic!Next
    <2>1. Outcome[e] = "pending" /\ Outcome' = [Outcome EXCEPT ![e] = "done"]
      BY <1>7, OutcomeOf, OutcomeStep DEF UpdateWatchlist, InCall, Ended
    <2>2. /\ Applicable(edit[e], Content)
          /\ Content' = ApplyEdit(edit[e], Content)
          /\ result' = [result EXCEPT ![e] = Content']
      BY <1>6, <1>7 DEF UpdateWatchlist
    <2>3. Atomic!Succeed(e)
      BY <1>7, <2>1, <2>2, SameEditors DEF UpdateWatchlist, Atomic!Succeed
    <2> QED BY <2>3 DEF Atomic!Next
  <1>8. ASSUME NEW e \in Editors, UpdateConflict(e) PROVE UNCHANGED Atomic!vars
    <2>1. Outcome' = Outcome
      BY <1>8 DEF UpdateConflict, Outcome, TypeOK, InCall
    <2> QED BY <1>8, <2>1 DEF UpdateConflict, Content, Atomic!vars
  <1>9. ASSUME NEW e \in Editors, MongoError(e) PROVE Atomic!Next
    <2>1. Outcome[e] = "pending" /\ Outcome' = [Outcome EXCEPT ![e] = "failed"]
      BY <1>9, OutcomeOf, OutcomeStep DEF MongoError, InCall, Ended
    <2>2. Atomic!Fail(e)
      BY <1>9, <2>1 DEF MongoError, Content, Atomic!Fail
    <2> QED BY <2>2 DEF Atomic!Next
  <1>10. ASSUME NEW e \in Editors, LostAnswer(e) PROVE Atomic!Next
    <2>1. Outcome[e] = "pending" /\ Outcome' = [Outcome EXCEPT ![e] = "failed"]
      BY <1>10, OutcomeOf, OutcomeStep DEF LostAnswer, InCall, Ended
    <2>2. CASE pc[e] = "create"
      <3>1. doc' = StoredAs(EmptyWatchlist) /\ CanWrite(Hash(EmptyWatchlist))
        BY <1>10, <2>2 DEF LostAnswer
      <3>2. Content = EmptyWatchlist
        <4>1. CASE doc = NoDoc
          BY <4>1 DEF Content
        <4>2. CASE doc # NoDoc
          BY <3>1, <4>2, EmptyIsWatchlist, ReplacedContent
        <4> QED BY <4>1, <4>2
      <3>3. Content' = Content
        BY <3>1, <3>2, EmptyIsWatchlist, StoredContent
      <3>4. Atomic!Fail(e)
        BY <1>10, <2>1, <3>3 DEF LostAnswer, Atomic!Fail
      <3> QED BY <3>4 DEF Atomic!Next
    <2>3. CASE pc[e] = "update"
      <3>1. Applicable(edit[e], Content) /\ Content' = ApplyEdit(edit[e], Content)
        BY <1>6, <1>10, <2>3 DEF LostAnswer
      <3>2. Atomic!Fail(e)
        BY <1>10, <2>1, <3>1, SameEditors DEF LostAnswer, Atomic!Fail
      <3> QED BY <3>2 DEF Atomic!Next
    <2> QED BY <1>10, <2>2, <2>3 DEF LostAnswer
  <1>11. CASE UNCHANGED vars
    BY <1>11 DEF vars, Content, Outcome, Atomic!vars
  <1> QED
    BY <1>1, <1>2, <1>3, <1>4, <1>5, <1>7, <1>8, <1>9, <1>10, <1>11 DEF Next, Progress

LEMMA InitRefines == Init => Atomic!Init
  <1> SUFFICES ASSUME Init PROVE Atomic!Init
    OBVIOUS
  <1>1. Content = EmptyWatchlist
    BY DEF Init, Content
  <1>2. Outcome = [e \in Editors |-> "idle"]
    BY DEF Init, Outcome, InCall
  <1> QED
    BY <1>1, <1>2 DEF Init, Atomic!Init, Atomic!EmptyWatchlist, EmptyWatchlist,
                      Atomic!ReadEdit, ReadEdit

(* edit_watchlist is linearizable: seen through its callers, the document   *)
(* with its compare-and-swap loop is a watchlist edited atomically.         *)
THEOREM EditsAreAtomic == Spec => AtomicEdits
  BY InitRefines, StepRefines, InvHolds, PTL DEF Spec, AtomicEdits, Atomic!Spec

==============================================================================
