------------------------------ MODULE Watchlist ------------------------------
(***************************************************************************)
(* The in-memory Watchlist of papiea-engine (intentful_engine/             *)
(* watchlist.ts): a dictionary from entity keys                            *)
(* ("prefix/version/kind/uuid") to watches.  A watch is the list of diffs  *)
(* being resolved for the entity; here it is the set of those diffs, the   *)
(* order and the backoff of each diff being the business of the resolver.  *)
(*                                                                         *)
(* An edit is one of the editor functions the engine hands to              *)
(* edit_watchlist.                                                         *)
(***************************************************************************)

CONSTANTS
  Keys,      \* entity keys, the result of stringifyEntryRef
  Diffs      \* diffs that can be watched

Watchlists == UNION {[K -> SUBSET Diffs] : K \in SUBSET Keys}

EmptyWatchlist == [k \in {} |-> {}]

Has(wl, k) == k \in DOMAIN wl

Set(wl, k, watch) ==
  [j \in DOMAIN wl \cup {k} |-> IF j = k THEN watch ELSE wl[j]]

Delete(wl, k) == [j \in DOMAIN wl \ {k} |-> wl[j]]

(* The editors: "add" registers entities that are not watched yet, with no  *)
(* diff; "delete" drops an entry; "push" and "splice" edit the list of an   *)
(* entry in place; "set" stores the resolver's list over it; "read" only    *)
(* returns the entries.                                                     *)
AddEdits    == [type : {"add"}, keys : SUBSET Keys]
DeleteEdits == [type : {"delete"}, key : Keys]
ListEdits   == [type : {"push", "splice"}, key : Keys, diff : Diffs]
SetEdits    == [type : {"set"}, key : Keys, diffs : SUBSET Diffs]
ReadEdit    == [type |-> "read"]

Edits == AddEdits \cup DeleteEdits \cup ListEdits \cup SetEdits \cup {ReadEdit}

(* "push", "splice" and "set" dereference the entry: on a key without one   *)
(* the editor throws a TypeError.                                           *)
Applicable(edit, wl) ==
  edit.type \in {"push", "splice", "set"} => Has(wl, edit.key)

ApplyEdit(edit, wl) ==
  CASE edit.type = "add" ->
         [k \in DOMAIN wl \cup edit.keys |-> IF Has(wl, k) THEN wl[k] ELSE {}]
    [] edit.type = "delete" -> Delete(wl, edit.key)
    [] edit.type = "push"   -> Set(wl, edit.key, wl[edit.key] \cup {edit.diff})
    [] edit.type = "splice" -> Set(wl, edit.key, wl[edit.key] \ {edit.diff})
    [] edit.type = "set"    -> Set(wl, edit.key, edit.diffs)
    [] edit.type = "read"   -> wl

==============================================================================
