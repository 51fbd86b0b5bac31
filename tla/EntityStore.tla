----------------------------- MODULE EntityStore -----------------------------
(***************************************************************************)
(* One entity of papiea-engine, from its creation to its deletion: the     *)
(* document of the "entity" collection, its burials in the "graveyard"     *)
(* collection, and the API requests that run on it concurrently            *)
(* (entity_api_impl.ts, provider_api_impl.ts, the intentful and status     *)
(* update strategies, Entity_DB_Mongo and Graveyard_DB_Mongo).             *)
(*                                                                         *)
(* MongoDB executes one operation on one document atomically; a request is *)
(* a sequence of such operations and anything may run between two of them. *)
(* There is one action per database call, with the code up to the next     *)
(* call.  A sequence of reads whose results only tell whether the entity   *)
(* exists is one read.                                                     *)
(*                                                                         *)
(* A hash stands for the content it was computed from, so two hashes are   *)
(* equal exactly when their contents are; IdentityHash is the hash of the  *)
(* entity reference, which a new entity carries.                           *)
(***************************************************************************)
EXTENDS Naturals, FiniteSets

CONSTANTS
  Requests,        \* requests to the engine; each runs once
  Fields, Values,  \* fields of specs and statuses, and what they may hold
  Ops,             \* the kinds of requests in play
  CreateVersions,  \* metadata.spec_version in creations; None: not given
  UpdateVersions,  \* metadata.spec_version in spec updates
  SpecOnly,        \* the kind is spec-only
  None,            \* null, or a missing field or document
  IdentityHash

AllOps == {"create", "update", "delete", "replace_status", "update_status"}

(* The status operations are refused on spec-only kinds.                    *)
ASSUME OpsAssumption ==
  /\ SpecOnly \in BOOLEAN
  /\ Ops \subseteq AllOps
  /\ SpecOnly => Ops \cap {"replace_status", "update_status"} = {}

ASSUME VersionsAssumption ==
  /\ CreateVersions \subseteq Nat \cup {None}
  /\ UpdateVersions \subseteq Nat

(* Specs are complete; statuses may miss fields; a partial status also says *)
(* which fields to remove, by a null.                                       *)
Specs == [Fields -> Values]
Statuses == UNION {[F -> Values] : F \in SUBSET Fields}
Partials == UNION {[F -> Values \cup {None}] : F \in SUBSET Fields}

EmptyStatus == [f \in {} |-> None]

Hashes == Partials \cup {IdentityHash}

Docs == [id : Nat, version : Nat \cup {None}, spec : Specs \cup {None},
         status : Statuses, hash : Hashes]

Graves == [id : Nat, version : Nat \cup {None}, spec : Specs \cup {None}]

ASSUME NoneAssumption ==
  /\ None \notin Nat \cup Values \cup Specs \cup Docs \cup AllOps
  /\ IdentityHash \notin Partials

VARIABLES
  entity,     \* the live document, or None
  graveyard,  \* the buried documents
  nextId,     \* the next fresh _id
  req,        \* the state of every request
  accepted    \* history: the specs the database took, with who sent them

vars == <<entity, graveyard, nextId, req, accepted>>

InProgress == {"existing", "highest", "graveyard", "get", "recheck", "update_spec",
               "reread", "replace_status", "update_status", "final", "bury", "remove"}

Ended == {"idle", "ok", "conflict", "failed", "crashed"}

Idle(how) == [op |-> None, pc |-> how, version |-> None, spec |-> None,
              body |-> EmptyStatus, seen |-> None]

Goto(r, pc) == req' = [req EXCEPT ![r].pc = pc]

End(r, how) == req' = [req EXCEPT ![r] = Idle(how)]

See(r, pc) == req' = [req EXCEPT ![r].pc = pc, ![r].seen = entity]

(* $inc of spec_version, and the ++ of save_to_graveyard; on a document     *)
(* without a spec_version the latter gives NaN, here None again.            *)
Inc(v) == IF v = None THEN None ELSE v + 1

NewEntity(s) == [id |-> 0, version |-> 1, spec |-> s, status |-> s, hash |-> s]

(* At first there is no entity, or one that has just been created.          *)
Init ==
  /\ graveyard = {}
  /\ req = [r \in Requests |-> Idle("idle")]
  /\ \/ entity = None /\ nextId = 0 /\ accepted = {}
     \/ \E s \in Specs :
          /\ entity = NewEntity(s)
          /\ nextId = 1
          /\ accepted = {[by |-> None, id |-> 0, base |-> 0, version |-> 1, spec |-> s]}

------------------------------------------------------------------------------
(* The arrival of a request, with what its caller sends *)

Arrive(r, op) == op \in Ops /\ req[r].pc = "idle"

(* POST.  A plain creation sets the status to the spec, a custom            *)
(* constructor may return another one except for a spec-only kind.          *)
StartCreate(r) ==
  /\ Arrive(r, "create")
  /\ \E v \in CreateVersions, spec, status \in Specs :
       /\ SpecOnly => status = spec
       /\ req' = [req EXCEPT ![r] = [op |-> "create", pc |-> "existing", version |-> v,
                                     spec |-> spec, body |-> status, seen |-> None]]
  /\ UNCHANGED <<entity, graveyard, nextId, accepted>>

(* PUT.  For a spec-only kind the spec is also the new status.              *)
StartUpdate(r) ==
  /\ Arrive(r, "update")
  /\ \E v \in UpdateVersions, spec \in Specs :
       req' = [req EXCEPT ![r] = [op |-> "update", pc |-> "get", version |-> v,
                                  spec |-> spec, body |-> spec, seen |-> None]]
  /\ UNCHANGED <<entity, graveyard, nextId, accepted>>

StartDelete(r) ==
  /\ Arrive(r, "delete")
  /\ req' = [req EXCEPT ![r].op = "delete", ![r].pc = "get"]
  /\ UNCHANGED <<entity, graveyard, nextId, accepted>>

(* A provider sends a status with the status hash of the entity it has      *)
(* read, at any time before.                                                *)
StartReplaceStatus(r) ==
  /\ Arrive(r, "replace_status")
  /\ entity # None
  /\ \E status \in Specs :
       req' = [req EXCEPT ![r] = [op |-> "replace_status", pc |-> "replace_status",
                                  version |-> None, spec |-> None,
                                  body |-> status, seen |-> entity]]
  /\ UNCHANGED <<entity, graveyard, nextId, accepted>>

StartUpdateStatus(r) ==
  /\ Arrive(r, "update_status")
  /\ entity # None
  /\ \E partial \in Partials \ {EmptyStatus} :
       req' = [req EXCEPT ![r] = [op |-> "update_status", pc |-> "recheck",
                                  version |-> None, spec |-> None,
                                  body |-> partial, seen |-> entity]]
  /\ UNCHANGED <<entity, graveyard, nextId, accepted>>

------------------------------------------------------------------------------
(* Creation, before the document is written *)

(* create_metadata: list_entities finds an entity with this uuid.           *)
CheckExisting(r) ==
  /\ req[r].pc = "existing"
  /\ \/ entity # None /\ End(r, "conflict")
     \/ entity = None /\ Goto(r, IF req[r].version = None THEN "highest" ELSE "graveyard")
  /\ UNCHANGED <<entity, graveyard, nextId, accepted>>

(* get_highest_spec_version: 0 without a burial; NaN sorts below numbers.   *)
IsHighestSpecVersion(v) ==
  IF graveyard = {} THEN v = 0
  ELSE /\ \E g \in graveyard : v = g.version
       /\ \A g \in graveyard : g.version # None => v # None /\ g.version <= v

GetHighest(r) ==
  /\ req[r].pc = "highest"
  /\ \E v \in {0} \cup {g.version : g \in graveyard} :
       /\ IsHighestSpecVersion(v)
       /\ req' = [req EXCEPT ![r].pc = "graveyard", ![r].version = v]
  /\ UNCHANGED <<entity, graveyard, nextId, accepted>>

(* check_spec_version, on the version the entity is about to get.           *)
CheckGraveyard(r) ==
  /\ req[r].pc = "graveyard"
  /\ \/ Inc(req[r].version) \in {g.version : g \in graveyard} /\ End(r, "conflict")
     \/ Inc(req[r].version) \notin {g.version : g \in graveyard} /\ Goto(r, "update_spec")
  /\ UNCHANGED <<entity, graveyard, nextId, accepted>>

------------------------------------------------------------------------------
(* Writing the spec *)

(* The reads that begin an update or a deletion.                            *)
GetEntity(r) ==
  /\ req[r].pc = "get"
  /\ \/ entity = None /\ End(r, "failed")
     \/ entity # None /\ See(r, IF req[r].op = "delete" THEN "bury" ELSE "update_spec")
  /\ UNCHANGED <<entity, graveyard, nextId, accepted>>

(* The status hash in the metadata of the request.                          *)
HashSent(r) == IF req[r].op = "create" THEN IdentityHash ELSE req[r].seen.hash

(* Mutant: the filter of update_spec has no spec_version.                   *)
SpecMatchesAnyVersion(r) == entity # None

(* The filter of update_spec.                                               *)
SpecMatches(r) == entity # None /\ entity.version = req[r].version

Accept(r) ==
  accepted' = accepted \cup {[by |-> r, id |-> entity'.id, base |-> req[r].version,
                              version |-> entity'.version, spec |-> req[r].spec]}

(* update_spec is an upsert: it increments the version it matched, inserts  *)
(* a document when there is none at all, whoever calls it, and breaks the   *)
(* unique index, a conflict, when the live version is another one.          *)
UpdateSpec(r) ==
  /\ req[r].pc = "update_spec"
  /\ \/ /\ SpecMatches(r)
        /\ entity' = [entity EXCEPT !.version = Inc(@), !.spec = req[r].spec]
        /\ Accept(r)
        /\ Goto(r, "reread")
        /\ UNCHANGED nextId
     \/ /\ entity = None
        /\ entity' = [id |-> nextId, version |-> Inc(req[r].version), spec |-> req[r].spec,
                      status |-> EmptyStatus, hash |-> HashSent(r)]
        /\ nextId' = nextId + 1
        /\ Accept(r)
        /\ Goto(r, "reread")
     \/ /\ entity # None
        /\ ~ SpecMatches(r)
        /\ End(r, "conflict")
        /\ UNCHANGED <<entity, nextId, accepted>>
  /\ UNCHANGED graveyard

(* update_spec ends by reading the entity back.  A creation, or an update   *)
(* of a spec-only kind, goes on with the status.                            *)
Reread(r) ==
  /\ req[r].pc = "reread"
  /\ \/ entity = None /\ End(r, "failed")
     \/ /\ entity # None
        /\ Goto(r, IF req[r].op = "create" \/ SpecOnly THEN "replace_status" ELSE "final")
  /\ UNCHANGED <<entity, graveyard, nextId, accepted>>

------------------------------------------------------------------------------
(* Writing the status *)

(* Mutant: the filter of the status operations has no status_hash.          *)
StatusMatchesAnyHash(r) == entity # None

(* The filter of replace_status and update_status.                          *)
StatusMatches(r) == entity # None /\ entity.hash = HashSent(r)

StatusConflict(r) ==
  /\ entity # None
  /\ ~ StatusMatches(r)
  /\ End(r, "conflict")
  /\ UNCHANGED <<entity, nextId>>

(* The upsert of a status operation without a document: a document with no  *)
(* spec and no spec_version.                                                *)
InsertStatus(status, hash) ==
  /\ entity = None
  /\ entity' = [id |-> nextId, version |-> None, spec |-> None,
                status |-> status, hash |-> hash]
  /\ nextId' = nextId + 1

(* Mutant: the document is replaced as a whole.                             *)
ReplaceDocument(r) ==
  /\ req[r].pc = "replace_status"
  /\ \/ /\ StatusMatches(r)
        /\ entity' = [entity EXCEPT !.spec = None, !.status = req[r].body, !.hash = req[r].body]
        /\ Goto(r, "final")
        /\ UNCHANGED nextId
     \/ InsertStatus(req[r].body, req[r].body) /\ Goto(r, "final")
     \/ StatusConflict(r)
  /\ UNCHANGED <<graveyard, accepted>>

ReplaceStatus(r) ==
  /\ req[r].pc = "replace_status"
  /\ \/ /\ StatusMatches(r)
        /\ entity' = [entity EXCEPT !.status = req[r].body, !.hash = req[r].body]
        /\ Goto(r, "final")
        /\ UNCHANGED nextId
     \/ InsertStatus(req[r].body, req[r].body) /\ Goto(r, "final")
     \/ StatusConflict(r)
  /\ UNCHANGED <<graveyard, accepted>>

(* provider_api_impl.update_status reads the entity to validate the merged  *)
(* status.                                                                  *)
Recheck(r) ==
  /\ req[r].pc = "recheck"
  /\ \/ entity = None /\ End(r, "failed")
     \/ entity # None /\ Goto(r, "update_status")
  /\ UNCHANGED <<entity, graveyard, nextId, accepted>>

(* Mutant: a null is stored, instead of removing the field.                 *)
MergeKeepingNulls(status, partial) ==
  [f \in DOMAIN status \cup DOMAIN partial |->
     IF f \in DOMAIN partial THEN partial[f] ELSE status[f]]

Unset(partial) == {f \in DOMAIN partial : partial[f] = None}

Merge(status, partial) ==
  [f \in (DOMAIN status \cup DOMAIN partial) \ Unset(partial) |->
     IF f \in DOMAIN partial THEN partial[f] ELSE status[f]]

(* The new hash is that of the partial status, not of the merged one, and   *)
(* it is written with the fields to set: there may be none.                 *)
HashAfter(partial, hash) == IF Unset(partial) = DOMAIN partial THEN hash ELSE partial

UpdateStatus(r) ==
  /\ req[r].pc = "update_status"
  /\ \/ /\ StatusMatches(r)
        /\ entity' = [entity EXCEPT !.status = Merge(@, req[r].body),
                                    !.hash = HashAfter(req[r].body, @)]
        /\ Goto(r, "final")
        /\ UNCHANGED nextId
     \/ /\ InsertStatus(Merge(EmptyStatus, req[r].body), HashAfter(req[r].body, HashSent(r)))
        /\ Goto(r, "final")
     \/ StatusConflict(r)
  /\ UNCHANGED <<graveyard, accepted>>

(* The read of the entity for the answer.                                   *)
Final(r) ==
  /\ req[r].pc = "final"
  /\ End(r, IF entity = None THEN "failed" ELSE "ok")
  /\ UNCHANGED <<entity, graveyard, nextId, accepted>>

------------------------------------------------------------------------------
(* Deletion, after the destructor: dispose buries, then removes *)

Buried(id) == \E g \in graveyard : g.id = id

(* Mutant: the burial keeps the spec_version of the entity.                 *)
GraveSameVersion(doc) == [id |-> doc.id, version |-> doc.version, spec |-> doc.spec]

(* The copy that was read goes to the graveyard with its _id, which is      *)
(* unique there too: the same document is not buried twice.                 *)
Grave(doc) == [id |-> doc.id, version |-> Inc(doc.version), spec |-> doc.spec]

(* Mutant: the copy is buried under an _id of its own, as often as asked.   *)
BuryWithoutId(r) ==
  /\ req[r].pc = "bury"
  /\ graveyard' = graveyard \cup {Grave(req[r].seen)}
  /\ Goto(r, "remove")
  /\ UNCHANGED <<entity, nextId, accepted>>

Bury(r) ==
  /\ req[r].pc = "bury"
  /\ \/ /\ ~ Buried(req[r].seen.id)
        /\ graveyard' = graveyard \cup {Grave(req[r].seen)}
        /\ Goto(r, "remove")
     \/ /\ Buried(req[r].seen.id)
        /\ End(r, "failed")
        /\ UNCHANGED graveyard
  /\ UNCHANGED <<entity, nextId, accepted>>

(* Mutant: only the version that was read is removed.                       *)
RemoveByVersion(r) ==
  /\ req[r].pc = "remove"
  /\ entity' = IF entity # None /\ entity.version # req[r].seen.version
                  THEN entity ELSE None
  /\ End(r, "ok")
  /\ UNCHANGED <<graveyard, nextId, accepted>>

(* delete_entity: deleteOne on the entity reference alone.                  *)
Remove(r) ==
  /\ req[r].pc = "remove"
  /\ entity' = None
  /\ End(r, "ok")
  /\ UNCHANGED <<graveyard, nextId, accepted>>

------------------------------------------------------------------------------

(* A database error, a destructor that fails, the end of the process: the   *)
(* request is over where it stands.                                         *)
Fail(r) ==
  /\ req[r].pc \in InProgress
  /\ End(r, "crashed")
  /\ UNCHANGED <<entity, graveyard, nextId, accepted>>

Start(r) ==
  \/ StartCreate(r) \/ StartUpdate(r) \/ StartDelete(r)
  \/ StartReplaceStatus(r) \/ StartUpdateStatus(r)

Step(r) ==
  \/ CheckExisting(r) \/ GetHighest(r) \/ CheckGraveyard(r)
  \/ GetEntity(r) \/ UpdateSpec(r) \/ Reread(r)
  \/ ReplaceStatus(r) \/ Recheck(r) \/ UpdateStatus(r)
  \/ Final(r) \/ Bury(r) \/ Remove(r)

Next == \E r \in Requests : Start(r) \/ Step(r) \/ Fail(r)

Spec == Init /\ [][Next]_vars

------------------------------------------------------------------------------
(* Properties *)

RequestStates ==
  [op : AllOps \cup {None}, pc : InProgress \cup Ended, version : Nat \cup {None},
   spec : Specs \cup {None}, body : Partials, seen : Docs \cup {None}]

Acceptances ==
  [by : Requests \cup {None}, id : Nat, base : Nat, version : Nat, spec : Specs]

(* Types of the variables: a status never holds a null, in particular.      *)
TypeOK ==
  /\ entity \in Docs \cup {None}
  /\ graveyard \subseteq Graves
  /\ nextId \in Nat
  /\ req \in [Requests -> RequestStates]
  /\ accepted \subseteq Acceptances

(* The specs of one incarnation of the entity form one history: a spec is   *)
(* taken only on the version its sender names, every version is taken once, *)
(* and the live spec is the last one taken, so that no spec update is lost  *)
(* under another (the compare-and-increment of update_spec).                *)
SpecHistory ==
  /\ \A a \in accepted : a.version = Inc(a.base)
  /\ \A a, b \in accepted : a.id = b.id /\ a.version = b.version => a = b
  /\ entity # None =>
       /\ \A a \in accepted : a.id = entity.id => a.version <= entity.version
       /\ entity.spec # None =>
            \E a \in accepted :
              a.id = entity.id /\ a.version = entity.version /\ a.spec = entity.spec

(* The inductive invariants of the proofs.  What a request holds depends on *)
(* where it stands; the spec_version with which it goes to update_spec is a *)
(* number: the NaN of a spec-less burial does not pass check_spec_version.  *)
Shape(q) ==
  /\ q.pc \in {"existing", "highest", "graveyard"} => q.op = "create"
  /\ q.pc = "get" => q.op \in {"update", "delete"}
  /\ q.pc \in {"update_spec", "reread"} => q.op \in {"create", "update"}
  /\ q.pc = "replace_status" => q.op \in {"create", "update", "replace_status"}
  /\ q.pc \in {"recheck", "update_status"} => q.op = "update_status"
  /\ q.pc \in {"bury", "remove"} => q.op = "delete"
  /\ q.op \in {"create", "update"} => q.spec \in Specs
  /\ q.op \in {"create", "update", "replace_status"} => q.body \in Specs
  /\ q.op \in {"update", "delete", "replace_status", "update_status"} /\ q.pc # "get"
       => q.seen \in Docs
  /\ q.op = "update" => q.version \in Nat
  /\ q.pc = "update_spec" => q.version \in Nat
  /\ q.pc = "graveyard" /\ q.version = None => \E g \in graveyard : g.version = None

Shapes == \A r \in Requests : Shape(req[r])

TypeInv == TypeOK /\ Shapes

(* A document has a spec exactly when it has a version; no _id comes twice. *)
IdsAreFresh ==
  /\ entity # None => entity.id < nextId
  /\ \A a \in accepted : a.id < nextId
  /\ \A r \in Requests : req[r].seen # None => req[r].seen.id < nextId

SpecHasVersion ==
  entity # None =>
    /\ entity.spec = None <=> entity.version = None
    /\ entity.spec = None => \A a \in accepted : a.id # entity.id

HistoryInv == TypeInv /\ IdsAreFresh /\ SpecHasVersion /\ SpecHistory

(* A request about to remove the entity removes the one it has buried.      *)
RemovesItsBurial ==
  \A r \in Requests :
    req[r].pc = "remove" =>
      /\ entity # None
      /\ entity.id = req[r].seen.id
      /\ Buried(entity.id)
      /\ \A s \in Requests : req[s].pc = "remove" => s = r

(* No incarnation of the entity disappears without a trace: a document that *)
(* is no longer live has been buried.  dispose removes whatever is live     *)
(* under the entity reference, so this depends on nobody else having        *)
(* removed, and recreated, the entity since it was read.                    *)
BuriedBeforeGone ==
  \A id \in 0 .. nextId - 1 : (entity = None \/ entity.id # id) => Buried(id)

BurialInv == TypeInv /\ IdsAreFresh /\ BuriedBeforeGone /\ RemovesItsBurial

(* A provider that replaces or updates a status replaces the one it has     *)
(* seen: the compare-and-swap on the status hash lets no status be          *)
(* overwritten unseen.                                                      *)
Overwrites(r) ==
  /\ req[r].op \in {"replace_status", "update_status"}
  /\ req[r].pc \in {"replace_status", "update_status"}
  /\ req'[r].pc = "final"
  /\ entity # None

StatusSeenBeforeOverwrite ==
  [][\A r \in Requests : Overwrites(r) => entity.status = req[r].seen.status]_vars

(* A creation inserts the entity: it never replaces the spec of an entity   *)
(* another request has created meanwhile.                                   *)
CreationInserts ==
  [][\A r \in Requests :
       req[r].op = "create" /\ req[r].pc = "update_spec" /\ req'[r].pc = "reread"
         => entity = None]_vars

(* When all requests have run to their ends, none of them cut short, a live *)
(* entity is not in the graveyard as well.                                  *)
Completed == \A r \in Requests : req[r].pc \in Ended \ {"crashed"}

LiveIsNotBuried == Completed /\ entity # None => ~ Buried(entity.id)

(* Its inductive form: a live and buried entity is about to be removed, or  *)
(* some request was cut short.                                              *)
GravesAreOld == \A g \in graveyard : g.id < nextId

BuriedIsRemoved ==
  entity # None /\ Buried(entity.id) =>
    \E r \in Requests : req[r].pc \in {"remove", "crashed"}

DisposalInv == BurialInv /\ GravesAreOld /\ BuriedIsRemoved

(* A live entity without a spec is what an upsert of a status left of one   *)
(* that had a spec: that one was deleted meanwhile, and is in the graveyard. *)
(* No sequence of status operations alone takes the spec away.              *)
SpeclessFollowsBurial ==
  entity # None /\ entity.spec = None => \E g \in graveyard : g.spec # None

(* The status of a spec-only entity is its spec, once all requests have run *)
(* to their ends.                                                           *)
SpecOnlyHasNoDiff ==
  SpecOnly /\ Completed /\ entity # None => entity.status = entity.spec

==============================================================================
