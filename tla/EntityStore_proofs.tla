-------------------------- MODULE EntityStore_proofs --------------------------
(***************************************************************************)
(* Proofs about EntityStore, for any number of concurrent requests, any    *)
(* fields and values, any mix of operations, with or without failures.     *)
(***************************************************************************)
EXTENDS EntityStore, TLAPS

------------------------------------------------------------------------------
(* Specs and statuses *)

LEMMA SpecIsStatus == Specs \subseteq Statuses
  BY DEF Specs, Statuses

LEMMA StatusIsPartial == Statuses \subseteq Partials
  <1> SUFFICES ASSUME NEW s \in Statuses PROVE s \in Partials
    OBVIOUS
  <1>1. PICK F \in SUBSET Fields : s \in [F -> Values]
    BY DEF Statuses
  <1>2. s \in [F -> Values \cup {None}]
    BY <1>1
  <1> QED BY <1>2 DEF Partials

LEMMA EmptyIsStatus == EmptyStatus \in Statuses
  <1>1. EmptyStatus \in [{} -> Values]
    BY DEF EmptyStatus
  <1> QED BY <1>1 DEF Statuses

(* Merging a partial status into a status leaves no null in it.             *)
LEMMA MergeType ==
  ASSUME NEW s \in Statuses, NEW p \in Partials
  PROVE  Merge(s, p) \in Statuses
  <1>1. PICK F \in SUBSET Fields : s \in [F -> Values]
    BY DEF Statuses
  <1>2. PICK G \in SUBSET Fields : p \in [G -> Values \cup {None}]
    BY DEF Partials
  <1> DEFINE D == (F \cup G) \ Unset(p)
  <1>3. Merge(s, p) = [f \in D |-> IF f \in G THEN p[f] ELSE s[f]]
    BY <1>1, <1>2 DEF Merge
  <1>4. \A f \in D : (IF f \in G THEN p[f] ELSE s[f]) \in Values
    BY <1>1, <1>2 DEF Unset
  <1>5. Merge(s, p) \in [D -> Values] /\ D \in SUBSET Fields
    BY <1>3, <1>4
  <1> QED BY <1>5 DEF Statuses

LEMMA HashAfterType ==
  ASSUME NEW p \in Partials, NEW h \in Hashes
  PROVE  HashAfter(p, h) \in Hashes
  BY DEF HashAfter, Hashes

------------------------------------------------------------------------------
(* Changes to the state of one request *)

LEMMA IdleType ==
  ASSUME NEW how \in Ended
  PROVE  Idle(how) \in RequestStates /\ Idle(how).pc = how /\ Shape(Idle(how))
                 /\ Idle(how).seen = None
  <1>1. EmptyStatus \in Partials
    BY EmptyIsStatus, StatusIsPartial
  <1> QED BY <1>1, NoneAssumption DEF Idle, RequestStates, Ended, Shape, AllOps

LEMMA RequestChange ==
  ASSUME TypeOK, NEW r \in Requests, NEW q \in RequestStates,
         req' = [req EXCEPT ![r] = q]
  PROVE  /\ req' \in [Requests -> RequestStates]
         /\ req'[r] = q
         /\ \A s \in Requests \ {r} : req'[s] = req[s]
  BY DEF TypeOK

LEMMA EndChange ==
  ASSUME TypeOK, NEW r \in Requests, NEW how \in Ended, End(r, how)
  PROVE  /\ req' \in [Requests -> RequestStates]
         /\ req'[r] = Idle(how)
         /\ \A s \in Requests \ {r} : req'[s] = req[s]
  BY IdleType, RequestChange DEF End

LEMMA GotoChange ==
  ASSUME TypeOK, NEW r \in Requests, NEW pc \in InProgress, Goto(r, pc)
  PROVE  /\ req' \in [Requests -> RequestStates]
         /\ req'[r] = [req[r] EXCEPT !.pc = pc]
         /\ \A s \in Requests \ {r} : req'[s] = req[s]
  <1>1. [req[r] EXCEPT !.pc = pc] \in RequestStates
    BY DEF TypeOK, RequestStates
  <1>2. req' = [req EXCEPT ![r] = [req[r] EXCEPT !.pc = pc]]
    BY DEF Goto, TypeOK
  <1> QED BY <1>1, <1>2, RequestChange

(* A step of one request that leaves its state well shaped, and buries      *)
(* nothing out, leaves all of them well shaped.                             *)
LEMMA ShapesStep ==
  ASSUME Shapes, NEW r \in Requests, graveyard \subseteq graveyard',
         \A s \in Requests \ {r} : req'[s] = req[s],
         Shape(req[r])'
  PROVE  Shapes'
  <1> SUFFICES ASSUME NEW s \in Requests PROVE Shape(req[s])'
    BY DEF Shapes
  <1>1. CASE s = r
    BY <1>1 DEF Shape
  <1>2. CASE s # r
    BY <1>2 DEF Shapes, Shape
  <1> QED BY <1>1, <1>2

------------------------------------------------------------------------------
(* Type correctness *)

(* What a step does to the request that takes it.                           *)
Moves(r) ==
  /\ req' \in [Requests -> RequestStates]
  /\ Shape(req[r])'
  /\ \A s \in Requests \ {r} : req'[s] = req[s]

LEMMA EndMoves ==
  ASSUME TypeOK, NEW r \in Requests, NEW how \in Ended, End(r, how)
  PROVE  Moves(r)
  <1>1. Shape(Idle(how)) /\ Idle(how).pc = how /\ Idle(how).op = None
    BY IdleType DEF Idle
  <1>2. req'[r] = Idle(how)
    BY EndChange
  <1>3. Shape(req[r])'
    BY <1>1, <1>2, NoneAssumption DEF Shape, Ended, AllOps
  <1> QED BY <1>3, EndChange DEF Moves

(* A request that goes on, at a place where its operation may be.           *)
LEMMA GotoMoves ==
  ASSUME TypeInv, NEW r \in Requests, NEW pc \in InProgress, Goto(r, pc),
         graveyard \subseteq graveyard', req[r].pc # "get", pc # "get",
         Shape([req[r] EXCEPT !.pc = pc])
  PROVE  Moves(r)
  <1>1. req'[r] = [req[r] EXCEPT !.pc = pc]
    BY GotoChange DEF TypeInv
  <1>2. Shape(req[r])'
    BY <1>1 DEF Shape
  <1> QED BY <1>2, GotoChange DEF Moves, TypeInv

LEMMA StartMoves ==
  ASSUME TypeInv, NEW r \in Requests, Start(r)
  PROVE  Moves(r)
  <1> USE DEF TypeInv
  <1>0. /\ req[r] \in RequestStates /\ Specs \subseteq Partials
        /\ EmptyStatus \in Partials
        /\ entity # None => entity \in Docs
    BY SpecIsStatus, StatusIsPartial, EmptyIsStatus DEF TypeOK
  <1>1. CASE StartCreate(r)
    <2>1. PICK v \in CreateVersions, spec \in Specs, status \in Specs :
            req' = [req EXCEPT ![r] = [op |-> "create", pc |-> "existing", version |-> v,
                                       spec |-> spec, body |-> status, seen |-> None]]
      BY <1>1 DEF StartCreate
    <2> DEFINE q == [op |-> "create", pc |-> "existing", version |-> v,
                     spec |-> spec, body |-> status, seen |-> None]
    <2>2. q \in RequestStates
      BY <1>0, VersionsAssumption DEF RequestStates, AllOps, InProgress
    <2>3. /\ req' \in [Requests -> RequestStates] /\ req'[r] = q
          /\ \A s \in Requests \ {r} : req'[s] = req[s]
      BY <2>1, <2>2, RequestChange
    <2>4. Shape(req[r])'
      BY <2>3 DEF Shape
    <2> QED BY <2>3, <2>4 DEF Moves
  <1>2. CASE StartUpdate(r)
    <2>1. PICK v \in UpdateVersions, spec \in Specs :
            req' = [req EXCEPT ![r] = [op |-> "update", pc |-> "get", version |-> v,
                                       spec |-> spec, body |-> spec, seen |-> None]]
      BY <1>2 DEF StartUpdate
    <2> DEFINE q == [op |-> "update", pc |-> "get", version |-> v,
                     spec |-> spec, body |-> spec, seen |-> None]
    <2>2. q \in RequestStates /\ v \in Nat
      BY <1>0, VersionsAssumption DEF RequestStates, AllOps, InProgress
    <2>3. /\ req' \in [Requests -> RequestStates] /\ req'[r] = q
          /\ \A s \in Requests \ {r} : req'[s] = req[s]
      BY <2>1, <2>2, RequestChange
    <2>4. Shape(req[r])'
      BY <2>2, <2>3 DEF Shape
    <2> QED BY <2>3, <2>4 DEF Moves
  <1>3. CASE StartDelete(r)
    <2> DEFINE q == [req[r] EXCEPT !.op = "delete", !.pc = "get"]
    <2>1. q \in RequestStates
      BY <1>0 DEF RequestStates, AllOps, InProgress
    <2>2. req' = [req EXCEPT ![r] = q]
      BY <1>3 DEF StartDelete, TypeOK
    <2>3. /\ req' \in [Requests -> RequestStates] /\ req'[r] = q
          /\ \A s \in Requests \ {r} : req'[s] = req[s]
      BY <2>1, <2>2, RequestChange
    <2>4. q.op = "delete" /\ q.pc = "get"
      BY <1>0 DEF RequestStates
    <2>5. Shape(req[r])'
      BY <2>3, <2>4 DEF Shape
    <2> QED BY <2>3, <2>5 DEF Moves
  <1>4. CASE StartReplaceStatus(r)
    <2>1. PICK status \in Specs :
            req' = [req EXCEPT ![r] = [op |-> "replace_status", pc |-> "replace_status",
                                       version |-> None, spec |-> None,
                                       body |-> status, seen |-> entity]]
      BY <1>4 DEF StartReplaceStatus
    <2> DEFINE q == [op |-> "replace_status", pc |-> "replace_status", version |-> None,
                     spec |-> None, body |-> status, seen |-> entity]
    <2>2. q \in RequestStates /\ entity \in Docs
      BY <1>0, <1>4 DEF RequestStates, AllOps, InProgress, StartReplaceStatus
    <2>3. /\ req' \in [Requests -> RequestStates] /\ req'[r] = q
          /\ \A s \in Requests \ {r} : req'[s] = req[s]
      BY <2>1, <2>2, RequestChange
    <2>4. Shape(req[r])'
      BY <2>2, <2>3 DEF Shape
    <2> QED BY <2>3, <2>4 DEF Moves
  <1>5. CASE StartUpdateStatus(r)
    <2>1. PICK partial \in Partials :
            req' = [req EXCEPT ![r] = [op |-> "update_status", pc |-> "recheck",
                                       version |-> None, spec |-> None,
                                       body |-> partial, seen |-> entity]]
      BY <1>5 DEF StartUpdateStatus
    <2> DEFINE q == [op |-> "update_status", pc |-> "recheck", version |-> None,
                     spec |-> None, body |-> partial, seen |-> entity]
    <2>2. q \in RequestStates /\ entity \in Docs
      BY <1>0, <1>5 DEF RequestStates, AllOps, InProgress, StartUpdateStatus
    <2>3. /\ req' \in [Requests -> RequestStates] /\ req'[r] = q
          /\ \A s \in Requests \ {r} : req'[s] = req[s]
      BY <2>1, <2>2, RequestChange
    <2>4. Shape(req[r])'
      BY <2>2, <2>3 DEF Shape
    <2> QED BY <2>3, <2>4 DEF Moves
  <1> QED BY <1>1, <1>2, <1>3, <1>4, <1>5 DEF Start

(* No step digs a burial up. *)
LEMMA StepBuries ==
  ASSUME NEW r \in Requests, Step(r) \/ Fail(r)
  PROVE  graveyard \subseteq graveyard'
  BY DEF Step, Fail, CheckExisting, GetHighest, CheckGraveyard, GetEntity, UpdateSpec,
         Reread, ReplaceStatus, Recheck, UpdateStatus, Final, Bury, Remove

LEMMA StepMoves ==
  ASSUME TypeInv, NEW r \in Requests, Step(r) \/ Fail(r)
  PROVE  Moves(r)
  <1> USE DEF TypeInv
  <1>0. /\ {"ok", "conflict", "failed", "crashed"} \subseteq Ended
        /\ req[r] \in RequestStates /\ Shape(req[r])
        /\ graveyard \subseteq graveyard'
        /\ entity # None => entity \in Docs
    BY StepBuries DEF TypeOK, Shapes, Ended
  <1>1. CASE \E how \in {"ok", "conflict", "failed", "crashed"} : End(r, how)
    BY <1>0, <1>1, EndMoves
  <1>2. CASE ~ \E how \in {"ok", "conflict", "failed", "crashed"} : End(r, how)
    <2>1. CASE CheckExisting(r)
      <3>1. CASE req[r].version = None
        <4>1. Goto(r, "highest")
          BY <1>2, <2>1, <3>1 DEF CheckExisting
        <4> QED BY <1>0, <2>1, <4>1, GotoMoves DEF CheckExisting, InProgress, Shape, RequestStates
      <3>2. CASE req[r].version # None
        <4>1. Goto(r, "graveyard")
          BY <1>2, <2>1, <3>2 DEF CheckExisting
        <4> QED
          BY <1>0, <2>1, <3>2, <4>1, GotoMoves DEF CheckExisting, InProgress, Shape, RequestStates
      <3> QED BY <3>1, <3>2
    <2>2. CASE GetHighest(r)
      <3>1. PICK v \in {0} \cup {g.version : g \in graveyard} :
              /\ IsHighestSpecVersion(v)
              /\ req' = [req EXCEPT ![r].pc = "graveyard", ![r].version = v]
        BY <2>2 DEF GetHighest
      <3> DEFINE q == [req[r] EXCEPT !.pc = "graveyard", !.version = v]
      <3>2. v \in Nat \cup {None} /\ (v = None => \E g \in graveyard : g.version = None)
        BY <3>1, NoneAssumption DEF TypeOK, Graves, IsHighestSpecVersion
      <3>3. q \in RequestStates /\ req' = [req EXCEPT ![r] = q]
        BY <1>0, <3>1, <3>2 DEF RequestStates, InProgress, TypeOK
      <3>4. /\ req' \in [Requests -> RequestStates] /\ req'[r] = q
            /\ \A s \in Requests \ {r} : req'[s] = req[s]
        BY <3>3, RequestChange
      <3>5. q.pc = "graveyard" /\ q.version = v /\ q.op = "create"
            /\ q.spec = req[r].spec /\ q.body = req[r].body
        BY <1>0, <2>2 DEF RequestStates, Shape, GetHighest
      <3>6. Shape(req[r])'
        BY <1>0, <2>2, <3>2, <3>4, <3>5 DEF Shape, GetHighest
      <3> QED BY <3>4, <3>6 DEF Moves
    <2>3. CASE CheckGraveyard(r)
      <3>1. Goto(r, "update_spec") /\ Inc(req[r].version) \notin {g.version : g \in graveyard}
        BY <1>2, <2>3 DEF CheckGraveyard
      <3>2. req[r].version \in Nat
        BY <1>0, <2>3, <3>1 DEF CheckGraveyard, Inc, Shape, RequestStates
      <3> QED
        BY <1>0, <2>3, <3>1, <3>2, GotoMoves DEF CheckGraveyard, InProgress, Shape, RequestStates
    <2>4. CASE GetEntity(r)
      <3> DEFINE to == IF req[r].op = "delete" THEN "bury" ELSE "update_spec"
                 q  == [req[r] EXCEPT !.pc = to, !.seen = entity]
      <3>1. See(r, to) /\ entity \in Docs /\ req[r].op \in {"update", "delete"}
        BY <1>0, <1>2, <2>4 DEF GetEntity, Shape
      <3>2. q \in RequestStates /\ req' = [req EXCEPT ![r] = q]
        BY ZenonT(60), <1>0, <3>1 DEF RequestStates, InProgress, TypeOK, See
      <3>3. /\ req' \in [Requests -> RequestStates] /\ req'[r] = q
            /\ \A s \in Requests \ {r} : req'[s] = req[s]
        BY <3>2, RequestChange
      <3>4. q.pc = to /\ q.seen = entity /\ q.op = req[r].op /\ q.version = req[r].version
            /\ q.spec = req[r].spec /\ q.body = req[r].body
        BY <1>0 DEF RequestStates
      <3>5. Shape(req[r])'
        BY <1>0, <3>1, <3>3, <3>4 DEF Shape
      <3> QED BY <3>3, <3>5 DEF Moves
    <2>5. CASE UpdateSpec(r)
      <3>1. Goto(r, "reread")
        BY <1>2, <2>5 DEF UpdateSpec
      <3> QED BY <1>0, <2>5, <3>1, GotoMoves DEF UpdateSpec, InProgress, Shape, RequestStates
    <2>6. CASE Reread(r)
      <3>1. Goto(r, "replace_status") \/ Goto(r, "final")
        BY <1>2, <2>6 DEF Reread
      <3> QED BY <1>0, <2>6, <3>1, GotoMoves DEF Reread, InProgress, Shape, RequestStates
    <2>7. CASE ReplaceStatus(r)
      <3>1. Goto(r, "final")
        BY <1>2, <2>7 DEF ReplaceStatus, StatusConflict
      <3> QED BY <1>0, <2>7, <3>1, GotoMoves DEF ReplaceStatus, InProgress, Shape, RequestStates
    <2>8. CASE Recheck(r)
      <3>1. Goto(r, "update_status")
        BY <1>2, <2>8 DEF Recheck
      <3> QED BY <1>0, <2>8, <3>1, GotoMoves DEF Recheck, InProgress, Shape, RequestStates
    <2>9. CASE UpdateStatus(r)
      <3>1. Goto(r, "final")
        BY <1>2, <2>9 DEF UpdateStatus, StatusConflict
      <3> QED BY <1>0, <2>9, <3>1, GotoMoves DEF UpdateStatus, InProgress, Shape, RequestStates
    <2>10. CASE Bury(r)
      <3>1. Goto(r, "remove")
        BY <1>2, <2>10 DEF Bury
      <3> QED BY <1>0, <2>10, <3>1, GotoMoves DEF Bury, InProgress, Shape, RequestStates
    <2>11. CASE Final(r) \/ Remove(r) \/ Fail(r)
      BY <1>2, <2>11 DEF Final, Remove, Fail
    <2> QED
      BY <2>1, <2>2, <2>3, <2>4, <2>5, <2>6, <2>7, <2>8, <2>9, <2>10, <2>11 DEF Step
  <1> QED BY <1>1, <1>2

(* The status that a request sends, when it is about to write it.           *)
LEMMA BodyType ==
  ASSUME TypeInv, NEW r \in Requests
  PROVE  /\ req[r].pc = "replace_status" => req[r].body \in Statuses
         /\ req[r].body \in Partials
         /\ req[r].pc \in {"update_spec", "replace_status", "update_status"}
              => HashSent(r) \in Hashes
  <1>1. req[r] \in RequestStates /\ Shape(req[r])
    BY DEF TypeInv, TypeOK, Shapes
  <1>2. req[r].pc = "replace_status" => req[r].body \in Statuses
    BY <1>1, SpecIsStatus DEF Shape
  <1>3. ASSUME req[r].pc \in {"update_spec", "replace_status", "update_status"},
               req[r].op # "create"
        PROVE  req[r].seen \in Docs
    BY <1>1, <1>3 DEF Shape
  <1>4. req[r].pc \in {"update_spec", "replace_status", "update_status"}
          => HashSent(r) \in Hashes
    BY <1>3 DEF HashSent, Hashes, Docs
  <1> QED BY <1>1, <1>2, <1>4 DEF RequestStates

(* What update_spec does to the document and to the history.                *)
LEMMA UpdateSpecEffect ==
  ASSUME TypeInv, NEW r \in Requests, UpdateSpec(r)
  PROVE  \/ UNCHANGED <<entity, nextId, accepted>>
         \/ /\ entity' \in Docs
            /\ entity'.spec = req[r].spec
            /\ entity'.version = req[r].version + 1
            /\ req[r].version \in Nat /\ req[r].spec \in Specs
            /\ accepted' = accepted \cup {[by |-> r, id |-> entity'.id,
                                           base |-> req[r].version,
                                           version |-> entity'.version,
                                           spec |-> entity'.spec]}
            /\ \/ /\ entity \in Docs /\ entity.version = req[r].version
                  /\ entity'.id = entity.id /\ nextId' = nextId
                  /\ entity'.status = entity.status /\ entity'.hash = entity.hash
               \/ /\ entity = None /\ entity'.id = nextId /\ nextId' = nextId + 1
                  /\ entity'.status = EmptyStatus /\ entity'.hash = HashSent(r)
  <1>1. /\ req[r] \in RequestStates /\ Shape(req[r]) /\ req[r].pc = "update_spec"
        /\ entity # None => entity \in Docs
        /\ nextId \in Nat
    BY DEF TypeInv, TypeOK, Shapes, UpdateSpec
  <1>2. /\ req[r].version \in Nat /\ req[r].spec \in Specs
        /\ Inc(req[r].version) = req[r].version + 1
    BY <1>1, NoneAssumption DEF Shape, Inc
  <1>3. CASE SpecMatches(r) /\ entity' = [entity EXCEPT !.version = Inc(@), !.spec = req[r].spec]
             /\ Accept(r) /\ UNCHANGED nextId
    <2>1. entity \in Docs /\ entity.version = req[r].version
      BY <1>1, <1>3 DEF SpecMatches
    <2>2. entity' = [entity EXCEPT !.version = req[r].version + 1, !.spec = req[r].spec]
      BY <1>2, <1>3, <2>1
    <2>3. /\ entity' \in Docs
          /\ entity'.spec = req[r].spec /\ entity'.version = req[r].version + 1
          /\ entity'.id = entity.id
          /\ entity'.status = entity.status /\ entity'.hash = entity.hash
      <3>1. req[r].version + 1 \in Nat
        BY <1>2
      <3> DEFINE v == req[r].version + 1
                 s == req[r].spec
      <3>2. v \in Nat /\ s \in Specs /\ entity' = [entity EXCEPT !.version = v, !.spec = s]
        BY <1>2, <2>2, <3>1
      <3> HIDE DEF v, s
      <3>3. /\ entity' \in Docs /\ entity'.version = v /\ entity'.spec = s
            /\ entity'.id = entity.id
            /\ entity'.status = entity.status /\ entity'.hash = entity.hash
        BY <2>1, <3>2 DEF Docs
      <3> QED BY <3>3 DEF v, s
    <2> QED BY <1>2, <1>3, <2>1, <2>3 DEF Accept
  <1>4. CASE /\ entity = None
             /\ entity' = [id |-> nextId, version |-> Inc(req[r].version), spec |-> req[r].spec,
                           status |-> EmptyStatus, hash |-> HashSent(r)]
             /\ nextId' = nextId + 1 /\ Accept(r)
    <2>1. HashSent(r) \in Hashes /\ EmptyStatus \in Statuses
      BY <1>1, BodyType, EmptyIsStatus
    <2>2. entity' \in Docs
      BY <1>1, <1>2, <1>4, <2>1 DEF Docs
    <2> QED BY <1>2, <1>4, <2>2 DEF Accept
  <1> QED BY <1>3, <1>4 DEF UpdateSpec

(* The status operations keep the spec and its version, or insert a         *)
(* document without them.                                                   *)
LEMMA StatusEffect ==
  ASSUME TypeInv, NEW r \in Requests, ReplaceStatus(r) \/ UpdateStatus(r)
  PROVE  /\ UNCHANGED accepted
         /\ \/ UNCHANGED <<entity, nextId>>
            \/ /\ entity \in Docs /\ entity' \in Docs /\ nextId' = nextId
               /\ entity'.id = entity.id /\ entity'.version = entity.version
               /\ entity'.spec = entity.spec
            \/ /\ entity = None /\ entity' \in Docs /\ nextId' = nextId + 1
               /\ entity'.id = nextId /\ entity'.version = None /\ entity'.spec = None
  <1>1. /\ req[r].body \in Partials /\ Statuses \subseteq Partials /\ EmptyStatus \in Statuses
        /\ entity # None => entity \in Docs
        /\ nextId \in Nat
    BY BodyType, StatusIsPartial, EmptyIsStatus DEF TypeInv, TypeOK
  <1>2. UNCHANGED accepted
    BY DEF ReplaceStatus, UpdateStatus
  <1>3. ASSUME NEW s \in Statuses, NEW h \in Hashes,
               \/ entity # None /\ entity' = [entity EXCEPT !.status = s, !.hash = h]
                  /\ UNCHANGED nextId
               \/ InsertStatus(s, h)
        PROVE  \/ /\ entity \in Docs /\ entity' \in Docs /\ nextId' = nextId
                  /\ entity'.id = entity.id /\ entity'.version = entity.version
                  /\ entity'.spec = entity.spec
               \/ /\ entity = None /\ entity' \in Docs /\ nextId' = nextId + 1
                  /\ entity'.id = nextId /\ entity'.version = None /\ entity'.spec = None
    <2>1. CASE entity # None /\ entity' = [entity EXCEPT !.status = s, !.hash = h]
               /\ UNCHANGED nextId
      <3>1. entity \in Docs
        BY <1>1, <2>1
      <3> QED BY <2>1, <3>1 DEF Docs
    <2>2. CASE InsertStatus(s, h)
      BY <1>1, <2>2 DEF InsertStatus, Docs
    <2> QED BY <1>3, <2>1, <2>2
  <1>4. CASE UNCHANGED <<entity, nextId>>
    BY <1>2, <1>4
  <1>5. CASE ReplaceStatus(r) /\ ~ UNCHANGED <<entity, nextId>>
    <2>1. req[r].body \in Statuses /\ req[r].body \in Hashes
      BY <1>1, <1>5, BodyType DEF ReplaceStatus, Hashes
    <2>2. \/ entity # None /\ entity' = [entity EXCEPT !.status = req[r].body, !.hash = req[r].body]
             /\ UNCHANGED nextId
          \/ InsertStatus(req[r].body, req[r].body)
      BY <1>5 DEF ReplaceStatus, StatusMatches, StatusConflict
    <2> QED BY <1>2, <1>3, <2>1, <2>2
  <1>6. CASE UpdateStatus(r) /\ ~ UNCHANGED <<entity, nextId>>
    <2>1. \/ /\ entity # None
             /\ entity' = [entity EXCEPT !.status = Merge(@, req[r].body),
                                         !.hash = HashAfter(req[r].body, @)]
             /\ UNCHANGED nextId
          \/ InsertStatus(Merge(EmptyStatus, req[r].body), HashAfter(req[r].body, HashSent(r)))
      BY <1>6 DEF UpdateStatus, StatusMatches, StatusConflict
    <2>2. CASE /\ entity # None /\ UNCHANGED nextId
               /\ entity' = [entity EXCEPT !.status = Merge(@, req[r].body),
                                           !.hash = HashAfter(req[r].body, @)]
      <3>1. entity \in Docs /\ entity.status \in Statuses /\ entity.hash \in Hashes
        BY <1>1, <2>2 DEF Docs
      <3>2. /\ Merge(entity.status, req[r].body) \in Statuses
            /\ HashAfter(req[r].body, entity.hash) \in Hashes
        BY <1>1, <3>1, MergeType, HashAfterType
      <3>3. entity' = [entity EXCEPT !.status = Merge(entity.status, req[r].body),
                                     !.hash = HashAfter(req[r].body, entity.hash)]
        BY <2>2, <3>1
      <3> QED BY <1>2, <1>3, <2>2, <3>2, <3>3
    <2>3. CASE InsertStatus(Merge(EmptyStatus, req[r].body), HashAfter(req[r].body, HashSent(r)))
      <3>1. HashSent(r) \in Hashes
        BY <1>6, BodyType DEF UpdateStatus
      <3>2. /\ Merge(EmptyStatus, req[r].body) \in Statuses
            /\ HashAfter(req[r].body, HashSent(r)) \in Hashes
        BY <1>1, <3>1, MergeType, HashAfterType
      <3> QED BY <1>2, <1>3, <2>3, <3>2
    <2> QED BY <2>1, <2>2, <2>3
  <1> QED BY <1>4, <1>5, <1>6

(* The other steps leave the document and the history alone, but for the    *)
(* removal.                                                                 *)
LEMMA OtherEffect ==
  ASSUME NEW r \in Requests,
         Start(r) \/ Fail(r) \/ (Step(r) /\ ~ (UpdateSpec(r) \/ ReplaceStatus(r) \/ UpdateStatus(r)))
  PROVE  /\ UNCHANGED <<nextId, accepted>>
         /\ Remove(r) \/ UNCHANGED entity
         /\ Bury(r) \/ UNCHANGED graveyard
  BY DEF Start, StartCreate, StartUpdate, StartDelete, StartReplaceStatus, StartUpdateStatus,
         Fail, Step, CheckExisting, GetHighest, CheckGraveyard, GetEntity, Reread, Recheck,
         Final, Bury, Remove

LEMMA NextMoves ==
  ASSUME TypeInv, NEW r \in Requests, Start(r) \/ Step(r) \/ Fail(r)
  PROVE  Moves(r) /\ graveyard \subseteq graveyard'
  <1>1. CASE Start(r)
    BY <1>1, StartMoves, OtherEffect DEF Bury, Start, StartCreate, StartUpdate, StartDelete,
       StartReplaceStatus, StartUpdateStatus
  <1>2. CASE Step(r) \/ Fail(r)
    BY <1>2, StepMoves, StepBuries
  <1> QED BY <1>1, <1>2

LEMMA NewEntityType ==
  ASSUME NEW s \in Specs
  PROVE  NewEntity(s) \in Docs
  <1>1. s \in Statuses /\ s \in Hashes
    BY SpecIsStatus, StatusIsPartial DEF Hashes
  <1> QED BY <1>1 DEF NewEntity, Docs

LEMMA InitTypeInv == Init => TypeInv
  <1> SUFFICES ASSUME Init PROVE TypeInv
    OBVIOUS
  <1>1. \A r \in Requests : Idle("idle") \in RequestStates /\ req[r] = Idle("idle")
    BY IdleType DEF Init, Ended
  <1>2. Shapes
    <2> SUFFICES ASSUME NEW r \in Requests PROVE Shape(req[r])
      BY DEF Shapes
    <2>1. req[r].op = None /\ req[r].pc = "idle"
      BY <1>1 DEF Idle
    <2> QED BY <2>1, NoneAssumption DEF Shape, AllOps
  <1>3. req \in [Requests -> RequestStates]
    BY <1>1 DEF Init
  <1>4. CASE entity = None /\ nextId = 0 /\ accepted = {}
    BY <1>2, <1>3, <1>4 DEF Init, TypeInv, TypeOK
  <1>5. ASSUME NEW s \in Specs, entity = NewEntity(s), nextId = 1,
               accepted = {[by |-> None, id |-> 0, base |-> 0, version |-> 1, spec |-> s]}
        PROVE  TypeInv
    <2>1. entity \in Docs
      BY <1>5, NewEntityType
    <2>2. accepted \subseteq Acceptances
      BY <1>5 DEF Acceptances
    <2> QED BY <1>2, <1>3, <1>5, <2>1, <2>2 DEF Init, TypeInv, TypeOK
  <1> QED BY <1>4, <1>5 DEF Init

LEMMA StepTypeInv == TypeInv /\ [Next]_vars => TypeInv'
  <1> SUFFICES ASSUME TypeInv, [Next]_vars PROVE TypeInv'
    OBVIOUS
  <1>1. ASSUME NEW r \in Requests, Start(r) \/ Step(r) \/ Fail(r)
        PROVE  TypeInv'
    <2>1. Moves(r) /\ graveyard \subseteq graveyard'
      BY <1>1, NextMoves
    <2>2. Shapes'
      BY <2>1, ShapesStep DEF Moves, TypeInv
    <2>3. graveyard' \subseteq Graves
      <3>1. CASE Bury(r)
        <4>1. req[r].seen \in Docs
          BY <3>1 DEF Bury, TypeInv, Shapes, Shape
        <4>2. Grave(req[r].seen) \in Graves
          BY <4>1, NoneAssumption DEF Docs, Graves, Grave, Inc
        <4> QED BY <3>1, <4>2 DEF Bury, TypeInv, TypeOK
      <3>2. CASE ~ Bury(r)
        BY <1>1, <3>2, OtherEffect DEF UpdateSpec, ReplaceStatus, UpdateStatus, TypeInv, TypeOK
      <3> QED BY <3>1, <3>2
    <2>4. entity' \in Docs \cup {None} /\ nextId' \in Nat /\ accepted' \subseteq Acceptances
      <3>0. entity \in Docs \cup {None} /\ nextId \in Nat /\ accepted \subseteq Acceptances
        BY DEF TypeInv, TypeOK
      <3>1. CASE UpdateSpec(r)
        <4>1. CASE UNCHANGED <<entity, nextId, accepted>>
          BY <3>0, <4>1
        <4>2. CASE ~ UNCHANGED <<entity, nextId, accepted>>
          <5>1. /\ entity' \in Docs /\ entity'.version = req[r].version + 1
                /\ entity'.spec = req[r].spec
                /\ req[r].version \in Nat /\ req[r].spec \in Specs
                /\ accepted' = accepted \cup {[by |-> r, id |-> entity'.id,
                                               base |-> req[r].version,
                                               version |-> entity'.version,
                                               spec |-> entity'.spec]}
                /\ nextId' \in {nextId, nextId + 1}
            BY <3>1, <4>2, UpdateSpecEffect
          <5>2. entity'.id \in Nat /\ entity'.version \in Nat
            BY <5>1 DEF Docs
          <5> QED BY <3>0, <5>1, <5>2 DEF Acceptances
        <4> QED BY <4>1, <4>2
      <3>2. CASE ReplaceStatus(r) \/ UpdateStatus(r)
        BY <3>0, <3>2, StatusEffect
      <3>3. CASE ~ (UpdateSpec(r) \/ ReplaceStatus(r) \/ UpdateStatus(r))
        BY <1>1, <3>0, <3>3, OtherEffect DEF Remove
      <3> QED BY <3>1, <3>2, <3>3
    <2> QED BY <2>1, <2>2, <2>3, <2>4 DEF Moves, TypeInv, TypeOK
  <1>2. CASE UNCHANGED vars
    BY <1>2 DEF vars, TypeInv, TypeOK, Shapes, Shape
  <1> QED BY <1>1, <1>2 DEF Next

LEMMA TypeInvHolds == Spec => []TypeInv
  BY InitTypeInv, StepTypeInv, PTL DEF Spec

(* Every variable keeps its type, whatever requests run together and        *)
(* wherever they fail.                                                      *)
THEOREM TypeCorrect == Spec => []TypeOK
  BY TypeInvHolds, PTL DEF TypeInv

------------------------------------------------------------------------------
(* The history of specs *)

(* A request sees what is live when it looks, if it looks.                  *)
LEMMA SeenStep ==
  ASSUME TypeInv, NEW r \in Requests, Start(r) \/ Step(r) \/ Fail(r)
  PROVE  req'[r].seen \in {None, entity, req[r].seen}
  <1>1. req \in [Requests -> RequestStates] /\ req[r] \in RequestStates
    BY DEF TypeInv, TypeOK
  <1>2. ASSUME NEW how, End(r, how) PROVE req'[r].seen = None
    BY <1>1, <1>2 DEF End, Idle
  <1>3. ASSUME NEW pc, Goto(r, pc) PROVE req'[r].seen = req[r].seen
    BY <1>1, <1>3 DEF Goto, RequestStates
  <1>4. ASSUME NEW pc, See(r, pc) PROVE req'[r].seen = entity
    BY <1>1, <1>4 DEF See, RequestStates
  <1>5. CASE Start(r)
    BY <1>1, <1>5 DEF Start, StartCreate, StartUpdate, StartDelete, StartReplaceStatus,
       StartUpdateStatus, RequestStates
  <1>6. CASE GetHighest(r)
    BY <1>1, <1>6 DEF GetHighest, RequestStates
  <1>7. CASE \/ CheckExisting(r) \/ CheckGraveyard(r) \/ GetEntity(r) \/ UpdateSpec(r)
             \/ Reread(r) \/ ReplaceStatus(r) \/ Recheck(r) \/ UpdateStatus(r) \/ Final(r)
             \/ Bury(r) \/ Remove(r) \/ Fail(r)
    <2>1. (\E how : End(r, how)) \/ (\E pc : Goto(r, pc)) \/ (\E pc : See(r, pc))
      BY <1>7 DEF CheckExisting, CheckGraveyard, GetEntity, UpdateSpec, Reread, ReplaceStatus,
         StatusConflict, Recheck, UpdateStatus, Final, Bury, Remove, Fail
    <2> QED BY <1>2, <1>3, <1>4, <2>1
  <1> QED BY <1>5, <1>6, <1>7 DEF Step

(* _ids are given in order, whatever writes the document.                   *)
LEMMA EntityStep ==
  ASSUME TypeInv, NEW r \in Requests, Start(r) \/ Step(r) \/ Fail(r)
  PROVE  /\ nextId \in Nat
         /\ \/ entity' = None /\ nextId' = nextId
            \/ /\ entity # None /\ entity' # None
               /\ entity'.id = entity.id /\ nextId' = nextId
            \/ /\ entity = None /\ entity' # None
               /\ entity'.id = nextId /\ nextId' = nextId + 1
  <1>1. nextId \in Nat /\ None \notin Docs
    BY NoneAssumption DEF TypeInv, TypeOK
  <1>2. CASE UpdateSpec(r)
    BY <1>1, <1>2, UpdateSpecEffect
  <1>3. CASE ReplaceStatus(r) \/ UpdateStatus(r)
    BY <1>1, <1>3, StatusEffect
  <1>4. CASE ~ (UpdateSpec(r) \/ ReplaceStatus(r) \/ UpdateStatus(r))
    BY <1>1, <1>4, OtherEffect DEF Remove
  <1> QED BY <1>2, <1>3, <1>4

LEMMA IdsStep ==
  ASSUME TypeInv, IdsAreFresh, NEW r \in Requests, Start(r) \/ Step(r) \/ Fail(r)
  PROVE  IdsAreFresh'
  <1>0. /\ \A a \in accepted : a.id \in Nat
        /\ \A s \in Requests : req[s].seen # None => req[s].seen.id \in Nat
        /\ entity # None => entity.id \in Nat
    BY DEF TypeInv, TypeOK, Acceptances, RequestStates, Docs
  <1>1. /\ nextId \in Nat /\ nextId' \in {nextId, nextId + 1}
        /\ entity' # None => entity'.id < nextId'
    BY <1>0, EntityStep DEF IdsAreFresh
  <1>2. ASSUME NEW a \in accepted' PROVE a.id < nextId'
    <2>1. CASE a \in accepted
      BY <1>0, <1>1, <2>1 DEF IdsAreFresh
    <2>2. CASE a \notin accepted
      <3>1. UpdateSpec(r)
        BY <2>2, OtherEffect, StatusEffect
      <3>2. a.id = entity'.id /\ entity' # None
        BY <2>2, <3>1, UpdateSpecEffect, NoneAssumption
      <3> QED BY <1>1, <3>2
    <2> QED BY <2>1, <2>2
  <1>3. ASSUME NEW s \in Requests, req'[s].seen # None PROVE req'[s].seen.id < nextId'
    <2>1. req'[s].seen = req[s].seen \/ req'[s].seen = entity
      BY <1>3, NextMoves, SeenStep DEF Moves
    <2> QED BY <1>0, <1>1, <1>3, <2>1 DEF IdsAreFresh
  <1> QED BY <1>1, <1>2, <1>3 DEF IdsAreFresh

LEMMA SpecVersionStep ==
  ASSUME TypeInv, IdsAreFresh, SpecHasVersion, NEW r \in Requests,
         Start(r) \/ Step(r) \/ Fail(r)
  PROVE  SpecHasVersion'
  <1>0. /\ None \notin Nat /\ None \notin Specs /\ None \notin Docs /\ nextId \in Nat
        /\ \A a \in accepted : a.id \in Nat
    BY NoneAssumption DEF TypeInv, TypeOK, Acceptances
  <1>1. CASE UpdateSpec(r)
    <2>1. CASE UNCHANGED <<entity, nextId, accepted>>
      BY <2>1 DEF SpecHasVersion
    <2>2. CASE ~ UNCHANGED <<entity, nextId, accepted>>
      <3>1. /\ entity'.version = req[r].version + 1 /\ entity'.spec = req[r].spec
            /\ req[r].version \in Nat /\ req[r].spec \in Specs
        BY <1>1, <2>2, UpdateSpecEffect
      <3>2. entity'.version \in Nat
        BY <3>1
      <3> QED BY <1>0, <3>1, <3>2 DEF SpecHasVersion
    <2> QED BY <2>1, <2>2
  <1>2. CASE ReplaceStatus(r) \/ UpdateStatus(r)
    <2>1. UNCHANGED accepted
      BY <1>2, StatusEffect
    <2>2. CASE UNCHANGED <<entity, nextId>>
      BY <2>1, <2>2 DEF SpecHasVersion
    <2>3. CASE /\ entity \in Docs
               /\ entity'.id = entity.id /\ entity'.version = entity.version
               /\ entity'.spec = entity.spec
      BY <1>0, <2>1, <2>3 DEF SpecHasVersion
    <2>4. CASE entity'.id = nextId /\ entity'.version = None /\ entity'.spec = None
      BY <1>0, <2>1, <2>4 DEF SpecHasVersion, IdsAreFresh
    <2> QED BY <1>2, <2>2, <2>3, <2>4, StatusEffect
  <1>3. CASE ~ (UpdateSpec(r) \/ ReplaceStatus(r) \/ UpdateStatus(r))
    BY <1>3, OtherEffect DEF Remove, SpecHasVersion
  <1> QED BY <1>1, <1>2, <1>3

LEMMA HistoryStutter ==
  ASSUME SpecHistory, UNCHANGED <<entity, accepted>>
  PROVE  SpecHistory'
  BY DEF SpecHistory

LEMMA HistoryStep ==
  ASSUME TypeInv, IdsAreFresh, SpecHasVersion, SpecHistory, NEW r \in Requests,
         Start(r) \/ Step(r) \/ Fail(r)
  PROVE  SpecHistory'
  <1>0. /\ None \notin Nat /\ None \notin Specs /\ None \notin Docs /\ nextId \in Nat
        /\ \A a \in accepted : a.id \in Nat /\ a.version \in Nat /\ a.id < nextId
        /\ entity # None => entity \in Docs
    BY NoneAssumption DEF TypeInv, TypeOK, Acceptances, IdsAreFresh
  <1>1. CASE UNCHANGED <<entity, accepted>>
    BY <1>1, HistoryStutter
  <1>2. CASE UpdateSpec(r) /\ ~ UNCHANGED <<entity, nextId, accepted>>
    <2> DEFINE new == [by |-> r, id |-> entity'.id, base |-> req[r].version,
                       version |-> entity'.version, spec |-> entity'.spec]
    <2>1. /\ entity' \in Docs
          /\ entity'.version = req[r].version + 1 /\ req[r].version \in Nat
          /\ accepted' = accepted \cup {new}
          /\ \/ entity \in Docs /\ entity.version = req[r].version /\ entity'.id = entity.id
             \/ entity = None /\ entity'.id = nextId
      BY <1>2, UpdateSpecEffect
    <2>2. \A a \in accepted : a.id = entity'.id => a.version <= req[r].version
      <3>1. CASE entity \in Docs /\ entity.version = req[r].version /\ entity'.id = entity.id
        BY <1>0, <3>1 DEF SpecHistory
      <3>2. CASE entity'.id = nextId
        BY <1>0, <3>2
      <3> QED BY <2>1, <3>1, <3>2
    <2>3. \A a \in accepted : a.id = entity'.id => a.version < entity'.version
      BY <1>0, <2>1, <2>2
    <2>4. \A a \in accepted' : a.version = Inc(a.base)
      BY <1>0, <2>1 DEF SpecHistory, Inc
    <2>5. \A a, b \in accepted' : a.id = b.id /\ a.version = b.version => a = b
      <3> SUFFICES ASSUME NEW a \in accepted', NEW b \in accepted',
                          a.id = b.id, a.version = b.version
                   PROVE  a = b
        OBVIOUS
      <3>1. new.id = entity'.id /\ new.version = entity'.version
        OBVIOUS
      <3>2. entity'.version \in Nat
        BY <2>1
      <3> HIDE DEF new
      <3>3. CASE a \in accepted /\ b \in accepted
        BY <3>3 DEF SpecHistory
      <3>4. CASE a = new /\ b = new
        BY <3>4
      <3>5. CASE a \in accepted /\ b = new
        BY <1>0, <2>3, <3>1, <3>2, <3>5
      <3>6. CASE a = new /\ b \in accepted
        BY <1>0, <2>3, <3>1, <3>2, <3>6
      <3> QED BY <2>1, <3>3, <3>4, <3>5, <3>6
    <2>6. \A a \in accepted' : a.id = entity'.id => a.version <= entity'.version
      BY <1>0, <2>1, <2>3
    <2>7. \E a \in accepted' : /\ a.id = entity'.id /\ a.version = entity'.version
                               /\ a.spec = entity'.spec
      <3>1. /\ new.id = entity'.id /\ new.version = entity'.version
            /\ new.spec = entity'.spec
        OBVIOUS
      <3>2. new \in accepted'
        BY <2>1
      <3> HIDE DEF new
      <3> QED BY <3>1, <3>2
    <2> QED BY <2>4, <2>5, <2>6, <2>7 DEF SpecHistory
  <1>3. CASE (ReplaceStatus(r) \/ UpdateStatus(r)) /\ entity' # entity
    <2>1. accepted' = accepted
      BY <1>3, StatusEffect
    <2>2. CASE /\ entity \in Docs
               /\ entity'.id = entity.id /\ entity'.version = entity.version
               /\ entity'.spec = entity.spec
      BY <1>0, <2>1, <2>2 DEF SpecHistory
    <2>3. CASE entity'.id = nextId /\ entity'.version = None /\ entity'.spec = None
      BY <1>0, <2>1, <2>3 DEF SpecHistory
    <2> QED BY <1>3, <2>2, <2>3, StatusEffect
  <1>4. CASE ~ (UpdateSpec(r) \/ ReplaceStatus(r) \/ UpdateStatus(r))
    BY <1>4, OtherEffect DEF Remove, SpecHistory
  <1> QED BY <1>1, <1>2, <1>3, <1>4, StatusEffect

LEMMA InitHistoryInv == Init => HistoryInv
  <1> SUFFICES ASSUME Init PROVE HistoryInv
    OBVIOUS
  <1>1. TypeInv
    BY InitTypeInv
  <1>2. \A r \in Requests : req[r].seen = None
    BY DEF Init, Idle
  <1>3. CASE entity = None /\ nextId = 0 /\ accepted = {}
    BY <1>1, <1>2, <1>3 DEF HistoryInv, IdsAreFresh, SpecHasVersion, SpecHistory
  <1>4. ASSUME NEW s \in Specs, entity = NewEntity(s), nextId = 1,
               accepted = {[by |-> None, id |-> 0, base |-> 0, version |-> 1, spec |-> s]}
        PROVE  HistoryInv
    <2>1. IdsAreFresh
      BY <1>2, <1>4 DEF NewEntity, IdsAreFresh
    <2>2. SpecHasVersion /\ SpecHistory
      BY <1>4, NoneAssumption DEF NewEntity, SpecHasVersion, SpecHistory, Inc
    <2> QED BY <1>1, <2>1, <2>2 DEF HistoryInv
  <1> QED BY <1>3, <1>4 DEF Init

LEMMA StepHistoryInv == HistoryInv /\ [Next]_vars => HistoryInv'
  <1> SUFFICES ASSUME HistoryInv, [Next]_vars PROVE HistoryInv'
    OBVIOUS
  <1>1. TypeInv'
    BY StepTypeInv DEF HistoryInv
  <1>2. ASSUME NEW r \in Requests, Start(r) \/ Step(r) \/ Fail(r)
        PROVE  IdsAreFresh' /\ SpecHasVersion' /\ SpecHistory'
    BY <1>2, IdsStep, SpecVersionStep, HistoryStep DEF HistoryInv
  <1>3. CASE UNCHANGED vars
    <2>1. UNCHANGED <<entity, nextId, req, accepted>>
      BY <1>3 DEF vars
    <2>2. IdsAreFresh'
      BY <2>1 DEF HistoryInv, IdsAreFresh
    <2>3. SpecHasVersion'
      BY <2>1 DEF HistoryInv, SpecHasVersion
    <2>4. SpecHistory'
      BY <2>1, HistoryStutter DEF HistoryInv
    <2> QED BY <1>1, <2>2, <2>3, <2>4 DEF HistoryInv
  <1> QED BY <1>1, <1>2, <1>3 DEF HistoryInv, Next

(* No spec update is lost: within one incarnation of the entity the         *)
(* accepted specs have distinct versions, each one more than the version    *)
(* its sender named, and the live spec is the newest of them.               *)
THEOREM HistoryCorrect == Spec => []SpecHistory
  <1>1. Spec => []HistoryInv
    BY InitHistoryInv, StepHistoryInv, PTL DEF Spec
  <1> QED BY <1>1, PTL DEF HistoryInv

------------------------------------------------------------------------------
(* Burials *)

(* A request comes to "remove" only by a burial.                            *)
LEMMA ComesToRemove ==
  ASSUME TypeInv, NEW r \in Requests, Start(r) \/ Step(r) \/ Fail(r),
         req'[r].pc = "remove"
  PROVE  /\ Bury(r) /\ ~ Buried(req[r].seen.id)
         /\ graveyard' = graveyard \cup {Grave(req[r].seen)}
         /\ req'[r].seen = req[r].seen
         /\ req[r].seen \in Docs
  <1>1. req \in [Requests -> RequestStates] /\ req[r] \in RequestStates
    BY DEF TypeInv, TypeOK
  <1>2. ASSUME NEW how \in Ended PROVE ~ End(r, how)
    BY <1>1, <1>2 DEF End, Idle, Ended
  <1>3. ASSUME NEW pc, Goto(r, pc) PROVE pc = "remove" /\ req'[r].seen = req[r].seen
    BY <1>1, <1>3 DEF Goto, RequestStates
  <1>4. ASSUME NEW pc, See(r, pc) PROVE pc = "remove"
    BY <1>1, <1>4 DEF See, RequestStates
  <1>5. {"ok", "conflict", "failed", "crashed"} \subseteq Ended
    BY DEF Ended
  <1>6. ~ Start(r)
    BY <1>1 DEF Start, StartCreate, StartUpdate, StartDelete, StartReplaceStatus,
       StartUpdateStatus, RequestStates
  <1>7. ~ GetHighest(r)
    BY <1>1 DEF GetHighest, RequestStates
  <1>8. ~ (CheckExisting(r) \/ CheckGraveyard(r) \/ GetEntity(r) \/ UpdateSpec(r) \/ Reread(r)
           \/ ReplaceStatus(r) \/ Recheck(r) \/ UpdateStatus(r) \/ Final(r) \/ Remove(r) \/ Fail(r))
    BY <1>2, <1>3, <1>4, <1>5 DEF CheckExisting, CheckGraveyard, GetEntity, UpdateSpec, Reread,
       ReplaceStatus, StatusConflict, Recheck, UpdateStatus, Final, Remove, Fail
  <1>9. Bury(r)
    BY <1>6, <1>7, <1>8 DEF Step
  <1>10. /\ ~ Buried(req[r].seen.id) /\ Goto(r, "remove")
         /\ graveyard' = graveyard \cup {Grave(req[r].seen)}
    BY <1>2, <1>5, <1>9 DEF Bury
  <1>11. req[r].seen \in Docs
    BY <1>9 DEF Bury, TypeInv, Shapes, Shape
  <1> QED BY <1>3, <1>9, <1>10, <1>11

LEMMA GoneByRemove ==
  ASSUME TypeInv, NEW r \in Requests, Start(r) \/ Step(r) \/ Fail(r),
         entity # None, entity' = None
  PROVE  Remove(r) /\ req[r].pc = "remove"
  <1>1. None \notin Docs
    BY NoneAssumption
  <1>2. ~ UpdateSpec(r)
    BY <1>1, UpdateSpecEffect
  <1>3. ~ (ReplaceStatus(r) \/ UpdateStatus(r))
    BY <1>1, StatusEffect
  <1>4. Remove(r)
    BY <1>2, <1>3, OtherEffect
  <1> QED BY <1>4 DEF Remove

LEMMA BuriedStays ==
  ASSUME NEW id, Buried(id), graveyard \subseteq graveyard'
  PROVE  Buried(id)'
  BY DEF Buried

LEMMA BelowBound ==
  ASSUME NEW n \in Nat, NEW i \in 0 .. n - 1
  PROVE  i \in Nat /\ i < n
  OBVIOUS

LEMMA BuriedBeforeGoneStep ==
  ASSUME BurialInv, NEW r \in Requests, Start(r) \/ Step(r) \/ Fail(r)
  PROVE  BuriedBeforeGone'
  <1> USE DEF BurialInv
  <1>1. graveyard \subseteq graveyard'
    BY NextMoves
  <1>2. nextId \in Nat /\ nextId' \in {nextId, nextId + 1}
    BY EntityStep
  <1> SUFFICES ASSUME NEW id, id \in 0 .. nextId' - 1,
                      entity' = None \/ entity'.id # id
               PROVE  Buried(id)'
    BY DEF BuriedBeforeGone
  <1>3. CASE entity # None /\ entity' = None
    <2>1. Buried(entity.id)
      BY <1>3, GoneByRemove DEF RemovesItsBurial
    <2>2. id \in 0 .. nextId - 1
      BY <1>2, <1>3, EntityStep
    <2>3. Buried(id)
      BY <2>1, <2>2 DEF BuriedBeforeGone
    <2> QED BY <1>1, <2>3, BuriedStays
  <1>4. CASE ~ (entity # None /\ entity' = None)
    <2>1. id \in 0 .. nextId - 1 /\ (entity = None \/ entity.id # id)
      <3>1. id \in Nat /\ id < nextId'
        <4> DEFINE n == nextId'
        <4>1. n \in Nat
          BY <1>2
        <4>2. id \in 0 .. n - 1
          OBVIOUS
        <4> HIDE DEF n
        <4>3. id \in Nat /\ id < n
          BY <4>1, <4>2, BelowBound
        <4> QED BY <4>3 DEF n
      <3>2. CASE entity' = None
        <4>1. entity = None /\ nextId' = nextId
          BY <1>4, <3>2, EntityStep
        <4> QED BY <1>2, <3>1, <4>1
      <3>3. CASE entity # None /\ entity' # None
        <4>1. entity'.id = entity.id /\ nextId' = nextId
          BY <3>3, EntityStep
        <4> QED BY <1>2, <3>1, <3>3, <4>1
      <3>4. CASE entity = None /\ entity' # None
        <4>1. entity'.id = nextId /\ nextId' = nextId + 1
          BY <3>4, EntityStep
        <4> QED BY <1>2, <3>1, <3>4, <4>1
      <3> QED BY <3>2, <3>3, <3>4
    <2>2. Buried(id)
      BY <2>1 DEF BuriedBeforeGone
    <2> QED BY <1>1, <2>2, BuriedStays
  <1> QED BY <1>3, <1>4

(* What is not buried yet is live: the entity that a request buries is the  *)
(* live one, and no other request is about to remove it.                    *)
LEMMA BuryTarget ==
  ASSUME BurialInv, NEW r \in Requests, req[r].seen \in Docs, ~ Buried(req[r].seen.id)
  PROVE  entity # None /\ entity.id = req[r].seen.id
  <1>1. req[r].seen # None /\ req[r].seen.id \in Nat /\ nextId \in Nat
    BY NoneAssumption DEF Docs, BurialInv, TypeInv, TypeOK
  <1>2. req[r].seen.id \in 0 .. nextId - 1
    BY <1>1 DEF BurialInv, IdsAreFresh
  <1> QED BY <1>2 DEF BurialInv, BuriedBeforeGone

LEMMA RemovesItsBurialStep ==
  ASSUME BurialInv, NEW r \in Requests, Start(r) \/ Step(r) \/ Fail(r)
  PROVE  RemovesItsBurial'
  <1> USE DEF BurialInv
  <1>1. /\ graveyard \subseteq graveyard'
        /\ \A s \in Requests \ {r} : req'[s] = req[s]
    BY NextMoves DEF Moves
  <1> SUFFICES ASSUME NEW s \in Requests, req'[s].pc = "remove"
               PROVE  /\ entity' # None
                      /\ entity'.id = req'[s].seen.id
                      /\ Buried(entity.id)'
                      /\ \A t \in Requests : req'[t].pc = "remove" => t = s
    BY DEF RemovesItsBurial
  <1>2. CASE s = r
    <2>1. /\ Bury(r) /\ ~ Buried(req[r].seen.id)
          /\ graveyard' = graveyard \cup {Grave(req[r].seen)}
          /\ req'[r].seen = req[r].seen
          /\ req[r].seen \in Docs
      BY <1>2, ComesToRemove
    <2>2. entity # None /\ entity.id = req[r].seen.id
      BY <2>1, BuryTarget
    <2>3. entity' = entity
      BY <2>1 DEF Bury
    <2>4. Grave(req[r].seen) \in graveyard' /\ Grave(req[r].seen).id = req[r].seen.id
      BY <2>1 DEF Grave
    <2>5. Buried(entity.id)'
      BY <2>2, <2>3, <2>4 DEF Buried
    <2>6. \A t \in Requests : req'[t].pc = "remove" => t = s
      BY <1>1, <1>2, <2>1, <2>2 DEF RemovesItsBurial
    <2> QED BY <1>2, <2>1, <2>2, <2>3, <2>5, <2>6
  <1>3. CASE s # r
    <2>1. req'[s] = req[s] /\ req[s].pc = "remove"
      BY <1>1, <1>3
    <2>2. /\ entity # None /\ entity.id = req[s].seen.id /\ Buried(entity.id)
          /\ \A t \in Requests : req[t].pc = "remove" => t = s
      BY <2>1 DEF RemovesItsBurial
    <2>3. entity' # None
      BY <1>3, <2>2, GoneByRemove
    <2>4. entity'.id = entity.id
      BY <2>2, <2>3, EntityStep
    <2>5. Buried(entity.id)'
      BY <1>1, <2>2, <2>4, BuriedStays DEF Buried
    <2>6. req'[r].pc # "remove"
      <3> SUFFICES ASSUME req'[r].pc = "remove" PROVE FALSE
        OBVIOUS
      <3>1. ~ Buried(req[r].seen.id) /\ req[r].seen \in Docs
        BY ComesToRemove
      <3>2. entity.id = req[r].seen.id
        BY <3>1, BuryTarget
      <3> QED BY <2>2, <3>1, <3>2
    <2>7. \A t \in Requests : req'[t].pc = "remove" => t = s
      BY <1>1, <2>2, <2>6
    <2> QED BY <2>1, <2>2, <2>3, <2>4, <2>5, <2>7
  <1> QED BY <1>2, <1>3

LEMMA InitBurialInv == Init => BurialInv
  <1> SUFFICES ASSUME Init PROVE BurialInv
    OBVIOUS
  <1>1. TypeInv /\ IdsAreFresh
    BY InitHistoryInv DEF HistoryInv
  <1>2. RemovesItsBurial
    BY DEF Init, Idle, RemovesItsBurial
  <1>3. BuriedBeforeGone
    <2>1. CASE entity = None /\ nextId = 0
      BY <2>1 DEF BuriedBeforeGone
    <2>2. CASE nextId = 1 /\ \E s \in Specs : entity = NewEntity(s)
      <3>1. entity.id = 0
        BY <2>2 DEF NewEntity
      <3>2. entity # None
        BY <2>2, NewEntityType, NoneAssumption
      <3> QED BY <2>2, <3>1, <3>2 DEF BuriedBeforeGone
    <2> QED BY <2>1, <2>2 DEF Init
  <1> QED BY <1>1, <1>2, <1>3 DEF BurialInv

LEMMA StepBurialInv == BurialInv /\ [Next]_vars => BurialInv'
  <1> SUFFICES ASSUME BurialInv, [Next]_vars PROVE BurialInv'
    OBVIOUS
  <1>1. TypeInv'
    BY StepTypeInv DEF BurialInv
  <1>2. ASSUME NEW r \in Requests, Start(r) \/ Step(r) \/ Fail(r)
        PROVE  IdsAreFresh' /\ BuriedBeforeGone' /\ RemovesItsBurial'
    BY <1>2, IdsStep, BuriedBeforeGoneStep, RemovesItsBurialStep DEF BurialInv
  <1>3. CASE UNCHANGED vars
    <2>1. UNCHANGED <<entity, graveyard, nextId, req, accepted>>
      BY <1>3 DEF vars
    <2>2. IdsAreFresh'
      BY <2>1 DEF BurialInv, IdsAreFresh
    <2>3. BuriedBeforeGone' /\ RemovesItsBurial'
      BY <2>1 DEF BurialInv, BuriedBeforeGone, RemovesItsBurial, Buried
    <2> QED BY <1>1, <2>2, <2>3 DEF BurialInv
  <1> QED BY <1>1, <1>2, <1>3 DEF BurialInv, Next

LEMMA BurialInvHolds == Spec => []BurialInv
  BY InitBurialInv, StepBurialInv, PTL DEF Spec

(* No incarnation of the entity disappears unburied, whatever deletions,    *)
(* recreations and failures run together.                                   *)
THEOREM BurialCorrect == Spec => []BuriedBeforeGone
  BY BurialInvHolds, PTL DEF BurialInv

------------------------------------------------------------------------------
(* Disposals that run to their ends *)

LEMMA OnlyBuryBuries ==
  ASSUME NEW r \in Requests, Start(r) \/ Step(r) \/ Fail(r), graveyard' # graveyard
  PROVE  Bury(r)
  BY DEF Start, StartCreate, StartUpdate, StartDelete, StartReplaceStatus,
     StartUpdateStatus, Step, CheckExisting, GetHighest, CheckGraveyard, GetEntity,
     UpdateSpec, Reread, ReplaceStatus, Recheck, UpdateStatus, Final, Remove, Fail

LEMMA RemoveIsNext ==
  ASSUME NEW r \in Requests, Start(r) \/ Step(r) \/ Fail(r),
         req[r].pc = "remove"
  PROVE  Remove(r) \/ Fail(r)
  BY DEF Start, Arrive, StartCreate, StartUpdate, StartDelete, StartReplaceStatus,
     StartUpdateStatus, Step, CheckExisting, GetHighest, CheckGraveyard, GetEntity,
     UpdateSpec, Reread, ReplaceStatus, Recheck, UpdateStatus, Final, Bury, Fail

LEMMA CrashedIsOver ==
  ASSUME NEW r \in Requests, Start(r) \/ Step(r) \/ Fail(r)
  PROVE  req[r].pc # "crashed"
  BY DEF Start, Arrive, StartCreate, StartUpdate, StartDelete, StartReplaceStatus,
     StartUpdateStatus, Step, CheckExisting, GetHighest, CheckGraveyard, GetEntity,
     UpdateSpec, Reread, ReplaceStatus, Recheck, UpdateStatus, Final, Bury, Remove, Fail,
     InProgress

LEMMA GravesStep ==
  ASSUME DisposalInv, NEW r \in Requests, Start(r) \/ Step(r) \/ Fail(r)
  PROVE  GravesAreOld'
  <1> USE DEF DisposalInv, BurialInv
  <1>1. nextId \in Nat /\ nextId' \in {nextId, nextId + 1}
    BY EntityStep
  <1>2. \A g \in graveyard : g.id \in Nat /\ g.id < nextId
    BY DEF GravesAreOld, TypeInv, TypeOK, Graves
  <1>3. graveyard' = graveyard \/ \E d \in Docs : /\ d.id < nextId
                                                  /\ graveyard' = graveyard \cup {Grave(d)}
    <2>1. CASE graveyard' = graveyard
      BY <2>1
    <2>2. CASE graveyard' # graveyard
      <3>1. Bury(r)
        BY <2>2, OnlyBuryBuries
      <3>2. req[r].seen \in Docs /\ req[r].seen # None
        BY <3>1, NoneAssumption DEF Bury, TypeInv, Shapes, Shape
      <3>3. req[r].seen.id < nextId
        BY <3>2 DEF IdsAreFresh
      <3>4. graveyard' = graveyard \cup {Grave(req[r].seen)}
        BY <2>2, <3>1 DEF Bury
      <3> QED BY <3>2, <3>3, <3>4
    <2> QED BY <2>1, <2>2
  <1>4. \A d \in Docs : Grave(d).id = d.id /\ d.id \in Nat
    BY DEF Grave, Docs
  <1>5. \A g \in graveyard' : g.id \in Nat /\ g.id < nextId
    BY <1>2, <1>3, <1>4
  <1> QED BY <1>1, <1>5 DEF GravesAreOld

(* A burial is followed by the removal, or its request was cut short.       *)
LEMMA BuriedIsRemovedStep ==
  ASSUME DisposalInv, NEW r \in Requests, Start(r) \/ Step(r) \/ Fail(r)
  PROVE  BuriedIsRemoved'
  <1> USE DEF DisposalInv, BurialInv
  <1> SUFFICES ASSUME entity' # None, Buried(entity.id)'
               PROVE  \E s \in Requests : req'[s].pc \in {"remove", "crashed"}
    BY DEF BuriedIsRemoved
  <1>1. /\ graveyard \subseteq graveyard'
        /\ \A s \in Requests \ {r} : req'[s] = req[s]
    BY NextMoves DEF Moves
  <1>2. CASE graveyard' # graveyard
    <2>1. Bury(r)
      BY <1>2, OnlyBuryBuries
    <2>2. Goto(r, "remove")
      BY <1>2, <2>1 DEF Bury
    <2>3. req'[r].pc = "remove"
      BY <2>2 DEF Goto, TypeInv, TypeOK, RequestStates
    <2> QED BY <2>3
  <1>3. CASE graveyard' = graveyard
    <2>1. PICK g \in graveyard : g.id = entity'.id
      BY <1>3 DEF Buried
    <2>2. entity # None
      <3>1. entity = None => entity'.id = nextId
        BY EntityStep
      <3>2. g.id # nextId
        BY <2>1 DEF GravesAreOld, TypeInv, TypeOK, Graves
      <3> QED BY <2>1, <3>1, <3>2
    <2>3. entity'.id = entity.id
      BY <2>2, EntityStep
    <2>4. PICK s \in Requests : req[s].pc \in {"remove", "crashed"}
      BY <2>1, <2>2, <2>3 DEF BuriedIsRemoved, Buried
    <2>5. CASE s # r
      BY <1>1, <2>4, <2>5
    <2>6. CASE s = r
      <3>1. Fail(r)
        BY <2>4, <2>6, CrashedIsOver, RemoveIsNext DEF Remove
      <3>2. req'[r].pc = "crashed"
        BY <3>1 DEF Fail, End, Idle, TypeInv, TypeOK
      <3> QED BY <3>2
    <2> QED BY <2>5, <2>6
  <1> QED BY <1>2, <1>3

LEMMA InitDisposalInv == Init => DisposalInv
  <1> SUFFICES ASSUME Init PROVE DisposalInv
    OBVIOUS
  <1>1. graveyard = {}
    BY DEF Init
  <1>2. GravesAreOld /\ BuriedIsRemoved
    BY <1>1 DEF GravesAreOld, BuriedIsRemoved, Buried
  <1> QED BY <1>2, InitBurialInv DEF DisposalInv

LEMMA StepDisposalInv == DisposalInv /\ [Next]_vars => DisposalInv'
  <1> SUFFICES ASSUME DisposalInv, [Next]_vars PROVE DisposalInv'
    OBVIOUS
  <1>1. BurialInv'
    BY StepBurialInv DEF DisposalInv
  <1>2. ASSUME NEW r \in Requests, Start(r) \/ Step(r) \/ Fail(r)
        PROVE  GravesAreOld' /\ BuriedIsRemoved'
    BY <1>2, GravesStep, BuriedIsRemovedStep
  <1>3. CASE UNCHANGED vars
    <2>1. UNCHANGED <<entity, graveyard, nextId, req>>
      BY <1>3 DEF vars
    <2>2. GravesAreOld' /\ BuriedIsRemoved'
      BY <2>1 DEF DisposalInv, GravesAreOld, BuriedIsRemoved, Buried
    <2> QED BY <1>1, <2>2 DEF DisposalInv
  <1> QED BY <1>1, <1>2, <1>3 DEF DisposalInv, Next

(* Once the requests are over, no entity is live and buried at once,        *)
(* provided that none of them was cut short between its two steps.          *)
THEOREM DisposalCorrect == Spec => []LiveIsNotBuried
  <1>1. DisposalInv /\ [Next]_vars => DisposalInv'
    BY StepDisposalInv
  <1>2. DisposalInv => LiveIsNotBuried
    BY DEF DisposalInv, BuriedIsRemoved, LiveIsNotBuried, Completed, Ended
  <1> QED BY <1>1, <1>2, InitDisposalInv, PTL DEF Spec

------------------------------------------------------------------------------
(* Entities without a spec *)

SpecGrave == \E g \in graveyard : g.spec # None

(* What requests have seen is followed by such a burial too, every burial   *)
(* is, and a request writes a status only when there has been an entity.    *)
SpeclessInv ==
  /\ BurialInv
  /\ SpeclessFollowsBurial
  /\ \A r \in Requests : req[r].seen # None /\ req[r].seen.spec = None => SpecGrave
  /\ graveyard # {} => SpecGrave
  /\ \A r \in Requests : req[r].pc \in {"replace_status", "update_status"} => nextId # 0

LEMMA SpecGraveStays ==
  ASSUME SpecGrave, graveyard \subseteq graveyard'
  PROVE  SpecGrave'
  BY DEF SpecGrave

(* Who comes to a status operation has just found the entity, and who sees  *)
(* an entity sees the live one.                                             *)
LEMMA FindsEntity ==
  ASSUME TypeInv, NEW r \in Requests, Start(r) \/ Step(r) \/ Fail(r)
  PROVE  /\ req'[r].seen \in {None, req[r].seen, entity}
         /\ req'[r].pc \in {"replace_status", "update_status"} =>
              entity # None /\ UNCHANGED entity
  <1>1. req \in [Requests -> RequestStates] /\ req[r] \in RequestStates
    BY DEF TypeInv, TypeOK
  <1>2. ASSUME NEW how \in Ended, End(r, how)
        PROVE  req'[r].seen = None /\ req'[r].pc \notin {"replace_status", "update_status"}
    BY <1>1, <1>2 DEF End, Idle, Ended
  <1>3. ASSUME NEW pc, Goto(r, pc) PROVE req'[r].pc = pc /\ req'[r].seen = req[r].seen
    BY <1>1, <1>3 DEF Goto, RequestStates
  <1>4. ASSUME NEW pc, See(r, pc) PROVE req'[r].pc = pc /\ req'[r].seen = entity
    BY <1>1, <1>4 DEF See, RequestStates
  <1>5. {"ok", "conflict", "failed", "crashed"} \subseteq Ended
    BY DEF Ended
  <1>6. CASE StartCreate(r) \/ StartUpdate(r)
    BY <1>1, <1>6 DEF StartCreate, StartUpdate
  <1>7. CASE StartDelete(r)
    BY <1>1, <1>7 DEF StartDelete, Arrive, RequestStates
  <1>8. CASE StartReplaceStatus(r) \/ StartUpdateStatus(r)
    BY <1>1, <1>8 DEF StartReplaceStatus, StartUpdateStatus
  <1>9. CASE GetHighest(r)
    BY <1>1, <1>9 DEF GetHighest, RequestStates
  <1>10. CASE GetEntity(r)
    BY <1>2, <1>4, <1>5, <1>10 DEF GetEntity
  <1>11. CASE Reread(r) \/ Recheck(r)
    BY <1>2, <1>3, <1>5, <1>11 DEF Reread, Recheck
  <1>12. CASE CheckExisting(r) \/ CheckGraveyard(r)
    BY <1>2, <1>3, <1>5, <1>12 DEF CheckExisting, CheckGraveyard
  <1>13. CASE UpdateSpec(r)
    BY <1>2, <1>3, <1>5, <1>13 DEF UpdateSpec
  <1>14. CASE ReplaceStatus(r) \/ UpdateStatus(r)
    BY <1>2, <1>3, <1>5, <1>14 DEF ReplaceStatus, UpdateStatus, StatusConflict
  <1>15. CASE Final(r) \/ Bury(r) \/ Remove(r) \/ Fail(r)
    BY <1>2, <1>3, <1>5, <1>15 DEF Final, Bury, Remove, Fail
  <1> QED BY <1>6, <1>7, <1>8, <1>9, <1>10, <1>11, <1>12, <1>13, <1>14, <1>15 DEF Start, Step

(* A status is inserted where an entity has been removed, and that one was  *)
(* buried.                                                                  *)
LEMMA SpeclessStep ==
  ASSUME SpeclessInv, NEW r \in Requests, Start(r) \/ Step(r) \/ Fail(r)
  PROVE  SpeclessFollowsBurial'
  <1> USE DEF SpeclessInv, BurialInv
  <1>1. graveyard \subseteq graveyard'
    BY NextMoves
  <1>2. None \notin Docs /\ None \notin Specs /\ nextId \in Nat
    BY NoneAssumption DEF TypeInv, TypeOK
  <1> SUFFICES ASSUME entity' # None, entity'.spec = None
               PROVE  SpecGrave'
    BY DEF SpeclessFollowsBurial, SpecGrave
  <1>3. CASE entity # None /\ entity.spec = None
    BY <1>1, <1>3, SpecGraveStays DEF SpeclessFollowsBurial, SpecGrave
  <1>4. CASE ~ (entity # None /\ entity.spec = None)
    <2>1. ~ UpdateSpec(r)
      BY <1>2, <1>4, UpdateSpecEffect
    <2>2. ReplaceStatus(r) \/ UpdateStatus(r)
      BY <1>4, <2>1, OtherEffect DEF Remove
    <2>3. entity = None
      BY <1>4, <2>2, StatusEffect
    <2>4. nextId # 0
      BY <2>2 DEF ReplaceStatus, UpdateStatus
    <2>5. 0 \in 0 .. nextId - 1
      BY <1>2, <2>4
    <2>6. Buried(0)
      BY <2>3, <2>5 DEF BuriedBeforeGone
    <2>7. graveyard # {}
      BY <2>6 DEF Buried
    <2> QED BY <1>1, <2>7, SpecGraveStays
  <1> QED BY <1>3, <1>4

LEMMA SeenFollows ==
  ASSUME SpeclessInv, NEW r \in Requests, Start(r) \/ Step(r) \/ Fail(r)
  PROVE  \A s \in Requests : req'[s].seen # None /\ req'[s].seen.spec = None => SpecGrave'
  <1> USE DEF SpeclessInv, BurialInv
  <1> SUFFICES ASSUME NEW s \in Requests, req'[s].seen # None, req'[s].seen.spec = None
               PROVE  SpecGrave'
    OBVIOUS
  <1>1. /\ graveyard \subseteq graveyard'
        /\ \A t \in Requests \ {r} : req'[t] = req[t]
    BY NextMoves DEF Moves
  <1>2. SpecGrave
    <2>1. CASE s # r
      BY <1>1, <2>1
    <2>2. CASE s = r
      BY <2>2, FindsEntity DEF SpeclessFollowsBurial, SpecGrave
    <2> QED BY <2>1, <2>2
  <1> QED BY <1>1, <1>2, SpecGraveStays

(* The first entity that is buried has a spec.                              *)
LEMMA FirstBurial ==
  ASSUME SpeclessInv, NEW r \in Requests, Start(r) \/ Step(r) \/ Fail(r), graveyard' # {}
  PROVE  SpecGrave'
  <1> USE DEF SpeclessInv, BurialInv
  <1>1. graveyard \subseteq graveyard'
    BY NextMoves
  <1>2. CASE graveyard' = graveyard
    BY <1>1, <1>2, SpecGraveStays
  <1>3. CASE graveyard' # graveyard
    <2>1. Bury(r)
      BY <1>3, OnlyBuryBuries
    <2>2. /\ Grave(req[r].seen) \in graveyard'
          /\ Grave(req[r].seen).spec = req[r].seen.spec
      BY <1>3, <2>1 DEF Bury, Grave
    <2>3. req[r].seen # None
      BY <2>1, NoneAssumption DEF Bury, TypeInv, Shapes, Shape
    <2>4. CASE req[r].seen.spec = None
      BY <1>1, <2>3, <2>4, SpecGraveStays
    <2>5. CASE req[r].seen.spec # None
      BY <2>2, <2>5 DEF SpecGrave
    <2> QED BY <2>4, <2>5
  <1> QED BY <1>2, <1>3

LEMMA StatusStep ==
  ASSUME SpeclessInv, NEW r \in Requests, Start(r) \/ Step(r) \/ Fail(r)
  PROVE  \A s \in Requests : req'[s].pc \in {"replace_status", "update_status"} => nextId' # 0
  <1> USE DEF SpeclessInv, BurialInv
  <1> SUFFICES ASSUME NEW s \in Requests, req'[s].pc \in {"replace_status", "update_status"}
               PROVE  nextId' # 0
    OBVIOUS
  <1>1. /\ nextId \in Nat /\ nextId' \in {nextId, nextId + 1}
        /\ \A t \in Requests \ {r} : req'[t] = req[t]
    BY EntityStep, NextMoves DEF Moves
  <1>2. nextId # 0
    <2>1. CASE s # r
      BY <1>1, <2>1
    <2>2. CASE s = r
      <3>1. entity # None
        BY <2>2, FindsEntity
      <3>2. entity.id \in Nat /\ entity.id < nextId
        BY <3>1 DEF TypeInv, TypeOK, Docs, IdsAreFresh
      <3> QED BY <1>1, <3>2
    <2> QED BY <2>1, <2>2
  <1> QED BY <1>1, <1>2

LEMMA InitSpeclessInv == Init => SpeclessInv
  <1> SUFFICES ASSUME Init PROVE SpeclessInv
    OBVIOUS
  <1>1. graveyard = {} /\ \A r \in Requests : req[r].seen = None /\ req[r].pc = "idle"
    BY DEF Init, Idle
  <1>2. SpeclessFollowsBurial
    BY NoneAssumption DEF Init, NewEntity, SpeclessFollowsBurial
  <1> QED BY <1>1, <1>2, InitBurialInv DEF SpeclessInv

LEMMA StepSpeclessInv == SpeclessInv /\ [Next]_vars => SpeclessInv'
  <1> SUFFICES ASSUME SpeclessInv, [Next]_vars PROVE SpeclessInv'
    OBVIOUS
  <1>1. BurialInv'
    BY StepBurialInv DEF SpeclessInv
  <1>2. ASSUME NEW r \in Requests, Start(r) \/ Step(r) \/ Fail(r)
        PROVE  SpeclessInv'
    <2>1. SpeclessFollowsBurial'
      BY <1>2, SpeclessStep
    <2>2. \A s \in Requests : req'[s].seen # None /\ req'[s].seen.spec = None => SpecGrave'
      BY <1>2, SeenFollows
    <2>3. graveyard' # {} => SpecGrave'
      BY <1>2, FirstBurial
    <2>4. \A s \in Requests : req'[s].pc \in {"replace_status", "update_status"} => nextId' # 0
      BY <1>2, StatusStep
    <2> QED BY <1>1, <2>1, <2>2, <2>3, <2>4 DEF SpeclessInv
  <1>3. CASE UNCHANGED vars
    <2>1. UNCHANGED <<entity, graveyard, nextId, req>>
      BY <1>3 DEF vars
    <2> QED BY <1>1, <2>1 DEF SpeclessInv, SpeclessFollowsBurial, SpecGrave
  <1> QED BY <1>2, <1>3 DEF Next

(* A live entity without a spec only follows an entity that had one and was *)
(* deleted, whatever status operations, deletions and failures overlap.     *)
THEOREM SpeclessCorrect == Spec => []SpeclessFollowsBurial
  <1>1. SpeclessInv => SpeclessFollowsBurial
    BY DEF SpeclessInv
  <1> QED BY <1>1, InitSpeclessInv, StepSpeclessInv, PTL DEF Spec

------------------------------------------------------------------------------
(* Creations and statuses, where no spec is updated *)

(* Without spec updates and without versions named in creations, versions   *)
(* alternate: a new entity has one more than a burial, a burial one more    *)
(* than an entity.  None is a version that is missing.                      *)
Even(v) == v = None \/ \E k \in Nat : v = 2 * k
Odd(v) == v = None \/ \E k \in Nat : v = 2 * k + 1

AlternateInv ==
  /\ TypeInv
  /\ \A r \in Requests : req[r].op # "update"
  /\ \A r \in Requests : req[r].op = "create" => Even(req[r].version)
  /\ \A g \in graveyard : Even(g.version)
  /\ entity # None => Odd(entity.version)
  /\ \A r \in Requests : req[r].seen # None => Odd(req[r].seen.version)

(* Without partial updates of the status the hash tells the status: it is   *)
(* the hash of the status, or the entity was just inserted.                 *)
Tells(doc) ==
  \/ doc.status = doc.hash
  \/ doc.status = EmptyStatus /\ doc.hash = IdentityHash

HashInv ==
  /\ TypeInv
  /\ \A r \in Requests : req[r].op \notin {"update", "update_status"}
  /\ entity # None => Tells(entity)
  /\ \A r \in Requests : req[r].seen # None => Tells(req[r].seen)

(* The operation of a request, and the version of a creation: what it named *)
(* itself, or the highest of the burials.                                   *)
LEMMA OperationStep ==
  ASSUME TypeInv, NEW r \in Requests, Start(r) \/ Step(r) \/ Fail(r)
  PROVE  /\ req'[r].op \in Ops \cup {None, req[r].op}
         /\ req'[r].op = "create" =>
              \/ req[r].op = "create" /\ req'[r].version = req[r].version
              \/ req'[r].version \in CreateVersions \cup {0} \cup {g.version : g \in graveyard}
  <1>1. req \in [Requests -> RequestStates] /\ req[r] \in RequestStates
    BY DEF TypeInv, TypeOK
  <1>2. ASSUME NEW how, End(r, how) PROVE req'[r].op = None
    BY <1>1, <1>2 DEF End, Idle
  <1>3. ASSUME NEW pc, Goto(r, pc)
        PROVE  req'[r].op = req[r].op /\ req'[r].version = req[r].version
    BY <1>1, <1>3 DEF Goto, RequestStates
  <1>4. ASSUME NEW pc, See(r, pc)
        PROVE  req'[r].op = req[r].op /\ req'[r].version = req[r].version
    BY <1>1, <1>4 DEF See, RequestStates
  <1>5. None # "create"
    BY NoneAssumption DEF AllOps
  <1>6. CASE StartCreate(r)
    <2>1. "create" \in Ops
      BY <1>6 DEF StartCreate, Arrive
    <2>2. req'[r].op = "create" /\ req'[r].version \in CreateVersions
      BY <1>1, <1>6 DEF StartCreate
    <2> QED BY <2>1, <2>2
  <1>7. CASE StartUpdate(r)
    BY <1>1, <1>7 DEF StartUpdate, Arrive
  <1>8. CASE StartDelete(r)
    <2>1. "delete" \in Ops /\ req'[r].op = "delete"
      BY <1>1, <1>8 DEF StartDelete, Arrive, RequestStates
    <2> QED BY <2>1
  <1>9. CASE StartReplaceStatus(r)
    BY <1>1, <1>9 DEF StartReplaceStatus, Arrive
  <1>10. CASE StartUpdateStatus(r)
    BY <1>1, <1>10 DEF StartUpdateStatus, Arrive
  <1>11. CASE GetHighest(r)
    <2>1. PICK v \in {0} \cup {g.version : g \in graveyard} :
            req' = [req EXCEPT ![r].pc = "graveyard", ![r].version = v]
      BY <1>11 DEF GetHighest
    <2>2. req'[r].op = req[r].op /\ req'[r].version = v
      BY <1>1, <2>1 DEF RequestStates
    <2> QED BY <2>2
  <1>12. CASE \/ CheckExisting(r) \/ CheckGraveyard(r) \/ GetEntity(r) \/ UpdateSpec(r)
              \/ Reread(r) \/ ReplaceStatus(r) \/ Recheck(r) \/ UpdateStatus(r) \/ Final(r)
              \/ Bury(r) \/ Remove(r) \/ Fail(r)
    <2>1. (\E how : End(r, how)) \/ (\E pc : Goto(r, pc)) \/ (\E pc : See(r, pc))
      BY <1>12 DEF CheckExisting, CheckGraveyard, GetEntity, UpdateSpec, Reread, ReplaceStatus,
         StatusConflict, Recheck, UpdateStatus, Final, Bury, Remove, Fail
    <2> QED BY <1>2, <1>3, <1>4, <1>5, <2>1
  <1> QED BY <1>6, <1>7, <1>8, <1>9, <1>10, <1>11, <1>12 DEF Start, Step

(* One more than an even version is odd, and the other way round.           *)
LEMMA Alternation ==
  /\ \A v : Even(v) => Odd(Inc(v))
  /\ \A v : Odd(v) => Even(Inc(v))
  /\ \A v \in Nat : ~ (Even(v) /\ Odd(v))
  /\ Even(0) /\ Even(None) /\ Odd(None)
  <1>0. \A n \in Nat : n # None
    BY NoneAssumption
  <1>1. ASSUME NEW v, Even(v) PROVE Odd(Inc(v))
    <2>1. CASE v = None
      BY <2>1 DEF Inc, Odd
    <2>2. CASE v # None
      <3>1. PICK k \in Nat : v = 2 * k
        BY <1>1, <2>2 DEF Even
      <3>2. Inc(v) = 2 * k + 1
        BY <2>2, <3>1 DEF Inc
      <3> QED BY <3>2 DEF Odd
    <2> QED BY <2>1, <2>2
  <1>2. ASSUME NEW v, Odd(v) PROVE Even(Inc(v))
    <2>1. CASE v = None
      BY <2>1 DEF Inc, Even
    <2>2. CASE v # None
      <3>1. PICK k \in Nat : v = 2 * k + 1
        BY <1>2, <2>2 DEF Odd
      <3>2. Inc(v) = 2 * (k + 1) /\ k + 1 \in Nat
        BY <2>2, <3>1 DEF Inc
      <3> QED BY <3>2 DEF Even
    <2> QED BY <2>1, <2>2
  <1>3. ASSUME NEW v \in Nat, Even(v), Odd(v) PROVE FALSE
    <2>1. PICK k \in Nat : v = 2 * k
      BY <1>0, <1>3 DEF Even
    <2>2. PICK m \in Nat : v = 2 * m + 1
      BY <1>0, <1>3 DEF Odd
    <2> QED BY <2>1, <2>2
  <1>4. Even(0) /\ Even(None) /\ Odd(None)
    <2>1. 0 = 2 * 0
      OBVIOUS
    <2> QED BY <2>1 DEF Even, Odd
  <1> QED BY <1>1, <1>2, <1>3, <1>4

LEMMA AlternateStep ==
  ASSUME AlternateInv, "update" \notin Ops, CreateVersions \subseteq {None},
         NEW r \in Requests, Start(r) \/ Step(r) \/ Fail(r), TypeInv'
  PROVE  AlternateInv'
  <1> USE DEF AlternateInv
  <1>1. \A s \in Requests \ {r} : req'[s] = req[s]
    BY NextMoves DEF Moves
  <1>2. \A s \in Requests : req'[s].op # "update"
    <2>1. req'[r].op # "update"
      BY OperationStep, NoneAssumption DEF AllOps
    <2> QED BY <1>1, <2>1
  <1>3. \A s \in Requests : req'[s].op = "create" => Even(req'[s].version)
    <2>1. req'[r].op = "create" => Even(req'[r].version)
      BY OperationStep, Alternation
    <2> QED BY <1>1, <2>1
  <1>4. \A g \in graveyard' : Even(g.version)
    <2>1. CASE Bury(r)
      <3>1. req[r].seen # None
        BY <2>1, NoneAssumption DEF Bury, TypeInv, Shapes, Shape
      <3>2. Even(Grave(req[r].seen).version)
        BY <3>1, Alternation DEF Grave
      <3> QED BY <2>1, <3>2 DEF Bury
    <2>2. CASE ~ Bury(r)
      BY <2>2, OtherEffect DEF UpdateSpec, ReplaceStatus, UpdateStatus
    <2> QED BY <2>1, <2>2
  <1>5. entity' # None => Odd(entity'.version)
    <2>1. CASE UpdateSpec(r)
      <3>1. req[r].op = "create"
        BY <2>1 DEF UpdateSpec, TypeInv, Shapes, Shape
      <3>2. Odd(Inc(req[r].version))
        BY <3>1, Alternation
      <3>3. UNCHANGED entity \/ (req[r].version \in Nat /\ entity'.version = req[r].version + 1)
        BY <2>1, UpdateSpecEffect
      <3>4. UNCHANGED entity \/ entity'.version = Inc(req[r].version)
        BY <3>3, NoneAssumption DEF Inc
      <3> QED BY <3>2, <3>4
    <2>2. CASE ReplaceStatus(r) \/ UpdateStatus(r)
      BY <2>2, StatusEffect, Alternation, NoneAssumption
    <2>3. CASE ~ (UpdateSpec(r) \/ ReplaceStatus(r) \/ UpdateStatus(r))
      BY <2>3, OtherEffect DEF Remove
    <2> QED BY <2>1, <2>2, <2>3
  <1>6. \A s \in Requests : req'[s].seen # None => Odd(req'[s].seen.version)
    <2>1. req'[r].seen # None => Odd(req'[r].seen.version)
      BY SeenStep
    <2> QED BY <1>1, <2>1
  <1> QED BY <1>2, <1>3, <1>4, <1>5, <1>6

LEMMA InitAlternateInv == Init => AlternateInv
  <1> SUFFICES ASSUME Init PROVE AlternateInv
    OBVIOUS
  <1>1. \A r \in Requests : req[r].op = None /\ req[r].seen = None
    BY DEF Init, Idle
  <1>2. None \notin {"create", "update"}
    BY NoneAssumption DEF AllOps
  <1>3. entity # None => Odd(entity.version)
    <2>1. 1 = 2 * 0 + 1
      OBVIOUS
    <2>2. Odd(1)
      BY <2>1 DEF Odd
    <2> QED BY <2>2 DEF Init, NewEntity
  <1>4. graveyard = {}
    BY DEF Init
  <1> QED BY <1>1, <1>2, <1>3, <1>4, InitTypeInv DEF AlternateInv

LEMMA StepAlternateInv ==
  ASSUME "update" \notin Ops, CreateVersions \subseteq {None}, AlternateInv, [Next]_vars
  PROVE  AlternateInv'
  <1>1. TypeInv'
    BY StepTypeInv DEF AlternateInv
  <1>2. ASSUME NEW r \in Requests, Start(r) \/ Step(r) \/ Fail(r)
        PROVE  AlternateInv'
    BY <1>1, <1>2, AlternateStep
  <1>3. CASE UNCHANGED vars
    BY <1>1, <1>3 DEF vars, AlternateInv
  <1> QED BY <1>2, <1>3 DEF Next

(* Who takes the step of a request: nobody else.                            *)
LEMMA StepOf ==
  ASSUME TypeInv, [Next]_vars, NEW r \in Requests, req'[r].pc # req[r].pc
  PROVE  Start(r) \/ Step(r) \/ Fail(r)
  <1>1. PICK s \in Requests : Start(s) \/ Step(s) \/ Fail(s)
    BY DEF Next, vars
  <1>2. s = r
    BY <1>1, NextMoves DEF Moves
  <1> QED BY <1>1, <1>2

(* What a request about to write the document can do.                       *)
LEMMA WritesNext ==
  ASSUME TypeInv, NEW r \in Requests, Start(r) \/ Step(r) \/ Fail(r)
  PROVE  /\ req[r].pc = "update_spec" /\ req'[r].pc = "reread" => UpdateSpec(r)
         /\ req[r].pc = "replace_status" /\ req'[r].pc = "final" => ReplaceStatus(r)
         /\ req[r].pc = "update_status" /\ req'[r].pc = "final" => UpdateStatus(r)
  <1>1. req \in [Requests -> RequestStates]
    BY DEF TypeInv, TypeOK
  <1>2. Fail(r) => req'[r].pc = "crashed"
    BY <1>1 DEF Fail, End, Idle
  <1> QED BY <1>2 DEF Start, StartCreate, StartUpdate, StartDelete, StartReplaceStatus,
        StartUpdateStatus, Arrive, Step, CheckExisting, GetHighest, CheckGraveyard, GetEntity,
        UpdateSpec, Reread, ReplaceStatus, Recheck, UpdateStatus, Final, Bury, Remove

LEMMA InsertsStep ==
  ASSUME AlternateInv, [Next]_vars, NEW r \in Requests,
         req[r].op = "create", req[r].pc = "update_spec", req'[r].pc = "reread"
  PROVE  entity = None
  <1> USE DEF AlternateInv
  <1>1. UpdateSpec(r)
    BY StepOf, WritesNext
  <1>2. req[r].version \in Nat /\ Even(req[r].version)
    BY DEF TypeInv, Shapes, Shape
  <1>3. CASE SpecMatches(r)
    BY <1>2, <1>3, Alternation DEF SpecMatches
  <1>4. CASE ~ SpecMatches(r) /\ entity # None
    <2>1. End(r, "conflict")
      BY <1>1, <1>4 DEF UpdateSpec
    <2>2. req'[r].pc = "conflict"
      BY <2>1 DEF End, Idle, TypeInv, TypeOK
    <2> QED BY <2>2
  <1> QED BY <1>3, <1>4

(* As long as no spec is updated and no creation names its version, two     *)
(* creations that overlap do not overwrite each other's spec, whatever is   *)
(* deleted and whichever statuses are written meanwhile: the version with   *)
(* which a creation goes to update_spec is never that of a live entity.     *)
THEOREM InsertsCorrect ==
  "update" \notin Ops /\ CreateVersions \subseteq {None} /\ Spec => CreationInserts
  <1> SUFFICES ASSUME "update" \notin Ops, CreateVersions \subseteq {None}
               PROVE  Spec => CreationInserts
    OBVIOUS
  <1>1. AlternateInv /\ [Next]_vars => AlternateInv'
    BY StepAlternateInv
  <1>2. AlternateInv /\ [Next]_vars =>
          [\A r \in Requests :
             req[r].op = "create" /\ req[r].pc = "update_spec" /\ req'[r].pc = "reread"
               => entity = None]_vars
    BY InsertsStep
  <1> QED BY <1>1, <1>2, InitAlternateInv, PTL DEF Spec, CreationInserts

(* What a request that is no partial update makes of the document.          *)
LEMMA TellsStep ==
  ASSUME HashInv, NEW r \in Requests, Start(r) \/ Step(r) \/ Fail(r)
  PROVE  entity' # None => Tells(entity')
  <1> USE DEF HashInv
  <1>1. CASE UpdateSpec(r)
    <2>1. req[r].op = "create"
      BY <1>1 DEF UpdateSpec, TypeInv, Shapes, Shape
    <2>2. HashSent(r) = IdentityHash
      BY <2>1 DEF HashSent
    <2>3. \/ UNCHANGED entity
          \/ entity \in Docs /\ entity'.status = entity.status /\ entity'.hash = entity.hash
          \/ entity'.status = EmptyStatus /\ entity'.hash = HashSent(r)
      BY <1>1, UpdateSpecEffect
    <2> QED BY <2>2, <2>3, NoneAssumption DEF Tells
  <1>2. CASE ReplaceStatus(r)
    <2>1. entity # None => entity \in Docs
      BY DEF TypeInv, TypeOK
    <2>2. \/ UNCHANGED entity
          \/ entity # None /\ entity' = [entity EXCEPT !.status = req[r].body, !.hash = req[r].body]
          \/ InsertStatus(req[r].body, req[r].body)
      BY <1>2 DEF ReplaceStatus, StatusMatches, StatusConflict
    <2>3. CASE entity # None /\ entity' = [entity EXCEPT !.status = req[r].body, !.hash = req[r].body]
      <3> DEFINE b == req[r].body
      <3>1. entity \in Docs /\ entity' = [entity EXCEPT !.status = b, !.hash = b]
        BY <2>1, <2>3
      <3> HIDE DEF b
      <3>2. entity'.status = b /\ entity'.hash = b
        BY <3>1 DEF Docs
      <3> QED BY <3>2 DEF Tells
    <2>4. CASE InsertStatus(req[r].body, req[r].body)
      BY <2>4 DEF InsertStatus, Tells
    <2> QED BY <2>2, <2>3, <2>4
  <1>3. CASE UpdateStatus(r)
    <2>1. req[r].op = "update_status"
      BY <1>3 DEF UpdateStatus, TypeInv, Shapes, Shape
    <2> QED BY <2>1
  <1>4. CASE ~ (UpdateSpec(r) \/ ReplaceStatus(r) \/ UpdateStatus(r))
    BY <1>4, OtherEffect DEF Remove
  <1> QED BY <1>1, <1>2, <1>3, <1>4

LEMMA InitHashInv == Init => HashInv
  <1> SUFFICES ASSUME Init PROVE HashInv
    OBVIOUS
  <1>1. \A r \in Requests : req[r].op = None /\ req[r].seen = None
    BY DEF Init, Idle
  <1>2. None \notin {"update", "update_status"}
    BY NoneAssumption DEF AllOps
  <1>3. entity # None => Tells(entity)
    BY DEF Init, NewEntity, Tells
  <1> QED BY <1>1, <1>2, <1>3, InitTypeInv DEF HashInv

LEMMA StepHashInv ==
  ASSUME Ops \cap {"update", "update_status"} = {}, HashInv, [Next]_vars
  PROVE  HashInv'
  <1>1. TypeInv'
    BY StepTypeInv DEF HashInv
  <1>2. ASSUME NEW r \in Requests, Start(r) \/ Step(r) \/ Fail(r)
        PROVE  HashInv'
    <2>1. \A s \in Requests \ {r} : req'[s] = req[s]
      BY <1>2, NextMoves DEF Moves, HashInv
    <2>2. req'[r].op \notin {"update", "update_status"}
      BY <1>2, OperationStep, NoneAssumption DEF AllOps, HashInv
    <2>3. req'[r].seen # None => Tells(req'[r].seen)
      BY <1>2, SeenStep DEF HashInv
    <2>4. entity' # None => Tells(entity')
      BY <1>2, TellsStep
    <2> QED BY <1>1, <2>1, <2>2, <2>3, <2>4 DEF HashInv
  <1>3. CASE UNCHANGED vars
    BY <1>1, <1>3 DEF vars, HashInv
  <1> QED BY <1>2, <1>3 DEF Next

(* Of two documents with the same hash both have the same status.           *)
LEMMA HashDetermines ==
  ASSUME NEW d \in Docs, NEW e \in Docs, Tells(d), Tells(e), d.hash = e.hash
  PROVE  d.status = e.status
  <1>1. d.status \in Partials /\ e.status \in Partials
    BY StatusIsPartial DEF Docs
  <1> QED BY <1>1, NoneAssumption DEF Tells

LEMMA OverwriteStep ==
  ASSUME HashInv, [Next]_vars, NEW r \in Requests, Overwrites(r)
  PROVE  entity.status = req[r].seen.status
  <1> USE DEF HashInv
  <1>1. /\ req[r].op = "replace_status" /\ entity \in Docs
        /\ req[r].seen \in Docs /\ req[r].seen # None
    BY NoneAssumption DEF Overwrites, TypeInv, TypeOK, Shapes, Shape
  <1>2. req[r].pc = "replace_status" /\ req'[r].pc = "final"
    BY <1>1 DEF Overwrites, TypeInv, Shapes, Shape
  <1>3. ReplaceStatus(r)
    BY <1>2, StepOf, WritesNext
  <1>4. CASE StatusMatches(r)
    <2>1. entity.hash = req[r].seen.hash
      BY <1>1, <1>4 DEF StatusMatches, HashSent
    <2> QED BY <1>1, <2>1, HashDetermines, NoneAssumption
  <1>5. CASE ~ StatusMatches(r)
    <2>1. entity # None
      BY <1>1, NoneAssumption
    <2>2. End(r, "conflict")
      BY <1>3, <1>5, <2>1 DEF ReplaceStatus, InsertStatus, StatusConflict
    <2>3. req'[r].pc = "conflict"
      BY <2>2 DEF End, Idle, TypeInv, TypeOK
    <2> QED BY <1>2, <2>3
  <1> QED BY <1>4, <1>5

(* As long as statuses are only replaced whole, and no spec update inserts  *)
(* a document, a provider that replaces a status has seen the status it     *)
(* replaces: the hash it sends back stands for that one status, across      *)
(* deletions and new creations of the entity too.                           *)
THEOREM StatusSeenCorrect ==
  Ops \cap {"update", "update_status"} = {} /\ Spec => StatusSeenBeforeOverwrite
  <1> SUFFICES ASSUME Ops \cap {"update", "update_status"} = {}
               PROVE  Spec => StatusSeenBeforeOverwrite
    OBVIOUS
  <1>1. HashInv /\ [Next]_vars => HashInv'
    BY StepHashInv
  <1>2. HashInv /\ [Next]_vars =>
          [\A r \in Requests : Overwrites(r) => entity.status = req[r].seen.status]_vars
    BY OverwriteStep
  <1> QED BY <1>1, <1>2, InitHashInv, PTL DEF Spec, StatusSeenBeforeOverwrite
=============================================================================
