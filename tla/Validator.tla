------------------------------ MODULE Validator ------------------------------
(***************************************************************************)
(* What the engine takes for an entity of a kind (validator/index.ts): the  *)
(* description of the kind is checked once, when its provider registers,    *)
(* and then every spec and every status is checked against it, the spec     *)
(* without the fields that are status-only.  api_docs_generator.ts removes  *)
(* the same fields once more, for the documentation.                        *)
(*                                                                          *)
(* A description is a tree of objects, of any size and depth: the root, the *)
(* objects of its fields, of their items and so on, which the code visits   *)
(* from the root and changes in place in a copy.  So a schema is a function *)
(* from nodes to objects: type, x-papiea, nullable, the node of each field, *)
(* the required names, the node of the items; no required is {}, and fields *)
(* without any stand for no properties.  Data is a tree of values, objects  *)
(* and lists; null is left out.                                             *)
(***************************************************************************)
EXTENDS Naturals, Sequences

CONSTANTS
    Node, Root,  \* places in a description
    Height,      \* of a node: what is below it is lower
    Name,        \* names of fields
    Schemas,     \* descriptions
    Registrations,  \* with whether the provider allows extra properties
    NoNode,      \* no items
    Data,        \* specs, statuses and partial statuses
    Returned,    \* statuses a constructor may return
    Values,      \* these, what validation makes of them, and the parts of both
    Nesting,     \* of a value: its parts have less
    Handlers,    \* requests that write more than once, or later than they read
    Unset        \* no kind, no entity, no status, no field, no request

VARIABLES
    registered,  \* the kind
    entity,      \* as it is stored
    pending,     \* the write each request makes next
    unchecked    \* whether the stored status, or a part of it, passed no validation

validatorVars == <<registered, entity, pending, unchecked>>

Object == [type : STRING, papiea : STRING, nullable : BOOLEAN,
           fields : UNION {[names -> Node] : names \in SUBSET Name},
           required : SUBSET Name, items : Node \cup {NoNode}, entity : STRING]

Names(s, n) == DOMAIN s[n].fields

FieldNodes(s, n) == {s[n].fields[f] : f \in Names(s, n)}

\* The nodes directly under one
Under(s, n) == FieldNodes(s, n) \cup ({s[n].items} \ {NoNode})

ASSUME NodesAssumption == Root \in Node /\ NoNode \notin Node /\ Height \in [Node -> Nat]

\* Descriptions are JSON.  The x-papiea of the kind itself is none
ASSUME SchemasAssumption ==
    \A s \in Schemas :
        /\ s \in [Node -> Object]
        /\ \A n \in Node : \A m \in Under(s, n) : Height[m] < Height[n]
        /\ s[Root].papiea = "none"

ASSUME RegistrationsAssumption == Registrations \subseteq [schema : Schemas, extra : BOOLEAN]

-----------------------------------------------------------------------------
(* Checks of a description                                                 *)

IsStatusOnly(s, n) == s[n].papiea = "status-only"

\* check_nullable_modifier enters objects, not the items of arrays
IsNullable(s) ==
    LET nullable[n \in Node] ==
            \/ s[n].nullable
            \/ s[n].type = "object" /\ \E m \in FieldNodes(s, n) : nullable[m]
    IN  nullable[Root]

\* validate_field_value looks no further below a field that has an x-papiea
FieldValuesIn(s, possible) ==
    LET in[n \in Node] == \A m \in Under(s, n) :
            IF s[m].papiea = "none" THEN in[m] ELSE s[m].papiea \in possible
    IN  in[Root]

\* The check reads the x-papiea of each name, and throws for one that is no field
RequiresStatusOnly(s, n) ==
    /\ Names(s, n) # {}
    /\ \E f \in s[n].required : f \in Names(s, n) => IsStatusOnly(s, s[n].fields[f])

\* Mutant: the items of an array are not looked at
OnlyObjects(s, n) == {n} \cap {m \in Node : s[m].type = "object"}

\* What validate_status_only_field looks into at a field: an object; of an array,
\* the objects in it, if they require anything
LookedInto(s, n) ==
    {m \in {n} : s[m].type = "object"}
    \cup {m \in {s[n].items} \ {NoNode} : /\ s[n].type = "array" /\ s[m].type = "object"
                                          /\ s[m].required # {} /\ Names(s, m) # {}}

StatusOnlyRequired(s) ==
    LET in[n \in Node] == \E m \in LookedInto(s, n) :
            RequiresStatusOnly(s, m) \/ \E k \in FieldNodes(s, m) : in[k]
    IN  in

\* validate_kind_structure; validate_untyped_object only warns
ValidKind(s) ==
    /\ ~ IsNullable(s)
    /\ FieldValuesIn(s, {"status-only"})
    /\ s[Root].entity = "spec-only" => FieldValuesIn(s, {})
    /\ ~ StatusOnlyRequired(s)[Root]

-----------------------------------------------------------------------------
(* The schema of a spec                                                    *)

Kept(s, n) == {f \in Names(s, n) : ~ IsStatusOnly(s, s[n].fields[f])}

KeptFields(s, n) == [f \in Kept(s, n) |-> s[n].fields[f]]

\* Mutant: fields of fields are not looked at
RemoveTopFields(s) == [s EXCEPT ![Root].fields = KeptFields(s, Root)]

\* remove_schema_fields, in every object; what hangs under a node that is
\* removed stays, and nothing leads to it
RemoveStatusOnly(s) ==
    [n \in Node |-> [s[n] EXCEPT
        !.fields = KeptFields(s, n),
        !.items = IF @ # NoNode /\ IsStatusOnly(s, @) THEN NoNode ELSE @]]

SpecModel(s) == RemoveStatusOnly(s)

\* removeRequiredField, of the documentation
RemoveRequired(s) ==
    [n \in Node |-> [s[n] EXCEPT !.required = @ \ (Names(s, n) \ Kept(s, n))]]

\* createSchema with "spec"; removeSchemaField is remove_schema_fields once more
DocumentedSpec(s) == RemoveStatusOnly(RemoveRequired(s))

-----------------------------------------------------------------------------
(* validate                                                                *)

\* swagger-model-validator, on data that is not empty
Conformance(s, extra) ==
    LET conforms[place \in Node \X Values] ==
            LET n == place[1]
                d == place[2]
            IN  CASE s[n].type = "object" ->
                        /\ d.is = "object"
                        /\ s[n].required \subseteq DOMAIN d.of
                        /\ extra \/ DOMAIN d.of \subseteq Names(s, n)
                        /\ \A f \in DOMAIN d.of \cap Names(s, n) :
                                conforms[<<s[n].fields[f], d.of[f]>>]
                  [] s[n].type = "array" ->
                        /\ d.is = "list"
                        /\ s[n].items # NoNode =>
                                \A i \in DOMAIN d.of : conforms[<<s[n].items, d.of[i]>>]
                  [] OTHER -> d.is = "value"
    IN  conforms

Conforms(d, s, extra) == Conformance(s, extra)[<<Root, d>>]

\* isEmpty: a number has no keys either
IsEmpty(d) == d.is # "value" => DOMAIN d.of = {}

Validate(d, s, extra) ==
    IF s[Root].type = "object" /\ Names(s, Root) = {} THEN IsEmpty(d)
    ELSE IF IsEmpty(d) THEN s[Root].required = {}
    ELSE Conforms(d, s, extra)

\* validate_spec
ValidSpec(d) == Validate(d, SpecModel(registered.schema), registered.extra)

\* Mutant: validate_status only looks for an empty status
NotEmpty(d) == ~ IsEmpty(d)

\* validate_status
ValidStatus(d) == ~ IsEmpty(d) /\ Validate(d, registered.schema, registered.extra)

-----------------------------------------------------------------------------
(* The merges of a partial status                                          *)

Fields(d) == IF d # Unset /\ d.is = "object" THEN DOMAIN d.of ELSE {}

IsList(d) == d # Unset /\ d.is = "list"

\* The merge that is validated: lists are replaced, of objects whole fields.  The
\* object literal takes no fields from a number
Shallow(old, new) ==
    IF IsList(old) /\ IsList(new) THEN new
    ELSE [is |-> "object", of |-> [f \in Fields(old) \cup Fields(new) |->
                                    IF f \in Fields(new) THEN new.of[f] ELSE old.of[f]]]

\* dotnotation makes a path of every field that is no object, and none of an
\* object without fields
Emits[d \in Values] == d.is = "object" => \E f \in Fields(d) : Emits[d.of[f]]

Emitted(d) == {f \in Fields(d) : Emits[d.of[f]]}

\* The merge that is stored: what the database makes of old when it sets these
\* paths, in every element of a list, and in place of what is no object
IsMerge[three \in Values \X (Values \cup {Unset}) \X Values] ==
    LET merged == three[1]
        old == three[2]
        new == three[3]
    IN  IF new.is # "object" THEN merged = new
        ELSE IF IsList(old)
        THEN /\ merged.is = "list"
             /\ DOMAIN merged.of = DOMAIN old.of
             /\ \A i \in DOMAIN merged.of : IsMerge[<<merged.of[i], old.of[i], new>>]
        ELSE /\ merged.is = "object"
             /\ DOMAIN merged.of = Fields(old) \cup Emitted(new)
             /\ \A f \in DOMAIN merged.of :
                    IF f \notin Emitted(new) THEN merged.of[f] = old.of[f]
                    ELSE IsMerge[<<merged.of[f],
                                   IF f \in Fields(old) THEN old.of[f] ELSE Unset,
                                   new.of[f]>>]

\* No object without fields in it, outside of lists: nothing that is validated
\* and not stored
Full[d \in Values] ==
    d.is = "object" => DOMAIN d.of # {} /\ \A f \in DOMAIN d.of : Full[d.of[f]]

\* Values are JSON, too
ASSUME ValuesAssumption ==
    /\ Returned \subseteq Data /\ Data \subseteq Values /\ Unset \notin Values
    /\ Unset \notin [spec : Data \cup {Unset}, status : Data \cup {Unset}]
    /\ Nesting \in [Values -> Nat]
    /\ \A d \in Values :
        /\ d.is \in {"value", "object", "list"}
        /\ d.is # "value" => \A k \in DOMAIN d.of :
                d.of[k] \in Values /\ Nesting[d.of[k]] < Nesting[d]
    /\ \A old \in Data \cup {Unset}, new \in Data :
        IsList(old) = IsList(new) => Shallow(old, new) \in Values

-----------------------------------------------------------------------------
(* The handlers that store                                                 *)

ValidatorInit ==
    /\ registered = Unset
    /\ entity = Unset
    /\ pending = [r \in Handlers |-> Unset]
    /\ unchecked = FALSE

\* Once: another description, over entities that are stored, is left out
RegisterKind(kind) ==
    /\ registered = Unset
    /\ ValidKind(kind.schema)
    /\ registered' = kind
    /\ UNCHANGED <<entity, pending, unchecked>>

SpecOnly == registered.schema[Root].entity = "spec-only"

Begin(r, sets, data, checked) ==
    /\ pending[r] = Unset
    /\ pending' = [pending EXCEPT ![r] = [sets |-> sets, data |-> data, checked |-> checked]]

\* The requests in done are over; a partial status was validated as the change of
\* a status that is no longer stored
Outdate(done) ==
    pending' = [r \in Handlers |->
        IF r \in done \/ pending[r] = Unset THEN Unset
        ELSE [pending[r] EXCEPT !.checked = @ /\ pending[r].sets # "partial"]]

\* What an upsert changes
Document == IF entity = Unset THEN [spec |-> Unset, status |-> Unset] ELSE entity

\* A status of its own is a constructor's; without one the status is the spec.
\* validate_entity does not wait for validate_status: a refusal comes too late
Create(r, spec, status) ==
    /\ entity = Unset
    /\ ValidSpec(spec)
    /\ SpecOnly => status = spec
    /\ Begin(r, "status", status, status = spec \/ ValidStatus(status))
    /\ entity' = [spec |-> spec, status |-> Unset]
    /\ UNCHANGED <<registered, unchecked>>

UpdateSpec(r, spec) ==
    /\ entity # Unset
    /\ ValidSpec(spec)
    /\ Begin(r, "spec", spec, TRUE)
    /\ UNCHANGED <<registered, entity, unchecked>>

UpdateStatus(r, partial) ==
    /\ ~ SpecOnly
    /\ entity # Unset
    /\ IsList(entity.status) = IsList(partial)
    /\ ValidStatus(Shallow(entity.status, partial))
    /\ Begin(r, "partial", partial, TRUE)
    /\ UNCHANGED <<registered, entity, unchecked>>

Writes(r, sets) == pending[r] # Unset /\ pending[r].sets = sets

\* The spec of a spec-only entity becomes its status, too
WriteSpec(r) ==
    /\ Writes(r, "spec")
    /\ entity' = [Document EXCEPT !.spec = pending[r].data]
    /\ pending' = [pending EXCEPT ![r] = IF SpecOnly THEN [@ EXCEPT !.sets = "status"] ELSE Unset]
    /\ UNCHANGED <<registered, unchecked>>

WriteStatus(r) ==
    /\ Writes(r, "status")
    /\ entity' = [Document EXCEPT !.status = pending[r].data]
    /\ unchecked' = ~ pending[r].checked
    /\ Outdate({r})
    /\ UNCHANGED registered

\* The driver refuses an update without a path
WritePartial(r) ==
    /\ Writes(r, "partial")
    /\ Emits[pending[r].data]
    /\ \E merged \in Data :
        /\ IsMerge[<<merged, Document.status, pending[r].data>>]
        /\ entity' = [Document EXCEPT !.status = merged]
    /\ unchecked' = (unchecked \/ ~ pending[r].checked \/ ~ Full[pending[r].data])
    /\ Outdate({r})
    /\ UNCHANGED registered

ReplaceStatus(status) ==
    /\ ~ SpecOnly
    /\ ValidStatus(status)
    /\ entity' = [Document EXCEPT !.status = status]
    /\ unchecked' = FALSE
    /\ Outdate({})
    /\ UNCHANGED registered

Delete ==
    /\ entity # Unset
    /\ entity' = Unset
    /\ unchecked' = FALSE
    /\ Outdate({})
    /\ UNCHANGED registered

\* A conflict, an error, the end of the process
Fail(r) ==
    /\ pending[r] # Unset
    /\ pending' = [pending EXCEPT ![r] = Unset]
    /\ UNCHANGED <<registered, entity, unchecked>>

Handle(r) ==
    \/ \E spec \in Data : \E status \in Returned \cup {spec} : Create(r, spec, status)
    \/ \E d \in Data : UpdateSpec(r, d) \/ UpdateStatus(r, d)
    \/ WriteSpec(r) \/ WriteStatus(r) \/ WritePartial(r)
    \/ Fail(r)

ValidatorNext ==
    \/ \E kind \in Registrations : RegisterKind(kind)
    \/ registered # Unset /\ \/ \E r \in Handlers : Handle(r)
                             \/ \E status \in Data : ReplaceStatus(status)
                             \/ Delete

ValidatorSpec == ValidatorInit /\ [][ValidatorNext]_validatorVars

-----------------------------------------------------------------------------
(* Properties                                                              *)

ValidatorTypeOK ==
    /\ registered # Unset => registered.extra \in BOOLEAN
    /\ entity \in [spec : Data \cup {Unset}, status : Data \cup {Unset}] \cup {Unset}
    /\ pending \in [Handlers -> [sets : {"spec", "status", "partial"}, data : Data, checked : BOOLEAN]
                                \cup {Unset}]
    /\ unchecked \in BOOLEAN
    /\ registered = Unset => entity = Unset /\ \A r \in Handlers : pending[r] = Unset

\* Items that are status-only themselves: without them the array takes anything
StatusOnlyItems(s) == \E n \in Node : s[n].items # NoNode /\ IsStatusOnly(s, s[n].items)

\* The paths of a data tree lead through no status-only field
StatusOnlyFree(s) ==
    LET free[place \in Node \X Values] ==
            LET n == place[1]
                d == place[2]
            IN  /\ s[n].type = "object" /\ d.is = "object" =>
                        \A f \in DOMAIN d.of \cap Names(s, n) :
                            f \in Kept(s, n) /\ free[<<s[n].fields[f], d.of[f]>>]
                /\ s[n].type = "array" /\ d.is = "list" /\ s[n].items # NoNode =>
                        \A i \in DOMAIN d.of : free[<<s[n].items, d.of[i]>>]
    IN  free

\* No stored spec has a value for a status-only field at any depth, unless the
\* provider allows extra properties, which these pass as, or an array has no
\* other items.
SpecHasNoStatusOnly ==
    entity # Unset /\ entity.spec # Unset
            /\ ~ registered.extra /\ ~ StatusOnlyItems(registered.schema) =>
        StatusOnlyFree(registered.schema)[<<Root, entity.spec>>]

\* Without extra properties and such items, the stored status of an entity
\* conforms to its kind, unless it is empty, as which a number passes: when it is
\* the spec, whose validation as a status nobody waits for; and whichever partial
\* statuses were merged into it, though what is validated is another merge than
\* what is stored.  Three get past the validation and are excepted: a status that
\* a constructor returned and that was refused; a partial status whose write met
\* another status than its validation, or none; and one that has an object without
\* fields in it.
StatusConforms ==
    entity # Unset /\ entity.status # Unset /\ ~ unchecked
            /\ ~ registered.extra /\ ~ StatusOnlyItems(registered.schema)
            /\ ~ IsEmpty(entity.status) =>
        Conforms(entity.status, registered.schema, FALSE)

Below(s) ==
    LET below[n \in Node] == {n} \cup UNION {below[m] : m \in Under(s, n)}
    IN  below

SameTree(s, t) == \A n \in Below(s)[Root] : s[n] = t[n]

Requires(s, n) == \E m \in Below(s)[n] : s[m].required # {} /\ Names(s, m) # {}

\* Something is required where validate_status_only_field does not look: in an
\* array of anything but objects, or of objects that require nothing themselves,
\* or in what is neither object nor array; or below an object that has items or an
\* array that has fields
Overlooks(s) ==
    \E n \in Below(s)[Root] :
        \/ s[n].type = "object" /\ s[n].items # NoNode
        \/ s[n].type = "array" /\ Names(s, n) # {}
        \/ s[n].type = "array" /\ \E m \in Under(s, n) :
              (s[m].type # "object" \/ s[m].required = {} \/ Names(s, m) = {}) /\ Requires(s, m)
        \/ s[n].type \notin {"object", "array"} /\ Requires(s, n)

\* For every description that registers, the documented schema of its specs is
\* the one they are validated with: the two removals agree, wherever the check
\* of required fields looks.
DocumentedAsValidated ==
    registered # Unset /\ ~ Overlooks(registered.schema) =>
        SameTree(SpecModel(registered.schema), DocumentedSpec(registered.schema))
=============================================================================
