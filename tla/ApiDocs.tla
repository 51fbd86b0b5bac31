------------------------------- MODULE ApiDocs -------------------------------
(***************************************************************************)
(* The documentation the engine generates of a provider                     *)
(* (api_docs_generator.ts): its operations, each with the request it        *)
(* describes and the schemas it refers to, and the schemas themselves.      *)
(*                                                                          *)
(* A provider is a record of kinds and procs.  A kind has a name, the key   *)
(* of its structure, the procedures kprocs and eprocs; a procedure a name,  *)
(* and for its argument and its result the one key of the schema, or Void   *)
(* for {}, or Plain for a schema given as it is.  A schema is what it       *)
(* describes, and whose: <<"Spec", key>>, <<"argument", procedure>> and the *)
(* like.  Its name, which the code joins with "-", is a pair here: names    *)
(* that differ but for a "-" in them are left out.                          *)
(***************************************************************************)
EXTENDS Routes, SequencesExt

CONSTANTS Void, Plain

Uuid == "{uuid}"

\* A reference, by name, and what its reader expects there
Ref(name, of) == [name |-> name, of |-> of]

OneWord(word) == <<<<>>, word>>

Nothing == Ref(OneWord("Nothing"), <<"Nothing">>)

\* The default response of every operation
ErrorRef == Ref(OneWord("Error"), <<"Error">>)

Op(want, method, path, query, body, input, output) ==
    [request |-> Request(want, method, path, query, body), input |-> input,
     output |-> output \cup {ErrorRef}]

OfStructure(kind, part) == Ref(<<<<kind.name>>, part>>, <<part, kind.key>>)

OfKind(kind) == {OfStructure(kind, part) : part \in {"Metadata", "Spec", "Status"}}

SpecOf(kind) == {OfStructure(kind, "Spec")}

Services4(d, kind) == <<"services", d.prefix, d.version, kind.name>>

-----------------------------------------------------------------------------
(* The operations on the entities of a kind                                *)

GetKind(d, kind) ==
    Op("filter_entity", "GET", Services4(d, kind), {"offset", "limit", "spec"}, {}, {}, OfKind(kind))

PostKindFilter(d, kind) ==
    Op("filter_entity", "POST", Services4(d, kind) \o <<"filter">>, {"offset", "limit"}, {"spec"},
       SpecOf(kind), OfKind(kind))

PostKind(d, kind) ==
    Op("create_entity", "POST", Services4(d, kind), {}, {"spec", "metadata"},
       SpecOf(kind) \cup {OfStructure(kind, "Metadata")}, OfKind(kind))

GetKindEntity(d, kind) ==
    Op("get_entity", "GET", Services4(d, kind) \o <<Uuid>>, {}, {}, {}, OfKind(kind))

DeleteKindEntity(d, kind) ==
    Op("delete_entity", "DELETE", Services4(d, kind) \o <<Uuid>>, {}, {}, {}, {})

PutKindEntity(d, kind) ==
    Op("update_entity", "PUT", Services4(d, kind) \o <<Uuid>>, {}, {"spec", "metadata"},
       SpecOf(kind), OfKind(kind))

-----------------------------------------------------------------------------
(* The procedures                                                          *)

\* A schema with one key goes by that key
KeyOf(key, plain) == IF key \in {Void, Plain} THEN plain ELSE key

Input(base, proc) == <<base, KeyOf(proc.argument, "Input")>>

Output(base, proc) == <<base, KeyOf(proc.result, "Output")>>

\* Mutant: the procedures of all kinds have the same base
KindlessBase(d, kind, proc) == <<d.prefix, d.version, proc.name>>

\* kind and entity procedures have the same base
KindBase(d, kind, proc) == <<d.prefix, d.version, kind.name, proc.name>>

ProviderBase(d, proc) == <<d.prefix, d.version, proc.name>>

\* A procedure, as what a schema belongs to
OfProcedure(class, kind, proc) == <<class, kind.name, proc.name>>

OfProvider(proc) == <<"provider", proc.name>>

\* processEmptyValidation
OrNothing(key, ref) == IF key = Void THEN {Nothing} ELSE {ref}

InputRef(base, whose, proc) ==
    OrNothing(proc.argument, Ref(Input(base, proc), <<"argument", whose>>))

OutputRef(base, whose, proc) ==
    OrNothing(proc.result, Ref(Output(base, proc), <<"result", whose>>))

KindRefs(d, class, kind, proc) ==
    [input |-> InputRef(KindBase(d, kind, proc), OfProcedure(class, kind, proc), proc),
     output |-> OutputRef(KindBase(d, kind, proc), OfProcedure(class, kind, proc), proc)]

CallConstructorProcedure(d, kind, proc) ==
    Op("create_entity", "POST", Services4(d, kind), {}, {}, KindRefs(d, "kind", kind, proc).input,
       IF proc.result = Void THEN {Nothing} ELSE OfKind(kind))

CallKindProcedure(d, kind, proc) ==
    LET refs == KindRefs(d, "kind", kind, proc)
    IN  Op("kind_procedure", "POST", Services4(d, kind) \o <<"procedure", proc.name>>, {}, {},
           refs.input, refs.output)

CallEntityProcedure(d, kind, proc) ==
    LET refs == KindRefs(d, "entity", kind, proc)
    IN  Op("entity_procedure", "POST", Services4(d, kind) \o <<Uuid, "procedure", proc.name>>, {}, {},
           refs.input, refs.output)

CallProviderProcedure(d, proc) ==
    Op("provider_procedure", "POST", <<"services", d.prefix, d.version, "procedure", proc.name>>,
       {}, {}, InputRef(ProviderBase(d, proc), OfProvider(proc), proc),
       OutputRef(ProviderBase(d, proc), OfProvider(proc), proc))

-----------------------------------------------------------------------------
(* The whole                                                               *)

\* getConstructorProcedureName; the SDK names on_create so
IsConstructor(proc) == proc.name = "create"

Constructors(kind) == {proc \in ToSet(kind.kprocs) : IsConstructor(proc)}

KindOps(d, kind) ==
    {GetKind(d, kind), PostKindFilter(d, kind), GetKindEntity(d, kind), DeleteKindEntity(d, kind),
     PutKindEntity(d, kind)}
    \cup (IF Constructors(kind) = {} THEN {PostKind(d, kind)}
          ELSE {CallConstructorProcedure(d, kind, proc) : proc \in Constructors(kind)})
    \cup {CallKindProcedure(d, kind, proc) : proc \in ToSet(kind.kprocs) \ Constructors(kind)}
    \cup {CallEntityProcedure(d, kind, proc) : proc \in ToSet(kind.eprocs)}

Ops(d) ==
    (UNION {KindOps(d, kind) : kind \in ToSet(d.kinds)})
    \cup {CallProviderProcedure(d, proc) : proc \in ToSet(d.procs)}

Entry(name, of) == [name |-> name, of |-> of]

\* addProcedureSchema
ProcedureSchemas(base, whose, proc) ==
    <<Entry(Input(base, proc), <<"argument", whose>>), Entry(Output(base, proc), <<"result", whose>>)>>

\* createSchema goes by the key of the structure; the metadata leave it as it is
StructureSchemas(kind) ==
    <<Entry(<<<<kind.key>>, "Spec">>, <<"Spec", kind.key>>),
      Entry(<<<<kind.key>>, "Status">>, <<"Status", kind.key>>),
      Entry(OneWord(kind.key), <<"structure", kind.key>>),
      Entry(<<<<kind.key>>, "Metadata">>, <<"Metadata", kind.key>>)>>

KindSchemas(d, kind) ==
    LET schemas(class, proc) ==
            ProcedureSchemas(KindBase(d, kind, proc), OfProcedure(class, kind, proc), proc)
    IN  FlattenSeq([i \in DOMAIN kind.kprocs |-> schemas("kind", kind.kprocs[i])])
        \o FlattenSeq([i \in DOMAIN kind.eprocs |-> schemas("entity", kind.eprocs[i])])
        \o StructureSchemas(kind)

ProviderSchemas(d, proc) == ProcedureSchemas(ProviderBase(d, proc), OfProvider(proc), proc)

FirstSchemas == <<Entry(OneWord("Error"), <<"Error">>), Entry(OneWord("Metadata"), <<"Metadata">>),
                  Entry(OneWord("Nothing"), <<"Nothing">>)>>

\* Every assignment to components.schemas, in order
Assigned(d) ==
    FirstSchemas
    \o FlattenSeq([i \in DOMAIN d.kinds |-> KindSchemas(d, d.kinds[i])])
    \o FlattenSeq([i \in DOMAIN d.procs |-> ProviderSchemas(d, d.procs[i])])

\* Object.assign: the last one does
SchemaOf(d, name) ==
    LET all == Assigned(d)
        of == {i \in DOMAIN all : all[i].name = name}
    IN  IF of = {} THEN <<"none">> ELSE all[CHOOSE i \in of : \A j \in of : j <= i].of

Refs(d) == UNION {op.input \cup op.output : op \in Ops(d)}

\* validateOpenAPISchema refuses references that lead nowhere
Documentable(d) == \A ref \in Refs(d) : SchemaOf(d, ref.name) # <<"none">>
=============================================================================
