------------------------------ MODULE Interface ------------------------------
(***************************************************************************)
(* The interface of the engine as its users see it: a provider registers,   *)
(* and perhaps registers another description later; a user reads the        *)
(* documentation of the provider and calls what it describes, or uses the   *)
(* clients; the engine routes the call and looks for what it names.         *)
(***************************************************************************)
EXTENDS ApiDocs

CONSTANTS
    Descriptions,  \* what the provider may register
    Later,         \* those of them it may register over another
    Unknown        \* no provider, no documentation, no answer

VARIABLES
    provider,  \* the description the engine has
    docs,      \* the description whose documentation the user has read
    answer     \* the last call, what it was meant for and what came of it

interfaceVars == <<provider, docs, answer>>

\* What stands in a path is a segment of it: prefix, version and names of every
\* description, and the id of an entity
ASSUME SegmentsAssumption ==
    /\ {Uuid, "procedure"} \subseteq Segment
    /\ \A d \in Descriptions :
        /\ {d.prefix, d.version} \subseteq Segment
        /\ \A kind \in ToSet(d.kinds) :
            /\ kind.name \in Segment
            /\ \A proc \in ToSet(kind.kprocs) \cup ToSet(kind.eprocs) : proc.name \in Segment
        /\ \A proc \in ToSet(d.procs) : proc.name \in Segment

\* The kinds and the procedures of a description are lists
ASSUME ListsAssumption ==
    \A d \in Descriptions :
        /\ d.kinds \in Seq(ToSet(d.kinds))
        /\ d.procs \in Seq(ToSet(d.procs))
        /\ \A kind \in ToSet(d.kinds) : /\ kind.kprocs \in Seq(ToSet(kind.kprocs))
                                      /\ kind.eprocs \in Seq(ToSet(kind.eprocs))

ASSUME ParamsAssumption == {"spec", "metadata", "kinds", "prefix"} \subseteq Params

InterfaceInit ==
    /\ provider = Unknown
    /\ docs = Unknown
    /\ answer = Unknown

Register(d) ==
    /\ provider # Unknown => d \in Later
    /\ provider' = d
    /\ answer' = Unknown
    /\ UNCHANGED docs

\* GET /api-docs/:provider/:version
ReadDocs ==
    /\ provider # Unknown
    /\ docs' = IF Documentable(provider) THEN provider ELSE Unknown
    /\ answer' = Unknown
    /\ UNCHANGED provider

Has(procs, name) == \E proc \in ToSet(procs) : proc.name = name

KindsNamed(name) == {kind \in ToSet(provider.kinds) : kind.name = name}

\* find_kind, and the lookups of the three kinds of procedure
Found(handler, path) ==
    CASE handler \in {"filter_entity", "create_entity", "update_entity", "get_entity",
                      "delete_entity"} -> KindsNamed(path[4]) # {}
      [] handler = "kind_procedure" -> \E kind \in KindsNamed(path[4]) : Has(kind.kprocs, path[6])
      [] handler = "entity_procedure" -> \E kind \in KindsNamed(path[4]) : Has(kind.eprocs, path[7])
      [] handler = "provider_procedure" -> Has(provider.procs, path[5])
      [] OTHER -> TRUE

Answer(by, request) ==
    LET handler == Served(request)
    IN  [by |-> by, request |-> request,
         got |-> IF Found(handler, request.path) THEN handler ELSE "not_found"]

\* A call as the documentation describes it
CallDocumented ==
    /\ provider # Unknown
    /\ docs # Unknown
    /\ \E op \in Ops(docs) : answer' = Answer("docs", op.request)
    /\ UNCHANGED <<provider, docs>>

\* Of the procedures of a kind
ProcedureClient(d, kind) ==
    {InvokeEntityProcedure(d.prefix, d.version, kind.name, Uuid, proc.name) :
        proc \in ToSet(kind.eprocs)}
    \cup {InvokeKindProcedure(d.prefix, d.version, kind.name, proc.name) :
            proc \in ToSet(kind.kprocs)}

Clients(d) ==
    (UNION {EntityClient(d.prefix, d.version, kind.name, Uuid) \cup ProcedureClient(d, kind) :
                kind \in ToSet(d.kinds)})
    \cup {InvokeProviderProcedure(d.prefix, d.version, proc.name) : proc \in ToSet(d.procs)}
    \cup SdkClient(d.prefix, d.version) \cup {DeactivateKey(d.prefix, d.version)}
    \cup WatcherClient(Uuid)

CallClient ==
    /\ provider # Unknown
    /\ \E request \in Clients(provider) : answer' = Answer("client", request)
    /\ UNCHANGED <<provider, docs>>

InterfaceNext ==
    \/ \E d \in Descriptions : Register(d)
    \/ ReadDocs
    \/ CallDocumented
    \/ CallClient

InterfaceSpec == InterfaceInit /\ [][InterfaceNext]_interfaceVars

-----------------------------------------------------------------------------
(* Properties                                                              *)

Outcomes == {AllRoutes[i].handler : i \in DOMAIN AllRoutes} \cup {"not_found", "bad_request"}

\* The variables have their types: what comes of a call is a handler or a refusal.
InterfaceTypeOK ==
    /\ provider \in Descriptions \cup {Unknown}
    /\ docs \in Descriptions \cup {Unknown}
    /\ answer # Unknown => answer.got \in Outcomes

\* A request taken from the documentation, while that is of the description the
\* engine has, reaches the handler it is documented with, its parameters pass
\* and the kind and the procedure it names are found; except for the names that
\* the routes reserve.
DocumentedIsServed ==
    answer # Unknown /\ answer.by = "docs" /\ docs = provider =>
        ((answer.got = answer.request.want) <=> ~ Reserved(answer.request))

\* So does every request of the clients, the deactivation of a key excepted,
\* which is refused.
ClientIsServed ==
    answer # Unknown /\ answer.by = "client" =>
        ((answer.got = answer.request.want)
         <=> ~ Reserved(answer.request) /\ answer.request.want # "inactivate_key")

\* A kind procedure and an entity procedure have one name
Shared(d, ref) ==
    \E k, l \in ToSet(d.kinds) :
        \E p \in ToSet(k.kprocs), q \in ToSet(l.eprocs) :
            k.name = l.name /\ p.name = q.name /\ ref.name[1] = KindBase(d, k, p)

Signatures(d) ==
    {<<ProviderBase(d, proc), proc>> : proc \in ToSet(d.procs)}
    \cup UNION {{<<KindBase(d, kind, proc), proc>> : proc \in ToSet(kind.kprocs) \cup ToSet(kind.eprocs)} :
                  kind \in ToSet(d.kinds)}

\* Argument and result of procedures of one name have one key
OneKeyTwice(d, ref) ==
    \E s, t \in Signatures(d) : Input(s[1], s[2]) = ref.name /\ Output(t[1], t[2]) = ref.name

\* The structure of a kind has the name of another
Misnamed(d, ref) ==
    \E kind, other \in ToSet(d.kinds) :
        /\ kind.key # kind.name /\ other.key = kind.name
        /\ ref.name[1] = <<kind.name>>

\* The structure of a kind has a name that every documentation uses
Taken(d, ref) == \E kind \in ToSet(d.kinds) : ref.name = OneWord(kind.key)

\* In a documentation that is generated at all, every reference leads to the
\* schema of the thing it was written for; unless a kind procedure and an entity
\* procedure have one name, or argument and result of a procedure the same key,
\* or the structure of a kind the name of another kind, or Nothing, or Error.
RefsLeadHome ==
    docs # Unknown => \A ref \in Refs(docs) :
        SchemaOf(docs, ref.name) = ref.of
        \/ Shared(docs, ref) \/ OneKeyTwice(docs, ref) \/ Misnamed(docs, ref) \/ Taken(docs, ref)
=============================================================================
