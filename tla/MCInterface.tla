------------------------------ MODULE MCInterface ------------------------------
(* EngineInterface on small instances for TLC: kinds, data of them, providers.  *)
EXTENDS EngineInterface

------------------------------------------------------------------------------
(* Kinds with two fields, a a value and b any of the shapes below.  A node is   *)
(* its path from the root                                                       *)

Nodes ==
    {<<>>, <<"a">>, <<"b">>, <<"b", "c">>, <<"b", "d">>, <<"b", "[]">>, <<"b", "[]", "c">>,
     <<"b", "[]", "c", "d">>, <<"b", "[]", "[]">>, <<"b", "[]", "[]", "c">>}

TopNode == <<>>
Levels == [n \in Nodes |-> 4 - Len(n)]
FieldNames == {"a", "b", "c", "d"}
NoItems == <<"none">>

Field(type, papiea, nullable, fields, required, items) ==
    [type |-> type, papiea |-> papiea, nullable |-> nullable, fields |-> fields,
     required |-> required, items |-> items]

NoItem == [type |-> "none"]
Leaf(papiea, nullable) == Field("string", papiea, nullable, <<>>, {}, NoItem)
Obj(papiea, fields, required) == Field("object", papiea, FALSE, fields, required, NoItem)
Arr(papiea, items) == Field("array", papiea, FALSE, <<>>, {}, items)

Value == Leaf("none", FALSE)
StatusOnly == Leaf("status-only", FALSE)
Leaves == {Value, StatusOnly, Leaf("other", FALSE), Leaf("none", TRUE)}
Objects == {Obj("none", [c |-> l], r) : l \in Leaves, r \in {{}, {"c"}}}
StatusObjects == {Obj("status-only", [c |-> l], {"c"}) : l \in Leaves}
InnerObjects == {Obj("none", [c |-> Obj("none", [d |-> StatusOnly], {"d"})], r) : r \in {{}, {"c"}}}
Arrays == {Arr(p, i) : p \in {"none", "status-only"}, i \in Objects \cup {Value}}
ObjectArrays == {Arr("none", i) : i \in InnerObjects \cup StatusObjects \cup {StatusOnly}}
NestedArrays == {Arr("none", Arr("none", Obj("none", [c |-> l], r))) :
                     l \in {Value, StatusOnly}, r \in {{}, {"c"}}}
TwoFields == {Obj("none", [c |-> Value, d |-> l], r) : l \in {Value, StatusOnly}, r \in {{}, {"c"}}}

OtherShapes == StatusObjects \cup Arrays \cup ObjectArrays \cup NestedArrays \cup TwoFields

KindOf(a, b, required) == Obj("none", [a |-> a, b |-> b], required)

LeafKinds == {KindOf(a, b, r) : a \in {Value, StatusOnly}, b \in Leaves, r \in {{}, {"b"}}}
ObjectKinds == {KindOf(Value, b, r) : b \in Objects, r \in {{}, {"b"}}}
OtherKinds == {KindOf(Value, b, {}) : b \in OtherShapes}

\* What a path leads to; a node that does not occur is a value
ShapeAt(s) ==
    LET shape[n \in Nodes] ==
            IF n = TopNode THEN s
            ELSE LET above == shape[Front(n)]
                 IN  IF Last(n) = "[]" THEN IF above.items = NoItem THEN Value ELSE above.items
                     ELSE IF Last(n) \in DOMAIN above.fields THEN above.fields[Last(n)] ELSE Value
    IN  shape

Schema(s, e) ==
    [n \in Nodes |->
        LET o == ShapeAt(s)[n]
        IN  [type |-> o.type, papiea |-> o.papiea, nullable |-> o.nullable, required |-> o.required,
             fields |-> [f \in DOMAIN o.fields |-> Append(n, f)],
             items |-> IF o.items = NoItem THEN NoItems ELSE Append(n, "[]"),
             entity |-> e]]

CheckedSchemas ==
    {Schema(s, "differ") : s \in LeafKinds \cup ObjectKinds \cup OtherKinds}
    \cup {Schema(KindOf(Value, b, r), "spec-only") : b \in Leaves, r \in {{}, {"b"}}}

CheckedKinds ==
    [schema : CheckedSchemas, extra : {FALSE}]
    \cup {[schema |-> Schema(KindOf(Value, StatusOnly, {}), "differ"), extra |-> TRUE]}

------------------------------------------------------------------------------
(* Data of these kinds, and some that are not                                   *)

Val == [is |-> "value"]
Of(fields) == [is |-> "object", of |-> fields]
List(items) == [is |-> "list", of |-> items]

FieldData ==
    {Val, Of(<<>>), Of([c |-> Val]), Of([d |-> Val]), Of([c |-> Val, d |-> Val]),
     List(<<Val>>), List(<<Of([c |-> Val])>>), List(<<List(<<Of(<<>>)>>)>>)}

EntityData ==
    {Val, Of(<<>>), Of([a |-> Val])}
    \cup {Of([b |-> d]) : d \in FieldData} \cup {Of([a |-> Val, b |-> d]) : d \in FieldData}

ConstructorStatuses ==
    {Val, Of(<<>>), Of([a |-> Val]), Of([b |-> Of([c |-> Val])]), Of([b |-> Of([d |-> Val])])}

AllData == EntityData \cup FieldData \cup {List(<<Of(<<>>)>>)}

Deepness[d \in AllData] ==
    IF d.is = "value" \/ DOMAIN d.of = {} THEN 0
    ELSE 1 + Max({Deepness[d.of[k]] : k \in DOMAIN d.of})

------------------------------------------------------------------------------
(* Providers, with procedures of every form of argument and result, and with    *)
(* the names that meet in a schema or a route                                   *)

Proc(name, argument, result) == [name |-> name, argument |-> argument, result |-> result]
Kind(name, key, kprocs, eprocs) == [name |-> name, key |-> key, kprocs |-> kprocs, eprocs |-> eprocs]
Description(prefix, version, ks, procs) ==
    [prefix |-> prefix, version |-> version, kinds |-> ks, procs |-> procs]

Keys == {"void", "plain", "X"}
KindProcs ==
    {<<Proc("do", k, "Y")>> : k \in Keys} \cup {<<Proc("create", k, "void")>> : k \in Keys}
    \cup {<<Proc("do", "X", "X")>>, <<Proc("do", "plain", "void")>>,
          <<Proc("create", "X", "Y"), Proc("do", "plain", "void")>>}
EntityProcs == {<<>>, <<Proc("do", "X", "Y")>>}

LaterDescriptions == {Description("p", "v", <<Kind("k", "k", <<>>, <<>>)>>, <<>>)}

AllDescriptions ==
    {Description("p", "v", <<Kind("k", "k", ks, es)>>, <<>>) : ks \in KindProcs, es \in EntityProcs}
    \cup {Description("p", "v", <<Kind("k", "k", <<>>, es), Kind("l", key, <<Proc("do", "X", "Y")>>, <<>>)>>,
                      <<Proc("filter", "void", "void"), Proc("do", "X", "X")>>) :
              es \in EntityProcs, key \in {"k", "l", "m"}}
    \cup {Description("auth", "callback",
                      <<Kind("check_permission", "check_permission", <<Proc("filter", "void", "X")>>,
                             <<Proc("filter", "plain", "X")>>)>>, <<>>)}
    \cup {Description("p", "v", <<Kind("k", "l", <<>>, <<>>), Kind("l", "k", <<>>, <<>>)>>, <<>>),
          Description("p", "v", <<Kind("k", "k", <<>>, <<>>), Kind("Nothing", "Nothing", <<>>, <<>>)>>,
                      <<Proc("do", "void", "X")>>)}
    \cup LaterDescriptions

PathSegments ==
    {"p", "v", "k", "l", "do", "create", "filter", "procedure", "check_permission",
     "intent_watcher", "auth", "callback", "services", "provider", "{uuid}", "update_status",
     "s2skey", "user_info", "Nothing"}

ParamNames ==
    {"kinds", "prefix", "spec", "status", "metadata", "name", "user_info", "key", "active", "uuid",
     "exact", "deleted", "limit", "offset", "entity_ref"}
================================================================================
