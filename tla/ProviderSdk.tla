----------------------------- MODULE ProviderSdk -----------------------------
(***************************************************************************)
(* A provider built with papiea-sdk (provider_sdk/typescript_sdk.ts): kinds *)
(* and handlers are added, register posts the description to the engine,    *)
(* and the engine then calls the handlers by their URLs.                    *)
(*                                                                          *)
(* A signature is what the engine is told of a handler: its class, its      *)
(* path, and, for the properties, the number of the handler it was          *)
(* registered with.  routes is the order in which express matches.          *)
(***************************************************************************)
EXTENDS Naturals, Sequences

CONSTANTS
    KindNames,  \* kinds the provider may describe, by name
    Names,      \* names of procedures and signatures of fields
    NoKind,     \* the kind of a provider procedure
    Unsent,     \* nothing sent to the engine, nothing known to it
    MaxRoutes   \* bound on the handlers registered

ASSUME SdkAssumption == MaxRoutes \in Nat

VARIABLES
    built,      \* kinds with a Kind_Builder
    kinds,      \* those of them in the provider's list
    signatures, \* what has been described, by kind and of the provider
    routes,     \* the handlers, in the order of registration
    sent,       \* the description register is posting, or Missing
    engine,     \* the description the engine has
    server      \* Provider_Server_Manager; run is should_run

sdkVars == <<built, kinds, signatures, routes, sent, engine, server>>

describing == <<built, kinds, signatures, routes>>

Path(k, n) == <<k, n>>

Routed == {routes[i].path : i \in DOMAIN routes}

\* express calls the first handler whose route matches
Dispatch(path) ==
    routes[CHOOSE i \in DOMAIN routes :
               /\ routes[i].path = path
               /\ \A j \in 1..i-1 : routes[j].path # path].handler

SdkInit ==
    /\ built = {}
    /\ kinds = {}
    /\ signatures = {}
    /\ routes = <<>>
    /\ sent = Unsent
    /\ engine = Unsent
    /\ server = [run |-> FALSE, health |-> FALSE, state |-> "down"]

ProgramRuns == server.state \in {"down", "listening"}

-----------------------------------------------------------------------------
(* Describing the provider; nothing stops the program from doing so while  *)
(* register waits for the engine                                           *)

NewKind(k) ==
    /\ ProgramRuns
    /\ k \notin built
    /\ built' = built \cup {k}
    /\ kinds' = kinds \cup {k}
    /\ UNCHANGED <<signatures, routes, sent, engine, server>>

\* add_kind brings a kind back with the signatures it has
AddKind(k) ==
    /\ ProgramRuns
    /\ k \in built \ kinds
    /\ kinds' = kinds \cup {k}
    /\ UNCHANGED <<built, signatures, routes, sent, engine, server>>

\* remove_kind leaves the builder and the routes
RemoveKind(k) ==
    /\ ProgramRuns
    /\ k \in kinds
    /\ kinds' = kinds \ {k}
    /\ UNCHANGED <<built, signatures, routes, sent, engine, server>>

Handler == Len(routes) + 1

\* Mutant: every route calls the first handler
RegisterOldHandler(path) == routes' = Append(routes, [path |-> path, handler |-> 1])

RegisterHandler(path) == routes' = Append(routes, [path |-> path, handler |-> Handler])

Sign(class, path) == [class |-> class, path |-> path, handler |-> Handler]

\* Procedures are kept by class and name, and the last description counts
Replace(s) ==
    signatures' = {t \in signatures : t.class # s.class \/ t.path # s.path} \cup {s}

Procedure(class, k, n) ==
    /\ ProgramRuns
    /\ Len(routes) < MaxRoutes
    /\ Replace(Sign(class, Path(k, n)))
    /\ RegisterHandler(Path(k, n))
    /\ server' = [server EXCEPT !.run = TRUE]
    /\ UNCHANGED <<built, kinds, sent, engine>>

EntityProcedure(k, n) == k \in built /\ Procedure("entity", k, n)

\* also on_create and on_delete, whose names are derived from the kind
KindProcedure(k, n) == k \in built /\ Procedure("kind", k, n)

ProviderProcedure(n) == Procedure("provider", NoKind, n)

HealthChecked(srv) == [srv EXCEPT !.run = TRUE, !.health = TRUE]

\* Intentful signatures are a list, and they bring the health check
On(k, n) ==
    /\ ProgramRuns
    /\ Len(routes) < MaxRoutes
    /\ k \in built
    /\ signatures' = signatures \cup {Sign("intentful", Path(k, n))}
    /\ RegisterHandler(Path(k, n))
    /\ server' = HealthChecked(server)
    /\ UNCHANGED <<built, kinds, sent, engine>>

-----------------------------------------------------------------------------
(* register posts the description, and listens once that is answered       *)

RegisterProvider ==
    /\ ProgramRuns
    /\ sent = Unsent
    /\ kinds # {}
    /\ sent' = {s \in signatures : s.path[1] \in kinds \cup {NoKind}}
    /\ UNCHANGED <<describing, engine, server>>

\* The engine takes the description
Post ==
    /\ ProgramRuns
    /\ sent # Unsent
    /\ engine' = sent
    /\ UNCHANGED <<describing, sent, server>>

\* The post is refused, or its answer is lost
PostFails ==
    /\ ProgramRuns
    /\ sent # Unsent
    /\ sent' = Unsent
    /\ UNCHANGED <<describing, engine, server>>

\* startServer; a second one listens on the port of the first, and nothing
\* handles the error of its socket
StartServer ==
    /\ ProgramRuns
    /\ sent # Unsent
    /\ engine = sent
    /\ sent' = Unsent
    /\ server' = [server EXCEPT !.state = IF ~server.run THEN @
                                          ELSE IF @ = "listening" THEN "crashed"
                                          ELSE "listening"]
    /\ UNCHANGED <<describing, engine>>

\* cleanup; the provider is not used after it
Cleanup ==
    /\ server.state = "listening"
    /\ server' = [server EXCEPT !.state = "closed"]
    /\ UNCHANGED <<describing, sent, engine>>

SdkNext ==
    \/ \E k \in KindNames : \/ NewKind(k)
                            \/ AddKind(k)
                            \/ RemoveKind(k)
                            \/ \E n \in Names : \/ EntityProcedure(k, n)
                                                \/ KindProcedure(k, n)
                                                \/ On(k, n)
    \/ \E n \in Names : ProviderProcedure(n)
    \/ RegisterProvider \/ Post \/ PostFails \/ StartServer \/ Cleanup

SdkSpec == SdkInit /\ [][SdkNext]_sdkVars

-----------------------------------------------------------------------------
(* Properties                                                              *)

Paths == (KindNames \cup {NoKind}) \X Names

Signatures == [class : {"entity", "kind", "provider", "intentful"}, path : Paths,
               handler : 1..MaxRoutes]

\* The variables have their types; there are at most MaxRoutes handlers.
SdkTypeOK ==
    /\ built \subseteq KindNames
    /\ kinds \subseteq built
    /\ signatures \subseteq Signatures
    /\ routes \in Seq([path : Paths, handler : 1..MaxRoutes])
    /\ Len(routes) <= MaxRoutes
    /\ sent = Unsent \/ sent \subseteq Signatures
    /\ engine = Unsent \/ engine \subseteq Signatures
    /\ server \in [run : BOOLEAN, health : BOOLEAN,
                   state : {"down", "listening", "crashed", "closed"}]

Alone(s) == \A i \in DOMAIN routes : routes[i].path = s.path => i = s.handler

\* Whatever is added, removed, registered again or described while a
\* registration is under way, each signature the engine holds leads to a route;
\* and to the handler it was described with, unless another was registered
\* under the same path: express then calls the first of them, so a procedure
\* described again keeps its old handler, and an entity procedure and a kind
\* procedure of one name share theirs.
CallbackReachesHandler ==
    engine # Unsent =>
        \A s \in engine : /\ s.path \in Routed
                          /\ Alone(s) => Dispatch(s.path) = s.handler
=============================================================================
