--------------------------- MODULE ProviderRegistry ---------------------------
(***************************************************************************)
(* The providers of one prefix, the collection of their kinds that the     *)
(* diff resolver draws from, and the authorizers that each API process     *)
(* keeps in memory: provider_db_mongo.ts, provider_api_impl.ts, authz.ts.  *)
(*                                                                         *)
(* A call is a register, an unregister, an update_auth, or a check, which  *)
(* stands for any request that is authorized for the provider.  One action *)
(* is one database call, or the start of casbin, with the code up to the   *)
(* next one.                                                               *)
(***************************************************************************)
EXTENDS Naturals, Sequences

CONSTANTS
    Processes,      \* processes that serve the API (main.ts)
    Versions,       \* versions of the provider
    DifferKinds,    \* kinds whose behaviour is Differ, by name
    Auths,          \* contents of an authModel or a policy
    ApiCalls,       \* requests to the API
    Registrations,  \* the Differ kinds that registrations name, in order
    Unset,          \* a field of the authorization that is not there
    NoProvider,     \* no provider, no cached authorizer
    MaxIds          \* bound on the documents that are inserted

VARIABLES providers, intentfulKinds, cached, apiCall, history

registryVars == <<providers, intentfulKinds, cached, apiCall, history>>

AuthFields == {"authModel", "policy"}

Settings == [AuthFields -> Auths \cup {Unset}]

NoAuth == [f \in AuthFields |-> Unset]

\* createAuthorizer needs a model and a policy; without them all is allowed
AuthorizerOf(auth) == IF \E f \in AuthFields : auth[f] = Unset THEN Unset ELSE auth

NoCall == [op |-> "none", pc |-> "idle", process |-> NoProvider, version |-> NoProvider,
           auth |-> NoAuth, doc |-> NoProvider, kinds |-> <<>>]

RegistryInit ==
    /\ providers = [v \in Versions |-> NoProvider]
    /\ intentfulKinds = {}
    /\ cached = [p \in Processes |-> NoProvider]
    /\ apiCall = [c \in ApiCalls |-> NoCall]
    /\ history = [ids |-> 0, saved |-> [v \in Versions |-> {}],
                  disturbed |-> {}, stale |-> {}]

Stored == {v \in Versions : providers[v] # NoProvider}

Goto(c, pc) == apiCall' = [apiCall EXCEPT ![c].pc = pc]

CallAt(c, op, pc) == apiCall[c].op = op /\ apiCall[c].pc = pc

\* Of the fields that are given, the given values; else what was there
Assign(old, new) == [f \in AuthFields |-> IF new[f] = Unset THEN old[f] ELSE new[f]]

-----------------------------------------------------------------------------
(* Calls arrive                                                            *)

ArriveCall(c, p, v, op, pc, auth, kinds) ==
    /\ apiCall[c] = NoCall
    /\ apiCall' = [apiCall EXCEPT ![c] =
           [op |-> op, pc |-> pc, process |-> p, version |-> v, auth |-> auth,
            doc |-> NoProvider, kinds |-> kinds]]
    /\ UNCHANGED <<providers, intentfulKinds, cached, history>>

\* secure_with of the SDK gives all fields or none
Secured == {[f \in AuthFields |-> a] : a \in Auths \cup {Unset}}

Register(c, p, v) ==
    \E auth \in Secured, kinds \in Registrations :
        ArriveCall(c, p, v, "register", "saving", auth, kinds)

Unregister(c, p, v) == ArriveCall(c, p, v, "unregister", "deleting", NoAuth, <<>>)

UpdateAuth(c, p, v) ==
    \E auth \in Settings \ {NoAuth} :
        ArriveCall(c, p, v, "update_auth", "reading", auth, <<>>)

Check(c, p, v) == ArriveCall(c, p, v, "check", "reading", NoAuth, <<>>)

\* get_provider; update_auth changes the fields of what it has read
GetProvider(c) ==
    LET q == apiCall[c]
        d == providers[q.version]
    IN  /\ q.pc = "reading"
        /\ d # NoProvider
        /\ apiCall' = [apiCall EXCEPT
               ![c].pc = IF q.op = "check" THEN "read" ELSE "saving",
               ![c].doc = IF q.op = "check" THEN d
                          ELSE [d EXCEPT !.auth = Assign(@, q.auth)],
               ![c].kinds = d.kinds]
        /\ UNCHANGED <<providers, intentfulKinds, cached, history>>

\* EntityNotFoundError, a call to the database that fails, or an answer that
\* is lost: an update_auth that has saved then returns without on_auth_changed
FailCall(c) ==
    /\ apiCall[c].pc \notin {"idle", "done"}
    /\ Goto(c, "done")
    /\ history' = [history EXCEPT
           !.disturbed = @ \cup {apiCall[c].version},
           !.stale = IF apiCall[c].op = "update_auth" /\ apiCall[c].pc # "reading"
                     THEN @ \cup {apiCall[c].process} ELSE @]
    /\ UNCHANGED <<providers, intentfulKinds, cached>>

-----------------------------------------------------------------------------
(* save_provider: an upsert of the fields that are given, by prefix and    *)
(* version, then the ordered insertion of the kinds with behaviour Differ. *)

\* The _id of a document that was read is part of what is set
SameId(c) ==
    LET q == apiCall[c]
        d == providers[q.version]
    IN  q.op = "update_auth" /\ d # NoProvider => d.id = q.doc.id

Saved(c) ==
    LET q == apiCall[c]
        d == providers[q.version]
    IN  IF q.op = "update_auth" THEN q.doc
        ELSE [id    |-> IF d = NoProvider THEN history.ids + 1 ELSE d.id,
              kinds |-> q.kinds,
              auth  |-> Assign(IF d = NoProvider THEN NoAuth ELSE d.auth, q.auth)]

AfterSave(c) == IF apiCall[c].op = "update_auth" THEN "invalidating" ELSE "done"

\* Authorizers that no invalidation will reach: those of the other processes,
\* and, when the caller is a registration, all of them
NotInvalidated(c) ==
    IF apiCall[c].op = "update_auth" THEN Processes \ {apiCall[c].process} ELSE Processes

SaveProvider(c) ==
    LET q == apiCall[c]
        v == q.version
    IN  /\ q.pc = "saving"
        /\ SameId(c)
        /\ Saved(c).id <= MaxIds
        /\ providers' = [providers EXCEPT ![v] = Saved(c)]
        /\ Goto(c, IF q.kinds = <<>> THEN AfterSave(c) ELSE "inserting")
        /\ history' = [history EXCEPT
               !.ids = IF Saved(c).id > @ THEN Saved(c).id ELSE @,
               !.saved[v] = @ \cup {q.kinds},
               !.stale = IF providers[v] # NoProvider /\ Saved(c).auth # providers[v].auth
                         THEN @ \cup NotInvalidated(c) ELSE @]
        /\ UNCHANGED <<intentfulKinds, cached>>

SaveConflict(c) ==
    /\ apiCall[c].pc = "saving"
    /\ ~SameId(c)
    /\ Goto(c, "done")
    /\ history' = [history EXCEPT !.disturbed = @ \cup {apiCall[c].version}]
    /\ UNCHANGED <<providers, intentfulKinds, cached>>

\* Mutant: the last kind is not waited for
InsertAllButLast(c) ==
    LET q == apiCall[c]
        k == <<q.version, Head(q.kinds)>>
    IN  /\ q.pc = "inserting"
        /\ intentfulKinds' =
               IF Len(q.kinds) = 1 THEN intentfulKinds ELSE intentfulKinds \cup {k}
        /\ apiCall' = [apiCall EXCEPT
               ![c].kinds = IF k \in intentfulKinds THEN <<>> ELSE Tail(@),
               ![c].pc = IF k \in intentfulKinds \/ Len(q.kinds) = 1
                         THEN AfterSave(c) ELSE @]
        /\ UNCHANGED <<providers, cached, history>>

\* insertMany is ordered: it ends at the first kind that is there, and the
\* code takes that for a registration that is repeated
InsertKind(c) ==
    LET q == apiCall[c]
        k == <<q.version, Head(q.kinds)>>
    IN  /\ q.pc = "inserting"
        /\ intentfulKinds' = intentfulKinds \cup {k}
        /\ apiCall' = [apiCall EXCEPT
               ![c].kinds = IF k \in intentfulKinds THEN <<>> ELSE Tail(@),
               ![c].pc = IF k \in intentfulKinds \/ Len(q.kinds) = 1
                         THEN AfterSave(c) ELSE @]
        /\ UNCHANGED <<providers, cached, history>>

-----------------------------------------------------------------------------
(* delete_provider                                                         *)

DeleteProvider(c) ==
    LET v == apiCall[c].version
    IN  /\ apiCall[c].pc = "deleting"
        /\ providers[v] # NoProvider
        /\ providers' = [providers EXCEPT ![v] = NoProvider]
        /\ apiCall' = [apiCall EXCEPT
               ![c].kinds = providers[v].kinds,
               ![c].pc = IF providers[v].kinds = <<>> THEN "done" ELSE "unlisting"]
        /\ history' = [history EXCEPT !.disturbed = @ \cup {v}, !.stale = Processes]
        /\ UNCHANGED <<intentfulKinds, cached>>

UnlistKinds(c) ==
    LET q == apiCall[c]
    IN  /\ q.pc = "unlisting"
        /\ intentfulKinds' = intentfulKinds
               \ {<<q.version, q.kinds[i]>> : i \in DOMAIN q.kinds}
        /\ Goto(c, "done")
        /\ UNCHANGED <<providers, cached, history>>

-----------------------------------------------------------------------------
(* The cache of authorizers: one per prefix, whatever the version          *)

\* A check of the process has read a provider that has changed since, and may
\* go on to store its authorizer
HoldsOld(p) == \E c \in ApiCalls :
    /\ apiCall[c].process = p /\ apiCall[c].op = "check" /\ apiCall[c].pc \in {"read", "creating"}
    /\ apiCall[c].version \in Stored => apiCall[c].doc.auth # providers[apiCall[c].version].auth

\* Mutant: on_auth_changed leaves what is cached
InvalidateNothing(c) ==
    LET p == apiCall[c].process
    IN  /\ apiCall[c].pc = "invalidating"
        /\ Goto(c, "done")
        /\ history' = [history EXCEPT !.stale = IF HoldsOld(p) THEN @ \cup {p} ELSE @ \ {p}]
        /\ UNCHANGED <<providers, intentfulKinds, cached>>

\* on_auth_changed, when save_provider has returned
Invalidate(c) ==
    LET p == apiCall[c].process
    IN  /\ apiCall[c].pc = "invalidating"
        /\ cached' = [cached EXCEPT ![p] = NoProvider]
        /\ Goto(c, "done")
        /\ history' = [history EXCEPT !.stale = IF HoldsOld(p) THEN @ \cup {p} ELSE @ \ {p}]
        /\ UNCHANGED <<providers, intentfulKinds>>

\* getAuthorizerByObject
Authorize(c) ==
    LET p == apiCall[c].process
        a == AuthorizerOf(apiCall[c].doc.auth)
    IN  /\ CallAt(c, "check", "read")
        /\ IF cached[p] = NoProvider /\ a # Unset
           THEN Goto(c, "creating") /\ UNCHANGED cached
           ELSE /\ Goto(c, "done")
                /\ cached' = [cached EXCEPT ![p] = IF @ = NoProvider THEN a ELSE @]
        /\ UNCHANGED <<providers, intentfulKinds, history>>

\* casbin is ready
CacheAuthorizer(c) ==
    /\ CallAt(c, "check", "creating")
    /\ cached' = [cached EXCEPT ![apiCall[c].process] = AuthorizerOf(apiCall[c].doc.auth)]
    /\ Goto(c, "done")
    /\ UNCHANGED <<providers, intentfulKinds, history>>

RegistryNext ==
    \E c \in ApiCalls :
        \/ \E p \in Processes, v \in Versions : \/ Register(c, p, v)
                                                \/ Unregister(c, p, v)
                                                \/ UpdateAuth(c, p, v)
                                                \/ Check(c, p, v)
        \/ GetProvider(c) \/ SaveProvider(c) \/ SaveConflict(c) \/ InsertKind(c)
        \/ DeleteProvider(c) \/ UnlistKinds(c)
        \/ Invalidate(c) \/ Authorize(c) \/ CacheAuthorizer(c)
        \/ FailCall(c)

RegistrySpec == RegistryInit /\ [][RegistryNext]_registryVars

-----------------------------------------------------------------------------
(* Properties                                                              *)

Docs == [id : 1..MaxIds, kinds : Seq(DifferKinds), auth : Settings]

ASSUME RegistryAssumption ==
    /\ MaxIds \in Nat
    /\ Registrations \subseteq Seq(DifferKinds)
    /\ NoProvider \notin Docs

\* The variables have their types.
RegistryTypeOK ==
    /\ providers \in [Versions -> Docs \cup {NoProvider}]
    /\ intentfulKinds \subseteq Versions \X DifferKinds
    /\ cached \in [Processes -> Settings \cup {Unset, NoProvider}]
    /\ apiCall \in [ApiCalls ->
           [op : {"none", "register", "unregister", "update_auth", "check"},
            pc : {"idle", "reading", "saving", "inserting", "deleting", "unlisting",
                  "invalidating", "read", "creating", "done"},
            process : Processes \cup {NoProvider}, version : Versions \cup {NoProvider},
            auth : Settings, doc : Docs \cup {NoProvider}, kinds : Seq(DifferKinds)]]
    /\ history \in [ids : 0..MaxIds, saved : [Versions -> SUBSET Seq(DifferKinds)],
                    disturbed : SUBSET Versions, stale : SUBSET Processes]

Working(v) == \E c \in ApiCalls : apiCall[c].version = v /\ apiCall[c].pc # "done"

Listed(v) == \A i \in DOMAIN providers[v].kinds :
                 <<v, providers[v].kinds[i]>> \in intentfulKinds

NamedOnce(names) == \A i, j \in DOMAIN names : names[i] = names[j] => i = j

\* However many calls save a provider at once, when all of them name the same
\* kinds, each once, and none fails, the diff resolver can draw each of its
\* kinds once they have returned: a call that meets a kind of another stops,
\* and the other goes on.
SameKindsListed ==
    \A v \in Stored \ history.disturbed :
        /\ ~Working(v)
        /\ \A k \in history.saved[v] : k = providers[v].kinds
        /\ NamedOnce(providers[v].kinds)
        => Listed(v)

\* A process goes on with an authorizer that no stored version of the provider
\* has only when it was told of no change (another process made it, or a
\* registration or a deletion did), or when a request that had read the
\* provider before the change stored its authorizer after the invalidation.
StaleIsExcused ==
    \A p \in Processes :
        \/ cached[p] = NoProvider
        \/ \E v \in Stored : cached[p] = AuthorizerOf(providers[v].auth)
        \/ p \in history.stale
        \/ \E c \in ApiCalls : apiCall[c].process = p /\ apiCall[c].op = "update_auth"
                               /\ apiCall[c].pc \in {"inserting", "invalidating"}

\* What save_provider says of a kind that is already listed, "then we are
\* reregestering provider and its fine" (provider_db_mongo.ts:73): after a
\* registration that did not fail, every kind with behaviour Differ is listed.
ReregisteringIsFine ==
    \A v \in Stored \ history.disturbed : ~Working(v) => Listed(v)
=============================================================================
