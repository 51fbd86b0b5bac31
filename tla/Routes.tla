-------------------------------- MODULE Routes --------------------------------
(***************************************************************************)
(* The HTTP interface of the engine: the routes of entity_routes.ts,        *)
(* provider_routes.ts, the login and the documentation, in the order of     *)
(* their registration, and the parameters they admit; and the requests that *)
(* the clients of the engine make.  express answers a request with the      *)
(* first route that matches.                                                *)
(*                                                                          *)
(* A path is a sequence of segments, and a pattern a sequence of sets of    *)
(* segments: Segment stands for a parameter such as :kind.                  *)
(***************************************************************************)
EXTENDS Sequences, Naturals

CONSTANTS
    Segment,   \* every segment of a path
    Params     \* every name of a query or body parameter

Methods == {"GET", "POST", "PUT", "PATCH", "DELETE"}

Route(method, pattern, query, body, handler) ==
    [methods |-> {method}, exact |-> TRUE, pattern |-> pattern, query |-> query,
     body |-> body, handler |-> handler]

\* router.use: every method, and every path that begins so
Use(pattern, handler) ==
    [methods |-> Methods, exact |-> FALSE, pattern |-> pattern, query |-> Params,
     body |-> Params, handler |-> handler]

Paging == {"offset", "limit", "sort"}

Services == {"services"}

\* entity_routes.ts
EntityRoutes == <<
    Route("POST", <<Services, Segment, Segment, {"check_permission"}>>, {}, Params, "check_permission"),
    Route("GET", <<Services, {"intent_watcher"}, Segment>>, {}, Params, "get_intent_watcher"),
    Route("GET", <<Services, {"intent_watcher"}>>,
          Paging \cup {"entity_ref", "created_at", "status"}, Params, "filter_intent_watcher"),
    Route("POST", <<Services, {"intent_watcher"}, {"filter"}>>, Paging,
          {"entity_ref", "created_at", "status"}, "filter_intent_watcher"),
    Route("GET", <<Services, Segment, Segment, Segment>>,
          Paging \cup {"spec", "status", "metadata", "exact", "deleted"}, Params, "filter_entity"),
    Route("GET", <<Services, Segment, Segment, Segment, Segment>>, {}, Params, "get_entity"),
    Route("POST", <<Services, Segment, Segment, Segment, {"filter"}>>, Paging \cup {"exact", "deleted"},
          Paging \cup {"spec", "status", "metadata"}, "filter_entity"),
    Route("PUT", <<Services, Segment, Segment, Segment, Segment>>, {}, {"metadata", "spec"}, "update_entity"),
    Route("POST", <<Services, Segment, Segment, Segment>>, {}, Params, "create_entity"),
    Route("DELETE", <<Services, Segment, Segment, Segment, Segment>>, {}, Params, "delete_entity"),
    Route("POST", <<Services, Segment, Segment, Segment, Segment, {"procedure"}, Segment>>, {}, Params,
          "entity_procedure"),
    Route("POST", <<Services, Segment, Segment, Segment, {"procedure"}, Segment>>, {}, Params,
          "kind_procedure"),
    Route("POST", <<Services, Segment, Segment, {"procedure"}, Segment>>, {}, Params,
          "provider_procedure") >>

Provider == {"provider"}

\* provider_routes.ts
ProviderRoutes == <<
    Route("POST", <<Provider>>, {}, Params, "register_provider"),
    Route("GET", <<Provider>>, {}, Params, "list_providers"),
    Route("GET", <<Provider, Segment, Segment>>, {}, Params, "get_provider"),
    Route("DELETE", <<Provider, Segment, Segment>>, {}, Params, "unregister_provider"),
    Route("GET", <<Provider, Segment>>, {}, Params, "list_provider_by_prefix"),
    Route("POST", <<Provider, Segment, Segment, {"update_status"}>>, {},
          {"context", "metadata", "status"}, "replace_status"),
    Route("PATCH", <<Provider, Segment, Segment, {"update_status"}>>, {},
          {"context", "metadata", "status"}, "update_status"),
    Route("POST", <<Provider, Segment, Segment, {"update_progress"}>>, {},
          {"context", "message", "done_percent"}, "update_progress"),
    Route("POST", <<Provider, Segment, Segment, {"power"}>>, {}, {"power"}, "power"),
    Route("POST", <<Provider, Segment, Segment, {"auth"}>>, {}, Params, "update_auth"),
    Route("GET", <<Provider, Segment, Segment, {"s2skey"}>>, {"deleted"}, Params, "filter_keys"),
    Route("POST", <<Provider, Segment, Segment, {"s2skey"}>>, {},
          {"user_info", "name", "owner", "key"}, "create_key"),
    Route("PUT", <<Provider, Segment, Segment, {"s2skey"}>>, {}, {"active", "uuid"}, "inactivate_key"),
    Route("POST", <<Provider, Segment, Segment, {"s2skey"}, {"filter"}>>, {},
          {"user_info", "name", "owner", "key"}, "filter_keys") >>

\* authn.ts and oauth2.ts
LoginRoutes == <<
    Use(<<Provider, Segment, Segment, {"auth"}, {"user_info"}>>, "user_info"),
    Use(<<Provider, Segment, Segment, {"auth"}, {"login"}>>, "login"),
    Use(<<Provider, Segment, Segment, {"auth"}, {"logout"}>>, "logout"),
    Use(<<Provider, {"auth"}, {"callback"}>>, "callback") >>

\* api_docs_routes.ts, without the assets
DocsRoutes == <<
    Route("GET", <<{"api-docs"}, {"admin"}>>, Params, Params, "admin_docs"),
    Route("GET", <<{"api-docs"}, Segment, Segment>>, Params, Params, "provider_docs"),
    Route("GET", <<{"api-docs"}>>, Params, Params, "list_docs") >>

\* Mutant: the entity API is mounted with its last route first
ProceduresFirst ==
    <<EntityRoutes[13]>> \o LoginRoutes \o ProviderRoutes \o EntityRoutes \o DocsRoutes

\* setUpApplication
AllRoutes == LoginRoutes \o ProviderRoutes \o EntityRoutes \o DocsRoutes

-----------------------------------------------------------------------------

Matches(route, request) ==
    /\ request.method \in route.methods
    /\ Len(route.pattern) <= Len(request.path)
    /\ route.exact => Len(route.pattern) = Len(request.path)
    /\ \A i \in DOMAIN route.pattern : request.path[i] \in route.pattern[i]

\* express: the first route that matches
RouteOf(routes, request) ==
    LET matching == {i \in DOMAIN routes : Matches(routes[i], request)}
    IN  routes[CHOOSE i \in matching : \A j \in matching : i <= j]

IsRouted(request) == \E i \in DOMAIN AllRoutes : Matches(AllRoutes[i], request)

\* Mutant: the parameters of the body are those of the query
CheckAsQuery(route, request) == request.query \subseteq route.query /\ request.body \subseteq route.query

\* check_request
CheckRequest(route, request) == request.query \subseteq route.query /\ request.body \subseteq route.body

\* What becomes of a request: the handler that gets it, or the refusal
Served(request) ==
    IF ~ IsRouted(request) THEN "not_found"
    ELSE LET route == RouteOf(AllRoutes, request)
         IN  IF CheckRequest(route, request) THEN route.handler ELSE "bad_request"

-----------------------------------------------------------------------------
(* The requests of papiea-client and papiea-sdk, with the handler each is   *)
(* meant for                                                                *)

Request(want, method, path, query, body) ==
    [want |-> want, method |-> method, path |-> path, query |-> query, body |-> body]

Entity(p, v, k, u) == <<"services", p, v, k, u>>

\* entity_client.ts; a filter may bring any of the fields and flags of its type
EntityClient(p, v, k, u) ==
    {Request("create_entity", "POST", <<"services", p, v, k>>, {}, {"spec", "metadata"}),
     Request("update_entity", "PUT", Entity(p, v, k, u), {}, {"spec", "metadata"}),
     Request("get_entity", "GET", Entity(p, v, k, u), {}, {}),
     Request("delete_entity", "DELETE", Entity(p, v, k, u), {}, {}),
     Request("filter_entity", "POST", Entity(p, v, k, "filter"),
             {"exact", "deleted"}, {"spec", "status", "metadata"}),
     Request("filter_entity", "POST", Entity(p, v, k, "filter"), {"limit", "offset"}, {"spec"})}

\* The input is the caller's, and any
InvokeEntityProcedure(p, v, k, u, n) ==
    Request("entity_procedure", "POST", <<"services", p, v, k, u, "procedure", n>>, {}, {})

InvokeKindProcedure(p, v, k, n) ==
    Request("kind_procedure", "POST", <<"services", p, v, k, "procedure", n>>, {}, {})

InvokeProviderProcedure(p, v, n) ==
    Request("provider_procedure", "POST", <<"services", p, v, "procedure", n>>, {}, {})

WatcherClient(u) ==
    {Request("get_intent_watcher", "GET", <<"services", "intent_watcher", u>>, {}, {}),
     Request("filter_intent_watcher", "POST", <<"services", "intent_watcher", "filter">>, {},
             {"entity_ref"})}

\* SecurityApiImpl, register, and the contexts of handlers
SdkClient(p, v) ==
    {Request("user_info", "GET", <<"provider", p, v, "auth", "user_info">>, {}, {}),
     Request("filter_keys", "GET", <<"provider", p, v, "s2skey">>, {}, {}),
     Request("create_key", "POST", <<"provider", p, v, "s2skey">>, {}, {"name", "user_info"}),
     Request("register_provider", "POST", <<"provider">>, {}, {"kinds", "prefix"}),
     Request("update_status", "PATCH", <<"provider", p, v, "update_status">>, {},
             {"metadata", "status"}),
     Request("replace_status", "POST", <<"provider", p, v, "update_status">>, {},
             {"metadata", "status"}),
     Request("check_permission", "POST", <<"services", p, v, "check_permission">>, {}, {})}

\* deactivate_key names the key where the route admits its uuid
DeactivateKey(p, v) ==
    Request("inactivate_key", "PUT", <<"provider", p, v, "s2skey">>, {}, {"key", "active"})

\* The names that lead a request to another route
Reserved(request) ==
    \/ request.want = "provider_procedure" /\ request.path[5] = "filter"
    \/ request.want = "create_entity" /\ request.path[4] = "check_permission"
    \/ /\ request.path[1] = "provider" /\ Len(request.path) > 2
       /\ request.path[2] = "auth" /\ request.path[3] = "callback"
       /\ request.want # "user_info"
=============================================================================
