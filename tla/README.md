# papiea-engine in TLA+

Papiea is an intent engine. Users write what an *entity* should be (its **spec**),
providers report what it is (its **status**), and the engine keeps calling providers until
no *diff* is left between the two, while *intent watchers* tell users how far each of their
changes has come. The engine is two kinds of Node.js processes over one MongoDB database:

* `main.ts`, any number of them, serve the HTTP API: users create, update and delete entities,
  providers register and report statuses;
* `diff_resolver_main.ts`, one, runs three endless loops: the **diff resolver**, the
  **intent resolver** and the **intentful listener**.

No process holds a lock. All coordination is by single-document MongoDB operations, some of
them compare-and-swaps, some not, and anything may happen between two `await`s. Around them
are the two interfaces people write against: the HTTP API, with its generated documentation,
its validation and its errors, and papiea-sdk, with which providers are built. The modules are
about both: what interleaves, and what has to agree although it is written in several places.

All paths below are under `papiea-engine/src/` unless they say otherwise.

## 1. Inventory

| Component | State | Operations | What makes it correct |
|---|---|---|---|
| Watchlist store: `intentful_engine/watchlist.ts`, `databases/watchlist_db_mongo.ts` | one document: entries per entity, with the diffs being resolved and their backoffs, and a hash | `edit_watchlist(editor)`: read, edit a copy, compare-and-swap on the hash, retry | edits are atomic; the hash is that of the content; callers do not block each other |
| Entity store: `databases/entity_db_mongo.ts`, `graveyard_db_mongo.ts`, `entity/entity_api_impl.ts`, `provider/provider_api_impl.ts`, `intentful_core/*_strategies/` | a document per live entity (spec, `spec_version`, status, `status_hash`), the graveyard of deleted ones | create, update spec, delete, replace status, update status; each is several database calls | no lost spec update; no status overwritten unseen; deleted entities are buried, once; a creation only inserts |
| Intent watchers: `intentful_engine/intent_resolver.ts`, `databases/intent_watcher_db_mongo.ts` | a document per spec change: its version, its open diffs, its status | saved by creations and updates, judged by two loops, deleted when old | statuses mean what `core.ts` says; a watcher ends when its diffs do; a deleted one stays deleted |
| Intentful listener: `intentful_engine/intentful_listener_mongo_simple.ts` | the last spec and status seen of every listed entity, in memory | poll the listed entities, call `onChange` for the changed ones | no change is missed for ever |
| Diff resolver: `intentful_engine/diff_resolver.ts` | keys in flight, in memory; backoffs in the watchlist | rediff every listed entity, keep the list of its diffs in step, call a provider for one diff, set or increase the backoff, drop entities without diffs, add random entities | one call per entity in flight; list and diffs in step; the loop survives |
| Differ: `intentful_core/differ_impl.ts`, `papiea-lib-clj/core.cljc` | none | compile a structural field signature, evaluate it on a spec and a status | the diffs are the differences of the fields of the signature |
| Strategy context: `intentful_core/intentful_context.ts`, `*_strategies/` | one strategy object per behaviour, with mutable kind, user and provider | hand out the strategy of a kind | a request runs with its own kind and user, or at least with a kind of the same behaviour |
| Provider registry: `databases/provider_db_mongo.ts`, `provider/provider_api_impl.ts` | provider documents, the collection of intentful kinds | register, unregister, update authorization | every kind of a provider is drawn by the diff resolver |
| Authorization: `auth/authz.ts`, `authn.ts`, `casbin.ts` | a cache of authorizers per provider prefix, in the memory of each process | authorize, invalidate on change | no stale authorizer is kept after a change the process was told of |
| Session and S2S keys: `auth/session_key.ts`, `auth/oauth2.ts`, `auth/s2s.ts`, `databases/*key_db_mongo.ts` | key documents, tokens at an identity provider | login, use, refresh, logout; create, use, inactivate | an ended key is never accepted again; a stored session can be refreshed |
| Validation: `validator/index.ts` | none | check the description of a kind, specs, statuses | what is stored conforms to its kind |
| Routes and documentation: `entity/entity_routes.ts`, `provider/provider_routes.ts`, `api_docs/` | none | route a request, admit its parameters, generate the documentation of a provider | what is documented, or sent by the clients, is served |
| Procedures and errors: `entity/entity_api_impl.ts`, `errors/` | none | call a procedure, constructor or destructor of the provider, turn a failure into an answer | a failure keeps its status through nested calls |
| SDK of providers: `papiea-sdk/typescript/src/provider_sdk/typescript_sdk.ts` | the description of the provider, express routes, the entity of a background task | describe, register, serve; start, stop, update and kill a task | the engine's callbacks lead to their handlers; no task is out of reach |
| Client and shared packages: `papiea-client`, `papiea-core`, `papiea-backend-utils` | none | requests to the API | its requests are served |
| Filters and pagination, start-up, logging, configuration | none | | not modelled |

**How they interact.** A spec update goes through the strategy context to the entity store,
saves a watcher and adds the entity to the watchlist. The diff resolver reads the watchlist,
compares the entity, and calls the provider, which answers with a delay and later reports a
status to the entity store. The listener sees the change through the watchlist; it and the
periodic pass of the intent resolver judge the watchers of the entity. When no diff is left
the diff resolver drops the entity from the watchlist, and sometimes adds random entities
back, in case it dropped one too early. Before any of this a request passes the routes, the
extractors of session and service keys, the authorizer of the provider and the validator; and
the kinds it names, the strategies that serve it and the handlers it ends at come from the
description that a provider built with the SDK and registered.

**What is hard.** The requests and the three loops interleave at every database call. Reads are
used after other calls have run: the entity read before its watchers are listed, the status hash a
provider has seen, the watch list of the diff resolver. Multi-document operations (create, delete,
update with its watcher) have no transaction, and a process can end between any two of their
calls. Writes can fail and their answers can be lost. The backoff and retry of provider calls race
with late answers. The loops live only as long as nothing escapes their error handling. In the API
processes, strategies and authorizers are shared by all requests; sessions are refreshed by
whoever finds them expired; kinds are listed in a second collection. In the SDK, a background task
is a chain of requests over one field. And the same thing is often written twice: the spec without
its status-only fields, the paths and parameters of a request, the error of an answer.
`PROJECT.json` lists each of these hazards at its line, with the properties that cover it.

## 2. Modules

| Module | Models | Depends on |
|---|---|---|
| `Watchlist` | the watchlist as a value and the editor functions the engine passes to `edit_watchlist` | |
| `AtomicWatchlist` | what `edit_watchlist` promises: each edit at one instant | `Watchlist` |
| `WatchlistDb` | the read-edit-compare-and-swap loop of concurrent callers, with errors and lost answers | `Watchlist`; refines `AtomicWatchlist` |
| `EntityStore` | all requests on one entity, call by call | |
| `IntentWatchers` | watchers of one entity: the requests that save them and both loops that judge them | |
| `IntentHistory` | `IntentWatchers` with the history that the meanings of watcher statuses speak of | `IntentWatchers` |
| `DiffResolver` | the diff resolver's loop and the handler calls it makes, for one entity among others | |
| `DiffHistory` | `DiffResolver` with the delays that handlers asked for | `DiffResolver` |
| `StrategyContext` | the strategies every request shares, and what each request reads from them | |
| `ProviderRegistry` | provider documents, intentful kinds, and the cached authorizers of several processes | |
| `SessionKeys` | sessions, service keys, and the identity provider as the code uses it | |
| `ProviderSdk` | describing, registering and serving a provider | |
| `BackgroundTask` | the calls of a background task and its entity | |
| `Validator` | the checks of kinds, specs and statuses, over descriptions of any depth, and the requests that store what passes | |
| `Routes` | every route of the engine and every request of its clients | |
| `ApiDocs` | the operations, schemas and references of a generated documentation | `Routes` |
| `Interface` | a provider, its documentation and the calls of its users | `ApiDocs` |
| `Procedures` | a failure on its way back through procedures, constructors and destructors | |
| `Services` | the five modules that keep state outside the entities, next to each other | `StrategyContext`, `ProviderRegistry`, `SessionKeys`, `ProviderSdk`, `BackgroundTask` |
| `EngineInterface` | the modules of the interface, next to each other | `Validator`, `Interface`, `Procedures` |
| `WatchlistDb_proofs`, `EntityStore_proofs`, `IntentWatchers_proofs`, `DiffResolver_proofs`, `BackgroundTask_proofs`, `Validator_proofs` | theorems | the module of that name |
| `Services_proofs` | theorems about strategies, the registry, keys, the SDK and the composition | `Services`, `BackgroundTask_proofs` |
| `Interface_proofs` | theorems about requests, documentations, failures and the composition | `EngineInterface`, `Validator_proofs` |
| `MC...` | constants for TLC | |

### From code to state and actions

One action is one database call with the code up to the next call, because between two
`await`s nothing else runs in the process and MongoDB executes single-document operations
atomically. A request or a loop keeps its local variables and the place where it stands (`pc`).

**WatchlistDb.** `doc` is the document; `pc[e]`, `edit[e]`, `local[e]`, `result[e]` are a
caller's place, editor, copy with the hash it was read with, and returned watchlist.
`GetWatchlist`, `GetMissing` and `CreateWatchlist` are `get_watchlist`; `UpdateWatchlist` and
`UpdateConflict` are the compare-and-swap of `update_watchlist`; the conflict of the first
creation is outside the `try` block in the code and ends the call (`CreateConflict`). An
editor that throws (`Applicable`) ends the call. A watch is the *set* of its diffs: order and
backoffs belong to the diff resolver, and an edit applied twice is not distinguished here.

**EntityStore.** `entity` is the live document, with the `_id` MongoDB gives it, `graveyard`
the buried ones, `req[r]` a request. The `Start...` actions are the arrivals with what callers
send; then one action per call: `CheckExisting`, `GetHighest`, `CheckGraveyard`, `GetEntity`,
`UpdateSpec`, `Reread`, `ReplaceStatus`, `Recheck`, `UpdateStatus`, `Final`, `Bury`, `Remove`.
`update_spec`, `replace_status` and `update_status` are upserts, as in the code. A hash stands
for the content it was computed from. `accepted` is history: every spec the database took.

**IntentWatchers.** `Construct` and `Update` are the arrival of a creation, which finds no entity,
and of a spec update, which finds one; either names any version. `WriteSpec` and `WriteStatus`,
`ReadBack`, `SaveWatcher`, `AddToWatchlist` are their calls up to the watcher (`upd[u]`). The
operations on spec and status are upserts: after a deletion, by a creation or by a request that
overlaps it, the entity comes back, with a lower version than its watchers if that is the version
the request names, or as a document without spec or status, on which the differ throws
(`Comparable`). The graveyard and the status hash are in `EntityStore`; without them more requests
succeed here. `newest` and `removed` are history: the highest version a spec was written with, and
whether there was a deletion. `ListenerWatchlist` and `ListenerEntity`
are a poll of the listener, with `known` what it has seen last. `ListTerminal`,
`DeleteWatcher`, `PeriodicWatchlist`, `HasWatcher`, `PeriodicEntity` are the periodic pass.
`ListActiveWatchers` and `ProcessActiveWatcher` are `onChange` in either loop: the judgement of
a watcher depends only on the entity the loop holds and on the watcher as listed, so it is
computed at the listing and written later, which is where the interleavings are. A watcher's
diffs are a set, since the judgement compares counts with zero and with the number of all
diffs. `Compound` are the values that are objects or arrays, which `!==` never finds equal.
The diff resolver appears as `RemoveFromWatchlist` and `AddRandomEntities`: it may drop a
listed entity at any time, since any error of its comparison makes it do so.

**DiffResolver.** `stored` is the list of the entity on the watchlist, `list` the loop's copy of
it (`diff_results`), `flight` the promise in `inFlightKeys` with the list it closes over. A pass
is `ReadWatchlist`, then, when the loop has dealt with the entities before this one,
`SkipInFlight` or `Rediff`, then the turns of the two loops that bring the list in step
(`PushDiff`, `SpliceDiff`, `NextTurn`), `Select`, and `Race` or `Draw` and `AddRandomEntities`.
An edit is atomic, as `WatchlistDb` shows, but it changes the loop's own list once per run of
the editor; `reruns` counts the runs after the first. A handled diff carries a `handler_url`, so `deepEqual` finds it equal to no diff
computed later: `Marked` stands for all of those. `Select` takes the list's entry at the
position of the selected diff, with all that follows when the two lists are not in step; past
the end of the list the code throws a `TypeError` in a promise that has left `inFlightKeys` when
the loop gets to its race, so the pass just ends. `StoreFails` and `RestoreFails` are the
two chances to store a backoff. Other entities appear as what wakes the loop from its race
(`OtherWakes`) or ends it (`Die`). Delays are the time left, and `Tick` is the clock. Not
distinguished: the number of retries, which only determines how long a computed backoff is,
and signatures that yield the same fields.

**StrategyContext.** `held[s]` is the request whose kind, user and provider the strategy `s`
holds, `request[r].uses` what `r` has read from its strategy and whose it was. `Fetch` is a
getter of the context with its `setKind`, `setUser` and `setProvider`; each later action is the
code after an await, which reads the fields again: `NameConstructed`, `ValidateEntity`,
`FinishCreate`, `SaveWatcher`, `DiffStatus`. Destructors, and constructors, are called before
the first await.

**ProviderRegistry.** `providers` is the collection for one prefix, `intentfulKinds` that of the
kinds, `cached` the authorizer of each process. `SaveProvider` is the upsert of
`save_provider`, `InsertKind` one insertion of the ordered `insertMany`, `UnlistKinds` the end
of an unregistration. `GetProvider` copies the document, which `update_auth` then changes and
writes back. `Authorize` is `getAuthorizerByObject` up to the start of casbin,
`CacheAuthorizer` what follows, `Invalidate` is `on_auth_changed`. `history` keeps which
versions had a failing call and which caches no invalidation will reach.

**SessionKeys.** A token is a number; `idp` says which are expired, which the identity provider
would still refresh, and which were revoked. `Exchange` and `CreateKey` are a login, `GetKey`,
`Refresh`, `UpdateKey` the use of a session that may be expired, `InactivateKey` and `Revoke` a
logout, `Reap` the expiry index of the collection. `FindSecret` is the extractor of service
keys, after which the session extractor is tried; `InsertService`, `FindService`,
`MarkInactive` are `create_s2s_key` and `update_s2s_key`. Whether a refresh ends the token it
was made with is up to the identity provider (`Rotations`).

**ProviderSdk.** `kinds` are the kinds of the builder's list, `signatures` what has been
described, `routes` the handlers in the order of their registration at express, `sent` what
`register` is posting and `engine` what the engine has. `On`, `EntityProcedure`,
`KindProcedure`, `ProviderProcedure` describe and route; `Dispatch` takes the first route that
matches, as express does.

**BackgroundTask.** `task` is the field `task_entity` that all calls share, `call[c].meta` the
metadata a request was sent with. `ServeCreate`, `ServeGet`, `ServeSpec`, `ServeStatus`,
`ServeDelete` are the engine's part, with its compare of versions and of status hashes; `Take`
and `SendStatus` go on with the answer. A lost answer and a failure before the request look the
same to the caller, `Fails`. The handler of the field and the engine's calls of it are not
here: they change neither spec nor status.

**Validator, Routes, ApiDocs, Interface, Procedures.** These have little state; what counts are
their operators. A description is a function from nodes to objects, each with the nodes of its
fields and of its items, and what is below a node is lower: the tree the code walks and changes in
place, of any size, in a form that recursive functions, and so the theorems, can speak of. Data is
a tree of values, objects and lists. `ValidKind` is `validate_kind_structure`, `SpecModel` and `DocumentedSpec` the two removals of
status-only fields, `Validate` the checks around `swagger-model-validator` (`Conforms`, which is
external). `Create`, `UpdateSpec` and `UpdateStatus` are the handlers up to their first write: they
read, validate and leave in `pending[r]` what they write next. `WriteSpec`, `WriteStatus` and
`WritePartial` are those writes, upserts that may meet another status or none, and `Fail` a
conflict, an error or a crash before them. The status of a creation is the spec, or what a
constructor returned (`Returned`), which is stored even when it is refused: `validate_entity` does
not wait for `validate_status`. The spec of a spec-only entity is written once more, as its status.
`Shallow` is the merge of a partial status that is validated, `IsMerge` the one that is stored: by
the paths that `dotnotation` makes of it (`Emits`), none for an object without fields, in every
element of a list. The database's merge is a relation, since only what it leaves counts. One
handler is interleaved with replacements of the status and deletions in a single step, which is
enough to come between any two of its calls. `unchecked` says whether the stored status, or a part
of it, passed no validation. Left out are nulls, partial statuses that put an object where a list
is at the top or the reverse (`UpdateStatus` asks for the same form), and a second registration
of a kind: `SpecHasNoStatusOnly` and `StatusConforms` are read under one description. A route is a method, a pattern of sets of segments, and the parameters it admits;
`Served` is the first that matches. `Ops` and `SchemaOf` are the documentation; the name of a
schema, which the code joins with `-`, is the pair of what it joins and the last word, so names
that are equal only because a name has a `-` in it are left out. In
`Procedures`, `calls` is the chain of engine requests in progress; `Response` is
`PapieaErrorResponseGenerator`, `Invocation` the SDK's error, `AxiosFailure` and `ConvertError`
what the engine makes of an answer; `fault` remembers what was raised and what it came through.

## 3. Runs

| Run | Instance | Shows |
|---|---|---|
| `watchlist` | 2 callers, 2 keys, 1 diff, every editor, errors, lost answers | `WatchlistDb` implements `AtomicWatchlist` (`AtomicEdits`); the stored hash is right; a waiting copy is the edit of what it is compared with; `LockFree` |
| `entity_safety` | 3 requests of all five kinds, with and without a named version, 2 values | no lost update (`SpecHistory`), `BuriedBeforeGone`, `LiveIsNotBuried`; only a deletion makes room for an entity without a spec (`SpeclessFollowsBurial`) |
| `entity_exclusion` | 4 requests: creations, deletions, whole statuses | `CreationInserts`, `StatusSeenBeforeOverwrite` |
| `intents` | 2 requests, creations that name version 0 or 1 and spec changes that name 1 or 2, 1 field, 2 values, partial documents, deletions, errors, dying loops, restarts | `OnlySuperseded`, `DeletedStaysDeleted` |
| `intents_end` | 1 spec change, under fairness | `WatchersEnd` |
| `resolver` | 2 diffs that come and go, one edit that runs again, other entities, failures, restarts, 1 tick of delay, under fairness | `FlightIsWatched`, `ListBounded`, `EveryDiffIsCalled` |
| `services` | five parts, each with three calls, or two processes, kinds and requests | a request uses its own kind where it reads before it awaits, and one of the same behaviour elsewhere; concurrent registrations list all kinds (`SameKindsListed`); a stale authorizer is one that no invalidation reaches (`StaleIsExcused`); ended keys stay ended; stored sessions can be refreshed; callbacks reach their handlers; a background task is as reported, and not forgotten |
| `interface` | 77 descriptions of a kind with two fields, up to three levels deep, data for them, statuses of constructors, 1 handler beside replacements and deletions; 28 providers; calls three deep | specs and statuses conform to their kinds, but for the three ways past the validation that `StatusConforms` names; both schemas of a spec agree; documented and client requests are served, except the reserved names; references of the documentation lead home; a failure keeps its status and its nearest cause |
| `spec_only_diff`, `intents_stale`, `resolver_delay`, `kinds_unlisted` | the smallest instance that shows it | the code does not do what a document says, see section 6 |

**Why these bounds.** A compare-and-swap race needs two callers. The deletion hazards need a
deletion, what it races with, and a creation that brings the entity back: three requests; two
concurrent creations that race after a deletion, and a status for what they make, take four. A
watcher is superseded by a second change; the loops that race on it are always there. One field
with two values is enough to make specs and statuses differ or not. Two diffs are enough for the
two lists of the resolver to differ in length, order and content, and one tick of delay for a
backoff to be running or over; the second comes and goes, alone or after the first (`DiffLists`).
In `intents` the versions 0 to 2 let the entity come back below, at and above that of a watcher.
Of a field, the run reaches every status of a watcher but `Completed Partially`, which takes two;
`SupersededCorrect` covers it.

`MaxReruns` is 1 in `resolver`: one editor meets a conflict and runs again. Such a run changes the
loop's copy once more and the stored list not, and when an answer is stored after the loop has read
the watchlist and before it compares the entity, the two change places. So the list of two diffs
reaches `MaxList`, which is three, plus one. `ListBounded` says that each run again adds one entry
at most, and that the passes of the loop, however many, add none. The code has no bound of its own
on the runs; each needs a request that edits the watchlist within the milliseconds of an edit
of the loop. `MaxReruns` is 0 in `resolver_delay`, where nothing of the kind is needed.

In `services` and `interface` the parts share no state, so one of them moves in a behaviour and
the others stay as they begin: `part` says which. Three calls are a registration, an `update_auth`
and a check that race, a start, a stop and an update of a task, or a login and two requests that
refresh its session; `MaxTokens` is the two tokens of one refresh. The registry has one version of
the provider; with two, the run takes three minutes and passes too. Registrations name `k1`, or
`k1` and `k2`, which is what makes an insertion stop early; the strategy context has four kinds,
of two behaviours and none, with and without constructor. In `interface` a required, nullable or
status-only field may stand below an object, an array or an array of arrays, which are all the
cases the checks tell apart; the providers have procedures with every form of argument and result,
and the names that collide with a route or in the documentation. A chain of three calls is the shortest where a cause is
lost. `MaxRoutes` is two, a handler and another on the same path. The theorems of section 5 have
none of these bounds.

`CHECK_DEADLOCK FALSE` is in the runs whose requests run once each: when all are done and the
loops are dead, or when each actor of `services` has made its one call, nothing need happen.
The runs `watchlist` and `interface` check deadlock.

**Symmetry** is used in safety runs only, over requests, values and the actors of `services`,
which no action tells apart. The mutants named in comments are plausible bugs; each property is
violated under one.

## 4. Fairness

* `WatchlistDb!Fairness`: a call that awaits the database goes on, since the driver answers or
  fails (weak fairness of each caller's `Progress`). Nothing is assumed about who wins a race:
  `LockFree` only says that calls keep returning while calls are made. A single caller may
  lose for ever, and the code has no queue that would prevent it.
* `IntentWatchers!Fairness`: the endless loops go on (weak fairness), and the calls of the
  periodic pass do not fail each time they are made (strong fairness, because an error makes a
  step disabled by ending the pass). Random entities are added again and again, also while the
  periodic pass is about to read the watchlist: the delays of the two loops are independent
  settings, the sample is random, and the diff resolver gets to it whenever nothing is in
  flight. This is an assumption about chance and about providers that answer. `WatchersEnd`
  has the premise that the periodic pass is not dead: an error in its unprotected calls ends
  it for good, and then watchers do stay open until the process is restarted.

* `DiffResolver!Fairness`: the loop, its operation and the clock go on. The `Random` strategy,
  the default, picks each diff again and again, both when the list is longer than it should be
  and when it is not: the pick does not depend on the list. The entity is drawn again and again
  by `addRandomEntities`, which assumes that now and then nothing is in flight, and no handler
  stays unhealthy. `EveryDiffIsCalled` has the premises that failures and changes of the diffs
  end and that the loop is not dead. With the `Basic` strategy, which always picks the first
  diff, it does not hold, nor is it meant to.

## 5. Theorems

All theorems hold for every value of the constants, under the assumptions named in the modules.

* `WatchlistDb_proofs`: `TypeCorrect`, `HashCorrect`, `CopyCorrect`, and `EditsAreAtomic`, the
  refinement. The inductive invariant `Inv` adds `CopyHasDocument` to the invariants checked:
  a waiting copy never meets an empty collection, where the upsert would write it without a
  compare. Assumed: the hash is injective (the code hashes the content with object-hash).
* `EntityStore_proofs`: `HistoryCorrect` by `HistoryInv`: ids are fresh and a document has a spec
  exactly when it has a version, or an upsert of a status could restart a history. `BurialCorrect`
  by `BurialInv`: a request about to remove the entity removes the one it buried
  (`RemovesItsBurial`), although the code removes by reference; it holds because the graveyard
  refuses a second burial of the same `_id`, so two deletions cannot both get to the removal.
  `DisposalCorrect` by `DisposalInv`. `SpeclessCorrect` by `SpeclessInv`: a request writes a
  status only after there has been an entity, so where it finds none that entity was buried, and
  the first entity that is buried has a spec. `InsertsCorrect`, where no spec is updated and no
  creation names its version, by `AlternateInv`: versions alternate, a live entity has an odd one
  and a burial an even one, so the version a creation goes on with is never that of the entity
  another has inserted. A spec update, or a version that is named, breaks the alternation, and run
  `entity_exclusion` leaves both out too. `StatusSeenCorrect`, where statuses are only replaced
  whole and no spec is updated, by `HashInv`: the hash of a document is that of its status, or
  marks an entity just inserted. The hash of a partial update does not identify the status, and
  the upsert of a spec update inserts an empty status with a hash of another.
* `IntentWatchers_proofs`: `SupersededCorrect` by `SupersededInv`: neither the live entity nor
  one that a loop holds is newer than the newest spec there has been (`LiveNotNewer`,
  `HeldNotNewer`), which only grows, so a late judgement is still true, also when the entity has come
  back with a lower version; and without a deletion the live entity has that newest spec. `DeletedCorrect` from the types alone.
* `DiffResolver_proofs`: `TypeCorrect` and `FlightIsWatchedCorrect`, for any number of diffs and
  of edits that run again, by `Inv`: between the comparison and the selection of a diff the loop
  works on an entity that is watched and has no operation in flight (`WorksAlone`).
  `ListBoundedCorrect`, for any number of diffs and of edits that run again, by `Lengths`: the
  loop's copy, the stored list and that of the operation in flight differ in length by `reruns` at
  most whenever one may take the place of another (`Near`). An edit adds to both lists alike and a
  run again to one of them (`SplicedNear`, `PushedBound`), so a list that is replaced by a longer one
  stays within the bound.
  `SignaturesAssumption` says that the diffs of a kind are finitely many and that there is one at
  most for each.
* `Services_proofs`, the parts of `Services` one by one and together:
  * strategies: `ProcedureCorrect`, `KindCorrect` and `SharingCorrect`, for any kinds and
    behaviours, assuming that `Nobody` is no request. By `StrategyInv`: the holder of a strategy
    is a request that has fetched that very strategy (a request never changes its kind or its
    operation afterwards), which is why sharing stays within one.
  * registry: `SameKindsCorrect` and `StaleCorrect`, for any processes, versions, kinds and calls,
    by `RegistryInv`. Its part `Listing` is why concurrent registrations of the same kinds list
    them all although each insertion stops at the first duplicate: of the calls that still insert,
    each is past what is listed already (`PastListed`), and as long as something is missing one of
    them has the whole rest before it, none of which is listed (`Leads`): it meets no duplicate
    unless another has overtaken it and leads instead. The property, and the theorem, are about
    descriptions that name each kind once (`NamedOnce`), which neither the engine nor the SDK
    checks. The part `Excused` says that each process has a
    current authorizer, or is about to get an invalidation or to cache a current one, or is
    one that nobody tells.
  * SDK: `CallbackCorrect`, assuming only that the bound `MaxRoutes` is a number: a signature is
    made together with its route and carries its position, and routes are only appended.
  * keys: `KeysTypeCorrect`, `EndCorrect` and `AliveCorrect`, assuming that session,
    service and administrator keys differ (`DistinctKeys`). `EndCorrect` holds because an ended
    session has no document and nothing inserts it again: a refresh only updates. `AliveCorrect`
    needs that each token belongs to one session, so that a refresh, a rotation or a revocation
    for one key cannot end the token of another.
  * together: `ServicesImplementParts`: the composition implements the specification of each
    part, so `ServicesTypeCorrect` and `ServicesCorrect` follow from the theorems about the parts.
* `BackgroundTask_proofs`: `TaskTypeCorrect`, `TaskKnown` and `ReportCorrect`, assuming that the
  values which mark the absence of a task or an entity are none (`TaskMarkers`). The invariant:
  while no two starts met, one creation at most is under way or one entity exists; the one in
  `task` or held by the creation; every call that is past a creation holds metadata of it; and a
  call that no other overlapped holds the spec it wrote from its spec update to its status update.
* `Interface_proofs`, failures: `ProceduresTypeCorrect`, `CodeCorrect` and `CauseCorrect`, for any
  `MaxDepth` and any statuses of handlers between 400 and 599, by `ProceduresInv`: only a call that
  was posted to a handler waits for an inner one, and the type of an answer is that of the last
  call it came through.
* `Interface_proofs`, requests: `ClientCorrect` and `DocumentedCorrect`, for any descriptions and
  any names in them. The first segment of a path picks the table of routes (`EntityServed`,
  `ProviderServed`), the method and the number of segments leave one route of it or a few, and
  these are told apart by their literal segments; so each request is served as meant (the lemmas
  `...Served`), and what it names is found, because it was made of the description the engine
  has (`InterfaceInv`). Assumed: the names in descriptions are segments of paths, and the
  parameters that requests carry are parameters (`SegmentsAssumption`, `ParamsAssumption`).
* `Interface_proofs`, documentation: `RefsCorrect`, for any number of kinds and procedures with any
  names. A documentation is a list of lists, joined by folds. By induction over its places, such a
  list holds what its parts hold and nothing else (`Flattened`), so the assignments to
  `components.schemas` are known by the form of their names (`EntryForms`), and those with the name
  of a reference by how many words the name has: three of them a procedure of the provider, four one
  of a kind, one a part of a structure. All assignments of one name then agree, and it does not
  matter which comes last (`HomeWhenAgreed`), unless names meet in one of the ways the property
  lists. That the documentation was generated at all is needed for the structures: a kind whose
  structure has another key than its name has references that lead nowhere, or, when another kind
  has that key, to that kind (`Misnamed`). Assumed: kinds and procedures are
  lists (`ListsAssumption`). `InterfaceTypeCorrect` is about the outcome of a call: whatever is
  requested, it is the handler of a route or a refusal.
* `Validator_proofs`: `ValidatorTypeCorrect`, `SpecsCorrect`, `StatusesCorrect` and
  `DocumentationCorrect`, for descriptions and data of any size and depth. A function defined by
  recursion is some function that solves its equation, so the proofs begin with the existence of
  one: `SolutionExists`, for every equation that asks only for values of lower rank, by recursion
  up to each rank; `RankInduction` is the induction over the trees. From these,
  * `SpecConforms`: what conforms to the schema of a spec has no value for a status-only field and
    conforms to the kind itself. This is why the status of an entity conforms where it is its spec,
    for whose validation as a status nobody waits.
  * `DeepConforms`: when the old status conforms and the shallow merge with a partial status does,
    and the partial status has no object without fields, then what the database makes of both
    conforms. The shallow merge conforms field by field; where the stored one descends it merges two
    values that conform to the same field, and where it does not it takes one of them
    (`MergeConforms`). Of an object without fields (`Full` excludes it) the two merges make different
    things.
  * `PendingValid`, of the invariant `ValidatorInv`: a write that was validated still is when it comes:
    specs and whole statuses are as they were, and a partial status whose premise is gone is marked
    (`Outdate`).
  * `SameRemoval`: where nothing requires a status-only field, removing the names of such fields from
    `required` changes nothing. `NothingRequired` carries that down the tree, as far as
    `validate_status_only_field` looks; `Overlooks` is what it does not look at.

  Assumed: descriptions and data are finite trees, a kind itself is not status-only, and the shallow
  merges of data are trees, too (`NodesAssumption`, `SchemasAssumption`, `ValuesAssumption`).
* `Interface_proofs`, together: `InterfaceImplementsParts`, `PartsTypeCorrect` and `PartsCorrect`:
  what holds of each part holds of the composition that run `interface` checks.

Assumptions on constants only say that names and markers differ, that bounds are numbers, and that
what is sent has the form of JSON, finite trees and lists; where a theorem needs more (which operations there are), that is a hypothesis in its statement.

Every invariant and every action property of the passing runs is stated by a theorem. Only
model-checked are

* `LockFree`, `WatchersEnd` and `EveryDiffIsCalled`: liveness under fairness, which the provers
  do not reach;
* the properties of the runs that expect a violation, which are false.

Induction over data is proved here from the well-foundedness of the natural numbers, for sets
instead of predicates (`SetInduction`, `RankInduction`, `IndexInduction`), since the provers cannot
take an induction theorem that has a predicate for a parameter.

## 6. Where documents and code differ

* `spec_only_diff`: two overlapping updates of a spec-only entity leave it with a diff, which
  `Papiea-design.org:136` says it never has.
* `intents_stale`: a loop that read the entity before a spec update completes the watcher of
  that update, whose value was never set, against `core.ts:24`.
* `resolver_delay`: a diff whose handler asked for a delay is called again before the delay has
  passed, when another diff of the entity appears, against the test named "Delay to intentful
  operations should be awaited". With `OtherEntities` TRUE the same property is violated without
  any change: another entity's answer wakes the loop, which reads the watchlist just before the
  backoff is stored and deals with the entity just after.
* `kinds_unlisted`: a registration with a kind that is new, after one that is already listed,
  does not list the new one, and reports success; the comment at `provider_db_mongo.ts:74` says
  that a duplicate is fine.

Seen, and not the subject of a run, because no document contradicts it, or only remotely.

*Entities and watchers.* A status operation that overlaps a deletion inserts an entity without a
spec (`SpeclessFollowsBurial` says that nothing else does). The hash of a partial status does
not identify the status, so a stale hash may be accepted (`entity_db_interface.ts:38`), which is
why `StatusSeenBeforeOverwrite` is checked without partial updates. A resolved diff drops out of
its watcher, which may then end as outdated and not partially completed
(`intent_resolver.ts:97`). An update that overlaps a deletion inserts the
entity again; a creation naming `spec_version` 0 reuses version 1; a crash between the two
writes of a deletion leaves the entity live and buried (a TODO in `dispose` says so); the
watchers of a deleted entity stay active for ever, or, when the entity comes back, are judged
by it, so an outdated watcher can stand beside a live entity with a lower version
(`OnlySuperseded` says so much as remains true); objects and arrays always count as changed.

*Shared state.* An entity that a constructor returned is named, validated and watched with the
kind, provider and user the shared strategy holds then, which may be those of another request
for a kind with a constructor. `update_auth` overwrites a registration that came between its
read and its write. Two starts of a background task that meet create two entities, and a later
stop acts on the one that was stored last. `secure_with` and `update_auth` change the caches of
one process only. The retry exponent of a kind stays in the variable that all later computations of
a backoff read (`utils.ts:147`), also for kinds without an exponent of their own.

*Validation.* A spec that is a number, a boolean or an empty list passes for empty. Three statuses
get past the validation, and `StatusConforms` excepts no other: one that a constructor returned,
since a creation does not wait for the validation of its status; a partial one whose write meets
another status than was validated, or, after a deletion, none; and a partial one with an object
without fields in it, which is validated and not stored. The items of arrays of arrays escape the check
of required status-only fields, and so do objects in an array that require nothing themselves, with
all that is below them; the two schemas of such a spec differ. Items that are status-only
themselves disappear from the schema of a spec, whose array then takes anything. A required name
that is no field of its object makes the check throw, and the registration fail.

*Interface.* The client's `deactivate_key` sends `key` and `active`; the route admits `active`
and `uuid` and refuses it. A provider procedure named `filter`, a kind named `check_permission`,
and a provider `auth` with version `callback`, are shadowed by other routes. A kind procedure and
an entity procedure of one name share their schemas in the documentation, and argument and
result of a procedure with the same key overwrite each other; a kind whose structure has another
key than its name makes the documentation fail, or, when another kind's structure has that name
for its key, shows the fields of that kind; and a kind whose structure has the key `Error` or
`Nothing` takes the place of the schema that every documentation has under that name. The
documentation calls the metadata of a spec update optional, while the route reads
`metadata.spec_version`, and promises 204 for a deletion.

*SDK and clients.* `provider_client` and `kind_client` close the tracer they were given when they
are made (`close_func` is the result of the call). A second `register` of a listening provider
listens again and crashes. Two handlers under one path share the first.

## 7. Not modelled

* Filters, sorting and pagination translate a query into one of MongoDB; what matters of it is
  what MongoDB answers.
* The differ and the compiler of structural field signatures (`differ_impl.ts`, `core.cljc`) are
  pure; the other modules take the diffs they find as given.
* Policies are evaluated by casbin, leaves of schemas by swagger-model-validator, sessions and
  tokens by an identity provider: they appear as the code uses them. The user-data expressions
  of `user_data_evaluator.ts` are not modelled.
* The length of a computed backoff and the count of retries (`utils.ts`); start-up, logging,
  audit logging, tracing and configuration; examples and descriptions of the documentation.
* The Python and Go packages mirror the TypeScript SDK; the iterators of the client only read.
* The stream listener is not used by the engine. Batches of MongoDB cursors are one read here.

## 8. Plan

1. `Watchlist`, `AtomicWatchlist`, `WatchlistDb`, the coordination point of everything: done,
   proved.
2. `EntityStore`: done, proved.
3. `IntentWatchers`, `IntentHistory`: done, safety proved.
4. `DiffResolver`, `DiffHistory`: done, safety proved.
5. `PapieaEngine`: `IntentWatchers` with the detailed diff resolver instead of its abstraction,
   and the abstraction shown to be implemented; liveness from a spec change to its watcher's end.
6. `StrategyContext`, `ProviderRegistry`, `SessionKeys`, `ProviderSdk`, `BackgroundTask`, in
   `Services`: done, proved.
7. `Validator`, `Routes`, `ApiDocs`, `Interface`, `Procedures`, in `EngineInterface`: done, proved.
8. `Backoff`, `StructuralDiff` (the signatures of `core.cljc`), `Pagination`: pure operators
   against reference definitions.
