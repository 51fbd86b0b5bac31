----------------------------- MODULE SessionKeys -----------------------------
(***************************************************************************)
(* Who a request comes from: session keys of users who logged in at an     *)
(* identity provider, and keys that services hold (S2S).  The module has   *)
(* auth/session_key.ts, auth/oauth2.ts, auth/authn.ts, auth/s2s.ts, the    *)
(* two collections of keys, and the identity provider as the code uses it. *)
(*                                                                         *)
(* One action is one call to a database or to the identity provider, with  *)
(* the code up to the next call.  A token of the identity provider is a    *)
(* number; expired are those for which isExpired holds, and alive those    *)
(* it would still refresh.                                                 *)
(***************************************************************************)
EXTENDS Naturals

CONSTANTS
    SessionIds,  \* keys that logins draw (uuid)
    ServiceIds,  \* S2S keys
    AdminKey,    \* the key in the configuration
    Callers,     \* requests of any kind, each served once
    Rotations,   \* whether a refresh ends the token it was made with
    NoToken,     \* no document, no token
    MaxTokens    \* bound on the tokens the identity provider gives

\* The keys are told apart, and what is missing is no token
ASSUME DistinctKeys ==
    /\ MaxTokens \in Nat
    /\ NoToken \notin Nat
    /\ SessionIds \cap ServiceIds = {}
    /\ AdminKey \notin SessionIds \cup ServiceIds

VARIABLES session, service, idp, client

keyVars == <<session, service, idp, client>>

NoRequest == [op |-> "none", key |-> NoToken, pc |-> "idle", token |-> NoToken,
              late |-> FALSE]

\* ended are the keys that were deleted or inactivated; cut are the sessions of
\* which a new token was not stored
KeysInit ==
    /\ session = [k \in SessionIds |-> NoToken]
    /\ service = [k \in ServiceIds |-> "missing"]
    /\ idp = [given |-> 0, expired |-> {}, alive |-> {}, revoked |-> {},
              ended |-> {}, cut |-> {}]
    /\ client = [r \in Callers |-> NoRequest]

At(r, pc) == client[r].pc = pc

Step(r, pc) == client' = [client EXCEPT ![r].pc = pc]

Hold(r, pc, t) == client' = [client EXCEPT ![r].pc = pc, ![r].token = t]

-----------------------------------------------------------------------------
(* Requests arrive                                                         *)

Arrive(r, op, k, pc) ==
    /\ client[r] = NoRequest
    /\ client' = [client EXCEPT ![r] =
           [op |-> op, key |-> k, pc |-> pc, token |-> NoToken,
            late |-> k \in idp.ended]]
    /\ UNCHANGED <<session, service, idp>>

\* /auth/callback, with a key that no session has
Login(r, k) ==
    /\ session[k] = NoToken
    /\ k \notin idp.ended
    /\ \A q \in Callers : client[q].key # k
    /\ Arrive(r, "login", k, "exchanging")

\* The token of a request may be any secret; the first extractor that knows it
\* answers, and the administrator's compares it with the configuration
Authenticate(r, k) ==
    Arrive(r, "use", k, IF k = AdminKey THEN "accepted" ELSE "secret")

Logout(r, k) == Arrive(r, "logout", k, "getting")

CreateService(r, k) == Arrive(r, "create", k, "inserting")

InactivateService(r, k) == Arrive(r, "inactivate", k, "finding")

\* Any call fails.  A session whose token was refreshed but not stored keeps the
\* token that it had.
Fail(r) ==
    /\ client[r].pc \notin {"idle", "accepted", "rejected"}
    /\ Step(r, "rejected")
    /\ idp' = IF At(r, "updating") THEN [idp EXCEPT !.cut = @ \cup {client[r].key}] ELSE idp
    /\ UNCHANGED <<session, service>>

-----------------------------------------------------------------------------
(* Sessions                                                                *)

NewToken == idp.given + 1

\* A token is given by getToken or refresh; the identity provider may give one
\* that is within the window before its end
Give(retired) ==
    /\ NewToken <= MaxTokens
    /\ \E late \in BOOLEAN :
          idp' = [idp EXCEPT !.given = NewToken,
                             !.alive = (@ \ retired) \cup {NewToken},
                             !.expired = IF late THEN @ \cup {NewToken} ELSE @]
    /\ UNCHANGED <<session, service>>

Exchange(r) ==
    /\ At(r, "exchanging")
    /\ Give({})
    /\ Hold(r, "creating", NewToken)

AfterKey(r) == IF client[r].op = "logout" THEN "inactivating" ELSE "accepted"

\* createKey stores the token before it looks whether it is expired
CreateKey(r) ==
    LET q == client[r]
    IN  /\ At(r, "creating")
        /\ session' = [session EXCEPT ![q.key] = q.token]
        /\ Step(r, IF q.token \in idp.expired THEN "refreshing" ELSE "accepted")
        /\ UNCHANGED <<service, idp>>

\* getKey; a key that is not there is an error, which the extractor turns to null
GetKey(r) ==
    LET k == client[r].key
        t == IF k \in SessionIds THEN session[k] ELSE NoToken
    IN  /\ At(r, "getting")
        /\ CASE t = NoToken          -> Step(r, "rejected")
             [] t \in idp.expired    -> Hold(r, "refreshing", t)
             [] OTHER                -> Hold(r, AfterKey(r), t)
        /\ UNCHANGED <<session, service, idp>>

\* Mutant: the new token is not stored
RefreshUnstored(r) ==
    LET t == client[r].token
    IN  /\ At(r, "refreshing")
        /\ t \in idp.alive
        /\ \E rotates \in Rotations : Give(IF rotates THEN {t} ELSE {})
        /\ Hold(r, AfterKey(r), NewToken)

\* refreshKey asks the identity provider, which refuses a token that has ended
Refresh(r) ==
    LET t == client[r].token
    IN  /\ At(r, "refreshing")
        /\ t \in idp.alive
        /\ \E rotates \in Rotations : Give(IF rotates THEN {t} ELSE {})
        /\ Hold(r, "updating", NewToken)

RefuseRefresh(r) ==
    /\ At(r, "refreshing")
    /\ client[r].token \notin idp.alive
    /\ Step(r, "rejected")
    /\ UNCHANGED <<session, service, idp>>

\* Mutant: the update inserts what is not there
UpsertKey(r) ==
    /\ At(r, "updating")
    /\ session' = [session EXCEPT ![client[r].key] = client[r].token]
    /\ Step(r, AfterKey(r))
    /\ UNCHANGED <<service, idp>>

\* update_key must find the session
UpdateKey(r) ==
    LET q == client[r]
    IN  /\ At(r, "updating")
        /\ IF session[q.key] = NoToken
           THEN Step(r, "rejected") /\ UNCHANGED session
           ELSE Step(r, AfterKey(r)) /\ session' = [session EXCEPT ![q.key] = q.token]
        /\ UNCHANGED <<service, idp>>

\* Logout deletes the session, and then revokes the token it has read
InactivateKey(r) ==
    LET q == client[r]
    IN  /\ At(r, "inactivating")
        /\ session' = [session EXCEPT ![q.key] = NoToken]
        /\ idp' = [idp EXCEPT !.ended = @ \cup {q.key}]
        /\ Step(r, "revoking")
        /\ UNCHANGED service

Revoke(r) ==
    /\ At(r, "revoking")
    /\ idp' = [idp EXCEPT !.revoked = @ \cup {client[r].token}]
    /\ Step(r, "accepted")
    /\ UNCHANGED <<session, service>>

-----------------------------------------------------------------------------
(* Service keys                                                            *)

\* get_key_by_secret; whatever goes wrong, the session extractor is tried next
FindSecret(r) ==
    LET k == client[r].key
    IN  /\ At(r, "secret")
        /\ Step(r, IF k \in ServiceIds /\ service[k] = "active"
                   THEN "accepted" ELSE "getting")
        /\ UNCHANGED <<session, service, idp>>

\* create_key of the collection, with its unique index, then get_key
InsertService(r) ==
    LET k == client[r].key
    IN  /\ At(r, "inserting")
        /\ IF service[k] = "missing"
           THEN service' = [service EXCEPT ![k] = "active"] /\ Step(r, "finding")
           ELSE UNCHANGED service /\ Step(r, "rejected")
        /\ UNCHANGED <<session, idp>>

\* get_key finds what has no deleted_at
FindService(r) ==
    LET q == client[r]
    IN  /\ At(r, "finding")
        /\ Step(r, IF service[q.key] # "active" THEN "rejected"
                   ELSE IF q.op = "create" THEN "accepted" ELSE "marking")
        /\ UNCHANGED <<session, service, idp>>

MarkInactive(r) ==
    LET k == client[r].key
    IN  /\ At(r, "marking")
        /\ service' = [service EXCEPT ![k] = "inactive"]
        /\ idp' = [idp EXCEPT !.ended = @ \cup {k}]
        /\ Step(r, "accepted")
        /\ UNCHANGED session

-----------------------------------------------------------------------------
(* Time passes: a token expires, and three days later its session goes     *)

Expire ==
    /\ \E t \in 1..idp.given \ idp.expired :
          idp' = [idp EXCEPT !.expired = @ \cup {t}]
    /\ UNCHANGED <<session, service, client>>

Reap(k) ==
    /\ session[k] \in idp.expired
    /\ session' = [session EXCEPT ![k] = NoToken]
    /\ idp' = [idp EXCEPT !.ended = @ \cup {k}]
    /\ UNCHANGED <<service, client>>

KeysNext ==
    \/ \E r \in Callers :
          \/ \E k \in SessionIds : Login(r, k) \/ Logout(r, k)
          \/ \E k \in ServiceIds : CreateService(r, k) \/ InactivateService(r, k)
          \/ \E k \in SessionIds \cup ServiceIds \cup {AdminKey} : Authenticate(r, k)
          \/ Exchange(r) \/ CreateKey(r) \/ GetKey(r) \/ Refresh(r) \/ RefuseRefresh(r)
          \/ UpdateKey(r) \/ InactivateKey(r) \/ Revoke(r)
          \/ FindSecret(r) \/ InsertService(r) \/ FindService(r) \/ MarkInactive(r)
          \/ Fail(r)
    \/ Expire
    \/ \E k \in SessionIds : Reap(k)

KeysSpec == KeysInit /\ [][KeysNext]_keyVars

-----------------------------------------------------------------------------
(* Properties                                                              *)

Tokens == 1..MaxTokens

KeysTypeOK ==
    /\ session \in [SessionIds -> Tokens \cup {NoToken}]
    /\ service \in [ServiceIds -> {"missing", "active", "inactive"}]
    /\ idp \in [given : 0..MaxTokens, expired : SUBSET Tokens, alive : SUBSET Tokens,
                revoked : SUBSET Tokens, cut : SUBSET SessionIds,
                ended : SUBSET (SessionIds \cup ServiceIds)]
    /\ client \in [Callers ->
           [op : {"none", "login", "use", "logout", "create", "inactivate"},
            key : SessionIds \cup ServiceIds \cup {AdminKey, NoToken},
            pc : {"idle", "exchanging", "creating", "refreshing", "updating",
                  "secret", "getting", "inactivating", "revoking", "inserting",
                  "finding", "marking", "accepted", "rejected"},
            token : Tokens \cup {NoToken}, late : BOOLEAN]]

\* A request that comes with a key after the key has ended, by logout, by
\* inactivation or by age, is never accepted, whatever refresh of it is still
\* under way.
NoUseAfterEnd ==
    \A r \in Callers : client[r].late /\ client[r].op = "use" => ~At(r, "accepted")

\* The token of a stored session was never revoked, and the identity provider
\* would refresh it, or a request is about to store the one that replaces it;
\* else the answer of a refresh was lost, or its update failed.
StoredIsAlive ==
    \A k \in SessionIds : session[k] # NoToken =>
        /\ session[k] \notin idp.revoked
        /\ \/ session[k] \in idp.alive
           \/ k \in idp.cut
           \/ \E r \in Callers : client[r].key = k /\ At(r, "updating")
=============================================================================
