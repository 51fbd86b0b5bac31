---------------------------- MODULE Services_proofs ----------------------------
(* Proofs about Services.  Each part keeps an invariant of its own: those of    *)
(* the keys, the strategies, the provider registry and the SDK are here, that   *)
(* of the background tasks in a module of its own.  A behaviour of Services is  *)
(* one of each part, so what is proved of a part holds there.                   *)
EXTENDS Services, BackgroundTask_proofs, SequenceTheorems, TLAPS

------------------------------------------------------------------------------
(* The keys: a key that has ended stays ended, and the token of a stored        *)
(* session can be refreshed.  The argument has two halves: a session that has   *)
(* ended has no document, and only a login that nobody else can know of makes   *)
(* one; and each token belongs to one session, so that what the identity        *)
(* provider retires or revokes concerns no other.                               *)

\* The records of client
Clients ==
    [op : {"none", "login", "use", "logout", "create", "inactivate"},
     key : SessionIds \cup ServiceIds \cup {AdminKey, NoToken},
     pc : {"idle", "exchanging", "creating", "refreshing", "updating",
           "secret", "getting", "inactivating", "revoking", "inserting",
           "finding", "marking", "accepted", "rejected"},
     token : Tokens \cup {NoToken}, late : BOOLEAN]

\* The values of idp
Providers ==
    [given : 0..MaxTokens, expired : SUBSET Tokens, alive : SUBSET Tokens,
     revoked : SUBSET Tokens, cut : SUBSET SessionIds,
     ended : SUBSET (SessionIds \cup ServiceIds)]

\* What the progress of a request says of its key and its token
Keyed ==
    \A r \in Callers :
        LET q == client[r]
        IN  /\ q.pc \in {"exchanging", "creating"} => q.op = "login"
            /\ q.op \in {"login", "logout"} => q.key \in SessionIds
            /\ q.pc \in {"refreshing", "updating", "inactivating", "revoking"} =>
                   q.key \in SessionIds
            /\ q.pc \in {"inserting", "finding", "marking"} =>
                   q.key \in ServiceIds /\ q.op # "use"
            /\ q.pc \in {"creating", "refreshing", "updating", "inactivating", "revoking"} =>
                   q.token # NoToken
            /\ q.token # NoToken => q.key \in SessionIds
            /\ q.pc = "revoking" => q.key \in idp.ended

\* What has ended has no document that would be found
Ended ==
    \A k \in idp.ended :
        /\ k \in SessionIds => session[k] = NoToken
        /\ k \in ServiceIds => service[k] = "inactive"

\* Nobody but the login knows of a session that it has not stored
Unstored ==
    \A r \in Callers : client[r].pc \in {"exchanging", "creating"} =>
        /\ client[r].key \notin idp.ended
        /\ session[client[r].key] = NoToken
        /\ \A q \in Callers \ {r} : client[q].key = client[r].key =>
               client[q].pc \in {"secret", "getting", "rejected"}

\* A request that came late gets no further than to look its key up
Late ==
    \A r \in Callers : client[r].late =>
        /\ client[r].key \in idp.ended
        /\ client[r].op = "use" => client[r].pc \in {"secret", "getting", "rejected"}

\* The tokens there are
Given ==
    LET given == 1..idp.given
    IN  /\ \A r \in Callers : client[r].token \in given \cup {NoToken}
        /\ \A k \in SessionIds : session[k] \in given \cup {NoToken}
        /\ idp.alive \subseteq given /\ idp.expired \subseteq given /\ idp.revoked \subseteq given

\* A token belongs to one session
Owned ==
    /\ \A r, q \in Callers :
           client[r].token # NoToken /\ client[q].token = client[r].token =>
               client[q].key = client[r].key
    /\ \A r \in Callers, k \in SessionIds :
           session[k] # NoToken /\ client[r].token = session[k] => client[r].key = k
    /\ \A k, l \in SessionIds : session[k] # NoToken /\ session[l] = session[k] => k = l

\* A token about to be stored is alive, and nobody else has it
Fresh ==
    \A r \in Callers : client[r].pc \in {"creating", "updating"} =>
        /\ client[r].token \in idp.alive
        /\ \A q \in Callers \ {r} : client[q].token # client[r].token
        /\ \A k \in SessionIds : session[k] # client[r].token

\* Only tokens of ended sessions are revoked
Revoked ==
    \A r \in Callers : client[r].token \in idp.revoked => client[r].key \in idp.ended

KeysInv ==
    /\ KeysTypeOK
    /\ Keyed /\ Ended /\ Unstored /\ Late
    /\ Given /\ Owned /\ Fresh /\ Revoked /\ StoredIsAlive
-----------------------------------------------------------------------------

\* What a request is after a call that gave it a token.
LEMMA HoldFacts ==
    ASSUME KeysTypeOK, NEW r \in Callers, NEW t \in Tokens,
           NEW pc \in {"creating", "updating", "refreshing", "inactivating", "accepted"},
           Hold(r, pc, t)
    PROVE  /\ client' \in [Callers -> Clients]
           /\ \A q \in Callers : q # r => client'[q] = client[q]
           /\ client'[r].op = client[r].op /\ client'[r].key = client[r].key
           /\ client'[r].late = client[r].late
           /\ client'[r].pc = pc /\ client'[r].token = t
  <1>1. client' = [client EXCEPT ![r].pc = pc, ![r].token = t]
    BY DEF Hold
  <1>2. client \in [Callers -> Clients]
    BY DEF KeysTypeOK, Clients
  <1>3. client'[r] = [client[r] EXCEPT !.pc = pc, !.token = t]
    BY <1>1, <1>2
  <1>4. client[r] \in Clients
    BY <1>2
  <1>5. client'[r] \in Clients
    BY <1>3, <1>4 DEF Clients
  <1>6. client' \in [Callers -> Clients]
    BY <1>1, <1>2, <1>5
  <1> QED
    BY <1>1, <1>2, <1>3, <1>4, <1>6 DEF Clients

\* What the identity provider is after it gave a token.
LEMMA GiveFacts ==
    ASSUME KeysTypeOK, NEW retired, Give(retired)
    PROVE  /\ idp' \in Providers
           /\ idp.given + 1 <= MaxTokens /\ idp.given \in 0..MaxTokens
           /\ idp'.given = idp.given + 1
           /\ idp'.alive = (idp.alive \ retired) \cup {idp.given + 1}
           /\ idp'.expired \in {idp.expired, idp.expired \cup {idp.given + 1}}
           /\ idp'.revoked = idp.revoked /\ idp'.ended = idp.ended /\ idp'.cut = idp.cut
  <1>1. PICK late \in BOOLEAN :
            idp' = [idp EXCEPT !.given = idp.given + 1,
                               !.alive = (idp.alive \ retired) \cup {idp.given + 1},
                               !.expired = IF late THEN idp.expired \cup {idp.given + 1}
                                           ELSE idp.expired]
    BY DEF Give, NewToken
  <1>2. idp \in Providers /\ idp.given + 1 <= MaxTokens
    BY DEF KeysTypeOK, Providers, Give, NewToken
  <1>3. idp.given \in 0..MaxTokens /\ idp.given + 1 \in Tokens /\ idp.given + 1 \in 0..MaxTokens
    BY DistinctKeys, <1>2 DEF Providers, Tokens
  <1>4. (idp.alive \ retired) \cup {idp.given + 1} \in SUBSET Tokens
        /\ idp.expired \cup {idp.given + 1} \in SUBSET Tokens
    BY <1>2, <1>3 DEF Providers
  <1>5. idp' \in Providers
    BY <1>1, <1>2, <1>3, <1>4 DEF Providers
  <1> QED
    BY <1>1, <1>2, <1>3, <1>5 DEF Providers

-----------------------------------------------------------------------------

\* A step that only moves the request on, to where it holds no more than before.
LEMMA KeysQuietKeeps ==
    ASSUME KeysInv, NEW r \in Callers,
           NEW pc \in {"getting", "rejected", "accepted", "finding", "marking"},
           Step(r, pc), session' = session, service' = service, idp' = idp,
           client[r].pc # "updating",
           pc \in {"finding", "marking"} => client[r].key \in ServiceIds /\ client[r].op # "use",
           client[r].late /\ client[r].op = "use" => pc \in {"getting", "rejected"},
           \/ pc \in {"getting", "rejected"}
           \/ client[r].key \notin SessionIds
           \/ client[r].pc \notin {"secret", "getting", "rejected"}
    PROVE  KeysInv'
  <1>0. /\ \A q \in Callers : q # r => client'[q] = client[q]
        /\ client' \in [Callers -> Clients]
        /\ client'[r].op = client[r].op /\ client'[r].key = client[r].key
        /\ client'[r].late = client[r].late /\ client'[r].token = client[r].token
        /\ client'[r].pc = pc
    BY DEF Step, KeysInv, KeysTypeOK, Clients
  <1>1. KeysTypeOK'
    BY <1>0 DEF KeysInv, KeysTypeOK, Clients
  <1>2. Keyed'
    BY <1>0 DEF KeysInv, Keyed
  <1>3. Ended'
    BY <1>0 DEF KeysInv, Ended
  <1>4. Unstored'
    BY <1>0 DEF KeysInv, Unstored, Keyed
  <1>5. Late'
    BY <1>0 DEF KeysInv, Late
  <1>6. Given'
    BY <1>0 DEF KeysInv, Given
  <1>7. Owned'
    BY <1>0 DEF KeysInv, Owned
  <1>8. Fresh'
    BY <1>0 DEF KeysInv, Fresh
  <1>9. Revoked'
    BY <1>0 DEF KeysInv, Revoked
  <1>10. StoredIsAlive'
    BY <1>0 DEF KeysInv, StoredIsAlive, At, Keyed
  <1> QED
    BY <1>1, <1>2, <1>3, <1>4, <1>5, <1>6, <1>7, <1>8, <1>9, <1>10 DEF KeysInv

\* A request arrives.
LEMMA ArriveKeeps ==
    ASSUME KeysInv, NEW r \in Callers,
           NEW op \in {"login", "use", "logout", "create", "inactivate"},
           NEW k \in SessionIds \cup ServiceIds \cup {AdminKey},
           NEW pc \in {"exchanging", "accepted", "secret", "getting", "inserting", "finding"},
           Arrive(r, op, k, pc),
           op \in {"login", "logout"} => k \in SessionIds,
           op \in {"create", "inactivate"} => k \in ServiceIds,
           pc = "exchanging" =>
               /\ op = "login" /\ k \notin idp.ended /\ session[k] = NoToken
               /\ \A q \in Callers : client[q].key # k,
           op = "login" => pc = "exchanging",
           op = "use" => pc = IF k = AdminKey THEN "accepted" ELSE "secret",
           op = "logout" => pc = "getting",
           op = "create" => pc = "inserting",
           op = "inactivate" => pc = "finding"
    PROVE  KeysInv'
  <1>0. /\ \A q \in Callers : q # r => client'[q] = client[q]
        /\ client'[r] = [op |-> op, key |-> k, pc |-> pc, token |-> NoToken,
                         late |-> k \in idp.ended]
        /\ client' = [client EXCEPT ![r] = [op |-> op, key |-> k, pc |-> pc, token |-> NoToken,
                                            late |-> k \in idp.ended]]
        /\ client[r] = NoRequest
        /\ session' = session /\ service' = service /\ idp' = idp
    BY DEF Arrive, KeysInv, KeysTypeOK, Clients
  <1>1. KeysTypeOK'
    BY <1>0 DEF KeysInv, KeysTypeOK, Clients
  <1>2. Keyed'
    BY <1>0 DEF KeysInv, Keyed
  <1>3. Ended'
    BY <1>0 DEF KeysInv, Ended
  <1>4. Unstored'
    BY DistinctKeys, <1>0 DEF KeysInv, Unstored, Keyed, NoRequest
  <1>5. Late'
    BY ZenonT(60), DistinctKeys, <1>0 DEF KeysInv, Late, KeysTypeOK
  <1>6. Given'
    BY DistinctKeys, <1>0 DEF KeysInv, Given
  <1>7. Owned'
    BY <1>0 DEF KeysInv, Owned, NoRequest
  <1>8. Fresh'
    BY DistinctKeys, <1>0 DEF KeysInv, Fresh, Given, KeysTypeOK
  <1>9. Revoked'
    BY DistinctKeys, <1>0 DEF KeysInv, Revoked, Given
  <1>10. StoredIsAlive'
    BY <1>0 DEF KeysInv, StoredIsAlive, At, NoRequest
  <1> QED
    BY <1>1, <1>2, <1>3, <1>4, <1>5, <1>6, <1>7, <1>8, <1>9, <1>10 DEF KeysInv

\* The answer of a refresh, or its update, is lost.
LEMMA LostRefreshKeeps ==
    ASSUME KeysInv, NEW r \in Callers, Fail(r), client[r].pc = "updating"
    PROVE  KeysInv'
  <1>0. /\ \A q \in Callers : q # r => client'[q] = client[q]
        /\ client' \in [Callers -> Clients]
        /\ client'[r].op = client[r].op /\ client'[r].key = client[r].key
        /\ client'[r].late = client[r].late
        /\ client'[r].pc = "rejected" /\ client'[r].token = client[r].token
        /\ session' = session /\ service' = service
        /\ idp' = [idp EXCEPT !.cut = idp.cut \cup {client[r].key}]
        /\ client[r].pc = "updating" /\ client[r].key \in SessionIds
    BY DEF Fail, Step, At, KeysInv, KeysTypeOK, Clients, Keyed
  <1>1. KeysTypeOK'
    BY <1>0 DEF KeysInv, KeysTypeOK, Clients
  <1>2. Keyed'
    BY <1>0 DEF KeysInv, Keyed
  <1>3. Ended'
    BY <1>0 DEF KeysInv, Ended
  <1>4. Unstored'
    BY <1>0 DEF KeysInv, Unstored
  <1>5. Late'
    BY <1>0 DEF KeysInv, Late
  <1>6. Given'
    BY <1>0 DEF KeysInv, Given
  <1>7. Owned'
    BY <1>0 DEF KeysInv, Owned
  <1>8. Fresh'
    BY <1>0 DEF KeysInv, Fresh
  <1>9. Revoked'
    BY <1>0 DEF KeysInv, Revoked
  <1>10. StoredIsAlive'
    BY <1>0 DEF KeysInv, StoredIsAlive, At, KeysTypeOK
  <1> QED
    BY <1>1, <1>2, <1>3, <1>4, <1>5, <1>6, <1>7, <1>8, <1>9, <1>10 DEF KeysInv

\* A login gets its token.
LEMMA ExchangeKeeps ==
    ASSUME KeysInv, NEW r \in Callers, Exchange(r)
    PROVE  KeysInv'
  <1>0. /\ \A q \in Callers : q # r => client'[q] = client[q]
        /\ client' \in [Callers -> Clients]
        /\ client'[r].op = client[r].op /\ client'[r].key = client[r].key
        /\ client'[r].late = client[r].late
        /\ client'[r].pc = "creating" /\ client'[r].token = idp.given + 1
        /\ session' = session /\ service' = service
        /\ idp.given + 1 <= MaxTokens /\ idp.given \in 0..MaxTokens
        /\ idp' \in Providers
        /\ idp'.given = idp.given + 1 /\ idp'.alive = idp.alive \cup {idp.given + 1}
        /\ idp'.expired \in {idp.expired, idp.expired \cup {idp.given + 1}}
        /\ idp'.revoked = idp.revoked /\ idp'.ended = idp.ended /\ idp'.cut = idp.cut
        /\ client[r].pc = "exchanging" /\ client[r].op = "login" /\ client[r].key \in SessionIds
      <2>1. Give({}) /\ Hold(r, "creating", idp.given + 1)
      BY DEF Exchange, NewToken
    <2>2. idp.given + 1 \in Tokens
      BY DistinctKeys, <2>1 DEF Give, NewToken, KeysInv, KeysTypeOK, Tokens
    <2>3. session' = session /\ service' = service
      BY <2>1 DEF Give
    <2>4. client[r].pc = "exchanging" /\ client[r].op = "login" /\ client[r].key \in SessionIds
      BY DEF Exchange, At, KeysInv, Keyed
    <2> QED
      BY <2>1, <2>2, <2>3, <2>4, HoldFacts, GiveFacts DEF KeysInv
  <1>1. KeysTypeOK'
    BY DistinctKeys, <1>0 DEF KeysInv, KeysTypeOK, Clients, Tokens, Providers
  <1>2. Keyed'
    BY DistinctKeys, <1>0 DEF KeysInv, Keyed
  <1>3. Ended'
    BY <1>0 DEF KeysInv, Ended
  <1>4. Unstored'
    BY <1>0 DEF KeysInv, Unstored
  <1>5. Late'
    BY <1>0 DEF KeysInv, Late
  <1>6. Given'
    BY DistinctKeys, <1>0 DEF KeysInv, Given
  <1>7. Owned'
    BY DistinctKeys, <1>0 DEF KeysInv, Owned, Given
  <1>8. Fresh'
    BY DistinctKeys, <1>0 DEF KeysInv, Fresh, Given
  <1>9. Revoked'
    BY DistinctKeys, <1>0 DEF KeysInv, Revoked, Given
  <1>10. StoredIsAlive'
    BY <1>0 DEF KeysInv, StoredIsAlive, At, Given
  <1> QED
    BY <1>1, <1>2, <1>3, <1>4, <1>5, <1>6, <1>7, <1>8, <1>9, <1>10 DEF KeysInv

\* A login stores its session.
LEMMA CreateKeyKeeps ==
    ASSUME KeysInv, NEW r \in Callers, CreateKey(r)
    PROVE  KeysInv'
  <1>0. /\ \A q \in Callers : q # r => client'[q] = client[q]
        /\ client' \in [Callers -> Clients]
        /\ client'[r].op = client[r].op /\ client'[r].key = client[r].key
        /\ client'[r].late = client[r].late
        /\ client'[r].token = client[r].token
        /\ client'[r].pc \in {"refreshing", "accepted"}
        /\ session' = [session EXCEPT ![client[r].key] = client[r].token]
        /\ service' = service /\ idp' = idp
        /\ client[r].pc = "creating" /\ client[r].op = "login" /\ client[r].key \in SessionIds
        /\ client[r].token \in Tokens /\ client[r].token # NoToken
    BY DEF CreateKey, Step, At, KeysInv, KeysTypeOK, Clients, Keyed
  <1>1. KeysTypeOK'
    BY <1>0 DEF KeysInv, KeysTypeOK, Clients
  <1>2. Keyed'
    BY <1>0 DEF KeysInv, Keyed
  <1>3. Ended'
    BY DistinctKeys, <1>0 DEF KeysInv, Ended, Unstored, KeysTypeOK
  <1>4. Unstored'
    BY <1>0 DEF KeysInv, Unstored, Keyed, KeysTypeOK
  <1>5. Late'
    BY <1>0 DEF KeysInv, Late
  <1>6. Given'
    BY <1>0 DEF KeysInv, Given, KeysTypeOK
  <1>7. Owned'
    BY SMTT(60), <1>0 DEF KeysInv, Owned, Fresh, KeysTypeOK
  <1>8. Fresh'
    BY SMTT(60), <1>0 DEF KeysInv, Fresh, KeysTypeOK
  <1>9. Revoked'
    BY <1>0 DEF KeysInv, Revoked
  <1>10. StoredIsAlive'
    BY <1>0 DEF KeysInv, StoredIsAlive, At, Fresh, Revoked, Unstored, KeysTypeOK
  <1> QED
    BY <1>1, <1>2, <1>3, <1>4, <1>5, <1>6, <1>7, <1>8, <1>9, <1>10 DEF KeysInv

\* The session of a request is found.
LEMMA GetKeyKeeps ==
    ASSUME KeysInv, NEW r \in Callers, GetKey(r), client'[r].pc # "rejected"
    PROVE  KeysInv'
  <1>0. /\ \A q \in Callers : q # r => client'[q] = client[q]
        /\ client' \in [Callers -> Clients]
        /\ client'[r].op = client[r].op /\ client'[r].key = client[r].key
        /\ client'[r].late = client[r].late
        /\ client'[r].pc \in {"refreshing", "inactivating", "accepted"}
        /\ client'[r].token = session[client[r].key]
        /\ client[r].key \in SessionIds /\ session[client[r].key] # NoToken
        /\ session[client[r].key] \in Tokens
        /\ session' = session /\ service' = service /\ idp' = idp
        /\ client[r].pc = "getting"
      <2>1. client[r].pc = "getting" /\ session' = session /\ service' = service /\ idp' = idp
      BY DEF GetKey, At
    <2> DEFINE t == IF client[r].key \in SessionIds THEN session[client[r].key] ELSE NoToken
    <2>2. t = NoToken => Step(r, "rejected")
      <3>1. NoToken \notin idp.expired
        BY DistinctKeys DEF KeysInv, KeysTypeOK, Tokens
      <3> QED
        BY <3>1 DEF GetKey
    <2>3. t # NoToken
      BY <2>2 DEF Step, KeysInv, KeysTypeOK
    <2>4. client[r].key \in SessionIds /\ t = session[client[r].key] /\ t \in Tokens
      BY <2>3 DEF KeysInv, KeysTypeOK
    <2>5. PICK pc \in {"refreshing", "inactivating", "accepted"} : Hold(r, pc, t)
      BY <2>3 DEF GetKey, AfterKey
    <2> HIDE DEF t
    <2> QED
      BY <2>1, <2>3, <2>4, <2>5, HoldFacts DEF KeysInv
  <1>1. KeysTypeOK'
    BY <1>0 DEF KeysInv, KeysTypeOK, Clients
  <1>2. Keyed'
    BY <1>0 DEF KeysInv, Keyed
  <1>3. Ended'
    BY <1>0 DEF KeysInv, Ended
  <1>4. Unstored'
    BY <1>0 DEF KeysInv, Unstored, Keyed
  <1>5. Late'
    BY <1>0 DEF KeysInv, Late, Ended
  <1>6. Given'
    BY <1>0 DEF KeysInv, Given
  <1>7. Owned'
    BY <1>0 DEF KeysInv, Owned
  <1>8. Fresh'
    BY <1>0 DEF KeysInv, Fresh, Owned, Unstored, Keyed
  <1>9. Revoked'
    BY <1>0 DEF KeysInv, Revoked, StoredIsAlive
  <1>10. StoredIsAlive'
    BY <1>0 DEF KeysInv, StoredIsAlive, At
  <1> QED
    BY <1>1, <1>2, <1>3, <1>4, <1>5, <1>6, <1>7, <1>8, <1>9, <1>10 DEF KeysInv

\* The identity provider gives a new token for one that is alive.
LEMMA RefreshKeeps ==
    ASSUME KeysInv, NEW r \in Callers, Refresh(r)
    PROVE  KeysInv'
  <1>0. /\ \A q \in Callers : q # r => client'[q] = client[q]
        /\ client' \in [Callers -> Clients]
        /\ client'[r].op = client[r].op /\ client'[r].key = client[r].key
        /\ client'[r].late = client[r].late
        /\ client'[r].pc = "updating" /\ client'[r].token = idp.given + 1
        /\ session' = session /\ service' = service
        /\ idp.given + 1 <= MaxTokens /\ idp.given \in 0..MaxTokens
        /\ idp' \in Providers
        /\ idp'.given = idp.given + 1
        /\ idp'.alive \in {idp.alive \cup {idp.given + 1},
                           (idp.alive \ {client[r].token}) \cup {idp.given + 1}}
        /\ idp'.expired \in {idp.expired, idp.expired \cup {idp.given + 1}}
        /\ idp'.revoked = idp.revoked /\ idp'.ended = idp.ended /\ idp'.cut = idp.cut
        /\ client[r].pc = "refreshing" /\ client[r].key \in SessionIds
        /\ client[r].token # NoToken
      <2>1. PICK retired \in {{}, {client[r].token}} : Give(retired)
      BY DEF Refresh
    <2>2. Hold(r, "updating", idp.given + 1)
      BY DEF Refresh, NewToken
    <2>3. idp.given + 1 \in Tokens
      BY DistinctKeys, <2>1 DEF Give, NewToken, KeysInv, KeysTypeOK, Tokens
    <2>4. session' = session /\ service' = service
      BY <2>1 DEF Give
    <2>5. /\ client[r].pc = "refreshing" /\ client[r].key \in SessionIds
          /\ client[r].token # NoToken
      BY DEF Refresh, At, KeysInv, Keyed
    <2>6. (idp.alive \ {}) = idp.alive
      OBVIOUS
    <2> QED
      BY <2>1, <2>2, <2>3, <2>4, <2>5, <2>6, HoldFacts, GiveFacts DEF KeysInv
  <1>1. KeysTypeOK'
    BY DistinctKeys, <1>0 DEF KeysInv, KeysTypeOK, Clients, Tokens, Providers
  <1>2. Keyed'
    BY DistinctKeys, <1>0 DEF KeysInv, Keyed
  <1>3. Ended'
    BY <1>0 DEF KeysInv, Ended
  <1>4. Unstored'
    BY <1>0 DEF KeysInv, Unstored
  <1>5. Late'
    BY <1>0 DEF KeysInv, Late
  <1>6. Given'
    BY DistinctKeys, <1>0 DEF KeysInv, Given
  <1>7. Owned'
    BY DistinctKeys, <1>0 DEF KeysInv, Owned, Given
  <1>8. Fresh'
    BY DistinctKeys, <1>0 DEF KeysInv, Fresh, Given
  <1>9. Revoked'
    BY DistinctKeys, <1>0 DEF KeysInv, Revoked, Given
  <1>10. StoredIsAlive'
    BY <1>0 DEF KeysInv, StoredIsAlive, At, Given, Owned
  <1> QED
    BY <1>1, <1>2, <1>3, <1>4, <1>5, <1>6, <1>7, <1>8, <1>9, <1>10 DEF KeysInv

\* The refreshed token is stored, in a session that is still there.
LEMMA UpdateKeyKeeps ==
    ASSUME KeysInv, NEW r \in Callers, UpdateKey(r)
    PROVE  KeysInv'
  <1>0. /\ \A q \in Callers : q # r => client'[q] = client[q]
        /\ client' \in [Callers -> Clients]
        /\ client'[r].op = client[r].op /\ client'[r].key = client[r].key
        /\ client'[r].late = client[r].late
        /\ client'[r].token = client[r].token
        /\ client'[r].pc \in {"rejected", "inactivating", "accepted"}
        /\ \/ session[client[r].key] = NoToken /\ session' = session /\ client'[r].pc = "rejected"
           \/ /\ session[client[r].key] # NoToken
              /\ session' = [session EXCEPT ![client[r].key] = client[r].token]
        /\ service' = service /\ idp' = idp
        /\ client[r].pc = "updating" /\ client[r].key \in SessionIds
        /\ client[r].token \in Tokens /\ client[r].token # NoToken
    BY DEF UpdateKey, Step, AfterKey, At, KeysInv, KeysTypeOK, Clients, Keyed
  <1>1. KeysTypeOK'
    BY <1>0 DEF KeysInv, KeysTypeOK, Clients
  <1>2. Keyed'
    BY <1>0 DEF KeysInv, Keyed
  <1>3. Ended'
    BY DistinctKeys, <1>0 DEF KeysInv, Ended, KeysTypeOK
  <1>4. Unstored'
    BY <1>0 DEF KeysInv, Unstored, Keyed, KeysTypeOK
  <1>5. Late'
    BY <1>0 DEF KeysInv, Late, Ended
  <1>6. Given'
    BY <1>0 DEF KeysInv, Given, KeysTypeOK
  <1>7. Owned'
    BY SMTT(60), <1>0 DEF KeysInv, Owned, Fresh, KeysTypeOK
  <1>8. Fresh'
    BY <1>0 DEF KeysInv, Fresh, KeysTypeOK
  <1>9. Revoked'
    BY <1>0 DEF KeysInv, Revoked
  <1>10. StoredIsAlive'
    BY <1>0 DEF KeysInv, StoredIsAlive, At, Fresh, Revoked, Ended, KeysTypeOK
  <1> QED
    BY <1>1, <1>2, <1>3, <1>4, <1>5, <1>6, <1>7, <1>8, <1>9, <1>10 DEF KeysInv

\* A logout deletes the session.
LEMMA InactivateKeyKeeps ==
    ASSUME KeysInv, NEW r \in Callers, InactivateKey(r)
    PROVE  KeysInv'
  <1>0. /\ \A q \in Callers : q # r => client'[q] = client[q]
        /\ client' \in [Callers -> Clients]
        /\ client'[r].op = client[r].op /\ client'[r].key = client[r].key
        /\ client'[r].late = client[r].late
        /\ client'[r].pc = "revoking" /\ client'[r].token = client[r].token
        /\ session' = [session EXCEPT ![client[r].key] = NoToken]
        /\ \A k \in SessionIds : session'[k] \in {session[k], NoToken}
        /\ service' = service
        /\ idp' = [idp EXCEPT !.ended = idp.ended \cup {client[r].key}]
        /\ client[r].pc = "inactivating" /\ client[r].key \in SessionIds
    BY DEF InactivateKey, Step, At, KeysInv, KeysTypeOK, Clients, Keyed
  <1>1. KeysTypeOK'
    BY <1>0 DEF KeysInv, KeysTypeOK, Clients
  <1>2. Keyed'
    BY <1>0 DEF KeysInv, Keyed
  <1>3. Ended'
    BY DistinctKeys, <1>0 DEF KeysInv, Ended, KeysTypeOK
  <1>4. Unstored'
    BY <1>0 DEF KeysInv, Unstored, KeysTypeOK
  <1>5. Late'
    BY <1>0 DEF KeysInv, Late
  <1>6. Given'
    BY <1>0 DEF KeysInv, Given, KeysTypeOK
  <1>7. Owned'
    <2> SUFFICES /\ \A q, p \in Callers :
                        client'[q].token # NoToken /\ client'[p].token = client'[q].token =>
                            client'[p].key = client'[q].key
                 /\ \A q \in Callers, k \in SessionIds :
                        session'[k] # NoToken /\ client'[q].token = session'[k] => client'[q].key = k
                 /\ \A k, l \in SessionIds : session'[k] # NoToken /\ session'[l] = session'[k] => k = l
      BY DEF Owned
    <2>1. \A q \in Callers : /\ client'[q].token = client[q].token
                               /\ client'[q].key = client[q].key
      BY <1>0
    <2> QED
      BY <1>0, <2>1 DEF KeysInv, Owned
  <1>8. Fresh'
    BY SMTT(60), <1>0 DEF KeysInv, Fresh, KeysTypeOK, Keyed
  <1>9. Revoked'
    BY <1>0 DEF KeysInv, Revoked
  <1>10. StoredIsAlive'
    BY <1>0 DEF KeysInv, StoredIsAlive, At, KeysTypeOK
  <1> QED
    BY <1>1, <1>2, <1>3, <1>4, <1>5, <1>6, <1>7, <1>8, <1>9, <1>10 DEF KeysInv

\* A logout revokes the token that it has read.
LEMMA RevokeKeeps ==
    ASSUME KeysInv, NEW r \in Callers, Revoke(r)
    PROVE  KeysInv'
  <1>0. /\ \A q \in Callers : q # r => client'[q] = client[q]
        /\ client' \in [Callers -> Clients]
        /\ client'[r].op = client[r].op /\ client'[r].key = client[r].key
        /\ client'[r].late = client[r].late
        /\ client'[r].pc = "accepted" /\ client'[r].token = client[r].token
        /\ session' = session /\ service' = service
        /\ idp' = [idp EXCEPT !.revoked = idp.revoked \cup {client[r].token}]
        /\ client[r].pc = "revoking" /\ client[r].key \in SessionIds
        /\ client[r].key \in idp.ended /\ client[r].token # NoToken
    BY DEF Revoke, Step, At, KeysInv, KeysTypeOK, Clients, Keyed
  <1>1. KeysTypeOK'
    BY SMTT(60), <1>0 DEF KeysInv, KeysTypeOK, Clients
  <1>2. Keyed'
    BY <1>0 DEF KeysInv, Keyed
  <1>3. Ended'
    BY <1>0 DEF KeysInv, Ended
  <1>4. Unstored'
    BY <1>0 DEF KeysInv, Unstored
  <1>5. Late'
    BY <1>0 DEF KeysInv, Late
  <1>6. Given'
    BY <1>0 DEF KeysInv, Given, KeysTypeOK
  <1>7. Owned'
    BY <1>0 DEF KeysInv, Owned
  <1>8. Fresh'
    BY <1>0 DEF KeysInv, Fresh
  <1>9. Revoked'
    BY <1>0 DEF KeysInv, Revoked, Owned
  <1>10. StoredIsAlive'
    BY <1>0 DEF KeysInv, StoredIsAlive, At, Owned, Ended, KeysTypeOK
  <1> QED
    BY <1>1, <1>2, <1>3, <1>4, <1>5, <1>6, <1>7, <1>8, <1>9, <1>10 DEF KeysInv

\* A service key is inserted.
LEMMA InsertServiceKeeps ==
    ASSUME KeysInv, NEW r \in Callers, InsertService(r)
    PROVE  KeysInv'
  <1>0. /\ \A q \in Callers : q # r => client'[q] = client[q]
        /\ client' \in [Callers -> Clients]
        /\ client'[r].op = client[r].op /\ client'[r].key = client[r].key
        /\ client'[r].late = client[r].late
        /\ client'[r].token = client[r].token
        /\ client'[r].pc \in {"finding", "rejected"}
        /\ service' \in [ServiceIds -> {"missing", "active", "inactive"}]
        /\ \A k \in ServiceIds : service[k] # "missing" => service'[k] = service[k]
        /\ session' = session /\ idp' = idp
        /\ client[r].pc = "inserting" /\ client[r].key \in ServiceIds /\ client[r].op # "use"
      <2>1. /\ client[r].pc = "inserting" /\ client[r].key \in ServiceIds /\ client[r].op # "use"
          /\ session' = session /\ idp' = idp
      BY DEF InsertService, At, KeysInv, Keyed
    <2>2. PICK pc \in {"finding", "rejected"} : Step(r, pc)
      BY DEF InsertService
    <2>3. /\ service' \in [ServiceIds -> {"missing", "active", "inactive"}]
          /\ \A k \in ServiceIds : service[k] # "missing" => service'[k] = service[k]
      BY <2>1 DEF InsertService, KeysInv, KeysTypeOK
    <2> QED
      BY <2>1, <2>2, <2>3 DEF Step, KeysInv, KeysTypeOK, Clients
  <1>1. KeysTypeOK'
    BY <1>0 DEF KeysInv, KeysTypeOK, Clients
  <1>2. Keyed'
    BY <1>0 DEF KeysInv, Keyed
  <1>3. Ended'
    BY <1>0 DEF KeysInv, Ended
  <1>4. Unstored'
    BY DistinctKeys, <1>0 DEF KeysInv, Unstored, Keyed
  <1>5. Late'
    BY <1>0 DEF KeysInv, Late
  <1>6. Given'
    BY <1>0 DEF KeysInv, Given
  <1>7. Owned'
    BY <1>0 DEF KeysInv, Owned
  <1>8. Fresh'
    BY <1>0 DEF KeysInv, Fresh
  <1>9. Revoked'
    BY <1>0 DEF KeysInv, Revoked
  <1>10. StoredIsAlive'
    BY <1>0 DEF KeysInv, StoredIsAlive, At
  <1> QED
    BY <1>1, <1>2, <1>3, <1>4, <1>5, <1>6, <1>7, <1>8, <1>9, <1>10 DEF KeysInv

\* A service key is inactivated.
LEMMA MarkInactiveKeeps ==
    ASSUME KeysInv, NEW r \in Callers, MarkInactive(r)
    PROVE  KeysInv'
  <1>0. /\ \A q \in Callers : q # r => client'[q] = client[q]
        /\ client' \in [Callers -> Clients]
        /\ client'[r].op = client[r].op /\ client'[r].key = client[r].key
        /\ client'[r].late = client[r].late
        /\ client'[r].pc = "accepted" /\ client'[r].token = client[r].token
        /\ service' = [service EXCEPT ![client[r].key] = "inactive"]
        /\ session' = session
        /\ idp' = [idp EXCEPT !.ended = idp.ended \cup {client[r].key}]
        /\ client[r].pc = "marking" /\ client[r].key \in ServiceIds /\ client[r].op # "use"
    BY DEF MarkInactive, Step, At, KeysInv, KeysTypeOK, Clients, Keyed
  <1>1. KeysTypeOK'
    BY <1>0 DEF KeysInv, KeysTypeOK, Clients
  <1>2. Keyed'
    BY <1>0 DEF KeysInv, Keyed
  <1>3. Ended'
    BY DistinctKeys, <1>0 DEF KeysInv, Ended, KeysTypeOK
  <1>4. Unstored'
    BY DistinctKeys, <1>0 DEF KeysInv, Unstored, Keyed
  <1>5. Late'
    BY <1>0 DEF KeysInv, Late
  <1>6. Given'
    BY <1>0 DEF KeysInv, Given
  <1>7. Owned'
    BY <1>0 DEF KeysInv, Owned
  <1>8. Fresh'
    BY <1>0 DEF KeysInv, Fresh
  <1>9. Revoked'
    BY <1>0 DEF KeysInv, Revoked
  <1>10. StoredIsAlive'
    BY <1>0 DEF KeysInv, StoredIsAlive, At
  <1> QED
    BY <1>1, <1>2, <1>3, <1>4, <1>5, <1>6, <1>7, <1>8, <1>9, <1>10 DEF KeysInv

\* The document of an expired session goes.
LEMMA ReapKeeps ==
    ASSUME KeysInv, NEW k \in SessionIds, Reap(k)
    PROVE  KeysInv'
  <1>0. /\ session' = [session EXCEPT ![k] = NoToken]
        /\ session[k] \in Nat /\ session[k] # NoToken
        /\ service' = service /\ client' = client
        /\ idp' = [idp EXCEPT !.ended = idp.ended \cup {k}]
    BY DistinctKeys DEF Reap, KeysInv, KeysTypeOK, Clients, Tokens
  <1>1. KeysTypeOK'
    BY <1>0 DEF KeysInv, KeysTypeOK, Clients
  <1>2. Keyed'
    BY <1>0 DEF KeysInv, Keyed
  <1>3. Ended'
    BY DistinctKeys, <1>0 DEF KeysInv, Ended, KeysTypeOK
  <1>4. Unstored'
    BY <1>0 DEF KeysInv, Unstored, KeysTypeOK, Keyed
  <1>5. Late'
    BY <1>0 DEF KeysInv, Late
  <1>6. Given'
    BY <1>0 DEF KeysInv, Given, KeysTypeOK
  <1>7. Owned'
    BY <1>0 DEF KeysInv, Owned, KeysTypeOK
  <1>8. Fresh'
    BY <1>0 DEF KeysInv, Fresh, KeysTypeOK, Keyed
  <1>9. Revoked'
    BY <1>0 DEF KeysInv, Revoked
  <1>10. StoredIsAlive'
    BY <1>0 DEF KeysInv, StoredIsAlive, At, KeysTypeOK
  <1> QED
    BY <1>1, <1>2, <1>3, <1>4, <1>5, <1>6, <1>7, <1>8, <1>9, <1>10 DEF KeysInv

\* A token expires.
LEMMA ExpireKeeps ==
    ASSUME KeysInv, Expire
    PROVE  KeysInv'
  <1>1. PICK t \in 1..idp.given : idp' = [idp EXCEPT !.expired = idp.expired \cup {t}]
    BY DEF Expire
  <1>2. session' = session /\ service' = service /\ client' = client
    BY DEF Expire
  <1>3. KeysTypeOK'
    BY DistinctKeys, <1>1, <1>2 DEF KeysInv, KeysTypeOK, Clients, Tokens
  <1>4. Keyed' /\ Ended' /\ Unstored' /\ Late'
    BY <1>1, <1>2 DEF KeysInv, KeysTypeOK, Clients, Keyed, Ended, Unstored, Late
  <1>5. Given' /\ Owned'
    BY <1>1, <1>2 DEF KeysInv, KeysTypeOK, Clients, Given, Owned
  <1>6. Fresh' /\ Revoked' /\ StoredIsAlive'
    BY <1>1, <1>2 DEF KeysInv, KeysTypeOK, Clients, Fresh, Revoked, StoredIsAlive, At
  <1> QED
    BY <1>3, <1>4, <1>5, <1>6 DEF KeysInv

\* The invariant holds before any request.
LEMMA KeysInitInv ==
    ASSUME KeysInit
    PROVE  KeysInv
  <1>1. KeysTypeOK
    BY DistinctKeys DEF KeysInit, KeysTypeOK, NoRequest
  <1>2. \A r \in Callers : client[r] = NoRequest
    BY DEF KeysInit
  <1>3. \A k \in SessionIds : session[k] = NoToken
    BY DEF KeysInit
  <1>4. Keyed /\ Ended /\ Unstored /\ Late
    BY <1>2 DEF KeysInit, NoRequest, Keyed, Ended, Unstored, Late
  <1>5. Given /\ Owned
    BY <1>2, <1>3 DEF KeysInit, NoRequest, Given, Owned
  <1>6. Fresh /\ Revoked /\ StoredIsAlive
    BY <1>2, <1>3 DEF KeysInit, NoRequest, Fresh, Revoked, StoredIsAlive
  <1> QED
    BY <1>1, <1>4, <1>5, <1>6 DEF KeysInv

\* Every step keeps the invariant.
LEMMA KeysNextKeeps ==
    ASSUME KeysInv, [KeysNext]_keyVars
    PROVE  KeysInv'
  <1>1. CASE UNCHANGED keyVars
    <2>1. session' = session /\ service' = service /\ idp' = idp /\ client' = client
      BY <1>1 DEF keyVars
    <2>2. KeysTypeOK' /\ Keyed' /\ Ended' /\ Unstored'
      BY <2>1 DEF KeysInv, KeysTypeOK, Clients, Keyed, Ended, Unstored
    <2>3. Late' /\ Given' /\ Owned'
      BY <2>1 DEF KeysInv, Late, Given, Owned
    <2>4. Fresh' /\ Revoked' /\ StoredIsAlive'
      BY <2>1 DEF KeysInv, Fresh, Revoked, StoredIsAlive, At
    <2> QED
      BY <2>2, <2>3, <2>4 DEF KeysInv
  <1>2. ASSUME NEW r \in Callers, NEW k \in SessionIds, Login(r, k) \/ Logout(r, k)
        PROVE  KeysInv'
    <2>1. CASE Login(r, k)
      BY <2>1, ArriveKeeps DEF Login
    <2>2. CASE Logout(r, k)
      BY <2>2, ArriveKeeps DEF Logout
    <2> QED
      BY <1>2, <2>1, <2>2
  <1>3. ASSUME NEW r \in Callers, NEW k \in ServiceIds,
               CreateService(r, k) \/ InactivateService(r, k)
        PROVE  KeysInv'
    <2>1. CASE CreateService(r, k)
      BY <2>1, ArriveKeeps DEF CreateService
    <2>2. CASE InactivateService(r, k)
      BY <2>2, ArriveKeeps DEF InactivateService
    <2> QED
      BY <1>3, <2>1, <2>2
  <1>4. ASSUME NEW r \in Callers, NEW k \in SessionIds \cup ServiceIds \cup {AdminKey},
               Authenticate(r, k)
        PROVE  KeysInv'
    BY <1>4, ArriveKeeps DEF Authenticate
  <1>5. ASSUME NEW r \in Callers, GetKey(r)
        PROVE  KeysInv'
    <2>1. CASE client'[r].pc # "rejected"
      BY <1>5, <2>1, GetKeyKeeps
    <2>2. CASE client'[r].pc = "rejected"
      <3>1. client[r].pc = "getting" /\ Step(r, "rejected")
        BY <1>5, <2>2 DEF GetKey, Step, Hold, AfterKey, At, KeysInv, KeysTypeOK, Clients
      <3>2. session' = session /\ service' = service /\ idp' = idp
        BY <1>5 DEF GetKey
      <3> QED
        BY <3>1, <3>2, KeysQuietKeeps
    <2> QED
      BY <2>1, <2>2
  <1>6. ASSUME NEW r \in Callers, RefuseRefresh(r) \/ FindService(r)
        PROVE  KeysInv'
    <2>1. CASE RefuseRefresh(r)
      BY <2>1, KeysQuietKeeps DEF RefuseRefresh, At
    <2>2. CASE FindService(r)
      <3>1. /\ client[r].pc = "finding" /\ client[r].key \in ServiceIds /\ client[r].op # "use"
            /\ session' = session /\ service' = service /\ idp' = idp
        BY <2>2 DEF FindService, At, KeysInv, Keyed
      <3>2. PICK pc \in {"rejected", "accepted", "marking"} : Step(r, pc)
        BY <2>2 DEF FindService
      <3> QED
        BY <3>1, <3>2, KeysQuietKeeps
    <2> QED
      BY <1>6, <2>1, <2>2
  <1>7. ASSUME NEW r \in Callers, FindSecret(r)
        PROVE  KeysInv'
    <2>1. /\ client[r].pc = "secret"
          /\ session' = session /\ service' = service /\ idp' = idp
      BY <1>7 DEF FindSecret, At
    <2>2. CASE client[r].key \in ServiceIds /\ service[client[r].key] = "active"
      <3>1. Step(r, "accepted") /\ client[r].key \notin SessionIds
        BY DistinctKeys, <1>7, <2>2 DEF FindSecret
      <3>2. ~ client[r].late
        BY <2>2 DEF KeysInv, Late, Ended
      <3> QED
        BY <2>1, <3>1, <3>2, KeysQuietKeeps
    <2>3. CASE ~ (client[r].key \in ServiceIds /\ service[client[r].key] = "active")
      <3>1. Step(r, "getting")
        BY <1>7, <2>3 DEF FindSecret
      <3> QED
        BY <2>1, <3>1, KeysQuietKeeps
    <2> QED
      BY <2>2, <2>3
  <1>8. ASSUME NEW r \in Callers, Fail(r)
        PROVE  KeysInv'
    <2>1. CASE client[r].pc = "updating"
      BY <1>8, <2>1, LostRefreshKeeps
    <2>2. CASE client[r].pc # "updating"
      BY <1>8, <2>2, KeysQuietKeeps DEF Fail, At
    <2> QED
      BY <2>1, <2>2
  <1> QED
    BY <1>1, <1>2, <1>3, <1>4, <1>5, <1>6, <1>7, <1>8, ExchangeKeeps, CreateKeyKeeps,
       RefreshKeeps, UpdateKeyKeeps, InactivateKeyKeeps, RevokeKeeps, InsertServiceKeeps,
       MarkInactiveKeeps, ExpireKeeps, ReapKeeps DEF KeysNext

-----------------------------------------------------------------------------

\* The types of the keys hold, for any keys and number of requests.
THEOREM KeysTypeCorrect == KeysSpec => []KeysTypeOK
  <1>1. KeysInv => KeysTypeOK
    BY DEF KeysInv
  <1> QED
    BY <1>1, KeysInitInv, KeysNextKeeps, PTL DEF KeysSpec

\* No key is accepted after it has ended, for any number of sessions, service
\* keys and requests, whatever fails and whatever is refreshed meanwhile.
THEOREM EndCorrect == KeysSpec => []NoUseAfterEnd
  <1>1. KeysInv => NoUseAfterEnd
    BY DEF KeysInv, Late, NoUseAfterEnd, At
  <1> QED
    BY <1>1, KeysInitInv, KeysNextKeeps, PTL DEF KeysSpec

\* The token of a stored session can be refreshed, or is about to be replaced,
\* for any number of requests that refresh it at once.
THEOREM AliveCorrect == KeysSpec => []StoredIsAlive
  <1>1. KeysInv => StoredIsAlive
    BY DEF KeysInv
  <1> QED
    BY <1>1, KeysInitInv, KeysNextKeeps, PTL DEF KeysSpec

------------------------------------------------------------------------------
(* The strategies: what a request reads from the strategy it shares.  A        *)
(* strategy is held by a request that fetched this very strategy, so that two  *)
(* requests that meet in one agree on all that its choice depends on.          *)

\* The request fetched a strategy
Served(r) ==
    /\ request[r].op # "none"
    /\ request[r].op = "create" \/ Behaviour[request[r].kind] \in Behaviours

\* The strategy of a request is held by one that fetched the same strategy
StrategyHeld == \A r \in Requests : Served(r) => Holder(r) \in Requests

HolderFetched ==
    \A s \in Strategies : held[s] \in Requests =>
        Served(held[s]) /\ StrategyOf(held[s]) = s

OnTheWay ==
    \A r \in Requests :
        /\ request[r].pc \notin {"idle", "done"} => Served(r)
        /\ request[r].pc = "called" => request[r].kind \in Constructed

UsesShared ==
    \A r \in Requests : \A u \in request[r].uses :
        /\ u[2] \in Requests
        /\ request[u[2]].op # "none"
        /\ StrategyOf(u[2]) = StrategyOf(r)

StrategyInv ==
    /\ StrategyTypeOK
    /\ StrategyHeld /\ HolderFetched /\ OnTheWay /\ UsesShared
    /\ OwnProcedure /\ OwnKindWithoutConstructor

\* What is read after an await
Afterwards == {"metadata", "validation", "watcher", "watchlist", "diffs"}

Ops == {"create", "update", "delete", "status"}

-----------------------------------------------------------------------------

\* A request that is served has one of the strategies.
LEMMA StrategyType ==
    ASSUME NEW r \in Requests, StrategyTypeOK, Served(r)
    PROVE  StrategyOf(r) \in Strategies
  <1>1. request[r].op \in Ops
    BY DEF StrategyTypeOK, Served, Ops
  <1> QED
    BY <1>1 DEF Served, StrategyOf, CreationStrategy, Strategies, Ops

\* The invariant holds before any request.
LEMMA StrategyInitInv ==
    ASSUME StrategyInit
    PROVE  StrategyInv
  <1>1. StrategyTypeOK
    BY DEF StrategyInit, Idle, StrategyTypeOK, Places
  <1>2. \A r \in Requests : request[r] = Idle
    BY DEF StrategyInit
  <1>3. StrategyHeld /\ HolderFetched /\ OnTheWay
    BY NobodyIsNoRequest, <1>2 DEF StrategyInit, Idle, StrategyHeld, HolderFetched, OnTheWay, Served
  <1>4. UsesShared /\ OwnProcedure /\ OwnKindWithoutConstructor
    BY <1>2 DEF Idle, UsesShared, OwnProcedure, OwnKindWithoutConstructor
  <1> QED
    BY <1>1, <1>3, <1>4 DEF StrategyInv

\* A request starts and fetches its strategy; what it reads at once is its own.
LEMMA StartKeeps ==
    ASSUME StrategyInv,
           NEW r \in Requests, NEW k \in Kinds, NEW op \in Ops, NEW pc \in Places,
           NEW s \in Strategies, NEW uses \in SUBSET (Uses \X {r}),
           Fetch(r, s), Start(r, op, k, pc, uses),
           op = "create" \/ Behaviour[k] \in Behaviours,
           s = CASE op = "create" -> CreationStrategy(k)
                 [] op = "status" -> <<"status", Behaviour[k]>>
                 [] OTHER         -> <<"intentful", Behaviour[k]>>,
           pc = "called" => k \in Constructed
    PROVE  StrategyInv'
  <1>1. request' = [request EXCEPT
            ![r] = [op |-> op, kind |-> k, pc |-> pc, uses |-> uses]]
        /\ held' = [held EXCEPT ![s] = r] /\ request[r] = Idle
    BY DEF Start, Fetch
  <1>2. StrategyTypeOK'
    BY <1>1 DEF StrategyInv, StrategyTypeOK, Ops
  <1>3. /\ request'[r] = [op |-> op, kind |-> k, pc |-> pc, uses |-> uses]
        /\ \A q \in Requests : q # r => request'[q] = request[q]
        /\ held'[s] = r
        /\ \A t \in Strategies : t # s => held'[t] = held[t]
    BY <1>1 DEF StrategyInv, StrategyTypeOK
  <1>4. Served(r)' /\ StrategyOf(r)' = s /\ op # "none"
    BY <1>3 DEF Served, StrategyOf, CreationStrategy, Ops
  <1>5. \A q \in Requests : q # r =>
            /\ Served(q)' <=> Served(q)
            /\ StrategyOf(q)' = StrategyOf(q)
    BY <1>3 DEF Served, StrategyOf, CreationStrategy
  <1>6. ~ Served(r) /\ request[r].op = "none"
    BY <1>1 DEF Idle, Served
  <1>7. StrategyHeld'
    <2> SUFFICES ASSUME NEW q \in Requests, Served(q)'
                 PROVE  Holder(q)' \in Requests
      BY DEF StrategyHeld
    <2>1. CASE q = r
      BY <2>1, <1>3, <1>4 DEF Holder
    <2>2. CASE q # r
      <3>1. Served(q) /\ StrategyOf(q)' = StrategyOf(q)
        BY <2>2, <1>5
      <3>2. StrategyOf(q) \in Strategies /\ Holder(q) \in Requests
        BY <3>1, StrategyType DEF StrategyInv, StrategyHeld
      <3> QED
        BY <3>1, <3>2, <1>3 DEF Holder
    <2> QED
      BY <2>1, <2>2
  <1>8. HolderFetched'
    <2> SUFFICES ASSUME NEW t \in Strategies, held'[t] \in Requests
                 PROVE  Served(held[t])' /\ StrategyOf(held[t])' = t
      BY DEF HolderFetched
    <2>1. CASE t = s
      BY <2>1, <1>3, <1>4 DEF Served, StrategyOf, CreationStrategy
    <2>2. CASE t # s
      <3>1. held'[t] = held[t] /\ Served(held[t]) /\ StrategyOf(held[t]) = t
        BY <2>2, <1>3 DEF StrategyInv, HolderFetched
      <3>2. held[t] # r
        BY <3>1, <1>6
      <3> QED
        BY <3>1, <3>2, <1>3 DEF Served, StrategyOf, CreationStrategy
    <2> QED
      BY <2>1, <2>2
  <1>9. OnTheWay'
    BY <1>3, <1>4, <1>5 DEF StrategyInv, OnTheWay
  <1>10. UsesShared'
    <2> SUFFICES ASSUME NEW q \in Requests, NEW u \in request'[q].uses
                 PROVE  /\ u[2] \in Requests
                        /\ request'[u[2]].op # "none"
                        /\ StrategyOf(u[2])' = StrategyOf(q)'
      BY DEF UsesShared, StrategyOf, CreationStrategy
    <2>1. CASE q = r
      BY <2>1, <1>3, <1>4
    <2>2. CASE q # r
      <3>1. u[2] \in Requests /\ request[u[2]].op # "none" /\ StrategyOf(u[2]) = StrategyOf(q)
        BY <2>2, <1>3 DEF StrategyInv, UsesShared
      <3>2. u[2] # r
        BY <3>1, <1>6
      <3> QED
        BY <2>2, <3>1, <3>2, <1>3, <1>5
    <2> QED
      BY <2>1, <2>2
  <1>11. OwnProcedure' /\ OwnKindWithoutConstructor'
    <2>1. \A u \in uses : u[2] = r
      OBVIOUS
    <2> QED
      BY <2>1, <1>3 DEF StrategyInv, OwnProcedure, OwnKindWithoutConstructor
  <1> QED
    BY <1>2, <1>7, <1>8, <1>9, <1>10, <1>11 DEF StrategyInv

\* A request goes on, reading what its strategy holds by then.
LEMMA UseKeeps ==
    ASSUME StrategyInv, NEW r \in Requests, NEW pc \in Places,
           NEW uses \in SUBSET (Afterwards \X {Holder(r)}),
           Use(r, uses, pc), Served(r), pc # "called",
           \A u \in uses : u[1] = "metadata" => request[r].kind \in Constructed
    PROVE  StrategyInv'
  <1>1. /\ request' = [request EXCEPT ![r].uses = @ \cup uses, ![r].pc = pc]
        /\ held' = held
    BY DEF Use
  <1>2. Holder(r) \in Requests /\ StrategyOf(r) \in Strategies
    BY StrategyType DEF StrategyInv, StrategyHeld
  <1>3. uses \in SUBSET (Uses \X (Requests \cup {Nobody}))
    BY <1>2 DEF Afterwards, Uses
  <1>4. StrategyTypeOK'
    <2>1. request[r].uses \cup uses \in SUBSET (Uses \X (Requests \cup {Nobody}))
      BY <1>3 DEF StrategyInv, StrategyTypeOK
    <2> DEFINE R == [op : {"none", "create", "update", "delete", "status"},
                     kind : Kinds \cup {Nobody}, pc : Places,
                     uses : SUBSET (Uses \X (Requests \cup {Nobody}))]
    <2>2. request \in [Requests -> R]
      BY DEF StrategyInv, StrategyTypeOK
    <2>3. request'[r] = [request[r] EXCEPT !.uses = request[r].uses \cup uses, !.pc = pc]
      BY <1>1, <2>2
    <2>4. request[r] \in R
      BY <2>2
    <2>5. request'[r] \in R
      BY <2>1, <2>3, <2>4
    <2>6. request' \in [Requests -> R]
      BY <1>1, <2>2, <2>5
    <2> QED
      BY <2>6, <1>1 DEF StrategyInv, StrategyTypeOK
  <1>5. /\ \A q \in Requests : /\ request'[q].op = request[q].op
                               /\ request'[q].kind = request[q].kind
                               /\ q # r => request'[q] = request[q]
        /\ request'[r].pc = pc
        /\ request'[r].uses = request[r].uses \cup uses
    BY <1>1 DEF StrategyInv, StrategyTypeOK
  <1>6. \A q \in Requests : /\ Served(q)' <=> Served(q)
                            /\ StrategyOf(q)' = StrategyOf(q)
    BY <1>5 DEF Served, StrategyOf, CreationStrategy
  <1>7. StrategyHeld'
    BY <1>1, <1>6 DEF StrategyInv, StrategyHeld, Holder
  <1>8. HolderFetched'
    <2> SUFFICES ASSUME NEW t \in Strategies, held'[t] \in Requests
                 PROVE  Served(held[t])' /\ StrategyOf(held[t])' = t
      BY DEF HolderFetched
    <2>1. held'[t] = held[t] /\ Served(held[t]) /\ StrategyOf(held[t]) = t
      BY <1>1 DEF StrategyInv, HolderFetched
    <2> QED
      BY ZenonT(60), <2>1, <1>1, <1>5 DEF Served, StrategyOf, CreationStrategy
  <1>9. OnTheWay'
    BY <1>5, <1>6 DEF StrategyInv, OnTheWay
  <1>10. UsesShared'
    <2> SUFFICES ASSUME NEW q \in Requests, NEW u \in request'[q].uses
                 PROVE  /\ u[2] \in Requests
                        /\ request'[u[2]].op # "none"
                        /\ StrategyOf(u[2])' = StrategyOf(q)'
      BY DEF UsesShared, StrategyOf, CreationStrategy
    <2>1. CASE u \in request[q].uses
      <3>1. u[2] \in Requests /\ request[u[2]].op # "none" /\ StrategyOf(u[2]) = StrategyOf(q)
        BY <2>1 DEF StrategyInv, UsesShared
      <3> QED
        BY <3>1, <1>5, <1>6
    <2>2. CASE q = r /\ u \in uses
      <3>1. u[2] = Holder(r)
        BY <2>2
      <3>2. Served(u[2]) /\ StrategyOf(u[2]) = StrategyOf(r)
        BY <3>1, <1>2 DEF StrategyInv, HolderFetched, Holder
      <3> QED
        BY <2>2, <3>1, <3>2, <1>2, <1>5, <1>6 DEF Served
    <2> QED
      BY <2>1, <2>2, <1>5
  <1>11. OwnProcedure'
    <2>1. \A u \in uses : u[1] \notin {"constructor", "destructor"}
      BY DEF Afterwards
    <2> QED
      BY <2>1, <1>5 DEF StrategyInv, OwnProcedure
  <1>12. OwnKindWithoutConstructor'
    BY <1>5 DEF StrategyInv, OwnKindWithoutConstructor
  <1> QED
    BY <1>4, <1>7, <1>8, <1>9, <1>10, <1>11, <1>12 DEF StrategyInv

\* A request for a kind without strategy is refused and fetches nothing.
LEMMA NoStrategyKeeps ==
    ASSUME StrategyInv, NEW r \in Requests, NEW k \in Kinds, NoStrategy(r, k)
    PROVE  StrategyInv'
  <1>1. PICK op \in {"update", "delete", "status"} : Start(r, op, k, "done", {})
    BY DEF NoStrategy
  <1>2. /\ request' = [request EXCEPT
               ![r] = [op |-> op, kind |-> k, pc |-> "done", uses |-> {}]]
        /\ request[r] = Idle /\ held' = held /\ Behaviour[k] \notin Behaviours
    BY <1>1 DEF Start, NoStrategy
  <1>3. StrategyTypeOK'
    BY <1>2 DEF StrategyInv, StrategyTypeOK, Places
  <1>4. /\ request'[r] = [op |-> op, kind |-> k, pc |-> "done", uses |-> {}]
        /\ \A q \in Requests : q # r => request'[q] = request[q]
    BY <1>2 DEF StrategyInv, StrategyTypeOK
  <1>5. ~ Served(r) /\ ~ Served(r)' /\ request[r].op = "none"
    BY <1>2, <1>4 DEF Served, Idle
  <1>6. \A q \in Requests : q # r => /\ Served(q)' <=> Served(q)
                                     /\ StrategyOf(q)' = StrategyOf(q)
    BY <1>4 DEF Served, StrategyOf, CreationStrategy
  <1>7. StrategyHeld'
    BY <1>2, <1>5, <1>6 DEF StrategyInv, StrategyHeld, Holder
  <1>8. HolderFetched'
    <2> SUFFICES ASSUME NEW t \in Strategies, held'[t] \in Requests
                 PROVE  Served(held[t])' /\ StrategyOf(held[t])' = t
      BY DEF HolderFetched
    <2>1. held'[t] = held[t] /\ Served(held[t]) /\ StrategyOf(held[t]) = t
      BY <1>2 DEF StrategyInv, HolderFetched
    <2>2. held[t] # r
      BY <2>1, <1>5
    <2> QED
      BY <2>1, <2>2, <1>2, <1>4 DEF Served, StrategyOf, CreationStrategy
  <1>9. OnTheWay'
    BY <1>4, <1>6 DEF StrategyInv, OnTheWay
  <1>10. UsesShared'
    <2> SUFFICES ASSUME NEW q \in Requests, NEW u \in request'[q].uses
                 PROVE  /\ u[2] \in Requests
                        /\ request'[u[2]].op # "none"
                        /\ StrategyOf(u[2])' = StrategyOf(q)'
      BY DEF UsesShared, StrategyOf, CreationStrategy
    <2>1. q # r
      BY <1>4
    <2>2. u[2] \in Requests /\ request[u[2]].op # "none" /\ StrategyOf(u[2]) = StrategyOf(q)
      BY <2>1, <1>4 DEF StrategyInv, UsesShared
    <2>3. u[2] # r
      BY <2>2, <1>5
    <2> QED
      BY <2>1, <2>2, <2>3, <1>4, <1>6
  <1>11. OwnProcedure' /\ OwnKindWithoutConstructor'
    BY <1>4 DEF StrategyInv, OwnProcedure, OwnKindWithoutConstructor
  <1> QED
    BY <1>3, <1>7, <1>8, <1>9, <1>10, <1>11 DEF StrategyInv

\* Every step keeps the invariant.
LEMMA StrategyNextKeeps ==
    ASSUME StrategyInv, [StrategyNext]_strategyVars
    PROVE  StrategyInv'
  <1>1. CASE UNCHANGED strategyVars
    <2>1. held' = held /\ request' = request
      BY <1>1 DEF strategyVars
    <2>2. StrategyTypeOK' /\ OnTheWay' /\ OwnProcedure' /\ OwnKindWithoutConstructor'
      BY <2>1 DEF StrategyInv, StrategyTypeOK, OnTheWay, OwnProcedure, OwnKindWithoutConstructor, Served
    <2>3. StrategyHeld'
      BY <2>1 DEF StrategyInv, StrategyHeld, Served, Holder, StrategyOf, CreationStrategy
    <2>4. HolderFetched'
      BY <2>1 DEF StrategyInv, HolderFetched, Served, StrategyOf, CreationStrategy
    <2>5. UsesShared'
      BY ZenonT(60), <2>1 DEF StrategyInv, UsesShared, StrategyOf, CreationStrategy
    <2> QED
      BY <2>2, <2>3, <2>4, <2>5 DEF StrategyInv
  <1>2. ASSUME NEW r \in Requests, NEW k \in Kinds, StartCreate(r, k)
        PROVE  StrategyInv'
    <2> DEFINE s == CreationStrategy(k)
               u == IF k \in Constructed THEN "constructor" ELSE "metadata"
               p == IF k \in Constructed THEN "called" ELSE "named"
    <2>1. s \in Strategies
      BY DEF CreationStrategy, Strategies
    <2>2. held'[s] = r
      BY <1>2, <2>1 DEF StartCreate, Fetch, StrategyInv, StrategyTypeOK
    <2>3. Fetch(r, s) /\ Start(r, "create", k, p, {<<u, r>>})
      BY <1>2, <2>2 DEF StartCreate
    <2>4. {<<u, r>>} \in SUBSET (Uses \X {r})
      BY DEF Uses
    <2>5. p \in Places /\ "create" \in Ops /\ (p = "called" => k \in Constructed)
      BY DEF Places, Ops
    <2> HIDE DEF s, p, u
    <2> QED
      BY <2>1, <2>3, <2>4, <2>5, StartKeeps DEF s
  <1>3. ASSUME NEW r \in Requests, NEW k \in Kinds, StartUpdate(r, k)
        PROVE  StrategyInv'
    <2> DEFINE s == <<"intentful", Behaviour[k]>>
               p == IF Behaviour[k] = "SpecOnly" THEN "done" ELSE "updating"
    <2>1. Behaviour[k] \in Behaviours /\ Fetch(r, s) /\ Start(r, "update", k, p, {})
      BY <1>3 DEF StartUpdate
    <2>2. s \in Strategies /\ p \in Places /\ "update" \in Ops /\ p # "called"
      BY <2>1 DEF Strategies, Places, Ops
    <2> HIDE DEF s, p
    <2> QED
      BY <2>1, <2>2, StartKeeps DEF s
  <1>4. ASSUME NEW r \in Requests, NEW k \in Kinds, StartDelete(r, k)
        PROVE  StrategyInv'
    <2> DEFINE s == <<"intentful", Behaviour[k]>>
    <2>1. Behaviour[k] \in Behaviours /\ Fetch(r, s)
      BY <1>4 DEF StartDelete
    <2>2. s \in Strategies /\ "done" \in Places /\ "delete" \in Ops
      BY <2>1 DEF Strategies, Places, Ops
    <2>3. held'[s] = r
      BY <2>1, <2>2 DEF Fetch, StrategyInv, StrategyTypeOK
    <2>4. PICK uses \in SUBSET (Uses \X {r}) : Start(r, "delete", k, "done", uses)
      <3>1. Start(r, "delete", k, "done", IF k \in Destructed THEN {<<"destructor", r>>} ELSE {})
        BY <1>4, <2>3 DEF StartDelete
      <3>2. (IF k \in Destructed THEN {<<"destructor", r>>} ELSE {}) \in SUBSET (Uses \X {r})
        BY DEF Uses
      <3> QED
        BY <3>1, <3>2
    <2> HIDE DEF s
    <2> QED
      BY <2>1, <2>2, <2>4, StartKeeps DEF s
  <1>5. ASSUME NEW r \in Requests, NEW k \in Kinds, StartStatus(r, k)
        PROVE  StrategyInv'
    <2> DEFINE s == <<"status", Behaviour[k]>>
    <2>1. PICK p \in {"merging", "done"} : Start(r, "status", k, p, {})
      BY <1>5 DEF StartStatus
    <2>2. Behaviour[k] \in Behaviours /\ Fetch(r, s)
      BY <1>5 DEF StartStatus
    <2>3. s \in Strategies /\ p \in Places /\ "status" \in Ops /\ p # "called"
      BY <2>2 DEF Strategies, Places, Ops
    <2> HIDE DEF s
    <2> QED
      BY <2>1, <2>2, <2>3, StartKeeps DEF s
  <1>6. ASSUME NEW r \in Requests,
               NameConstructed(r) \/ ValidateEntity(r) \/ SaveWatcher(r) \/ DiffStatus(r)
        PROVE  StrategyInv'
    <2>1. request[r].pc \in {"called", "named", "updating", "merging"}
      BY <1>6 DEF NameConstructed, ValidateEntity, SaveWatcher, DiffStatus
    <2>2. Served(r)
      BY <2>1 DEF StrategyInv, OnTheWay
    <2>3. PICK n \in Afterwards, p \in {"named", "saving", "done"} :
              /\ Use(r, {<<n, Holder(r)>>}, p)
              /\ n = "metadata" => request[r].pc = "called"
      BY <1>6 DEF NameConstructed, ValidateEntity, SaveWatcher, DiffStatus, Afterwards
    <2>4. n = "metadata" => request[r].kind \in Constructed
      BY <2>3 DEF StrategyInv, OnTheWay
    <2>5. {<<n, Holder(r)>>} \in SUBSET (Afterwards \X {Holder(r)})
      OBVIOUS
    <2>6. p \in Places /\ p # "called"
      BY DEF Places
    <2> QED
      BY <2>2, <2>3, <2>4, <2>5, <2>6, UseKeeps
  <1>7. ASSUME NEW r \in Requests, FinishCreate(r) \/ FailRequest(r)
        PROVE  StrategyInv'
    <2>1. request[r].pc \notin {"idle", "done"}
      BY <1>7 DEF FinishCreate, FailRequest
    <2>2. Served(r)
      BY <2>1 DEF StrategyInv, OnTheWay
    <2>3. PICK uses \in SUBSET ({"watcher", "watchlist"} \X {Holder(r)}) : Use(r, uses, "done")
      BY <1>7 DEF FinishCreate, FailRequest
    <2>4. uses \in SUBSET (Afterwards \X {Holder(r)})
          /\ \A u \in uses : u[1] # "metadata"
      BY DEF Afterwards
    <2>5. "done" \in Places
      BY DEF Places
    <2> QED
      BY <2>2, <2>3, <2>4, <2>5, UseKeeps
  <1> QED
    BY <1>1, <1>2, <1>3, <1>4, <1>5, <1>6, <1>7, NoStrategyKeeps DEF StrategyNext, Request

\* What is shared is shared with a request for the same strategy.
LEMMA SharedFromInv ==
    ASSUME StrategyInv
    PROVE  SharedByBehaviour
  <1> SUFFICES ASSUME NEW r \in Requests, NEW u \in request[r].uses
               PROVE  /\ u[2] \in Requests
                      /\ request[r].op \in {"update", "delete"} =>
                             Behaviour[request[u[2]].kind] = Behaviour[request[r].kind]
                      /\ request[r].op = "create" =>
                             (request[u[2]].kind \in Constructed)
                                 = (request[r].kind \in Constructed)
    BY DEF SharedByBehaviour
  <1>1. /\ u[2] \in Requests
        /\ request[u[2]].op \in Ops
        /\ StrategyOf(u[2]) = StrategyOf(r)
    BY DEF StrategyInv, UsesShared, StrategyTypeOK, Ops
  <1>2. CASE request[r].op \in {"update", "delete"}
    <2>1. StrategyOf(r) = <<"intentful", Behaviour[request[r].kind]>>
      BY <1>2 DEF StrategyOf
    <2> QED
      BY <1>1, <1>2, <2>1 DEF StrategyOf, CreationStrategy, Ops
  <1>3. CASE request[r].op = "create"
    <2>1. StrategyOf(r) = CreationStrategy(request[r].kind)
      BY <1>3 DEF StrategyOf
    <2> QED
      BY <1>1, <1>3, <2>1 DEF StrategyOf, CreationStrategy, Ops
  <1> QED
    BY <1>1, <1>2, <1>3

-----------------------------------------------------------------------------

\* The strategies hold requests, whatever the kinds and however many requests.
THEOREM StrategyTypeCorrect == StrategySpec => []StrategyTypeOK
  <1>1. StrategyInv => StrategyTypeOK
    BY DEF StrategyInv
  <1> QED
    BY <1>1, StrategyInitInv, StrategyNextKeeps, PTL DEF StrategySpec

\* A constructor or a destructor that is called is that of the request's kind,
\* however many requests share the strategies.
THEOREM ProcedureCorrect == StrategySpec => []OwnProcedure
  <1>1. StrategyInv => OwnProcedure
    BY DEF StrategyInv
  <1> QED
    BY <1>1, StrategyInitInv, StrategyNextKeeps, PTL DEF StrategySpec

\* An entity created without a constructor is stored under its own kind.
THEOREM KindCorrect == StrategySpec => []OwnKindWithoutConstructor
  <1>1. StrategyInv => OwnKindWithoutConstructor
    BY DEF StrategyInv
  <1> QED
    BY <1>1, StrategyInitInv, StrategyNextKeeps, PTL DEF StrategySpec

\* Requests meet only with requests for the same strategy, for any kinds and
\* behaviours: how far the shared fields can be wrong.
THEOREM SharingCorrect == StrategySpec => []SharedByBehaviour
  <1>1. StrategyInv => SharedByBehaviour
    BY SharedFromInv
  <1> QED
    BY <1>1, StrategyInitInv, StrategyNextKeeps, PTL DEF StrategySpec

------------------------------------------------------------------------------
(* The provider registry: what is left of the kinds that a registration        *)
(* inserts is, when all registrations name the same, what nobody has inserted, *)
(* or another call has it before it.  A process that no history variable       *)
(* excuses holds the authorizer of a stored version, and so does each check of *)
(* it that has read a provider.                                                *)

Pending(p) == \E c \in ApiCalls : apiCall[c].process = p /\ apiCall[c].op = "update_auth"
                                  /\ apiCall[c].pc \in {"inserting", "invalidating"}

\* What the progress of a call says of it
Calling ==
    \A c \in ApiCalls :
        LET q == apiCall[c]
        IN  /\ q.pc # "idle" => q.version \in Versions /\ q.process \in Processes
            /\ q.pc = "saving" /\ q.op = "update_auth" => q.doc \in Docs
            /\ q.pc \in {"read", "creating"} => q.doc \in Docs
            /\ q.pc = "inserting" => q.kinds # <<>>
            /\ q.pc = "unlisting" => q.version \in history.disturbed

Inserts(c, v) == apiCall[c].pc = "inserting" /\ apiCall[c].version = v

\* names is what is left of all
Remains(names, all) ==
    /\ Len(names) \in 1..Len(all)
    /\ \A i \in 1..Len(names) : names[i] = all[Len(all) - Len(names) + i]

\* A call has inserted, or found, each kind before those that it has left
PastListed(v, all) ==
    \A c \in ApiCalls : Inserts(c, v) =>
        /\ Remains(apiCall[c].kinds, all)
        /\ \A i \in 1..(Len(all) - Len(apiCall[c].kinds)) : <<v, all[i]>> \in intentfulKinds

\* What the call has left is left to insert
Leads(c, v) ==
    /\ Inserts(c, v)
    /\ \A i \in 1..Len(apiCall[c].kinds) : <<v, apiCall[c].kinds[i]>> \notin intentfulKinds

GetsThere(v, all) ==
    \/ \A i \in 1..Len(all) : <<v, all[i]>> \in intentfulKinds
    \/ \E c \in ApiCalls : Leads(c, v)

\* Of a version that nothing disturbed: while it was never saved, none of its
\* kinds is listed; when all saved the same kinds, these are listed, or one call
\* has the whole rest to insert
ListingOf(v) ==
    /\ history.saved[v] = {} =>
           /\ v \notin Stored
           /\ \A k \in DifferKinds : <<v, k>> \notin intentfulKinds
           /\ \A c \in ApiCalls : ~ Inserts(c, v)
    /\ \A all \in Seq(DifferKinds) : history.saved[v] = {all} /\ NamedOnce(all) =>
           PastListed(v, all) /\ GetsThere(v, all)

Listing == \A v \in Versions \ history.disturbed : ListingOf(v)

\* A process holds, and is about to hold, what some version has, or is excused
Current(p) ==
    /\ cached[p] = NoProvider \/ \E v \in Stored : cached[p] = AuthorizerOf(providers[v].auth)
    /\ \A c \in ApiCalls :
          apiCall[c].process = p /\ apiCall[c].op = "check" /\ apiCall[c].pc \in {"read", "creating"}
          => apiCall[c].version \in Stored
             /\ apiCall[c].doc.auth = providers[apiCall[c].version].auth

Excused == \A p \in Processes : p \in history.stale \/ Pending(p) \/ Current(p)

RegistryInv == RegistryTypeOK /\ Calling /\ Listing /\ Excused

Pcs == {"idle", "reading", "saving", "inserting", "deleting", "unlisting",
        "invalidating", "read", "creating", "done"}

CallStates ==
    [op : {"none", "register", "unregister", "update_auth", "check"}, pc : Pcs,
     process : Processes \cup {NoProvider}, version : Versions \cup {NoProvider},
     auth : Settings, doc : Docs \cup {NoProvider}, kinds : Seq(DifferKinds)]

Histories ==
    [ids : 0..MaxIds, saved : [Versions -> SUBSET Seq(DifferKinds)],
     disturbed : SUBSET Versions, stale : SUBSET Processes]

\* The call c goes on, and no other
Becomes(c, pc, doc, names) ==
    /\ apiCall' \in [ApiCalls -> CallStates]
    /\ \A d \in ApiCalls : d # c => apiCall'[d] = apiCall[d]
    /\ apiCall'[c].op = apiCall[c].op
    /\ apiCall'[c].process = apiCall[c].process
    /\ apiCall'[c].version = apiCall[c].version
    /\ apiCall'[c].pc = pc /\ apiCall'[c].doc = doc /\ apiCall'[c].kinds = names

\* What a call is after a step of its own.
LEMMA CallProceeds ==
    ASSUME RegistryTypeOK, NEW c \in ApiCalls, NEW pc \in Pcs,
           NEW doc \in Docs \cup {NoProvider}, NEW names \in Seq(DifferKinds),
           \/ /\ apiCall' = [apiCall EXCEPT ![c].pc = pc]
              /\ doc = apiCall[c].doc /\ names = apiCall[c].kinds
           \/ /\ apiCall' = [apiCall EXCEPT ![c].kinds = names, ![c].pc = pc]
              /\ doc = apiCall[c].doc
           \/ apiCall' = [apiCall EXCEPT ![c].pc = pc, ![c].doc = doc, ![c].kinds = names]
    PROVE  Becomes(c, pc, doc, names)
  <1>1. apiCall \in [ApiCalls -> CallStates] /\ apiCall[c] \in CallStates
    BY DEF RegistryTypeOK, CallStates, Pcs
  <1>2. DOMAIN apiCall' = ApiCalls /\ \A d \in ApiCalls : d # c => apiCall'[d] = apiCall[d]
    BY <1>1
  <1>3. apiCall'[c] = [apiCall[c] EXCEPT !.pc = pc, !.doc = doc, !.kinds = names]
    <2>1. CASE /\ apiCall' = [apiCall EXCEPT ![c].pc = pc]
               /\ doc = apiCall[c].doc /\ names = apiCall[c].kinds
      <3>1. apiCall'[c] = [apiCall[c] EXCEPT !.pc = pc]
        BY <1>1, <2>1
      <3> QED BY <1>1, <2>1, <3>1 DEF CallStates
    <2>2. CASE /\ apiCall' = [apiCall EXCEPT ![c].kinds = names, ![c].pc = pc]
               /\ doc = apiCall[c].doc
      <3>1. apiCall'[c] = [apiCall[c] EXCEPT !.kinds = names, !.pc = pc]
        BY <1>1, <2>2
      <3> QED BY <1>1, <2>2, <3>1 DEF CallStates
    <2>3. CASE apiCall' = [apiCall EXCEPT ![c].pc = pc, ![c].doc = doc, ![c].kinds = names]
      BY <1>1, <2>3
    <2> QED BY <2>1, <2>2, <2>3
  <1>4. apiCall'[c] \in CallStates
    BY <1>1, <1>3 DEF CallStates
  <1>5. apiCall' \in [ApiCalls -> CallStates]
    BY <1>1, <1>2, <1>4
  <1> QED
    BY <1>1, <1>2, <1>3, <1>5 DEF Becomes, CallStates

\* The invariant holds before any call.
LEMMA RegistryInitInv ==
    ASSUME RegistryInit
    PROVE  RegistryInv
  <1>1. \A c \in ApiCalls : apiCall[c] = NoCall
    BY DEF RegistryInit
  <1>2. NoAuth \in Settings
    BY DEF NoAuth, Settings
  <1>3. RegistryTypeOK
    BY <1>2, RegistryAssumption DEF RegistryInit, RegistryTypeOK, NoCall
  <1>4. Calling
    BY <1>1 DEF Calling, NoCall
  <1>5. Listing
    BY <1>1 DEF RegistryInit, Listing, ListingOf, Inserts, NoCall, Stored
  <1>6. Excused
    BY <1>1 DEF RegistryInit, Excused, Current, NoCall
  <1> QED
    BY <1>3, <1>4, <1>5, <1>6 DEF RegistryInv

\* What is said of the listing of a version does not depend on what a step
\* changes elsewhere.
LEMMA ListingStays ==
    ASSUME NEW v \in Versions, ListingOf(v), history'.saved[v] = history.saved[v],
           v \in Stored' => v \in Stored,
           \A k \in DifferKinds : <<v, k>> \in intentfulKinds' <=> <<v, k>> \in intentfulKinds,
           \A c \in ApiCalls :
               /\ Inserts(c, v)' <=> Inserts(c, v)
               /\ Inserts(c, v) => apiCall'[c].kinds = apiCall[c].kinds
                                   /\ apiCall[c].kinds \in Seq(DifferKinds)
    PROVE  ListingOf(v)'
  <1>2. ASSUME history.saved[v] = {}
        PROVE  /\ v \notin Stored'
               /\ \A k \in DifferKinds : <<v, k>> \notin intentfulKinds'
               /\ \A c \in ApiCalls : ~ Inserts(c, v)'
    BY <1>2 DEF ListingOf
  <1>3. ASSUME NEW all \in Seq(DifferKinds), history.saved[v] = {all}, NamedOnce(all)
        PROVE  PastListed(v, all)' /\ GetsThere(v, all)'
    <2>1. PastListed(v, all) /\ GetsThere(v, all)
      BY <1>3 DEF ListingOf
    <2>2. \A i \in 1..Len(all) : all[i] \in DifferKinds
      OBVIOUS
    <2>3. PastListed(v, all)'
      <3> SUFFICES ASSUME NEW c \in ApiCalls, Inserts(c, v)'
                   PROVE  /\ Remains(apiCall'[c].kinds, all)
                          /\ \A i \in 1..(Len(all) - Len(apiCall'[c].kinds)) :
                                <<v, all[i]>> \in intentfulKinds'
        BY DEF PastListed, Remains
      <3>1. /\ Inserts(c, v) /\ apiCall'[c].kinds = apiCall[c].kinds
            /\ Remains(apiCall[c].kinds, all)
            /\ Len(all) - Len(apiCall[c].kinds) \in 0..Len(all)
        <4>1. Inserts(c, v) /\ apiCall'[c].kinds = apiCall[c].kinds
          OBVIOUS
        <4>2. Remains(apiCall[c].kinds, all)
          BY <2>1, <4>1 DEF PastListed
        <4>3. Len(all) \in Nat /\ Len(apiCall[c].kinds) \in 1..Len(all)
          BY <4>2 DEF Remains
        <4> QED BY <4>1, <4>2, <4>3
      <3>2. \A i \in 1..(Len(all) - Len(apiCall[c].kinds)) :
                i \in 1..Len(all) /\ <<v, all[i]>> \in intentfulKinds
        BY <2>1, <3>1 DEF PastListed
      <3> QED BY <2>2, <3>1, <3>2
    <2>4. GetsThere(v, all)'
      <3>1. CASE \A i \in 1..Len(all) : <<v, all[i]>> \in intentfulKinds
        BY <2>2, <3>1 DEF GetsThere
      <3>2. ASSUME NEW c \in ApiCalls, Leads(c, v) PROVE Leads(c, v)'
        <4>1. /\ Inserts(c, v)' /\ apiCall'[c].kinds = apiCall[c].kinds
              /\ apiCall[c].kinds \in Seq(DifferKinds)
          BY <3>2 DEF Leads
        <4>2. \A i \in 1..Len(apiCall[c].kinds) : apiCall[c].kinds[i] \in DifferKinds
          BY <4>1
        <4> QED BY <3>2, <4>1, <4>2 DEF Leads
      <3> QED BY <2>1, <3>1, <3>2 DEF GetsThere
    <2> QED BY <2>3, <2>4
  <1> QED BY <1>2, <1>3 DEF ListingOf, NamedOnce

\* What is left of a list shrinks from its head, and what is left behind it is
\* something else.
LEMMA TailRemains ==
    ASSUME NEW all \in Seq(DifferKinds), NEW names \in Seq(DifferKinds),
           Remains(names, all), NamedOnce(all)
    PROVE  /\ Head(names) = all[Len(all) - Len(names) + 1] /\ Head(names) \in DifferKinds
           /\ Tail(names) \in Seq(DifferKinds) /\ Len(Tail(names)) = Len(names) - 1
           /\ Len(names) # 1 => Remains(Tail(names), all)
           /\ \A i \in 1..Len(Tail(names)) :
                 Tail(names)[i] # Head(names) /\ Tail(names)[i] = names[i + 1]
  <1>1. /\ Len(all) \in Nat /\ Len(names) \in 1..Len(all) /\ names # <<>>
        /\ \A i \in 1..Len(names) : names[i] = all[Len(all) - Len(names) + i]
    BY DEF Remains
  <1>2. /\ Tail(names) \in Seq(DifferKinds) /\ Head(names) = names[1]
        /\ Len(Tail(names)) = Len(names) - 1
        /\ \A i \in 1..Len(Tail(names)) : Tail(names)[i] = names[i + 1]
    BY <1>1
  <1>3. ASSUME NEW i \in 1..Len(Tail(names)) PROVE names[i + 1] # names[1]
    <2> DEFINE p == Len(all) - Len(names)
    <2>1. /\ i + 1 \in 1..Len(names) /\ 1 \in 1..Len(names)
          /\ p + (i + 1) \in 1..Len(all) /\ p + 1 \in 1..Len(all) /\ p + (i + 1) # p + 1
      BY <1>1, <1>2
    <2>2. names[i + 1] = all[p + (i + 1)] /\ names[1] = all[p + 1]
      BY <1>1, <2>1
    <2> QED BY <2>1, <2>2 DEF NamedOnce
  <1>4. ASSUME Len(names) # 1 PROVE Remains(Tail(names), all)
    <2>1. Len(Tail(names)) \in 1..Len(all)
      BY <1>1, <1>2, <1>4
    <2>2. ASSUME NEW i \in 1..Len(Tail(names))
          PROVE  Tail(names)[i] = all[Len(all) - Len(Tail(names)) + i]
      <3>1. i + 1 \in 1..Len(names) /\ Tail(names)[i] = names[i + 1]
        BY <1>1, <1>2
      <3>2. Len(all) - Len(names) + (i + 1) = Len(all) - Len(Tail(names)) + i
        BY <1>1, <1>2
      <3> QED BY <1>1, <3>1, <3>2
    <2> QED BY <2>1, <2>2 DEF Remains
  <1>5. names[1] = all[Len(all) - Len(names) + 1]
    BY <1>1
  <1> QED BY <1>1, <1>2, <1>3, <1>4, <1>5

\* Saving a provider keeps what is said of the listing: a call that saves the
\* kinds that others saved comes behind them, and the first of all leads.
LEMMA SaveListing ==
    ASSUME RegistryTypeOK, Listing, NEW c \in ApiCalls, SaveProvider(c),
           NEW v \in Versions, v = apiCall[c].version, NEW ks, ks = apiCall[c].kinds
    PROVE  Listing'
  <1> DEFINE pc == IF ks = <<>> THEN AfterSave(c) ELSE "inserting"
  <1>1. ks \in Seq(DifferKinds) /\ apiCall[c].doc \in Docs \cup {NoProvider}
    BY DEF RegistryTypeOK
  <1>2. Becomes(c, pc, apiCall[c].doc, ks)
    <2>1. pc \in Pcs
      BY DEF AfterSave, Pcs
    <2>2. apiCall' = [apiCall EXCEPT ![c].pc = pc]
      BY DEF SaveProvider, Goto
    <2> QED BY <1>1, <2>1, <2>2, CallProceeds
  <1>3. /\ apiCall[c].pc = "saving" /\ intentfulKinds' = intentfulKinds
        /\ \A w \in Versions : w # v => providers'[w] = providers[w]
    BY DEF SaveProvider, RegistryTypeOK
  <1>4. history'.disturbed = history.disturbed
    BY DEF SaveProvider, RegistryTypeOK
  <1>5. history'.saved = [history.saved EXCEPT ![v] = @ \cup {ks}]
    BY DEF SaveProvider, RegistryTypeOK
  <1>6. ASSUME NEW w \in Versions \ history.disturbed, w # v
        PROVE  ListingOf(w)'
    <2>1. history'.saved[w] = history.saved[w] /\ (w \in Stored' => w \in Stored)
      BY <1>3, <1>5, <1>6 DEF Stored, RegistryTypeOK
    <2>2. \A d \in ApiCalls : Inserts(d, w)' <=> Inserts(d, w)
      BY <1>2, <1>6 DEF Becomes, Inserts
    <2>3. \A d \in ApiCalls : Inserts(d, w) =>
              apiCall'[d].kinds = apiCall[d].kinds /\ apiCall[d].kinds \in Seq(DifferKinds)
      BY <1>2 DEF Becomes, RegistryTypeOK
    <2>4. ListingOf(w)
      BY DEF Listing
    <2> QED BY <1>3, <2>1, <2>2, <2>3, <2>4, ListingStays
  <1>7. ASSUME v \notin history.disturbed
        PROVE  ListingOf(v)'
    <2>1. history'.saved[v] = history.saved[v] \cup {ks}
      BY <1>5 DEF RegistryTypeOK
    <2> SUFFICES ASSUME NEW all \in Seq(DifferKinds), history'.saved[v] = {all}, NamedOnce(all)
                 PROVE  PastListed(v, all)' /\ GetsThere(v, all)'
      BY <1>2, <2>1 DEF ListingOf, NamedOnce, Becomes
    <2>2. all = ks /\ history.saved[v] \in {{}, {all}}
      BY SMTT(60), <2>1
    <2>3. ListingOf(v) /\ (Inserts(c, v)' <=> all # <<>>)
      BY <1>2, <1>7, <2>2 DEF Listing, Becomes, Inserts, AfterSave
    <2>4. \A d \in ApiCalls : d # c => /\ Inserts(d, v)' <=> Inserts(d, v)
                                       /\ apiCall'[d].kinds = apiCall[d].kinds
      BY <1>2 DEF Becomes, Inserts
    <2>5. apiCall'[c].kinds = all /\ ~ Inserts(c, v)
      BY <1>2, <1>3, <2>2 DEF Becomes, Inserts
    <2>6. Len(all) \in Nat /\ (all # <<>> => Len(all) \in 1..Len(all) /\ Remains(all, all))
      BY DEF Remains
    <2>7. CASE history.saved[v] = {}
      <3>1. \A d \in ApiCalls : ~ Inserts(d, v)
        BY <2>3, <2>7 DEF ListingOf
      <3>2. \A i \in 1..Len(all) : <<v, all[i]>> \notin intentfulKinds
        BY <2>3, <2>7 DEF ListingOf
      <3>3. PastListed(v, all)'
        <4> SUFFICES ASSUME NEW d \in ApiCalls, Inserts(d, v)'
                     PROVE  /\ Remains(apiCall'[d].kinds, all)
                            /\ \A i \in 1..(Len(all) - Len(apiCall'[d].kinds)) :
                                  <<v, all[i]>> \in intentfulKinds
          BY <1>3 DEF PastListed, Remains
        <4>1. d = c /\ all # <<>> /\ apiCall'[d].kinds = all
          BY <2>3, <2>4, <2>5, <3>1
        <4> QED BY <2>6, <4>1
      <3>4. all # <<>> => Leads(c, v)'
        BY <1>3, <2>3, <2>5, <3>2 DEF Leads
      <3>5. all = <<>> => GetsThere(v, all)'
        BY DEF GetsThere
      <3> QED BY <3>3, <3>4, <3>5 DEF GetsThere
    <2>8. CASE history.saved[v] = {all}
      <3>1. PastListed(v, all) /\ GetsThere(v, all)
        BY <2>3, <2>8 DEF ListingOf
      <3>2. PastListed(v, all)'
        <4> SUFFICES ASSUME NEW d \in ApiCalls, Inserts(d, v)'
                     PROVE  /\ Remains(apiCall'[d].kinds, all)
                            /\ \A i \in 1..(Len(all) - Len(apiCall'[d].kinds)) :
                                  <<v, all[i]>> \in intentfulKinds
          BY <1>3 DEF PastListed, Remains
        <4>1. CASE d = c
          BY <2>3, <2>5, <2>6, <4>1
        <4>2. CASE d # c
          BY <2>4, <3>1, <4>2 DEF PastListed
        <4> QED BY <4>1, <4>2
      <3>3. GetsThere(v, all)'
        <4>1. ASSUME NEW d \in ApiCalls, Leads(d, v) PROVE Leads(d, v)'
          <5>1. d # c
            BY <2>5, <4>1 DEF Leads
          <5> QED BY <1>3, <2>4, <4>1, <5>1 DEF Leads
        <4> QED BY <1>3, <3>1, <4>1 DEF GetsThere
      <3> QED BY <3>2, <3>3
    <2> QED BY <2>2, <2>7, <2>8
  <1> QED BY <1>4, <1>6, <1>7 DEF Listing

\* The effect of an insertion on its call: it stops at a kind that is listed,
\* else goes on to the next, if there is one.
LEMMA InsertEffect ==
    ASSUME RegistryTypeOK, Calling, NEW c \in ApiCalls, InsertKind(c)
    PROVE  LET v == apiCall[c].version
               ks == apiCall[c].kinds
               stops == <<v, Head(ks)>> \in intentfulKinds
           IN  /\ Inserts(c, v) /\ ks \in Seq(DifferKinds) /\ ks # <<>> /\ v \in Versions
               /\ intentfulKinds' = intentfulKinds \cup {<<v, Head(ks)>>}
               /\ Becomes(c, IF stops \/ Len(ks) = 1 THEN AfterSave(c) ELSE "inserting",
                          apiCall[c].doc, IF stops THEN <<>> ELSE Tail(ks))
               /\ providers' = providers /\ cached' = cached /\ history' = history
  <1> DEFINE v == apiCall[c].version
             ks == apiCall[c].kinds
             stops == <<v, Head(ks)>> \in intentfulKinds
             pc == IF stops \/ Len(ks) = 1 THEN AfterSave(c) ELSE "inserting"
             left == IF stops THEN <<>> ELSE Tail(ks)
  <1>1. /\ Inserts(c, v) /\ ks \in Seq(DifferKinds) /\ ks # <<>> /\ v \in Versions
        /\ apiCall[c].doc \in Docs \cup {NoProvider}
    BY DEF RegistryTypeOK, Calling, InsertKind, Inserts
  <1>2. pc \in Pcs
    BY DEF Pcs, AfterSave
  <1>3. left \in Seq(DifferKinds)
    BY <1>1
  <1>4. apiCall' = [apiCall EXCEPT ![c].kinds = left, ![c].pc = pc]
    BY DEF InsertKind
  <1>5. Becomes(c, pc, apiCall[c].doc, left)
    BY <1>1, <1>2, <1>3, <1>4, CallProceeds
  <1> QED BY <1>1, <1>5 DEF InsertKind

\* Inserting a kind keeps what is said of the listing: the call that inserts one
\* that was not listed is the one that leads.
LEMMA InsertListing ==
    ASSUME RegistryTypeOK, Calling, Listing, NEW c \in ApiCalls, InsertKind(c),
           NEW v, v = apiCall[c].version, NEW ks, ks = apiCall[c].kinds
    PROVE  Listing'
  <1> DEFINE stops == <<v, Head(ks)>> \in intentfulKinds
             pc == IF stops \/ Len(ks) = 1 THEN AfterSave(c) ELSE "inserting"
             left == IF stops THEN <<>> ELSE Tail(ks)
  <1>1. /\ Inserts(c, v) /\ ks \in Seq(DifferKinds) /\ ks # <<>> /\ v \in Versions
        /\ intentfulKinds' = intentfulKinds \cup {<<v, Head(ks)>>}
        /\ Becomes(c, pc, apiCall[c].doc, left)
        /\ providers' = providers /\ history' = history
    BY InsertEffect
  <1>2. \A d \in ApiCalls : d # c => apiCall'[d] = apiCall[d]
    BY <1>1 DEF Becomes
  <1>3. \A w \in Versions : Inserts(c, w)' => w = v /\ ~ stops /\ Len(ks) # 1
    BY <1>1 DEF Becomes, Inserts, AfterSave
  <1>4. ASSUME NEW w \in Versions \ history.disturbed, w # v
        PROVE  ListingOf(w)'
    <2>1. history'.saved[w] = history.saved[w] /\ (w \in Stored' => w \in Stored)
      BY <1>1 DEF Stored
    <2>2. \A d \in ApiCalls : Inserts(d, w)' <=> Inserts(d, w)
      BY <1>1, <1>2, <1>3, <1>4 DEF Inserts
    <2>3. \A d \in ApiCalls : Inserts(d, w) =>
              apiCall'[d].kinds = apiCall[d].kinds /\ apiCall[d].kinds \in Seq(DifferKinds)
      BY <1>1, <1>2, <1>4 DEF Inserts, RegistryTypeOK
    <2>4. \A k \in DifferKinds : <<w, k>> \in intentfulKinds' <=> <<w, k>> \in intentfulKinds
      BY <1>1, <1>4
    <2>5. ListingOf(w)
      BY DEF Listing
    <2> QED BY <2>1, <2>2, <2>3, <2>4, <2>5, ListingStays
  <1>5. ASSUME v \notin history.disturbed
        PROVE  ListingOf(v)'
    <2>1. ListingOf(v) /\ history.saved[v] # {}
      BY <1>1, <1>5 DEF Listing, ListingOf
    <2> SUFFICES ASSUME NEW all \in Seq(DifferKinds), history.saved[v] = {all}, NamedOnce(all)
                 PROVE  PastListed(v, all)' /\ GetsThere(v, all)'
      BY <1>1, <2>1 DEF ListingOf, NamedOnce
    <2>2. /\ PastListed(v, all) /\ GetsThere(v, all) /\ Remains(ks, all)
          /\ Len(all) \in Nat /\ Len(ks) \in 1..Len(all)
      <3>1. PastListed(v, all) /\ GetsThere(v, all)
        BY <2>1 DEF ListingOf
      <3>2. Remains(ks, all)
        BY <1>1, <3>1 DEF PastListed
      <3>3. Len(all) \in Nat /\ Len(ks) \in 1..Len(all)
        BY <3>2 DEF Remains
      <3> QED BY <3>1, <3>2, <3>3
    <2>3. \A i \in 1..(Len(all) - Len(ks)) : <<v, all[i]>> \in intentfulKinds
      BY <1>1, <2>2 DEF PastListed
    <2>4. /\ Head(ks) = all[Len(all) - Len(ks) + 1]
          /\ Tail(ks) \in Seq(DifferKinds) /\ Len(Tail(ks)) = Len(ks) - 1
          /\ Len(ks) # 1 => Remains(Tail(ks), all)
          /\ \A i \in 1..Len(Tail(ks)) :
                Tail(ks)[i] # Head(ks) /\ Tail(ks)[i] = ks[i + 1]
      BY <1>1, <2>2, TailRemains
    <2>5. PastListed(v, all)'
      <3> SUFFICES ASSUME NEW d \in ApiCalls, Inserts(d, v)'
                   PROVE  /\ Remains(apiCall'[d].kinds, all)
                          /\ \A i \in 1..(Len(all) - Len(apiCall'[d].kinds)) :
                                <<v, all[i]>> \in intentfulKinds'
        BY DEF PastListed, Remains
      <3>1. CASE d # c
        BY <1>1, <1>2, <2>2, <3>1 DEF PastListed, Inserts
      <3>2. CASE d = c
        <4>1. ~ stops /\ Len(ks) # 1 /\ apiCall'[c].kinds = Tail(ks)
          BY <1>1, <1>3, <3>2 DEF Becomes
        <4>2. Len(all) - Len(Tail(ks)) = Len(all) - Len(ks) + 1
          <5>1. Len(all) \in Nat /\ Len(ks) \in 1..Len(all) /\ Len(Tail(ks)) = Len(ks) - 1
            BY <2>2, <2>4
          <5>2. \A a, b, t \in Int : t = b - 1 => a - t = a - b + 1
            OBVIOUS
          <5>3. Len(all) \in Int /\ Len(ks) \in Int /\ Len(Tail(ks)) \in Int
            BY <5>1
          <5> QED BY ZenonT(60), <5>1, <5>2, <5>3
        <4>3. Remains(Tail(ks), all)
          BY <2>4, <4>1
        <4>4. ASSUME NEW i \in 1..(Len(all) - Len(Tail(ks)))
              PROVE  <<v, all[i]>> \in intentfulKinds'
          <5>1. CASE i \in 1..(Len(all) - Len(ks))
            BY <1>1, <2>3, <5>1
          <5>2. CASE i = Len(all) - Len(ks) + 1
            BY <1>1, <2>4, <5>2
          <5> QED BY SMTT(60), <2>2, <4>2, <5>1, <5>2
        <4> QED BY <3>2, <4>1, <4>3, <4>4
      <3> QED BY <3>1, <3>2
    <2>6. GetsThere(v, all)'
      <3>1. CASE \A i \in 1..Len(all) : <<v, all[i]>> \in intentfulKinds
        BY <1>1, <3>1 DEF GetsThere
      <3>2. ASSUME NEW d \in ApiCalls, Leads(d, v), stops
            PROVE  GetsThere(v, all)'
        <4>1. Len(apiCall[d].kinds) \in 1..Len(all)
          BY <2>2, <3>2 DEF PastListed, Leads, Remains
        <4>2. d # c
          BY <1>1, <3>2, <4>1 DEF Leads
        <4>3. Leads(d, v)'
          BY <1>1, <1>2, <3>2, <4>2 DEF Leads, Inserts
        <4> QED BY <4>3 DEF GetsThere
      <3>3. ASSUME NEW d \in ApiCalls, Leads(d, v), ~ stops
            PROVE  GetsThere(v, all)'
        <4>1. Leads(c, v)
          <5>1. PICK m \in 1..Len(all) :
                    /\ m = Len(apiCall[d].kinds)
                    /\ \A i \in 1..m : <<v, all[Len(all) - m + i]>> \notin intentfulKinds
                    /\ \A i \in 1..(Len(all) - m) : <<v, all[i]>> \in intentfulKinds
            BY <2>2, <3>3 DEF PastListed, Leads, Remains
          <5>2. PICK n \in 1..Len(all) :
                    /\ n = Len(ks) /\ Head(ks) = all[Len(all) - n + 1]
                    /\ \A i \in 1..n : ks[i] = all[Len(all) - n + i]
            BY <2>2, <2>4 DEF Remains
          <5>3. n <= m
            <6>1. <<v, all[Len(all) - n + 1]>> \notin intentfulKinds
              BY <3>3, <5>2
            <6>2. n > m => Len(all) - n + 1 \in 1..(Len(all) - m)
              BY <2>2
            <6> QED BY <5>1, <6>1, <6>2
          <5>4. ASSUME NEW i \in 1..n PROVE <<v, ks[i]>> \notin intentfulKinds
            <6>1. m - n + i \in 1..m /\ Len(all) - m + (m - n + i) = Len(all) - n + i
              BY <2>2, <5>3
            <6>2. <<v, all[Len(all) - m + (m - n + i)]>> \notin intentfulKinds
              BY <5>1, <6>1
            <6> QED BY <5>2, <6>1, <6>2
          <5> QED BY <1>1, <5>2, <5>4 DEF Leads
        <4>2. CASE Len(ks) = 1
          <5>1. \A i \in 1..Len(all) : <<v, all[i]>> \in intentfulKinds'
            BY <1>1, <2>2, <2>3, <2>4, <4>2
          <5> QED BY <5>1 DEF GetsThere
        <4>3. CASE Len(ks) # 1
          <5>1. apiCall'[c].kinds = Tail(ks) /\ Inserts(c, v)'
            BY <1>1, <3>3, <4>3 DEF Becomes, Inserts
          <5>2. \A i \in 1..Len(Tail(ks)) : <<v, Tail(ks)[i]>> \notin intentfulKinds'
            BY SMTT(60), <1>1, <2>2, <2>4, <4>1 DEF Leads
          <5> QED BY <5>1, <5>2 DEF Leads, GetsThere
        <4> QED BY <4>2, <4>3
      <3> QED BY <2>2, <3>1, <3>2, <3>3 DEF GetsThere
    <2> QED BY <2>5, <2>6
  <1> QED BY <1>1, <1>4, <1>5 DEF Listing

\* A step of one call keeps what the progress of the calls says of them.
LEMMA CallingKeeps ==
    ASSUME Calling, NEW c \in ApiCalls, NEW pc, NEW doc, NEW ks, Becomes(c, pc, doc, ks),
           apiCall[c].pc # "idle",
           history.disturbed \subseteq history'.disturbed,
           pc = "saving" /\ apiCall[c].op = "update_auth" => doc \in Docs,
           pc \in {"read", "creating"} => doc \in Docs,
           pc = "inserting" => ks # <<>>,
           pc = "unlisting" => apiCall[c].version \in history'.disturbed
    PROVE  Calling'
  BY DEF Calling, Becomes

\* A step of one call keeps what is said of the listing, unless it inserts.
LEMMA ListingKeeps ==
    ASSUME RegistryTypeOK, Listing, NEW c \in ApiCalls, NEW pc, NEW doc, NEW ks,
           Becomes(c, pc, doc, ks), pc # "inserting",
           history.disturbed \subseteq history'.disturbed,
           history'.saved = history.saved,
           \A v \in Versions \ history'.disturbed :
               /\ v \in Stored' => v \in Stored
               /\ \A k \in DifferKinds : <<v, k>> \in intentfulKinds' <=> <<v, k>> \in intentfulKinds
               /\ ~ Inserts(c, v)
    PROVE  Listing'
  <1> SUFFICES ASSUME NEW v \in Versions \ history'.disturbed
               PROVE  ListingOf(v)'
    BY DEF Listing
  <1>1. ListingOf(v)
    BY DEF Listing
  <1>2. \A d \in ApiCalls : /\ Inserts(d, v)' <=> Inserts(d, v)
                            /\ Inserts(d, v) => apiCall'[d].kinds = apiCall[d].kinds
                                                /\ apiCall[d].kinds \in Seq(DifferKinds)
    BY DEF Becomes, Inserts, RegistryTypeOK
  <1> QED BY <1>1, <1>2, ListingStays

\* A step that changes no provider and no authorizer leaves each process excused
\* that was: an update that ends without invalidating makes it stale.
LEMMA ExcusedKeeps ==
    ASSUME Excused, NEW c \in ApiCalls, NEW pc, NEW doc, NEW ks, Becomes(c, pc, doc, ks),
           providers' = providers, cached' = cached, history.stale \subseteq history'.stale,
           apiCall[c].op = "update_auth" /\ apiCall[c].pc \in {"inserting", "invalidating"} =>
               pc \in {"inserting", "invalidating"} \/ apiCall[c].process \in history'.stale,
           apiCall[c].op = "check" /\ pc \in {"read", "creating"} =>
               /\ apiCall[c].version \in Stored
               /\ doc.auth = providers[apiCall[c].version].auth
    PROVE  Excused'
  <1> SUFFICES ASSUME NEW p \in Processes, p \notin history'.stale
               PROVE  Pending(p)' \/ Current(p)'
    BY DEF Excused
  <1>1. Stored' = Stored /\ p \notin history.stale
    BY DEF Stored
  <1>2. ASSUME Pending(p) PROVE Pending(p)'
    <2>1. PICK d \in ApiCalls : apiCall[d].process = p /\ apiCall[d].op = "update_auth"
                                /\ apiCall[d].pc \in {"inserting", "invalidating"}
      BY <1>2 DEF Pending
    <2>2. apiCall'[d].process = p /\ apiCall'[d].op = "update_auth"
          /\ apiCall'[d].pc \in {"inserting", "invalidating"}
      BY <2>1 DEF Becomes
    <2> QED BY <2>2 DEF Pending
  <1>3. ASSUME Current(p) PROVE Current(p)'
    <2>1. cached'[p] = NoProvider \/ \E v \in Stored : cached'[p] = AuthorizerOf(providers'[v].auth)
      BY <1>3 DEF Current
    <2>2. ASSUME NEW d \in ApiCalls, apiCall'[d].process = p, apiCall'[d].op = "check",
                 apiCall'[d].pc \in {"read", "creating"}
          PROVE  apiCall'[d].version \in Stored
                 /\ apiCall'[d].doc.auth = providers[apiCall'[d].version].auth
      BY <1>3, <2>2 DEF Current, Becomes
    <2> QED BY <1>1, <2>1, <2>2 DEF Current, AuthorizerOf
  <1> QED BY <1>1, <1>2, <1>3 DEF Excused

\* A call arrives.
LEMMA ArriveCallKeeps ==
    ASSUME RegistryInv, NEW c \in ApiCalls, NEW p \in Processes, NEW v \in Versions,
           NEW op \in {"register", "unregister", "update_auth", "check"},
           NEW pc \in {"saving", "deleting", "reading"}, NEW auth \in Settings,
           NEW ks \in Seq(DifferKinds), op = "update_auth" => pc = "reading",
           ArriveCall(c, p, v, op, pc, auth, ks)
    PROVE  RegistryInv'
  <1> DEFINE q == [op |-> op, pc |-> pc, process |-> p, version |-> v, auth |-> auth,
                   doc |-> NoProvider, kinds |-> ks]
  <1>1. /\ apiCall[c] = NoCall /\ apiCall' = [apiCall EXCEPT ![c] = q]
        /\ providers' = providers /\ intentfulKinds' = intentfulKinds
        /\ cached' = cached /\ history' = history
    BY DEF ArriveCall
  <1>2. q \in CallStates
    BY DEF CallStates, Pcs
  <1>3. /\ apiCall' \in [ApiCalls -> CallStates] /\ apiCall'[c] = q
        /\ \A d \in ApiCalls : d # c => apiCall'[d] = apiCall[d]
    BY <1>1, <1>2 DEF RegistryInv, RegistryTypeOK, CallStates, Pcs
  <1>4. RegistryTypeOK'
    BY <1>1, <1>3 DEF RegistryInv, RegistryTypeOK, CallStates, Pcs
  <1>5. Calling'
    BY <1>1, <1>3 DEF RegistryInv, Calling
  <1>6. Listing'
    <2> SUFFICES ASSUME NEW w \in Versions \ history.disturbed PROVE ListingOf(w)'
      BY <1>1 DEF Listing
    <2>1. ListingOf(w) /\ Stored' = Stored
      BY <1>1 DEF RegistryInv, Listing, Stored
    <2>2. ~ Inserts(c, w) /\ ~ Inserts(c, w)'
      BY <1>1, <1>3 DEF Inserts, NoCall
    <2>3. \A d \in ApiCalls : /\ Inserts(d, w)' <=> Inserts(d, w)
                              /\ Inserts(d, w) => apiCall'[d].kinds = apiCall[d].kinds
                                                  /\ apiCall[d].kinds \in Seq(DifferKinds)
      BY <1>3, <2>2 DEF Inserts, RegistryInv, RegistryTypeOK
    <2> QED BY <1>1, <2>1, <2>3, ListingStays
  <1>7. Excused'
    <2> SUFFICES ASSUME NEW r \in Processes, r \notin history.stale
                 PROVE  Pending(r)' \/ Current(r)'
      BY <1>1 DEF Excused
    <2>1. Pending(r) => Pending(r)'
      BY <1>1, <1>3 DEF Pending, NoCall
    <2>2. Current(r) => Current(r)'
      BY <1>1, <1>3 DEF Current, Stored, AuthorizerOf
    <2> QED BY <2>1, <2>2 DEF RegistryInv, Excused
  <1> QED BY <1>4, <1>5, <1>6, <1>7 DEF RegistryInv

\* The fields that are given, over those that were there.
LEMMA AssignTyped ==
    ASSUME NEW old \in Settings, NEW new \in Settings
    PROVE  Assign(old, new) \in Settings
  BY DEF Assign, Settings

\* A call that only goes on, or ends, keeps the types of the others.
LEMMA TypeKeeps ==
    ASSUME RegistryTypeOK, NEW c \in ApiCalls, NEW pc, NEW doc, NEW ks, Becomes(c, pc, doc, ks),
           providers' \in [Versions -> Docs \cup {NoProvider}],
           intentfulKinds' \subseteq Versions \X DifferKinds,
           cached' \in [Processes -> Settings \cup {Unset, NoProvider}],
           history' \in Histories
    PROVE  RegistryTypeOK'
  BY DEF RegistryTypeOK, Becomes, CallStates, Pcs, Histories

\* A provider is read.
LEMMA GetProviderKeeps ==
    ASSUME RegistryInv, NEW c \in ApiCalls, GetProvider(c)
    PROVE  RegistryInv'
  <1> DEFINE q == apiCall[c]
             d == providers[q.version]
             pc == IF q.op = "check" THEN "read" ELSE "saving"
             doc == IF q.op = "check" THEN d ELSE [d EXCEPT !.auth = Assign(@, q.auth)]
  <1>1. /\ RegistryTypeOK /\ Calling /\ Listing /\ Excused /\ q.pc = "reading" /\ d # NoProvider
        /\ apiCall' = [apiCall EXCEPT ![c].pc = pc, ![c].doc = doc, ![c].kinds = d.kinds]
        /\ providers' = providers /\ intentfulKinds' = intentfulKinds
        /\ cached' = cached /\ history' = history
    BY DEF RegistryInv, GetProvider
  <1>2. q \in CallStates /\ q.version \in Versions
    BY <1>1 DEF RegistryTypeOK, CallStates, Pcs, Calling
  <1>3. d \in Docs
    BY <1>1, <1>2 DEF RegistryTypeOK
  <1>4. doc \in Docs /\ d.kinds \in Seq(DifferKinds) /\ pc \in Pcs
    <2>1. Assign(d.auth, q.auth) \in Settings
      BY <1>2, <1>3, AssignTyped DEF Docs, CallStates
    <2> QED BY <1>3, <2>1 DEF Docs, Pcs
  <1>5. Becomes(c, pc, doc, d.kinds)
    BY ZenonT(60), <1>1, <1>4, CallProceeds
  <1>6. RegistryTypeOK'
    BY ZenonT(60), <1>1, <1>5, TypeKeeps DEF RegistryTypeOK, Histories
  <1>7. Calling'
    BY <1>1, <1>4, <1>5, CallingKeeps
  <1>8. Listing'
    <2>1. \A v \in Versions \ history'.disturbed :
               /\ v \in Stored' => v \in Stored
               /\ \A k \in DifferKinds : <<v, k>> \in intentfulKinds' <=> <<v, k>> \in intentfulKinds
               /\ ~ Inserts(c, v)
      BY <1>1 DEF Stored, Inserts
    <2>2. pc # "inserting"
      OBVIOUS
    <2>3. history.disturbed \subseteq history'.disturbed /\ history'.saved = history.saved
      BY <1>1
    <2> HIDE DEF pc, doc
    <2> QED BY <1>1, <1>5, <2>1, <2>2, <2>3, ListingKeeps
  <1>9. Excused'
    <2>1. q.op = "check" => q.version \in Stored /\ doc.auth = providers[q.version].auth
      BY <1>1, <1>2 DEF Stored
    <2> HIDE DEF pc, doc
    <2> QED BY <1>1, <1>5, <2>1, ExcusedKeeps
  <1> QED BY <1>6, <1>7, <1>8, <1>9 DEF RegistryInv

\* What a call that ends keeps, whatever it does to the cache, the listing and
\* the providers of a version that it disturbs.
LEMMA EndingKeeps ==
    ASSUME RegistryInv, NEW c \in ApiCalls, NEW pc \in {"done", "unlisting", "invalidating", "creating"},
           NEW doc, NEW ks, Becomes(c, pc, doc, ks), apiCall[c].pc # "idle",
           pc = "creating" => doc \in Docs,
           apiCall[c].pc = "inserting" => apiCall[c].version \in history'.disturbed,
           pc = "unlisting" => apiCall[c].version \in history'.disturbed,
           providers' \in [Versions -> Docs \cup {NoProvider}],
           intentfulKinds' \subseteq Versions \X DifferKinds,
           cached' \in [Processes -> Settings \cup {Unset, NoProvider}],
           history' \in Histories,
           history.disturbed \subseteq history'.disturbed, history'.saved = history.saved,
           \A v \in Versions \ history'.disturbed :
               /\ v \in Stored' => v \in Stored
               /\ \A k \in DifferKinds : <<v, k>> \in intentfulKinds' <=> <<v, k>> \in intentfulKinds
    PROVE  RegistryTypeOK' /\ Calling' /\ Listing'
  <1>1. RegistryTypeOK /\ Calling /\ Listing
    BY DEF RegistryInv
  <1>2. RegistryTypeOK'
    BY <1>1, TypeKeeps
  <1>3. Calling'
    BY <1>1, CallingKeeps
  <1>4. \A v \in Versions \ history'.disturbed : ~ Inserts(c, v)
    BY DEF Inserts
  <1>5. Listing'
    BY <1>1, <1>4, ListingKeeps
  <1> QED BY <1>2, <1>3, <1>5

\* A call fails, and disturbs its version; an update that had saved also leaves
\* its process with what it had cached.
LEMMA FailCallKeeps ==
    ASSUME RegistryInv, NEW c \in ApiCalls, FailCall(c)
    PROVE  RegistryInv'
  <1> DEFINE q == apiCall[c]
  <1>1. /\ RegistryTypeOK /\ Calling /\ Excused /\ q.pc \notin {"idle", "done"}
        /\ apiCall' = [apiCall EXCEPT ![c].pc = "done"]
        /\ providers' = providers /\ intentfulKinds' = intentfulKinds /\ cached' = cached
    BY DEF RegistryInv, FailCall, Goto
  <1>2. q \in CallStates /\ q.version \in Versions /\ q.process \in Processes
    BY <1>1 DEF RegistryTypeOK, CallStates, Pcs, Calling
  <1>3. /\ history \in Histories /\ history' \in Histories
        /\ history'.disturbed = history.disturbed \cup {q.version}
        /\ history'.saved = history.saved
        /\ history.stale \subseteq history'.stale
        /\ q.op = "update_auth" /\ q.pc # "reading" => q.process \in history'.stale
    <2>1. history \in Histories
      BY <1>1 DEF RegistryTypeOK, Histories
    <2> QED BY <1>2, <2>1 DEF FailCall, Histories
  <1>4. Becomes(c, "done", q.doc, q.kinds)
    BY <1>1, <1>2, CallProceeds DEF Pcs, CallStates
  <1>5. RegistryTypeOK' /\ Calling' /\ Listing'
    <2>1. /\ providers' \in [Versions -> Docs \cup {NoProvider}]
          /\ intentfulKinds' \subseteq Versions \X DifferKinds
          /\ cached' \in [Processes -> Settings \cup {Unset, NoProvider}]
          /\ Stored' = Stored
      BY <1>1 DEF RegistryTypeOK, Stored
    <2> QED BY <1>1, <1>3, <1>4, <2>1, EndingKeeps
  <1>6. Excused'
    BY <1>1, <1>3, <1>4, ExcusedKeeps
  <1> QED BY <1>5, <1>6 DEF RegistryInv

\* A save meets the document of another registration.
LEMMA SaveConflictKeeps ==
    ASSUME RegistryInv, NEW c \in ApiCalls, SaveConflict(c)
    PROVE  RegistryInv'
  <1> DEFINE q == apiCall[c]
  <1>1. /\ RegistryTypeOK /\ Calling /\ Excused /\ q.pc = "saving"
        /\ apiCall' = [apiCall EXCEPT ![c].pc = "done"]
        /\ providers' = providers /\ intentfulKinds' = intentfulKinds /\ cached' = cached
    BY DEF RegistryInv, SaveConflict, Goto
  <1>2. q \in CallStates /\ q.version \in Versions
    BY <1>1 DEF RegistryTypeOK, CallStates, Pcs, Calling
  <1>3. /\ history' \in Histories
        /\ history'.disturbed = history.disturbed \cup {q.version}
        /\ history'.saved = history.saved /\ history'.stale = history.stale
    BY <1>1, <1>2 DEF RegistryTypeOK, SaveConflict, Histories
  <1>4. Becomes(c, "done", q.doc, q.kinds)
    BY <1>1, <1>2, CallProceeds DEF Pcs, CallStates
  <1>5. RegistryTypeOK' /\ Calling' /\ Listing'
    <2>1. /\ providers' \in [Versions -> Docs \cup {NoProvider}]
          /\ intentfulKinds' \subseteq Versions \X DifferKinds
          /\ cached' \in [Processes -> Settings \cup {Unset, NoProvider}]
          /\ Stored' = Stored
      BY <1>1 DEF RegistryTypeOK, Stored
    <2> QED BY <1>1, <1>3, <1>4, <2>1, EndingKeeps
  <1>6. Excused'
    BY <1>1, <1>3, <1>4, ExcusedKeeps
  <1> QED BY <1>5, <1>6 DEF RegistryInv

\* A kind is inserted.
LEMMA InsertKindKeeps ==
    ASSUME RegistryInv, NEW c \in ApiCalls, InsertKind(c)
    PROVE  RegistryInv'
  <1> DEFINE q == apiCall[c]
             stops == <<q.version, Head(q.kinds)>> \in intentfulKinds
             pc == IF stops \/ Len(q.kinds) = 1 THEN AfterSave(c) ELSE "inserting"
             left == IF stops THEN <<>> ELSE Tail(q.kinds)
  <1>1. RegistryTypeOK /\ Calling /\ Listing /\ Excused
    BY DEF RegistryInv
  <1>2. /\ Inserts(c, q.version) /\ q.kinds \in Seq(DifferKinds) /\ q.kinds # <<>>
        /\ q.version \in Versions
        /\ intentfulKinds' = intentfulKinds \cup {<<q.version, Head(q.kinds)>>}
        /\ Becomes(c, pc, q.doc, left)
        /\ providers' = providers /\ cached' = cached /\ history' = history
    BY <1>1, InsertEffect
  <1>3. Head(q.kinds) \in DifferKinds
    BY <1>2
  <1>4. RegistryTypeOK'
    <2>1. intentfulKinds' \subseteq Versions \X DifferKinds
      BY <1>1, <1>2, <1>3 DEF RegistryTypeOK
    <2>2. /\ providers' \in [Versions -> Docs \cup {NoProvider}]
          /\ cached' \in [Processes -> Settings \cup {Unset, NoProvider}]
          /\ history' \in Histories
      BY <1>1, <1>2 DEF RegistryTypeOK, Histories
    <2> HIDE DEF pc, left
    <2> QED BY <1>1, <1>2, <2>1, <2>2, TypeKeeps
  <1>5. pc = "inserting" => left # <<>>
    <2>1. \A names \in Seq(DifferKinds) : names # <<>> /\ Tail(names) = <<>> => Len(names) = 1
      <3> TAKE names \in Seq(DifferKinds)
      <3>1. names # <<>> => Len(Tail(names)) = Len(names) - 1 /\ Len(names) \in Nat
        OBVIOUS
      <3>2. Len(<<>>) = 0
        OBVIOUS
      <3>3. \A n \in Nat : 0 = n - 1 => n = 1
        OBVIOUS
      <3> QED BY ZenonT(30), <3>1, <3>2, <3>3
    <2> QED BY <1>2, <2>1 DEF AfterSave
  <1>6. /\ q.pc = "inserting" /\ pc \in {"inserting", "invalidating", "done"}
        /\ q.op = "update_auth" => pc \in {"inserting", "invalidating"}
    BY <1>2 DEF Inserts, AfterSave
  <1>7. Listing'
    BY <1>1, InsertListing
  <1> HIDE DEF pc, left
  <1>8. Calling'
    BY <1>1, <1>2, <1>5, <1>6, CallingKeeps
  <1>9. Excused'
    BY <1>1, <1>2, <1>6, ExcusedKeeps
  <1> QED BY <1>4, <1>7, <1>8, <1>9 DEF RegistryInv

\* A provider is deleted: no process is told.
LEMMA DeleteProviderKeeps ==
    ASSUME RegistryInv, NEW c \in ApiCalls, DeleteProvider(c)
    PROVE  RegistryInv'
  <1> DEFINE q == apiCall[c]
             left == providers[q.version].kinds
             pc == IF left = <<>> THEN "done" ELSE "unlisting"
  <1>1. /\ RegistryTypeOK /\ Calling /\ q.pc = "deleting" /\ providers[q.version] # NoProvider
        /\ providers' = [providers EXCEPT ![q.version] = NoProvider]
        /\ apiCall' = [apiCall EXCEPT ![c].kinds = left, ![c].pc = pc]
        /\ intentfulKinds' = intentfulKinds /\ cached' = cached
    BY DEF RegistryInv, DeleteProvider
  <1>2. q \in CallStates /\ q.version \in Versions
    BY <1>1 DEF RegistryTypeOK, CallStates, Pcs, Calling
  <1>3. /\ history' \in Histories
        /\ history'.disturbed = history.disturbed \cup {q.version}
        /\ history'.saved = history.saved /\ history'.stale = Processes
    BY SMTT(60), <1>1, <1>2 DEF RegistryTypeOK, DeleteProvider, Histories
  <1>4. left \in Seq(DifferKinds)
    BY <1>1, <1>2 DEF RegistryTypeOK, Docs
  <1>5. Becomes(c, pc, q.doc, left)
    BY ZenonT(60), <1>1, <1>2, <1>4, CallProceeds DEF Pcs, CallStates
  <1>6. /\ providers' \in [Versions -> Docs \cup {NoProvider}]
        /\ intentfulKinds' \subseteq Versions \X DifferKinds
        /\ cached' \in [Processes -> Settings \cup {Unset, NoProvider}]
    BY <1>1 DEF RegistryTypeOK
  <1>7. \A v \in Versions : v \in Stored' => v \in Stored
    BY <1>1 DEF RegistryTypeOK, Stored
  <1>8. pc \in {"done", "unlisting", "invalidating", "creating"} /\ pc # "creating"
    OBVIOUS
  <1> HIDE DEF pc, left
  <1>9. RegistryTypeOK' /\ Calling' /\ Listing'
    BY <1>1, <1>3, <1>5, <1>6, <1>7, <1>8, EndingKeeps
  <1>10. Excused'
    BY <1>3 DEF Excused
  <1> QED BY <1>9, <1>10 DEF RegistryInv

\* The kinds of a deleted provider are deleted.
LEMMA UnlistKindsKeeps ==
    ASSUME RegistryInv, NEW c \in ApiCalls, UnlistKinds(c)
    PROVE  RegistryInv'
  <1> DEFINE q == apiCall[c]
  <1>1. /\ RegistryTypeOK /\ Calling /\ Excused /\ q.pc = "unlisting"
        /\ apiCall' = [apiCall EXCEPT ![c].pc = "done"]
        /\ intentfulKinds' = intentfulKinds
               \ {<<q.version, q.kinds[i]>> : i \in DOMAIN q.kinds}
        /\ providers' = providers /\ cached' = cached /\ history' = history
    BY DEF RegistryInv, UnlistKinds, Goto
  <1>2. q \in CallStates /\ q.version \in history.disturbed
    BY SMTT(60), <1>1 DEF RegistryTypeOK, CallStates, Pcs, Calling
  <1>3. Becomes(c, "done", q.doc, q.kinds)
    BY <1>1, <1>2, CallProceeds DEF Pcs, CallStates
  <1>4. /\ providers' \in [Versions -> Docs \cup {NoProvider}]
        /\ intentfulKinds' \subseteq Versions \X DifferKinds
        /\ cached' \in [Processes -> Settings \cup {Unset, NoProvider}]
        /\ history' \in Histories /\ Stored' = Stored
    BY <1>1 DEF RegistryTypeOK, Histories, Stored
  <1>5. \A v \in Versions \ history'.disturbed, k \in DifferKinds :
            <<v, k>> \in intentfulKinds' <=> <<v, k>> \in intentfulKinds
    BY <1>1, <1>2
  <1>6. RegistryTypeOK' /\ Calling' /\ Listing'
    BY <1>1, <1>3, <1>4, <1>5, EndingKeeps
  <1>7. Excused'
    BY <1>1, <1>3, ExcusedKeeps
  <1> QED BY <1>6, <1>7 DEF RegistryInv

\* A process that holds what some version has still does, when no version loses
\* its authorization and the call does not hold another.
LEMMA CurrentStays ==
    ASSUME NEW p \in Processes, Current(p), NEW c \in ApiCalls, NEW pc, NEW doc, NEW ks,
           Becomes(c, pc, doc, ks), cached'[p] = cached[p],
           \A v \in Stored : v \in Stored' /\ providers'[v].auth = providers[v].auth,
           apiCall[c].op = "check" => pc \notin {"read", "creating"}
    PROVE  Current(p)'
  <1>1. cached'[p] = NoProvider \/ \E v \in Stored' : cached'[p] = AuthorizerOf(providers'[v].auth)
    BY DEF Current
  <1>2. ASSUME NEW d \in ApiCalls, apiCall'[d].process = p, apiCall'[d].op = "check",
               apiCall'[d].pc \in {"read", "creating"}
        PROVE  apiCall'[d].version \in Stored'
               /\ apiCall'[d].doc.auth = providers'[apiCall'[d].version].auth
    BY <1>2 DEF Current, Becomes
  <1> QED BY <1>1, <1>2 DEF Current, AuthorizerOf

\* A provider is saved.
LEMMA SaveProviderKeeps ==
    ASSUME RegistryInv, NEW c \in ApiCalls, SaveProvider(c)
    PROVE  RegistryInv'
  <1> DEFINE q == apiCall[c]
             pc == IF q.kinds = <<>> THEN AfterSave(c) ELSE "inserting"
             changed == providers[q.version] # NoProvider
                        /\ Saved(c).auth # providers[q.version].auth
  <1>1. /\ RegistryTypeOK /\ Calling /\ Listing /\ Excused /\ q.pc = "saving"
        /\ Saved(c).id <= MaxIds
        /\ providers' = [providers EXCEPT ![q.version] = Saved(c)]
        /\ apiCall' = [apiCall EXCEPT ![c].pc = pc]
        /\ intentfulKinds' = intentfulKinds /\ cached' = cached
    BY DEF RegistryInv, SaveProvider, Goto
  <1>2. q \in CallStates /\ q.version \in Versions /\ q.process \in Processes
    BY <1>1 DEF RegistryTypeOK, CallStates, Pcs, Calling
  <1>3. history \in Histories /\ MaxIds \in Nat
    BY <1>1, RegistryAssumption DEF RegistryTypeOK, Histories
  <1>4. Saved(c) \in Docs
    <2>1. CASE q.op = "update_auth"
      BY <1>1, <2>1 DEF Calling, Saved
    <2>2. CASE q.op # "update_auth" /\ providers[q.version] = NoProvider
      <3>1. Assign(NoAuth, q.auth) \in Settings
        BY <1>2, AssignTyped DEF CallStates, NoAuth, Settings
      <3>2. Saved(c) = [id |-> history.ids + 1, kinds |-> q.kinds, auth |-> Assign(NoAuth, q.auth)]
        BY <2>2 DEF Saved
      <3>3. history.ids + 1 \in 1..MaxIds
        BY <1>1, <1>3, <3>2 DEF Histories
      <3> QED BY <1>2, <3>1, <3>2, <3>3 DEF CallStates, Docs
    <2>3. CASE q.op # "update_auth" /\ providers[q.version] # NoProvider
      <3>1. providers[q.version] \in Docs
        BY <1>1, <1>2, <2>3 DEF RegistryTypeOK
      <3>2. Assign(providers[q.version].auth, q.auth) \in Settings
        BY <1>2, <3>1, AssignTyped DEF CallStates, Docs
      <3>3. Saved(c) = [id |-> providers[q.version].id, kinds |-> q.kinds,
                        auth |-> Assign(providers[q.version].auth, q.auth)]
        BY <2>3 DEF Saved
      <3> QED BY <1>2, <3>1, <3>2, <3>3 DEF CallStates, Docs
    <2> QED BY <2>1, <2>2, <2>3
  <1>5. /\ history'.disturbed = history.disturbed
        /\ history'.stale = IF changed THEN history.stale \cup NotInvalidated(c) ELSE history.stale
        /\ history' \in Histories
    <2> DEFINE ids == IF Saved(c).id > history.ids THEN Saved(c).id ELSE history.ids
               saved == [history.saved EXCEPT ![q.version] = @ \cup {q.kinds}]
               stale == IF changed THEN history.stale \cup NotInvalidated(c) ELSE history.stale
    <2>1. history' = [history EXCEPT !.ids = ids, !.saved = saved, !.stale = stale]
      BY <1>2, <1>3 DEF SaveProvider, Histories
    <2>2. ids \in 0..MaxIds
      BY <1>3, <1>4 DEF Histories, Docs
    <2>3. saved \in [Versions -> SUBSET Seq(DifferKinds)]
      BY <1>2, <1>3 DEF Histories, CallStates
    <2>4. stale \in SUBSET Processes
      BY <1>3 DEF Histories, NotInvalidated
    <2> HIDE DEF ids, saved
    <2> QED BY <1>3, <2>1, <2>2, <2>3, <2>4 DEF Histories
  <1>6. Becomes(c, pc, q.doc, q.kinds)
    <2>1. pc \in Pcs
      BY DEF Pcs, AfterSave
    <2>2. q.doc \in Docs \cup {NoProvider} /\ q.kinds \in Seq(DifferKinds)
      BY <1>2 DEF CallStates
    <2> QED BY <1>1, <2>1, <2>2, CallProceeds
  <1>7. RegistryTypeOK'
    <2>1. /\ providers' \in [Versions -> Docs \cup {NoProvider}]
          /\ intentfulKinds' \subseteq Versions \X DifferKinds
          /\ cached' \in [Processes -> Settings \cup {Unset, NoProvider}]
      BY <1>1, <1>4 DEF RegistryTypeOK
    <2> QED BY <1>1, <1>5, <1>6, <2>1, TypeKeeps
  <1>8. pc \in {"inserting", "invalidating", "done"} /\ (pc = "inserting" => q.kinds # <<>>)
        /\ (q.op = "update_auth" => pc \in {"inserting", "invalidating"})
    BY DEF AfterSave
  <1>9. Calling'
    <2> HIDE DEF pc
    <2> QED BY <1>1, <1>5, <1>6, <1>8, CallingKeeps
  <1>10. Listing'
    BY <1>1, <1>2, SaveListing
  <1>11. Excused'
    <2> SUFFICES ASSUME NEW p \in Processes, p \notin history'.stale
                 PROVE  Pending(p)' \/ Current(p)'
      BY DEF Excused
    <2>1. p \notin history.stale /\ (changed => p \notin NotInvalidated(c))
      BY <1>5
    <2>2. CASE changed
      <3>1. q.op = "update_auth" /\ p = q.process
        BY <2>1, <2>2 DEF NotInvalidated
      <3> QED BY <1>6, <1>8, <3>1 DEF Becomes, Pending
    <2>3. CASE ~ changed
      <3>1. \A v \in Stored : v \in Stored' /\ providers'[v].auth = providers[v].auth
        <4>1. NoProvider \notin Docs
          BY RegistryAssumption
        <4> QED BY <1>1, <1>2, <1>4, <2>3, <4>1 DEF Stored, RegistryTypeOK
      <3>2. ASSUME Current(p) PROVE Current(p)'
        <4> HIDE DEF pc
        <4> QED BY <1>1, <1>6, <1>8, <3>1, <3>2, CurrentStays
      <3>3. ASSUME Pending(p) PROVE Pending(p)'
        BY <1>1, <1>6, <3>3 DEF Pending, Becomes
      <3> QED BY <1>1, <2>1, <3>2, <3>3 DEF Excused
    <2> QED BY <2>2, <2>3
  <1> QED BY <1>7, <1>9, <1>10, <1>11 DEF RegistryInv

\* The cached authorizer of the process of an update is dropped; a check that
\* has read the provider before the change leaves the process stale.
LEMMA InvalidateKeeps ==
    ASSUME RegistryInv, NEW c \in ApiCalls, Invalidate(c)
    PROVE  RegistryInv'
  <1> DEFINE q == apiCall[c]
  <1>1. /\ RegistryTypeOK /\ Calling /\ Excused /\ q.pc = "invalidating"
        /\ apiCall' = [apiCall EXCEPT ![c].pc = "done"]
        /\ cached' = [cached EXCEPT ![q.process] = NoProvider]
        /\ providers' = providers /\ intentfulKinds' = intentfulKinds
    BY DEF RegistryInv, Invalidate, Goto
  <1>2. q \in CallStates /\ q.version \in Versions /\ q.process \in Processes
    BY <1>1 DEF RegistryTypeOK, CallStates, Pcs, Calling
  <1>3. /\ history' \in Histories /\ history'.disturbed = history.disturbed
        /\ history'.saved = history.saved
        /\ history'.stale = IF HoldsOld(q.process) THEN history.stale \cup {q.process}
                            ELSE history.stale \ {q.process}
    BY <1>1, <1>2 DEF RegistryTypeOK, Invalidate, Histories
  <1>4. Becomes(c, "done", q.doc, q.kinds)
    BY <1>1, <1>2, CallProceeds DEF Pcs, CallStates
  <1>5. RegistryTypeOK' /\ Calling' /\ Listing'
    <2>1. /\ providers' \in [Versions -> Docs \cup {NoProvider}]
          /\ intentfulKinds' \subseteq Versions \X DifferKinds
          /\ cached' \in [Processes -> Settings \cup {Unset, NoProvider}]
          /\ Stored' = Stored
      BY <1>1 DEF RegistryTypeOK, Stored
    <2> QED BY <1>1, <1>3, <1>4, <2>1, EndingKeeps
  <1>6. Excused'
    <2> SUFFICES ASSUME NEW p \in Processes, p \notin history'.stale
                 PROVE  Pending(p)' \/ Current(p)'
      BY DEF Excused
    <2>1. CASE p = q.process
      <3>1. ~ HoldsOld(p) /\ cached'[p] = NoProvider
        BY <1>1, <1>2, <1>3, <2>1 DEF RegistryTypeOK
      <3>2. ASSUME NEW d \in ApiCalls, apiCall'[d].process = p, apiCall'[d].op = "check",
                   apiCall'[d].pc \in {"read", "creating"}
            PROVE  apiCall'[d].version \in Stored
                   /\ apiCall'[d].doc.auth = providers[apiCall'[d].version].auth
        <4>1. d # c /\ apiCall'[d] = apiCall[d]
          BY <1>4, <3>2 DEF Becomes
        <4> QED BY <3>1, <3>2, <4>1 DEF HoldsOld
      <3> QED BY <1>1, <3>1, <3>2 DEF Current, Stored
    <2>2. CASE p # q.process
      <3>1. p \notin history.stale
        BY <1>3, <2>2
      <3>2. ASSUME Current(p) PROVE Current(p)'
        BY <1>1, <1>2, <1>4, <2>2, <3>2, CurrentStays DEF RegistryTypeOK, Stored
      <3>3. ASSUME Pending(p) PROVE Pending(p)'
        BY <1>1, <1>4, <2>2, <3>3 DEF Pending, Becomes
      <3> QED BY <1>1, <3>1, <3>2, <3>3 DEF Excused
    <2> QED BY <2>1, <2>2
  <1> QED BY <1>5, <1>6 DEF RegistryInv

\* The authorizer that a check makes is that of the document it has read: the
\* process holds what a version has, unless it is excused.
LEMMA CheckKeeps ==
    ASSUME RegistryInv, NEW c \in ApiCalls, NEW pc \in {"done", "creating"},
           apiCall[c].op = "check", apiCall[c].pc \in {"read", "creating"},
           apiCall' = [apiCall EXCEPT ![c].pc = pc],
           \/ cached' = cached
           \/ cached' = [cached EXCEPT
                  ![apiCall[c].process] = AuthorizerOf(apiCall[c].doc.auth)],
           providers' = providers, intentfulKinds' = intentfulKinds, history' = history
    PROVE  RegistryInv'
  <1> DEFINE q == apiCall[c]
  <1>1. RegistryTypeOK /\ Calling /\ Excused
    BY DEF RegistryInv
  <1>2. q \in CallStates /\ q.version \in Versions /\ q.process \in Processes /\ q.doc \in Docs
    BY <1>1 DEF RegistryTypeOK, CallStates, Pcs, Calling
  <1>3. Becomes(c, pc, q.doc, q.kinds)
    <2>1. pc \in Pcs /\ q.doc \in Docs \cup {NoProvider} /\ q.kinds \in Seq(DifferKinds)
      BY <1>2 DEF Pcs, CallStates
    <2> QED BY <1>1, <2>1, CallProceeds
  <1>4. RegistryTypeOK' /\ Calling' /\ Listing'
    <2>1. AuthorizerOf(q.doc.auth) \in Settings \cup {Unset}
      BY <1>2 DEF AuthorizerOf, Docs
    <2>2. /\ providers' \in [Versions -> Docs \cup {NoProvider}]
          /\ intentfulKinds' \subseteq Versions \X DifferKinds
          /\ history' \in Histories /\ Stored' = Stored
      BY <1>1 DEF RegistryTypeOK, Histories, Stored
    <2>3. cached' \in [Processes -> Settings \cup {Unset, NoProvider}]
      BY <1>1, <2>1 DEF RegistryTypeOK
    <2> QED BY <1>2, <1>3, <2>2, <2>3, EndingKeeps
  <1>5. Excused'
    <2> SUFFICES ASSUME NEW p \in Processes, p \notin history.stale
                 PROVE  Pending(p)' \/ Current(p)'
      BY DEF Excused
    <2>1. ASSUME Pending(p) PROVE Pending(p)'
      BY <1>3, <2>1 DEF Pending, Becomes
    <2>2. ASSUME Current(p) PROVE Current(p)'
      <3>1. \A d \in ApiCalls :
               apiCall'[d].process = p /\ apiCall'[d].op = "check"
               /\ apiCall'[d].pc \in {"read", "creating"}
               => apiCall'[d].version \in Stored'
                  /\ apiCall'[d].doc.auth = providers'[apiCall'[d].version].auth
        BY <1>3, <2>2 DEF Current, Becomes, Stored
      <3>2. cached'[p] = NoProvider \/ \E v \in Stored : cached'[p] = AuthorizerOf(providers[v].auth)
        <4>1. CASE cached'[p] = cached[p]
          BY <2>2, <4>1 DEF Current
        <4>2. CASE cached'[p] # cached[p]
          <5>1. p = q.process /\ cached'[p] = AuthorizerOf(q.doc.auth)
            BY <1>1, <4>2 DEF RegistryTypeOK
          <5>2. q.version \in Stored /\ q.doc.auth = providers[q.version].auth
            BY <2>2, <5>1 DEF Current
          <5> QED BY <5>1, <5>2
        <4> QED BY <4>1, <4>2
      <3> QED BY <3>1, <3>2 DEF Current, Stored, AuthorizerOf
    <2> QED BY <1>1, <2>1, <2>2 DEF Excused
  <1> QED BY <1>4, <1>5 DEF RegistryInv

\* An authorizer is needed.
LEMMA AuthorizeKeeps ==
    ASSUME RegistryInv, NEW c \in ApiCalls, Authorize(c)
    PROVE  RegistryInv'
  <1> DEFINE p == apiCall[c].process
             a == AuthorizerOf(apiCall[c].doc.auth)
  <1>1. /\ apiCall[c].op = "check" /\ apiCall[c].pc = "read"
        /\ providers' = providers /\ intentfulKinds' = intentfulKinds /\ history' = history
    BY DEF Authorize, CallAt
  <1>2. PICK pc \in {"done", "creating"} : apiCall' = [apiCall EXCEPT ![c].pc = pc]
    BY DEF Authorize, Goto
  <1>3. \/ cached' = cached \/ cached' = [cached EXCEPT ![p] = IF @ = NoProvider THEN a ELSE @]
    BY DEF Authorize
  <1>4. cached' = cached \/ cached' = [cached EXCEPT ![p] = a]
    BY <1>3 DEF RegistryInv, RegistryTypeOK
  <1> QED BY <1>1, <1>2, <1>4, CheckKeeps

\* casbin is ready.
LEMMA CacheAuthorizerKeeps ==
    ASSUME RegistryInv, NEW c \in ApiCalls, CacheAuthorizer(c)
    PROVE  RegistryInv'
  BY CheckKeeps DEF CacheAuthorizer, CallAt, Goto

\* Each step keeps the invariant.
LEMMA RegistryNextKeeps ==
    ASSUME RegistryInv, [RegistryNext]_registryVars
    PROVE  RegistryInv'
  <1>1. CASE UNCHANGED registryVars
    BY SMTT(60), <1>1 DEF registryVars, RegistryInv, RegistryTypeOK, Calling, Listing, ListingOf, Inserts,
                PastListed, GetsThere, Leads, Remains, NamedOnce, Stored, Excused, Pending,
                Current, AuthorizerOf
  <1>2. ASSUME NEW c \in ApiCalls, NEW p \in Processes, NEW v \in Versions,
               \/ Register(c, p, v) \/ Unregister(c, p, v) \/ UpdateAuth(c, p, v) \/ Check(c, p, v)
        PROVE  RegistryInv'
    <2>1. NoAuth \in Settings /\ <<>> \in Seq(DifferKinds)
      BY DEF NoAuth, Settings
    <2>2. ASSUME Register(c, p, v) PROVE RegistryInv'
      <3>1. PICK auth \in Secured, ks \in Registrations :
                ArriveCall(c, p, v, "register", "saving", auth, ks)
        BY <2>2 DEF Register
      <3>2. auth \in Settings /\ ks \in Seq(DifferKinds)
        BY RegistryAssumption DEF Secured, Settings
      <3> QED BY <3>1, <3>2, ArriveCallKeeps
    <2>3. ASSUME Unregister(c, p, v) PROVE RegistryInv'
      BY <2>1, <2>3, ArriveCallKeeps DEF Unregister
    <2>4. ASSUME UpdateAuth(c, p, v) PROVE RegistryInv'
      BY <2>1, <2>4, ArriveCallKeeps DEF UpdateAuth
    <2>5. ASSUME Check(c, p, v) PROVE RegistryInv'
      BY <2>1, <2>5, ArriveCallKeeps DEF Check
    <2> QED BY <1>2, <2>2, <2>3, <2>4, <2>5
  <1>3. ASSUME NEW c \in ApiCalls,
               \/ GetProvider(c) \/ SaveProvider(c) \/ SaveConflict(c) \/ InsertKind(c)
               \/ DeleteProvider(c) \/ UnlistKinds(c)
               \/ Invalidate(c) \/ Authorize(c) \/ CacheAuthorizer(c) \/ FailCall(c)
        PROVE  RegistryInv'
    BY <1>3, GetProviderKeeps, SaveProviderKeeps, SaveConflictKeeps, InsertKindKeeps,
       DeleteProviderKeeps, UnlistKindsKeeps, InvalidateKeeps, AuthorizeKeeps,
       CacheAuthorizerKeeps, FailCallKeeps
  <1> QED BY <1>1, <1>2, <1>3 DEF RegistryNext

\* The invariant says what the properties say: a version without a call at work
\* is one that no call leads, and a process that no call excuses is current.
LEMMA RegistryInvImplies ==
    ASSUME RegistryInv
    PROVE  RegistryTypeOK /\ SameKindsListed /\ StaleIsExcused
  <1>1. RegistryTypeOK /\ Calling /\ Listing /\ Excused
    BY DEF RegistryInv
  <1>2. SameKindsListed
    <2> SUFFICES ASSUME NEW v \in Stored \ history.disturbed, ~ Working(v),
                        \A k \in history.saved[v] : k = providers[v].kinds,
                        NamedOnce(providers[v].kinds)
                 PROVE  Listed(v)
      BY DEF SameKindsListed
    <2>1. v \in Versions /\ providers[v] \in Docs /\ providers[v].kinds \in Seq(DifferKinds)
      BY <1>1 DEF Stored, RegistryTypeOK, Docs
    <2>2. history.saved[v] = {providers[v].kinds}
      <3>1. history.saved[v] # {}
        BY <1>1, <2>1 DEF Listing, ListingOf
      <3> QED BY <3>1
    <2>3. GetsThere(v, providers[v].kinds)
      BY <1>1, <2>1, <2>2 DEF Listing, ListingOf
    <2>4. \A c \in ApiCalls : ~ Leads(c, v)
      BY DEF Working, Leads, Inserts
    <2>5. DOMAIN providers[v].kinds = 1..Len(providers[v].kinds)
      BY <2>1
    <2> QED BY <2>3, <2>4, <2>5 DEF GetsThere, Listed
  <1>3. StaleIsExcused
    BY <1>1 DEF Excused, StaleIsExcused, Pending, Current
  <1> QED BY <1>1, <1>2, <1>3

\* The variables of the registry have their types.
THEOREM RegistryTypeCorrect == RegistrySpec => []RegistryTypeOK
  <1>1. RegistrySpec => []RegistryInv
    BY RegistryInitInv, RegistryNextKeeps, PTL DEF RegistrySpec
  <1> QED BY <1>1, RegistryInvImplies, PTL

\* Registrations of the same kinds that do not fail leave each kind listed.
THEOREM SameKindsCorrect == RegistrySpec => []SameKindsListed
  <1>1. RegistrySpec => []RegistryInv
    BY RegistryInitInv, RegistryNextKeeps, PTL DEF RegistrySpec
  <1> QED BY <1>1, RegistryInvImplies, PTL

\* A process whose authorizer no stored provider has is one that was not told.
THEOREM StaleCorrect == RegistrySpec => []StaleIsExcused
  <1>1. RegistrySpec => []RegistryInv
    BY RegistryInitInv, RegistryNextKeeps, PTL DEF RegistrySpec
  <1> QED BY <1>1, RegistryInvImplies, PTL

------------------------------------------------------------------------------
(* The SDK: a signature is made together with its route, routes are never      *)
(* removed, and what is posted and what the engine holds are signatures that   *)
(* were described at some time.                                                *)

\* The route that a signature was made with is still there
Led(s) ==
    /\ s.handler \in DOMAIN routes
    /\ routes[s.handler].path = s.path

Leading(set) == \A s \in set : Led(s)

SdkInv ==
    /\ SdkTypeOK
    /\ \A i \in DOMAIN routes : routes[i].handler = i
    /\ Leading(signatures)
    /\ sent # Unsent => Leading(sent)
    /\ engine # Unsent => Leading(engine)

-----------------------------------------------------------------------------

\* The invariant holds before anything is described.
LEMMA SdkInitInv ==
    ASSUME SdkInit
    PROVE  SdkInv
  <1>1. routes = <<>> /\ signatures = {} /\ sent = Unsent /\ engine = Unsent
    BY DEF SdkInit
  <1>2. routes \in Seq([path : Paths, handler : 1..MaxRoutes]) /\ Len(routes) = 0
        /\ DOMAIN routes = {}
    BY <1>1, EmptySeq
  <1>3. SdkTypeOK
    BY SdkAssumption, <1>1, <1>2 DEF SdkInit, SdkTypeOK
  <1> QED
    BY <1>1, <1>2, <1>3 DEF SdkInv, Leading

\* A handler is registered: its signature leads to it, and the others to theirs.
LEMMA RouteKeeps ==
    ASSUME SdkInv, NEW s \in Signatures, Len(routes) < MaxRoutes,
           RegisterHandler(s.path), s.handler = Handler,
           signatures' \subseteq signatures \cup {s},
           UNCHANGED <<built, kinds, sent, engine>>,
           server' \in [run : BOOLEAN, health : BOOLEAN,
                        state : {"down", "listening", "crashed", "closed"}]
    PROVE  SdkInv'
  <1> DEFINE Route == [path : Paths, handler : 1..MaxRoutes]
             n == Len(routes) + 1
             new == [path |-> s.path, handler |-> n]
  <1>1. routes \in Seq(Route) /\ Len(routes) \in Nat
    BY DEF SdkInv, SdkTypeOK
  <1>2. n \in 1..MaxRoutes /\ new \in Route
    BY SdkAssumption, <1>1 DEF Signatures
  <1>3. routes' = Append(routes, new)
    BY DEF RegisterHandler, Handler
  <1>4. /\ routes' \in Seq(Route) /\ Len(routes') = n
        /\ DOMAIN routes' = 1..n /\ DOMAIN routes = 1..(n-1)
        /\ routes'[n] = new
        /\ \A i \in 1..(n-1) : routes'[i] = routes[i]
    BY <1>1, <1>2, <1>3
  <1>5. \A i \in DOMAIN routes' : routes'[i].handler = i
    <2> SUFFICES ASSUME NEW i \in 1..n
                 PROVE  routes'[i].handler = i
      BY <1>4
    <2>1. CASE i = n
      BY <2>1, <1>4
    <2>2. CASE i # n
      <3>1. i \in DOMAIN routes /\ routes'[i] = routes[i]
        BY <2>2, <1>1, <1>4
      <3> QED
        BY <3>1 DEF SdkInv
    <2> QED
      BY <2>1, <2>2
  <1>6. SdkTypeOK'
    <2>1. signatures' \subseteq Signatures
      BY DEF SdkInv, SdkTypeOK
    <2>2. Len(routes') <= MaxRoutes
      BY <1>2, <1>4
    <2> QED
      BY <1>4, <2>1, <2>2 DEF SdkInv, SdkTypeOK
  <1>7. \A t : Led(t) => Led(t)'
    BY <1>1, <1>4 DEF Led
  <1>8. Led(s)'
    BY <1>1, <1>4 DEF Led, Handler
  <1>9. Leading(signatures)'
    BY <1>7, <1>8 DEF SdkInv, Leading
  <1>10. (sent # Unsent => Leading(sent))' /\ (engine # Unsent => Leading(engine))'
    BY <1>7 DEF SdkInv, Leading
  <1> QED
    BY <1>5, <1>6, <1>9, <1>10 DEF SdkInv

\* The other steps add no route.
LEMMA SdkQuietKeeps ==
    ASSUME SdkInv, routes' = routes, signatures' = signatures, SdkTypeOK',
           sent' \in {sent, Unsent} \cup SUBSET signatures,
           engine' \in {engine, sent}
    PROVE  SdkInv'
  <1>1. \A t : Led(t) => Led(t)'
    BY DEF Led
  <1>2. Leading(signatures)' /\ \A i \in DOMAIN routes' : routes'[i].handler = i
    BY <1>1 DEF SdkInv, Leading
  <1>3. (sent # Unsent => Leading(sent))'
    BY <1>1 DEF SdkInv, Leading
  <1>4. (engine # Unsent => Leading(engine))'
    BY <1>1 DEF SdkInv, Leading
  <1> QED
    BY <1>2, <1>3, <1>4 DEF SdkInv

\* Every step keeps the invariant.
LEMMA SdkNextKeeps ==
    ASSUME SdkInv, [SdkNext]_sdkVars
    PROVE  SdkInv'
  <1>1. CASE UNCHANGED sdkVars
    <2>1. SdkTypeOK'
      BY <1>1 DEF sdkVars, SdkInv, SdkTypeOK
    <2> QED
      BY <1>1, <2>1, SdkQuietKeeps DEF sdkVars
  <1>2. ASSUME NEW k \in KindNames, NewKind(k) \/ AddKind(k) \/ RemoveKind(k)
        PROVE  SdkInv'
    <2>1. SdkTypeOK'
      BY <1>2 DEF NewKind, AddKind, RemoveKind, SdkInv, SdkTypeOK
    <2> QED
      BY <1>2, <2>1, SdkQuietKeeps DEF NewKind, AddKind, RemoveKind
  <1>3. ASSUME NEW class \in {"entity", "kind", "provider"}, NEW k \in KindNames \cup {NoKind},
               NEW n \in Names, Procedure(class, k, n)
        PROVE  SdkInv'
    <2> DEFINE s == Sign(class, Path(k, n))
    <2>1. Len(routes) < MaxRoutes /\ Len(routes) \in Nat
      BY <1>3 DEF Procedure, SdkInv, SdkTypeOK
    <2>2. s \in Signatures /\ s.path = Path(k, n) /\ s.handler = Handler
      BY SdkAssumption, <2>1 DEF Sign, Path, Signatures, Paths, Handler
    <2>3. /\ RegisterHandler(s.path) /\ signatures' \subseteq signatures \cup {s}
          /\ UNCHANGED <<built, kinds, sent, engine>>
      BY <1>3, <2>2 DEF Procedure, Replace
    <2>4. server' \in [run : BOOLEAN, health : BOOLEAN,
                       state : {"down", "listening", "crashed", "closed"}]
      BY <1>3 DEF Procedure, SdkInv, SdkTypeOK
    <2> HIDE DEF s
    <2> QED
      BY <2>1, <2>2, <2>3, <2>4, RouteKeeps
  <1>4. ASSUME NEW k \in KindNames, NEW n \in Names, On(k, n)
        PROVE  SdkInv'
    <2> DEFINE s == Sign("intentful", Path(k, n))
    <2>1. Len(routes) < MaxRoutes /\ Len(routes) \in Nat
      BY <1>4 DEF On, SdkInv, SdkTypeOK
    <2>2. s \in Signatures /\ s.path = Path(k, n) /\ s.handler = Handler
      BY SdkAssumption, <2>1 DEF Sign, Path, Signatures, Paths, Handler
    <2>3. /\ RegisterHandler(s.path) /\ signatures' \subseteq signatures \cup {s}
          /\ UNCHANGED <<built, kinds, sent, engine>>
      BY <1>4, <2>2 DEF On
    <2>4. server' \in [run : BOOLEAN, health : BOOLEAN,
                       state : {"down", "listening", "crashed", "closed"}]
      BY <1>4 DEF On, HealthChecked, SdkInv, SdkTypeOK
    <2> HIDE DEF s
    <2> QED
      BY <2>1, <2>2, <2>3, <2>4, RouteKeeps
  <1>5. CASE RegisterProvider
    <2>1. sent' \in SUBSET signatures
      BY <1>5 DEF RegisterProvider
    <2>2. SdkTypeOK'
      BY <1>5, <2>1 DEF RegisterProvider, describing, SdkInv, SdkTypeOK
    <2> QED
      BY <1>5, <2>1, <2>2, SdkQuietKeeps DEF RegisterProvider, describing
  <1>6. CASE Post
    <2>1. SdkTypeOK'
      BY <1>6 DEF Post, describing, SdkInv, SdkTypeOK
    <2> QED
      BY <1>6, <2>1, SdkQuietKeeps DEF Post, describing
  <1>7. CASE PostFails \/ StartServer \/ Cleanup
    <2>1. server' \in [run : BOOLEAN, health : BOOLEAN,
                       state : {"down", "listening", "crashed", "closed"}]
      BY <1>7 DEF PostFails, StartServer, Cleanup, SdkInv, SdkTypeOK
    <2>2. SdkTypeOK'
      BY <1>7, <2>1 DEF PostFails, StartServer, Cleanup, describing, SdkInv, SdkTypeOK
    <2> QED
      BY <1>7, <2>2, SdkQuietKeeps DEF PostFails, StartServer, Cleanup, describing
  <1> QED
    BY <1>1, <1>2, <1>3, <1>4, <1>5, <1>6, <1>7
       DEF SdkNext, EntityProcedure, KindProcedure, ProviderProcedure

\* A callback leads to the handler whose path nobody else registered.
LEMMA DispatchFinds ==
    ASSUME SdkInv
    PROVE  CallbackReachesHandler
  <1> SUFFICES ASSUME engine # Unsent, NEW s \in engine
               PROVE  /\ s.path \in Routed
                      /\ Alone(s) => Dispatch(s.path) = s.handler
    BY DEF CallbackReachesHandler
  <1>1. s.handler \in DOMAIN routes /\ routes[s.handler].path = s.path
    BY DEF SdkInv, Leading, Led
  <1>2. s.path \in Routed
    BY <1>1 DEF Routed
  <1>3. ASSUME Alone(s)
        PROVE  Dispatch(s.path) = s.handler
    <2> DEFINE First(i) == /\ routes[i].path = s.path
                           /\ \A j \in 1..i-1 : routes[j].path # s.path
    <2>1. DOMAIN routes = 1..Len(routes) /\ Len(routes) \in Nat
      BY DEF SdkInv, SdkTypeOK
    <2>2. First(s.handler)
      BY <1>1, <1>3, <2>1 DEF Alone
    <2>3. \A i \in DOMAIN routes : First(i) => i = s.handler
      BY <1>3 DEF Alone
    <2>4. (CHOOSE i \in DOMAIN routes : First(i)) = s.handler
      <3> HIDE DEF First
      <3> QED
        BY <1>1, <2>2, <2>3
    <2>5. Dispatch(s.path) = routes[s.handler].handler
      BY <2>4 DEF Dispatch
    <2> QED
      BY <1>1, <2>5 DEF SdkInv
  <1> QED
    BY <1>2, <1>3

-----------------------------------------------------------------------------

\* What is described, routed, posted and held has its type, for any kinds, names
\* and number of handlers.
THEOREM SdkTypeCorrect == SdkSpec => []SdkTypeOK
  <1>1. SdkInv => SdkTypeOK
    BY DEF SdkInv
  <1> QED
    BY <1>1, SdkInitInv, SdkNextKeeps, PTL DEF SdkSpec

\* Each callback the engine holds leads to a route, and to the handler it was
\* described with unless their path was registered twice, whatever is added,
\* removed and registered again, in any order.
THEOREM CallbackCorrect == SdkSpec => []CallbackReachesHandler
  <1> QED
    BY SdkInitInv, SdkNextKeeps, DispatchFinds, PTL DEF SdkSpec

------------------------------------------------------------------------------
(* The parts next to each other                                              *)

\* A step of Services is, for each part, a step of it or none.
LEMMA StepOfParts ==
    ASSUME [Next]_vars
    PROVE  /\ [StrategyNext]_strategyVars
           /\ [RegistryNext]_registryVars
           /\ [KeysNext]_keyVars
           /\ [SdkNext]_sdkVars
           /\ [TaskNext]_taskVars
           /\ part' = part
  <1>1. CASE UNCHANGED vars
    BY <1>1 DEF vars
  <1>2. CASE Others("strategies") /\ StrategyNext
    BY <1>2 DEF Others
  <1>3. CASE Others("registry") /\ RegistryNext
    BY <1>3 DEF Others
  <1>4. CASE Others("keys") /\ KeysNext
    BY <1>4 DEF Others
  <1>5. CASE Others("sdk") /\ SdkNext
    BY <1>5 DEF Others
  <1>6. CASE Others("tasks") /\ TaskNext
    BY <1>6 DEF Others
  <1> QED BY <1>1, <1>2, <1>3, <1>4, <1>5, <1>6 DEF Next

\* What Services does implements what each part may do alone: putting the parts
\* next to each other neither adds a behaviour to one nor lets one disturb
\* another.
THEOREM ServicesImplementParts ==
    Spec => StrategySpec /\ RegistrySpec /\ KeysSpec /\ SdkSpec /\ TaskSpec
  <1>1. Init => StrategyInit /\ RegistryInit /\ KeysInit /\ SdkInit /\ TaskInit
    BY DEF Init
  <1> QED
    BY <1>1, StepOfParts, PTL
       DEF Spec, StrategySpec, RegistrySpec, KeysSpec, SdkSpec, TaskSpec

\* The variables of every part have their types.
THEOREM ServicesTypeCorrect == Spec => []TypeOK
  <1>1. Spec => [](part \in Parts)
    <2>1. Init => part \in Parts
      BY DEF Init
    <2>2. part \in Parts /\ [Next]_vars => (part \in Parts)'
      BY StepOfParts
    <2> QED BY <2>1, <2>2, PTL DEF Spec
  <1>2. TypeOK <=> (part \in Parts) /\ StrategyTypeOK /\ RegistryTypeOK /\ KeysTypeOK
                   /\ SdkTypeOK /\ TaskTypeOK
    BY DEF TypeOK
  <1> QED
    BY <1>1, <1>2, ServicesImplementParts, StrategyTypeCorrect, RegistryTypeCorrect,
       KeysTypeCorrect, SdkTypeCorrect, TaskTypeCorrect, PTL

\* Each property of a part is one of Services.
THEOREM ServicesCorrect ==
    Spec => /\ [](OwnProcedure /\ OwnKindWithoutConstructor /\ SharedByBehaviour)
            /\ [](SameKindsListed /\ StaleIsExcused)
            /\ [](NoUseAfterEnd /\ StoredIsAlive)
            /\ []CallbackReachesHandler
            /\ []NoForgottenTask
            /\ ReportsTheState
  BY ServicesImplementParts, ProcedureCorrect, KindCorrect, SharingCorrect,
     SameKindsCorrect, StaleCorrect, EndCorrect, AliveCorrect, CallbackCorrect,
     TaskKnown, ReportCorrect, PTL
=============================================================================
