--------------------------- MODULE Authentication ---------------------------
(***************************************************************************)
(* get_identity of the query API and _get_operator_identity of the         *)
(* operator API, and under them the cache of the provider's keys.          *)
(*                                                                         *)
(* Both are synchronous dependencies: every request runs in a thread, and  *)
(* asyncio.run gives it an event loop of its own, but _jwks_lock is one    *)
(* asyncio.Lock for all of them.  The lock is not made for threads: a loop *)
(* that waits for it is not woken when a thread of another loop releases   *)
(* it, and the first loop that waits is the only one that ever may.        *)
(*                                                                         *)
(*   test, set    - acquire(): the lock is found free, then taken          *)
(*   enqueue      - a future is queued, the loop is not asleep yet         *)
(*   asleep       - the loop waits in select(), which nothing ends         *)
(*   fetch        - lock held: the cache is read, or the provider asked    *)
(*   release      - the lock is given back                                 *)
(*   verify       - the token is checked against the keys                  *)
(***************************************************************************)
EXTENDS Sequences, FiniteSets

CONSTANTS
    Requests,      \* calls of the API, each in a thread and a loop of its own
    Kids,          \* key ids of the provider
    Tokens,        \* [kid, signed, tenant, principal, roles]
    AuthSettings,  \* [auth_mode, trusted]: auth_mode and auth_trusted_headers
    Missing        \* a header or a claim that is not there

ASSUME AuthenticationConstants ==
    /\ Missing \notin Tokens /\ Missing \notin Kids
    /\ \A s \in AuthSettings : s.auth_mode \in {"oidc", "header", "local"} /\ s.trusted \in BOOLEAN

VARIABLES
    settings,
    request,     \* request[r]: [api, token, gateway] as it arrived
    step,        \* step[r]: where the request's thread is
    answer,      \* answer[r]: "none", an HTTP status, or "granted"
    keys,        \* the keys the provider publishes now
    published,   \* history: the keys it has published
    cache,       \* _jwks_cache: Missing, or the keys fetched once
    locked, waiters, woken, boundTo,  \* _jwks_lock
    got,         \* got[r]: the keys the request has
    met          \* history: two requests were in _fetch_jwks at once

lockVars == <<locked, waiters, woken, boundTo>>
authVars == <<settings, request, step, answer, keys, published, cache, lockVars, got, met>>

ALLOWED_OPERATOR_ROLES == {"operator", "admin"}
InFetch == {"test", "set", "enqueue", "asleep", "fetch", "release"}
NoRequest == [api |-> "none", token |-> Missing, gateway |-> FALSE]

AuthInit ==
    /\ settings \in AuthSettings
    /\ request = [r \in Requests |-> NoRequest]
    /\ step = [r \in Requests |-> "new"]
    /\ answer = [r \in Requests |-> "none"]
    /\ keys \in {{k} : k \in Kids} /\ published = keys
    /\ cache = Missing
    /\ locked = FALSE /\ waiters = <<>> /\ woken = {} /\ boundTo = Missing
    /\ got = [r \in Requests |-> {}]
    /\ met = FALSE

Answer(r, a) ==
    /\ step' = [step EXCEPT ![r] = "answered"]
    /\ answer' = [answer EXCEPT ![r] = a]

GoTo(r, s) == step' = [step EXCEPT ![r] = s] /\ UNCHANGED answer

-----------------------------------------------------------------------------
\* Variant: any role will do.
HasAnyRole(token) == token.roles # {}

HasRole(token) == token.roles \cap ALLOWED_OPERATOR_ROLES # {}

\* The answer of a request that needs no key, or "jwt".
QueryEntry(req) ==
    CASE settings.auth_mode = "oidc"   -> IF req.token = Missing THEN "401" ELSE "jwt"
      [] settings.auth_mode = "header" -> IF settings.trusted /\ req.gateway THEN "granted" ELSE "401"
      [] settings.auth_mode = "local"  -> "granted"

\* In local mode the claims are not verified, and only with trusted headers.
OperatorEntry(req) ==
    IF req.token = Missing THEN "401"
    ELSE IF settings.auth_mode # "local" THEN "jwt"
    ELSE IF settings.trusted /\ HasRole(req.token) THEN "granted"
    ELSE "403"

Arrive(r, req) ==
    LET entry == IF req.api = "query" THEN QueryEntry(req) ELSE OperatorEntry(req)
    IN  /\ step[r] = "new"
        /\ request' = [request EXCEPT ![r] = req]
        /\ IF entry = "jwt" THEN GoTo(r, "test") ELSE Answer(r, entry)
        /\ met' = (met \/ (entry = "jwt" /\ \E q \in Requests : step[q] \in InFetch))
        /\ UNCHANGED <<settings, keys, published, cache, lockVars, got>>

-----------------------------------------------------------------------------
\* _fetch_jwks.

\* acquire(): a free lock that nobody waits for is taken; else the loop must be the one
\* the lock is bound to, and asyncio raises if it is not.
TestLock(r) ==
    /\ step[r] = "test"
    /\ \/ /\ ~locked /\ waiters = <<>>
          /\ GoTo(r, "set")
          /\ UNCHANGED <<waiters, boundTo>>
       \/ /\ locked \/ waiters # <<>>
          /\ boundTo = Missing
          /\ boundTo' = r
          /\ waiters' = Append(waiters, r)
          /\ GoTo(r, "enqueue")
       \/ /\ locked \/ waiters # <<>>
          /\ boundTo # Missing
          /\ Answer(r, "503")
          /\ UNCHANGED <<waiters, boundTo>>
    /\ UNCHANGED <<settings, request, keys, published, cache, locked, woken, got, met>>

\* Another thread may run between the test and the assignment.
SetLock(r) ==
    /\ step[r] = "set"
    /\ locked' = TRUE
    /\ GoTo(r, "fetch")
    /\ UNCHANGED <<settings, request, keys, published, cache, waiters, woken, boundTo, got, met>>

\* The waiter notices its future only if it was done before the loop went to sleep.
Enqueued(r) ==
    /\ step[r] = "enqueue"
    /\ \/ /\ r \in woken
          /\ waiters' = SelectSeq(waiters, LAMBDA w : w # r)
          /\ locked' = TRUE
          /\ GoTo(r, "fetch")
       \/ /\ r \notin woken
          /\ GoTo(r, "asleep")
          /\ UNCHANGED <<waiters, locked>>
    /\ UNCHANGED <<settings, request, keys, published, cache, woken, boundTo, got, met>>

\* The keys are taken from the cache, or fetched and cached for good.
FetchJwks(r) ==
    /\ step[r] = "fetch"
    /\ cache' = IF cache = Missing THEN keys ELSE cache
    /\ got' = [got EXCEPT ![r] = cache']
    /\ GoTo(r, "release")
    /\ UNCHANGED <<settings, request, keys, published, lockVars, met>>

\* The provider does not answer, or not with 200.
FetchFails(r) ==
    /\ step[r] = "fetch" /\ cache = Missing
    /\ GoTo(r, "release")
    /\ UNCHANGED <<settings, request, keys, published, cache, lockVars, got, met>>

Outcome(r) == IF got[r] = {} THEN Answer(r, "503") ELSE GoTo(r, "verify")

\* Variant: a request that got no keys keeps the lock.
ReleaseOnSuccess(r) ==
    /\ step[r] = "release"
    /\ locked' = (got[r] = {})
    /\ Outcome(r)
    /\ UNCHANGED <<settings, request, keys, published, cache, waiters, woken, boundTo, got, met>>

\* release(): raises if the lock is free, else the first waiter's future is done.
Release(r) ==
    /\ step[r] = "release"
    /\ \/ /\ locked
          /\ locked' = FALSE
          /\ woken' = IF waiters = <<>> THEN woken ELSE woken \cup {Head(waiters)}
          /\ Outcome(r)
       \/ /\ ~locked
          /\ Answer(r, "503")
          /\ UNCHANGED <<locked, woken>>
    /\ UNCHANGED <<settings, request, keys, published, cache, waiters, boundTo, got, met>>

\* _get_identity_from_jwt with the keys, and the role check of the operator API.
Verify(r) ==
    LET token == request[r].token
        verified == /\ token.kid \in got[r] /\ token.signed
                    /\ token.tenant # Missing /\ token.principal # Missing
    IN  /\ step[r] = "verify"
        /\ \/ ~verified /\ Answer(r, "401")
           \/ verified /\ request[r].api = "operator" /\ ~HasRole(token) /\ Answer(r, "403")
           \/ verified /\ (request[r].api = "query" \/ HasRole(token)) /\ Answer(r, "granted")
        /\ UNCHANGED <<settings, request, keys, published, cache, lockVars, got, met>>

\* The provider replaces its keys.
Rotate(k) ==
    /\ keys' = {k} /\ published' = published \cup {k}
    /\ UNCHANGED <<settings, request, step, answer, cache, lockVars, got, met>>

AuthStep(r) ==
    \/ TestLock(r) \/ SetLock(r) \/ Enqueued(r)
    \/ FetchJwks(r) \/ FetchFails(r) \/ Release(r) \/ Verify(r)

IncomingRequests ==
    [api : {"query", "operator"}, token : Tokens \cup {Missing}, gateway : BOOLEAN]

AuthNext ==
    \/ \E r \in Requests : AuthStep(r)
    \/ \E r \in Requests, req \in IncomingRequests : Arrive(r, req)
    \/ \E k \in Kids : Rotate(k)

AuthSpec == AuthInit /\ [][AuthNext]_authVars

\* A thread that can run does; the provider answers or fails within its timeout.
FairAuthSpec == AuthSpec /\ \A r \in Requests : WF_authVars(AuthStep(r))

-----------------------------------------------------------------------------
(***************************************************************************)
(* Outside local mode and the trusted gateway, whoever is let in showed a  *)
(* token signed with a key the provider has published, with a tenant and a *)
(* principal, and for the operator API with an operator's role, however    *)
(* requests race for the keys and whenever the provider rotates them.      *)
(***************************************************************************)
GrantedWasVerified ==
    \A r \in Requests :
        (/\ answer[r] = "granted"
         /\ settings.auth_mode # "local"
         /\ request[r].api = "operator" \/ settings.auth_mode = "oidc") =>
            /\ request[r].token \in Tokens
            /\ request[r].token.signed /\ request[r].token.kid \in published
            /\ Missing \notin {request[r].token.tenant, request[r].token.principal}
            /\ request[r].api = "operator" =>
                  request[r].token.roles \cap ALLOWED_OPERATOR_ROLES # {}

(***************************************************************************)
(* Every request is answered, unless two were in _fetch_jwks at once.      *)
(***************************************************************************)
UncontendedIsAnswered ==
    \A r \in Requests : (step[r] # "new") ~> (step[r] = "answered" \/ met)

-----------------------------------------------------------------------------
\* Every key a thread can have was published, wherever it came from, a thread that looks
\* for keys has a token to check, and nobody is let in before the last step.

AuthTypeOK ==
    /\ settings \in AuthSettings
    /\ request \in [Requests -> IncomingRequests \cup {NoRequest}]
    /\ step \in [Requests -> {"new", "verify", "answered"} \cup InFetch]
    /\ answer \in [Requests -> {"none", "granted", "401", "403", "503"}]
    /\ published \subseteq Kids
    /\ got \in [Requests -> SUBSET Kids]

KeysWerePublished ==
    /\ keys \subseteq published
    /\ cache # Missing => cache \subseteq published
    /\ \A r \in Requests : got[r] \subseteq published

TokenBeforeKeys ==
    \A r \in Requests :
        /\ step[r] \in InFetch \cup {"verify"} => request[r].token \in Tokens
        /\ step[r] # "new" => request[r].api \in {"query", "operator"}
        /\ step[r] # "answered" => answer[r] = "none"

AuthIInv == AuthTypeOK /\ KeysWerePublished /\ TokenBeforeKeys /\ GrantedWasVerified
=============================================================================
