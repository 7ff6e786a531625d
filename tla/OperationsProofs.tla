------------------------- MODULE OperationsProofs -------------------------
(***************************************************************************)
(* What holds of the operators' side for any number of cases, requests,    *)
(* operators, runs, proposals and calls: the evaluation runner leaves      *)
(* nothing running, only who was verified is let in, reviews keep tenants  *)
(* apart, evaluation and approval cannot be bypassed by racing calls, and  *)
(* calls that do not race give a proposal one outcome.                     *)
(***************************************************************************)
EXTENDS Proposals, Reviews, Authentication, Evaluation, TLAPS

-----------------------------------------------------------------------------
\* The evaluation runner.

LEMMA EvaluationInitIInv == EvaluationInit => EvaluationIInv
  BY DEF EvaluationInit, EvaluationIInv, EvaluationTypeOK, HeldAtStage, NothingLeftRunning,
         Containers, Stages, Early, InTry, At

\* The two try blocks that start the containers.
LEMMA StartsPreserve ==
  ASSUME EvaluationIInv,
         \/ StartNeo4j \/ NoNeo4j \/ LookUpNeo4j \/ NoNeo4jPort
         \/ StartPostgres \/ LookUpPostgres \/ NoPostgres
  PROVE  EvaluationIInv'
<1> USE DEF EvaluationIInv, EvaluationTypeOK, HeldAtStage, NothingLeftRunning,
            Containers, Stages, Early, InTry, At, Then, Running
<1>1. CASE StartNeo4j
  BY <1>1 DEF StartNeo4j
<1>2. CASE NoNeo4j
  BY <1>2 DEF NoNeo4j
<1>3. CASE LookUpNeo4j
  BY <1>3 DEF LookUpNeo4j
<1>4. CASE NoNeo4jPort
  BY <1>4 DEF NoNeo4jPort
<1>5. CASE StartPostgres
  BY <1>5 DEF StartPostgres
<1>6. CASE LookUpPostgres
  BY <1>6 DEF LookUpPostgres
<1>7. CASE NoPostgres
  BY <1>7 DEF NoPostgres, SkipAndStop
<1> QED
  BY <1>1, <1>2, <1>3, <1>4, <1>5, <1>6, <1>7

\* The third one, where every step and every failure leads to its finally clause.
LEMMA TryPreserves ==
  ASSUME EvaluationIInv,
         \/ ConnectNeo4j \/ FillNeo4j \/ ConnectPostgres \/ FillPostgres
         \/ \E chunks, objects \in SUBSET Fixtures : EvaluateCase(chunks, objects)
         \/ Report \/ Raise
  PROVE  EvaluationIInv'
<1> USE DEF EvaluationIInv, EvaluationTypeOK, HeldAtStage, NothingLeftRunning,
            Containers, Stages, Early, InTry, At, Then
<1>1. CASE ConnectNeo4j
  BY <1>1 DEF ConnectNeo4j
<1>2. CASE FillNeo4j
  BY <1>2 DEF FillNeo4j
<1>3. CASE ConnectPostgres
  BY <1>3 DEF ConnectPostgres
<1>4. CASE FillPostgres
  BY <1>4 DEF FillPostgres
<1>5. CASE \E chunks, objects \in SUBSET Fixtures : EvaluateCase(chunks, objects)
  BY <1>5 DEF EvaluateCase
<1>6. CASE Report
  BY <1>6 DEF Report
<1>7. CASE Raise
  BY <1>7 DEF Raise
<1> QED
  BY <1>1, <1>2, <1>3, <1>4, <1>5, <1>6, <1>7

\* The finally clause, in its order, and its interruption.
LEMMA FinallyPreserves ==
  ASSUME EvaluationIInv,
         ClosePostgres \/ CloseNeo4j \/ StopNeo4j \/ StopPostgres \/ ReleaseRaises
  PROVE  EvaluationIInv'
<1> USE DEF EvaluationIInv, EvaluationTypeOK, HeldAtStage, NothingLeftRunning,
            Containers, Stages, Early, InTry, At, Then
<1>1. CASE ClosePostgres
  BY <1>1 DEF ClosePostgres
<1>2. CASE CloseNeo4j
  BY <1>2 DEF CloseNeo4j
<1>3. CASE StopNeo4j
  BY <1>3 DEF StopNeo4j
<1>4. CASE StopPostgres
  BY <1>4 DEF StopPostgres
<1>5. CASE ReleaseRaises
  <2>1. EvaluationTypeOK' /\ HeldAtStage'
    BY <1>5 DEF ReleaseRaises
  <2>2. \A c \in Containers : container'[c] = "running" => c \in unreleased'
    BY <1>5 DEF ReleaseRaises
  <2>3. unreleased' = {} => driver' # "open" /\ pg_conn' # "open"
    BY <1>5 DEF ReleaseRaises
  <2> QED
    BY <2>1, <2>2, <2>3
<1> QED
  BY <1>1, <1>2, <1>3, <1>4, <1>5

(***************************************************************************)
(* What run_evaluation holds at each stage, for any fixtures and cases.    *)
(***************************************************************************)
THEOREM EvaluationInvariant == EvaluationSpec => []EvaluationIInv
<1>1. EvaluationInit => EvaluationIInv
  BY EvaluationInitIInv
<1>2. EvaluationIInv /\ [EvaluationNext]_evaluationVars => EvaluationIInv'
  <2>1. ASSUME EvaluationIInv, EvaluationNext PROVE EvaluationIInv'
    BY <2>1, StartsPreserve, TryPreserves, FinallyPreserves DEF EvaluationNext
  <2>2. ASSUME EvaluationIInv, UNCHANGED evaluationVars PROVE EvaluationIInv'
    BY <2>2 DEF evaluationVars, EvaluationIInv, EvaluationTypeOK, HeldAtStage,
                NothingLeftRunning, At
  <2> QED
    BY <2>1, <2>2
<1> QED
  BY <1>1, <1>2, PTL DEF EvaluationSpec

(***************************************************************************)
(* run_evaluation ends with no container running that a failed look-up,    *)
(* close or stop did not leave behind, and no connection open unless such  *)
(* a failure kept it from closing it.                                      *)
(***************************************************************************)
THEOREM EvaluationReleases == EvaluationSpec => []NothingLeftRunning
<1>1. EvaluationIInv => NothingLeftRunning
  BY DEF EvaluationIInv
<1> QED
  BY <1>1, EvaluationInvariant, PTL

-----------------------------------------------------------------------------
\* Identity of the query and operator APIs.

LEMMA AuthInitIInv == AuthInit => AuthIInv
  BY DEF AuthInit, AuthIInv, AuthTypeOK, KeysWerePublished, TokenBeforeKeys,
         GrantedWasVerified, InFetch, NoRequest

\* A request is let in at once only in local mode or by a trusted gateway.
LEMMA EntryGrants ==
  ASSUME settings \in AuthSettings, NEW req \in IncomingRequests
  PROVE  LET entry == IF req.api = "query" THEN QueryEntry(req) ELSE OperatorEntry(req)
         IN  /\ entry \in {"jwt", "granted", "401", "403"}
             /\ entry = "jwt" => req.token \in Tokens
             /\ entry = "granted" => \/ settings.auth_mode = "local"
                                     \/ settings.auth_mode = "header" /\ req.api = "query"
<1>1. /\ settings.auth_mode \in {"oidc", "header", "local"}
      /\ req.api \in {"query", "operator"} /\ req.token \in Tokens \cup {Missing}
  BY AuthenticationConstants DEF IncomingRequests
<1>2. /\ settings.auth_mode = "oidc" => QueryEntry(req) = IF req.token = Missing THEN "401" ELSE "jwt"
      /\ settings.auth_mode = "header" => QueryEntry(req) \in {"granted", "401"}
      /\ settings.auth_mode = "local" => QueryEntry(req) = "granted"
  BY DEF QueryEntry
<1>3. /\ OperatorEntry(req) \in {"jwt", "granted", "401", "403"}
      /\ OperatorEntry(req) = "jwt" => req.token # Missing
      /\ OperatorEntry(req) = "granted" => settings.auth_mode = "local"
  BY DEF OperatorEntry
<1> QED
  BY <1>1, <1>2, <1>3

LEMMA ArrivePreserves ==
  ASSUME AuthIInv, NEW r \in Requests, NEW req \in IncomingRequests, Arrive(r, req)
  PROVE  AuthIInv'
<1> DEFINE entry == IF req.api = "query" THEN QueryEntry(req) ELSE OperatorEntry(req)
<1>1. /\ step[r] = "new" /\ answer[r] = "none"
      /\ request' = [request EXCEPT ![r] = req]
      /\ UNCHANGED <<settings, keys, published, cache, got>>
  BY DEF Arrive, AuthIInv, TokenBeforeKeys
<1>2. /\ entry \in {"jwt", "granted", "401", "403"}
      /\ entry = "jwt" => req.token \in Tokens
      /\ entry = "granted" => \/ settings.auth_mode = "local"
                              \/ settings.auth_mode = "header" /\ req.api = "query"
  BY EntryGrants DEF AuthIInv, AuthTypeOK
<1>3. \/ /\ entry = "jwt"
         /\ step' = [step EXCEPT ![r] = "test"] /\ answer' = answer
      \/ /\ entry # "jwt"
         /\ step' = [step EXCEPT ![r] = "answered"] /\ answer' = [answer EXCEPT ![r] = entry]
  BY DEF Arrive, GoTo, Answer
<1> HIDE DEF entry
<1>4. AuthTypeOK'
  BY <1>1, <1>2, <1>3 DEF AuthIInv, AuthTypeOK, InFetch
<1>5. KeysWerePublished'
  BY <1>1 DEF AuthIInv, KeysWerePublished
<1>6. TokenBeforeKeys'
  BY <1>1, <1>2, <1>3 DEF AuthIInv, AuthTypeOK, TokenBeforeKeys, InFetch, IncomingRequests
<1>7. GrantedWasVerified'
  BY <1>1, <1>2, <1>3 DEF AuthIInv, AuthTypeOK, GrantedWasVerified, IncomingRequests
<1> QED
  BY <1>4, <1>5, <1>6, <1>7 DEF AuthIInv

\* Whatever a thread does in _fetch_jwks, it lets nobody in and keeps the requests.
LEMMA QuietAuthStep ==
  ASSUME AuthIInv, NEW r \in Requests, step[r] \in InFetch,
         UNCHANGED <<settings, request, keys, published>>,
         KeysWerePublished', got' \in [Requests -> SUBSET Kids],
         \/ \E s \in InFetch \cup {"verify"} :
               step' = [step EXCEPT ![r] = s] /\ answer' = answer
         \/ step' = [step EXCEPT ![r] = "answered"] /\ answer' = [answer EXCEPT ![r] = "503"]
  PROVE  AuthIInv'
<1>1. AuthTypeOK'
  BY DEF AuthIInv, AuthTypeOK, InFetch
<1>2. TokenBeforeKeys'
  BY DEF AuthIInv, AuthTypeOK, TokenBeforeKeys, InFetch
<1>3. GrantedWasVerified'
  BY DEF AuthIInv, AuthTypeOK, GrantedWasVerified
<1> QED
  BY <1>1, <1>2, <1>3 DEF AuthIInv

LEMMA AuthStepPreserves ==
  ASSUME AuthIInv, NEW r \in Requests, AuthStep(r)
  PROVE  AuthIInv'
<1>1. CASE TestLock(r) \/ SetLock(r) \/ Enqueued(r) \/ FetchFails(r) \/ Release(r)
  <2>1. /\ step[r] \in InFetch
        /\ UNCHANGED <<settings, request, keys, published, cache, got>>
    BY <1>1 DEF TestLock, SetLock, Enqueued, FetchFails, Release, InFetch
  <2>2. \/ \E s \in InFetch \cup {"verify"} :
              step' = [step EXCEPT ![r] = s] /\ answer' = answer
        \/ step' = [step EXCEPT ![r] = "answered"] /\ answer' = [answer EXCEPT ![r] = "503"]
    BY <1>1 DEF TestLock, SetLock, Enqueued, FetchFails, Release, Outcome, GoTo, Answer, InFetch
  <2>3. KeysWerePublished' /\ got' \in [Requests -> SUBSET Kids]
    BY <2>1 DEF AuthIInv, AuthTypeOK, KeysWerePublished
  <2> QED
    BY <2>1, <2>2, <2>3, QuietAuthStep
<1>2. CASE FetchJwks(r)
  <2>1. /\ step[r] \in InFetch /\ step' = [step EXCEPT ![r] = "release"] /\ answer' = answer
        /\ "release" \in InFetch
        /\ UNCHANGED <<settings, request, keys, published>>
    BY <1>2 DEF FetchJwks, GoTo, InFetch
  <2>2. cache' \subseteq published /\ got' = [got EXCEPT ![r] = cache']
    BY <1>2 DEF FetchJwks, AuthIInv, KeysWerePublished
  <2>3. KeysWerePublished' /\ got' \in [Requests -> SUBSET Kids]
    BY <2>1, <2>2 DEF AuthIInv, AuthTypeOK, KeysWerePublished
  <2> QED
    BY <2>1, <2>3, QuietAuthStep
<1>3. CASE Verify(r)
  <2>1. /\ step[r] = "verify" /\ step' = [step EXCEPT ![r] = "answered"]
        /\ UNCHANGED <<settings, request, keys, published, cache, got>>
    BY <1>3 DEF Verify, Answer
  <2>2. PICK a \in {"granted", "401", "403"} : answer' = [answer EXCEPT ![r] = a]
    BY <1>3 DEF Verify, Answer
  <2>3. answer'[r] = "granted" =>
            /\ request[r].token.kid \in got[r] /\ request[r].token.signed
            /\ request[r].token.tenant # Missing /\ request[r].token.principal # Missing
            /\ request[r].api = "query" \/ HasRole(request[r].token)
    BY <1>3 DEF Verify, Answer, AuthIInv, AuthTypeOK
  <2>4. AuthTypeOK'
    BY <2>1, <2>2 DEF AuthIInv, AuthTypeOK
  <2>5. KeysWerePublished'
    BY <2>1 DEF AuthIInv, KeysWerePublished
  <2>6. TokenBeforeKeys'
    BY <2>1, <2>2 DEF AuthIInv, AuthTypeOK, TokenBeforeKeys, InFetch
  <2>7. GrantedWasVerified'
    <3> SUFFICES ASSUME NEW q \in Requests, answer'[q] = "granted",
                        settings'.auth_mode # "local",
                        request'[q].api = "operator" \/ settings'.auth_mode = "oidc"
                 PROVE  /\ request'[q].token \in Tokens
                        /\ request'[q].token.signed /\ request'[q].token.kid \in published'
                        /\ Missing \notin {request'[q].token.tenant, request'[q].token.principal}
                        /\ request'[q].api = "operator" =>
                              request'[q].token.roles \cap ALLOWED_OPERATOR_ROLES # {}
      BY DEF GrantedWasVerified
    <3>1. CASE q = r
      BY <2>1, <2>3, <3>1 DEF AuthIInv, KeysWerePublished, TokenBeforeKeys, HasRole
    <3>2. CASE q # r
      BY <2>1, <2>2, <3>2 DEF AuthIInv, AuthTypeOK, GrantedWasVerified
    <3> QED
      BY <3>1, <3>2
  <2> QED
    BY <2>4, <2>5, <2>6, <2>7 DEF AuthIInv
<1> QED
  BY <1>1, <1>2, <1>3 DEF AuthStep

\* Keys that are replaced stay published for those who have them.
LEMMA RotatePreserves ==
  ASSUME AuthIInv, NEW k \in Kids, Rotate(k)
  PROVE  AuthIInv'
<1>1. /\ UNCHANGED <<settings, request, step, answer, cache, got>>
      /\ keys' = {k} /\ published' = published \cup {k}
  BY DEF Rotate
<1>2. AuthTypeOK' /\ KeysWerePublished'
  BY <1>1 DEF AuthIInv, AuthTypeOK, KeysWerePublished
<1>3. TokenBeforeKeys' /\ GrantedWasVerified'
  BY <1>1 DEF AuthIInv, TokenBeforeKeys, GrantedWasVerified
<1> QED
  BY <1>2, <1>3 DEF AuthIInv

(***************************************************************************)
(* Wherever a thread has its keys from, the cache or the provider, they    *)
(* were published, and its request is one with a token.                    *)
(***************************************************************************)
THEOREM AuthenticationInvariant == AuthSpec => []AuthIInv
<1>1. AuthInit => AuthIInv
  BY AuthInitIInv
<1>2. AuthIInv /\ [AuthNext]_authVars => AuthIInv'
  <2>1. ASSUME AuthIInv, AuthNext PROVE AuthIInv'
    BY <2>1, ArrivePreserves, AuthStepPreserves, RotatePreserves DEF AuthNext
  <2>2. ASSUME AuthIInv, UNCHANGED authVars PROVE AuthIInv'
    BY <2>2 DEF authVars, AuthIInv, AuthTypeOK, KeysWerePublished, TokenBeforeKeys,
                GrantedWasVerified
  <2> QED
    BY <2>1, <2>2
<1> QED
  BY <1>1, <1>2, PTL DEF AuthSpec

(***************************************************************************)
(* Outside local mode and the trusted gateway, get_identity and            *)
(* _get_operator_identity let in only who showed a token signed with a     *)
(* published key, with tenant, principal and, for the operator API, role.  *)
(***************************************************************************)
THEOREM OnlyVerifiedAreGranted == AuthSpec => []GrantedWasVerified
<1>1. AuthIInv => GrantedWasVerified
  BY DEF AuthIInv
<1> QED
  BY <1>1, AuthenticationInvariant, PTL

-----------------------------------------------------------------------------
\* Review items and user feedback.

LEMMA ReviewInitIInv == ReviewInit => ReviewIInv
  BY DEF ReviewInit, ReviewIInv, ReviewTypeOK, RowsAreIsolated, ChecksStayGood, OneAtATime,
         AnswerIsOwn, Deciding, Idle, Response

\* What the database itself does: no call moves.
LEMMA MakeItemPreserves ==
  ASSUME ReviewIInv, NEW i \in Items, NEW r \in Runs \cup {None}, MakeItem(i, r)
  PROVE  ReviewIInv'
<1>1. /\ i \notin items /\ r \in runs \cup {None} /\ items' = items \cup {i}
      /\ itemRun' = [itemRun EXCEPT ![i] = r]
      /\ origin' = [origin EXCEPT ![i] = IF r = None THEN None ELSE RunTenant[r]]
      /\ UNCHANGED <<runs, decision, decided_by, decided_at, feedback, reviewCall, answered, contended>>
  BY DEF MakeItem
<1>2. ReviewTypeOK'
  BY <1>1 DEF ReviewIInv, ReviewTypeOK
<1>3. RowsAreIsolated'
  BY <1>1 DEF ReviewIInv, ReviewTypeOK, RowsAreIsolated
<1>4. ChecksStayGood'
  BY <1>1 DEF ReviewIInv, ReviewTypeOK, ChecksStayGood
<1>5. OneAtATime' /\ AnswerIsOwn'
  BY <1>1 DEF ReviewIInv, OneAtATime, AnswerIsOwn, Deciding
<1> QED
  BY <1>2, <1>3, <1>4, <1>5 DEF ReviewIInv

LEMMA DeleteRunPreserves ==
  ASSUME ReviewIInv, NEW r \in Runs, DeleteRun(r)
  PROVE  ReviewIInv'
<1>1. /\ runs' = runs \ {r} /\ feedback' \subseteq feedback
      /\ itemRun' = [i \in Items |-> IF itemRun[i] = r THEN None ELSE itemRun[i]]
      /\ UNCHANGED <<items, decision, decided_by, decided_at, origin, reviewCall, answered, contended>>
  BY DEF DeleteRun
<1>2. ReviewTypeOK'
  BY <1>1 DEF ReviewIInv, ReviewTypeOK
<1>3. RowsAreIsolated'
  BY <1>1 DEF ReviewIInv, ReviewTypeOK, RowsAreIsolated
<1>4. ChecksStayGood'
  BY <1>1 DEF ReviewIInv, ChecksStayGood
<1>5. OneAtATime' /\ AnswerIsOwn'
  BY <1>1 DEF ReviewIInv, OneAtATime, AnswerIsOwn, Deciding
<1> QED
  BY <1>2, <1>3, <1>4, <1>5 DEF ReviewIInv

CallType ==
    [kind : {"none", "decision", "feedback"}, op : Operators \cup {None},
     on : Items \cup Runs \cup {None}, decision : Decisions \cup {None},
     at : {"idle", "checked", "committed", "answered"}]

ResponseType == [status : {0, 200, 403, 404, 500}, at : ReviewCalls \cup {None}]

\* Call c becomes q with response a, which is the call's own if it is a success.
EndsAs(c, q, a) ==
    /\ q \in CallType /\ q.at = "answered" /\ a \in ResponseType
    /\ (q.kind = "decision" /\ a.status = 200 /\ q.on \notin contended) => a.at = c
    /\ reviewCall' = [reviewCall EXCEPT ![c] = q]
    /\ answered' = [answered EXCEPT ![c] = a]
    /\ UNCHANGED <<runs, itemVars, contended>>
    /\ feedback' \subseteq [run : Runs, by : Operators]
    /\ \A f \in feedback' : MayAccess(f.by, RunTenant[f.run])

LEMMA CallEnds ==
  ASSUME ReviewIInv, NEW c \in ReviewCalls, NEW q, NEW a, EndsAs(c, q, a)
  PROVE  ReviewIInv'
<1> USE DEF EndsAs
<1>1. ReviewTypeOK'
  BY DEF ReviewIInv, ReviewTypeOK, CallType, ResponseType, itemVars
<1>2. RowsAreIsolated'
  BY DEF ReviewIInv, RowsAreIsolated, itemVars
<1>3. \A d \in ReviewCalls : /\ d # c => reviewCall'[d] = reviewCall[d] /\ answered'[d] = answered[d]
                             /\ d = c => reviewCall'[d] = q /\ answered'[d] = a
  BY DEF ReviewIInv, ReviewTypeOK
<1>4. ChecksStayGood'
  BY <1>3 DEF ReviewIInv, ChecksStayGood, itemVars
<1>5. OneAtATime'
  BY <1>3 DEF ReviewIInv, OneAtATime, Deciding, itemVars
<1>6. AnswerIsOwn'
  BY <1>3 DEF ReviewIInv, AnswerIsOwn, itemVars
<1> QED
  BY <1>1, <1>2, <1>4, <1>5, <1>6 DEF ReviewIInv

\* A call that is answered with what it has read, or after a failure.
LEMMA ReplyEnds ==
  ASSUME ReviewIInv, NEW c \in ReviewCalls, NEW code \in {200, 404, 500},
         NEW at \in ReviewCalls \cup {None}, Reply(c, code, at),
         UNCHANGED <<runs, itemVars, contended>>,
         feedback' \subseteq [run : Runs, by : Operators],
         \A f \in feedback' : MayAccess(f.by, RunTenant[f.run]),
         reviewCall[c].kind = "decision" /\ code = 200 /\ reviewCall[c].on \notin contended => at = c
  PROVE  ReviewIInv'
<1> DEFINE q == [reviewCall[c] EXCEPT !.at = "answered"]
<1>1. /\ q \in CallType /\ q.kind = reviewCall[c].kind /\ q.on = reviewCall[c].on
      /\ q.at = "answered"
  BY DEF ReviewIInv, ReviewTypeOK, CallType
<1>2. reviewCall' = [reviewCall EXCEPT ![c] = q]
  BY DEF Reply
<1>3. /\ answered' = [answered EXCEPT ![c] = Response(code, at)]
      /\ Response(code, at) \in ResponseType
      /\ Response(code, at).status = code /\ Response(code, at).at = at
  BY DEF Reply, Response, ResponseType
<1> HIDE DEF q
<1>4. EndsAs(c, q, Response(code, at))
  BY <1>1, <1>2, <1>3 DEF EndsAs
<1> QED
  BY <1>4, CallEnds

\* A call that is refused.
LEMMA RefuseEnds ==
  ASSUME ReviewIInv, NEW c \in ReviewCalls, NEW kind \in {"decision", "feedback"},
         NEW o \in Operators, NEW on \in Items \cup Runs, NEW d \in Decisions \cup {None},
         NEW code \in {403, 404}, Refuse(c, kind, o, on, d, code),
         UNCHANGED <<runs, itemVars, feedback, contended>>
  PROVE  ReviewIInv'
<1> DEFINE q == [kind |-> kind, op |-> o, on |-> on, decision |-> d, at |-> "answered"]
<1>1. reviewCall' = [reviewCall EXCEPT ![c] = q] /\ q \in CallType /\ q.at = "answered"
  BY DEF Refuse, CallType
<1>2. /\ answered' = [answered EXCEPT ![c] = Response(code, None)]
      /\ Response(code, None) \in ResponseType /\ Response(code, None).status # 200
  BY DEF Refuse, Response, ResponseType
<1>3. /\ feedback' \subseteq [run : Runs, by : Operators]
      /\ \A f \in feedback' : MayAccess(f.by, RunTenant[f.run])
  BY DEF ReviewIInv, ReviewTypeOK, RowsAreIsolated
<1> HIDE DEF q
<1>4. EndsAs(c, q, Response(code, None))
  BY <1>1, <1>2, <1>3 DEF EndsAs
<1> QED
  BY <1>4, CallEnds

\* A call that passes its check.
LEMMA AskPreserves ==
  ASSUME ReviewIInv, NEW c \in ReviewCalls, NEW kind \in {"decision", "feedback"},
         NEW o \in Operators, NEW on \in Items \cup Runs, NEW d \in Decisions \cup {None},
         reviewCall[c].at = "idle", Ask(c, kind, o, on, d),
         UNCHANGED <<runs, itemVars, feedback, answered>>,
         contended \subseteq contended', contended' \subseteq Items,
         \/ /\ kind = "decision" /\ on \in items /\ MayAccess(o, origin[on])
            /\ Deciding(on) # {} => on \in contended'
         \/ kind = "feedback" /\ on \in Runs /\ MayAccess(o, RunTenant[on])
  PROVE  ReviewIInv'
<1> DEFINE q == [kind |-> kind, op |-> o, on |-> on, decision |-> d, at |-> "checked"]
<1>1. reviewCall' = [reviewCall EXCEPT ![c] = q]
  BY DEF Ask
<1>2. ReviewTypeOK'
  BY <1>1 DEF ReviewIInv, ReviewTypeOK, itemVars
<1>3. RowsAreIsolated'
  BY DEF ReviewIInv, RowsAreIsolated, itemVars
<1>4. \A e \in ReviewCalls : /\ e # c => reviewCall'[e] = reviewCall[e]
                             /\ e = c => reviewCall'[e] = q
  BY <1>1 DEF ReviewIInv, ReviewTypeOK
<1>5. /\ q.kind = kind /\ q.op = o /\ q.on = on /\ q.at = "checked"
  OBVIOUS
<1> HIDE DEF q
<1>6. ChecksStayGood'
  BY <1>4, <1>5 DEF ReviewIInv, ChecksStayGood, itemVars
<1>7. OneAtATime'
  <2>1. ASSUME NEW i \in Items \ contended', NEW e \in Deciding(i)', NEW f \in Deciding(i)'
        PROVE  e = f
    <3>1. i \in Items \ contended
      OBVIOUS
    <3>2. \A g \in Deciding(i)' : g \in Deciding(i) \/ (g = c /\ kind = "decision" /\ i = on)
      BY <1>4, <1>5 DEF Deciding
    <3>3. (kind = "decision" /\ i = on) => Deciding(i) = {}
      BY <2>1
    <3> QED
      BY <2>1, <3>1, <3>2, <3>3 DEF ReviewIInv, OneAtATime
  <2>2. \A e \in ReviewCalls :
           (/\ reviewCall'[e].kind = "decision" /\ reviewCall'[e].at = "committed"
            /\ reviewCall'[e].on \notin contended') => decided_at'[reviewCall'[e].on] = e
    BY <1>4, <1>5 DEF ReviewIInv, OneAtATime, itemVars
  <2>3. \A e \in ReviewCalls : reviewCall'[e].at # "answered" => answered'[e].status = 0
    BY <1>4 DEF ReviewIInv, OneAtATime
  <2> QED
    BY <2>1, <2>2, <2>3 DEF OneAtATime
<1>8. AnswerIsOwn'
  BY <1>4, <1>5 DEF ReviewIInv, AnswerIsOwn, OneAtATime
<1> QED
  BY <1>2, <1>3, <1>6, <1>7, <1>8 DEF ReviewIInv

LEMMA CheckDecisionPreserves ==
  ASSUME ReviewIInv, NEW c \in ReviewCalls, NEW o \in Operators, NEW i \in Items,
         NEW d \in Decisions, CheckDecision(c, o, i, d)
  PROVE  ReviewIInv'
<1>1. reviewCall[c].at = "idle" /\ UNCHANGED <<runs, itemVars, feedback>>
  BY DEF CheckDecision
<1>2. ASSUME NEW code \in {403, 404}, Refuse(c, "decision", o, i, d, code), UNCHANGED contended
      PROVE  ReviewIInv'
  BY <1>1, <1>2, RefuseEnds
<1>3. ASSUME i \in items, MayDecide(o, i), Ask(c, "decision", o, i, d), UNCHANGED answered,
             contended' = IF Deciding(i) = {} THEN contended ELSE contended \cup {i}
      PROVE  ReviewIInv'
  <2>1. MayAccess(o, origin[i])
    BY <1>3 DEF MayDecide, MayAccess, ItemTenant, ReviewIInv, RowsAreIsolated
  <2>2. /\ contended \subseteq contended' /\ contended' \subseteq Items
        /\ Deciding(i) # {} => i \in contended'
    BY <1>3 DEF ReviewIInv, ReviewTypeOK
  <2> QED
    BY <1>1, <1>3, <2>1, <2>2, AskPreserves
<1> QED
  BY <1>2, <1>3 DEF CheckDecision

LEMMA CheckFeedbackPreserves ==
  ASSUME ReviewIInv, NEW c \in ReviewCalls, NEW o \in Operators, NEW r \in Runs,
         CheckFeedback(c, o, r)
  PROVE  ReviewIInv'
<1>1. reviewCall[c].at = "idle" /\ UNCHANGED <<runs, itemVars, feedback, contended>>
  BY DEF CheckFeedback
<1>2. ASSUME NEW code \in {403, 404}, Refuse(c, "feedback", o, r, None, code)
      PROVE  ReviewIInv'
  BY <1>1, <1>2, RefuseEnds
<1>3. ASSUME r \in runs, MayAccess(o, RunTenant[r]), Ask(c, "feedback", o, r, None), UNCHANGED answered
      PROVE  ReviewIInv'
  <2>1. contended \subseteq contended' /\ contended' \subseteq Items
    BY <1>1 DEF ReviewIInv, ReviewTypeOK
  <2> QED
    BY <1>1, <1>3, <2>1, AskPreserves
<1> QED
  BY <1>2, <1>3 DEF CheckFeedback

LEMMA CommitDecisionPreserves ==
  ASSUME ReviewIInv, NEW c \in ReviewCalls, CommitDecision(c)
  PROVE  ReviewIInv'
<1> DEFINE q == reviewCall[c]
           p == [q EXCEPT !.at = "committed"]
<1>1. /\ q.kind = "decision" /\ q.at = "checked"
      /\ decision' = [decision EXCEPT ![q.on] = q.decision]
      /\ decided_by' = [decided_by EXCEPT ![q.on] = q.op]
      /\ decided_at' = [decided_at EXCEPT ![q.on] = c]
      /\ reviewCall' = [reviewCall EXCEPT ![c] = p]
      /\ UNCHANGED <<runs, items, itemRun, origin, feedback, answered, contended>>
  BY DEF CommitDecision
<1>2. /\ q.on \in items /\ q.op \in Operators /\ MayAccess(q.op, origin[q.on])
      /\ c \in Deciding(q.on) /\ q.decision \in Decisions \cup {None}
  BY <1>1 DEF ReviewIInv, ReviewTypeOK, ChecksStayGood, Deciding
<1>3. /\ p \in CallType /\ p.kind = "decision" /\ p.at = "committed" /\ p.on = q.on /\ p.op = q.op
  BY <1>1 DEF ReviewIInv, ReviewTypeOK, CallType
<1>4. \A e \in ReviewCalls : /\ e # c => reviewCall'[e] = reviewCall[e]
                             /\ e = c => reviewCall'[e] = p
  BY <1>1 DEF ReviewIInv, ReviewTypeOK
<1> HIDE DEF p
<1>5. ReviewTypeOK'
  BY <1>1, <1>2, <1>3 DEF ReviewIInv, ReviewTypeOK, CallType
<1>6. RowsAreIsolated'
  BY <1>1, <1>2 DEF ReviewIInv, ReviewTypeOK, RowsAreIsolated
<1>7. ChecksStayGood'
  BY <1>1, <1>2, <1>3, <1>4 DEF ReviewIInv, ChecksStayGood
<1>8. OneAtATime'
  <2>1. \A i \in Items : Deciding(i)' = Deciding(i)
    BY <1>1, <1>3, <1>4 DEF Deciding
  <2>2. ASSUME NEW e \in ReviewCalls, reviewCall'[e].kind = "decision",
               reviewCall'[e].at = "committed", reviewCall'[e].on \notin contended'
        PROVE  decided_at'[reviewCall'[e].on] = e
    <3>1. CASE e = c
      BY <1>1, <1>2, <1>3, <1>4, <3>1 DEF ReviewIInv, ReviewTypeOK
    <3>2. CASE e # c
      <4>1. reviewCall'[e] = reviewCall[e]
        BY <1>4, <3>2
      <4>2. reviewCall[e].on # q.on
        BY <1>1, <1>2, <2>2, <3>2, <4>1 DEF ReviewIInv, ReviewTypeOK, OneAtATime, Deciding
      <4> QED
        BY <1>1, <2>2, <4>1, <4>2 DEF ReviewIInv, ReviewTypeOK, OneAtATime, ChecksStayGood
    <3> QED
      BY <3>1, <3>2
  <2>3. \A e \in ReviewCalls : reviewCall'[e].at # "answered" => answered'[e].status = 0
    BY <1>1, <1>4 DEF ReviewIInv, OneAtATime
  <2> QED
    BY <1>1, <2>1, <2>2, <2>3 DEF ReviewIInv, OneAtATime
<1>9. AnswerIsOwn'
  BY <1>1, <1>3, <1>4 DEF ReviewIInv, AnswerIsOwn, OneAtATime
<1> QED
  BY <1>5, <1>6, <1>7, <1>8, <1>9 DEF ReviewIInv

LEMMA CallStepPreserves ==
  ASSUME ReviewIInv, NEW c \in ReviewCalls,
         AnswerDecision(c) \/ CommitFeedback(c) \/ FailCall(c)
  PROVE  ReviewIInv'
<1>1. /\ feedback \subseteq [run : Runs, by : Operators]
      /\ \A f \in feedback : MayAccess(f.by, RunTenant[f.run])
  BY DEF ReviewIInv, ReviewTypeOK, RowsAreIsolated
<1>2. CASE AnswerDecision(c)
  <2> DEFINE at == decided_at[reviewCall[c].on]
  <2>1. /\ reviewCall[c].at = "committed" /\ Reply(c, IF at = None THEN 404 ELSE 200, at)
        /\ UNCHANGED <<runs, itemVars, contended>> /\ UNCHANGED feedback
    BY <1>2 DEF AnswerDecision
  <2>2. reviewCall[c].kind = "decision" /\ reviewCall[c].on \in items
    BY <2>1 DEF ReviewIInv, ChecksStayGood
  <2>3. at \in ReviewCalls \cup {None}
    BY <2>2 DEF ReviewIInv, ReviewTypeOK
  <2>4. reviewCall[c].on \notin contended => at = c
    BY <2>1, <2>2 DEF ReviewIInv, OneAtATime
  <2> HIDE DEF at
  <2>5. CASE at = None
    BY <1>1, <2>1, <2>3, <2>4, <2>5, ReplyEnds
  <2>6. CASE at # None
    BY <1>1, <2>1, <2>3, <2>4, <2>6, ReplyEnds
  <2> QED
    BY <2>5, <2>6
<1>3. CASE CommitFeedback(c)
  <2> DEFINE q == reviewCall[c]
  <2>1. q.kind = "feedback" /\ q.at = "checked" /\ UNCHANGED <<runs, itemVars, contended>>
    BY <1>3 DEF CommitFeedback
  <2>2. q.on \in Runs /\ q.op \in Operators /\ MayAccess(q.op, RunTenant[q.on])
    BY <2>1 DEF ReviewIInv, ChecksStayGood
  <2>3. CASE q.on \in runs
    <3>1. feedback' = feedback \cup {[run |-> q.on, by |-> q.op]} /\ Reply(c, 200, c)
      BY <1>3, <2>3 DEF CommitFeedback
    <3>2. /\ feedback' \subseteq [run : Runs, by : Operators]
          /\ \A f \in feedback' : MayAccess(f.by, RunTenant[f.run])
      BY <1>1, <2>2, <3>1
    <3> QED
      BY <2>1, <3>1, <3>2, ReplyEnds
  <2>4. CASE q.on \notin runs
    <3>1. Reply(c, 500, None) /\ UNCHANGED feedback
      BY <1>3, <2>4 DEF CommitFeedback
    <3> QED
      BY <1>1, <2>1, <3>1, ReplyEnds
  <2> QED
    BY <2>3, <2>4
<1>4. CASE FailCall(c)
  <2>1. Reply(c, 500, None) /\ UNCHANGED <<runs, itemVars, contended>> /\ UNCHANGED feedback
    BY <1>4 DEF FailCall
  <2> QED
    BY <1>1, <2>1, ReplyEnds
<1> QED
  BY <1>2, <1>3, <1>4

(***************************************************************************)
(* Between the check of submit_review_decision or submit_feedback and its  *)
(* write the check stays good, whatever other calls write and whichever    *)
(* runs are deleted.                                                       *)
(***************************************************************************)
THEOREM ReviewInvariant == ReviewSpec => []ReviewIInv
<1>1. ReviewInit => ReviewIInv
  BY ReviewInitIInv
<1>2. ReviewIInv /\ [ReviewNext]_reviewVars => ReviewIInv'
  <2>1. ASSUME ReviewIInv, ReviewNext PROVE ReviewIInv'
    BY <2>1, MakeItemPreserves, DeleteRunPreserves, CheckDecisionPreserves,
       CheckFeedbackPreserves, CommitDecisionPreserves, CallStepPreserves DEF ReviewNext
  <2>2. ASSUME ReviewIInv, UNCHANGED reviewVars PROVE ReviewIInv'
    BY <2>2 DEF reviewVars, itemVars, ReviewIInv, ReviewTypeOK, RowsAreIsolated, ChecksStayGood,
                OneAtATime, AnswerIsOwn, Deciding
  <2> QED
    BY <2>1, <2>2
<1> QED
  BY <1>1, <1>2, PTL DEF ReviewSpec

(***************************************************************************)
(* The operator API writes and shows to an operator who is not global only *)
(* what belongs to runs of his tenant.                                     *)
(***************************************************************************)
THEOREM TenantsAreIsolated == ReviewSpec => []TenantIsolation
<1>1. ReviewIInv => TenantIsolation
  <2> SUFFICES ASSUME ReviewIInv PROVE TenantIsolation
    OBVIOUS
  <2>1. /\ \A i \in items : decision[i] # None => MayAccess(decided_by[i], origin[i])
        /\ \A f \in feedback : MayAccess(f.by, RunTenant[f.run])
    BY DEF ReviewIInv, RowsAreIsolated
  <2>2. ASSUME NEW o \in Operators, NEW i \in ReviewQueue(o) PROVE MayAccess(o, origin[i])
    <3>1. i \in Items /\ (o \in Global \/ ItemTenant(i) = Tenant[o]) /\ Tenant[o] # None
      BY <2>2, ReviewConstants DEF ReviewQueue, ReviewIInv, ReviewTypeOK
    <3> QED
      BY <3>1 DEF ItemTenant, MayAccess, ReviewIInv, RowsAreIsolated
  <2>3. ASSUME NEW o \in Operators, NEW r \in Runs,
               \/ ExecutionSummary(o, r)
               \/ \E limit \in 1..Cardinality(Runs) : r \in RecentExecutions(o, limit)
        PROVE  MayAccess(o, RunTenant[r])
    BY <2>3 DEF ExecutionSummary, RecentExecutions
  <2> QED
    BY <2>1, <2>2, <2>3 DEF TenantIsolation
<1> QED
  BY <1>1, ReviewInvariant, PTL

(***************************************************************************)
(* submit_review_decision answers with the decided_at of its own UPDATE    *)
(* unless another call on the item overlapped it.                          *)
(***************************************************************************)
THEOREM DecisionsAnswerTheirOwn == ReviewSpec => []AnswerIsOwn
<1>1. ReviewIInv => AnswerIsOwn
  BY DEF ReviewIInv
<1> QED
  BY <1>1, ReviewInvariant, PTL

-----------------------------------------------------------------------------
\* Improvement proposals.

\* Targets are reached only from the states the table names.
LEMMA Predecessors ==
  ASSUME NEW s \in PROPOSAL_STATES, NEW t \in VALID_TRANSITIONS(s)
  PROVE  /\ t \in PROPOSAL_STATES \ {"PROPOSED"}
         /\ t # "EVALUATED" => s # "PROPOSED"
         /\ t \notin {"EVALUATED", "APPROVED"} => s \in {"APPROVED", "CANARY"}
  BY DEF VALID_TRANSITIONS, PROPOSAL_STATES

LEMMA InitIInv == Init => IInv
  BY ProposalConstants
  DEF Init, IInv, TypeOK, NoBypass, CallsAreGrounded, PROPOSAL_STATES

LEMMA CreateStep ==
  ASSUME IInv, NEW p \in Ids, NEW o \in Operators, CreateProposal(p, o)
  PROVE  IInv'
  BY DEF IInv, TypeOK, NoBypass, CallsAreGrounded, CreateProposal

LEMMA FinishStep ==
  ASSUME IInv, NEW e \in EvalRuns, NEW s \in {"completed", "failed"}, FinishEvaluation(e, s)
  PROVE  IInv'
<1>1. UNCHANGED <<tenant, status, eval_run_id, approver, deployed, rolled_back, call, approvedRun,
               raced>>
  BY DEF FinishEvaluation, rowVars
<1>2. \A r \in EvalRuns : evalStatus[r] = "completed" => evalStatus'[r] = "completed"
  BY DEF FinishEvaluation, IInv, TypeOK
<1>3. TypeOK'
  BY <1>1 DEF FinishEvaluation, IInv, TypeOK
<1>4. NoBypass'
  BY <1>1, <1>2 DEF IInv, TypeOK, NoBypass
<1>5. CallsAreGrounded'
  BY <1>1, <1>2 DEF IInv, TypeOK, CallsAreGrounded, Pending
<1> QED
  BY <1>3, <1>4, <1>5 DEF IInv

LEMMA CheckStep ==
  ASSUME IInv, NEW c \in Calls, NEW p \in Ids, NEW o \in Operators,
         NEW t \in PROPOSAL_STATES, NEW e \in EvalRuns \cup {None}, Check(c, p, o, t, e)
  PROVE  IInv'
<1> DEFINE r == [id |-> p, op |-> o, target |-> t, eval |-> e, saw |-> eval_run_id[p]]
<1>1. /\ UNCHANGED <<tenant, status, eval_run_id, approver, deployed, rolled_back,
                     evalStatus, approvedRun>>
      /\ call' = [call EXCEPT ![c] = r]
      /\ raced' \in {raced, raced \cup {p}}
  BY DEF Check, rowVars
<1>2. r \in Pending
  BY DEF Pending, IInv, TypeOK
<1>3. TypeOK'
  BY <1>1, <1>2 DEF IInv, TypeOK
<1>4. /\ status[p] \in PROPOSAL_STATES
      /\ t \in VALID_TRANSITIONS(status[p])
      /\ t = "EVALUATED" => e # None /\ evalStatus[e] = "completed"
  BY DEF Check, Guard, IInv, TypeOK
<1>5. /\ t # "PROPOSED"
      /\ t # "EVALUATED" => eval_run_id[p] # None /\ evalStatus[eval_run_id[p]] = "completed"
      /\ t \notin {"EVALUATED", "APPROVED"} => approver[p] # None
  BY <1>4, Predecessors DEF IInv, NoBypass
<1>6. /\ call'[c] = r
      /\ \A d \in Calls \ {c} : call'[d] = call[d]
  BY <1>1 DEF IInv, TypeOK
<1>7. CallsAreGrounded'
  <2> SUFFICES ASSUME NEW d \in Calls, call'[d] # None
               PROVE  LET q == call'[d].id IN
                      /\ call'[d].target # "PROPOSED"
                      /\ call'[d].target = "EVALUATED" =>
                           call'[d].eval # None /\ evalStatus[call'[d].eval] = "completed"
                      /\ call'[d].target # "EVALUATED" =>
                           eval_run_id[q] # None /\ evalStatus[eval_run_id[q]] = "completed"
                      /\ call'[d].target \notin {"EVALUATED", "APPROVED"} => approver[q] # None
    BY <1>1 DEF CallsAreGrounded
  <2>1. CASE d = c
    BY <1>4, <1>5, <1>6, <2>1
  <2>2. CASE d # c
    BY <1>6, <2>2 DEF IInv, CallsAreGrounded
  <2> QED
    BY <2>1, <2>2
<1>8. NoBypass'
  BY <1>1 DEF IInv, NoBypass
<1> QED
  BY <1>3, <1>7, <1>8 DEF IInv

LEMMA AbortStep ==
  ASSUME IInv, NEW c \in Calls, Abort(c)
  PROVE  IInv'
<1>1. UNCHANGED <<tenant, status, eval_run_id, approver, deployed, rolled_back,
                  evalStatus, approvedRun, raced>>
  BY DEF Abort, rowVars
<1>2. \A d \in Calls : call'[d] \in {call[d], None}
  BY DEF Abort, IInv, TypeOK
<1>3. TypeOK'
  BY <1>1 DEF IInv, TypeOK, Abort
<1>4. NoBypass' /\ CallsAreGrounded'
  BY <1>1, <1>2 DEF IInv, NoBypass, CallsAreGrounded
<1> QED
  BY <1>3, <1>4 DEF IInv

(***************************************************************************)
(* The commit writes over whatever is there.  It may move the status back, *)
(* but evaluation and approver are never taken away.                       *)
(***************************************************************************)
LEMMA CommitStep ==
  ASSUME IInv, NEW c \in Calls, Commit(c)
  PROVE  IInv'
<1> DEFINE r == call[c]
<1>1. r \in Pending /\ r # None
  BY DEF Commit, IInv, TypeOK
<1>2. /\ r.id \in Ids /\ r.op \in Operators /\ r.target \in PROPOSAL_STATES
      /\ r.eval \in EvalRuns \cup {None} /\ r.saw \in EvalRuns \cup {None}
  BY <1>1 DEF Pending
<1>3. /\ r.target # "PROPOSED"
      /\ r.target = "EVALUATED" => r.eval # None /\ evalStatus[r.eval] = "completed"
      /\ r.target # "EVALUATED" =>
           eval_run_id[r.id] # None /\ evalStatus[eval_run_id[r.id]] = "completed"
      /\ r.target \notin {"EVALUATED", "APPROVED"} => approver[r.id] # None
  BY <1>1 DEF IInv, CallsAreGrounded
<1>4. UNCHANGED <<tenant, evalStatus>> /\ \A d \in Calls : call'[d] \in {call[d], None}
  BY DEF Commit, IInv, TypeOK
<1>5. /\ status'[r.id] = r.target
      /\ \A p \in Ids \ {r.id} : status'[p] = status[p]
  BY <1>2 DEF Commit, IInv, TypeOK
<1>6. \A p \in Ids : \/ eval_run_id'[p] = eval_run_id[p]
                     \/ eval_run_id'[p] # None /\ evalStatus[eval_run_id'[p]] = "completed"
  BY <1>2, <1>3 DEF Commit, IInv, TypeOK
<1>7. \A p \in Ids : approver'[p] = approver[p] \/ approver'[p] # None
  BY <1>2, ProposalConstants DEF Commit, IInv, TypeOK
<1>8. /\ eval_run_id'[r.id] # None /\ evalStatus[eval_run_id'[r.id]] = "completed"
      /\ r.target # "EVALUATED" => approver'[r.id] # None
  <2>1. CASE r.target = "EVALUATED"
    BY <1>2, <1>3, <2>1 DEF Commit, IInv, TypeOK
  <2>2. CASE r.target = "APPROVED"
    BY <1>2, <1>3, <2>2, ProposalConstants DEF Commit, IInv, TypeOK
  <2>3. CASE r.target \notin {"EVALUATED", "APPROVED"}
    BY <1>2, <1>3, <2>3 DEF Commit, IInv, TypeOK
  <2> QED
    BY <2>1, <2>2, <2>3
<1>9. TypeOK'
  BY <1>2 DEF Commit, IInv, TypeOK
<1>10. NoBypass'
  <2> SUFFICES ASSUME NEW p \in Ids
               PROVE  /\ status'[p] # "PROPOSED" =>
                           eval_run_id'[p] # None /\ evalStatus[eval_run_id'[p]] = "completed"
                      /\ status'[p] \in {"APPROVED", "CANARY", "PROMOTED", "ROLLED_BACK"} =>
                           approver'[p] # None
    BY <1>4 DEF NoBypass
  <2>1. CASE p = r.id
    BY <1>5, <1>8, <2>1
  <2>2. CASE p # r.id
    BY <1>5, <1>6, <1>7, <2>2 DEF IInv, NoBypass
  <2> QED
    BY <2>1, <2>2
<1>11. CallsAreGrounded'
  <2> SUFFICES ASSUME NEW d \in Calls, call'[d] # None
               PROVE  LET q == call'[d].id IN
                      /\ call'[d].target # "PROPOSED"
                      /\ call'[d].target = "EVALUATED" =>
                           call'[d].eval # None /\ evalStatus[call'[d].eval] = "completed"
                      /\ call'[d].target # "EVALUATED" =>
                           eval_run_id'[q] # None /\ evalStatus[eval_run_id'[q]] = "completed"
                      /\ call'[d].target \notin {"EVALUATED", "APPROVED"} => approver'[q] # None
    BY <1>4 DEF CallsAreGrounded
  <2>1. call'[d] = call[d] /\ call[d].id \in Ids
    BY <1>4 DEF IInv, TypeOK, Pending
  <2> QED
    BY <1>6, <1>7, <2>1 DEF IInv, CallsAreGrounded
<1> QED
  BY <1>9, <1>10, <1>11 DEF IInv

(***************************************************************************)
(* IInv is an invariant of the proposal API under any interleaving.        *)
(***************************************************************************)
THEOREM ProposalInvariant == Spec => []IInv
<1>1. IInv /\ UNCHANGED vars => IInv'
  BY DEF vars, rowVars, IInv, TypeOK, NoBypass, CallsAreGrounded
<1>2. IInv /\ [Next]_vars => IInv'
  BY <1>1, CreateStep, FinishStep, CheckStep, CommitStep, AbortStep DEF Next
<1> QED
  BY InitIInv, <1>2, PTL DEF Spec

(***************************************************************************)
(* plan.md: no proposal can bypass offline evaluation or approval.         *)
(***************************************************************************)
THEOREM EvaluationAndApprovalFirst == Spec => []NoBypass
  BY ProposalInvariant, PTL DEF IInv

-----------------------------------------------------------------------------
\* Without overlapping calls.

LEMMA InitFresh == Init => FreshWithoutRaces
  BY DEF Init, FreshWithoutRaces

\* A step that leaves the columns alone and starts no call.
LEMMA QuietFresh ==
  ASSUME FreshWithoutRaces,
         UNCHANGED <<status, eval_run_id, deployed, rolled_back, approvedRun, raced>>,
         \A d \in Calls : call'[d] \in {call[d], None}
  PROVE  FreshWithoutRaces'
  BY DEF FreshWithoutRaces

LEMMA CheckFresh ==
  ASSUME IInv, FreshWithoutRaces, NEW c \in Calls, NEW p \in Ids, NEW o \in Operators,
         NEW t \in PROPOSAL_STATES, NEW e \in EvalRuns \cup {None}, Check(c, p, o, t, e)
  PROVE  FreshWithoutRaces'
<1> DEFINE r == [id |-> p, op |-> o, target |-> t, eval |-> e, saw |-> eval_run_id[p]]
<1>1. UNCHANGED <<status, eval_run_id, deployed, rolled_back, approvedRun>>
  BY DEF Check, rowVars
<1>2. call'[c] = r /\ \A d \in Calls \ {c} : call'[d] = call[d]
  BY DEF Check, IInv, TypeOK
<1>3. t \in VALID_TRANSITIONS(status[p])
  BY DEF Check
<1>4. raced \subseteq raced'
  BY DEF Check
<1>5. p \notin raced' => \A d \in Calls : call[d] = None \/ call[d].id # p
  BY DEF Check
<1> SUFFICES ASSUME NEW q \in Ids \ raced'
             PROVE  /\ \A b, d \in Calls :
                          (call'[b] # None /\ call'[d] # None /\ call'[b].id = q /\ call'[d].id = q)
                          => b = d
                    /\ \A d \in Calls : (call'[d] # None /\ call'[d].id = q) =>
                          /\ call'[d].target \in VALID_TRANSITIONS(status[q])
                          /\ call'[d].saw = eval_run_id[q]
  BY <1>1, <1>4 DEF FreshWithoutRaces
<1>6. CASE q = p
  BY <1>2, <1>3, <1>5, <1>6
<1>7. CASE q # p
  BY <1>2, <1>4, <1>7 DEF FreshWithoutRaces
<1> QED
  BY <1>6, <1>7

LEMMA CommitFresh ==
  ASSUME IInv, FreshWithoutRaces, NEW c \in Calls, Commit(c)
  PROVE  FreshWithoutRaces'
<1> DEFINE r == call[c]
<1>1. r # None /\ r.id \in Ids
  BY DEF Commit, IInv, TypeOK, Pending
<1>2. raced' = raced /\ call'[c] = None /\ \A d \in Calls \ {c} : call'[d] = call[d]
  BY DEF Commit, IInv, TypeOK
<1>3. \A p \in Ids \ {r.id} :
        /\ status'[p] = status[p] /\ eval_run_id'[p] = eval_run_id[p]
        /\ deployed'[p] = deployed[p] /\ rolled_back'[p] = rolled_back[p]
        /\ approvedRun'[p] = approvedRun[p]
  BY <1>1 DEF Commit, IInv, TypeOK
<1>4. /\ status'[r.id] = r.target
      /\ eval_run_id'[r.id] = IF r.target = "EVALUATED" THEN r.eval ELSE eval_run_id[r.id]
      /\ approvedRun'[r.id] = IF r.target = "APPROVED" THEN r.saw ELSE approvedRun[r.id]
      /\ deployed'[r.id] => r.target = "PROMOTED" \/ deployed[r.id]
      /\ rolled_back'[r.id] => r.target = "ROLLED_BACK" \/ rolled_back[r.id]
  BY <1>1 DEF Commit, IInv, TypeOK
<1> SUFFICES ASSUME NEW p \in Ids \ raced
             PROVE  /\ \A b, d \in Calls :
                          (call'[b] # None /\ call'[d] # None /\ call'[b].id = p /\ call'[d].id = p)
                          => b = d
                    /\ \A d \in Calls : (call'[d] # None /\ call'[d].id = p) =>
                          /\ call'[d].target \in VALID_TRANSITIONS(status'[p])
                          /\ call'[d].saw = eval_run_id'[p]
                    /\ deployed'[p] => status'[p] = "PROMOTED"
                    /\ rolled_back'[p] => status'[p] = "ROLLED_BACK"
                    /\ status'[p] \in {"APPROVED", "CANARY", "PROMOTED", "ROLLED_BACK"} =>
                          approvedRun'[p] = eval_run_id'[p]
  BY <1>2 DEF FreshWithoutRaces
<1>5. CASE p # r.id
  BY <1>2, <1>3, <1>5 DEF FreshWithoutRaces
<1>6. CASE p = r.id
  <2>1. r.target \in VALID_TRANSITIONS(status[p]) /\ r.saw = eval_run_id[p]
    BY <1>1, <1>6 DEF FreshWithoutRaces
  <2>2. status[p] \in PROPOSAL_STATES
    BY DEF IInv, TypeOK
  <2>3. status[p] \notin {"PROMOTED", "ROLLED_BACK"} /\ ~deployed[p] /\ ~rolled_back[p]
    BY <2>1 DEF FreshWithoutRaces, VALID_TRANSITIONS
  <2>4. \A d \in Calls : call'[d] = None \/ call'[d].id # p
    BY <1>1, <1>2, <1>6 DEF FreshWithoutRaces
  <2>5. r.target \in {"CANARY", "PROMOTED", "ROLLED_BACK"} => approvedRun[p] = eval_run_id[p]
    BY <2>1, <2>2, Predecessors DEF FreshWithoutRaces
  <2>6. status'[p] \in {"APPROVED", "CANARY", "PROMOTED", "ROLLED_BACK"} =>
          approvedRun'[p] = eval_run_id'[p]
    BY <1>4, <1>6, <2>1, <2>5
  <2> QED
    BY <1>4, <1>6, <2>3, <2>4, <2>6
<1> QED
  BY <1>5, <1>6

(***************************************************************************)
(* A proposal on which calls never overlapped has at most one outcome, and *)
(* is in canary with the evaluation its approver saw.                      *)
(***************************************************************************)
THEOREM SequentialCallsAreSound == Spec => []SoundWithoutRaces
<1>1. FreshWithoutRaces => SoundWithoutRaces
  BY DEF FreshWithoutRaces, SoundWithoutRaces
<1>2. ASSUME IInv, FreshWithoutRaces, [Next]_vars
      PROVE  FreshWithoutRaces'
  <2>1. ASSUME NEW p \in Ids, NEW o \in Operators, CreateProposal(p, o)
        PROVE  FreshWithoutRaces'
    BY <1>2, <2>1, QuietFresh DEF CreateProposal
  <2>2. ASSUME NEW e \in EvalRuns, NEW s \in {"completed", "failed"}, FinishEvaluation(e, s)
        PROVE  FreshWithoutRaces'
    BY <1>2, <2>2, QuietFresh DEF FinishEvaluation, rowVars
  <2>3. ASSUME NEW c \in Calls, Abort(c)
        PROVE  FreshWithoutRaces'
    <3>1. \A d \in Calls : call'[d] \in {call[d], None}
      BY <1>2, <2>3 DEF Abort, IInv, TypeOK
    <3> QED
      BY <1>2, <2>3, <3>1, QuietFresh DEF Abort, rowVars
  <2>4. CASE UNCHANGED vars
    BY <1>2, <2>4, QuietFresh DEF vars, rowVars
  <2> QED
    BY <1>2, <2>1, <2>2, <2>3, <2>4, CheckFresh, CommitFresh DEF Next
<1> QED
  BY ProposalInvariant, InitFresh, <1>1, <1>2, PTL DEF Spec
=============================================================================
