----------------------------- MODULE Answering -----------------------------
(***************************************************************************)
(* From evidence to response: the attempts of the query workflow with what *)
(* the answer generator makes of the model's output, what the claim        *)
(* validator makes of that, and how the workflow routes.                   *)
(*                                                                         *)
(* The order of claims and their wording are left out: a claim is what the *)
(* model said of it, and a citation is a claim with one evidence id.       *)
(***************************************************************************)
EXTENDS Naturals, QueryResponses

CONSTANTS
    Ids,         \* evidence ids; a made-up id is one that was not retrieved
    MaxClaims,   \* bound on the claims of one output
    MaxRetries,  \* QueryWorkflowState.max_retries, 1 in the code
    None

SupportStatuses == {"supported", "partially_supported", "unsupported"}
Supporting == {"supported", "partially_supported"}

\* _ClaimOutput and _ResponseOutput; "other" is any other support_status.
ClaimOutputs == [factual : BOOLEAN, support : SupportStatuses \cup {"other"}, ids : SUBSET Ids]
ClaimSets == {{f[i] : i \in 1..n} : n \in 0..MaxClaims, f \in [1..MaxClaims -> ClaimOutputs]}
AnswerTexts == {"text", "blank", "empty"}

\* A claim of a response is the claim it came from, with checked ids and status.
Claims == [factual : BOOLEAN, support : SupportStatuses, ids : SUBSET Ids]
FullResponses == [status : ResponseStatuses, answer : BOOLEAN, claims : SUBSET Claims,
                  citations : SUBSET [claim : Claims, id : Ids]]

ASSUME AnsweringConstants ==
    /\ MaxClaims \in Nat
    /\ MaxRetries \in Nat
    /\ None \notin FullResponses

VARIABLES stage, evidence, response, error, retries

vars == <<stage, evidence, response, error, retries>>

Refuse(status) == [status |-> status, answer |-> FALSE, claims |-> {}, citations |-> {}]

-----------------------------------------------------------------------------
\* EvidenceOnlyAnswerGenerator._build_response

Mapped(c, E) == c.ids \cap E

\* Fail closed: support by nothing that was retrieved is no support.
Support(c, E) ==
    IF c.support \notin SupportStatuses \/ (c.support \in Supporting /\ Mapped(c, E) = {})
    THEN "unsupported"
    ELSE c.support

Checked(c, E) == [factual |-> c.factual, support |-> Support(c, E), ids |-> Mapped(c, E)]

\* AnswerClaim refuses evidence for an unsupported claim, which is skipped then.
IsClaim(c) == c.support = "unsupported" <=> c.ids = {}

KeptClaims(claims, E) == {c \in {Checked(d, E) : d \in claims} : IsClaim(c)}

CitationsOf(claims) == UNION {{[claim |-> c, id |-> i] : i \in c.ids} : c \in claims}

HasSupport(claims) == \E c \in claims : c.support \in Supporting

\* Variant: an answer needs no supported claim.
BuildUnchecked(answer, claims, E) ==
    LET kept == KeptClaims(claims, E)
    IN  [status |-> IF answer = "text" THEN "answered" ELSE "insufficient_evidence",
         answer |-> answer = "text",
         claims |-> kept, citations |-> CitationsOf(kept)]

BuildResponse(answer, claims, E) ==
    LET kept == KeptClaims(claims, E)
    IN  IF answer = "text" /\ ~HasSupport(kept)
        THEN Refuse("insufficient_evidence")
        ELSE [status |-> IF answer = "text" THEN "answered" ELSE "insufficient_evidence",
              answer |-> answer = "text",
              claims |-> kept, citations |-> CitationsOf(kept)]

-----------------------------------------------------------------------------
\* DeterministicClaimValidator.validate and _validate_node

ValidClaim(c, E) ==
    CASE c.support \in Supporting /\ c.ids \cap E = {} ->
            [c EXCEPT !.ids = {}, !.support = "unsupported"]
      [] c.support \in Supporting /\ c.ids \cap E # {} /\ ~(c.ids \subseteq E) ->
            [c EXCEPT !.ids = @ \cap E, !.support = "partially_supported"]
      [] OTHER -> c

Validate(r, E) ==
    [r EXCEPT !.claims = {ValidClaim(c, E) : c \in r.claims},
              !.citations = {x \in r.citations : x.claim \in r.claims /\ x.id \in E}]

UnsupportedFactual(claims) == {c \in claims : c.factual /\ c.support = "unsupported"}

\* Variant: unsupported claims are reported and the answer is kept.
ValidateLeniently(r, E) == Validate(r, E)

ValidateNode(r, E) ==
    IF UnsupportedFactual(Validate(r, E).claims) # {}
    THEN Refuse("insufficient_evidence")
    ELSE Validate(r, E)

-----------------------------------------------------------------------------
TypeOK ==
    /\ stage \in {"execute", "validate", "decide", "done"}
    /\ evidence \subseteq Ids
    /\ response \in FullResponses \cup {None}
    /\ error \in BOOLEAN
    /\ retries \in 0..MaxRetries

Init ==
    /\ stage = "execute"
    /\ evidence = {}
    /\ response = None
    /\ error = FALSE
    /\ retries = 0

\* The output is turned into a response; without evidence there is no call.
Generate(answer, claims, E) ==
    /\ stage = "execute"
    /\ ~(answer = "blank" /\ E # {})
    /\ evidence' = E
    /\ response' = IF E = {} THEN Refuse("insufficient_evidence")
                             ELSE BuildResponse(answer, claims, E)
    /\ error' = FALSE
    /\ stage' = "validate"
    /\ UNCHANGED retries

\* The call of the model fails, or its output is not what was asked for.
GenerateFails(E) ==
    /\ stage = "execute"
    /\ E # {}
    /\ evidence' = E
    /\ response' = Refuse("failed")
    /\ error' = FALSE
    /\ stage' = "validate"
    /\ UNCHANGED retries

(***************************************************************************)
(* Retrieval raises, or QueryResponse refuses the response to an output    *)
(* with a blank answer: the node keeps response and evidence as they were. *)
(***************************************************************************)
ExecuteFails ==
    /\ stage = "execute"
    /\ error' = TRUE
    /\ stage' = "validate"
    /\ UNCHANGED <<evidence, response, retries>>

ValidateStep ==
    /\ stage = "validate"
    /\ response' = IF response = None THEN None ELSE ValidateNode(response, evidence)
    /\ stage' = "decide"
    /\ UNCHANGED <<evidence, error, retries>>

\* _decide_route
Route ==
    LET again == IF retries < MaxRetries THEN "retry" ELSE "fail"
    IN  CASE error -> again
          [] ~error /\ response.status = "insufficient_evidence" -> again
          [] ~error /\ response.status = "failed" -> "fail"
          [] OTHER -> "done"

Retry ==
    /\ stage = "decide" /\ Route = "retry"
    /\ retries' = retries + 1
    /\ stage' = "execute"
    /\ UNCHANGED <<evidence, response, error>>

\* Variant: a response that is there is delivered as it is.
FailNodeKeeps ==
    /\ stage = "decide" /\ Route = "fail"
    /\ response' = IF response = None THEN Refuse("failed") ELSE response
    /\ stage' = "done"
    /\ UNCHANGED <<evidence, error, retries>>

FailNode ==
    /\ stage = "decide" /\ Route = "fail"
    /\ response' = Refuse("failed")
    /\ stage' = "done"
    /\ UNCHANGED <<evidence, error, retries>>

Done ==
    /\ stage = "decide" /\ Route = "done"
    /\ stage' = "done"
    /\ UNCHANGED <<evidence, response, error, retries>>

Next ==
    \/ \E a \in AnswerTexts, C \in ClaimSets, E \in SUBSET Ids : Generate(a, C, E)
    \/ \E E \in SUBSET Ids : GenerateFails(E)
    \/ ExecuteFails \/ ValidateStep \/ Retry \/ FailNode \/ Done

Spec == Init /\ [][Next]_vars

-----------------------------------------------------------------------------
(***************************************************************************)
(* What QueryRuns assumes of an attempt: the response the router sees is   *)
(* one of AttemptResponses.                                                *)
(***************************************************************************)
OutcomesAreModelled ==
    stage = "decide" /\ ~error =>
        [status |-> response.status, cites |-> response.citations # {}] \in AttemptResponses

(***************************************************************************)
(* A delivered answer is grounded: it has a supported claim, every factual *)
(* claim is supported, all evidence is from the attempt that produced the  *)
(* answer, and its citations are exactly the evidence of its claims.       *)
(***************************************************************************)
AnswerIsGrounded ==
    stage = "done" /\ response.status = "answered" =>
        /\ HasSupport(response.claims)
        /\ UnsupportedFactual(response.claims) = {}
        /\ \A c \in response.claims : c.ids \subseteq evidence
        /\ response.citations = CitationsOf(response.claims)

(***************************************************************************)
(* Fail closed: the workflow delivers a grounded answer or a failure with  *)
(* no text, claims or citations, and never what an attempt before a failed *)
(* one had produced.                                                       *)
(***************************************************************************)
AnswersOrFails ==
    stage = "done" => \/ response.status = "answered" /\ response.answer /\ ~error
                      \/ response = Refuse("failed")

-----------------------------------------------------------------------------
\* What a response looks like at each stage.
WellFormed(r, E) ==
    /\ r.status = "answered" => HasSupport(r.claims)
    /\ r.status = "failed" => r = Refuse("failed")
    /\ r.answer <=> r.status = "answered"
    /\ r.citations = CitationsOf(r.claims)
    /\ \A c \in r.claims : c.ids \subseteq E /\ IsClaim(c)

IInv ==
    /\ TypeOK
    /\ stage # "done" /\ response # None => WellFormed(response, evidence)
    /\ stage \in {"validate", "decide"} /\ ~error => response # None
    /\ stage = "decide" /\ response # None =>
          UnsupportedFactual(response.claims) = {} \/ response.status # "answered"
    /\ OutcomesAreModelled /\ AnswerIsGrounded /\ AnswersOrFails
=============================================================================
