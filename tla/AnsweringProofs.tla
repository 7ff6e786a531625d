-------------------------- MODULE AnsweringProofs --------------------------
(***************************************************************************)
(* Proof that the workflow delivers grounded answers or failures, for any  *)
(* number of evidence ids, claims and retries.                             *)
(***************************************************************************)
EXTENDS Answering, TLAPS

\* What _build_response makes of an output is well formed.
LEMMA BuildWellFormed ==
  ASSUME NEW a \in AnswerTexts, NEW C \in SUBSET ClaimOutputs, NEW E \in SUBSET Ids
  PROVE  /\ BuildResponse(a, C, E) \in FullResponses
         /\ WellFormed(BuildResponse(a, C, E), E)
<1> DEFINE kept == KeptClaims(C, E)
<1>1. \A d \in C : Checked(d, E) \in Claims /\ Checked(d, E).ids \subseteq E
  BY DEF Checked, Claims, ClaimOutputs, Support, Mapped, SupportStatuses, Supporting
<1>2. kept \subseteq Claims /\ \A c \in kept : c.ids \subseteq E /\ IsClaim(c)
  BY <1>1 DEF KeptClaims
<1>3. CitationsOf(kept) \subseteq [claim : Claims, id : Ids]
  BY <1>2 DEF CitationsOf, Claims
<1>4. CASE a = "text" /\ ~HasSupport(kept)
  <2>1. BuildResponse(a, C, E) = Refuse("insufficient_evidence")
    BY <1>4 DEF BuildResponse
  <2>2. CitationsOf({}) = {}
    BY DEF CitationsOf
  <2> QED
    BY <2>1, <2>2 DEF Refuse, WellFormed, FullResponses, ResponseStatuses
<1>5. CASE ~(a = "text" /\ ~HasSupport(kept))
  <2> DEFINE r == [status |-> IF a = "text" THEN "answered" ELSE "insufficient_evidence",
                   answer |-> a = "text", claims |-> kept, citations |-> CitationsOf(kept)]
  <2>1. BuildResponse(a, C, E) = r
    BY <1>5 DEF BuildResponse
  <2>2. r \in FullResponses
    BY <1>2, <1>3 DEF FullResponses, ResponseStatuses
  <2>3. WellFormed(r, E)
    BY <1>2, <1>5 DEF WellFormed
  <2> QED
    BY <2>1, <2>2, <2>3
<1> QED
  BY <1>4, <1>5

\* The validator keeps a well-formed response of the same evidence.
LEMMA ValidateKeeps ==
  ASSUME NEW E \in SUBSET Ids, NEW r \in FullResponses, WellFormed(r, E)
  PROVE  Validate(r, E) = r
<1>1. \A c \in r.claims : c \in Claims /\ c.ids \subseteq E /\ IsClaim(c)
  BY DEF WellFormed, FullResponses
<1>2. \A c \in r.claims : ValidClaim(c, E) = c
  <2> SUFFICES ASSUME NEW c \in r.claims PROVE ValidClaim(c, E) = c
    OBVIOUS
  <2>1. ~(c.support \in Supporting /\ c.ids \cap E = {})
    BY <1>1 DEF IsClaim, Supporting
  <2>2. c.ids \subseteq E
    BY <1>1
  <2> QED
    BY <2>1, <2>2 DEF ValidClaim
<1>3. {ValidClaim(c, E) : c \in r.claims} = r.claims
  BY <1>2
<1>4. {x \in r.citations : x.claim \in r.claims /\ x.id \in E} = r.citations
  BY <1>1 DEF WellFormed, CitationsOf
<1> QED
  BY <1>3, <1>4 DEF Validate, FullResponses

LEMMA RefusalWellFormed ==
  ASSUME NEW s \in {"insufficient_evidence", "failed"}, NEW E \in SUBSET Ids
  PROVE  Refuse(s) \in FullResponses /\ WellFormed(Refuse(s), E)
<1>1. CitationsOf({}) = {}
  BY DEF CitationsOf
<1> QED
  BY <1>1 DEF Refuse, WellFormed, FullResponses, ResponseStatuses

\* After the validate node an answer has no unsupported factual claim.
LEMMA NodeResult ==
  ASSUME NEW E \in SUBSET Ids, NEW r \in FullResponses, WellFormed(r, E)
  PROVE  /\ ValidateNode(r, E) \in FullResponses
         /\ WellFormed(ValidateNode(r, E), E)
         /\ \/ UnsupportedFactual(ValidateNode(r, E).claims) = {}
            \/ ValidateNode(r, E).status # "answered"
<1>1. CASE UnsupportedFactual(r.claims) # {}
  <2>1. ValidateNode(r, E) = Refuse("insufficient_evidence")
    BY <1>1, ValidateKeeps DEF ValidateNode
  <2> QED
    BY <2>1, RefusalWellFormed DEF Refuse
<1>2. CASE UnsupportedFactual(r.claims) = {}
  <2>1. ValidateNode(r, E) = r
    BY <1>2, ValidateKeeps DEF ValidateNode
  <2> QED
    BY <1>2, <2>1
<1> QED
  BY <1>1, <1>2

\* Well-formed responses are what QueryRuns expects.
LEMMA WellFormedOutcome ==
  ASSUME NEW E \in SUBSET Ids, NEW r \in FullResponses, WellFormed(r, E)
  PROVE  [status |-> r.status, cites |-> r.citations # {}] \in AttemptResponses
<1> DEFINE o == [status |-> r.status, cites |-> r.citations # {}]
<1>1. o \in Responses
  BY DEF Responses, FullResponses
<1>2. r.status = "answered" => r.citations # {}
  <2> SUFFICES ASSUME r.status = "answered" PROVE r.citations # {}
    OBVIOUS
  <2>1. PICK c \in r.claims : c.support \in Supporting
    BY DEF WellFormed, HasSupport
  <2>2. PICK i \in c.ids : TRUE
    BY <2>1 DEF WellFormed, IsClaim, Supporting
  <2>3. [claim |-> c, id |-> i] \in CitationsOf(r.claims)
    BY <2>2 DEF CitationsOf
  <2> QED
    BY <2>3 DEF WellFormed
<1>3. r.status = "failed" => r.citations = {}
  BY DEF WellFormed, Refuse
<1> QED
  BY <1>1, <1>2, <1>3 DEF AttemptResponses

LEMMA InitIInv == Init => IInv
<1> SUFFICES ASSUME Init PROVE IInv
  OBVIOUS
<1>1. TypeOK
  <2>1. retries \in 0..MaxRetries
    BY AnsweringConstants DEF Init
  <2> QED
    BY <2>1, Zenon DEF Init, TypeOK
<1>2. OutcomesAreModelled /\ AnswerIsGrounded /\ AnswersOrFails
  BY DEF Init, OutcomesAreModelled, AnswerIsGrounded, AnswersOrFails
<1> QED
  BY <1>1, <1>2 DEF Init, IInv

LEMMA ClaimSetsAreOutputs == \A C \in ClaimSets : C \subseteq ClaimOutputs
<1> SUFFICES ASSUME NEW C \in ClaimSets PROVE C \subseteq ClaimOutputs
  OBVIOUS
<1>1. PICK n \in 0..MaxClaims, f \in [1..MaxClaims -> ClaimOutputs] : C = {f[i] : i \in 1..n}
  BY DEF ClaimSets
<1>2. \A i \in 1..n : i \in 1..MaxClaims
  BY AnsweringConstants
<1> QED
  BY <1>1, <1>2

\* An attempt leaves a well-formed response of its own evidence, or an error.
LEMMA AttemptStep ==
  ASSUME IInv, stage = "execute", stage' = "validate", UNCHANGED retries,
         \/ /\ error' = FALSE
            /\ evidence' \subseteq Ids
            /\ response' \in FullResponses
            /\ WellFormed(response', evidence')
         \/ error' = TRUE /\ UNCHANGED <<evidence, response>>
  PROVE  IInv'
<1>1. TypeOK'
  BY DEF IInv, TypeOK
<1>2. response' # None => WellFormed(response, evidence)'
  BY DEF IInv
<1>3. ~error' => response' # None
  BY AnsweringConstants
<1> QED
  BY <1>1, <1>2, <1>3 DEF IInv, OutcomesAreModelled, AnswerIsGrounded, AnswersOrFails

LEMMA GenerateKeeps ==
  ASSUME IInv, NEW a \in AnswerTexts, NEW C \in ClaimSets, NEW E \in SUBSET Ids,
         Generate(a, C, E)
  PROVE  IInv'
<1>1. C \subseteq ClaimOutputs
  BY ClaimSetsAreOutputs
<1>2. response' \in FullResponses /\ WellFormed(response', E)
  BY <1>1, BuildWellFormed, RefusalWellFormed DEF Generate
<1>3. stage = "execute" /\ stage' = "validate" /\ error' = FALSE /\ evidence' = E
      /\ retries' = retries
  BY <1>1 DEF Generate
<1> QED
  BY <1>2, <1>3, AttemptStep

LEMMA GenerateFailsKeeps ==
  ASSUME IInv, NEW E \in SUBSET Ids, GenerateFails(E)
  PROVE  IInv'
<1>1. response' \in FullResponses /\ WellFormed(response', E)
  BY RefusalWellFormed DEF GenerateFails
<1>2. stage = "execute" /\ stage' = "validate" /\ error' = FALSE /\ evidence' = E
      /\ retries' = retries
  BY DEF GenerateFails
<1> QED
  BY <1>1, <1>2, AttemptStep

LEMMA ValidateStepKeeps == IInv /\ ValidateStep => IInv'
<1> SUFFICES ASSUME IInv, ValidateStep PROVE IInv'
  OBVIOUS
<1>1. stage' = "decide" /\ UNCHANGED <<evidence, error, retries>>
  BY DEF ValidateStep
<1>2. CASE response = None
  <2>1. response' = None /\ error
    BY <1>2 DEF ValidateStep, IInv
  <2> QED
    BY <1>1, <2>1 DEF IInv, TypeOK, OutcomesAreModelled, AnswerIsGrounded, AnswersOrFails
<1>3. CASE response # None
  <2>1. response \in FullResponses /\ WellFormed(response, evidence) /\ evidence \in SUBSET Ids
    BY <1>3 DEF IInv, TypeOK, ValidateStep
  <2>2. response' = ValidateNode(response, evidence)
    BY <1>3 DEF ValidateStep
  <2>3. /\ response' \in FullResponses
        /\ WellFormed(response', evidence)
        /\ \/ UnsupportedFactual(response'.claims) = {}
           \/ response'.status # "answered"
    BY <2>1, <2>2, NodeResult
  <2>4. [status |-> response'.status, cites |-> response'.citations # {}] \in AttemptResponses
    BY <2>1, <2>3, WellFormedOutcome
  <2>5. response' # None
    BY <2>3, AnsweringConstants
  <2> QED
    BY <1>1, <2>3, <2>4, <2>5 DEF IInv, TypeOK, OutcomesAreModelled, AnswerIsGrounded,
                                  AnswersOrFails
<1> QED
  BY <1>2, <1>3

LEMMA RouteStepKeeps == IInv /\ (Retry \/ FailNode \/ Done) => IInv'
<1> SUFFICES ASSUME IInv, Retry \/ FailNode \/ Done PROVE IInv'
  OBVIOUS
<1>1. CASE Retry
  <2>1. retries < MaxRetries
    BY <1>1 DEF Retry, Route
  <2>2. retries' \in 0..MaxRetries
    BY <1>1, <2>1, AnsweringConstants DEF Retry, IInv, TypeOK
  <2> QED
    BY <1>1, <2>2 DEF Retry, IInv, TypeOK, OutcomesAreModelled, AnswerIsGrounded, AnswersOrFails
<1>2. CASE FailNode
  <2>1. response' = Refuse("failed") /\ response' \in FullResponses /\ response'.status = "failed"
    BY <1>2, RefusalWellFormed DEF FailNode, Refuse, IInv, TypeOK
  <2> QED
    BY <1>2, <2>1 DEF FailNode, IInv, TypeOK, OutcomesAreModelled, AnswerIsGrounded,
                      AnswersOrFails
<1>3. CASE Done
  <2>1. stage = "decide" /\ ~error /\ response # None
    BY <1>3 DEF Done, Route, IInv, TypeOK
  <2>2. response \in FullResponses /\ WellFormed(response, evidence)
    BY <2>1 DEF IInv, TypeOK
  <2>3. response.status = "answered"
    BY <1>3, <2>1, <2>2 DEF Done, Route, FullResponses, ResponseStatuses
  <2>4. UnsupportedFactual(response.claims) = {}
    BY <2>1, <2>3 DEF IInv
  <2> QED
    BY <1>3, <2>1, <2>2, <2>3, <2>4 DEF Done, IInv, TypeOK, OutcomesAreModelled,
       AnswerIsGrounded, AnswersOrFails, WellFormed
<1> QED
  BY <1>1, <1>2, <1>3

(***************************************************************************)
(* The inductive invariant of the workflow.                                *)
(***************************************************************************)
THEOREM AnsweringInvariant == Spec => []IInv
<1>1. IInv /\ UNCHANGED vars => IInv'
  BY DEF vars, IInv, TypeOK, OutcomesAreModelled, AnswerIsGrounded, AnswersOrFails
<1>2. IInv /\ ExecuteFails => IInv'
  <2> SUFFICES ASSUME IInv, ExecuteFails PROVE IInv'
    OBVIOUS
  <2>1. stage = "execute" /\ stage' = "validate" /\ error' = TRUE
        /\ UNCHANGED <<evidence, response, retries>>
    BY DEF ExecuteFails
  <2> QED
    BY <2>1, AttemptStep
<1>3. IInv /\ [Next]_vars => IInv'
  BY <1>1, <1>2, GenerateKeeps, GenerateFailsKeeps, ValidateStepKeeps, RouteStepKeeps DEF Next
<1> QED
  BY InitIInv, <1>3, PTL DEF Spec

(***************************************************************************)
(* Every delivered answer is grounded in the evidence of its attempt.      *)
(***************************************************************************)
THEOREM AnswersAreGrounded == Spec => []AnswerIsGrounded
  BY AnsweringInvariant, PTL DEF IInv

(***************************************************************************)
(* The workflow delivers an answer or an empty failure.                    *)
(***************************************************************************)
THEOREM FailsClosed == Spec => []AnswersOrFails
  BY AnsweringInvariant, PTL DEF IInv

(***************************************************************************)
(* The outcomes QueryRuns gives to an attempt are all there are.           *)
(***************************************************************************)
THEOREM OutcomesCovered == Spec => []OutcomesAreModelled
  BY AnsweringInvariant, PTL DEF IInv
=============================================================================
