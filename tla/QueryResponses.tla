-------------------------- MODULE QueryResponses --------------------------
(***************************************************************************)
(* What the handlers see of a QueryResponse: its status, and whether it    *)
(* has citations.  Nothing produces the status clarification_required.     *)
(***************************************************************************)

ResponseStatuses == {"answered", "insufficient_evidence", "failed"}
Responses == [status : ResponseStatuses, cites : BOOLEAN]

(***************************************************************************)
(* What an attempt of the workflow can end with: an answer has citations,  *)
(* a failure has none.  Answering shows that generator and validator       *)
(* produce nothing else; QueryRuns builds on it.                           *)
(***************************************************************************)
AttemptResponses ==
    {r \in Responses : /\ r.status = "answered" => r.cites
                       /\ r.status = "failed" => ~r.cites}
=============================================================================
