--------------------------- MODULE OutboxDelivery ---------------------------
(***************************************************************************)
(* The contract of the outbox (plan.md 5.3), free of workers, leases and   *)
(* tokens: an event that was accepted together with the data it describes  *)
(* is delivered to the graph at least once, is settled only after that and *)
(* stays settled.                                                          *)
(***************************************************************************)
CONSTANTS Events, Deliverable

VARIABLES stage,      \* "absent", "queued" or "done" for each event
          delivered   \* events whose effect is in the graph

dvars == <<stage, delivered>>

Init ==
    /\ stage = [e \in Events |-> "absent"]
    /\ delivered = {}

\* A transaction commits a set of events; the graph may already show the
\* effect of some of them (an event without one, or a repeated one).
Accept(S, D) ==
    /\ S # {} /\ D \subseteq S
    /\ \A e \in S : stage[e] = "absent"
    /\ stage' = [e \in Events |-> IF e \in S THEN "queued" ELSE stage[e]]
    /\ delivered' = delivered \cup D

\* One graph transaction makes the effect of some accepted events visible.
Deliver(D) ==
    /\ D \subseteq {e \in Events : stage[e] # "absent"}
    /\ ~(D \subseteq delivered)
    /\ delivered' = delivered \cup D
    /\ UNCHANGED stage

Settle(e) ==
    /\ stage[e] = "queued"
    /\ e \in delivered
    /\ stage' = [stage EXCEPT ![e] = "done"]
    /\ UNCHANGED delivered

Next ==
    \/ \E S \in SUBSET Events : \E D \in SUBSET S : Accept(S, D)
    \/ \E D \in SUBSET Events : Deliver(D)
    \/ \E e \in Events : Settle(e)

Spec == Init /\ [][Next]_dvars

Fairness ==
    \A e \in Deliverable :
        /\ WF_dvars(\E D \in SUBSET Events : e \in D \ delivered /\ Deliver(D))
        /\ WF_dvars(Settle(e))

FairSpec == Spec /\ Fairness
=============================================================================
