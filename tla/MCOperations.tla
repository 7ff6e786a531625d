---------------------------- MODULE MCOperations ----------------------------
(***************************************************************************)
(* The operator's side of the system for TLC: proposals, reviews and the   *)
(* evaluation runner, and the authentication in front of the API.  They    *)
(* share no state but the operators, so every behaviour moves only the one *)
(* named by focus, chosen at the beginning, and the others stay put.       *)
(***************************************************************************)
EXTENDS Proposals, Reviews, Authentication, Evaluation, TLC

CONSTANTS alice, bob, t1, t2, gateway, store, ghost

VARIABLE focus

\* alice is the tenant's own operator, bob a global one of another tenant.
MCTenant == (alice :> t1) @@ (bob :> t2)

\* Run 1 is of alice's tenant, run 2 of the other.
MCRunTenant == <<t1, t2>>

Token(kid, signed, tenantClaim, roles) ==
    [kid |-> kid, signed |-> signed, tenant |-> tenantClaim, principal |-> alice, roles |-> roles]

\* A good one, a viewer's with another key, a wrong signature, no tenant.
MCTokens ==
    {Token("k1", TRUE, t1, {"admin"}), Token("k2", TRUE, t1, {"viewer"}),
     Token("k1", FALSE, t1, {"admin"}), Token("k1", TRUE, Missing, {"admin"})}

MCSettings ==
    {[auth_mode |-> "oidc", trusted |-> FALSE], [auth_mode |-> "header", trusted |-> TRUE],
     [auth_mode |-> "local", trusted |-> FALSE], [auth_mode |-> "local", trusted |-> TRUE]}

\* One case the runner can answer, one without an expected object, one without its seed.
Case(s, e, multi) == [seed |-> s, expected |-> e, multi_hop |-> multi]
MCCases == <<Case(gateway, store, TRUE), Case(store, NoName, TRUE), Case(ghost, store, FALSE)>>

allVars == <<focus, vars, reviewVars, authVars, evaluationVars>>

MCInit ==
    /\ focus \in {"proposals", "reviews", "authentication", "evaluation"}
    /\ Init /\ ReviewInit /\ AuthInit /\ EvaluationInit
    /\ focus # "authentication" =>
          settings = [auth_mode |-> "oidc", trusted |-> FALSE] /\ keys = {"k1"}

MCNext ==
    /\ UNCHANGED focus
    /\ \/ focus = "proposals" /\ Next /\ UNCHANGED <<reviewVars, authVars, evaluationVars>>
       \/ focus = "reviews" /\ ReviewNext /\ UNCHANGED <<vars, authVars, evaluationVars>>
       \/ focus = "authentication" /\ AuthNext /\ UNCHANGED <<vars, reviewVars, evaluationVars>>
       \/ focus = "evaluation" /\ EvaluationNext /\ UNCHANGED <<vars, reviewVars, authVars>>

\* Fairness is needed, and the code justifies it, for the threads that authenticate.
MCSpec ==
    /\ MCInit /\ [][MCNext]_allVars
    /\ \A r \in Requests : WF_allVars(focus = "authentication" /\ AuthStep(r)
                                      /\ UNCHANGED <<focus, vars, reviewVars, evaluationVars>>)
=============================================================================
