------------------------- MODULE MCGraphTraversal -------------------------
(* Instances of GraphTraversal for TLC. *)
EXTENDS GraphTraversal, TLC

CONSTANTS e1, e2, e3, f1, f2, f3, f4, p, q

Says(s, o, pred) == [subject |-> s, object |-> o, predicate |-> pred, from |-> None, to |-> None]

\* A triangle with a loop: the corner e3 can be reached in one hop and in two.
Triangle == (f1 :> Says(e2, e1, p)) @@ (f2 :> Says(e2, e3, p))
         @@ (f3 :> Says(e3, e1, q)) @@ (f4 :> Says(e3, e3, p))

\* More facts about one entity than a fetch returns.
Star == (f1 :> Says(e1, e2, p)) @@ (f2 :> Says(e1, e3, p))
     @@ (f3 :> Says(e1, e2, p)) @@ (f4 :> Says(e1, e1, p))

\* A chain and a way back, some of it out of date or not yet valid.
Dated == (f1 :> [Says(e1, e2, p) EXCEPT !.to = 1]) @@ (f2 :> Says(e2, e3, p))
      @@ (f3 :> [Says(e3, e1, p) EXCEPT !.from = 1]) @@ (f4 :> Says(e2, e2, q))

MCGraphs == {Triangle, Star, Dated}

MCQueries == {[seeds |-> <<e1>>, predicates |-> <<>>, valid_at |-> None],
              [seeds |-> <<e1, e2>>, predicates |-> <<p>>, valid_at |-> 1]}
=============================================================================
