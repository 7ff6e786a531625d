------------------------- MODULE MCHybridRetrieval -------------------------
(* Instances of HybridRetrieval for TLC. *)
EXTENDS HybridRetrieval, TLC

CONSTANTS c1, c2, c3, f1, f2, s1, s2

\* Two chunks of one source, and two facts found in one chunk of it.
MCSourceOf == (c1 :> s1) @@ (c2 :> s1) @@ (c3 :> s2)
MCChunkOf == (f1 :> c1) @@ (f2 :> c1)
=============================================================================
