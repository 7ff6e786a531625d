------------------------ MODULE GraphTraversalProofs ------------------------
(***************************************************************************)
(* Proofs about GraphTraversal: the evidence a traversal returns is        *)
(* reached by walks from its seeds, the limit on its results holds, and    *)
(* the search is breadth-first while facts come and go.                    *)
(***************************************************************************)
EXTENDS GraphTraversal, SequenceTheorems, FiniteSetTheorems, WellFoundedInduction, TLAPS

-----------------------------------------------------------------------------
\* A set of numbers has a least element.

LEMMA LeastExists ==
  ASSUME NEW T \in SUBSET Nat, T # {}
  PROVE  \E m \in T : \A k \in T : m <= k
<1>1. PICK x \in T : \A y \in T : ~ (<<y, x>> \in OpToRel(<, Nat))
  BY NatLessThanWellFounded, WFMin
<1>2. ASSUME NEW y \in T, y < x PROVE FALSE
  <2>1. x \in Nat /\ y \in Nat
    OBVIOUS
  <2>2. <<y, x>> \in OpToRel(<, Nat)
    BY <1>2, <2>1, Zenon DEF OpToRel
  <2> QED
    BY <1>1, <2>2, Zenon
<1> QED
  BY <1>2

-----------------------------------------------------------------------------
\* Sequences.

LEMMA ConcatRange ==
  ASSUME NEW S, NEW s \in Seq(S), NEW t \in Seq(S)
  PROVE  /\ s \o t \in Seq(S)
         /\ DOMAIN (s \o t) = 1..(Len(s) + Len(t))
         /\ \A i \in DOMAIN s : i \in DOMAIN (s \o t) /\ (s \o t)[i] = s[i]
         /\ \A i \in DOMAIN t : Len(s) + i \in DOMAIN (s \o t) /\ (s \o t)[Len(s) + i] = t[i]
         /\ \A i \in DOMAIN (s \o t) :
               \/ i \in DOMAIN s /\ (s \o t)[i] = s[i]
               \/ i - Len(s) \in DOMAIN t /\ (s \o t)[i] = t[i - Len(s)]
         /\ RangeOf(s \o t) = RangeOf(s) \cup RangeOf(t)
<1>1. /\ Len(s) \in Nat /\ Len(t) \in Nat /\ DOMAIN s = 1..Len(s) /\ DOMAIN t = 1..Len(t)
      /\ s \o t \in Seq(S) /\ DOMAIN (s \o t) = 1..(Len(s) + Len(t))
      /\ \A i \in 1..(Len(s) + Len(t)) : (s \o t)[i] = IF i <= Len(s) THEN s[i] ELSE t[i - Len(s)]
  BY ConcatProperties, LenProperties
<1>2. \A i \in DOMAIN s : i \in DOMAIN (s \o t) /\ (s \o t)[i] = s[i]
  BY <1>1
<1>3. \A i \in DOMAIN t : Len(s) + i \in DOMAIN (s \o t) /\ (s \o t)[Len(s) + i] = t[i]
  BY <1>1
<1>4. \A i \in DOMAIN (s \o t) : \/ i \in DOMAIN s /\ (s \o t)[i] = s[i]
                                 \/ i - Len(s) \in DOMAIN t /\ (s \o t)[i] = t[i - Len(s)]
  BY <1>1
<1>5. RangeOf(s \o t) \subseteq RangeOf(s) \cup RangeOf(t)
  BY <1>4 DEF RangeOf
<1>6. RangeOf(s) \cup RangeOf(t) \subseteq RangeOf(s \o t)
  BY <1>2, <1>3 DEF RangeOf
<1> QED
  BY <1>1, <1>2, <1>3, <1>4, <1>5, <1>6

LEMMA TailRange ==
  ASSUME NEW S, NEW s \in Seq(S), s # <<>>
  PROVE  /\ Tail(s) \in Seq(S) /\ Head(s) \in RangeOf(s) /\ Head(s) = s[1] /\ 1 \in DOMAIN s
         /\ \A i \in DOMAIN Tail(s) : i + 1 \in DOMAIN s /\ i + 1 # 1 /\ Tail(s)[i] = s[i + 1]
         /\ RangeOf(Tail(s)) \subseteq RangeOf(s)
<1>1. /\ Tail(s) \in Seq(S) /\ Len(s) \in Nat \ {0} /\ DOMAIN s = 1..Len(s) /\ Head(s) = s[1]
      /\ DOMAIN Tail(s) = 1..(Len(s) - 1)
      /\ \A i \in 1..(Len(s) - 1) : Tail(s)[i] = s[i + 1]
  BY HeadTailProperties, LenProperties, EmptySeq
<1> QED
  BY <1>1 DEF RangeOf

LEMMA AppendPath ==
  ASSUME NEW S, NEW p \in Seq(S), NEW f \in S
  PROVE  /\ Append(p, f) \in Seq(S) /\ Append(p, f) # <<>> /\ Append(p, f) # p
         /\ Len(p) \in Nat /\ Len(Append(p, f)) = Len(p) + 1
         /\ \A i \in 1..Len(p) : Append(p, f)[i] = p[i]
         /\ Append(p, f)[Len(p) + 1] = f
         /\ SubSeq(Append(p, f), 1, Len(Append(p, f)) - 1) = p
         /\ RangeOf(Append(p, f)) = RangeOf(p) \cup {f}
<1> DEFINE q == Append(p, f)
<1>1. /\ q \in Seq(S) /\ q # <<>> /\ Len(q) = Len(p) + 1 /\ Len(p) \in Nat /\ DOMAIN p = 1..Len(p)
      /\ \A i \in 1..Len(p) : q[i] = p[i]
      /\ q[Len(p) + 1] = f
      /\ DOMAIN q = 1..(Len(p) + 1)
  BY AppendProperties, LenProperties
<1> HIDE DEF q
<1>2. q # p
  BY <1>1
<1>3. SubSeq(q, 1, Len(p)) = p
  <2>1. \A i \in 1..Len(p) : q[i] \in S
    BY <1>1
  <2>2. /\ SubSeq(q, 1, Len(p)) \in Seq(S)
        /\ Len(SubSeq(q, 1, Len(p))) = IF 1 <= Len(p) THEN Len(p) - 1 + 1 ELSE 0
        /\ \A i \in 1..(Len(p) - 1 + 1) : SubSeq(q, 1, Len(p))[i] = q[1 + i - 1]
    BY <1>1, <2>1, SubSeqProperties
  <2>3. Len(SubSeq(q, 1, Len(p))) = Len(p) /\ \A i \in 1..Len(p) : SubSeq(q, 1, Len(p))[i] = p[i]
    BY <1>1, <2>2
  <2> QED
    BY <2>2, <2>3, SeqEqual
<1>4. Len(q) - 1 = Len(p)
  BY <1>1
<1>5. RangeOf(q) = RangeOf(p) \cup {f}
  BY <1>1 DEF RangeOf
<1> QED
  BY <1>1, <1>2, <1>3, <1>4, <1>5 DEF q

-----------------------------------------------------------------------------
\* Walks.

LEMMA FactEnds ==
  ASSUME TraversalTypeOK, NEW f \in Facts
  PROVE  fact[f].subject \in Entities /\ fact[f].object \in Entities
  BY TraversalConstants DEF TraversalTypeOK

\* Crossing one more fact makes a longer walk.
LEMMA WalkGoesOn ==
  ASSUME TraversalTypeOK, NEW p \in Seq(Facts), NEW x \in Entities, NEW from, LeadsTo(p, from, x),
         NEW f \in Facts, x \in {fact[f].subject, fact[f].object}
  PROVE  LeadsTo(Append(p, f), from, Across(f, x)) /\ IsWalk(Append(p, f), from)
<1> DEFINE q == Append(p, f)
           y == Across(f, x)
<1>1. /\ Len(p) \in Nat /\ Len(q) = Len(p) + 1 /\ q[Len(p) + 1] = f
      /\ \A i \in 1..Len(p) : q[i] = p[i]
  BY AppendPath
<1>2. y \in Entities
  BY FactEnds DEF Across
<1>3. PICK e \in Walks(p) : e[1] = from /\ e[Len(p) + 1] = x
  BY DEF LeadsTo
<1>4. /\ e \in [1..(Len(p) + 1) -> Entities]
      /\ \A i \in 1..Len(p) : /\ e[i] \in {fact[p[i]].subject, fact[p[i]].object}
                              /\ e[i + 1] = Across(p[i], e[i])
  BY DEF Walks
<1> DEFINE d == [i \in 1..(Len(p) + 2) |-> IF i = Len(p) + 2 THEN y ELSE e[i]]
<1> HIDE DEF q, y
<1>5. d \in [1..(Len(q) + 1) -> Entities] /\ d[1] = from /\ d[Len(q) + 1] = y
  BY <1>1, <1>2, <1>3, <1>4
<1>6. ASSUME NEW i \in 1..Len(q)
      PROVE  d[i] \in {fact[q[i]].subject, fact[q[i]].object} /\ d[i + 1] = Across(q[i], d[i])
  <2>1. CASE i \in 1..Len(p)
    <3>1. d[i] = e[i] /\ d[i + 1] = e[i + 1] /\ q[i] = p[i]
      BY <1>1, <2>1
    <3> QED
      BY <1>4, <2>1, <3>1
  <2>2. CASE i = Len(p) + 1
    <3>1. d[i] = x /\ d[i + 1] = y /\ q[i] = f
      BY <1>1, <1>3, <2>2
    <3> QED
      BY <3>1 DEF y
  <2> QED
    BY <1>1, <2>1, <2>2
<1> HIDE DEF d
<1>7. d \in Walks(q)
  BY <1>5, <1>6 DEF Walks
<1>8. LeadsTo(q, from, y) /\ IsWalk(q, from)
  BY <1>5, <1>7 DEF LeadsTo, IsWalk
<1> QED
  BY <1>8 DEF q, y

\* A path leads to one entity only.
LEMMA OneEnd ==
  ASSUME NEW p \in Seq(Facts), NEW from, NEW x, NEW y, LeadsTo(p, from, x), LeadsTo(p, from, y)
  PROVE  x = y
<1>1. PICK d \in Walks(p) : d[1] = from /\ d[Len(p) + 1] = x
  BY DEF LeadsTo
<1>2. PICK e \in Walks(p) : e[1] = from /\ e[Len(p) + 1] = y
  BY DEF LeadsTo
<1>3. Len(p) \in Nat
  BY LenProperties
<1> DEFINE B == {i \in 1..(Len(p) + 1) : d[i] # e[i]}
<1>4. ASSUME B # {} PROVE FALSE
  <2>1. B \in SUBSET Nat
    BY <1>3
  <2>2. PICK m \in B : \A k \in B : m <= k
    BY <1>4, <2>1, LeastExists
  <2>3. m # 1 /\ m \in 1..(Len(p) + 1) /\ d[m] # e[m]
    BY <1>1, <1>2, <2>2
  <2>4. m - 1 \in 1..Len(p) /\ m - 1 \notin B /\ (m - 1) + 1 = m
    BY <1>3, <2>2, <2>3
  <2>5. d[m - 1] = e[m - 1]
    BY <1>3, <2>4
  <2>6. d[(m - 1) + 1] = Across(p[m - 1], d[m - 1]) /\ e[(m - 1) + 1] = Across(p[m - 1], e[m - 1])
    BY <2>4 DEF Walks
  <2> QED
    BY <2>3, <2>4, <2>5, <2>6
<1>5. Len(p) + 1 \notin B
  BY <1>4
<1> QED
  BY <1>1, <1>2, <1>3, <1>5

\* What was reached stays reached while facts become visible.
LEMMA WalksAreKept ==
  ASSUME UNCHANGED <<fact, query>>, ever \subseteq ever'
  PROVE  /\ Edges(ever) \subseteq Edges(ever)'
         /\ \A p, from : IsWalk(p, from) => IsWalk(p, from)'
         /\ seed' = seed => \A q : Reached(q) => Reached(q)'
         /\ seed' = seed => \A r : Traced(r) => Traced(r)'
         /\ \A p, from, x : LeadsTo(p, from, x)' <=> LeadsTo(p, from, x)
<1>1. Edges(ever) \subseteq Edges(ever)'
  BY DEF Edges, PredicateAsked, TemporalValid
<1>2. \A p : Walks(p)' = Walks(p)
  BY DEF Walks, Across
<1>3. \A p, from : IsWalk(p, from) => IsWalk(p, from)'
  BY <1>2 DEF IsWalk
<1>4. \A p, from, x : LeadsTo(p, from, x)' <=> LeadsTo(p, from, x)
  BY <1>2 DEF LeadsTo
<1>5. ASSUME seed' = seed, NEW q, Reached(q) PROVE Reached(q)'
  BY <1>1, <1>4, <1>5 DEF Reached
<1>6. ASSUME seed' = seed, NEW r, Traced(r) PROVE Traced(r)'
  BY <1>1, <1>3, <1>6 DEF Traced
<1> QED
  BY <1>1, <1>3, <1>4, <1>5, <1>6

LEMMA CrossedIsKept ==
  ASSUME UNCHANGED <<fact, seed>>, RangeOf(results) \subseteq RangeOf(results)'
  PROVE  \A x, f, d : Crossed(x, f, d) => Crossed(x, f, d)'
<1>1. ASSUME NEW r, NEW x, LeadsTo(Parent(r), seed, x) PROVE LeadsTo(Parent(r), seed, x)'
  BY <1>1 DEF Parent, LeadsTo, Walks, Across
<1> QED
  BY <1>1 DEF Crossed

LEMMA EvidenceIsKept ==
  ASSUME EvidenceIsWalk, UNCHANGED <<fact, query, evidence>>, ever \subseteq ever'
  PROVE  EvidenceIsWalk'
<1>1. ASSUME NEW e \in RangeOf(evidence)
      PROVE  /\ Len(e.path) \in 1..MaxDepth
             /\ e.path[Len(e.path)] = e.fact
             /\ RangeOf(e.path) \subseteq Edges(ever)'
             /\ IsWalk(e.path, e.seed)'
  BY <1>1, WalksAreKept DEF EvidenceIsWalk
<1> QED
  BY <1>1 DEF EvidenceIsWalk, RangeOf

LEMMA TraversalInit == Init => TraversalIInv
<1> SUFFICES ASSUME Init PROVE TraversalIInv
  OBVIOUS
<1>1. TraversalTypeOK
  <2>1. /\ fact \in Graphs /\ query \in Queries /\ seeds \in Seq(Entities)
    BY TraversalConstants DEF Init
  <2>2. queue \in Seq(Entry) /\ results \in Seq(Result) /\ results = <<>>
    BY DEF Init
  <2>3. evidence \in Seq([fact : Facts, path : Seq(Facts), seed : Entities])
    BY DEF Init
  <2>4. /\ steady \subseteq visible /\ visible \subseteq ever /\ ever \subseteq Facts
        /\ pc = "seeds" /\ seen = {}
    BY DEF Init
  <2> QED
    BY <2>1, <2>2, <2>3, <2>4 DEF TraversalTypeOK, Visiting
<1>2. RangeOf(queue) = {} /\ RangeOf(results) = {} /\ RangeOf(evidence) = {}
  BY DEF Init, RangeOf
<1>3. PathsAreWalks /\ PathsAreNew /\ ResultsCounted /\ ResultsBounded
  BY <1>2 DEF Init, PathsAreWalks, PathsAreNew, ResultsCounted, ResultsBounded, Visiting
<1>4. EvidenceIsWalk
  BY <1>2 DEF Init, EvidenceIsWalk
<1>5. DepthsAscend /\ SeenIsCrossed /\ SteadyIsCrossed
  BY <1>2 DEF Init, DepthsAscend, SeenIsCrossed, SteadyIsCrossed, Visiting
<1> QED
  BY <1>1, <1>3, <1>4, <1>5 DEF TraversalIInv

LEMMA StartSeedPreserves ==
  ASSUME TraversalIInv, StartSeed
  PROVE  TraversalIInv'
<1> DEFINE root == [entity |-> Head(seeds), depth |-> 1, path |-> <<>>]
<1>1. /\ seeds # <<>> /\ seed' = Head(seeds) /\ seeds' = Tail(seeds) /\ pc' = "loop"
      /\ queue' = <<root>> /\ results' = <<>> /\ seen' = {}
      /\ UNCHANGED <<fact, visible, query, current, evidence, steady, ever, cut>>
  BY DEF StartSeed, graph, history
<1>2. TraversalTypeOK /\ seed' \in Entities /\ seeds' \in Seq(Entities)
  BY <1>1, HeadTailProperties DEF TraversalIInv, TraversalTypeOK
<1>3. root \in Entry /\ root.path = <<>> /\ root.depth = 1 /\ root.entity = seed'
  BY <1>1, <1>2 DEF Entry
<1> HIDE DEF root
<1>4. queue' \in Seq(Entry) /\ RangeOf(queue)' = {root} /\ DOMAIN queue' = {1}
  BY <1>1, <1>3 DEF RangeOf
<1>5. results' \in Seq(Result) /\ RangeOf(results)' = {}
  BY <1>1 DEF RangeOf
<1>6. TraversalTypeOK'
  BY <1>1, <1>2, <1>4, <1>5 DEF TraversalTypeOK, Visiting
<1>7. \A q \in {root} : Reached(q)'
  <2>1. [i \in {1} |-> seed'] \in Walks(<<>>)'
    BY <1>2 DEF Walks
  <2>2. LeadsTo(<<>>, seed, seed)'
    BY <1>2, <2>1 DEF LeadsTo
  <2>3. RangeOf(<<>>) = {}
    BY DEF RangeOf
  <2> QED
    BY <1>3, <2>2, <2>3 DEF Reached
<1>8. PathsAreWalks'
  BY <1>1, <1>4, <1>5, <1>7 DEF PathsAreWalks, Visiting
<1>9. PathsAreNew'
  BY <1>1, <1>3, <1>4, <1>5 DEF PathsAreNew, FoundPath, Visiting
<1>10. ResultsCounted' /\ ResultsBounded'
  BY <1>1 DEF ResultsCounted, ResultsBounded, Visiting
<1>11. EvidenceIsWalk'
  BY <1>1, EvidenceIsKept DEF TraversalIInv
<1>12. DepthsAscend' /\ SeenIsCrossed'
  BY <1>1, <1>3, <1>4, <1>5 DEF DepthsAscend, SeenIsCrossed, Visiting
<1>13. SteadyIsCrossed'
  <2>1. \A p : ~ Expanded(p)'
    BY <1>3, <1>4, <1>5 DEF Expanded, FoundPath
  <2> QED
    BY <1>1, <2>1 DEF SteadyIsCrossed
<1> QED
  BY <1>6, <1>8, <1>9, <1>10, <1>11, <1>12, <1>13 DEF TraversalIInv

LEMMA PopPreserves ==
  ASSUME TraversalIInv, Pop
  PROVE  TraversalIInv'
<1>1. /\ pc = "loop" /\ queue # <<>> /\ Len(results) < MaxFacts
      /\ current' = Head(queue) /\ queue' = Tail(queue)
      /\ pc' = IF Head(queue).depth > MaxDepth THEN "loop" ELSE "subject"
      /\ UNCHANGED <<fact, visible, query, seeds, seed, results, seen, evidence, steady, ever, cut>>
  BY DEF Pop, graph, history
<1>2. TraversalTypeOK /\ queue \in Seq(Entry) /\ results \in Seq(Result) /\ seed \in Entities
  BY <1>1 DEF TraversalIInv, TraversalTypeOK
<1>3. /\ queue' \in Seq(Entry) /\ current' \in RangeOf(queue) /\ current' = queue[1] /\ 1 \in DOMAIN queue
      /\ \A i \in DOMAIN queue' : i + 1 \in DOMAIN queue /\ i + 1 # 1 /\ queue'[i] = queue[i + 1]
      /\ RangeOf(queue)' \subseteq RangeOf(queue)
  <2>1. RangeOf(queue)' = RangeOf(Tail(queue))
    BY <1>1 DEF RangeOf
  <2> QED
    BY <1>1, <1>2, <2>1, TailRange
<1>4. current' \in Entry
  BY <1>2, <1>3 DEF RangeOf
<1>5. RangeOf(results)' = RangeOf(results)
  BY <1>1 DEF RangeOf
<1>6. TraversalTypeOK'
  BY <1>1, <1>2, <1>3, <1>4 DEF TraversalTypeOK, Visiting
<1>7. PathsAreWalks'
  <2>1. \A q \in RangeOf(queue) : Reached(q)'
    BY <1>1, WalksAreKept DEF TraversalIInv, PathsAreWalks
  <2>2. \A r \in RangeOf(results) : Traced(r)'
    BY <1>1, WalksAreKept DEF TraversalIInv, PathsAreWalks
  <2>3. pc' = "subject" => current'.depth <= MaxDepth
    BY <1>1, <1>4, TraversalConstants DEF Entry
  <2>4. Reached(current)'
    <3>1. \A q \in RangeOf(queue) : q = current' => Reached(current)'
      BY <2>1 DEF Reached, LeadsTo, Walks
    <3> QED
      BY <1>3, <3>1
  <2> QED
    BY <1>1, <1>3, <1>5, <2>1, <2>2, <2>3, <2>4 DEF PathsAreWalks, Visiting
<1>8. \A r \in RangeOf(results) : Parent(r) # current'.path
  BY <1>3 DEF TraversalIInv, PathsAreNew
<1>9. PathsAreNew'
  <2>1. \A p : FoundPath(p)' <=> FoundPath(p)
    BY <1>5 DEF FoundPath
  <2>2. \A i, j \in DOMAIN queue' : queue'[i].path = queue'[j].path => i = j
    <3> SUFFICES ASSUME NEW i \in DOMAIN queue', NEW j \in DOMAIN queue', queue'[i].path = queue'[j].path
                 PROVE  i = j
      OBVIOUS
    <3>1. i + 1 = j + 1
      BY <1>3 DEF TraversalIInv, PathsAreNew
    <3>2. i \in Int /\ j \in Int
      BY <1>3, LenProperties
    <3> QED
      BY <3>1, <3>2
  <2>3. \A q \in RangeOf(queue)' : q.path # current'.path
    <3> SUFFICES ASSUME NEW i \in DOMAIN queue' PROVE queue'[i].path # current'.path
      BY DEF RangeOf
    <3> QED
      BY <1>3 DEF TraversalIInv, PathsAreNew
  <2>4. FoundPath(current.path)'
    BY <1>3, <2>1 DEF TraversalIInv, PathsAreNew
  <2>5. \A r : Parent(r)' = Parent(r)
    BY DEF Parent
  <2> QED
    BY <1>3, <1>5, <1>8, <2>1, <2>2, <2>3, <2>4, <2>5 DEF TraversalIInv, PathsAreNew
<1>10. Cardinality(Earlier)' = Len(results) /\ Len(results) \in Nat
  <2>1. Earlier' = 1..Len(results) /\ Len(results) \in Nat
    BY <1>1, <1>2, <1>8, LenProperties DEF Earlier, Parent, RangeOf
  <2> QED
    BY <2>1, FS_Interval
<1>11. ResultsCounted' /\ ResultsBounded'
  BY <1>1, <1>10, TraversalConstants DEF ResultsCounted, ResultsBounded, Visiting
<1>12. EvidenceIsWalk'
  BY <1>1, EvidenceIsKept DEF TraversalIInv
<1>13. DepthsAscend'
  <2>1. ASSUME NEW i \in DOMAIN queue', NEW j \in DOMAIN queue'
        PROVE  /\ i < j => queue'[i].depth <= queue'[j].depth
               /\ queue'[j].depth <= queue'[i].depth + 1
    <3>1. i \in Nat /\ j \in Nat
      BY <1>3, LenProperties
    <3>2. i < j => i + 1 < j + 1
      BY <3>1
    <3> QED
      BY <1>3, <3>2 DEF TraversalIInv, DepthsAscend
  <2>2. \A q \in RangeOf(queue)', r \in RangeOf(results)' : r.depth <= q.depth
    BY <1>3, <1>5 DEF TraversalIInv, DepthsAscend
  <2>3. \A q \in RangeOf(queue)' : current'.depth <= q.depth /\ q.depth <= current'.depth + 1
    <3> SUFFICES ASSUME NEW i \in DOMAIN queue'
                 PROVE  current'.depth <= queue'[i].depth /\ queue'[i].depth <= current'.depth + 1
      BY DEF RangeOf
    <3>1. i + 1 \in DOMAIN queue /\ 1 < i + 1 /\ queue'[i] = queue[i + 1]
      BY <1>3, LenProperties
    <3> QED
      BY <1>3, <3>1 DEF TraversalIInv, DepthsAscend
  <2>4. \A r \in RangeOf(results)' : r.depth <= current'.depth
    BY <1>3, <1>5 DEF TraversalIInv, DepthsAscend
  <2> QED
    BY <2>1, <2>2, <2>3, <2>4 DEF DepthsAscend
<1>14. \A x, f, d : Crossed(x, f, d) => Crossed(x, f, d)'
  BY <1>1, <1>5, CrossedIsKept
<1>15. SeenIsCrossed'
  BY <1>1, <1>14 DEF TraversalIInv, SeenIsCrossed
<1>16. SteadyIsCrossed'
  <2> SUFFICES ASSUME ~ cut, NEW p \in Seq(Facts), NEW x \in Entities,
                      Expanded(p)', LeadsTo(p, seed, x)',
                      NEW f \in Edges(steady)', x \in {fact[f].subject, fact[f].object}'
               PROVE  Crossed(x, f, Len(p) + 1)'
    BY <1>1 DEF SteadyIsCrossed
  <2>1. LeadsTo(p, seed, x) /\ f \in Edges(steady) /\ x \in {fact[f].subject, fact[f].object}
    BY <1>1 DEF LeadsTo, Walks, Across, Edges, PredicateAsked, TemporalValid
  <2>2. FoundPath(p) /\ Len(p) < MaxDepth
    BY <1>5 DEF Expanded, FoundPath
  <2>3. p # current'.path
    <3>1. CASE pc' = "subject"
      BY <3>1 DEF Expanded, Visiting
    <3>2. CASE current'.depth > MaxDepth
      <4>1. current'.depth = Len(current'.path) + 1 /\ current'.path \in Seq(Facts)
        BY <1>3, <1>4 DEF TraversalIInv, PathsAreWalks, Reached, Entry
      <4> QED
        BY <2>2, <3>2, <4>1, LenProperties, TraversalConstants
    <3> QED
      BY <1>1, <3>1, <3>2
  <2>4. ASSUME NEW q \in RangeOf(queue) PROVE q.path # p
    <3>1. PICK i \in DOMAIN queue : q = queue[i]
      BY DEF RangeOf
    <3>2. CASE i = 1
      BY <1>3, <2>3, <3>1, <3>2
    <3>3. CASE i # 1
      <4>1. i - 1 \in DOMAIN queue' /\ queue'[i - 1] = q
        BY <1>1, <1>2, <3>1, <3>3, HeadTailProperties, LenProperties
      <4> QED
        BY <4>1 DEF Expanded, RangeOf
    <3> QED
      BY <3>2, <3>3
  <2>5. Expanded(p)
    BY <1>1, <2>2, <2>4 DEF Expanded, Visiting
  <2>6. Crossed(x, f, Len(p) + 1)
    BY <1>1, <2>1, <2>5 DEF TraversalIInv, SteadyIsCrossed
  <2> QED
    BY <1>14, <2>6
<1> QED
  BY <1>6, <1>7, <1>9, <1>11, <1>12, <1>13, <1>15, <1>16 DEF TraversalIInv

-----------------------------------------------------------------------------
\* One find_facts call, over the facts that have the current entity at one end.

LEMMA VisitPreserves ==
  ASSUME TraversalIInv, Visiting, pc' = (IF pc = "subject" THEN "object" ELSE "loop"),
         NEW STATE matching, matching \subseteq Facts,
         NEW STATE otherEnd, Visit(matching, otherEnd),
         \A f \in matching : /\ Found(f) /\ current.entity \in {fact[f].subject, fact[f].object}
                             /\ otherEnd[f] = Across(f, current.entity),
         \A f \in Facts :
             Found(f) /\ current.entity = (IF pc = "subject" THEN fact[f].subject ELSE fact[f].object)
                 => f \in matching
  PROVE  TraversalIInv'
<1>1. PICK found \in Fetches(matching) :
        \E new \in Listings({f \in found : <<current.entity, f>> \notin seen /\ TemporalValid(f)}) :
            /\ results' = results \o [i \in 1..Len(new) |->
                    [fact |-> new[i], depth |-> current.depth, path |-> PathTo(new, i)]]
            /\ queue' = queue \o [i \in 1..Len(new) |->
                    [entity |-> otherEnd[new[i]], depth |-> current.depth + 1,
                     path |-> PathTo(new, i)]]
            /\ seen' = seen \cup {<<current.entity, f>> : f \in RangeOf(new)}
            /\ cut' = (cut \/ found # matching)
            /\ UNCHANGED <<graph, query, seeds, seed, current, evidence, steady, ever>>
  BY DEF Visit
<1> DEFINE N == {f \in found : <<current.entity, f>> \notin seen /\ TemporalValid(f)}
<1>2. PICK new \in Listings(N) :
            /\ results' = results \o [i \in 1..Len(new) |->
                    [fact |-> new[i], depth |-> current.depth, path |-> PathTo(new, i)]]
            /\ queue' = queue \o [i \in 1..Len(new) |->
                    [entity |-> otherEnd[new[i]], depth |-> current.depth + 1,
                     path |-> PathTo(new, i)]]
            /\ seen' = seen \cup {<<current.entity, f>> : f \in RangeOf(new)}
            /\ cut' = (cut \/ found # matching)
            /\ UNCHANGED <<graph, query, seeds, seed, current, evidence, steady, ever>>
  BY <1>1
<1> DEFINE P(i) == Append(current.path, new[i])
           R == [i \in 1..Len(new) |->
                    [fact |-> new[i], depth |-> current.depth, path |-> P(i)]]
           E == [i \in 1..Len(new) |->
                    [entity |-> otherEnd[new[i]], depth |-> current.depth + 1, path |-> P(i)]]
<1>3. /\ results' = results \o R /\ queue' = queue \o E
      /\ seen' = seen \cup {<<current.entity, f>> : f \in RangeOf(new)}
      /\ cut' = (cut \/ found # matching)
      /\ UNCHANGED <<fact, visible, query, seeds, seed, current, evidence, steady, ever>>
  BY <1>2 DEF PathTo, graph
<1>4. /\ TraversalTypeOK /\ queue \in Seq(Entry) /\ results \in Seq(Result) /\ seed \in Entities
      /\ current \in Entry /\ visible \subseteq ever /\ ever \subseteq Facts
      /\ pc \in {"subject", "object"}
  BY DEF TraversalIInv, TraversalTypeOK, Visiting
<1>5. /\ current.entity \in Entities /\ current.depth \in Nat /\ current.path \in Seq(Facts)
      /\ Reached(current) /\ current.depth <= MaxDepth
  BY <1>4 DEF Entry, TraversalIInv, PathsAreWalks
\* What was fetched.
<1>6. /\ N \subseteq matching /\ N \subseteq Facts /\ Cardinality(N) \in Nat
      /\ Cardinality(N) <= FetchLimit /\ IsFiniteSet(N)
  <2>1. found \subseteq matching /\ IsFiniteSet(Facts) /\ FetchLimit \in Nat
    BY TraversalConstants DEF Fetches
  <2>2. IsFiniteSet(matching) /\ IsFiniteSet(found)
    BY <2>1, FS_Subset
  <2>3. Cardinality(found) <= FetchLimit
    BY <2>1, <2>2, FS_CardinalityType DEF Fetches
  <2>4. IsFiniteSet(N) /\ Cardinality(N) <= Cardinality(found)
    <3>1. N \in SUBSET found
      OBVIOUS
    <3> QED
      BY <2>2, <3>1, FS_Subset
  <2> QED
    BY <2>1, <2>2, <2>3, <2>4, FS_CardinalityType
<1>7. /\ Len(new) \in Nat /\ Len(new) <= FetchLimit /\ DOMAIN new = 1..Len(new)
      /\ \A i \in 1..Len(new) : new[i] \in N
      /\ \A i, j \in 1..Len(new) : new[i] = new[j] => i = j
      /\ \A f \in N : \E i \in 1..Len(new) : new[i] = f
  <2> HIDE DEF N
  <2>1. /\ new \in [1..Cardinality(N) -> N]
        /\ \A i, j \in DOMAIN new : new[i] = new[j] => i = j
    BY <1>2 DEF Listings, N
  <2>2. new \in Seq(N) /\ Len(new) = Cardinality(N)
    BY <1>6, <2>1
  <2>3. new \in Surjection(1..Cardinality(N), N)
    <3>1. new \in Injection(1..Cardinality(N), N)
      BY <2>1 DEF Injection, IsInjective
    <3>2. Cardinality(1..Cardinality(N)) = Cardinality(N)
      BY <1>6, FS_Interval
    <3> QED
      BY <1>6, <3>1, <3>2, FS_Injection
  <2> QED
    BY <1>6, <2>1, <2>2, <2>3 DEF Surjection
<1>8. ASSUME NEW i \in 1..Len(new)
      PROVE  /\ new[i] \in Facts /\ new[i] \in Edges(ever)
             /\ <<current.entity, new[i]>> \notin seen
             /\ current.entity \in {fact[new[i]].subject, fact[new[i]].object}
             /\ otherEnd[new[i]] = Across(new[i], current.entity)
             /\ otherEnd[new[i]] \in Entities
  <2>1. new[i] \in N /\ new[i] \in matching /\ new[i] \in Facts
    BY <1>6, <1>7
  <2>2. /\ Found(new[i]) /\ current.entity \in {fact[new[i]].subject, fact[new[i]].object}
        /\ otherEnd[new[i]] = Across(new[i], current.entity)
    BY <2>1
  <2>3. /\ <<current.entity, new[i]>> \notin seen /\ TemporalValid(new[i])
    BY <2>1
  <2>4. otherEnd[new[i]] \in Entities
    BY <1>4, <2>1, <2>2, FactEnds DEF Across
  <2> QED
    BY <1>4, <2>1, <2>2, <2>3, <2>4 DEF Found, Edges
<1> HIDE DEF N
<1>9. ASSUME NEW i \in 1..Len(new)
      PROVE  /\ P(i) \in Seq(Facts) /\ P(i) # <<>> /\ P(i) # current.path
             /\ Len(P(i)) = current.depth /\ P(i)[Len(P(i))] = new[i]
             /\ SubSeq(P(i), 1, Len(P(i)) - 1) = current.path
             /\ RangeOf(P(i)) \subseteq Edges(ever)
             /\ LeadsTo(P(i), seed, otherEnd[new[i]]) /\ IsWalk(P(i), seed)
  <2>1. /\ current.depth = Len(current.path) + 1 /\ RangeOf(current.path) \subseteq Edges(ever)
        /\ LeadsTo(current.path, seed, current.entity)
    BY <1>5 DEF Reached
  <2>2. /\ P(i) \in Seq(Facts) /\ P(i) # <<>> /\ P(i) # current.path
        /\ Len(P(i)) = Len(current.path) + 1 /\ P(i)[Len(current.path) + 1] = new[i]
        /\ SubSeq(P(i), 1, Len(P(i)) - 1) = current.path
        /\ RangeOf(P(i)) = RangeOf(current.path) \cup {new[i]}
    <3>1. new[i] \in Facts /\ current.path \in Seq(Facts)
      BY <1>5, <1>8
    <3> QED
      BY <3>1, AppendPath
  <2>3. LeadsTo(P(i), seed, Across(new[i], current.entity)) /\ IsWalk(P(i), seed)
    BY <1>4, <1>5, <1>8, <2>1, WalkGoesOn
  <2> QED
    BY <1>8, <2>1, <2>2, <2>3
<1>10. ASSUME NEW i \in 1..Len(new), NEW j \in 1..Len(new), P(i) = P(j) PROVE i = j
  <2>1. new[i] = new[j]
    BY <1>9, <1>10
  <2> QED
    BY <1>7, <2>1
<1> HIDE DEF P
\* The new results and the new entries.
<1>11. /\ DOMAIN R = 1..Len(new) /\ R \in Seq(Result)
       /\ \A i \in 1..Len(new) : R[i].fact = new[i] /\ R[i].depth = current.depth /\ R[i].path = P(i)
  <2>1. \A i \in 1..Len(new) : R[i] \in Result
    BY <1>5, <1>8, <1>9 DEF Result
  <2> QED
    BY <1>7, <2>1
<1>12. /\ DOMAIN E = 1..Len(new) /\ E \in Seq(Entry)
       /\ \A i \in 1..Len(new) : /\ E[i].entity = otherEnd[new[i]] /\ E[i].path = P(i)
                                 /\ E[i].depth = current.depth + 1
  <2>1. ASSUME NEW i \in 1..Len(new) PROVE E[i] \in Entry
    <3>1. otherEnd[new[i]] \in Entities
      BY <1>8
    <3>2. current.depth + 1 \in Nat
      BY <1>5
    <3>3. P(i) \in Seq(Facts)
      BY <1>9
    <3> QED
      BY <3>1, <3>2, <3>3 DEF Entry
  <2> QED
    BY <1>7, <2>1
<1>13. Len(R) = Len(new) /\ Len(E) = Len(new)
  BY <1>7, <1>11, <1>12
<1> HIDE DEF R, E
<1>14. /\ results' \in Seq(Result) /\ Len(results') = Len(results) + Len(new)
       /\ RangeOf(results)' = RangeOf(results) \cup RangeOf(R)
       /\ \A i \in DOMAIN results : i \in DOMAIN results' /\ results'[i] = results[i]
       /\ \A i \in DOMAIN results' : i \in DOMAIN results \/ results'[i] \in RangeOf(R)
       /\ Len(results) \in Nat /\ DOMAIN results = 1..Len(results)
  <2>1. RangeOf(results)' = RangeOf(results \o R)
    BY <1>3 DEF RangeOf
  <2>2. /\ results' \in Seq(Result) /\ RangeOf(results \o R) = RangeOf(results) \cup RangeOf(R)
        /\ \A i \in DOMAIN results : i \in DOMAIN results' /\ results'[i] = results[i]
        /\ \A i \in DOMAIN results' :
              \/ i \in DOMAIN results
              \/ i - Len(results) \in DOMAIN R /\ results'[i] = R[i - Len(results)]
    BY <1>3, <1>4, <1>11, ConcatRange
  <2>3. Len(results') = Len(results) + Len(R)
    BY <1>3, <1>4, <1>11, ConcatProperties
  <2> QED
    BY <1>4, <1>13, <2>1, <2>2, <2>3, LenProperties DEF RangeOf
<1>15. /\ queue' \in Seq(Entry) /\ RangeOf(queue)' = RangeOf(queue) \cup RangeOf(E)
       /\ \A i \in DOMAIN queue' :
             \/ i \in DOMAIN queue /\ queue'[i] = queue[i]
             \/ i - Len(queue) \in DOMAIN E /\ queue'[i] = E[i - Len(queue)]
       /\ Len(queue) \in Nat /\ DOMAIN queue' \subseteq Nat
  <2>1. RangeOf(queue)' = RangeOf(queue \o E)
    BY <1>3 DEF RangeOf
  <2> QED
    BY <1>3, <1>4, <1>12, <2>1, ConcatRange, LenProperties
<1>16. TraversalTypeOK'
  <2>1. seen' \subseteq Entities \X Facts
    <3>1. RangeOf(new) \subseteq Facts
      <4> SUFFICES ASSUME NEW i \in DOMAIN new PROVE new[i] \in Facts
        BY DEF RangeOf
      <4> QED
        BY <1>7, <1>8
    <3> QED
      BY <1>3, <1>4, <1>5, <3>1 DEF TraversalTypeOK
  <2> QED
    BY <1>3, <1>4, <1>14, <1>15, <2>1 DEF TraversalTypeOK, Visiting
<1>17. /\ \A q : Reached(q) => Reached(q)'
       /\ \A r : Traced(r) => Traced(r)'
  BY <1>3, WalksAreKept
<1>18. PathsAreWalks'
  <2>1. ASSUME NEW q \in RangeOf(E) PROVE Reached(q)'
    <3>1. PICK i \in 1..Len(new) : q = E[i]
      BY <1>12 DEF RangeOf
    <3>2. Reached(q)
      BY <1>9, <1>12, <3>1 DEF Reached
    <3> QED
      BY <1>17, <3>2
  <2>2. ASSUME NEW r \in RangeOf(R) PROVE Traced(r)'
    <3>1. PICK i \in 1..Len(new) : r = R[i]
      BY <1>11 DEF RangeOf
    <3>2. current.depth \in 1..MaxDepth
      <4>1. current.depth = Len(current.path) + 1 /\ Len(current.path) \in Nat
        BY <1>5, LenProperties DEF Reached
      <4> QED
        BY <1>5, <4>1, TraversalConstants
    <3>3. Traced(r)
      BY <1>9, <1>11, <3>1, <3>2 DEF Traced
    <3> QED
      BY <1>17, <3>3
  <2>3. Reached(current)'
    <3>1. RangeOf(current.path)' \subseteq Edges(ever)'
      <4>1. RangeOf(current.path)' = RangeOf(current.path)
        BY <1>3 DEF RangeOf
      <4> QED
        BY <1>3, <1>5, <4>1, WalksAreKept DEF Reached
    <3>2. LeadsTo(current.path, seed, current.entity)'
      BY <1>3, <1>5 DEF Reached, LeadsTo, Walks, Across
    <3> QED
      BY <1>3, <1>5, <3>1, <3>2 DEF Reached
  <2>4. \A q \in RangeOf(queue) : Reached(q)'
    BY <1>17 DEF TraversalIInv, PathsAreWalks
  <2>5. \A r \in RangeOf(results) : Traced(r)'
    BY <1>17 DEF TraversalIInv, PathsAreWalks
  <2> QED
    BY <1>3, <1>5, <1>14, <1>15, <2>1, <2>2, <2>3, <2>4, <2>5 DEF PathsAreWalks
<1>19. \A r \in RangeOf(R) : Parent(r) = current.path
  <2> SUFFICES ASSUME NEW r \in RangeOf(R) PROVE Parent(r) = current.path
    OBVIOUS
  <2>1. PICK i \in 1..Len(new) : r = R[i]
    BY <1>11 DEF RangeOf
  <2> QED
    BY <1>9, <1>11, <2>1 DEF Parent
\* The new paths were not found before.
<1>20. ASSUME NEW i \in 1..Len(new) PROVE ~ FoundPath(P(i))
  <2>1. ASSUME NEW r \in RangeOf(results), r.path = P(i) PROVE FALSE
    <3>1. Parent(r) = current.path
      BY <1>9, <2>1 DEF Parent
    <3>2. r.fact = new[i]
      BY <1>9, <2>1 DEF TraversalIInv, PathsAreWalks, Traced
    <3>3. <<current.entity, r.fact>> \in seen
      BY <3>1 DEF TraversalIInv, PathsAreNew
    <3> QED
      BY <1>8, <3>2, <3>3
  <2> QED
    BY <1>9, <2>1 DEF FoundPath
<1>21. PathsAreNew'
  <2>1. \A p : FoundPath(p) => FoundPath(p)'
    BY <1>14 DEF FoundPath
  <2>2. ASSUME NEW q \in RangeOf(E)
        PROVE  \E i \in 1..Len(new) : q = E[i] /\ q.path = P(i)
    BY <1>12 DEF RangeOf
  <2>3. \A q \in RangeOf(queue)' : FoundPath(q.path)'
    <3>1. ASSUME NEW q \in RangeOf(E) PROVE FoundPath(q.path)'
      <4>1. PICK i \in 1..Len(new) : q.path = P(i)
        BY <2>2
      <4>2. R[i] \in RangeOf(results)' /\ R[i].path = q.path
        BY <1>11, <1>14, <4>1 DEF RangeOf
      <4> QED
        BY <4>2 DEF FoundPath
    <3>2. ASSUME NEW q \in RangeOf(queue) PROVE FoundPath(q.path)'
      <4>1. FoundPath(q.path)
        BY DEF TraversalIInv, PathsAreNew
      <4> QED
        BY <2>1, <4>1
    <3> QED
      BY <1>15, <3>1, <3>2
  <2>4. \A r : Parent(r)' = Parent(r)
    BY DEF Parent
  <2>5. FoundPath(current.path) /\ \A p : p = current.path => FoundPath(p)'
    BY <2>1 DEF TraversalIInv, PathsAreNew
  <2>6. \A r \in RangeOf(results)' : FoundPath(Parent(r))'
    <3>1. ASSUME NEW r \in RangeOf(results)' PROVE \A p : p = Parent(r) => FoundPath(p)'
      <4>1. CASE r \in RangeOf(results)
        BY <2>1, <4>1 DEF TraversalIInv, PathsAreNew
      <4>2. CASE r \in RangeOf(R)
        BY <1>19, <2>5, <4>2
      <4> QED
        BY <1>14, <3>1, <4>1, <4>2
    <3> QED
      BY <2>4, <3>1
  <2>7. ASSUME NEW i \in DOMAIN queue', NEW j \in DOMAIN queue', queue'[i].path = queue'[j].path
        PROVE  i = j
    <3>1. ASSUME NEW k \in DOMAIN queue, NEW l \in 1..Len(new) PROVE queue[k].path # E[l].path
      <4>1. FoundPath(queue[k].path)
        BY DEF TraversalIInv, PathsAreNew, RangeOf
      <4> QED
        BY <1>12, <1>20, <4>1
    <3>2. ASSUME NEW k \in 1..Len(new), NEW l \in 1..Len(new), E[k].path = E[l].path PROVE k = l
      BY <1>10, <1>12, <3>2
    <3>3. ASSUME NEW k \in DOMAIN queue, NEW l \in DOMAIN queue, queue[k].path = queue[l].path PROVE k = l
      BY <3>3 DEF TraversalIInv, PathsAreNew
    <3>4. i \in Nat /\ j \in Nat /\ Len(queue) \in Nat
      BY <1>15
    <3> QED
      BY <1>12, <1>15, <2>7, <3>1, <3>2, <3>3, <3>4
  <2>8. \A q \in RangeOf(queue)', r \in RangeOf(results)' : Parent(r) # q.path
    <3>1. ASSUME NEW q \in RangeOf(E), NEW r \in RangeOf(results)' PROVE Parent(r) # q.path
      <4>1. PICK i \in 1..Len(new) : q.path = P(i)
        BY <2>2
      <4>2. CASE r \in RangeOf(results)
        <5>1. FoundPath(Parent(r))
          BY <4>2 DEF TraversalIInv, PathsAreNew
        <5> QED
          BY <1>20, <4>1, <5>1
      <4>3. CASE r \in RangeOf(R)
        BY <1>9, <1>19, <4>1, <4>3
      <4> QED
        BY <1>14, <3>1, <4>2, <4>3
    <3>2. ASSUME NEW q \in RangeOf(queue), NEW r \in RangeOf(results)' PROVE Parent(r) # q.path
      <4>1. CASE r \in RangeOf(results)
        BY <4>1 DEF TraversalIInv, PathsAreNew
      <4>2. CASE r \in RangeOf(R)
        BY <1>19, <4>2 DEF TraversalIInv, PathsAreNew
      <4> QED
        BY <1>14, <3>2, <4>1, <4>2
    <3> QED
      BY <1>15, <3>1, <3>2
  <2>9. \A q \in RangeOf(queue)' : q.path # current.path
    <3>1. ASSUME NEW q \in RangeOf(E) PROVE q.path # current.path
      BY <1>9, <2>2
    <3>2. ASSUME NEW q \in RangeOf(queue) PROVE q.path # current.path
      BY DEF TraversalIInv, PathsAreNew
    <3> QED
      BY <1>15, <3>1, <3>2
  <2>10. ASSUME NEW r \in RangeOf(results)', Parent(r) = current.path
         PROVE  <<current.entity, r.fact>> \in seen'
    <3>1. CASE r \in RangeOf(results)
      BY <1>3, <2>10, <3>1 DEF TraversalIInv, PathsAreNew
    <3>2. CASE r \in RangeOf(R)
      <4>1. PICK i \in 1..Len(new) : r = R[i]
        BY <1>11, <3>2 DEF RangeOf
      <4>2. r.fact \in RangeOf(new)
        BY <1>7, <1>11, <4>1 DEF RangeOf
      <4> QED
        BY <1>3, <4>2
    <3> QED
      BY <1>14, <2>10, <3>1, <3>2
  <2>11. FoundPath(current.path)'
    BY <1>3, <2>5
  <2> QED
    BY <1>3, <2>3, <2>4, <2>6, <2>7, <2>8, <2>9, <2>10, <2>11 DEF PathsAreNew
<1>22. Earlier' = Earlier
  <2>1. \A i \in DOMAIN results : Parent(results[i])' = Parent(results[i])
    BY <1>14 DEF Parent
  <2>2. \A i \in DOMAIN results' : Parent(results[i])' # current.path => i \in DOMAIN results
    <3> SUFFICES ASSUME NEW i \in DOMAIN results', results'[i] \in RangeOf(R)
                 PROVE  Parent(results[i])' = current.path
      BY <1>14
    <3>1. \A r : r = results'[i] => Parent(r) = Parent(results[i])'
      BY DEF Parent
    <3> QED
      BY <1>19, <3>1
  <2>3. \A i \in DOMAIN results : i \in DOMAIN results'
    BY <1>14
  <2>4. Earlier' = {i \in DOMAIN results' : Parent(results[i])' # current.path}
    BY <1>3 DEF Earlier
  <2> HIDE DEF Parent
  <2> QED
    BY <2>1, <2>2, <2>3, <2>4 DEF Earlier
<1>23. ResultsCounted' /\ ResultsBounded'
  <2>1. /\ Cardinality(Earlier) \in Nat /\ Cardinality(Earlier) < MaxFacts
        /\ Len(results) <= Cardinality(Earlier) + IF pc = "subject" THEN 0 ELSE FetchLimit
    <3>1. Earlier \in SUBSET (1..Len(results)) /\ IsFiniteSet(1..Len(results))
      BY <1>14, FS_Interval DEF Earlier
    <3>2. Cardinality(Earlier) \in Nat
      BY <3>1, FS_Subset, FS_CardinalityType
    <3> QED
      BY <3>2 DEF TraversalIInv, ResultsCounted
  <2>2. /\ Cardinality(Earlier)' = Cardinality(Earlier) /\ Len(results') = Len(results) + Len(new)
        /\ FetchLimit \in Nat
    BY <1>14, <1>22, TraversalConstants
  <2>3. CASE pc = "subject"
    BY <1>7, <1>14, <2>1, <2>2, <2>3 DEF ResultsCounted, ResultsBounded, Visiting
  <2>4. CASE pc = "object"
    BY <1>7, <1>14, <2>1, <2>2, <2>4 DEF ResultsCounted, ResultsBounded, Visiting
  <2> QED
    BY <1>4, <2>3, <2>4
<1>24. EvidenceIsWalk'
  BY <1>3, EvidenceIsKept DEF TraversalIInv
<1>25. DepthsAscend'
  <2>1. ASSUME NEW q \in RangeOf(E) PROVE q.depth = current.depth + 1
    BY <1>12 DEF RangeOf
  <2>2. ASSUME NEW r \in RangeOf(R) PROVE r.depth = current.depth
    BY <1>11 DEF RangeOf
  <2>3. ASSUME NEW q \in RangeOf(queue)
        PROVE  q.depth \in Nat /\ current.depth <= q.depth /\ q.depth <= current.depth + 1
    <3>1. q \in Entry
      BY <1>4 DEF RangeOf
    <3> QED
      BY <3>1 DEF Entry, TraversalIInv, DepthsAscend
  <2>4. ASSUME NEW q \in RangeOf(queue)'
        PROVE  current.depth <= q.depth /\ q.depth <= current.depth + 1 /\ q.depth \in Nat
    BY <1>5, <1>15, <2>1, <2>3, <2>4
  <2>5. ASSUME NEW r \in RangeOf(results)' PROVE r.depth <= current.depth /\ r.depth \in Nat
    <3>1. r \in Result
      BY <1>14, <2>5 DEF RangeOf
    <3> QED
      BY <1>5, <1>14, <2>2, <2>5, <3>1 DEF TraversalIInv, DepthsAscend, Result
  <2>6. ASSUME NEW i \in DOMAIN queue', NEW j \in DOMAIN queue'
        PROVE  /\ i < j => queue'[i].depth <= queue'[j].depth
               /\ queue'[j].depth <= queue'[i].depth + 1
    <3>1. queue'[i] \in RangeOf(queue)' /\ queue'[j] \in RangeOf(queue)'
      BY DEF RangeOf
    <3>2. queue'[j].depth <= queue'[i].depth + 1
      BY <1>5, <2>4, <3>1
    <3>3. ASSUME i < j PROVE queue'[i].depth <= queue'[j].depth
      <4>1. CASE j \in DOMAIN queue /\ queue'[j] = queue[j]
        <5>1. i \in DOMAIN queue /\ queue'[i] = queue[i]
          BY <1>4, <1>12, <1>15, <3>3, <4>1, LenProperties
        <5> QED
          BY <3>3, <4>1, <5>1 DEF TraversalIInv, DepthsAscend
      <4>2. CASE j - Len(queue) \in DOMAIN E /\ queue'[j] = E[j - Len(queue)]
        <5>1. queue'[j].depth = current.depth + 1
          BY <1>12, <4>2
        <5> QED
          BY <2>4, <3>1, <5>1
      <4> QED
        BY <1>15, <4>1, <4>2
    <3> QED
      BY <3>2, <3>3
  <2>7. \A q \in RangeOf(queue)', r \in RangeOf(results)' : r.depth <= q.depth
    BY <1>5, <2>4, <2>5
  <2> QED
    BY <1>3, <2>4, <2>5, <2>6, <2>7 DEF DepthsAscend
<1>26. \A x, f, d : Crossed(x, f, d) => Crossed(x, f, d)'
  BY <1>3, <1>14, CrossedIsKept
<1>27. ASSUME NEW i \in 1..Len(new) PROVE \A x : x = current.entity => Crossed(x, new[i], current.depth)'
  <2>1. R[i] \in RangeOf(R)
    BY <1>11 DEF RangeOf
  <2>2. R[i].fact = new[i] /\ R[i].depth <= current.depth /\ Parent(R[i]) = current.path
    BY <1>5, <1>11, <1>19, <2>1
  <2>3. \A p, x : LeadsTo(p, seed, x)' <=> LeadsTo(p, seed, x)
    BY <1>3 DEF LeadsTo, Walks, Across
  <2>4. PICK r \in RangeOf(results)' : r.fact = new[i] /\ r.depth <= current.depth /\ Parent(r) = current.path
    BY <1>14, <2>1, <2>2
  <2>5. LeadsTo(current.path, seed, current.entity)
    BY <1>5 DEF Reached
  <2>6. \A p, x : p = Parent(r) /\ LeadsTo(p, seed, x)' => LeadsTo(Parent(r), seed, x)'
    BY DEF Parent
  <2>7. \A x : x = current.entity => LeadsTo(Parent(r), seed, x)'
    BY <2>3, <2>4, <2>5, <2>6
  <2> QED
    BY <1>3, <2>4, <2>7 DEF Crossed
<1>28. SeenIsCrossed'
  <2>1. \A x, f : Crossed(x, f, current.depth)' => Crossed(x, f, MaxDepth)'
    <3>1. \A r \in RangeOf(results)' : r.depth \in Nat
      <4>1. \A r \in RangeOf(results)' : r \in Result
        BY <1>14 DEF RangeOf
      <4> QED
        BY <4>1 DEF Result
    <3> QED
      BY <1>3, <1>5, <3>1, TraversalConstants DEF Crossed
  <2> SUFFICES ASSUME NEW s \in seen' PROVE Crossed(s[1], s[2], MaxDepth)'
    BY DEF SeenIsCrossed
  <2>2. CASE s \in seen
    BY <1>26, <2>2 DEF TraversalIInv, SeenIsCrossed
  <2>3. ASSUME NEW f \in RangeOf(new), s = <<current.entity, f>> PROVE Crossed(s[1], s[2], MaxDepth)'
    <3>1. PICK i \in 1..Len(new) : f = new[i]
      BY <1>7 DEF RangeOf
    <3>2. s[1] = current.entity /\ s[2] = new[i]
      BY <2>3, <3>1
    <3> QED
      BY <1>27, <2>1, <3>2
  <2> QED
    BY <1>3, <2>2, <2>3
\* Unless the fetch was cut short, the steady facts at this end have now been crossed.
<1>29. ASSUME ~ cut', NEW f \in Edges(steady),
              current.entity = (IF pc = "subject" THEN fact[f].subject ELSE fact[f].object)
       PROVE  \A x : x = current.entity => Crossed(x, f, current.depth)'
  <2>1. f \in Facts /\ Found(f) /\ TemporalValid(f)
    BY <1>4 DEF Edges, Found, TraversalTypeOK
  <2>2. f \in found
    BY <1>3, <1>29, <2>1
  <2>3. CASE <<current.entity, f>> \in seen
    <3>1. Crossed(current.entity, f, MaxDepth)
      <4>1. <<current.entity, f>>[1] = current.entity /\ <<current.entity, f>>[2] = f
        OBVIOUS
      <4> QED
        BY <2>3, <4>1 DEF TraversalIInv, SeenIsCrossed
    <3>2. Crossed(current.entity, f, current.depth)
      BY <1>4, <3>1 DEF TraversalIInv, DepthsAscend, Crossed, Visiting
    <3> QED
      BY <1>3, <1>26, <3>2
  <2>4. CASE <<current.entity, f>> \notin seen
    <3>1. f \in N
      BY <2>1, <2>2, <2>4 DEF N
    <3>2. PICK i \in 1..Len(new) : new[i] = f
      BY <1>7, <3>1
    <3> QED
      BY <1>27, <3>2
  <2> QED
    BY <2>3, <2>4
<1>30. SteadyIsCrossed'
  <2>1. Edges(steady)' = Edges(steady) /\ \A p, x : LeadsTo(p, seed, x)' <=> LeadsTo(p, seed, x)
    BY <1>3 DEF LeadsTo, Walks, Across, Edges, PredicateAsked, TemporalValid
  <2>2. ASSUME ~ cut', NEW p \in Seq(Facts), NEW x \in Entities,
               Expanded(p)', LeadsTo(p, seed, x)',
               NEW f \in Edges(steady), x \in {fact[f].subject, fact[f].object}
        PROVE  Crossed(x, f, Len(p) + 1)'
    <3>1. CASE p = current.path
      <4>1. pc = "object"
        BY <1>3, <1>4, <2>2, <3>1 DEF Expanded, Visiting
      <4>2. LeadsTo(current.path, seed, current.entity) /\ current.depth = Len(current.path) + 1
        BY <1>5 DEF Reached
      <4>3. x = current.entity
        BY <1>5, <2>1, <2>2, <3>1, <4>2, OneEnd
      <4>4. CASE fact[f].subject = x
        <5>1. Crossed(current.entity, f, current.depth)
          BY <1>3, <2>2, <4>1, <4>3, <4>4 DEF TraversalIInv, SteadyIsCrossed
        <5> QED
          BY <1>26, <3>1, <4>2, <4>3, <5>1
      <4>5. CASE fact[f].object = x
        <5>1. \A y : y = current.entity => Crossed(y, f, current.depth)'
          BY <1>29, <2>2, <4>1, <4>3, <4>5
        <5>2. Crossed(x, f, current.depth)'
          BY <4>3, <5>1
        <5> QED
          BY <1>3, <3>1, <4>2, <5>2
      <4> QED
        BY <2>2, <4>4, <4>5
    <3>2. CASE p # current.path
      <4>1. FoundPath(p)
        <5>1. CASE p = <<>>
          BY <5>1 DEF FoundPath
        <5>2. ASSUME NEW r \in RangeOf(R), r.path = p PROVE FALSE
          <6>1. PICK i \in 1..Len(new) : r = R[i]
            BY <1>11 DEF RangeOf
          <6>2. E[i] \in RangeOf(queue)' /\ E[i].path = p
            BY <1>11, <1>12, <1>15, <5>2, <6>1 DEF RangeOf
          <6> QED
            BY <2>2, <6>2 DEF Expanded
        <5> QED
          BY <1>14, <2>2, <5>1, <5>2 DEF Expanded, FoundPath
      <4>2. Expanded(p)
        BY <1>15, <2>2, <3>2, <4>1 DEF Expanded
      <4>3. Crossed(x, f, Len(p) + 1)
        BY <1>3, <1>4, <2>1, <2>2, <4>2 DEF TraversalIInv, SteadyIsCrossed
      <4> QED
        BY <1>26, <4>3
    <3> QED
      BY <3>1, <3>2
  <2>3. ASSUME ~ cut', pc' = "object", NEW f \in Edges(steady), fact[f].subject = current.entity
        PROVE  Crossed(current.entity, f, current.depth)'
    <3>1. pc = "subject"
      BY <2>3
    <3> QED
      BY <1>3, <1>29, <2>3, <3>1
  <2> QED
    BY <1>3, <2>1, <2>2, <2>3 DEF SteadyIsCrossed
<1> QED
  BY <1>16, <1>18, <1>21, <1>23, <1>24, <1>25, <1>28, <1>30 DEF TraversalIInv

LEMMA VisitSubjectPreserves ==
  ASSUME TraversalIInv, VisitSubject
  PROVE  TraversalIInv'
<1> DEFINE matching == {f \in Facts : Found(f) /\ fact[f].subject = current.entity}
           otherEnd == [f \in Facts |-> fact[f].object]
<1>1. Visiting /\ pc' = (IF pc = "subject" THEN "object" ELSE "loop") /\ Visit(matching, otherEnd)
  BY DEF VisitSubject, Visiting
<1>2. \A f \in matching : /\ Found(f) /\ current.entity \in {fact[f].subject, fact[f].object}
                          /\ otherEnd[f] = Across(f, current.entity)
  BY DEF Across
<1>3. /\ matching \subseteq Facts
      /\ \A f \in Facts :
            Found(f) /\ current.entity = (IF pc = "subject" THEN fact[f].subject ELSE fact[f].object)
                => f \in matching
  BY DEF VisitSubject
<1> HIDE DEF matching, otherEnd
<1> QED
  BY <1>1, <1>2, <1>3, VisitPreserves

LEMMA VisitObjectPreserves ==
  ASSUME TraversalIInv, VisitObject
  PROVE  TraversalIInv'
<1> DEFINE matching == {f \in Facts : Found(f) /\ fact[f].object = current.entity}
           otherEnd == [f \in Facts |-> fact[f].subject]
<1>1. Visiting /\ pc' = (IF pc = "subject" THEN "object" ELSE "loop") /\ Visit(matching, otherEnd)
  BY DEF VisitObject, Visiting
<1>2. \A f \in matching : /\ Found(f) /\ current.entity \in {fact[f].subject, fact[f].object}
                          /\ otherEnd[f] = Across(f, current.entity)
  BY DEF Across
<1>3. /\ matching \subseteq Facts
      /\ \A f \in Facts :
            Found(f) /\ current.entity = (IF pc = "subject" THEN fact[f].subject ELSE fact[f].object)
                => f \in matching
  BY DEF VisitObject
<1> HIDE DEF matching, otherEnd
<1> QED
  BY <1>1, <1>2, <1>3, VisitPreserves

-----------------------------------------------------------------------------
\* The other steps.

LEMMA NewIsKept ==
  ASSUME PathsAreNew, UNCHANGED <<queue, results, current, seen>>, Visiting' => Visiting
  PROVE  PathsAreNew'
<1>1. RangeOf(queue)' = RangeOf(queue) /\ RangeOf(results)' = RangeOf(results)
  BY DEF RangeOf
<1>2. \A p : FoundPath(p) => FoundPath(p)'
  BY <1>1 DEF FoundPath
<1>3. \A r : Parent(r)' = Parent(r)
  BY DEF Parent
<1>4. Visiting' => FoundPath(current.path)'
  BY <1>2 DEF PathsAreNew
<1>5. \A r \in RangeOf(results)' : FoundPath(Parent(r))'
  <2>1. \A r \in RangeOf(results) : \A p : p = Parent(r) => FoundPath(p)'
    BY <1>2 DEF PathsAreNew
  <2> QED
    BY <1>1, <1>3, <2>1
<1>6. \A q \in RangeOf(queue)' : FoundPath(q.path)'
  BY <1>1, <1>2 DEF PathsAreNew
<1> QED
  BY <1>1, <1>3, <1>4, <1>5, <1>6 DEF PathsAreNew

LEMMA CollectPreserves ==
  ASSUME TraversalIInv, Collect
  PROVE  TraversalIInv'
<1> DEFINE I == {i \in DOMAIN results : IsFirst(i)}
<1>1. PICK firsts \in Ascending(I) :
         evidence' = evidence \o [k \in 1..Len(firsts) |->
              [fact |-> results[firsts[k]].fact, path |-> results[firsts[k]].path, seed |-> seed]]
  BY DEF Collect
<1> DEFINE F == [k \in 1..Len(firsts) |->
              [fact |-> results[firsts[k]].fact, path |-> results[firsts[k]].path, seed |-> seed]]
<1>2. /\ pc = "loop" /\ pc' = "seeds" /\ evidence' = evidence \o F
      /\ UNCHANGED <<fact, visible, query, seeds, seed, current, queue, results, seen, steady, ever, cut>>
  BY <1>1 DEF Collect, TraversalEnded, graph, history
<1>3. /\ TraversalTypeOK /\ results \in Seq(Result) /\ seed \in Entities
      /\ evidence \in Seq([fact : Facts, path : Seq(Facts), seed : Entities])
  BY <1>2 DEF TraversalIInv, TraversalTypeOK
<1>4. Len(results) \in Nat /\ DOMAIN results = 1..Len(results) /\ \A i \in DOMAIN results : results[i] \in Result
  BY <1>3, LenProperties, ElementOfSeq
\* The first results are different ones.
<1>5. /\ Len(firsts) \in Nat /\ DOMAIN firsts = 1..Len(firsts)
      /\ \A k \in 1..Len(firsts) : firsts[k] \in DOMAIN results /\ IsFirst(firsts[k])
      /\ \A k, l \in 1..Len(firsts) : k < l => firsts[k] < firsts[l]
  <2>1. I \in SUBSET (1..Len(results)) /\ IsFiniteSet(1..Len(results))
    BY <1>4, FS_Interval
  <2>2. Cardinality(I) \in Nat
    BY <2>1, FS_Subset, FS_CardinalityType
  <2>3. \A i \in I : i \in DOMAIN results /\ IsFirst(i)
    OBVIOUS
  <2> HIDE DEF I
  <2>4. /\ firsts \in [1..Cardinality(I) -> I]
        /\ \A k, l \in DOMAIN firsts : k < l => firsts[k] < firsts[l]
    BY <1>1 DEF Ascending
  <2>5. firsts \in Seq(I) /\ Len(firsts) = Cardinality(I)
    BY <2>2, <2>4
  <2> QED
    BY <2>2, <2>3, <2>4, <2>5
<1>6. ASSUME NEW k \in 1..Len(firsts), NEW l \in 1..Len(firsts),
             results[firsts[k]].fact = results[firsts[l]].fact
      PROVE  k = l
  <2>1. ASSUME NEW m \in 1..Len(firsts), NEW n \in 1..Len(firsts), m < n
        PROVE  results[firsts[m]].fact # results[firsts[n]].fact
    <3>1. firsts[m] \in 1..(firsts[n] - 1)
      BY <1>4, <1>5, <2>1
    <3> QED
      BY <1>5, <3>1 DEF IsFirst
  <2> QED
    BY <1>5, <1>6, <2>1
<1>7. /\ F \in Seq([fact : Facts, path : Seq(Facts), seed : Entities])
      /\ DOMAIN F = 1..Len(firsts) /\ Len(F) = Len(firsts)
      /\ \A k \in 1..Len(firsts) : /\ F[k].fact = results[firsts[k]].fact
                                   /\ F[k].path = results[firsts[k]].path
                                   /\ F[k].seed = seed
  <2>1. ASSUME NEW k \in 1..Len(firsts) PROVE F[k] \in [fact : Facts, path : Seq(Facts), seed : Entities]
    <3>1. results[firsts[k]] \in Result
      BY <1>4, <1>5
    <3> QED
      BY <1>3, <3>1 DEF Result
  <2> QED
    BY <1>5, <2>1
<1> HIDE DEF F, I
<1>8. TraversalTypeOK'
  <2>1. evidence' \in Seq([fact : Facts, path : Seq(Facts), seed : Entities])
    BY <1>2, <1>3, <1>7, ConcatProperties
  <2> QED
    BY <1>2, <1>3, <2>1 DEF TraversalTypeOK, Visiting
<1>9. PathsAreWalks'
  <2>1. /\ \A q : Reached(q) => Reached(q)'
        /\ \A r : Traced(r) => Traced(r)'
    BY <1>2, WalksAreKept
  <2> QED
    BY <1>2, <2>1 DEF TraversalIInv, PathsAreWalks, Visiting, RangeOf
<1>10. PathsAreNew'
  BY <1>2, NewIsKept DEF TraversalIInv, Visiting
<1>11. ResultsCounted' /\ ResultsBounded'
  BY <1>2 DEF TraversalIInv, ResultsCounted, ResultsBounded, Visiting, Earlier, Parent
<1>12. EvidenceIsWalk'
  <2>1. /\ RangeOf(evidence)' = RangeOf(evidence) \cup RangeOf(F)
        /\ DOMAIN evidence' \subseteq Nat /\ Len(evidence) \in Nat /\ DOMAIN evidence = 1..Len(evidence)
        /\ \A i \in DOMAIN evidence' :
              \/ i \in DOMAIN evidence /\ evidence'[i] = evidence[i]
              \/ i - Len(evidence) \in DOMAIN F /\ evidence'[i] = F[i - Len(evidence)]
    <3>1. RangeOf(evidence)' = RangeOf(evidence \o F)
      BY <1>2 DEF RangeOf
    <3> QED
      BY <1>2, <1>3, <1>7, <3>1, ConcatRange, LenProperties
  <2>2. ASSUME NEW e \in RangeOf(evidence)'
        PROVE  /\ Len(e.path) \in 1..MaxDepth
               /\ e.path[Len(e.path)] = e.fact
               /\ RangeOf(e.path) \subseteq Edges(ever)
               /\ IsWalk(e.path, e.seed)
    <3>1. CASE e \in RangeOf(evidence)
      BY <3>1 DEF TraversalIInv, EvidenceIsWalk
    <3>2. CASE e \in RangeOf(F)
      <4>1. PICK k \in 1..Len(firsts) : e = F[k]
        BY <1>7, <3>2 DEF RangeOf
      <4>2. results[firsts[k]] \in RangeOf(results)
        BY <1>5 DEF RangeOf
      <4>3. Traced(results[firsts[k]])
        BY <4>2 DEF TraversalIInv, PathsAreWalks
      <4> QED
        BY <1>7, <4>1, <4>3 DEF Traced
    <3> QED
      BY <2>1, <2>2, <3>1, <3>2
  <2>3. ASSUME NEW i \in DOMAIN evidence', NEW j \in DOMAIN evidence',
               evidence'[i].fact = evidence'[j].fact
        PROVE  i = j
    <3>1. ASSUME NEW k \in DOMAIN evidence, NEW l \in DOMAIN F PROVE evidence[k].fact # F[l].fact
      <4>1. evidence[k] \in RangeOf(evidence)
        BY DEF RangeOf
      <4> QED
        BY <1>5, <1>7, <4>1 DEF IsFirst
    <3>2. ASSUME NEW k \in DOMAIN F, NEW l \in DOMAIN F, F[k].fact = F[l].fact PROVE k = l
      BY <1>6, <1>7, <3>2
    <3>3. ASSUME NEW k \in DOMAIN evidence, NEW l \in DOMAIN evidence, evidence[k].fact = evidence[l].fact
          PROVE  k = l
      BY <3>3 DEF TraversalIInv, EvidenceIsWalk
    <3>4. i \in Nat /\ j \in Nat /\ Len(evidence) \in Nat
      BY <2>1
    <3> QED
      BY <2>1, <2>3, <3>1, <3>2, <3>3, <3>4
  <2>4. \A p, from : IsWalk(p, from) => IsWalk(p, from)'
    BY <1>2, WalksAreKept
  <2>5. Edges(ever)' = Edges(ever)
    BY <1>2 DEF Edges, PredicateAsked, TemporalValid
  <2> QED
    BY <2>2, <2>3, <2>4, <2>5 DEF EvidenceIsWalk
<1>13. DepthsAscend' /\ SteadyIsCrossed'
  BY <1>2 DEF TraversalIInv, DepthsAscend, SteadyIsCrossed, Visiting, RangeOf
<1>14. SeenIsCrossed'
  <2>1. RangeOf(results)' = RangeOf(results)
    BY <1>2 DEF RangeOf
  <2> QED
    BY <1>2, <2>1, CrossedIsKept DEF TraversalIInv, SeenIsCrossed
<1> QED
  BY <1>8, <1>9, <1>10, <1>11, <1>12, <1>13, <1>14 DEF TraversalIInv

\* A step that leaves the traversal where it is, while more facts may have become visible.
LEMMA RestIsKept ==
  ASSUME TraversalIInv, UNCHANGED <<fact, query, seeds, seed, current, queue, results, seen, evidence>>,
         pc' = pc \/ pc' = "done", cut' = cut, steady' \subseteq steady, steady' \subseteq visible',
         ever \subseteq ever', visible' \subseteq ever', ever' \subseteq Facts
  PROVE  TraversalIInv'
<1>1. TraversalTypeOK'
  BY DEF TraversalIInv, TraversalTypeOK, Visiting
<1>2. PathsAreWalks'
  <2>1. /\ \A q : Reached(q) => Reached(q)'
        /\ \A r : Traced(r) => Traced(r)'
    BY WalksAreKept
  <2>2. \A q : q = current /\ Reached(q)' => Reached(current)'
    BY DEF Reached, LeadsTo, Walks, Across
  <2> QED
    BY <2>1, <2>2 DEF TraversalIInv, PathsAreWalks, Visiting, RangeOf
<1>3. PathsAreNew'
  BY NewIsKept DEF TraversalIInv, Visiting
<1>4. ResultsCounted' /\ ResultsBounded'
  BY DEF TraversalIInv, ResultsCounted, ResultsBounded, Visiting, Earlier, Parent
<1>5. EvidenceIsWalk'
  BY EvidenceIsKept DEF TraversalIInv
<1>6. RangeOf(results)' = RangeOf(results) /\ RangeOf(queue)' = RangeOf(queue)
  BY DEF RangeOf
<1>7. DepthsAscend'
  BY <1>6 DEF TraversalIInv, DepthsAscend, Visiting
<1>8. \A x, f, d : Crossed(x, f, d) => Crossed(x, f, d)'
  BY <1>6, CrossedIsKept
<1>9. SeenIsCrossed'
  BY <1>8 DEF TraversalIInv, SeenIsCrossed
<1>10. SteadyIsCrossed'
  <2>1. Edges(steady)' \subseteq Edges(steady)
    BY DEF Edges, PredicateAsked, TemporalValid
  <2>2. \A p, x : LeadsTo(p, seed, x)' <=> LeadsTo(p, seed, x)
    BY DEF LeadsTo, Walks, Across
  <2>3. pc' = pc => \A p : Expanded(p)' => Expanded(p)
    BY <1>6 DEF Expanded, FoundPath, Visiting
  <2> QED
    BY <1>8, <2>1, <2>2, <2>3 DEF TraversalIInv, SteadyIsCrossed
<1> QED
  BY <1>1, <1>2, <1>3, <1>4, <1>5, <1>7, <1>9, <1>10 DEF TraversalIInv

(***************************************************************************)
(* What makes the traversal sound: every path in the queue and among the   *)
(* results is a walk from the seed over facts that were visible, and no    *)
(* path is expanded twice.                                                 *)
(***************************************************************************)
THEOREM TraversalInvariant == Spec => []TraversalIInv
<1>1. Init => TraversalIInv
  BY TraversalInit
<1>2. TraversalIInv /\ [Next]_vars => TraversalIInv'
  <2>1. ASSUME TraversalIInv, Step PROVE TraversalIInv'
    <3>1. ASSUME Return PROVE TraversalIInv'
      <4>1. /\ UNCHANGED <<fact, visible, query, seeds, seed, current, queue, results, seen, evidence,
                           steady, ever, cut>>
            /\ pc' = "done"
        BY <3>1 DEF Return, graph, history
      <4> QED
        BY <2>1, <4>1, RestIsKept DEF TraversalIInv, TraversalTypeOK
    <3> QED
      BY <2>1, <3>1, StartSeedPreserves, PopPreserves, VisitSubjectPreserves, VisitObjectPreserves,
         CollectPreserves
      DEF Step
  <2>2. ASSUME TraversalIInv, NEW f \in Facts, Change(f) PROVE TraversalIInv'
    <3>1. /\ UNCHANGED <<fact, query, seeds, seed, pc, current, queue, results, seen, evidence, cut>>
          /\ ever' = ever \cup {f} /\ visible' \subseteq visible \cup {f} /\ visible \ {f} \subseteq visible'
          /\ steady' = steady \ {f}
      BY <2>2 DEF Change
    <3>2. steady \subseteq visible /\ visible \subseteq ever /\ ever \subseteq Facts
      BY <2>2 DEF TraversalIInv, TraversalTypeOK
    <3> QED
      BY <2>2, <3>1, <3>2, RestIsKept
  <2>3. ASSUME TraversalIInv, UNCHANGED vars PROVE TraversalIInv'
    <3>1. UNCHANGED <<fact, visible, query, seeds, seed, pc, current, queue, results, seen, evidence,
                      steady, ever, cut>>
      BY <2>3 DEF vars
    <3> QED
      BY <2>3, <3>1, RestIsKept DEF TraversalIInv, TraversalTypeOK
  <2> QED
    BY <2>1, <2>2, <2>3 DEF Next
<1> QED
  BY <1>1, <1>2, PTL DEF Spec

(***************************************************************************)
(* retrieve_evidence returns no fact twice, and each with a path of at     *)
(* most MaxDepth facts that is a walk from its seed over facts that were   *)
(* visible, in a graph of any size that changes in any way meanwhile.      *)
(***************************************************************************)
THEOREM EvidenceHasProvenance == Spec => []EvidenceIsWalk
<1>1. TraversalIInv => EvidenceIsWalk
  BY DEF TraversalIInv
<1> QED
  BY <1>1, TraversalInvariant, PTL

(***************************************************************************)
(* A traversal stops at MaxFacts results, up to those of the two fetches   *)
(* of one queue entry, whatever the limits are.                            *)
(***************************************************************************)
THEOREM TraversalIsLimited == Spec => []ResultsBounded
<1>1. TraversalIInv => ResultsBounded
  BY DEF TraversalIInv
<1> QED
  BY <1>1, TraversalInvariant, PTL

-----------------------------------------------------------------------------
\* The reference: the entities within some hops of the seed.

\* The recursive definition of Ball defines a function.
LEMMA BallUnfolds ==
  ASSUME NEW S
  PROVE  Ball(S) = [d \in 0..MaxDepth |-> IF d = 0 THEN {seed} ELSE OneHop(S, Ball(S)[d - 1])]
<1> DEFINE G(n, b) == [d \in 0..n |-> IF d = 0 THEN {seed} ELSE OneHop(S, b[d - 1])]
           Bad == {n \in Nat : ~ \E b : b = G(n, b)}
<1>1. ASSUME Bad # {} PROVE FALSE
  <2>1. PICK m \in Bad : \A k \in Bad : m <= k
    BY <1>1, LeastExists
  <2>2. CASE m = 0
    <3> DEFINE c == [d \in 0..0 |-> {seed}]
    <3>1. c = G(0, c)
      OBVIOUS
    <3> QED
      BY <2>1, <2>2, <3>1
  <2>3. CASE m # 0
    <3>1. m - 1 \in Nat /\ m - 1 \notin Bad
      <4>1. m \in Nat
        BY <2>1
      <4> HIDE DEF Bad
      <4> QED
        BY <2>1, <2>3, <4>1
    <3>2. PICK b : b = G(m - 1, b)
      BY <3>1
    <3> DEFINE c == [d \in 0..m |-> IF d = m THEN OneHop(S, b[m - 1]) ELSE b[d]]
    <3>3. ASSUME NEW d \in 0..m
          PROVE  c[d] = IF d = 0 THEN {seed} ELSE OneHop(S, c[d - 1])
      <4>1. CASE d = m
        BY <2>3, <3>1, <4>1
      <4>2. CASE d # m
        <5>1. d \in 0..(m - 1) /\ (d # 0 => d - 1 \in 0..(m - 1))
          BY <3>1, <3>3, <4>2
        <5>2. b[d] = IF d = 0 THEN {seed} ELSE OneHop(S, b[d - 1])
          BY <3>2, <5>1
        <5>3. c[d] = b[d] /\ (d # 0 => c[d - 1] = b[d - 1])
          BY <3>1, <3>3, <4>2, <5>1
        <5> QED
          BY <5>2, <5>3
      <4> QED
        BY <4>1, <4>2
    <3>4. c = G(m, c)
      BY <3>3
    <3> QED
      BY <2>1, <3>4
  <2> QED
    BY <2>2, <2>3
<1>2. \E b : b = G(MaxDepth, b)
  BY <1>1, TraversalConstants
<1> QED
  BY <1>2 DEF Ball

LEMMA BallGrows ==
  ASSUME NEW S
  PROVE  /\ Ball(S)[0] = {seed}
         /\ \A d \in 1..MaxDepth : Ball(S)[d] = OneHop(S, Ball(S)[d - 1])
         /\ \A c, d \in 0..MaxDepth : c <= d => Ball(S)[c] \subseteq Ball(S)[d]
<1>1. Ball(S)[0] = {seed}
  BY BallUnfolds, TraversalConstants
<1>2. ASSUME NEW d \in 1..MaxDepth PROVE Ball(S)[d] = OneHop(S, Ball(S)[d - 1])
  <2>1. d \in 0..MaxDepth /\ d # 0
    BY TraversalConstants
  <2> QED
    BY <2>1, BallUnfolds
<1>3. ASSUME NEW c \in 0..MaxDepth, NEW d \in 0..MaxDepth, c <= d, ~ (Ball(S)[c] \subseteq Ball(S)[d])
      PROVE  FALSE
  <2> DEFINE Bad == {n \in 0..MaxDepth : c <= n /\ ~ (Ball(S)[c] \subseteq Ball(S)[n])}
  <2>1. Bad \in SUBSET Nat /\ Bad # {}
    BY <1>3, TraversalConstants
  <2>2. PICK m \in Bad : \A k \in Bad : m <= k
    BY <2>1, LeastExists
  <2>3. m \in 0..MaxDepth /\ c <= m /\ ~ (Ball(S)[c] \subseteq Ball(S)[m])
    BY <2>2
  <2>4. m # c
    BY <2>3
  <2>5. m \in 1..MaxDepth /\ m - 1 \in 0..MaxDepth /\ c <= m - 1 /\ m - 1 \notin Bad
    <3> HIDE DEF Bad
    <3> QED
      BY <2>2, <2>3, <2>4, TraversalConstants
  <2>6. Ball(S)[c] \subseteq Ball(S)[m - 1]
    BY <2>5
  <2>7. Ball(S)[m - 1] \subseteq Ball(S)[m]
    BY <1>2, <2>5 DEF OneHop
  <2> QED
    BY <2>3, <2>6, <2>7
<1> QED
  BY <1>1, <1>2, <1>3

\* A hop from an entity that is within d hops leads to one within d + 1.
LEMMA HopGrows ==
  ASSUME NEW S, NEW d \in 1..MaxDepth, NEW f \in Edges(S), NEW x \in Ball(S)[d - 1],
         x \in {fact[f].subject, fact[f].object}
  PROVE  Across(f, x) \in Ball(S)[d]
<1>1. Ball(S)[d] = OneHop(S, Ball(S)[d - 1])
  BY BallGrows
<1> QED
  BY <1>1 DEF OneHop, Across

\* The entities of a walk are as near as the walk is long.
LEMMA WalkStaysNear ==
  ASSUME NEW S, NEW p \in Seq(Facts), RangeOf(p) \subseteq Edges(S), Len(p) <= MaxDepth,
         NEW e \in Walks(p), e[1] = seed
  PROVE  \A i \in 1..(Len(p) + 1) : e[i] \in Ball(S)[i - 1]
<1> DEFINE Bad == {i \in 1..(Len(p) + 1) : e[i] \notin Ball(S)[i - 1]}
<1>1. Len(p) \in Nat /\ DOMAIN p = 1..Len(p) /\ MaxDepth \in Nat
  BY LenProperties, TraversalConstants
<1>2. ASSUME Bad # {} PROVE FALSE
  <2>1. Bad \in SUBSET Nat
    BY <1>1
  <2>2. PICK m \in Bad : \A k \in Bad : m <= k
    BY <1>2, <2>1, LeastExists
  <2>3. m \in 1..(Len(p) + 1) /\ e[m] \notin Ball(S)[m - 1]
    BY <2>2
  <2>4. m # 1
    BY <2>3, BallGrows
  <2>5. m - 1 \in 1..Len(p) /\ m - 1 \in 1..MaxDepth /\ m - 1 \notin Bad /\ (m - 1) + 1 = m
    <3> HIDE DEF Bad
    <3> QED
      BY <1>1, <2>2, <2>3, <2>4
  <2>6. e[m - 1] \in Ball(S)[(m - 1) - 1]
    BY <1>1, <2>5
  <2>7. /\ e[m - 1] \in {fact[p[m - 1]].subject, fact[p[m - 1]].object}
        /\ e[(m - 1) + 1] = Across(p[m - 1], e[m - 1])
    BY <2>5 DEF Walks
  <2>8. p[m - 1] \in Edges(S)
    BY <1>1, <2>5 DEF RangeOf
  <2> QED
    BY <2>3, <2>5, <2>6, <2>7, <2>8, HopGrows
<1> QED
  BY <1>2

\* Nothing is found that is not within reach.
LEMMA FoundIsNear ==
  ASSUME TraversalIInv, NEW d \in 1..MaxDepth
  PROVE  FoundWithin(d) \subseteq WithinHops(ever, d)
<1> SUFFICES ASSUME NEW r \in RangeOf(results), r.depth <= d
             PROVE  r.fact \in WithinHops(ever, d)
  BY DEF FoundWithin
<1>1. /\ r.depth = Len(r.path) /\ r.depth \in 1..MaxDepth /\ r.path[Len(r.path)] = r.fact
      /\ RangeOf(r.path) \subseteq Edges(ever) /\ IsWalk(r.path, seed)
  BY DEF TraversalIInv, PathsAreWalks, Traced
<1>2. r.path \in Seq(Facts)
  <2>1. r \in Result
    BY DEF TraversalIInv, TraversalTypeOK, RangeOf
  <2> QED
    BY <2>1 DEF Result
<1>3. PICK e \in Walks(r.path) : e[1] = seed
  BY <1>1 DEF IsWalk
<1> DEFINE n == Len(r.path)
<1>4. n \in 1..MaxDepth /\ n <= d /\ n - 1 \in 0..MaxDepth /\ d - 1 \in 0..MaxDepth /\ n - 1 <= d - 1
  BY <1>1, TraversalConstants
<1>5. e[n] \in Ball(ever)[n - 1]
  <2>1. n <= MaxDepth /\ n \in 1..(n + 1)
    BY <1>4, TraversalConstants
  <2> QED
    BY <1>1, <1>2, <1>3, <2>1, WalkStaysNear
<1>6. e[n] \in Ball(ever)[d - 1]
  BY <1>4, <1>5, BallGrows
<1>7. e[n] \in {fact[r.fact].subject, fact[r.fact].object}
  <2>1. n \in 1..Len(r.path)
    BY <1>4, TraversalConstants
  <2> QED
    BY <1>1, <2>1 DEF Walks
<1>8. r.fact \in Edges(ever)
  <2>1. n \in DOMAIN r.path
    BY <1>2, <1>4, LenProperties, TraversalConstants
  <2> QED
    BY <1>1, <2>1 DEF RangeOf
<1> QED
  BY <1>6, <1>7, <1>8 DEF WithinHops

LEMMA ParentGoesOn ==
  ASSUME TraversalIInv, NEW r \in RangeOf(results)
  PROVE  /\ r.path \in Seq(Facts) /\ r.fact \in Facts /\ Parent(r) \in Seq(Facts)
         /\ r.depth = Len(r.path) /\ r.depth \in Nat
         /\ r.path = Append(Parent(r), r.fact)
<1>1. r \in Result
  BY DEF TraversalIInv, TraversalTypeOK, RangeOf
<1>2. r.path \in Seq(Facts) /\ r.fact \in Facts
  BY <1>1 DEF Result
<1>3. /\ r.depth = Len(r.path) /\ r.depth \in 1..MaxDepth /\ r.path[Len(r.path)] = r.fact
  BY DEF TraversalIInv, PathsAreWalks, Traced
<1> DEFINE n == Len(r.path)
           q == SubSeq(r.path, 1, n - 1)
<1>4. n \in Nat /\ 1 <= n /\ n - 1 \in Nat /\ \A i \in 1..n : r.path[i] \in Facts
  BY <1>2, <1>3, LenProperties, ElementOfSeq, TraversalConstants
<1>5. /\ q \in Seq(Facts)
      /\ Len(q) = IF 1 <= n - 1 THEN n - 1 - 1 + 1 ELSE 0
      /\ \A i \in 1..(n - 1 - 1 + 1) : q[i] = r.path[1 + i - 1]
  <2>1. \A i \in 1..(n - 1) : r.path[i] \in Facts
    BY <1>4
  <2>2. 1 \in Int /\ n - 1 \in Int
    BY <1>4
  <2> QED
    BY <2>1, <2>2, SubSeqProperties
<1> HIDE DEF q
<1>6. Len(q) = n - 1 /\ \A i \in 1..(n - 1) : q[i] = r.path[i]
  BY <1>4, <1>5
<1>7. /\ Append(q, r.fact) \in Seq(Facts) /\ Len(Append(q, r.fact)) = n
      /\ \A i \in 1..n : Append(q, r.fact)[i] = r.path[i]
  <2>1. /\ Append(q, r.fact) \in Seq(Facts) /\ Len(Append(q, r.fact)) = Len(q) + 1
        /\ \A i \in 1..Len(q) : Append(q, r.fact)[i] = q[i]
        /\ Append(q, r.fact)[Len(q) + 1] = r.fact
    BY <1>2, <1>5, AppendProperties
  <2> QED
    BY <1>3, <1>4, <1>6, <2>1
<1>8. r.path = Append(q, r.fact)
  BY <1>2, <1>7, SeqEqual
<1> QED
  BY <1>2, <1>3, <1>4, <1>5, <1>8 DEF Parent, q

\* What is within reach over steady facts is found, unless a fetch was cut short.
LEMMA NearIsFound ==
  ASSUME TraversalIInv, TraversalEnded, ~ cut,
         NEW d \in 1..MaxDepth, queue = <<>> \/ d < Head(queue).depth
  PROVE  WithinHops(steady, d) \subseteq FoundWithin(d)
<1>1. /\ TraversalTypeOK /\ pc = "loop" /\ seed \in Entities /\ steady \subseteq Facts /\ ~ Visiting
      /\ d \in Nat /\ MaxDepth \in Nat
  BY TraversalConstants DEF TraversalIInv, TraversalTypeOK, TraversalEnded, Visiting
<1>2. ASSUME NEW p \in Seq(Facts), FoundPath(p), Len(p) < d PROVE Expanded(p)
  <2>1. Len(p) \in Nat /\ Len(p) < MaxDepth
    BY <1>1, <1>2, LenProperties
  <2>2. ASSUME NEW q \in RangeOf(queue), q.path = p PROVE FALSE
    <3>1. queue \in Seq(Entry) /\ queue # <<>>
      BY DEF RangeOf, TraversalIInv, TraversalTypeOK
    <3>2. PICK i \in DOMAIN queue : q = queue[i]
      BY DEF RangeOf
    <3>3. q.depth = Len(p) + 1
      BY <2>2 DEF TraversalIInv, PathsAreWalks, Reached
    <3>4. Head(queue) = queue[1] /\ 1 \in DOMAIN queue /\ queue[1] \in Entry /\ i \in Nat /\ 1 <= i
      BY <3>1, <3>2, TailRange, LenProperties, ElementOfSeq
    <3>5. queue[1].depth \in Nat
      BY <3>4 DEF Entry
    <3>6. queue[1].depth <= q.depth
      BY <2>1, <3>2, <3>3, <3>4, <3>5 DEF TraversalIInv, DepthsAscend
    <3> QED
      BY <1>1, <1>2, <2>1, <3>1, <3>3, <3>4, <3>5, <3>6
  <2> QED
    BY <1>1, <1>2, <2>1, <2>2 DEF Expanded
<1>3. ASSUME NEW p \in Seq(Facts), FoundPath(p), Len(p) < d, NEW x \in Entities, LeadsTo(p, seed, x),
             NEW f \in Edges(steady), x \in {fact[f].subject, fact[f].object}
      PROVE  \E r \in RangeOf(results) :
                r.fact = f /\ r.depth <= Len(p) + 1 /\ LeadsTo(Parent(r), seed, x)
  <2>1. Crossed(x, f, Len(p) + 1)
    BY <1>1, <1>2, <1>3 DEF TraversalIInv, SteadyIsCrossed
  <2> QED
    BY <2>1 DEF Crossed
<1> DEFINE Known(x, n) == \E p \in Seq(Facts) : FoundPath(p) /\ Len(p) <= n /\ LeadsTo(p, seed, x)
           Bad == {n \in 0..(d - 1) : \E x \in Ball(steady)[n] : ~ (x \in Entities /\ Known(x, n))}
<1>4. ASSUME Bad # {} PROVE FALSE
  <2>1. Bad \in SUBSET Nat
    BY <1>1
  <2>2. PICK m \in Bad : \A k \in Bad : m <= k
    BY <1>4, <2>1, LeastExists
  <2>3. PICK x \in Ball(steady)[m] : ~ (x \in Entities /\ Known(x, m))
    BY <2>2
  <2>4. m \in 0..(d - 1)
    BY <2>2
  <2>5. CASE m = 0
    <3>1. x = seed
      BY <2>3, <2>5, BallGrows
    <3>2. <<>> \in Seq(Facts) /\ Len(<<>>) = 0 /\ FoundPath(<<>>)
      BY DEF FoundPath
    <3>3. LeadsTo(<<>>, seed, seed)
      <4>1. [i \in {1} |-> seed] \in Walks(<<>>)
        BY <1>1 DEF Walks
      <4> QED
        BY <4>1 DEF LeadsTo
    <3>4. Known(seed, 0)
      <4>1. Len(<<>>) <= 0
        BY <3>2
      <4> WITNESS <<>> \in Seq(Facts)
      <4> QED
        BY <3>2, <3>3, <4>1
    <3> QED
      BY <1>1, <2>3, <2>5, <3>1, <3>4
  <2>6. CASE m # 0
    <3>1. /\ m \in 1..MaxDepth /\ m - 1 \in 0..(d - 1) /\ m - 1 \in Nat /\ m \in Nat /\ m - 1 < d - 1
          /\ m - 1 \notin Bad
      <4> HIDE DEF Bad
      <4> QED
        BY <1>1, <2>2, <2>4, <2>6
    <3>2. \A y \in Ball(steady)[m - 1] : y \in Entities /\ Known(y, m - 1)
      BY <3>1
    <3>3. ASSUME NEW y \in Ball(steady)[m - 1], NEW f \in Edges(steady),
                 y \in {fact[f].subject, fact[f].object}, x = Across(f, y)
          PROVE  x \in Entities /\ Known(x, m)
      <4>1. y \in Entities /\ f \in Facts
        BY <1>1, <3>2 DEF Edges
      <4>2. PICK p \in Seq(Facts) : FoundPath(p) /\ Len(p) <= m - 1 /\ LeadsTo(p, seed, y)
        BY <3>2
      <4>3. Len(p) \in Nat /\ Len(p) < d
        BY <1>1, <3>1, <4>2, LenProperties
      <4>4. PICK r \in RangeOf(results) :
                r.fact = f /\ r.depth <= Len(p) + 1 /\ LeadsTo(Parent(r), seed, y)
        BY <1>3, <3>3, <4>1, <4>2, <4>3
      <4>5. /\ r.path \in Seq(Facts) /\ Parent(r) \in Seq(Facts) /\ r.depth = Len(r.path)
            /\ r.path = Append(Parent(r), f) /\ r.depth \in Nat
        BY <4>4, ParentGoesOn
      <4>6. LeadsTo(Append(Parent(r), f), seed, Across(f, y))
        BY <1>1, <3>3, <4>1, <4>4, <4>5, WalkGoesOn
      <4>7. LeadsTo(r.path, seed, x) /\ FoundPath(r.path) /\ Len(r.path) <= m
        BY <3>1, <3>3, <4>2, <4>3, <4>4, <4>5, <4>6 DEF FoundPath
      <4>8. x \in Entities
        BY <1>1, <3>3, <4>1, FactEnds DEF Across
      <4> QED
        BY <4>5, <4>7, <4>8
    <3>4. CASE x \in Ball(steady)[m - 1]
      <4>1. x \in Entities /\ Known(x, m - 1)
        BY <3>2, <3>4
      <4>2. PICK p \in Seq(Facts) : FoundPath(p) /\ Len(p) <= m - 1 /\ LeadsTo(p, seed, x)
        BY <4>1
      <4>3. Len(p) <= m
        BY <3>1, <4>2, LenProperties
      <4> QED
        BY <2>3, <4>1, <4>2, <4>3
    <3>5. CASE x \notin Ball(steady)[m - 1]
      <4>1. x \in OneHop(steady, Ball(steady)[m - 1])
        BY <2>3, <3>1, BallGrows
      <4>2. \E f \in Edges(steady) : \E y \in Ball(steady)[m - 1] :
               y \in {fact[f].subject, fact[f].object} /\ x = Across(f, y)
        BY <3>5, <4>1 DEF OneHop, Across
      <4> HIDE DEF Known
      <4> QED
        BY <2>3, <3>3, <4>2
    <3> QED
      BY <3>4, <3>5
  <2> QED
    BY <2>5, <2>6
<1>5. SUFFICES ASSUME NEW f \in WithinHops(steady, d) PROVE f \in FoundWithin(d)
  OBVIOUS
<1>6. PICK x \in Ball(steady)[d - 1] : f \in Edges(steady) /\ x \in {fact[f].subject, fact[f].object}
  BY DEF WithinHops
<1>7. d - 1 \in 0..(d - 1) /\ d - 1 \notin Bad
  <2> HIDE DEF Bad
  <2> QED
    BY <1>1, <1>4
<1>8. x \in Entities /\ Known(x, d - 1)
  BY <1>6, <1>7
<1>9. PICK p \in Seq(Facts) : FoundPath(p) /\ Len(p) <= d - 1 /\ LeadsTo(p, seed, x)
  BY <1>8
<1>10. Len(p) \in Nat /\ Len(p) < d
  BY <1>1, <1>9, LenProperties
<1>11. PICK r \in RangeOf(results) : r.fact = f /\ r.depth <= Len(p) + 1
  BY <1>3, <1>6, <1>8, <1>9, <1>10
<1>12. r.depth <= d
  BY <1>1, <1>10, <1>11, ParentGoesOn
<1> QED
  BY <1>11, <1>12 DEF FoundWithin

(***************************************************************************)
(* The traversal is a breadth-first search of a graph of any size, while   *)
(* its facts come and go: what it found is within reach at the depth it    *)
(* says, and it misses nothing that was visible throughout except by its   *)
(* limits.                                                                 *)
(***************************************************************************)
THEOREM TraversalIsBreadthFirst == Spec => []BreadthFirst
<1>1. TraversalIInv => BreadthFirst
  BY FoundIsNear, NearIsFound DEF BreadthFirst
<1> QED
  BY <1>1, TraversalInvariant, PTL
=============================================================================
