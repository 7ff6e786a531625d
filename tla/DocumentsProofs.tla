-------------------------- MODULE DocumentsProofs --------------------------
(***************************************************************************)
(* What holds of the chunker's windows for every text and every list of    *)
(* protected ranges, of the parsers and the chunker for every document,    *)
(* and of the extraction workflow for any number of jobs, names and        *)
(* answers of the model.                                                   *)
(***************************************************************************)
EXTENDS Chunker, Extraction, FiniteSetTheorems, WellFoundedInduction, TLAPS

-----------------------------------------------------------------------------
\* Extreme elements of sets of numbers.

LEMMA NatMin ==
  ASSUME NEW T \in SUBSET Nat, T # {}
  PROVE  \E m \in T : \A k \in T : m <= k
<1>1. PICK x \in T : \A y \in T : ~ (<<y, x>> \in OpToRel(<, Nat))
  BY NatLessThanWellFounded, WFMin
<1>2. \A y \in T : ~ (y < x)
  <2> SUFFICES ASSUME NEW y \in T, y < x PROVE FALSE
    OBVIOUS
  <2>1. x \in Nat /\ y \in Nat
    OBVIOUS
  <2>2. <<y, x>> \in OpToRel(<, Nat)
    BY <2>1, Zenon DEF OpToRel
  <2> QED
    BY <1>1, <2>2, Zenon
<1> QED
  BY <1>2

LEMMA BoundedMax ==
  ASSUME NEW n \in Int, NEW T \in SUBSET Int, T # {}, \A k \in T : k <= n
  PROVE  \E m \in T : \A k \in T : k <= m
<1> DEFINE D == {n - k : k \in T}
<1>1. D \in SUBSET Nat /\ D # {}
  <2>1. \A k \in T : n - k \in Nat /\ n - k \in D
    OBVIOUS
  <2> QED
    BY <2>1
<1>2. PICK d \in D : \A c \in D : d <= c
  BY <1>1, NatMin, Zenon
<1>3. PICK m \in T : d = n - m
  BY <1>2
<1>4. \A k \in T : k <= m
  <2> SUFFICES ASSUME NEW k \in T PROVE k <= m
    OBVIOUS
  <2>1. n - k \in D
    OBVIOUS
  <2>2. n - m <= n - k
    BY <1>2, <1>3, <2>1
  <2> QED
    BY <2>2
<1> QED
  BY <1>4

-----------------------------------------------------------------------------
\* Sequences of what a job has resolved.

LEMMA SeqGrows ==
  ASSUME NEW A, NEW B, A \subseteq B, NEW s \in Seq(A)
  PROVE  s \in Seq(B)
  OBVIOUS

LEMMA AppendKeeps ==
  ASSUME NEW A, NEW s \in Seq(A), NEW e \in A
  PROVE  /\ Append(s, e) \in Seq(A)
         /\ \A k \in DOMAIN s : k \in DOMAIN Append(s, e) /\ Append(s, e)[k] = s[k]
  OBVIOUS

LEMMA TailKeeps ==
  ASSUME NEW A, NEW s \in Seq(A), s # <<>>
  PROVE  Tail(s) \in Seq(A) /\ Head(s) \in A
  OBVIOUS

\* name_to_id finds an entity that was resolved, if any.
LEMMA NamedInIsResolved ==
  ASSUME NEW A, NEW s \in Seq(A), NEW name, NEW n \in NamedIn(s, name)
  PROVE  \E k \in DOMAIN s : s[k] = n
<1> DEFINE at == {k \in DOMAIN s : s[k].name = name}
<1>1. at # {} /\ n = s[CHOOSE k \in at : \A i \in at : i <= k]
  BY DEF NamedIn
<1>2. at \in SUBSET Int /\ Len(s) \in Int /\ \A k \in at : k <= Len(s)
  OBVIOUS
<1>3. \E k \in at : \A i \in at : i <= k
  BY <1>1, <1>2, BoundedMax
<1>4. (CHOOSE k \in at : \A i \in at : i <= k) \in DOMAIN s
  BY <1>3
<1> QED
  BY <1>1, <1>4

-----------------------------------------------------------------------------
\* The extraction workflow, action by action.

LEMMA ExtractionInitIInv == ExtractionInit => ExtractionIInv
<1> SUFFICES ASSUME ExtractionInit PROVE ExtractionIInv
  OBVIOUS
<1> USE DEF ExtractionInit, EmptyGraph
<1>1. Entities(graph.nodes) = {} /\ AllEntities = {}
  BY DEF Entities, AllEntities, EventsOf
<1>2. ExtractionTypeOK
  <2>1. \A S : <<>> \in Seq(S)
    OBVIOUS
  <2>2. mentions \in [Jobs -> Seq(Said)] /\ \A j \in Jobs : resolved[j] \in Seq(Sees(j))
    BY <2>1
  <2> QED
    BY <2>2 DEF ExtractionTypeOK, Ended
<1>3. FactsHaveEntities /\ ProjectedIsInGraph
  BY DEF FactsHaveEntities, ProjectedIsInGraph, EventsOf
<1>4. EntitiesAreNamed
  BY <1>1, FS_EmptySet DEF EntitiesAreNamed
<1>5. OpenWhileResolving /\ CreatesAlone /\ AllDistinct
  BY <1>1 DEF OpenWhileResolving, CreatesAlone, AllDistinct
<1> QED
  BY <1>2, <1>3, <1>4, <1>5 DEF ExtractionIInv

\* A job that only works on its own state.
LEMMA StoresUnchanged ==
  ASSUME ExtractionIInv, UNCHANGED <<graph, outbox, projected, tx>>,
         overlapped => overlapped', cutOff => cutOff'
  PROVE  /\ AllEntities' = AllEntities
         /\ \A j \in Jobs : Sees(j)' = Sees(j)
         /\ ProjectedIsInGraph' /\ EntitiesAreNamed' /\ AllDistinct'
<1>1. AllEntities' = AllEntities /\ \A j \in Jobs : Sees(j)' = Sees(j)
  BY DEF AllEntities, Entities, EventsOf, Sees
<1>2. ProjectedIsInGraph'
  BY DEF ExtractionIInv, ProjectedIsInGraph
<1>3. EntitiesAreNamed'
  BY <1>1 DEF ExtractionIInv, EntitiesAreNamed, Entities
<1>4. AllDistinct'
  BY <1>1 DEF ExtractionIInv, AllDistinct
<1> QED
  BY <1>1, <1>2, <1>3, <1>4

LEMMA ExtractPreserves ==
  ASSUME ExtractionIInv, NEW j \in Jobs, NEW o \in ExtractorOutputs, Extract(j, o)
  PROVE  ExtractionIInv'
<1>1. /\ pc[j] = "extract" /\ pc' = [pc EXCEPT ![j] = "resolve"]
      /\ mentions' = [mentions EXCEPT ![j] = SelectSeq(o, Confident)]
      /\ extracted' = [extracted EXCEPT ![j] = SelectSeq(o, Confident)]
      /\ UNCHANGED <<resolved, facts, tx, neo, pg, graph, outbox, projected, overlapped, cutOff>>
  BY DEF Extract, Go
<1>2. SelectSeq(o, Confident) \in Seq(Said)
  BY ExtractionConstants
<1>3. /\ AllEntities' = AllEntities /\ \A i \in Jobs : Sees(i)' = Sees(i)
      /\ ProjectedIsInGraph' /\ EntitiesAreNamed' /\ AllDistinct'
  BY <1>1, StoresUnchanged
<1>4. ExtractionTypeOK'
  BY <1>1, <1>2, <1>3 DEF ExtractionIInv, ExtractionTypeOK
<1>5. FactsHaveEntities'
  BY <1>1 DEF ExtractionIInv, FactsHaveEntities, EventsOf
<1>6. OpenWhileResolving'
  BY <1>1 DEF ExtractionIInv, ExtractionTypeOK, OpenWhileResolving, Ended
<1>7. CreatesAlone'
  BY <1>1, <1>3 DEF ExtractionIInv, ExtractionTypeOK, CreatesAlone, OfType
<1> QED
  BY <1>3, <1>4, <1>5, <1>6, <1>7 DEF ExtractionIInv

LEMMA ExtractFactsPreserves ==
  ASSUME ExtractionIInv, NEW j \in Jobs, NEW o \in FactOutputs, ExtractFacts(j, o)
  PROVE  ExtractionIInv'
<1>1. /\ pc[j] = "resolve" /\ pc' = [pc EXCEPT ![j] = "commit"]
      /\ facts' = [facts EXCEPT ![j] = FactsOf(j, o)]
      /\ UNCHANGED <<mentions, extracted, resolved, tx, neo, pg, graph, outbox, projected,
                     overlapped, cutOff>>
  BY DEF ExtractFacts, Go
<1>2. \A p \in FactsOf(j, o) :
         /\ p.type = "FACT_CANDIDATE" /\ p.node.label = "Fact"
         /\ \A n \in {p.subject, p.object} : \E k \in DOMAIN resolved[j] : resolved[j][k] = n
  <2> SUFFICES ASSUME NEW p \in FactsOf(j, o)
               PROVE  /\ p.type = "FACT_CANDIDATE" /\ p.node.label = "Fact"
                      /\ \A n \in {p.subject, p.object} : \E k \in DOMAIN resolved[j] : resolved[j][k] = n
    OBVIOUS
  <2>1. PICK f \in o :
           p \in [type : {"FACT_CANDIDATE"}, node : {[label |-> "Fact", job |-> j, fact |-> f]},
                  subject : NamedIn(resolved[j], f.subject), object : NamedIn(resolved[j], f.object)]
    BY DEF FactsOf
  <2>2. /\ p.type = "FACT_CANDIDATE" /\ p.node.label = "Fact"
        /\ p.subject \in NamedIn(resolved[j], f.subject) /\ p.object \in NamedIn(resolved[j], f.object)
    BY <2>1
  <2>3. resolved[j] \in Seq(Sees(j))
    BY DEF ExtractionIInv, ExtractionTypeOK
  <2> QED
    BY <2>2, <2>3, NamedInIsResolved
<1>3. /\ AllEntities' = AllEntities /\ \A i \in Jobs : Sees(i)' = Sees(i)
      /\ ProjectedIsInGraph' /\ EntitiesAreNamed' /\ AllDistinct'
  BY <1>1, StoresUnchanged
<1>4. ExtractionTypeOK'
  BY <1>1, <1>3 DEF ExtractionIInv, ExtractionTypeOK
<1>5. FactsHaveEntities'
  BY <1>1, <1>2 DEF ExtractionIInv, ExtractionTypeOK, FactsHaveEntities, EventsOf
<1>6. OpenWhileResolving'
  BY <1>1 DEF ExtractionIInv, ExtractionTypeOK, OpenWhileResolving, Ended
<1>7. CreatesAlone'
  BY <1>1, <1>3 DEF ExtractionIInv, ExtractionTypeOK, CreatesAlone, OfType
<1> QED
  BY <1>3, <1>4, <1>5, <1>6, <1>7 DEF ExtractionIInv

LEMMA InAllEntities ==
  ASSUME NEW e
  PROVE  e \in AllEntities <=> \/ e \in Entities(graph.nodes) \/ e \in UNION {tx[j] : j \in Jobs}
                               \/ \E p \in EventsOf("ENTITY_RESOLVED") : e = p.node
<1>1. \A S : e \in {p.node : p \in S} <=> \E p \in S : e = p.node
  OBVIOUS
<1> QED
  BY <1>1 DEF AllEntities

LEMMA SeesNamed ==
  ASSUME ExtractionIInv, NEW j \in Jobs
  PROVE  /\ Sees(j) \subseteq AllEntities /\ IsFiniteSet(Sees(j))
         /\ \A e \in Sees(j) : e.label = "Entity" /\ e.name \in Names
<1>1. Sees(j) \subseteq AllEntities
  BY DEF Sees, AllEntities
<1>2. IsFiniteSet(Sees(j))
  BY FS_Union DEF Sees, ExtractionIInv, EntitiesAreNamed
<1> QED
  BY <1>1, <1>2 DEF ExtractionIInv, EntitiesAreNamed

\* When find_entities saw every row, a name with no best candidate to review has none.
LEMMA NothingSimilar ==
  ASSUME ExtractionIInv, NEW j \in Jobs, NEW t, NEW name \in Names, NEW rows \in Rows(j, t),
         ~ (Cardinality(OfType(t, Sees(j))) > FindLimit),
         {e \in Best(Candidates(rows, name), name) : Similarity[name][e.name] >= ReviewThreshold} = {}
  PROVE  \A e \in OfType(t, Sees(j)) : Similarity[name][e.name] < ReviewThreshold
<1> DEFINE all == OfType(t, Sees(j))
           sims == {Similarity[name][d.name] : d \in Candidates(rows, name)}
<1>1. IsFiniteSet(all) /\ all \subseteq Sees(j)
  BY SeesNamed, FS_Subset DEF OfType
<1>2. rows = all
  <2>1. rows \in SUBSET all /\ Cardinality(rows) <= FindLimit /\ (Cardinality(rows) < FindLimit => rows = all)
    BY DEF Rows
  <2>2. /\ Cardinality(rows) \in Nat /\ Cardinality(all) \in Nat
        /\ Cardinality(rows) <= Cardinality(all)
        /\ Cardinality(all) = Cardinality(rows) => all = rows
    BY <1>1, <2>1, FS_Subset, FS_CardinalityType
  <2> QED
    BY <2>1, <2>2, ExtractionConstants
<1>3. \A e \in all : e.name \in Names /\ Similarity[name][e.name] \in 0..100
  BY <1>1, SeesNamed, ExtractionConstants
<1> HIDE DEF all
<1> SUFFICES ASSUME NEW e \in all, ~ (Similarity[name][e.name] < ReviewThreshold) PROVE FALSE
  BY DEF all
<1>4. e \in Candidates(rows, name)
  BY <1>2, <1>3 DEF Candidates, MinCandidateSimilarity, ReviewThreshold
<1>5. sims \in SUBSET Int /\ sims # {} /\ \A k \in sims : k <= 100
  <2>1. \A d \in Candidates(rows, name) : Similarity[name][d.name] \in 0..100
    BY <1>2, <1>3 DEF Candidates
  <2>2. Similarity[name][e.name] \in sims
    BY <1>4
  <2>3. \A k \in sims : k \in 0..100
    BY <2>1
  <2> HIDE DEF sims
  <2> QED
    BY <2>2, <2>3
<1>6. PICK m \in sims : \A k \in sims : k <= m
  <2> HIDE DEF sims
  <2> QED
    BY <1>5, BoundedMax, 100 \in Int, Zenon
<1>7. PICK d \in Candidates(rows, name) : m = Similarity[name][d.name]
  BY <1>6
<1>8. d \in Best(Candidates(rows, name), name) /\ Similarity[name][e.name] <= Similarity[name][d.name]
  BY <1>4, <1>6, <1>7 DEF Best
<1>9. Similarity[name][d.name] >= ReviewThreshold
  <2>1. Similarity[name][d.name] \in 0..100 /\ Similarity[name][e.name] \in 0..100
    BY <1>2, <1>3 DEF Candidates
  <2>2. \A x, y \in 0..100 : ~ (x < ReviewThreshold) /\ x <= y => y >= ReviewThreshold
    BY DEF ReviewThreshold
  <2> QED
    BY <1>8, <2>1, <2>2
<1> QED
  BY <1>8, <1>9

\* A mention is done with: left open, or resolved to an entity the job sees.
LEMMA MentionDone ==
  ASSUME ExtractionIInv, NEW j \in Jobs, pc[j] = "resolve", mentions[j] # <<>>,
         mentions' = [mentions EXCEPT ![j] = Tail(mentions[j])],
         \/ resolved' = resolved
         \/ \E e \in Sees(j) : resolved' = [resolved EXCEPT ![j] = Append(resolved[j], e)],
         UNCHANGED <<pc, extracted, facts, tx, neo, pg, graph, outbox, projected>>,
         overlapped => overlapped', cutOff => cutOff', overlapped' \in BOOLEAN, cutOff' \in BOOLEAN
  PROVE  ExtractionIInv'
<1>1. /\ AllEntities' = AllEntities /\ \A i \in Jobs : Sees(i)' = Sees(i)
      /\ ProjectedIsInGraph' /\ EntitiesAreNamed' /\ AllDistinct'
  BY StoresUnchanged
<1>2. \A i \in Jobs : /\ resolved'[i] \in Seq(Sees(i))
                      /\ \A k \in DOMAIN resolved[i] :
                            k \in DOMAIN resolved'[i] /\ resolved'[i][k] = resolved[i][k]
  <2>1. DOMAIN resolved = Jobs /\ \A i \in Jobs : resolved[i] \in Seq(Sees(i))
    BY DEF ExtractionIInv, ExtractionTypeOK
  <2>2. CASE resolved' = resolved
    BY <2>1, <2>2
  <2>3. ASSUME NEW e \in Sees(j), resolved' = [resolved EXCEPT ![j] = Append(resolved[j], e)]
        PROVE  \A i \in Jobs : /\ resolved'[i] \in Seq(Sees(i))
                               /\ \A k \in DOMAIN resolved[i] :
                                     k \in DOMAIN resolved'[i] /\ resolved'[i][k] = resolved[i][k]
    <3>1. /\ resolved'[j] = Append(resolved[j], e)
          /\ \A i \in Jobs : i # j => resolved'[i] = resolved[i]
      BY <2>1, <2>3
    <3>2. /\ Append(resolved[j], e) \in Seq(Sees(j))
          /\ \A k \in DOMAIN resolved[j] : /\ k \in DOMAIN Append(resolved[j], e)
                                           /\ Append(resolved[j], e)[k] = resolved[j][k]
      BY <2>1, AppendKeeps
    <3> QED
      BY <2>1, <3>1, <3>2
  <2> QED
    BY <2>2, <2>3
<1>3. mentions' \in [Jobs -> Seq(Said)]
  BY TailKeeps DEF ExtractionIInv, ExtractionTypeOK
<1>4. ExtractionTypeOK'
  BY <1>1, <1>2, <1>3 DEF ExtractionIInv, ExtractionTypeOK
<1>5. FactsHaveEntities'
  <2>1. \A i \in Jobs : \A p \in facts'[i] :
           /\ p.type = "FACT_CANDIDATE" /\ p.node.label = "Fact"
           /\ \A n \in {p.subject, p.object} : \E k \in DOMAIN resolved'[i] : resolved'[i][k] = n
    BY <1>2 DEF ExtractionIInv, FactsHaveEntities
  <2> QED
    BY <2>1 DEF ExtractionIInv, FactsHaveEntities, EventsOf
<1>6. OpenWhileResolving'
  BY DEF ExtractionIInv, OpenWhileResolving
<1>7. CreatesAlone'
  BY <1>1 DEF ExtractionIInv, ExtractionTypeOK, CreatesAlone, OfType
<1> QED
  BY <1>1, <1>4, <1>5, <1>6, <1>7 DEF ExtractionIInv

\* With nothing in flight, a job sees all the entities there are.
LEMMA AloneSeesAll ==
  ASSUME ExtractionIInv, NEW j \in Jobs, ~ InFlight(j)
  PROVE  /\ AllEntities \subseteq Sees(j)
         /\ \A i \in Jobs \ {j} : pc[i] # "create"
<1>1. \A i \in Jobs \ {j} : tx[i] = {} /\ pc[i] # "create"
  BY DEF InFlight, ExtractionIInv, OpenWhileResolving, Ended
<1>2. \A p \in EventsOf("ENTITY_RESOLVED") : p.node \in Entities(graph.nodes)
  <2> SUFFICES ASSUME NEW p \in EventsOf("ENTITY_RESOLVED") PROVE p.node \in Entities(graph.nodes)
    OBVIOUS
  <2>1. p \in projected /\ p.type = "ENTITY_RESOLVED" /\ p.node \in AllEntities
    <3>1. {q \in outbox : q.type = "ENTITY_RESOLVED"} \ projected = {}
      BY DEF InFlight
    <3>2. p \in outbox /\ p.type = "ENTITY_RESOLVED"
      BY DEF EventsOf
    <3>3. p.node \in AllEntities
      BY InAllEntities
    <3> QED
      BY <3>1, <3>2, <3>3
  <2> QED
    BY <2>1 DEF ExtractionIInv, ProjectedIsInGraph, EntitiesAreNamed, Entities
<1>3. ASSUME NEW e \in AllEntities PROVE e \in Sees(j)
  <2>1. \/ e \in Entities(graph.nodes) \/ e \in UNION {tx[i] : i \in Jobs}
        \/ \E p \in EventsOf("ENTITY_RESOLVED") : e = p.node
    BY InAllEntities
  <2>2. e \in UNION {tx[i] : i \in Jobs} => e \in tx[j]
    BY <1>1
  <2> QED
    BY <1>2, <2>1, <2>2 DEF Sees
<1> QED
  BY <1>1, <1>3

LEMMA FindPreserves ==
  ASSUME ExtractionIInv, NEW j \in Jobs, Find(j)
  PROVE  ExtractionIInv'
<1> DEFINE m == Head(mentions[j])
<1>1. /\ pc[j] = "resolve" /\ mentions[j] # <<>> /\ m \in Said
      /\ UNCHANGED <<extracted, facts, tx, neo, pg, graph, outbox, projected>>
  BY TailKeeps DEF Find, ExtractionIInv, ExtractionTypeOK
<1>2. overlapped \in BOOLEAN /\ cutOff \in BOOLEAN
  BY DEF ExtractionIInv, ExtractionTypeOK
<1>3. CASE m.name = Unnamed
  <2>1. /\ mentions' = [mentions EXCEPT ![j] = Tail(mentions[j])] /\ resolved' = resolved
        /\ UNCHANGED <<pc, overlapped, cutOff>>
    BY <1>3 DEF Find, Ambiguous
  <2> QED
    BY <1>1, <1>2, <2>1, MentionDone
<1>4. CASE m.name # Unnamed
  <2>1. /\ overlapped' = (overlapped \/ InFlight(j))
        /\ cutOff' = (cutOff \/ Cardinality(OfType(m.type, Sees(j))) > FindLimit)
    BY <1>4 DEF Find
  <2>2. overlapped' \in BOOLEAN /\ cutOff' \in BOOLEAN /\ (overlapped => overlapped') /\ (cutOff => cutOff')
    BY <1>2, <2>1
  <2>3. PICK rows \in Rows(j, m.type) :
           LET best == Best(Candidates(rows, m.name), m.name)
               atLeast(n) == {e \in best : Similarity[m.name][e.name] >= n}
           IN  \/ (\E e \in atLeast(FuzzyThreshold) : Resolved(j, e)) /\ UNCHANGED pc
               \/ Ambiguous(j) /\ UNCHANGED pc
               \/ /\ atLeast(ReviewThreshold) = {} /\ Go(j, "create")
                  /\ UNCHANGED <<mentions, resolved>>
    BY <1>4 DEF Find
  <2>4. rows \subseteq Sees(j)
    BY DEF Rows, OfType
  <2>5. CASE /\ \E e \in Best(Candidates(rows, m.name), m.name) : Resolved(j, e)
             /\ UNCHANGED pc
    <3>1. PICK e \in Sees(j) : Resolved(j, e)
      BY <2>4, <2>5 DEF Best, Candidates
    <3>2. /\ mentions' = [mentions EXCEPT ![j] = Tail(mentions[j])]
          /\ resolved' = [resolved EXCEPT ![j] = Append(resolved[j], e)]
      BY <3>1 DEF Resolved
    <3> QED
      BY <1>1, <2>2, <2>5, <3>2, MentionDone
  <2>6. CASE Ambiguous(j) /\ UNCHANGED pc
    <3>1. mentions' = [mentions EXCEPT ![j] = Tail(mentions[j])] /\ resolved' = resolved
      BY <2>6 DEF Ambiguous
    <3> QED
      BY <1>1, <2>2, <2>6, <3>1, MentionDone
  <2>7. CASE /\ {e \in Best(Candidates(rows, m.name), m.name) :
                    Similarity[m.name][e.name] >= ReviewThreshold} = {}
             /\ Go(j, "create") /\ UNCHANGED <<mentions, resolved>>
    <3>1. pc' = [pc EXCEPT ![j] = "create"] /\ UNCHANGED <<mentions, resolved>>
      BY <2>7 DEF Go
    <3>2. m.name \in Names
      BY <1>1, <1>4, ExtractionConstants
    <3>3. /\ AllEntities' = AllEntities /\ \A i \in Jobs : Sees(i)' = Sees(i)
          /\ ProjectedIsInGraph' /\ EntitiesAreNamed' /\ AllDistinct'
      BY <1>1, <2>2, StoresUnchanged
    <3>4. ExtractionTypeOK' /\ FactsHaveEntities'
      BY <1>1, <2>2, <3>1, <3>3
      DEF ExtractionIInv, ExtractionTypeOK, FactsHaveEntities, EventsOf
    <3>5. OpenWhileResolving'
      BY <1>1, <3>1 DEF ExtractionIInv, ExtractionTypeOK, OpenWhileResolving, Ended
    <3>6. ~ overlapped' => /\ AllEntities \subseteq Sees(j)
                           /\ \A i \in Jobs \ {j} : pc[i] # "create"
      BY <2>1, AloneSeesAll
    <3>7. ~ cutOff' => \A e \in OfType(m.type, Sees(j)) : Similarity[m.name][e.name] < ReviewThreshold
      BY <2>1, <2>7, <3>2, NothingSimilar
    <3>8. CreatesAlone'
      <4> SUFFICES ASSUME NEW i \in Jobs, pc'[i] = "create"
                   PROVE  /\ mentions[i] # <<>> /\ Head(mentions[i]).name \in Names
                          /\ ~ overlapped' =>
                                /\ AllEntities \subseteq Sees(i)
                                /\ \A k \in Jobs \ {i} : pc'[k] # "create"
                                /\ ~ cutOff' => \A e \in OfType(Head(mentions[i]).type, Sees(i)) :
                                       Similarity[Head(mentions[i]).name][e.name] < ReviewThreshold
        BY <3>1, <3>3 DEF CreatesAlone, OfType
      <4>1. CASE i = j
        BY <1>1, <3>1, <3>2, <3>6, <3>7, <4>1 DEF ExtractionIInv, ExtractionTypeOK
      <4>2. CASE i # j
        <5>1. pc[i] = "create" /\ overlapped'
          BY <3>1, <3>6, <4>2 DEF ExtractionIInv, ExtractionTypeOK
        <5> QED
          BY <5>1 DEF ExtractionIInv, CreatesAlone
      <4> QED
        BY <4>1, <4>2
    <3> QED
      BY <3>3, <3>4, <3>5, <3>8 DEF ExtractionIInv
  <2> QED
    BY <2>3, <2>5, <2>6, <2>7
<1> QED
  BY <1>3, <1>4

LEMMA CreatePreserves ==
  ASSUME ExtractionIInv, NEW j \in Jobs, Create(j)
  PROVE  ExtractionIInv'
<1> DEFINE m == Head(mentions[j])
           new == [label |-> "Entity", id |-> <<j, Len(mentions[j])>>, type |-> m.type, name |-> m.name]
<1>1. /\ pc[j] = "create" /\ pc' = [pc EXCEPT ![j] = "resolve"]
      /\ tx' = [tx EXCEPT ![j] = tx[j] \cup {new}]
      /\ resolved' = [resolved EXCEPT ![j] = Append(resolved[j], new)]
      /\ mentions' = [mentions EXCEPT ![j] = Tail(mentions[j])]
      /\ overlapped' = (overlapped \/ InFlight(j))
      /\ UNCHANGED <<extracted, facts, neo, pg, graph, outbox, projected, cutOff>>
  BY DEF Create, Resolved, Go
<1>2. mentions[j] # <<>> /\ m.name \in Names
  BY <1>1 DEF ExtractionIInv, CreatesAlone
<1>3. new.label = "Entity" /\ new.type = m.type /\ new.name = m.name
  OBVIOUS
<1> HIDE DEF new
<1>4. /\ DOMAIN tx = Jobs /\ DOMAIN resolved = Jobs /\ mentions \in [Jobs -> Seq(Said)]
      /\ \A i \in Jobs : resolved[i] \in Seq(Sees(i))
      /\ overlapped \in BOOLEAN
  BY DEF ExtractionIInv, ExtractionTypeOK
<1>5. /\ Sees(j)' = Sees(j) \cup {new}
      /\ \A i \in Jobs : i # j => Sees(i)' = Sees(i)
      /\ AllEntities' = AllEntities \cup {new}
  BY <1>1, <1>4 DEF Sees, AllEntities, EventsOf
<1>6. \A i \in Jobs : /\ resolved'[i] \in Seq(Sees(i)')
                      /\ \A k \in DOMAIN resolved[i] :
                            k \in DOMAIN resolved'[i] /\ resolved'[i][k] = resolved[i][k]
  <2>1. resolved[j] \in Seq(Sees(j)') /\ new \in Sees(j)'
    BY <1>4, <1>5, SeqGrows
  <2>2. /\ Append(resolved[j], new) \in Seq(Sees(j)')
        /\ \A k \in DOMAIN resolved[j] : /\ k \in DOMAIN Append(resolved[j], new)
                                         /\ Append(resolved[j], new)[k] = resolved[j][k]
    BY <2>1, AppendKeeps
  <2>3. /\ resolved'[j] = Append(resolved[j], new)
        /\ \A i \in Jobs : i # j => resolved'[i] = resolved[i]
    BY <1>1, <1>4
  <2> QED
    BY <1>4, <1>5, <2>2, <2>3
<1>7. mentions' \in [Jobs -> Seq(Said)]
  BY <1>1, <1>2, <1>4, TailKeeps
<1>8. ExtractionTypeOK'
  BY <1>1, <1>4, <1>6, <1>7 DEF ExtractionIInv, ExtractionTypeOK
<1>9. FactsHaveEntities'
  <2>1. \A i \in Jobs : \A p \in facts'[i] :
           /\ p.type = "FACT_CANDIDATE" /\ p.node.label = "Fact"
           /\ \A n \in {p.subject, p.object} : \E k \in DOMAIN resolved'[i] : resolved'[i][k] = n
    BY <1>1, <1>6 DEF ExtractionIInv, FactsHaveEntities
  <2> QED
    BY <1>1, <2>1 DEF ExtractionIInv, FactsHaveEntities, EventsOf
<1>10. ProjectedIsInGraph'
  BY <1>1 DEF ExtractionIInv, ProjectedIsInGraph
<1>11. EntitiesAreNamed'
  <2>1. \A i \in Jobs : IsFiniteSet(tx'[i])
    <3>1. IsFiniteSet(tx[j] \cup {new})
      BY FS_AddElement DEF ExtractionIInv, EntitiesAreNamed
    <3> QED
      BY <1>1, <1>4, <3>1 DEF ExtractionIInv, EntitiesAreNamed
  <2>2. \A e \in AllEntities' : e.label = "Entity" /\ e.name \in Names
    BY <1>2, <1>3, <1>5 DEF ExtractionIInv, EntitiesAreNamed
  <2> QED
    BY <1>1, <2>1, <2>2 DEF ExtractionIInv, EntitiesAreNamed, Entities
<1>12. OpenWhileResolving'
  BY <1>1, <1>4 DEF ExtractionIInv, ExtractionTypeOK, OpenWhileResolving, Ended
<1>13. CreatesAlone'
  BY <1>1 DEF ExtractionIInv, ExtractionTypeOK, CreatesAlone
<1>14. AllDistinct'
  <2> SUFFICES ASSUME ~ overlapped', ~ cutOff', NEW d \in AllEntities', NEW e \in AllEntities',
                      d.type = e.type, d # e
               PROVE  Similarity[d.name][e.name] < ReviewThreshold
    BY DEF AllDistinct
  <2>1. ~ overlapped /\ ~ cutOff
    BY <1>1
  <2>2. \A f \in AllEntities : /\ f.name \in Names
                               /\ f.type = m.type => Similarity[m.name][f.name] < ReviewThreshold
    BY <1>1, <2>1 DEF ExtractionIInv, CreatesAlone, OfType, EntitiesAreNamed
  <2>3. \A f \in AllEntities : f.type = m.type =>
           /\ Similarity[new.name][f.name] < ReviewThreshold
           /\ Similarity[f.name][new.name] < ReviewThreshold
    BY <1>2, <1>3, <2>2, ExtractionConstants
  <2>4. CASE d \in AllEntities /\ e \in AllEntities
    BY <2>1, <2>4 DEF ExtractionIInv, AllDistinct
  <2>5. CASE d = new \/ e = new
    BY <1>3, <1>5, <2>3, <2>5
  <2> QED
    BY <1>5, <2>4, <2>5
<1> QED
  BY <1>8, <1>9, <1>10, <1>11, <1>12, <1>13, <1>14 DEF ExtractionIInv

\* Entities move between a transaction, the outbox and the graph, and none is new.
LEMMA EntitiesMove ==
  ASSUME ExtractionIInv, NEW X, X \subseteq AllEntities, AllEntities' \subseteq AllEntities,
         \A i \in Jobs : pc'[i] = "create" =>
            pc[i] = "create" /\ mentions'[i] = mentions[i] /\ Sees(i)' = Sees(i) \cup X,
         UNCHANGED <<overlapped, cutOff>>
  PROVE  CreatesAlone' /\ AllDistinct'
<1>1. ASSUME NEW i \in Jobs, pc'[i] = "create"
      PROVE  /\ mentions'[i] # <<>> /\ Head(mentions'[i]).name \in Names
             /\ ~ overlapped' =>
                   /\ AllEntities' \subseteq Sees(i)'
                   /\ \A k \in Jobs \ {i} : pc'[k] # "create"
                   /\ ~ cutOff' => \A e \in OfType(Head(mentions'[i]).type, Sees(i)') :
                          Similarity[Head(mentions'[i]).name][e.name] < ReviewThreshold
  <2>1. pc[i] = "create" /\ mentions'[i] = mentions[i] /\ Sees(i)' = Sees(i) \cup X
    BY <1>1
  <2>2. ~ overlapped => Sees(i)' = Sees(i)
    BY <2>1 DEF ExtractionIInv, CreatesAlone
  <2> QED
    BY <2>1, <2>2 DEF ExtractionIInv, CreatesAlone
<1>2. CreatesAlone'
  BY <1>1 DEF CreatesAlone, OfType
<1>3. AllDistinct'
  BY DEF ExtractionIInv, AllDistinct
<1> QED
  BY <1>2, <1>3

\* A job keeps what it has resolved, and the facts about it, or has forgotten both.
KeepsOrForgets ==
    /\ mentions' \in [Jobs -> Seq(Said)]
    /\ \A f \in {extracted', facts', resolved'} : DOMAIN f = Jobs
    /\ \A i \in Jobs : \/ facts'[i] = facts[i] /\ resolved'[i] = resolved[i]
                       \/ facts'[i] = {} /\ resolved'[i] = <<>>

LEMMA ForgetKeepsOthers ==
  ASSUME ExtractionIInv, NEW j \in Jobs, Forget(j)
  PROVE  /\ KeepsOrForgets /\ resolved'[j] = <<>>
         /\ \A i \in Jobs : i # j => mentions'[i] = mentions[i]
<1>1. \A S : <<>> \in Seq(S)
  OBVIOUS
<1> QED
  BY <1>1 DEF KeepsOrForgets, Forget, ExtractionIInv, ExtractionTypeOK

LEMMA CommittedKeeps ==
  ASSUME ExtractionIInv, NEW j \in Jobs, pc[j] = "commit", NEW other, Committed(j, other)
  PROVE  /\ KeepsOrForgets
         /\ pc' = pc \/ (pc' = [pc EXCEPT ![j] = "done"] /\ other[j] = "committed")
         /\ \A i \in Jobs : pc'[i] = "create" => pc[i] = "create" /\ mentions'[i] = mentions[i]
<1>1. CASE other[j] = "committed"
  <2>1. pc' = [pc EXCEPT ![j] = "done"] /\ Forget(j)
    BY <1>1 DEF Committed, Go
  <2> QED
    BY <1>1, <2>1, ForgetKeepsOthers DEF ExtractionIInv, ExtractionTypeOK
<1>2. CASE other[j] # "committed"
  <2>1. UNCHANGED <<pc, extracted, mentions, resolved, facts>>
    BY <1>2 DEF Committed
  <2> QED
    BY <2>1 DEF KeepsOrForgets, ExtractionIInv, ExtractionTypeOK
<1> QED
  BY <1>1, <1>2

\* Facts keep their entities in the job, and in an outbox that nothing was added to.
LEMMA FactsKept ==
  ASSUME ExtractionIInv, KeepsOrForgets
  PROVE  /\ \A i \in Jobs : \A p \in facts'[i] :
              /\ p.type = "FACT_CANDIDATE" /\ p.node.label = "Fact"
              /\ \A n \in {p.subject, p.object} : \E k \in DOMAIN resolved'[i] : resolved'[i][k] = n
         /\ outbox' = outbox => FactsHaveEntities'
<1>1. \A i \in Jobs : \A p \in facts'[i] :
         /\ p.type = "FACT_CANDIDATE" /\ p.node.label = "Fact"
         /\ \A n \in {p.subject, p.object} : \E k \in DOMAIN resolved'[i] : resolved'[i][k] = n
  BY DEF KeepsOrForgets, ExtractionIInv, FactsHaveEntities
<1>2. outbox' = outbox => FactsHaveEntities'
  BY <1>1 DEF ExtractionIInv, FactsHaveEntities, EventsOf
<1> QED
  BY <1>1, <1>2

\* What a job has resolved stays in sight as long as the job keeps it.
LEMMA ResolvedKept ==
  ASSUME ExtractionIInv, KeepsOrForgets, NEW i \in Jobs,
         Sees(i) \subseteq Sees(i)' \/ resolved'[i] = <<>>
  PROVE  resolved'[i] \in Seq(Sees(i)')
<1>1. resolved[i] \in Seq(Sees(i)) /\ (resolved'[i] = resolved[i] \/ resolved'[i] = <<>>)
  BY DEF KeepsOrForgets, ExtractionIInv, ExtractionTypeOK
<1>2. CASE resolved'[i] = <<>>
  <2>1. <<>> \in Seq(Sees(i)')
    OBVIOUS
  <2> QED
    BY <1>2, <2>1
<1>3. CASE resolved'[i] = resolved[i] /\ Sees(i) \subseteq Sees(i)'
  BY <1>1, <1>3, SeqGrows
<1> QED
  BY <1>1, <1>2, <1>3

LEMMA CommitPostgresPreserves ==
  ASSUME ExtractionIInv, NEW j \in Jobs, CommitPostgres(j)
  PROVE  ExtractionIInv'
<1>1. /\ pc[j] = "commit" /\ Committed(j, neo)
      /\ outbox' = outbox \cup Emitted(j) /\ pg' = [pg EXCEPT ![j] = "committed"]
      /\ UNCHANGED <<tx, neo, graph, projected, overlapped, cutOff>>
  BY DEF CommitPostgres
<1>2. /\ KeepsOrForgets
      /\ pc' = pc \/ (pc' = [pc EXCEPT ![j] = "done"] /\ neo[j] = "committed")
      /\ \A i \in Jobs : pc'[i] = "create" => pc[i] = "create" /\ mentions'[i] = mentions[i]
  BY <1>1, CommittedKeeps
<1>3. \A i \in Jobs : Sees(i)' = Sees(i)
  BY <1>1 DEF Sees
<1>4. \A p \in Emitted(j) :
         \/ p.type = "ENTITY_MENTIONED" /\ p.node.label = "Mention"
         \/ p.type = "ENTITY_RESOLVED" /\ p.node \in Sees(j)
         \/ p \in facts[j] /\ p.type = "FACT_CANDIDATE" /\ p.node.label = "Fact"
  <2>1. \A p \in MentionEvents(j) : p.type = "ENTITY_MENTIONED" /\ p.node.label = "Mention"
    BY DEF MentionEvents
  <2>2. \A p \in EntityEvents(j) : p.type = "ENTITY_RESOLVED" /\ p.node \in Sees(j)
    BY DEF EntityEvents, ExtractionIInv, ExtractionTypeOK
  <2>3. \A p \in facts[j] : p.type = "FACT_CANDIDATE" /\ p.node.label = "Fact"
    BY DEF ExtractionIInv, FactsHaveEntities
  <2> QED
    BY <2>1, <2>2, <2>3 DEF Emitted
<1>5. AllEntities' \subseteq AllEntities
  <2> SUFFICES ASSUME NEW e \in AllEntities' PROVE e \in AllEntities
    OBVIOUS
  <2>1. \/ e \in Entities(graph.nodes) \/ e \in UNION {tx[i] : i \in Jobs}
        \/ \E p \in outbox \cup Emitted(j) : p.type = "ENTITY_RESOLVED" /\ e = p.node
    BY <1>1 DEF AllEntities, Entities, EventsOf
  <2>2. ASSUME NEW p \in outbox \cup Emitted(j), p.type = "ENTITY_RESOLVED", e = p.node
        PROVE  e \in AllEntities
    <3>1. CASE p \in outbox
      BY <2>2, <3>1, InAllEntities DEF EventsOf
    <3>2. CASE p \in Emitted(j)
      BY <1>4, <2>2, <3>2, SeesNamed
    <3> QED
      BY <2>2, <3>1, <3>2
  <2> QED
    BY <2>1, <2>2, InAllEntities
<1>6. ExtractionTypeOK'
  <2>1. \A i \in Jobs : resolved'[i] \in Seq(Sees(i)')
    BY <1>2, <1>3, ResolvedKept
  <2> QED
    BY <1>1, <1>2, <2>1 DEF KeepsOrForgets, ExtractionIInv, ExtractionTypeOK, Ended
<1>7. FactsHaveEntities'
  <2>1. ASSUME NEW p \in EventsOf("FACT_CANDIDATE")'
        PROVE  {EntityEvent(p.subject), EntityEvent(p.object)} \subseteq outbox'
    <3>1. p \in outbox \cup Emitted(j) /\ p.type = "FACT_CANDIDATE"
      BY <1>1, <2>1 DEF EventsOf
    <3>2. CASE p \in outbox
      BY <1>1, <3>1, <3>2 DEF ExtractionIInv, FactsHaveEntities, EventsOf
    <3>3. CASE p \in Emitted(j)
      <4>1. p \in facts[j]
        BY <1>4, <3>1, <3>3
      <4>2. \A n \in {p.subject, p.object} : EntityEvent(n) \in EntityEvents(j)
        BY <4>1 DEF ExtractionIInv, FactsHaveEntities, EntityEvent, EntityEvents
      <4> QED
        BY <1>1, <4>2 DEF Emitted
    <3> QED
      BY <3>1, <3>2, <3>3
  <2> QED
    BY <1>2, <2>1, FactsKept DEF FactsHaveEntities
<1>8. ProjectedIsInGraph'
  BY <1>1 DEF ExtractionIInv, ProjectedIsInGraph
<1>9. EntitiesAreNamed'
  <2>1. \A p \in outbox' : \/ p.type = "ENTITY_RESOLVED"
                           \/ p.type \in {"ENTITY_MENTIONED", "FACT_CANDIDATE"} /\ p.node.label # "Entity"
    BY <1>1, <1>4 DEF ExtractionIInv, EntitiesAreNamed
  <2> QED
    BY <1>1, <1>5, <2>1 DEF ExtractionIInv, EntitiesAreNamed, Entities
<1>10. OpenWhileResolving'
  BY <1>1, <1>2 DEF ExtractionIInv, ExtractionTypeOK, OpenWhileResolving, Ended
<1>11. CreatesAlone' /\ AllDistinct'
  <2>1. \A i \in Jobs : Sees(i)' = Sees(i) \cup {}
    BY <1>3
  <2> QED
    BY <1>1, <1>2, <1>5, <2>1, EntitiesMove
<1> QED
  BY <1>6, <1>7, <1>8, <1>9, <1>10, <1>11 DEF ExtractionIInv

LEMMA CommitNeo4jPreserves ==
  ASSUME ExtractionIInv, NEW j \in Jobs, CommitNeo4j(j)
  PROVE  ExtractionIInv'
<1>1. /\ pc[j] = "commit" /\ neo[j] = "open" /\ Committed(j, pg)
      /\ graph' = [graph EXCEPT !.nodes = graph.nodes \cup tx[j]]
      /\ tx' = [tx EXCEPT ![j] = {}] /\ neo' = [neo EXCEPT ![j] = "committed"]
      /\ UNCHANGED <<pg, outbox, projected, overlapped, cutOff>>
  BY DEF CommitNeo4j
<1>2. /\ KeepsOrForgets
      /\ pc' = pc \/ (pc' = [pc EXCEPT ![j] = "done"] /\ pg[j] = "committed")
      /\ \A i \in Jobs : pc'[i] = "create" => pc[i] = "create" /\ mentions'[i] = mentions[i]
  BY <1>1, CommittedKeeps
<1>3. DOMAIN tx = Jobs /\ DOMAIN graph = {"nodes", "edges"}
  BY DEF ExtractionIInv, ExtractionTypeOK
<1>4. graph'.nodes = graph.nodes \cup tx[j] /\ DOMAIN graph' = {"nodes", "edges"}
  BY <1>1, <1>3
<1>5. tx[j] \subseteq AllEntities /\ \A e \in tx[j] : e.label = "Entity"
  BY InAllEntities DEF ExtractionIInv, EntitiesAreNamed
<1>6. Entities(graph'.nodes) = Entities(graph.nodes) \cup tx[j]
  BY <1>4, <1>5 DEF Entities
<1>7. /\ tx'[j] = {} /\ \A i \in Jobs : i # j => tx'[i] = tx[i]
      /\ \A i \in Jobs : Sees(i)' = Sees(i) \cup tx[j]
  BY <1>1, <1>3, <1>6 DEF Sees
<1>8. AllEntities' \subseteq AllEntities
  <2> SUFFICES ASSUME NEW e \in AllEntities' PROVE e \in AllEntities
    OBVIOUS
  <2>1. \/ e \in Entities(graph'.nodes) \/ \E i \in Jobs : e \in tx'[i]
        \/ \E p \in EventsOf("ENTITY_RESOLVED") : e = p.node
    BY <1>1 DEF AllEntities, EventsOf
  <2>2. (\E i \in Jobs : e \in tx'[i]) => e \in UNION {tx[i] : i \in Jobs}
    BY <1>7
  <2> QED
    BY <1>5, <1>6, <2>1, <2>2, InAllEntities
<1>9. ExtractionTypeOK'
  <2>1. \A i \in Jobs : resolved'[i] \in Seq(Sees(i)')
    BY <1>2, <1>7, ResolvedKept
  <2>2. DOMAIN tx' = Jobs /\ neo' \in [Jobs -> {"open", "committed", "rolledback"}]
    BY <1>1, <1>3 DEF ExtractionIInv, ExtractionTypeOK
  <2> QED
    BY <1>1, <1>2, <1>4, <2>1, <2>2 DEF KeepsOrForgets, ExtractionIInv, ExtractionTypeOK, Ended
<1>10. FactsHaveEntities'
  BY <1>1, <1>2, FactsKept
<1>11. ProjectedIsInGraph'
  BY <1>1, <1>4 DEF ExtractionIInv, ProjectedIsInGraph
<1>12. EntitiesAreNamed'
  <2>1. IsFiniteSet(Entities(graph'.nodes)) /\ \A i \in Jobs : IsFiniteSet(tx'[i])
    <3>1. IsFiniteSet(Entities(graph.nodes) \cup tx[j])
      BY FS_Union DEF ExtractionIInv, EntitiesAreNamed
    <3>2. \A i \in Jobs : IsFiniteSet(tx'[i])
      BY <1>7, FS_EmptySet DEF ExtractionIInv, EntitiesAreNamed
    <3> QED
      BY <1>6, <3>1, <3>2
  <2> QED
    BY <1>1, <1>8, <2>1 DEF ExtractionIInv, EntitiesAreNamed, Entities
<1>13. OpenWhileResolving'
  BY <1>1, <1>2, <1>7 DEF ExtractionIInv, ExtractionTypeOK, OpenWhileResolving, Ended
<1>14. CreatesAlone' /\ AllDistinct'
  BY <1>1, <1>2, <1>5, <1>7, <1>8, EntitiesMove
<1> QED
  BY <1>9, <1>10, <1>11, <1>12, <1>13, <1>14 DEF ExtractionIInv

LEMMA FailPreserves ==
  ASSUME ExtractionIInv, NEW j \in Jobs, Fail(j)
  PROVE  ExtractionIInv'
<1>1. /\ pc' = [pc EXCEPT ![j] = "failed"] /\ tx' = [tx EXCEPT ![j] = {}] /\ Forget(j)
      /\ \E a, b \in {"open", "committed", "rolledback"} :
            neo' = [neo EXCEPT ![j] = a] /\ pg' = [pg EXCEPT ![j] = b]
      /\ UNCHANGED <<graph, outbox, projected, overlapped, cutOff>>
  BY DEF Fail, Go, ExtractionIInv, ExtractionTypeOK
<1>2. /\ KeepsOrForgets /\ resolved'[j] = <<>>
      /\ \A i \in Jobs : i # j => mentions'[i] = mentions[i]
  BY <1>1, ForgetKeepsOthers
<1>3. /\ tx'[j] = {} /\ \A i \in Jobs : i # j => tx'[i] = tx[i]
      /\ \A i \in Jobs : i # j => Sees(i)' = Sees(i)
  BY <1>1 DEF Sees, ExtractionIInv, ExtractionTypeOK
<1>4. AllEntities' \subseteq AllEntities
  <2>1. \A e \in UNION {tx'[i] : i \in Jobs} : e \in UNION {tx[i] : i \in Jobs}
    BY <1>3
  <2> QED
    BY <1>1, <2>1 DEF AllEntities, EventsOf, Entities
<1>5. ExtractionTypeOK'
  <2>1. \A i \in Jobs : resolved'[i] \in Seq(Sees(i)')
    BY <1>2, <1>3, ResolvedKept
  <2>2. /\ pc' \in [Jobs -> Ended \cup {"extract", "resolve", "create", "commit"}]
        /\ neo' \in [Jobs -> {"open", "committed", "rolledback"}]
        /\ pg' \in [Jobs -> {"open", "committed", "rolledback"}]
        /\ DOMAIN tx' = Jobs
    BY <1>1 DEF ExtractionIInv, ExtractionTypeOK, Ended
  <2> QED
    BY <1>1, <1>2, <2>1, <2>2 DEF KeepsOrForgets, ExtractionIInv, ExtractionTypeOK
<1>6. FactsHaveEntities'
  BY <1>1, <1>2, FactsKept
<1>7. ProjectedIsInGraph'
  BY <1>1 DEF ExtractionIInv, ProjectedIsInGraph
<1>8. EntitiesAreNamed'
  <2>1. \A i \in Jobs : IsFiniteSet(tx'[i])
    BY <1>3, FS_EmptySet DEF ExtractionIInv, EntitiesAreNamed
  <2> QED
    BY <1>1, <1>4, <2>1 DEF ExtractionIInv, EntitiesAreNamed, Entities
<1>9. OpenWhileResolving'
  BY <1>1, <1>3 DEF ExtractionIInv, ExtractionTypeOK, OpenWhileResolving, Ended
<1>10. CreatesAlone' /\ AllDistinct'
  <2>1. \A i \in Jobs : pc'[i] = "create" =>
           pc[i] = "create" /\ mentions'[i] = mentions[i] /\ Sees(i)' = Sees(i) \cup {}
    BY <1>1, <1>2, <1>3 DEF ExtractionIInv, ExtractionTypeOK
  <2> QED
    BY <1>1, <1>4, <2>1, EntitiesMove
<1> QED
  BY <1>5, <1>6, <1>7, <1>8, <1>9, <1>10 DEF ExtractionIInv

LEMMA ProjectPreserves ==
  ASSUME ExtractionIInv, NEW p \in outbox, Project(p)
  PROVE  ExtractionIInv'
<1> DEFINE X == IF p.type = "ENTITY_RESOLVED" THEN {p.node} ELSE {}
<1>1. /\ graph' = ProjectEvent(p, graph) /\ projected' = projected \cup {p}
      /\ UNCHANGED <<pc, mentions, extracted, resolved, facts, tx, neo, pg, outbox, overlapped, cutOff>>
  BY DEF Project, jobVars
<1>2. DOMAIN graph = {"nodes", "edges"}
  BY DEF ExtractionIInv, ExtractionTypeOK
<1>3. \/ p.type = "ENTITY_RESOLVED"
      \/ p.type \in {"ENTITY_MENTIONED", "FACT_CANDIDATE"} /\ p.node.label # "Entity"
  BY DEF ExtractionIInv, EntitiesAreNamed
<1>4. graph'.nodes = graph.nodes \cup {p.node} /\ DOMAIN graph' = {"nodes", "edges"}
  <2>1. CASE p.type \in {"ENTITY_MENTIONED", "ENTITY_RESOLVED"}
    BY <1>1, <1>2, <2>1 DEF ProjectEvent, MergeNode
  <2>2. CASE p.type = "FACT_CANDIDATE"
    BY <1>1, <2>2 DEF ProjectEvent, MergeFact
  <2> QED
    BY <1>3, <2>1, <2>2
<1>5. X \subseteq AllEntities /\ \A e \in X : e.label = "Entity"
  <2>1. p.type = "ENTITY_RESOLVED" => p.node \in AllEntities
    BY InAllEntities DEF EventsOf
  <2> QED
    BY <2>1 DEF ExtractionIInv, EntitiesAreNamed
<1>6. Entities(graph'.nodes) = Entities(graph.nodes) \cup X
  BY <1>3, <1>4, <1>5 DEF Entities
<1>7. \A i \in Jobs : Sees(i)' = Sees(i) \cup X
  BY <1>1, <1>6 DEF Sees
<1>8. IsFiniteSet(X)
  BY FS_EmptySet, FS_Singleton
<1> HIDE DEF X
<1>9. AllEntities' \subseteq AllEntities
  <2> SUFFICES ASSUME NEW e \in AllEntities' PROVE e \in AllEntities
    OBVIOUS
  <2>1. \/ e \in Entities(graph'.nodes) \/ e \in UNION {tx[i] : i \in Jobs}
        \/ \E q \in EventsOf("ENTITY_RESOLVED") : e = q.node
    BY <1>1 DEF AllEntities, EventsOf
  <2> QED
    BY <1>5, <1>6, <2>1, InAllEntities
<1>10. ExtractionTypeOK'
  <2>1. \A i \in Jobs : resolved'[i] \in Seq(Sees(i)')
    BY <1>1, <1>7, SeqGrows DEF ExtractionIInv, ExtractionTypeOK
  <2> QED
    BY <1>1, <1>4, <2>1 DEF ExtractionIInv, ExtractionTypeOK
<1>11. FactsHaveEntities'
  BY <1>1 DEF ExtractionIInv, FactsHaveEntities, EventsOf
<1>12. ProjectedIsInGraph'
  BY <1>1, <1>4 DEF ExtractionIInv, ProjectedIsInGraph
<1>13. EntitiesAreNamed'
  <2>1. IsFiniteSet(Entities(graph'.nodes))
    <3>1. IsFiniteSet(Entities(graph.nodes) \cup X)
      BY <1>8, FS_Union DEF ExtractionIInv, EntitiesAreNamed
    <3> QED
      BY <1>6, <3>1
  <2> QED
    BY <1>1, <1>9, <2>1 DEF ExtractionIInv, EntitiesAreNamed
<1>14. OpenWhileResolving'
  BY <1>1 DEF ExtractionIInv, OpenWhileResolving
<1>15. CreatesAlone' /\ AllDistinct'
  BY <1>1, <1>5, <1>7, <1>9, EntitiesMove
<1> QED
  BY <1>10, <1>11, <1>12, <1>13, <1>14, <1>15 DEF ExtractionIInv

(***************************************************************************)
(* What makes extraction sound: resolved entities are in sight, facts come *)
(* with their entities, and an entity is created only by a job that sees   *)
(* all there are, unless jobs overlap or find_entities left a row out.     *)
(***************************************************************************)
THEOREM ExtractionInvariant == ExtractionSpec => []ExtractionIInv
<1>1. ExtractionInit => ExtractionIInv
  BY ExtractionInitIInv
<1>2. ExtractionIInv /\ [ExtractionNext]_extractionVars => ExtractionIInv'
  <2>1. ASSUME ExtractionIInv, ExtractionNext PROVE ExtractionIInv'
    BY <2>1, ExtractPreserves, FindPreserves, CreatePreserves, ExtractFactsPreserves,
       CommitPostgresPreserves, CommitNeo4jPreserves, FailPreserves, ProjectPreserves
    DEF ExtractionNext, JobStep
  <2>2. ASSUME ExtractionIInv, UNCHANGED extractionVars PROVE ExtractionIInv'
    <3>1. UNCHANGED <<pc, mentions, extracted, resolved, facts, tx, neo, pg, graph, outbox,
                      projected, overlapped, cutOff>>
      BY <2>2 DEF extractionVars, jobVars
    <3>2. /\ AllEntities' = AllEntities /\ \A j \in Jobs : Sees(j)' = Sees(j)
          /\ ProjectedIsInGraph' /\ EntitiesAreNamed' /\ AllDistinct'
      BY <2>2, <3>1, StoresUnchanged
    <3> QED
      BY <2>2, <3>1, <3>2 DEF ExtractionIInv, ExtractionTypeOK, FactsHaveEntities, EventsOf,
                              OpenWhileResolving, CreatesAlone, OfType
  <2> QED
    BY <2>1, <2>2
<1> QED
  BY <1>1, <1>2, PTL DEF ExtractionSpec

(***************************************************************************)
(* Facts whose events have been projected have their entities in the       *)
(* graph, whichever of a job's two commits came first and whichever        *)
(* failed, for any number of jobs.                                         *)
(***************************************************************************)
THEOREM FactsFindTheirEntities == ExtractionSpec => []FactEntitiesExist
<1>1. ExtractionIInv => FactEntitiesExist
  <2> SUFFICES ASSUME ExtractionIInv, projected = outbox, NEW p \in outbox,
                      p.type = "FACT_CANDIDATE", NEW n \in {p.subject, p.object}
               PROVE  n \in graph.nodes
    BY DEF FactEntitiesExist
  <2>1. EntityEvent(n) \in projected
    BY DEF ExtractionIInv, FactsHaveEntities, EventsOf
  <2>2. EntityEvent(n).type = "ENTITY_RESOLVED" /\ EntityEvent(n).node = n
    BY DEF EntityEvent
  <2> QED
    BY <2>1, <2>2 DEF ExtractionIInv, ProjectedIsInGraph
<1> QED
  BY <1>1, ExtractionInvariant, PTL

(***************************************************************************)
(* The resolver makes no two entities of a type that are as similar as the *)
(* review threshold, unless two jobs overlapped or find_entities left a    *)
(* row out.                                                                *)
(***************************************************************************)
THEOREM ResolverKeepsApart == ExtractionSpec => []EntitiesAreDistinct
<1>1. ExtractionIInv => EntitiesAreDistinct
  <2> SUFFICES ASSUME ExtractionIInv PROVE EntitiesAreDistinct
    OBVIOUS
  <2>1. Entities(graph.nodes) \cup UNION {tx[j] : j \in Jobs} \subseteq AllEntities
    BY DEF AllEntities
  <2> QED
    BY <2>1 DEF ExtractionIInv, AllDistinct, EntitiesAreDistinct
<1> QED
  BY <1>1, ExtractionInvariant, PTL
-----------------------------------------------------------------------------
\* The windows of the chunker.

LEMMA WindowSizes == estimated_chars \in Nat \ {0} /\ overlap_chars \in Nat
<1>1. \A m, n \in Nat : m * n \in Nat /\ (m # 0 /\ n # 0 => m * n # 0)
  OBVIOUS
<1> QED
  BY <1>1, ChunkerConfig DEF estimated_chars, overlap_chars

LEMMA RangeType ==
  ASSUME WindowTypeOK
  PROVE  /\ text.len \in Nat /\ text.newlines \subseteq text.blanks /\ text.newlines \subseteq Nat
         /\ Len(protected) \in Nat /\ DOMAIN protected = 1..Len(protected)
         /\ \A i \in DOMAIN protected :
               /\ protected[i][1] \in 0..text.len /\ protected[i][2] \in 0..text.len
               /\ protected[i][1] < protected[i][2]
<1>1. /\ text.len \in Nat /\ text.newlines \subseteq text.blanks /\ text.newlines \subseteq Nat
  BY DEF WindowTypeOK, Texts
<1>2. /\ protected \in Seq((0..text.len) \X (0..text.len))
      /\ \A i \in DOMAIN protected : protected[i][1] < protected[i][2]
  BY DEF WindowTypeOK, RangesOf
<1>3. \A i \in DOMAIN protected : protected[i] \in (0..text.len) \X (0..text.len)
  BY <1>2
<1> QED
  BY <1>1, <1>2, <1>3

LEMMA TargetBounds ==
  ASSUME WindowTypeOK, start < text.len
  PROVE  Target \in Nat /\ start < Target /\ start \in Nat
  BY WindowSizes, RangeType DEF Target, Smaller, WindowTypeOK

\* If a block is in the way of a window, one is the first.
LEMMA FirstHitExists ==
  ASSUME WindowTypeOK, NEW i \in DOMAIN protected, Hit(protected[i])
  PROVE  Blocked
<1> DEFINE H == {k \in DOMAIN protected : Hit(protected[k])}
<1>1. H \in SUBSET Nat /\ H # {}
  BY RangeType
<1>2. PICK m \in H : \A k \in H : m <= k
  BY <1>1, NatMin
<1>3. FirstHit(m)
  BY <1>2, RangeType DEF FirstHit
<1> QED
  BY <1>2, <1>3 DEF Blocked

\* _find_safe_end moves on, and ends inside a block only where one it is in ends exactly
\* at its target.
LEMMA SafeEndIsSafe ==
  ASSUME WindowTypeOK, start < text.len
  PROVE  /\ WindowEnd \in Nat /\ start < WindowEnd /\ WindowEnd <= text.len
         /\ (Separate /\ ~ \E i \in DOMAIN protected :
                              protected[i][1] <= start /\ protected[i][2] = Target)
               => \A i \in DOMAIN protected : ~ Inside(protected[i], WindowEnd)
<1>1. Target \in Nat /\ start < Target /\ start \in Nat
  BY TargetBounds
<1>2. CASE ~ Blocked
  <2>1. WindowEnd = Target
    BY <1>1, <1>2 DEF WindowEnd, SafeOrTarget
  <2>2. \A i \in DOMAIN protected : ~ Inside(protected[i], Target)
    BY <1>1, <1>2, FirstHitExists, RangeType DEF Inside, Hit, EndsBeyond
  <2>3. Target <= text.len
    BY <1>1, WindowSizes, RangeType DEF Target, Smaller
  <2> QED
    BY <1>1, <2>1, <2>2, <2>3
<1>3. CASE Blocked
  <2>1. PICK h \in DOMAIN protected : FirstHit(h) /\ SafeOrTarget = SafeEnd(protected[h])
    BY <1>3 DEF Blocked, SafeOrTarget
  <2> DEFINE r == protected[h]
  <2>2. /\ r[1] \in Nat /\ r[2] \in Nat /\ r[1] < r[2] /\ r[2] <= text.len /\ Hit(r)
    BY <2>1, RangeType DEF FirstHit
  <2>3. SafeEnd(r) \in {r[1], r[2]}
    BY DEF SafeEnd
  <2>4. WindowEnd \in Nat /\ start < WindowEnd /\ WindowEnd <= text.len
    BY <1>1, <2>1, <2>2, <2>3, RangeType DEF WindowEnd, Smaller
  <2>5. ASSUME Separate,
               ~ \E i \in DOMAIN protected : protected[i][1] <= start /\ protected[i][2] = Target,
               NEW i \in DOMAIN protected
        PROVE  ~ Inside(protected[i], WindowEnd)
    <3>1. start < SafeEnd(r)
      BY <1>1, <2>2, <2>5 DEF SafeEnd, Hit, BeginsInside, HoldsStart, EndsBeyond
    <3>2. WindowEnd \in {r[1], r[2]}
      BY <1>1, <2>1, <2>2, <2>3, <3>1 DEF WindowEnd
    <3>3. i = h \/ protected[i][2] <= r[1] \/ r[2] <= protected[i][1]
      BY <2>5, RangeType DEF Separate
    <3> QED
      BY <2>2, <3>2, <3>3, RangeType DEF Inside
  <2> QED
    BY <2>4, <2>5
<1> QED
  BY <1>2, <1>3

\* strip() leaves something of a window that is not blank.
LEMMA ContentEndIsContent ==
  ASSUME WindowTypeOK, NEW a \in Nat, NEW b \in Nat, Visible(a, b) # {}
  PROVE  /\ ContentEnd(a, b) \in Nat /\ a < ContentEnd(a, b) /\ ContentEnd(a, b) <= b
         /\ ContentEnd(a, b) - 1 \notin text.blanks
         /\ \A p \in Visible(a, b) : p < ContentEnd(a, b)
<1>1. Visible(a, b) \in SUBSET Int /\ \A p \in Visible(a, b) : a <= p /\ p <= b - 1
  BY DEF Visible
<1>2. PICK m \in Visible(a, b) : \A p \in Visible(a, b) : p <= m
  BY <1>1, BoundedMax, b - 1 \in Int
<1>3. /\ m + 1 \in 1..b /\ (m + 1) - 1 \in Visible(a, b)
      /\ Visible(m + 1, b) = {}
  <2>1. \A p \in Visible(m + 1, b) : p \in Visible(a, b) /\ p > m
    BY <1>1, <1>2 DEF Visible
  <2> QED
    BY <1>1, <1>2, <2>1
<1>4. /\ ContentEnd(a, b) \in 1..b /\ ContentEnd(a, b) - 1 \in Visible(a, b)
      /\ Visible(ContentEnd(a, b), b) = {}
  BY <1>3 DEF ContentEnd
<1>5. \A p \in Visible(a, b) : p < ContentEnd(a, b)
  BY <1>4 DEF Visible
<1> QED
  BY <1>4, <1>5 DEF Visible

\* The line of a visible character begins at or before it.
LEMMA LineBeginIsBefore ==
  ASSUME WindowTypeOK, NEW p \in Nat \ {0}, p - 1 \notin text.blanks
  PROVE  LineBegin(p) \in Nat /\ LineBegin(p) < p
<1>1. CASE \A q \in 0..(p - 1) : q \notin text.newlines
  BY <1>1 DEF LineBegin
<1>2. CASE ~ \A q \in 0..(p - 1) : q \notin text.newlines
  <2> DEFINE Q == {q \in text.newlines : q < p}
  <2>1. Q \in SUBSET Int /\ Q # {} /\ p \in Int /\ \A q \in Q : q <= p
    BY <1>2, RangeType
  <2>2. PICK m \in Q : \A q \in Q : q <= m
    <3> HIDE DEF Q
    <3> QED
      BY <2>1, BoundedMax
  <2>3. \E q \in text.newlines : q < p /\ \A s \in text.newlines : s < p => s <= q
    BY <2>2
  <2>4. PICK q \in text.newlines : q < p /\ LineBegin(p) = q + 1
    BY <1>2, <2>3 DEF LineBegin
  <2>5. q \in Nat /\ q # p - 1
    BY <2>4, RangeType
  <2> QED
    BY <2>4, <2>5
<1> QED
  BY <1>1, <1>2

\* line_to_char has it there or before: so many line ends cannot be before it.
LEMMA LineStartIsBefore ==
  ASSUME WindowTypeOK, NEW p \in Nat \ {0}, p - 1 \notin text.blanks
  PROVE  LineStart(p) \in Nat /\ LineStart(p) < p
<1> DEFINE n == LineBegin(p)
           R == {q \in text.returns : q < n}
<1>1. n \in Nat /\ n < p
  BY LineBeginIsBefore
<1>2. R \subseteq 0..(n - 1)
  BY <1>1 DEF WindowTypeOK, Texts
<1> HIDE DEF n, R
<1>3. /\ IsFiniteSet(0..(n - 1)) /\ Cardinality(0..(n - 1)) = n
  BY <1>1, FS_Interval
<1>4. IsFiniteSet(R) /\ Cardinality(R) \in Nat /\ Cardinality(R) <= n
  BY <1>2, <1>3, FS_Subset, FS_CardinalityType
<1>5. LineStart(p) = n - Cardinality(R)
  BY DEF LineStart, n, R
<1> QED
  BY <1>1, <1>4, <1>5

\* PastBlock stays, or moves to the end of a block.
LEMMA PastBlockMoves ==
  ASSUME WindowTypeOK, NEW n \in Int
  PROVE  \/ PastBlock(n) = n
         \/ \E i \in DOMAIN protected : Inside(protected[i], n) /\ PastBlock(n) = protected[i][2]
<1>1. CASE ~ \E i \in DOMAIN protected : Inside(protected[i], n)
  BY <1>1 DEF PastBlock
<1>2. CASE \E i \in DOMAIN protected : Inside(protected[i], n)
  <2> DEFINE H == {k \in DOMAIN protected : Inside(protected[k], n)}
             First(i) == Inside(protected[i], n) /\ \A j \in 1..(i - 1) : ~ Inside(protected[j], n)
  <2>1. H \in SUBSET Nat /\ H # {}
    BY <1>2, RangeType
  <2>2. PICK m \in H : \A k \in H : m <= k
    BY <2>1, NatMin
  <2>3. First(m)
    BY <2>2, RangeType
  <2>4. \E i \in DOMAIN protected : First(i) /\ PastBlock(n) = protected[i][2]
    BY <1>2, <2>2, <2>3 DEF PastBlock
  <2> QED
    BY <2>4
<1> QED
  BY <1>1, <1>2

LEMMA WindowType ==
  ASSUME WindowTypeOK
  PROVE  /\ Len(windows) \in Nat /\ DOMAIN windows = 1..Len(windows)
         /\ \A k \in DOMAIN windows :
               windows[k].from \in Nat /\ windows[k].end \in Nat /\ windows[k].last \in Nat
<1> DEFINE W == [from : Nat, end : Nat, last : Nat]
<1>1. windows \in Seq(W)
  BY DEF WindowTypeOK
<1>2. \A w \in W : w.from \in Nat /\ w.end \in Nat /\ w.last \in Nat
  OBVIOUS
<1> HIDE DEF W
<1>3. \A k \in DOMAIN windows : windows[k] \in W
  BY <1>1
<1> QED
  BY <1>1, <1>2, <1>3

\* The next start before it is moved past a block: behind the end of this window or of the last.
LEMMA AfterLineIsBehind ==
  ASSUME WindowIInv, scan = "scan", start < text.len
  PROVE  LET n == AfterLine(WindowEnd - overlap_chars, start + 1)
         IN  /\ n \in Int /\ start < n
             /\ \/ n <= WindowEnd
                \/ \E k \in DOMAIN windows : windows[k].end \in Nat /\ n <= windows[k].end
<1> DEFINE n == AfterLine(WindowEnd - overlap_chars, start + 1)
<1>1. /\ WindowTypeOK /\ start \in Nat /\ text.len \in Nat /\ overlap_chars \in Nat
  BY WindowSizes, RangeType, TargetBounds DEF WindowIInv
<1>2. WindowEnd \in Nat /\ start < WindowEnd
  BY <1>1, SafeEndIsSafe
<1>3. CASE Len(windows) > 0
  <2> DEFINE w == windows[Len(windows)]
  <2>1. Len(windows) \in DOMAIN windows /\ w.from \in Nat /\ w.end \in Nat /\ w.last \in Nat
    BY <1>1, <1>3, WindowType
  <2>2. w.from < w.last /\ w.last <= w.end /\ w.last - 1 \notin text.blanks
    BY <2>1 DEF WindowIInv, WindowsAreBehind
  <2>3. LineStart(w.last) \in Nat /\ LineStart(w.last) < w.last
    BY <1>1, <2>1, <2>2, LineStartIsBefore
  <2>4. n = Larger(Larger(WindowEnd - overlap_chars, LineStart(w.last) + 1), start + 1)
    BY <1>3 DEF AfterLine
  <2> HIDE DEF w, n
  <2>5. n \in Int /\ start < n /\ (n <= WindowEnd \/ n <= w.end)
    BY <1>1, <1>2, <2>1, <2>2, <2>3, <2>4 DEF Larger
  <2> QED
    BY <2>1, <2>5 DEF w, n
<1>4. CASE ~ (Len(windows) > 0)
  BY <1>1, <1>2, <1>4 DEF AfterLine, Larger
<1> QED
  BY <1>3, <1>4

LEMMA NextStartAdvances ==
  ASSUME WindowIInv, scan = "scan", start < text.len
  PROVE  NextStart(WindowEnd) \in 0..text.len /\ start < NextStart(WindowEnd)
<1> DEFINE n == AfterLine(WindowEnd - overlap_chars, start + 1)
<1>1. /\ WindowTypeOK /\ start \in Nat /\ text.len \in Nat
  BY RangeType, TargetBounds DEF WindowIInv
<1>2. n \in Int /\ start < n
  BY AfterLineIsBehind
<1> HIDE DEF n
<1>3. NextStart(WindowEnd) = Smaller(PastBlock(n), text.len)
  BY DEF NextStart, n
<1>4. CASE PastBlock(n) = n
  BY <1>1, <1>2, <1>3, <1>4 DEF Smaller
<1>5. ASSUME NEW i \in DOMAIN protected, Inside(protected[i], n), PastBlock(n) = protected[i][2]
      PROVE  NextStart(WindowEnd) \in 0..text.len /\ start < NextStart(WindowEnd)
  <2>1. protected[i][2] \in 0..text.len /\ n < protected[i][2]
    BY <1>1, <1>5, RangeType DEF Inside
  <2> QED
    BY <1>1, <1>2, <1>3, <1>5, <2>1 DEF Smaller
<1> QED
  BY <1>1, <1>2, <1>4, <1>5, PastBlockMoves

\* The next start is behind the end of this window or of an earlier one even when it is moved
\* past a block: what that block still holds is kept.
LEMMA NextStartIsBehind ==
  ASSUME WindowIInv, scan = "scan", start < text.len, Separate, ~ exact,
         ~ \E i \in DOMAIN protected : protected[i][1] <= start /\ protected[i][2] = Target
  PROVE  \/ NextStart(WindowEnd) <= WindowEnd
         \/ \E k \in DOMAIN windows : NextStart(WindowEnd) <= windows[k].end
<1> DEFINE n == AfterLine(WindowEnd - overlap_chars, start + 1)
<1>1. /\ WindowTypeOK /\ start \in Nat /\ text.len \in Nat
  BY RangeType, TargetBounds DEF WindowIInv
<1>2. /\ WindowEnd \in Nat
      /\ \A i \in DOMAIN protected : ~ Inside(protected[i], WindowEnd)
  BY <1>1, SafeEndIsSafe
<1>3. /\ n \in Int /\ start < n
      /\ \/ n <= WindowEnd
         \/ \E k \in DOMAIN windows : windows[k].end \in Nat /\ n <= windows[k].end
  BY AfterLineIsBehind
<1> HIDE DEF n
<1>4. NextStart(WindowEnd) = Smaller(PastBlock(n), text.len)
  BY DEF NextStart, n
<1>5. CASE PastBlock(n) = n
  BY <1>1, <1>2, <1>3, <1>4, <1>5 DEF Smaller
<1>6. ASSUME NEW i \in DOMAIN protected, Inside(protected[i], n), PastBlock(n) = protected[i][2]
      PROVE  \/ NextStart(WindowEnd) <= WindowEnd
             \/ \E k \in DOMAIN windows : NextStart(WindowEnd) <= windows[k].end
  <2>1. /\ protected[i][1] \in 0..text.len /\ protected[i][2] \in 0..text.len
        /\ protected[i][1] < n /\ n < protected[i][2]
    BY <1>1, <1>6, RangeType DEF Inside
  <2>2. NextStart(WindowEnd) = protected[i][2]
    BY <1>1, <1>4, <1>6, <2>1 DEF Smaller
  <2>3. CASE n <= WindowEnd
    BY <1>1, <1>2, <1>3, <2>1, <2>2, <2>3 DEF Inside
  <2>4. ASSUME NEW k \in DOMAIN windows, windows[k].end \in Nat, n <= windows[k].end
        PROVE  protected[i][2] <= windows[k].end
    <3>1. ~ Inside(protected[i], windows[k].end)
      BY DEF WindowIInv, NoBlockIsCut
    <3> QED
      BY <1>3, <2>1, <2>4, <3>1 DEF Inside
  <2> QED
    BY <1>1, <1>3, <2>1, <2>2, <2>3, <2>4
<1> QED
  BY <1>1, <1>3, <1>5, <1>6, PastBlockMoves

LEMMA SkipBlankPreserves ==
  ASSUME WindowIInv, SkipBlank
  PROVE  WindowIInv'
<1>1. /\ scan = "scan" /\ start < text.len /\ Visible(start, WindowEnd) = {}
      /\ start' = Smaller(start + 1, text.len)
      /\ UNCHANGED <<text, protected, prev_end, windows, scan, exact>>
  BY DEF SkipBlank
<1>2. WindowTypeOK /\ start \in Nat /\ text.len \in Nat /\ WindowEnd \in Nat /\ start < WindowEnd
  BY <1>1, SafeEndIsSafe, RangeType, TargetBounds DEF WindowIInv
<1>3. start' = start + 1 /\ start' \in 0..text.len
  BY <1>1, <1>2 DEF Smaller
<1>4. WindowTypeOK'
  BY <1>1, <1>2, <1>3 DEF WindowTypeOK
<1>5. WindowsAreBehind'
  BY <1>1, <1>2, <1>3, WindowType DEF WindowIInv, WindowsAreBehind
<1>6. NoBlockIsCut'
  BY <1>1 DEF WindowIInv, NoBlockIsCut, Separate, Inside
<1>7. BehindIsKept'
  <2>1. \A p \in Visible(0, start)' : p \in Visible(0, start)
    BY <1>1, <1>2, <1>3 DEF Visible
  <2> QED
    BY <1>1, <2>1 DEF WindowIInv, BehindIsKept, Separate, Covered
<1>8. TextIsKept' /\ WindowsKeepContent'
  BY <1>1 DEF WindowIInv, TextIsKept, WindowsKeepContent, Visible
<1>9. BlocksAreKept'
  <2> SUFFICES ASSUME Separate, ~ exact, NEW i \in DOMAIN protected, ~ InWindow(protected[i])
               PROVE  Visible(protected[i][1], Smaller(start + 1, protected[i][2])) = {}
    BY <1>1, <1>3 DEF BlocksAreKept, Separate, InWindow, Visible
  <2>1. Visible(protected[i][1], Smaller(start, protected[i][2])) = {}
    BY <1>1 DEF WindowIInv, BlocksAreKept
  <2>2. start \notin Visible(start, WindowEnd) /\ start \in start..(WindowEnd - 1)
    BY <1>1, <1>2
  <2>3. start \in text.blanks
    BY <2>2 DEF Visible
  <2>4. \A p \in Visible(protected[i][1], Smaller(start + 1, protected[i][2])) :
           p # start /\ p \in Visible(protected[i][1], Smaller(start, protected[i][2]))
    BY <1>2, <2>3, RangeType DEF Visible, Smaller
  <2> QED
    BY <2>1, <2>4
<1> QED
  BY <1>4, <1>5, <1>6, <1>7, <1>8, <1>9 DEF WindowIInv

LEMMA EmitWindowPreserves ==
  ASSUME WindowIInv, EmitWindow
  PROVE  WindowIInv'
<1> DEFINE w == [from |-> start, end |-> WindowEnd, last |-> ContentEnd(start, WindowEnd)]
           hitsExactly == \E i \in DOMAIN protected : protected[i][1] <= start /\ protected[i][2] = Target
<1>1. /\ scan = "scan" /\ start < text.len /\ Visible(start, WindowEnd) # {}
      /\ windows' = Append(windows, w) /\ prev_end' = WindowEnd
      /\ exact' = (exact \/ hitsExactly)
      /\ \/ WindowEnd >= text.len /\ scan' = "done" /\ start' = start
         \/ ~ (WindowEnd >= text.len) /\ scan' = "scan" /\ start' = NextStart(WindowEnd)
      /\ UNCHANGED <<text, protected>>
  BY DEF EmitWindow
<1>2. /\ WindowTypeOK /\ start \in 0..text.len /\ text.len \in Nat
      /\ WindowEnd \in Nat /\ start < WindowEnd /\ WindowEnd <= text.len
      /\ (Separate /\ ~ hitsExactly) => \A i \in DOMAIN protected : ~ Inside(protected[i], WindowEnd)
  BY <1>1, SafeEndIsSafe, RangeType DEF WindowIInv, WindowTypeOK
<1>3. /\ w.last \in Nat /\ start < w.last /\ w.last <= w.end /\ w.last - 1 \notin text.blanks
      /\ w.from = start /\ w.end = WindowEnd /\ w \in [from : Nat, end : Nat, last : Nat]
  BY <1>1, <1>2, ContentEndIsContent
<1>12. \A p \in Visible(start, WindowEnd) : p < w.last
  BY <1>1, <1>2, ContentEndIsContent
<1>4. exact' \in BOOLEAN /\ (~ exact' => ~ exact /\ ~ hitsExactly)
  BY <1>1
<1> HIDE DEF w, hitsExactly
<1>5. /\ windows' \in Seq([from : Nat, end : Nat, last : Nat])
      /\ DOMAIN windows' = DOMAIN windows \cup {Len(windows) + 1}
      /\ \A k \in DOMAIN windows : windows'[k] = windows[k]
      /\ windows'[Len(windows) + 1] = w
  <2> DEFINE W == [from : Nat, end : Nat, last : Nat]
  <2>1. windows \in Seq(W) /\ w \in W
    BY <1>2, <1>3 DEF WindowTypeOK
  <2> HIDE DEF W
  <2>2. /\ Append(windows, w) \in Seq(W)
        /\ DOMAIN Append(windows, w) = DOMAIN windows \cup {Len(windows) + 1}
        /\ \A k \in DOMAIN windows : Append(windows, w)[k] = windows[k]
        /\ Append(windows, w)[Len(windows) + 1] = w
    BY <2>1
  <2> QED
    BY <1>1, <2>2 DEF W
<1>6. \A p : Covered(p) \/ (start <= p /\ p < WindowEnd) => Covered(p)'
  BY <1>3, <1>5 DEF Covered
<1>9. WindowsKeepContent'
  BY <1>1, <1>2, <1>3, <1>5, <1>12 DEF WindowIInv, WindowsKeepContent, Visible
<1>10. ASSUME NEW i \in DOMAIN protected,
              \/ InWindow(protected[i])
              \/ Visible(protected[i][1], start) = {} /\ protected[i][2] <= WindowEnd
       PROVE  InWindow(protected[i])'
  BY <1>1, <1>3, <1>5, <1>10 DEF InWindow, Visible
<1>11. ASSUME Separate, ~ exact, NEW i \in DOMAIN protected
       PROVE  InWindow(protected[i]) \/ Visible(protected[i][1], Smaller(start, protected[i][2])) = {}
  BY <1>1, <1>11 DEF WindowIInv, BlocksAreKept
<1>7. CASE scan' = "scan"
  <2>1. start' = NextStart(WindowEnd) /\ start' \in 0..text.len /\ start <= start'
    BY <1>1, <1>2, <1>7, NextStartAdvances
  <2>2. WindowTypeOK'
    BY <1>1, <1>2, <1>4, <1>5, <1>7, <2>1 DEF WindowTypeOK
  <2>3. WindowsAreBehind'
    <3>1. ASSUME NEW k \in DOMAIN windows'
          PROVE  /\ windows'[k].from <= start'
                 /\ windows'[k].from < windows'[k].last /\ windows'[k].last <= windows'[k].end
                 /\ windows'[k].last - 1 \notin text.blanks
      <4>1. CASE k \in DOMAIN windows
        <5>1. /\ windows[k].from \in Nat /\ windows[k].from <= start
              /\ windows[k].from < windows[k].last /\ windows[k].last <= windows[k].end
              /\ windows[k].last - 1 \notin text.blanks
          BY <1>1, <1>2, <4>1, WindowType DEF WindowIInv, WindowsAreBehind
        <5> QED
          BY <1>2, <1>5, <2>1, <4>1, <5>1
      <4>2. CASE k = Len(windows) + 1
        BY <1>2, <1>3, <1>5, <2>1, <4>2
      <4> QED
        BY <1>5, <3>1, <4>1, <4>2
    <3> QED
      BY <1>1, <3>1 DEF WindowsAreBehind
  <2>4. NoBlockIsCut'
    BY <1>1, <1>2, <1>3, <1>4, <1>5 DEF WindowIInv, NoBlockIsCut, Separate, Inside
  <2>5. BehindIsKept'
    <3> SUFFICES ASSUME Separate, ~ exact, ~ hitsExactly, NEW p \in Visible(0, start)'
                 PROVE  Covered(p)'
      BY <1>1, <1>4 DEF BehindIsKept, Separate
    <3>1. p \in Nat /\ p < start' /\ p \notin text.blanks
      BY <1>1, <2>1 DEF Visible
    <3>2. CASE p < start
      <4>1. p \in Visible(0, start)
        BY <1>2, <3>1, <3>2 DEF Visible
      <4> QED
        BY <1>1, <1>6, <4>1 DEF WindowIInv, BehindIsKept
    <3>3. CASE start <= p /\ p < WindowEnd
      BY <1>6, <3>3
    <3>4. ASSUME start <= p, NEW k \in DOMAIN windows, start' <= windows[k].end PROVE Covered(p)'
      <4>1. windows[k].from \in Nat /\ windows[k].end \in Nat /\ windows[k].from <= start
        BY <1>1, <1>2, WindowType DEF WindowIInv, WindowsAreBehind
      <4>2. Covered(p)
        BY <1>2, <2>1, <3>1, <3>4, <4>1 DEF Covered
      <4> QED
        BY <1>6, <4>2
    <3>5. start' <= WindowEnd \/ \E k \in DOMAIN windows : start' <= windows[k].end
      BY <1>1, <2>1, NextStartIsBehind DEF hitsExactly
    <3> QED
      BY <1>2, <2>1, <3>1, <3>2, <3>3, <3>4, <3>5
  <2>6. TextIsKept'
    BY <1>7 DEF TextIsKept
  <2>7. BlocksAreKept'
    <3> SUFFICES ASSUME Separate, ~ exact, ~ hitsExactly, NEW i \in DOMAIN protected
                 PROVE  \/ InWindow(protected[i])'
                        \/ Visible(protected[i][1], Smaller(start', protected[i][2])) = {}
      BY <1>1, <1>4, <1>7 DEF BlocksAreKept, Separate, Visible, InWindow
    <3> DEFINE r == protected[i]
    <3>1. r[1] \in Nat /\ r[2] \in Nat /\ r[1] < r[2]
      BY <1>2, RangeType
    <3>2. CASE InWindow(r)
      BY <1>10, <3>2
    <3>3. CASE r[2] <= start /\ Visible(r[1], Smaller(start, r[2])) = {}
      BY <1>2, <2>1, <3>1, <3>3 DEF Smaller
    <3>4. CASE start < r[2] /\ Visible(r[1], start) = {}
      <4>1. CASE r[2] <= WindowEnd
        BY <1>10, <3>4, <4>1
      <4>2. CASE start' <= r[1]
        BY <2>1, <3>1, <4>2 DEF Visible, Smaller
      <4>3. ASSUME WindowEnd <= r[1], NEW k \in DOMAIN windows, r[1] < start', start' <= windows[k].end
            PROVE  InWindow(r)
        <5>1. windows[k].from \in Nat /\ windows[k].end \in Nat /\ windows[k].from <= start
          BY <1>1, <1>2, WindowType DEF WindowIInv, WindowsAreBehind
        <5>2. ~ Inside(r, windows[k].end)
          BY <1>1 DEF WindowIInv, NoBlockIsCut
        <5>3. r[2] <= windows[k].end
          BY <2>1, <3>1, <4>3, <5>1, <5>2 DEF Inside
        <5>4. Visible(r[1], windows[k].from) = {}
          BY <1>2, <3>1, <4>3, <5>1 DEF Visible
        <5> QED
          BY <5>3, <5>4 DEF InWindow
      <4>4. ~ (r[1] < WindowEnd /\ WindowEnd < r[2])
        BY <1>2 DEF Inside
      <4>5. start' <= WindowEnd \/ \E k \in DOMAIN windows : start' <= windows[k].end
        BY <1>1, <2>1, NextStartIsBehind DEF hitsExactly
      <4> QED
        BY <1>2, <1>10, <2>1, <3>1, <4>1, <4>2, <4>3, <4>4, <4>5
    <3> QED
      BY <1>2, <1>11, <3>1, <3>2, <3>3, <3>4 DEF Smaller
  <2> QED
    BY <1>9, <2>2, <2>3, <2>4, <2>5, <2>6, <2>7 DEF WindowIInv
<1>8. CASE scan' = "done"
  <2>1. start' = start /\ WindowEnd >= text.len
    BY <1>1, <1>8
  <2>2. WindowTypeOK'
    BY <1>1, <1>2, <1>4, <1>5, <1>8, <2>1 DEF WindowTypeOK
  <2>3. TextIsKept'
    <3> SUFFICES ASSUME Separate, ~ exact, NEW p \in Visible(0, text.len)'
                 PROVE  Covered(p)'
      BY <1>1, <1>4 DEF TextIsKept, Separate
    <3>1. p \in Nat /\ p < text.len /\ p \notin text.blanks
      BY <1>1, <1>2 DEF Visible
    <3>2. CASE p < start
      <4>1. p \in Visible(0, start)
        BY <1>2, <3>1, <3>2 DEF Visible
      <4> QED
        BY <1>1, <1>6, <4>1 DEF WindowIInv, BehindIsKept
    <3>3. CASE start <= p
      BY <1>2, <1>6, <2>1, <3>1, <3>3
    <3> QED
      BY <1>2, <3>1, <3>2, <3>3
  <2>4. BlocksAreKept'
    <3> SUFFICES ASSUME Separate, ~ exact, NEW i \in DOMAIN protected
                 PROVE  \/ InWindow(protected[i])'
                        \/ Visible(protected[i][1], protected[i][2]) = {}
      BY <1>1, <1>4, <1>8 DEF BlocksAreKept, Separate, Visible, InWindow
    <3>1. protected[i][1] \in Nat /\ protected[i][2] \in Nat /\ protected[i][2] <= WindowEnd
      BY <1>2, <2>1, RangeType
    <3> QED
      BY <1>2, <1>10, <1>11, <3>1 DEF Smaller
  <2> QED
    BY <1>8, <1>9, <2>2, <2>3, <2>4 DEF WindowIInv, WindowsAreBehind, NoBlockIsCut, BehindIsKept
<1> QED
  BY <1>1, <1>7, <1>8

LEMMA RunOutPreserves ==
  ASSUME WindowIInv, RunOut
  PROVE  WindowIInv'
<1>1. /\ scan = "scan" /\ start >= text.len /\ scan' = "done"
      /\ UNCHANGED <<text, protected, start, prev_end, windows, exact>>
  BY DEF RunOut
<1>2. WindowTypeOK /\ start = text.len
  BY <1>1, RangeType DEF WindowIInv, WindowTypeOK
<1>3. WindowTypeOK'
  BY <1>1, <1>2 DEF WindowTypeOK
<1>4. TextIsKept'
  BY <1>1, <1>2 DEF WindowIInv, BehindIsKept, TextIsKept, Separate, Covered, Visible
<1>5. WindowsKeepContent'
  BY <1>1 DEF WindowIInv, WindowsKeepContent, Visible
<1>6. BlocksAreKept'
  <2>1. \A i \in DOMAIN protected : Smaller(start, protected[i][2]) = protected[i][2]
    BY <1>2, RangeType DEF Smaller
  <2> QED
    BY <1>1, <2>1 DEF WindowIInv, BlocksAreKept, Separate, InWindow, Visible
<1> QED
  BY <1>1, <1>3, <1>4, <1>5, <1>6 DEF WindowIInv, WindowsAreBehind, NoBlockIsCut, BehindIsKept

LEMMA OpenPreserves ==
  ASSUME NEW t \in Texts, NEW ranges \in RangesOf(t), Open(t, ranges)
  PROVE  WindowIInv'
<1> DEFINE blank == \A p \in 0..(t.len - 1) : p \in t.blanks
           fits == t.len \div CharsPerToken <= MaxTokens
           whole == [from |-> 0, end |-> t.len, last |-> t.len]
<1>1. /\ text' = t /\ protected' = ranges /\ start' = 0 /\ prev_end' = NoEnd /\ exact' = FALSE
      /\ windows' = IF fits /\ ~ blank THEN <<whole>> ELSE <<>>
      /\ scan' = IF blank \/ fits THEN "done" ELSE "scan"
  BY DEF Open
<1>2. t.len \in Nat /\ whole \in [from : Nat, end : Nat, last : Nat]
  BY DEF Texts
<1> HIDE DEF fits
<1>3. WindowTypeOK'
  <2>1. windows' \in Seq([from : Nat, end : Nat, last : Nat])
    <3> DEFINE W == [from : Nat, end : Nat, last : Nat]
    <3>1. whole \in W
      BY <1>2
    <3> HIDE DEF whole, blank, W
    <3>2. <<whole>> \in Seq(W) /\ <<>> \in Seq(W)
      BY <3>1
    <3>3. windows' \in {<<whole>>, <<>>}
      BY <1>1
    <3> QED
      BY <3>2, <3>3 DEF W
  <2>2. scan' \in {"idle", "scan", "done"} /\ exact' \in BOOLEAN
    BY <1>1, Zenon
  <2>5. prev_end' \in Int
    BY <1>1 DEF NoEnd
  <2>3. start' \in 0..text'.len
    BY <1>1, <1>2
  <2>4. text' \in Texts /\ protected' \in RangesOf(text')
    BY <1>1
  <2> QED
    BY <2>1, <2>2, <2>3, <2>4, <2>5 DEF WindowTypeOK, RangesOf, Texts
<1>4. scan' = "scan" => windows' = <<>> /\ start' = 0
  BY <1>1
<1>5. WindowsAreBehind' /\ NoBlockIsCut'
  BY <1>4 DEF WindowsAreBehind, NoBlockIsCut
<1>6. BehindIsKept'
  BY <1>4 DEF BehindIsKept, Visible
<1>7. TextIsKept'
  <2> SUFFICES ASSUME scan' = "done", NEW p \in Visible(0, text.len)' PROVE Covered(p)'
    BY DEF TextIsKept
  <2>1. p \in 0..(t.len - 1) /\ p \notin t.blanks
    BY <1>1 DEF Visible
  <2>2. ~ blank
    BY <2>1
  <2>3. windows' = <<whole>>
    BY <1>1, <2>2
  <2>4. 1 \in DOMAIN windows' /\ windows'[1].from = 0 /\ windows'[1].end = t.len
    BY <2>3
  <2> QED
    BY <1>2, <2>1, <2>4 DEF Covered
<1>8. \A k \in DOMAIN windows' : k = 1 /\ windows' = <<whole>>
  BY <1>1
<1>9. WindowsKeepContent'
  <2>1. ASSUME NEW k \in DOMAIN windows'
        PROVE  /\ windows'[k].end <= text'.len
               /\ \A p \in Visible(windows[k].from, windows[k].end)' : p < windows'[k].last
    <3>1. windows'[k] = whole /\ whole.from = 0 /\ whole.end = t.len /\ whole.last = t.len
      BY <1>8, <2>1
    <3> QED
      BY <1>1, <1>2, <3>1 DEF Visible
  <2> QED
    BY <2>1 DEF WindowsKeepContent
<1>10. BlocksAreKept'
  <2> DEFINE V(c, d) == {p \in c..(d - 1) : p \notin t.blanks}
             InW(r) == \E k \in DOMAIN windows' : V(r[1], windows'[k].from) = {} /\ r[2] <= windows'[k].end
  <2> SUFFICES ASSUME NEW i \in DOMAIN ranges
               PROVE  LET b == ranges[i]
                      IN  InW(b) \/ V(b[1], IF scan' = "scan" THEN Smaller(0, b[2]) ELSE b[2]) = {}
    BY <1>1 DEF BlocksAreKept, InWindow, Visible
  <2>1. ranges[i][1] \in Nat /\ ranges[i][2] \in Nat /\ ranges[i][1] < ranges[i][2] /\ ranges[i][2] <= t.len
    <3>1. ranges \in Seq((0..t.len) \X (0..t.len)) /\ ranges[i][1] < ranges[i][2]
      BY DEF RangesOf
    <3>2. ranges[i] \in (0..t.len) \X (0..t.len)
      BY <3>1
    <3> QED
      BY <1>2, <3>1, <3>2
  <2>2. CASE scan' = "scan"
    BY <2>1, <2>2 DEF Smaller
  <2>3. CASE blank
    <3>1. V(ranges[i][1], ranges[i][2]) = {}
      BY <1>2, <2>1, <2>3
    <3>2. scan' = "done"
      BY <1>1, <2>3
    <3> QED
      BY <3>1, <3>2
  <2>4. CASE ~ blank /\ fits
    <3>1. windows' = <<whole>>
      BY <1>1, <2>4
    <3>2. 1 \in DOMAIN windows' /\ windows'[1].from = 0 /\ windows'[1].end = t.len
      BY <3>1
    <3>3. V(ranges[i][1], 0) = {} /\ ranges[i][2] <= t.len
      BY <2>1
    <3> QED
      BY <3>2, <3>3
  <2> QED
    BY <1>1, <2>2, <2>3, <2>4
<1> QED
  BY <1>3, <1>5, <1>6, <1>7, <1>9, <1>10 DEF WindowIInv

(***************************************************************************)
(* Why the chunker keeps the text: while it scans, every window made so    *)
(* far begins at or before start and ends on a visible character's line,   *)
(* none ends inside a block, and every visible character before start is   *)
(* in a window.                                                            *)
(***************************************************************************)
THEOREM WindowInvariant == WindowSpec => []WindowIInv
<1>1. InitIdle => WindowIInv
  <2> SUFFICES ASSUME InitIdle PROVE WindowIInv
    OBVIOUS
  <2>1. text \in Texts /\ protected \in RangesOf(text)
    BY DEF InitIdle, Texts, RangesOf
  <2>2. WindowTypeOK
    <3>1. windows \in Seq([from : Nat, end : Nat, last : Nat])
      BY DEF InitIdle
    <3>2. start \in 0..text.len /\ prev_end \in Int
      BY DEF InitIdle, NoEnd
    <3>3. scan \in {"idle", "scan", "done"} /\ exact \in BOOLEAN
      BY Zenon DEF InitIdle
    <3> QED
      BY <2>1, <3>1, <3>2, <3>3 DEF WindowTypeOK
  <2> QED
    BY <2>2 DEF InitIdle, WindowIInv, WindowsAreBehind, NoBlockIsCut, BehindIsKept, TextIsKept,
                WindowsKeepContent, BlocksAreKept
<1>2. WindowIInv /\ [WindowNext]_windowVars => WindowIInv'
  <2>1. ASSUME WindowIInv, WindowNext PROVE WindowIInv'
    BY <2>1, OpenPreserves, SkipBlankPreserves, EmitWindowPreserves, RunOutPreserves
    DEF WindowNext, Slide
  <2>2. ASSUME WindowIInv, UNCHANGED windowVars PROVE WindowIInv'
    BY <2>2 DEF windowVars, WindowIInv, WindowTypeOK, WindowsAreBehind, NoBlockIsCut, BehindIsKept,
                TextIsKept, WindowsKeepContent, BlocksAreKept, InWindow, Separate, Covered, Visible, Inside
  <2> QED
    BY <2>1, <2>2
<1> QED
  BY <1>1, <1>2, PTL DEF WindowSpec

(***************************************************************************)
(* _chunk_text loses no visible character of a section of any length, for  *)
(* every window size and overlap, as long as no protected block lies in    *)
(* another and none ends exactly at the end of a window that begins in it. *)
(***************************************************************************)
THEOREM ChunksKeepText == WindowSpec => []TextIsKept
<1>1. WindowIInv => TextIsKept
  BY DEF WindowIInv
<1> QED
  BY <1>1, WindowInvariant, PTL

-----------------------------------------------------------------------------
\* The chunker of documents. First, ordering a finite set and iterating a step: what Ascending and
\* InOrder return, and the recursive functions the parsers are written with.

Iterates(f, n, base, step) == f[0] = base /\ \A k \in 1..n : f[k] = step[<<k, f[k - 1]>>]

\* Iterating a step from a base gives a function.
LEMMA Iterated ==
  ASSUME NEW n \in Nat, NEW V, NEW base \in V, NEW step \in [(1..n) \X V -> V]
  PROVE  \E f \in [0..n -> V] : Iterates(f, n, base, step)
<1> DEFINE Steps(m, f) == f[0] = base /\ \A k \in 1..m : f[k] = step[<<k, f[k - 1]>>]
           Bad == {m \in 0..n : ~ \E f \in [0..m -> V] : Steps(m, f)}
<1>1. ASSUME Bad # {} PROVE FALSE
  <2>1. Bad \in SUBSET Nat
    OBVIOUS
  <2>2. PICK m \in Bad : \A k \in Bad : m <= k
    BY <1>1, <2>1, NatMin, Zenon
  <2>3. m \in 0..n /\ ~ \E f \in [0..m -> V] : Steps(m, f)
    BY <2>2
  <2>4. m # 0
    <3> DEFINE c == [d \in 0..0 |-> base]
    <3>1. c \in [0..0 -> V] /\ Steps(0, c)
      OBVIOUS
    <3> QED
      BY <2>3, <3>1
  <2>5. m - 1 \in 0..n /\ m - 1 \notin Bad
    <3> HIDE DEF Bad
    <3> QED
      BY <2>2, <2>3, <2>4
  <2>6. PICK f \in [0..(m - 1) -> V] : Steps(m - 1, f)
    BY <2>5
  <2> DEFINE v == step[<<m, f[m - 1]>>]
             c == [d \in 0..m |-> IF d = m THEN v ELSE f[d]]
  <2>7. v \in V
    <3>1. f[m - 1] \in V /\ m \in 1..n
      BY <2>3, <2>4, <2>5
    <3> QED
      BY <3>1
  <2> HIDE DEF v
  <2>8. c \in [0..m -> V]
    BY <2>3, <2>7
  <2>9. Steps(m, c)
    <3>1. c[0] = base
      BY <2>3, <2>4, <2>6
    <3>2. ASSUME NEW k \in 1..m PROVE c[k] = step[<<k, c[k - 1]>>]
      <4>1. CASE k = m
        <5>1. c[m] = v /\ c[m - 1] = f[m - 1]
          BY <2>3, <2>4
        <5> QED
          BY <4>1, <5>1 DEF v
      <4>2. CASE k # m
        <5>1. k \in 1..(m - 1) /\ k \in 0..m /\ k - 1 \in 0..m /\ k - 1 # m
          BY <2>3, <3>2, <4>2
        <5>2. c[k] = f[k] /\ c[k - 1] = f[k - 1]
          BY <4>2, <5>1
        <5>3. f[k] = step[<<k, f[k - 1]>>]
          BY <2>6, <5>1
        <5> QED
          BY <5>2, <5>3
      <4> QED
        BY <4>1, <4>2
    <3> HIDE DEF c
    <3> QED
      BY <3>1, <3>2
  <2> HIDE DEF c
  <2> QED
    BY <2>3, <2>8, <2>9
<1>2. n \in 0..n
  OBVIOUS
<1>3. n \notin Bad
  BY <1>1, Zenon
<1> QED
  BY <1>2, <1>3 DEF Iterates

-----------------------------------------------------------------------------
\* Places in an order.

StrictOrder(S, R) ==
    /\ \A x \in S : <<x, x>> \notin R
    /\ \A x, y, z \in S : <<x, y>> \in R /\ <<y, z>> \in R => <<x, z>> \in R
    /\ \A x, y \in S : x # y => <<x, y>> \in R \/ <<y, x>> \in R

Before(S, R, x) == {y \in S : <<y, x>> \in R}

\* a is made by choosing for its k-th place a member that k - 1 others come before, ...
Placed(S, R, a) ==
    \A k \in 1..Cardinality(S) :
        (\E x \in S : Cardinality(Before(S, R, x)) = k - 1)
            => a[k] \in S /\ Cardinality(Before(S, R, a[k])) = k - 1

\* ... and then holds every member once, in order.
Arranged(S, R, a) ==
    /\ Cardinality(S) \in Nat
    /\ a \in [1..Cardinality(S) -> S]
    /\ \A x \in S : \E k \in 1..Cardinality(S) : a[k] = x
    /\ \A k, l \in 1..Cardinality(S) : k < l => <<a[k], a[l]>> \in R
    /\ \A k \in 1..Cardinality(S) : Cardinality(Before(S, R, a[k])) = k - 1

\* Counting what comes before gives every member a place of its own.
LEMMA InPlace ==
  ASSUME NEW S, IsFiniteSet(S), NEW R, StrictOrder(S, R), NEW T, NEW a \in [1..Cardinality(S) -> T],
         Placed(S, R, a)
  PROVE  Arranged(S, R, a)
<1> DEFINE n == Cardinality(S)
           place == [x \in S |-> Cardinality(Before(S, R, x)) + 1]
<1>0. n \in Nat
  BY FS_CardinalityType
<1>1. ASSUME NEW x \in S
      PROVE  /\ IsFiniteSet(Before(S, R, x))
             /\ Cardinality(Before(S, R, x)) \in Nat
             /\ Cardinality(Before(S, R, x)) + 1 <= n
  <2>1. Before(S, R, x) \in SUBSET (S \ {x})
    BY DEF StrictOrder, Before
  <2>2. IsFiniteSet(S \ {x}) /\ Cardinality(S \ {x}) = n - 1
    BY FS_RemoveElement
  <2>3. IsFiniteSet(Before(S, R, x)) /\ Cardinality(Before(S, R, x)) <= Cardinality(S \ {x})
    BY <2>1, <2>2, FS_Subset
  <2>4. Cardinality(Before(S, R, x)) \in Nat
    BY <2>3, FS_CardinalityType
  <2> HIDE DEF n
  <2> QED
    BY <2>2, <2>3, <2>4, <1>0
<1>2. place \in [S -> 1..n]
  <2> HIDE DEF n
  <2> QED
    BY <1>0, <1>1
<1>3. ASSUME NEW x \in S, NEW y \in S, <<x, y>> \in R
      PROVE  place[x] < place[y]
  <2>1. Before(S, R, x) \cup {x} \in SUBSET Before(S, R, y) /\ x \notin Before(S, R, x)
    BY <1>3 DEF StrictOrder, Before
  <2> HIDE DEF n
  <2>2. Cardinality(Before(S, R, x) \cup {x}) = Cardinality(Before(S, R, x)) + 1
    BY <2>1, <1>1, FS_AddElement
  <2>3. Cardinality(Before(S, R, x) \cup {x}) <= Cardinality(Before(S, R, y))
    BY <2>1, <1>1, FS_Subset
  <2> QED
    BY <2>2, <2>3, <1>1
<1> HIDE DEF place, n
<1>4. \A x, y \in S : place[x] = place[y] => x = y
  <2> SUFFICES ASSUME NEW x \in S, NEW y \in S, place[x] = place[y], x # y
               PROVE  FALSE
    OBVIOUS
  <2>1. <<x, y>> \in R \/ <<y, x>> \in R
    BY DEF StrictOrder
  <2>2. place[x] < place[y] \/ place[y] < place[x]
    BY <2>1, <1>3
  <2>3. place[x] \in 1..n /\ place[y] \in 1..n
    BY <1>2
  <2> QED
    BY <2>2, <2>3, <1>0
<1>5. place \in Surjection(S, 1..n)
  <2>1. place \in Injection(S, 1..n)
    BY <1>2, <1>4 DEF Injection, IsInjective
  <2>2. IsFiniteSet(1..n) /\ Cardinality(1..n) = n
    BY <1>0, FS_Interval
  <2> QED
    BY <2>1, <2>2, FS_Injection DEF n
<1>6. \A k \in 1..n : a[k] \in S /\ Cardinality(Before(S, R, a[k])) = k - 1
  <2> SUFFICES ASSUME NEW k \in 1..n
               PROVE  a[k] \in S /\ Cardinality(Before(S, R, a[k])) = k - 1
    OBVIOUS
  <2>1. PICK x \in S : place[x] = k
    BY <1>5 DEF Surjection
  <2>2. Cardinality(Before(S, R, x)) = k - 1
    BY <2>1, <1>1, <1>0 DEF place
  <2>3. a[k] \in S /\ Cardinality(Before(S, R, a[k])) = k - 1
    BY <2>2 DEF n, Placed
  <2> QED
    BY <2>3
<1>10. \A k \in 1..n : a[k] \in S /\ place[a[k]] = k
  BY <1>6, <1>0 DEF place
<1>7. a \in [1..n -> S]
  BY <1>6 DEF n
<1>8. \A x \in S : \E k \in 1..n : a[k] = x
  BY <1>2, <1>4, <1>10
<1>9. \A k, l \in 1..n : k < l => <<a[k], a[l]>> \in R
  <2> SUFFICES ASSUME NEW k \in 1..n, NEW l \in 1..n, k < l
               PROVE  <<a[k], a[l]>> \in R
    OBVIOUS
  <2>1. a[k] # a[l]
    BY <1>10, <1>0
  <2>2. <<a[k], a[l]>> \in R \/ <<a[l], a[k]>> \in R
    BY <2>1, <1>10 DEF StrictOrder
  <2>3. ~(<<a[l], a[k]>> \in R)
    BY <1>3, <1>10, <1>0
  <2> QED
    BY <2>2, <2>3
<1> QED
  BY <1>0, <1>6, <1>7, <1>8, <1>9 DEF n, Arranged

\* Ascending puts a set of numbers in ascending order.
LEMMA AscendingInOrder ==
  ASSUME NEW S \in SUBSET Int, IsFiniteSet(S)
  PROVE  /\ Cardinality(S) \in Nat
         /\ Ascending(S) \in [1..Cardinality(S) -> S]
         /\ \A x \in S : \E k \in 1..Cardinality(S) : Ascending(S)[k] = x
         /\ \A k, l \in 1..Cardinality(S) : k < l => Ascending(S)[k] < Ascending(S)[l]
         /\ \A k \in 1..Cardinality(S) : Cardinality({y \in S : y < Ascending(S)[k]}) = k - 1
<1> DEFINE R == {p \in S \X S : p[1] < p[2]}
           c(k) == CHOOSE x \in S : Cardinality({y \in S : y < x}) = k - 1
<1>1. \A x, y \in S : <<x, y>> \in R <=> x < y
  OBVIOUS
<1>2. StrictOrder(S, R)
  BY <1>1 DEF StrictOrder
<1>3. \A x \in S : Before(S, R, x) = {y \in S : y < x}
  BY <1>1 DEF Before
<1> HIDE DEF R
<1>4. Ascending(S) = [k \in 1..Cardinality(S) |-> c(k)]
  BY DEF Ascending
<1>5. Ascending(S) \in [1..Cardinality(S) -> {c(k) : k \in 1..Cardinality(S)}]
  <2> HIDE DEF c
  <2> QED
    BY <1>4
<1>6. ASSUME NEW k \in 1..Cardinality(S), NEW x \in S, Cardinality(Before(S, R, x)) = k - 1
      PROVE  Ascending(S)[k] \in S /\ Cardinality(Before(S, R, Ascending(S)[k])) = k - 1
  <2>1. Cardinality({y \in S : y < x}) = k - 1
    BY <1>3, <1>6
  <2>2. c(k) \in S /\ Cardinality({y \in S : y < c(k)}) = k - 1
    BY <2>1
  <2> HIDE DEF c
  <2> QED
    BY <1>3, <1>4, <2>2
<1> DEFINE T == {c(k) : k \in 1..Cardinality(S)}
<1> HIDE DEF c, T
<1>7. Placed(S, R, Ascending(S))
  BY <1>6 DEF Placed
<1>8. Arranged(S, R, Ascending(S))
  BY <1>2, <1>5, <1>7, InPlace, Zenon DEF T
<1>9. \A k \in 1..Cardinality(S) : Ascending(S)[k] \in S
  BY <1>8 DEF Arranged
<1>10. \A k \in 1..Cardinality(S) : Cardinality({y \in S : y < Ascending(S)[k]}) = k - 1
  BY <1>3, <1>8, <1>9 DEF Arranged
<1> QED
  BY <1>1, <1>8, <1>9, <1>10 DEF Arranged

\* InOrder arranges all of a set of ranges.
LEMMA InOrderHoldsAll ==
  ASSUME NEW n \in Nat, NEW S \in SUBSET ((0..n) \X (0..n))
  PROVE  InOrder(S) \in Seq(S) /\ \A r \in S : \E k \in DOMAIN InOrder(S) : InOrder(S)[k] = r
<1> DEFINE less(q, r) == q[1] < r[1] \/ (q[1] = r[1] /\ q[2] < r[2])
           R == {p \in S \X S : less(p[1], p[2])}
           c(k) == CHOOSE r \in S : Cardinality({q \in S : less(q, r)}) = k - 1
<1>0. IsFiniteSet(S)
  <2>1. IsFiniteSet(0..n)
    BY FS_Interval
  <2>2. IsFiniteSet((0..n) \X (0..n))
    BY <2>1, FS_Product
  <2> QED
    BY <2>2, FS_Subset
<1>1. \A x, y \in S : <<x, y>> \in R <=> less(x, y)
  OBVIOUS
<1>2. StrictOrder(S, R)
  <2>1. \A x \in S : x[1] \in Nat /\ x[2] \in Nat /\ x = <<x[1], x[2]>>
    OBVIOUS
  <2>2. \A x \in S : ~ less(x, x)
    BY <2>1
  <2>3. \A x, y, z \in S : less(x, y) /\ less(y, z) => less(x, z)
    BY <2>1
  <2>4. \A x, y \in S : x # y => less(x, y) \/ less(y, x)
    <3> SUFFICES ASSUME NEW x \in S, NEW y \in S, ~ less(x, y), ~ less(y, x) PROVE x = y
      OBVIOUS
    <3>1. x[1] = y[1] /\ x[2] = y[2]
      BY <2>1
    <3> QED
      BY <2>1, <3>1
  <2> HIDE DEF R, less
  <2> QED
    BY <1>1, <2>2, <2>3, <2>4 DEF StrictOrder
<1>3. \A x \in S : Before(S, R, x) = {q \in S : less(q, x)}
  <2> HIDE DEF R, less
  <2> QED
    BY <1>1 DEF Before
<1> HIDE DEF R
<1>4. InOrder(S) = [k \in 1..Cardinality(S) |-> c(k)]
  BY DEF InOrder
<1>5. InOrder(S) \in [1..Cardinality(S) -> {c(k) : k \in 1..Cardinality(S)}]
  <2> HIDE DEF c
  <2> QED
    BY <1>4
<1>6. ASSUME NEW k \in 1..Cardinality(S), NEW x \in S, Cardinality(Before(S, R, x)) = k - 1
      PROVE  InOrder(S)[k] \in S /\ Cardinality(Before(S, R, InOrder(S)[k])) = k - 1
  <2> HIDE DEF less
  <2>1. Cardinality({q \in S : less(q, x)}) = k - 1
    BY <1>3, <1>6
  <2>2. c(k) \in S /\ Cardinality({q \in S : less(q, c(k))}) = k - 1
    BY <2>1
  <2> HIDE DEF c
  <2> QED
    BY <1>3, <1>4, <2>2
<1> DEFINE T == {c(k) : k \in 1..Cardinality(S)}
<1> HIDE DEF c, T
<1>7. Placed(S, R, InOrder(S))
  BY <1>6 DEF Placed
<1>8. Arranged(S, R, InOrder(S))
  BY <1>0, <1>2, <1>5, <1>7, InPlace, Zenon DEF T
<1> QED
  BY <1>8 DEF Arranged

\* Induction up to n.
LEMMA UpTo ==
  ASSUME NEW n \in Nat, NEW G, 0 \in G, \A k \in 1..n : k - 1 \in G => k \in G
  PROVE  \A k \in 0..n : k \in G
<1> SUFFICES ASSUME NEW j \in 0..n, j \notin G PROVE FALSE
  OBVIOUS
<1> DEFINE Bad == {k \in 0..n : k \notin G}
<1>1. Bad \in SUBSET Nat /\ Bad # {}
  OBVIOUS
<1>2. PICK m \in Bad : \A k \in Bad : m <= k
  BY <1>1, NatMin
<1>3. m \in 1..n /\ m - 1 \in 0..n
  BY <1>2
<1>4. m - 1 \in G
  BY <1>2, <1>3
<1> QED
  BY <1>2, <1>3, <1>4

LEMMA KeptType ==
  ASSUME NEW U, NEW lines \in Seq(U), NEW T, NEW S \in SUBSET DOMAIN lines, \A i \in S : lines[i] \in T
  PROVE  /\ Kept(lines, S) \in Seq(T) /\ Cardinality(S) \in Nat
         /\ DOMAIN Kept(lines, S) = 1..Cardinality(S) /\ Ascending(S) \in [1..Cardinality(S) -> S]
         /\ \A k \in 1..Cardinality(S) : Kept(lines, S)[k] = lines[Ascending(S)[k]]
<1>1. IsFiniteSet(S) /\ S \in SUBSET Int
  <2>1. Len(lines) \in Nat /\ DOMAIN lines = 1..Len(lines)
    OBVIOUS
  <2>2. IsFiniteSet(1..Len(lines))
    BY <2>1, FS_Interval
  <2> QED
    BY <2>1, <2>2, FS_Subset
<1>2. /\ Cardinality(S) \in Nat /\ Ascending(S) \in [1..Cardinality(S) -> S]
  BY <1>1, AscendingInOrder
<1>3. Kept(lines, S) = [k \in 1..Cardinality(S) |-> lines[Ascending(S)[k]]]
  BY <1>2 DEF Kept
<1>4. \A k \in 1..Cardinality(S) : lines[Ascending(S)[k]] \in T
  BY <1>2
<1> QED
  BY <1>2, <1>3, <1>4

LEMMA FlattenType ==
  ASSUME NEW T, NEW seqs \in Seq(Seq(T))
  PROVE  FlattenSeq(seqs) \in Seq(T)
<1>1. CASE Len(seqs) = 0
  <2>1. FlattenSeq(seqs) = seqs /\ seqs = <<>>
    BY <1>1 DEF FlattenSeq
  <2> QED
    BY <2>1
<1>2. CASE Len(seqs) # 0
  <2> DEFINE n == Len(seqs)
             V == Seq(T)
             G(g) == [i \in 1..n |-> IF i = 1 THEN seqs[i] ELSE g[i - 1] \o seqs[i]]
             step == [p \in (1..n) \X V |-> IF p[1] = 1 THEN seqs[1] ELSE p[2] \o seqs[p[1]]]
             flatten == CHOOSE g : g = G(g)
  <2>1. n \in Nat /\ 1 \in 1..n /\ \A i \in 1..n : seqs[i] \in V
    BY <1>2
  <2>2. \A v, w \in V : v \o w \in V
    OBVIOUS
  <2>3. <<>> \in V
    OBVIOUS
  <2>10. FlattenSeq(seqs) = flatten[n]
    BY <1>2 DEF FlattenSeq
  <2> HIDE DEF n, V
  <2>4. step \in [(1..n) \X V -> V]
    BY <2>1, <2>2
  <2>5. PICK f \in [0..n -> V] : Iterates(f, n, <<>>, step)
    <3> HIDE DEF step
    <3> QED
      BY <2>1, <2>3, <2>4, Iterated
  <2> DEFINE h == [i \in 1..n |-> f[i]]
  <2>6. ASSUME NEW i \in 1..n PROVE h[i] = IF i = 1 THEN seqs[i] ELSE h[i - 1] \o seqs[i]
    <3>1. f[i - 1] \in V /\ <<i, f[i - 1]>> \in (1..n) \X V
      BY <2>1
    <3>2. f[i] = IF i = 1 THEN seqs[1] ELSE f[i - 1] \o seqs[i]
      BY <2>5, <3>1 DEF Iterates
    <3>3. i # 1 => i - 1 \in 1..n
      BY <2>1
    <3> QED
      BY <3>2, <3>3
  <2>7. h = G(h)
    BY <2>6
  <2>8. flatten = G(flatten)
    <3> HIDE DEF h, G
    <3> QED
      BY <2>7
  <2> HIDE DEF flatten, h, step
  <2>9. \A i \in 1..n : flatten[i] = IF i = 1 THEN seqs[i] ELSE flatten[i - 1] \o seqs[i]
    BY <2>8
  <2> DEFINE Good == {i \in 0..n : i # 0 => flatten[i] \in V}
  <2>11. \A k \in 1..n : k - 1 \in Good => k \in Good
    BY <2>1, <2>2, <2>9
  <2>12. 0 \in Good
    BY <2>1
  <2> HIDE DEF Good
  <2>13. \A k \in 0..n : k \in Good
    BY <2>1, <2>11, <2>12, UpTo, Zenon
  <2>14. n \in 0..n /\ n # 0
    BY <2>1
  <2> QED
    BY <2>10, <2>13, <2>14 DEF Good, V
<1> QED
  BY <1>1, <1>2

\* Where a line begins.
LEMMA CharsUnfold ==
  ASSUME NEW body \in Seq(Lines)
  PROVE  /\ CharsOf(body) \in [0..Len(body) -> Nat] /\ CharsOf(body)[0] = 0
         /\ \A n \in 1..Len(body) : CharsOf(body)[n] = CharsOf(body)[n - 1] + body[n].width
<1> DEFINE n == Len(body)
           G(g) == [i \in 0..n |-> IF i = 0 THEN 0 ELSE g[i - 1] + body[i].width]
           step == [p \in (1..n) \X Nat |-> p[2] + body[p[1]].width]
           upTo == CHOOSE g : g = G(g)
<1>1. n \in Nat /\ \A i \in 1..n : body[i].width \in Nat
  BY DEF Lines
<1>2. CharsOf(body) = upTo
  BY DEF CharsOf
<1> HIDE DEF n
<1>3. step \in [(1..n) \X Nat -> Nat]
  BY <1>1
<1>4. PICK f \in [0..n -> Nat] : Iterates(f, n, 0, step)
  <2> HIDE DEF step
  <2> QED
    BY <1>1, <1>3, Iterated
<1>5. ASSUME NEW i \in 0..n PROVE f[i] = IF i = 0 THEN 0 ELSE f[i - 1] + body[i].width
  <2>1. CASE i = 0
    BY <1>4, <2>1 DEF Iterates
  <2>2. CASE i # 0
    <3>1. i \in 1..n /\ f[i - 1] \in Nat
      BY <1>1, <2>2
    <3> QED
      BY <1>4, <2>2, <3>1 DEF Iterates
  <2> QED
    BY <2>1, <2>2
<1>6. f = G(f)
  BY <1>5
<1>7. upTo = G(upTo)
  <2> HIDE DEF G
  <2> QED
    BY <1>6
<1> HIDE DEF upTo, step
<1>8. upTo[0] = 0 /\ \A i \in 1..n : upTo[i] = upTo[i - 1] + body[i].width
  <2>1. \A i \in 0..n : upTo[i] = IF i = 0 THEN 0 ELSE upTo[i - 1] + body[i].width
    BY <1>7
  <2> QED
    BY <1>1, <2>1
<1> DEFINE Good == {i \in 0..n : upTo[i] \in Nat}
<1>9. 0 \in Good /\ \A k \in 1..n : k - 1 \in Good => k \in Good
  <2>1. 0 \in Good
    BY <1>1, <1>8
  <2>2. ASSUME NEW k \in 1..n, upTo[k - 1] \in Nat PROVE k \in 0..n /\ upTo[k] \in Nat
    <3>1. upTo[k] = upTo[k - 1] + body[k].width /\ body[k].width \in Nat
      BY <1>1, <1>8
    <3> QED
      BY <1>1, <2>2, <3>1
  <2> QED
    BY <2>1, <2>2
<1>10. \A i \in 0..n : i \in Good
  <2> HIDE DEF Good
  <2> QED
    BY <1>1, <1>9, UpTo
<1>11. upTo \in [0..n -> Nat]
  <2>1. \A i \in 0..n : upTo[i] \in Nat
    BY <1>10
  <2>2. upTo = [i \in 0..n |-> upTo[i]]
    BY <1>7
  <2> QED
    BY <2>1, <2>2
<1> QED
  BY <1>2, <1>8, <1>11 DEF n

-----------------------------------------------------------------------------
\* Lines of a body: where they begin, and runs of lines.

LEMMA LineIsLine ==
  ASSUME NEW l \in Lines
  PROVE  /\ l.kind \in Kinds /\ l.level \in Nat /\ l.name \in Seq(STRING)
         /\ l.width \in Nat /\ l.eol \in Nat /\ l.eol \in {1, 2} /\ l.width >= l.eol /\ l.width >= 1
         /\ l.kind = "blank" => l.width = l.eol
         /\ l.kind # "blank" => l.width >= l.eol + 1 /\ l.width >= 2
         /\ l.kind \in Indented => l.width >= l.eol + 2
         /\ l.kind \in Heads \cup {"note"} => l.level >= 1
  BY DEF Lines

LEMMA LFIsLine ==
  ASSUME NEW l \in Lines
  PROVE  /\ LF(l) \in Lines /\ LF(l).kind = l.kind /\ LF(l).eol = 1
         /\ LF(l).level = l.level /\ LF(l).name = l.name
         /\ LF(l).width = l.width - l.eol + 1
<1> DEFINE R == [kind : Kinds, width : Nat, eol : {1, 2}, level : Nat, name : Seq(STRING)]
<1>1. l \in R
  BY DEF Lines
<1>2. l.width - l.eol + 1 \in Nat /\ l.width - l.eol + 1 >= 1
  BY LineIsLine
<1>3. LF(l) = [kind |-> l.kind, width |-> l.width - l.eol + 1, eol |-> 1, level |-> l.level, name |-> l.name]
  <2>1. LF(l) = [[l EXCEPT !.width = l.width - l.eol + 1] EXCEPT !.eol = 1]
    BY <1>1 DEF LF
  <2> QED
    BY <1>1, <2>1
<1>4. LF(l) \in R
  BY <1>2, <1>3, LineIsLine
<1>5. /\ LF(l).kind = l.kind /\ LF(l).eol = 1 /\ LF(l).level = l.level /\ LF(l).name = l.name
      /\ LF(l).width = l.width - l.eol + 1
  BY <1>3
<1>6. LF(l) \in Lines
  BY <1>4, <1>5, LineIsLine DEF Lines
<1> QED
  BY <1>5, <1>6

\* The lines as line_to_char counts them.
LEMMA CountedLines ==
  ASSUME NEW body \in Seq(Lines)
  PROVE  /\ Counted(body) \in Seq(Lines) /\ Len(Counted(body)) = Len(body)
         /\ \A i \in 1..Len(body) : /\ Counted(body)[i].kind = body[i].kind
                                   /\ Counted(body)[i].width = body[i].width - body[i].eol + 1
<1> DEFINE n == Len(body)
<1>1. n \in Nat /\ DOMAIN body = 1..n /\ \A i \in 1..n : body[i] \in Lines
  OBVIOUS
<1>2. Counted(body) = [i \in 1..n |-> LF(body[i])]
  BY <1>1 DEF Counted
<1>3. \A i \in 1..n : LF(body[i]) \in Lines
  BY <1>1, LFIsLine
<1> HIDE DEF n
<1>4. Counted(body) \in [1..n -> Lines]
  BY <1>2, <1>3, Zenon
<1>5. Counted(body) \in Seq(Lines) /\ Len(Counted(body)) = n
  BY <1>1, <1>4
<1>6. ASSUME NEW i \in 1..n
      PROVE  /\ Counted(body)[i].kind = body[i].kind
             /\ Counted(body)[i].width = body[i].width - body[i].eol + 1
  BY <1>1, <1>2, LFIsLine
<1> QED
  BY <1>5, <1>6 DEF n

LEMMA CharGrows ==
  ASSUME NEW body \in Seq(Lines)
  PROVE  /\ CharOf(body, 1) = 0
         /\ \A i \in 1..(Len(body) + 1) : CharOf(body, i) \in Nat
         /\ \A i \in 1..Len(body) : CharOf(body, i + 1) = CharOf(body, i) + body[i].width
         /\ \A i, j \in 1..(Len(body) + 1) : i <= j => CharOf(body, i) <= CharOf(body, j)
<1> DEFINE n == Len(body)
<1>1. n \in Nat /\ \A i \in 1..n : body[i] \in Lines
  OBVIOUS
<1>2. \A i \in 1..n : body[i].width \in Nat
  BY <1>1, LineIsLine
<1> HIDE DEF n
<1>3. CharOf(body, 1) = 0
  BY CharsUnfold DEF CharOf
<1>4. ASSUME NEW i \in 1..(n + 1) PROVE CharOf(body, i) \in Nat
  <2>1. i - 1 \in 0..n
    BY <1>1
  <2> QED
    BY <2>1, CharsUnfold DEF CharOf, n
<1>5. ASSUME NEW i \in 1..n PROVE CharOf(body, i + 1) = CharOf(body, i) + body[i].width
  <2>1. (i + 1) - 1 = i
    BY <1>1
  <2> QED
    BY <2>1, CharsUnfold DEF CharOf, n
<1>6. ASSUME NEW i \in 1..(n + 1), NEW j \in 1..(n + 1), i <= j PROVE CharOf(body, i) <= CharOf(body, j)
  <2> DEFINE Good == {k \in 0..n : i <= k + 1 => CharOf(body, i) <= CharOf(body, k + 1)}
  <2>1. 0 \in Good
    <3>1. i <= 1 => i = 1
      BY <1>1
    <3> QED
      BY <1>1, <1>4, <3>1
  <2>2. ASSUME NEW k \in 1..n, k - 1 \in Good PROVE k \in Good
    <3> SUFFICES ASSUME i <= k + 1 PROVE CharOf(body, i) <= CharOf(body, k + 1)
      BY <1>1
    <3>1. CASE i = k + 1
      BY <1>4, <3>1
    <3>2. CASE i <= k
      <4>1. (k - 1) + 1 = k
        BY <1>1
      <4>2. CharOf(body, i) <= CharOf(body, k)
        BY <2>2, <3>2, <4>1
      <4>3. CharOf(body, k + 1) = CharOf(body, k) + body[k].width
        BY <1>5
      <4>4. CharOf(body, k) \in Nat /\ body[k].width \in Nat /\ CharOf(body, i) \in Nat
        BY <1>1, <1>2, <1>4
      <4> QED
        BY <4>2, <4>3, <4>4
    <3> QED
      BY <1>1, <3>1, <3>2
  <2>3. \A k \in 0..n : k \in Good
    <3> HIDE DEF Good
    <3> QED
      BY <1>1, <2>1, <2>2, UpTo
  <2>4. j - 1 \in 0..n /\ (j - 1) + 1 = j
    BY <1>1
  <2> QED
    BY <1>6, <2>3, <2>4
<1> QED
  BY <1>3, <1>4, <1>5, <1>6 DEF n

\* line_to_char is behind by one for every CRLF line end.
LEMMA DriftIs ==
  ASSUME NEW body \in Seq(Lines), NEW from \in 1..(Len(body) + 1), NEW i \in from..(Len(body) + 1)
  PROVE  LET crlf == {k \in from..(i - 1) : body[k].eol = 2}
         IN  /\ IsFiniteSet(crlf) /\ Cardinality(crlf) \in Nat
             /\ line_to_char(body, from, i) = CharOf(body, i) - CharOf(body, from) - Cardinality(crlf)
             /\ line_to_char(body, from, i) \in Nat
<1> DEFINE n == Len(body)
           C(j) == {k \in from..(j - 1) : body[k].eol = 2}
           cb == Counted(body)
           at(j) == CharOf(cb, j) - CharOf(cb, from)
           Is_(j) == /\ IsFiniteSet(C(j)) /\ Cardinality(C(j)) \in Nat
                     /\ at(j) = CharOf(body, j) - CharOf(body, from) - Cardinality(C(j))
           Good == {k \in 0..n : from <= k + 1 => Is_(k + 1)}
<1>1. n \in Nat /\ \A k \in 1..n : body[k] \in Lines
  OBVIOUS
<1>2. cb \in Seq(Lines) /\ Len(cb) = n /\ \A k \in 1..n : cb[k].width = body[k].width - body[k].eol + 1
  BY CountedLines
<1>3. /\ \A k \in 1..(n + 1) : CharOf(cb, k) \in Nat /\ CharOf(body, k) \in Nat
      /\ \A k \in 1..n : /\ CharOf(cb, k + 1) = CharOf(cb, k) + cb[k].width
                         /\ CharOf(body, k + 1) = CharOf(body, k) + body[k].width
      /\ \A k, j \in 1..(n + 1) : k <= j => CharOf(cb, k) <= CharOf(cb, j)
  BY <1>2, CharGrows
<1>4. line_to_char(body, from, i) = at(i)
  BY DEF line_to_char
<1> HIDE DEF n, cb
<1>5. from \in 1..(n + 1) /\ i \in from..(n + 1)
  BY DEF n
<1>6. Is_(from)
  <2>1. C(from) = {}
    BY <1>5
  <2>2. IsFiniteSet({}) /\ Cardinality({}) = 0
    BY FS_EmptySet
  <2>3. CharOf(body, from) \in Nat /\ CharOf(cb, from) \in Nat
    BY <1>1, <1>3, <1>5
  <2> HIDE DEF C
  <2> QED
    BY <2>1, <2>2, <2>3
<1>7. 0 \in Good
  <2> HIDE DEF Is_
  <2>1. from <= 0 + 1 => from = 0 + 1
    BY <1>1, <1>5
  <2>2. from <= 0 + 1 => Is_(0 + 1)
    BY <1>6, <2>1
  <2> QED
    BY <1>1, <2>2
<1>8. ASSUME NEW k \in 1..n, k - 1 \in Good PROVE k \in Good
  <2> SUFFICES ASSUME from <= k + 1 PROVE Is_(k + 1)
    BY <1>1
  <2>1. CASE from = k + 1
    BY <1>6, <2>1
  <2>2. CASE from <= k
    <3>1. Is_(k)
      <4>1. (k - 1) + 1 = k
        BY <1>1
      <4> QED
        BY <1>8, <2>2, <4>1
    <3>2. /\ body[k].eol \in {1, 2} /\ body[k].width \in Nat
          /\ cb[k].width = body[k].width - body[k].eol + 1
      BY <1>1, <1>2, LineIsLine
    <3>3. at(k + 1) = at(k) + cb[k].width /\ CharOf(body, k + 1) = CharOf(body, k) + body[k].width
      <4>1. /\ k \in 1..(n + 1) /\ k + 1 \in 1..(n + 1)
        BY <1>1
      <4>2. CharOf(cb, k) \in Nat /\ CharOf(cb, k + 1) \in Nat /\ CharOf(cb, from) \in Nat
        BY <1>3, <1>5, <4>1
      <4>3. /\ CharOf(cb, k + 1) = CharOf(cb, k) + cb[k].width
            /\ CharOf(body, k + 1) = CharOf(body, k) + body[k].width
        BY <1>3
      <4>4. cb[k].width \in Int
        BY <3>2
      <4> QED
        BY <4>2, <4>3, <4>4
    <3>4. CharOf(body, k) \in Nat /\ CharOf(body, from) \in Nat
      BY <1>1, <1>3, <1>5
    <3>7. at(k + 1) \in Int /\ at(k) \in Int /\ CharOf(body, k + 1) \in Int
      <4>1. k \in 1..(n + 1) /\ k + 1 \in 1..(n + 1)
        BY <1>1
      <4>2. /\ CharOf(cb, k) \in Nat /\ CharOf(cb, k + 1) \in Nat /\ CharOf(cb, from) \in Nat
            /\ CharOf(body, k + 1) \in Nat
        BY <1>3, <1>5, <4>1
      <4> QED
        BY <4>2
    <3>5. CASE body[k].eol = 2
      <4>1. C(k + 1) = C(k) \cup {k} /\ k \notin C(k)
        BY <1>1, <1>5, <2>2, <3>5
      <4>2. IsFiniteSet(C(k + 1)) /\ Cardinality(C(k + 1)) = Cardinality(C(k)) + 1
        <5> HIDE DEF C
        <5> QED
          BY <3>1, <4>1, FS_AddElement
      <4>5. at(k + 1) = at(k) + body[k].width - 1
        BY <3>2, <3>3, <3>7, <3>5
      <4> HIDE DEF C, at
      <4>6. at(k + 1) = CharOf(body, k + 1) - CharOf(body, from) - Cardinality(C(k + 1))
        <5>1. Cardinality(C(k)) \in Nat /\ at(k) = CharOf(body, k) - CharOf(body, from) - Cardinality(C(k))
          BY <3>1
        <5>2. CharOf(body, k + 1) = CharOf(body, k) + body[k].width
          BY <3>3
        <5>3. at(k) \in Int /\ at(k + 1) \in Int
          BY <3>7
        <5> DEFINE p == at(k)  q == at(k + 1)  x == CharOf(body, k)  y == CharOf(body, k + 1)
                   f == CharOf(body, from)  c == Cardinality(C(k))  d == Cardinality(C(k + 1))
                   w == body[k].width
        <5>4. /\ w \in Nat /\ x \in Nat /\ f \in Nat /\ c \in Nat
              /\ p = x - f - c /\ y = x + w
          BY <3>2, <3>4, <5>1, <5>2
        <5>5. q = p + w - 1
          BY <4>5
        <5>6. d = c + 1
          BY <4>2
        <5> HIDE DEF p, q, x, y, f, c, d, w
        <5>7. q = y - f - d
          BY <5>4, <5>5, <5>6
        <5> QED
          BY <5>7 DEF p, q, x, y, f, c, d, w
      <4>7. IsFiniteSet(C(k + 1)) /\ Cardinality(C(k + 1)) \in Nat
        BY <3>1, <4>2
      <4> QED
        BY <4>6, <4>7
    <3>6. CASE body[k].eol = 1
      <4>1. C(k + 1) = C(k)
        BY <1>1, <1>5, <2>2, <3>6
      <4>5. at(k + 1) = at(k) + body[k].width
        BY <3>2, <3>3, <3>7, <3>6
      <4> HIDE DEF C, at
      <4>6. at(k + 1) = CharOf(body, k + 1) - CharOf(body, from) - Cardinality(C(k + 1))
        <5>1. Cardinality(C(k)) \in Nat /\ at(k) = CharOf(body, k) - CharOf(body, from) - Cardinality(C(k))
          BY <3>1
        <5>2. CharOf(body, k + 1) = CharOf(body, k) + body[k].width
          BY <3>3
        <5>3. at(k) \in Int /\ at(k + 1) \in Int
          BY <3>7
        <5> DEFINE p == at(k)  q == at(k + 1)  x == CharOf(body, k)  y == CharOf(body, k + 1)
                   f == CharOf(body, from)  c == Cardinality(C(k))  d == Cardinality(C(k + 1))
                   w == body[k].width
        <5>4. /\ w \in Nat /\ x \in Nat /\ f \in Nat /\ c \in Nat
              /\ p = x - f - c /\ y = x + w
          BY <3>2, <3>4, <5>1, <5>2
        <5>5. q = p + w
          BY <4>5
        <5>6. d = c
          BY <4>1
        <5> HIDE DEF p, q, x, y, f, c, d, w
        <5>7. q = y - f - d
          BY <5>4, <5>5, <5>6
        <5> QED
          BY <5>7 DEF p, q, x, y, f, c, d, w
      <4>7. IsFiniteSet(C(k + 1)) /\ Cardinality(C(k + 1)) \in Nat
        BY <3>1, <4>1
      <4> QED
        BY <4>6, <4>7
    <3> QED
      BY <3>2, <3>5, <3>6
  <2> QED
    BY <1>1, <1>5, <2>1, <2>2
<1>9. \A k \in 0..n : k \in Good
  <2> HIDE DEF Good
  <2> QED
    BY <1>1, <1>7, <1>8, UpTo
<1>10. Is_(i)
  <2>1. i - 1 \in 0..n /\ (i - 1) + 1 = i
    BY <1>1, <1>5
  <2>2. i - 1 \in Good
    BY <1>9, <2>1
  <2>3. from <= i
    BY <1>5
  <2> HIDE DEF Is_
  <2> QED
    BY <2>1, <2>2, <2>3
<1>11. at(i) \in Nat
  BY <1>1, <1>3, <1>5
<1> QED
  BY <1>4, <1>10, <1>11

-----------------------------------------------------------------------------
\* Runs of lines.

LEMMA RunEnds ==
  ASSUME NEW n \in Nat, NEW i \in 1..n, NEW G, n + 1 \notin G
  PROVE  \E e \in i..n : (\A k \in (i + 1)..e : k \in G) /\ e + 1 \notin G
<1> DEFINE E == {e \in i..n : \A k \in (i + 1)..e : k \in G}
<1>1. n \in Int /\ E \in SUBSET Int /\ E # {} /\ \A e \in E : e <= n
  <2>1. i \in E
    OBVIOUS
  <2> QED
    BY <2>1
<1>2. PICK e \in E : \A d \in E : d <= e
  <2> HIDE DEF E
  <2> QED
    BY <1>1, BoundedMax, Zenon
<1>3. e + 1 \notin G
  <2> SUFFICES ASSUME e + 1 \in G PROVE FALSE
    OBVIOUS
  <2>1. e + 1 \in i..n
    BY <1>2
  <2>2. e + 1 \in E
    BY <1>2, <2>1
  <2> QED
    BY <1>2, <2>2
<1> QED
  BY <1>2, <1>3

LEMMA IsOutside ==
  ASSUME NEW body \in Seq(Lines), NEW kinds
  PROVE  ~ Is(body, kinds, Len(body) + 1) /\ ~ Is(body, kinds, 0)
  BY DEF Is

LEMMA PipeRun ==
  ASSUME NEW body \in Seq(Lines), NEW i, Is(body, {"row", "sep"}, i)
  PROVE  /\ PipeRunEnd(body, i) \in i..Len(body)
         /\ \A k \in i..PipeRunEnd(body, i) : Is(body, {"row", "sep"}, k)
         /\ ~ Is(body, {"row", "sep"}, PipeRunEnd(body, i) + 1)
<1> DEFINE n == Len(body)
           G == {k \in 1..n : Is(body, {"row", "sep"}, k)}
           P(e) == (\A k \in i..e : Is(body, {"row", "sep"}, k)) /\ ~ Is(body, {"row", "sep"}, e + 1)
<1>1. n \in Nat /\ i \in 1..n /\ DOMAIN body = 1..n
  BY DEF Is
<1>2. \A k : k \in G <=> Is(body, {"row", "sep"}, k)
  BY <1>1 DEF Is
<1>3. n + 1 \notin G
  BY <1>1
<1>4. PICK e \in i..n : (\A k \in (i + 1)..e : k \in G) /\ e + 1 \notin G
  <2> HIDE DEF G, n
  <2> QED
    BY <1>1, <1>3, RunEnds
<1>5. P(e)
  BY <1>1, <1>2, <1>4
<1>6. PipeRunEnd(body, i) = CHOOSE d \in i..n : P(d)
  BY DEF PipeRunEnd
<1>7. (CHOOSE d \in i..n : P(d)) \in i..n /\ P(CHOOSE d \in i..n : P(d))
  <2> HIDE DEF P
  <2> QED
    BY <1>4, <1>5
<1> QED
  BY <1>6, <1>7

LEMMA ItemRun ==
  ASSUME NEW body \in Seq(Lines), NEW i \in DOMAIN body
  PROVE  /\ ItemEnd(body, i) \in i..Len(body)
         /\ ~ Is(body, Continuing, ItemEnd(body, i) + 1)
<1> DEFINE n == Len(body)
           G == {k \in 1..n : Is(body, Continuing, k)}
           P(e) == (\A k \in (i + 1)..e : Is(body, Continuing, k)) /\ ~ Is(body, Continuing, e + 1)
<1>1. n \in Nat /\ i \in 1..n /\ DOMAIN body = 1..n
  OBVIOUS
<1>2. \A k : k \in G <=> Is(body, Continuing, k)
  BY <1>1 DEF Is
<1>3. n + 1 \notin G
  BY <1>1
<1>4. PICK e \in i..n : (\A k \in (i + 1)..e : k \in G) /\ e + 1 \notin G
  <2> HIDE DEF G, n
  <2> QED
    BY <1>1, <1>3, RunEnds
<1>5. P(e)
  BY <1>1, <1>2, <1>4
<1>6. ItemEnd(body, i) = CHOOSE d \in i..n : P(d)
  BY DEF ItemEnd, Continuing
<1>7. (CHOOSE d \in i..n : P(d)) \in i..n /\ P(CHOOSE d \in i..n : P(d))
  <2> HIDE DEF P
  <2> QED
    BY <1>4, <1>5
<1> QED
  BY <1>6, <1>7

-----------------------------------------------------------------------------
\* extract_tables, and the types of what the parsers return.

\* What extract_tables finds from a line on, by what is on that line.
TablesAt(body, g, i) ==
    IF i > Len(body) THEN {}
    ELSE IF TableBegins(body, i)
         THEN {<<i, PipeRunEnd(body, i + 1)>>} \cup g[PipeRunEnd(body, i + 1) + 2]
         ELSE g[i + 1]

LEMMA TableEnds ==
  ASSUME NEW body \in Seq(Lines), NEW i, TableBegins(body, i)
  PROVE  /\ i \in 1..Len(body) /\ PipeRunEnd(body, i + 1) \in (i + 1)..Len(body)
         /\ \A k \in (i + 1)..PipeRunEnd(body, i + 1) : Is(body, {"row", "sep"}, k)
         /\ ~ Is(body, {"row", "sep"}, PipeRunEnd(body, i + 1) + 1)
<1>1. i \in 1..Len(body) /\ Is(body, {"row", "sep"}, i + 1)
  BY DEF TableBegins, Is
<1> QED
  BY <1>1, PipeRun

LEMMA TablesUnfold ==
  ASSUME NEW body \in Seq(Lines)
  PROVE  \A i \in 1..(Len(body) + 2) : TablesFrom(body)[i] = TablesAt(body, TablesFrom(body), i)
<1> DEFINE n == Len(body)
           F(m, g) == [i \in (n + 2 - m)..(n + 2) |-> TablesAt(body, g, i)]
           Good == {m \in 0..(n + 1) : \E g : g = F(m, g)}
<1>1. n \in Nat
  OBVIOUS
<1>2. \A i : TableBegins(body, i) => PipeRunEnd(body, i + 1) \in (i + 1)..n
  BY TableEnds
<1>0. \A g, i : TablesAt(body, g, i) = IF i > n THEN {}
                                       ELSE IF TableBegins(body, i)
                                            THEN {<<i, PipeRunEnd(body, i + 1)>>} \cup g[PipeRunEnd(body, i + 1) + 2]
                                            ELSE g[i + 1]
  BY DEF TablesAt
<1> HIDE DEF n
<1>3. 0 \in Good
  <2> DEFINE c == [i \in (n + 2)..(n + 2) |-> {}]
  <2>1. \A i \in (n + 2)..(n + 2) : TablesAt(body, c, i) = {}
    BY <1>0, <1>1
  <2>2. c = [i \in (n + 2)..(n + 2) |-> TablesAt(body, c, i)]
    BY <2>1
  <2>3. n + 2 - 0 = n + 2 /\ 0 \in 0..(n + 1)
    BY <1>1
  <2>4. c = F(0, c)
    <3> HIDE DEF c
    <3> QED
      BY <2>2, <2>3
  <2> HIDE DEF c, F
  <2> QED
    BY <2>3, <2>4
<1>4. ASSUME NEW k \in 1..(n + 1), k - 1 \in Good PROVE k \in Good
  <2>1. PICK g : g = F(k - 1, g)
    BY <1>4
  <2> DEFINE j == n + 2 - k
             v == TablesAt(body, g, j)
             c == [i \in j..(n + 2) |-> IF i = j THEN v ELSE g[i]]
  <2>2. j \in 1..(n + 1) /\ n + 2 - (k - 1) = j + 1
    BY <1>1
  <2> HIDE DEF j, v
  <2>3. \A i \in (j + 1)..(n + 2) : g[i] = TablesAt(body, g, i)
    BY <2>1, <2>2
  <2>4. \A i \in (j + 1)..(n + 2) : c[i] = g[i]
    BY <1>1, <2>2
  <2>5. ASSUME NEW i \in j..(n + 2) PROVE TablesAt(body, c, i) = TablesAt(body, g, i)
    <3>1. CASE i > n
      BY <1>0, <3>1
    <3>2. CASE i <= n /\ TableBegins(body, i)
      <4>1. PipeRunEnd(body, i + 1) + 2 \in (j + 1)..(n + 2)
        BY <1>1, <1>2, <2>2, <3>2
      <4> HIDE DEF c
      <4> QED
        BY <1>0, <1>1, <2>2, <2>4, <3>2, <4>1
    <3>3. CASE i <= n /\ ~ TableBegins(body, i)
      <4>1. i + 1 \in (j + 1)..(n + 2)
        BY <1>1, <2>2, <3>3
      <4> HIDE DEF c
      <4> QED
        BY <1>0, <1>1, <2>2, <2>4, <3>3, <4>1
    <3> QED
      BY <1>1, <2>2, <3>1, <3>2, <3>3
  <2>6. \A i \in j..(n + 2) : c[i] = TablesAt(body, g, i)
    BY <1>1, <2>2, <2>3, <2>4 DEF v
  <2>7. c = F(k, c)
    <3>1. c = [i \in j..(n + 2) |-> c[i]]
      OBVIOUS
    <3>2. \A i \in j..(n + 2) : c[i] = TablesAt(body, c, i)
      BY <2>5, <2>6
    <3> HIDE DEF c
    <3> QED
      BY <3>1, <3>2 DEF j
  <2>8. k \in 0..(n + 1)
    BY <1>1
  <2> HIDE DEF c, F
  <2> QED
    BY <2>7, <2>8
<1>5. \A m \in 0..(n + 1) : m \in Good
  <2>1. n + 1 \in Nat
    BY <1>1
  <2> HIDE DEF Good
  <2> QED
    BY <1>3, <1>4, <2>1, UpTo
<1>6. \E g : g = F(n + 1, g)
  <2>1. n + 1 \in 0..(n + 1)
    BY <1>1
  <2> QED
    BY <1>5, <2>1
<1> DEFINE H(g) == [i \in 1..(n + 2) |-> TablesAt(body, g, i)]
<1>7. \E g : g = H(g)
  <2>1. n + 2 - (n + 1) = 1
    BY <1>1
  <2> QED
    BY <1>6, <2>1
<1>8. TablesFrom(body) = CHOOSE g : g = H(g)
  BY DEF TablesFrom, TablesAt, n
<1>9. TablesFrom(body) = H(TablesFrom(body))
  <2> HIDE DEF H
  <2> QED
    BY <1>7, <1>8
<1> QED
  BY <1>9 DEF n

LEMMA TablesType ==
  ASSUME NEW body \in Seq(Lines)
  PROVE  extract_tables(body) \subseteq Nat \X Nat
<1> DEFINE n == Len(body)
           T == TablesFrom(body)
           Good == {m \in 0..(n + 1) : \A i \in (n + 2 - m)..(n + 2) : T[i] \subseteq Nat \X Nat}
<1>1. n \in Nat
  OBVIOUS
<1>2. \A i \in 1..(n + 2) : T[i] = TablesAt(body, T, i)
  BY TablesUnfold
<1>3. \A i : TableBegins(body, i) => PipeRunEnd(body, i + 1) \in (i + 1)..n /\ i \in 1..n
  BY TableEnds
<1>0. \A g, i : TablesAt(body, g, i) = IF i > n THEN {}
                                       ELSE IF TableBegins(body, i)
                                            THEN {<<i, PipeRunEnd(body, i + 1)>>} \cup g[PipeRunEnd(body, i + 1) + 2]
                                            ELSE g[i + 1]
  BY DEF TablesAt
<1>7. extract_tables(body) = T[1]
  BY DEF extract_tables
<1> HIDE DEF n, T
<1>4. 0 \in Good
  <2>1. ASSUME NEW i \in (n + 2 - 0)..(n + 2) PROVE T[i] = {}
    <3>1. i \in 1..(n + 2) /\ i > n
      BY <1>1
    <3> QED
      BY <1>0, <1>2, <3>1
  <2> QED
    BY <1>1, <2>1
<1>5. ASSUME NEW k \in 1..(n + 1), k - 1 \in Good PROVE k \in Good
  <2>1. \A i \in (n + 2 - (k - 1))..(n + 2) : T[i] \subseteq Nat \X Nat
    BY <1>5
  <2> DEFINE j == n + 2 - k
  <2>2. j \in 1..(n + 1) /\ n + 2 - (k - 1) = j + 1
    BY <1>1
  <2> HIDE DEF j
  <2>3. T[j] \subseteq Nat \X Nat
    <3>0. j \in 1..(n + 2) /\ T[j] = TablesAt(body, T, j)
      BY <1>1, <1>2, <2>2
    <3>1. CASE j > n
      BY <1>0, <3>0, <3>1
    <3>2. CASE j <= n /\ TableBegins(body, j)
      <4>1. PipeRunEnd(body, j + 1) \in Nat /\ j \in Nat /\ PipeRunEnd(body, j + 1) + 2 \in (j + 1)..(n + 2)
        BY <1>1, <1>3, <2>2, <3>2
      <4>2. T[j] = {<<j, PipeRunEnd(body, j + 1)>>} \cup T[PipeRunEnd(body, j + 1) + 2]
        BY <1>0, <1>1, <3>0, <3>2
      <4>3. T[PipeRunEnd(body, j + 1) + 2] \subseteq Nat \X Nat
        BY <2>1, <2>2, <4>1
      <4> QED
        BY <4>1, <4>2, <4>3
    <3>3. CASE j <= n /\ ~ TableBegins(body, j)
      <4>1. j + 1 \in (j + 1)..(n + 2)
        BY <1>1, <2>2, <3>3
      <4>2. T[j] = T[j + 1]
        BY <1>0, <1>1, <3>0, <3>3
      <4> QED
        BY <2>1, <2>2, <4>1, <4>2
    <3> QED
      BY <1>1, <2>2, <3>1, <3>2, <3>3
  <2>4. ASSUME NEW i \in j..(n + 2) PROVE T[i] \subseteq Nat \X Nat
    <3>1. i = j \/ i \in (j + 1)..(n + 2)
      BY <1>1, <2>2
    <3> QED
      BY <2>1, <2>2, <2>3, <3>1
  <2> QED
    BY <1>1, <2>4 DEF j
<1>6. \A m \in 0..(n + 1) : m \in Good
  <2>1. n + 1 \in Nat
    BY <1>1
  <2> HIDE DEF Good
  <2> QED
    BY <1>4, <1>5, <2>1, UpTo
<1>8. n + 1 \in Good /\ 1 \in (n + 2 - (n + 1))..(n + 2)
  BY <1>1, <1>6
<1> QED
  BY <1>7, <1>8

\* A line or element is a line if its width and its level are those of its kind.
LEMMA MadeLine ==
  ASSUME NEW k \in Kinds \ {"blank"}, NEW w \in Nat, w >= 2, k \notin Heads \cup {"note"},
         k \in Indented \cup {"p"} => w >= 3
  PROVE  Line(k, w) \in Lines
<1>1. <<>> \in Seq(STRING)
  OBVIOUS
<1>2. Line(k, w) \in [kind : Kinds, width : Nat, eol : {1, 2}, level : Nat, name : Seq(STRING)]
  BY <1>1 DEF Line
<1>3. Line(k, w).kind = k /\ Line(k, w).width = w /\ Line(k, w).eol = 1
  BY DEF Line
<1> QED
  BY <1>2, <1>3 DEF Lines

LEMMA MarginLine ==
  ASSUME NEW k \in {"text", "fence", "item", "row", "sep"}, NEW w \in Nat, w >= 2
  PROVE  Line(k, w) \in Lines
<1>1. k \in Kinds \ {"blank"} /\ k \notin Heads \cup {"note"} /\ k \notin Indented \cup {"p"}
  BY DEF Indented, Kinds, Heads
<1> QED
  BY <1>1, MadeLine

LEMMA RemadeLine ==
  ASSUME NEW l \in Lines, NEW k \in Kinds \ {"blank"}, NEW w \in Nat, w >= l.eol + 1,
         k \in Indented \cup {"p"} => w >= l.eol + 2, k \in Heads \cup {"note"} => l.level >= 1
  PROVE  [l EXCEPT !.kind = k, !.width = w] \in Lines
<1> DEFINE R == [kind : Kinds, width : Nat, eol : {1, 2}, level : Nat, name : Seq(STRING)]
           m == [l EXCEPT !.kind = k, !.width = w]
<1>1. l \in R
  BY DEF Lines
<1>2. m \in R /\ m.kind = k /\ m.width = w /\ m.eol = l.eol /\ m.level = l.level
  BY <1>1
<1>3. l.eol \in Nat /\ w >= l.eol
  BY LineIsLine
<1> HIDE DEF m
<1>4. m \in Lines
  BY <1>2, <1>3 DEF Lines
<1> QED
  BY <1>4 DEF m

\* An empty line, with either line end.
LEMMA BlankLine ==
  /\ Blank \in Lines
  /\ \A n \in {1, 2} : [Blank EXCEPT !.width = n, !.eol = n] \in Lines
<1> DEFINE R == [kind : Kinds, width : Nat, eol : {1, 2}, level : Nat, name : Seq(STRING)]
<1>1. Blank \in R /\ Blank.kind = "blank" /\ Blank.width = 1 /\ Blank.eol = 1
  <2>1. <<>> \in Seq(STRING) /\ "blank" \in Kinds
    BY DEF Kinds
  <2> QED
    BY <2>1 DEF Blank, Line
<1>2. "blank" \notin Indented \cup {"p"} /\ "blank" \notin Heads \cup {"note"}
  BY DEF Indented, Heads
<1>3. ASSUME NEW m \in R, m.kind = "blank", m.width = m.eol PROVE m \in Lines
  BY <1>2, <1>3 DEF Lines
<1>4. ASSUME NEW b \in R, b.kind = "blank", NEW n \in {1, 2}
      PROVE  [b EXCEPT !.width = n, !.eol = n] \in Lines
  <2> DEFINE m == [b EXCEPT !.width = n, !.eol = n]
  <2>3. n \in Nat
    OBVIOUS
  <2>4. m.kind = "blank" /\ m.width = n /\ m.eol = n
    BY <1>4
  <2>1. m \in R /\ m.kind = "blank" /\ m.width = n /\ m.eol = n
    BY <1>4, <2>3, <2>4
  <2> HIDE DEF m, R
  <2>2. m \in Lines
    BY <1>3, <2>1
  <2> QED
    BY <2>2 DEF m
<1> HIDE DEF R
<1> QED
  BY <1>1, <1>3, <1>4

LEMMA BlankAndFence == Blank \in Lines /\ Fence \in Lines
  BY BlankLine, MarginLine DEF Fence

LEMMA FiniteLines ==
  ASSUME NEW U, NEW lines \in Seq(U), NEW S \in SUBSET DOMAIN lines
  PROVE  IsFiniteSet(S) /\ S \in SUBSET Int
<1>1. Len(lines) \in Nat /\ DOMAIN lines = 1..Len(lines)
  OBVIOUS
<1>2. IsFiniteSet(1..Len(lines))
  BY <1>1, FS_Interval
<1> QED
  BY <1>1, <1>2, FS_Subset

LEMMA PairsType ==
  ASSUME NEW U, NEW lines \in Seq(U), NEW kinds
  PROVE  Pairs(lines, kinds) \subseteq (DOMAIN lines) \X (DOMAIN lines)
<1> DEFINE S == {i \in DOMAIN lines : lines[i].kind \in kinds}
           at == Ascending(S)
<1>1. IsFiniteSet(S) /\ S \in SUBSET Int /\ S \subseteq DOMAIN lines
  <2>1. S \in SUBSET DOMAIN lines
    OBVIOUS
  <2> QED
    BY <2>1, FiniteLines
<1>5. Pairs(lines, kinds) = {<<at[2 * k - 1], at[2 * k]>> : k \in 1..(Len(at) \div 2)}
  BY DEF Pairs
<1> HIDE DEF S
<1>2. Cardinality(S) \in Nat /\ at \in [1..Cardinality(S) -> S]
  BY <1>1, AscendingInOrder
<1>3. Len(at) = Cardinality(S)
  BY <1>2
<1> HIDE DEF at
<1>4. \A k \in 1..(Len(at) \div 2) : 2 * k - 1 \in 1..Cardinality(S) /\ 2 * k \in 1..Cardinality(S)
  BY <1>2, <1>3
<1> SUFFICES ASSUME NEW p \in Pairs(lines, kinds) PROVE p \in (DOMAIN lines) \X (DOMAIN lines)
  OBVIOUS
<1>6. PICK k \in 1..(Len(at) \div 2) : p = <<at[2 * k - 1], at[2 * k]>>
  BY <1>5
<1>7. at[2 * k - 1] \in DOMAIN lines /\ at[2 * k] \in DOMAIN lines
  BY <1>1, <1>2, <1>4
<1> QED
  BY <1>6, <1>7

LEMMA DomainIsNat ==
  ASSUME NEW U, NEW lines \in Seq(U)
  PROVE  (DOMAIN lines) \X (DOMAIN lines) \subseteq Nat \X Nat
  OBVIOUS

LEMMA HeadingsType ==
  ASSUME NEW body \in Seq(Lines)
  PROVE  extract_headings(body) \in Seq(Nat \X Seq(STRING))
<1> DEFINE S == {i \in DOMAIN body : body[i].kind \in Heads}
           heads == Kept(body, S)
<1>1. S \in SUBSET DOMAIN body /\ \A i \in S : body[i] \in Lines
  OBVIOUS
<1>2. extract_headings(body) = [k \in DOMAIN heads |-> <<heads[k].level, heads[k].name>>]
  BY DEF extract_headings
<1> HIDE DEF S
<1>3. heads \in Seq(Lines)
  BY <1>1, KeptType
<1> HIDE DEF heads
<1>4. \A k \in DOMAIN heads : heads[k].level \in Nat /\ heads[k].name \in Seq(STRING)
  BY <1>3, LineIsLine
<1> DEFINE V == Nat \X Seq(STRING)
<1>5. \A k \in DOMAIN heads : <<heads[k].level, heads[k].name>> \in V
  BY <1>4
<1>6. DOMAIN heads = 1..Len(heads) /\ Len(heads) \in Nat
  BY <1>3
<1> HIDE DEF V
<1>7. extract_headings(body) \in Seq(V)
  BY <1>2, <1>5, <1>6
<1> QED
  BY <1>7 DEF V

LEMMA CodeHeadingsType ==
  ASSUME NEW lines \in Seq(Lines)
  PROVE  extract_headings_from_code(lines) \in Seq(Nat \X Seq(STRING))
<1> DEFINE S == {i \in DOMAIN lines : lines[i].kind = "def"}
           at == Ascending(S)
<1>1. IsFiniteSet(S) /\ S \in SUBSET Int /\ S \subseteq DOMAIN lines
  <2>1. S \in SUBSET DOMAIN lines
    OBVIOUS
  <2> QED
    BY <2>1, FiniteLines
<1>2. extract_headings_from_code(lines) = [k \in DOMAIN at |-> <<at[k], lines[at[k]].name>>]
  BY DEF extract_headings_from_code
<1> HIDE DEF S
<1>3. Cardinality(S) \in Nat /\ at \in [1..Cardinality(S) -> S]
  BY <1>1, AscendingInOrder
<1> HIDE DEF at
<1>4. \A k \in DOMAIN at : at[k] \in Nat /\ lines[at[k]].name \in Seq(STRING)
  <2>1. \A k \in DOMAIN at : at[k] \in DOMAIN lines
    BY <1>1, <1>3
  <2>2. \A k \in DOMAIN at : lines[at[k]] \in Lines
    BY <2>1
  <2> QED
    BY <2>1, <2>2, LineIsLine
<1> DEFINE V == Nat \X Seq(STRING)
<1>5. \A k \in DOMAIN at : <<at[k], lines[at[k]].name>> \in V
  BY <1>4
<1>6. DOMAIN at = 1..Cardinality(S)
  BY <1>3
<1> HIDE DEF V
<1>7. extract_headings_from_code(lines) \in Seq(V)
  BY <1>2, <1>3, <1>5, <1>6
<1> QED
  BY <1>7 DEF V

LEMMA ItemsType ==
  ASSUME NEW body \in Seq(Lines)
  PROVE  extract_list_items(body) \subseteq Nat \X Nat
<1>1. \A i \in DOMAIN body : i \in Nat /\ ItemEnd(body, i) \in Nat
  <2> SUFFICES ASSUME NEW i \in DOMAIN body PROVE i \in Nat /\ ItemEnd(body, i) \in Nat
    OBVIOUS
  <2>1. ItemEnd(body, i) \in i..Len(body)
    BY ItemRun
  <2> QED
    BY <2>1
<1> QED
  BY <1>1 DEF extract_list_items

-----------------------------------------------------------------------------
\* What each parser makes of its elements.

LEMMA StructuredType ==
  ASSUME NEW body \in Seq(Lines)
  PROVE  Structured(body) \in Contents
<1>1. /\ extract_headings(body) \in Seq(Nat \X Seq(STRING))
      /\ extract_code_blocks(body) \in SUBSET (Nat \X Nat)
      /\ extract_tables(body) \in SUBSET (Nat \X Nat)
      /\ extract_list_items(body) \in SUBSET (Nat \X Nat)
  BY HeadingsType, PairsType, DomainIsNat, TablesType, ItemsType DEF extract_code_blocks
<1> QED
  BY <1>1 DEF Structured, Contents

LEMMA PlainType ==
  ASSUME NEW body \in Seq(Lines)
  PROVE  Plain(body) \in Contents
<1>1. <<>> \in Seq(Nat \X Seq(STRING))
  OBVIOUS
<1> QED
  BY <1>1 DEF Plain, Contents

LEMMA UnindentedType ==
  ASSUME NEW body \in Seq(Lines)
  PROVE  Unindented(body) \in Seq(Lines)
<1> DEFINE b == body[1]
           v == IF b.kind = "indent" THEN [b EXCEPT !.kind = "text", !.width = b.width - 1]
                ELSE IF b.kind = "note" THEN [b EXCEPT !.kind = "head", !.width = b.width - 1]
                ELSE b
<1>1. Unindented(body) = [body EXCEPT ![1] = v]
  BY DEF Unindented
<1>2. 1 \in DOMAIN body => v \in Lines
  <2> SUFFICES ASSUME 1 \in DOMAIN body PROVE v \in Lines
    OBVIOUS
  <2>1. b \in Lines
    OBVIOUS
  <2> HIDE DEF b
  <2>2. "text" \in Kinds \ {"blank"} /\ "head" \in Kinds \ {"blank"} /\ "text" \notin Indented \cup {"p"}
        /\ "head" \notin Indented \cup {"p"} /\ "text" \notin Heads \cup {"note"}
    BY DEF Kinds, Indented, Heads
  <2>3. ASSUME b.kind \in {"indent", "note"}
        PROVE  b.width - 1 \in Nat /\ b.width - 1 >= b.eol + 1
    BY <2>1, <2>3, LineIsLine DEF Indented
  <2>4. CASE b.kind = "indent"
    <3>1. [b EXCEPT !.kind = "text", !.width = b.width - 1] \in Lines
      BY <2>1, <2>2, <2>3, <2>4, RemadeLine
    <3> QED
      BY <2>4, <3>1
  <2>5. CASE b.kind = "note"
    <3>1. b.level >= 1
      BY <2>1, <2>5, LineIsLine
    <3>2. [b EXCEPT !.kind = "head", !.width = b.width - 1] \in Lines
      BY <2>1, <2>2, <2>3, <2>5, <3>1, RemadeLine
    <3> QED
      BY <2>5, <3>2
  <2> QED
    BY <2>1, <2>4, <2>5
<1> HIDE DEF v
<1>3. CASE 1 \in DOMAIN body
  BY <1>1, <1>2, <1>3
<1>4. CASE 1 \notin DOMAIN body
  <2>1. [body EXCEPT ![1] = v] = body
    BY <1>4
  <2> QED
    BY <1>1, <2>1
<1> QED
  BY <1>3, <1>4

LEMMA HtmlLinesType ==
  ASSUME NEW e \in Elements("html")
  PROVE  HtmlLines(e) \in Seq(Lines)
<1> DEFINE w == LF(e).width
<1>1. e \in Lines /\ e.kind \in {"p", "note", "li", "pre", "table", "head"}
  BY DEF Elements
<1>2. e.width \in Nat /\ e.eol \in Nat /\ e.width >= e.eol + 1 /\ (e.kind = "p" => e.width >= e.eol + 2)
  BY <1>1 DEF Lines
<1>3. LF(e) \in Lines /\ w \in Nat /\ w >= 2
  BY <1>1, <1>2, LFIsLine
<1>4. Fence \in Lines
  BY BlankAndFence
<1> HIDE DEF w
<1>5. \A k \in {"item", "text", "row", "sep"} : Line(k, w) \in Lines
  BY <1>3, MarginLine
<1>6. CASE e.kind = "p"
  <2>1. HtmlLines(e) = <<[e EXCEPT !.kind = "indent", !.width = e.width]>>
    <3>1. e \in [kind : Kinds, width : Nat, eol : {1, 2}, level : Nat, name : Seq(STRING)]
      BY <1>1 DEF Lines
    <3>2. [e EXCEPT !.kind = "indent"] = [e EXCEPT !.kind = "indent", !.width = e.width]
      BY <3>1
    <3> QED
      BY <1>6, <3>2 DEF HtmlLines
  <2>2. "indent" \in Kinds \ {"blank"} /\ "indent" \notin Heads \cup {"note"}
    BY DEF Kinds, Heads
  <2>3. [e EXCEPT !.kind = "indent", !.width = e.width] \in Lines
    BY <1>1, <1>2, <1>6, <2>2, RemadeLine
  <2> QED
    BY <2>1, <2>3
<1>7. CASE e.kind = "note"
  <2>1. HtmlLines(e) = <<e>>
    BY <1>7 DEF HtmlLines
  <2> QED
    BY <1>1, <2>1
<1>8. CASE e.kind = "li"
  <2>1. HtmlLines(e) = <<Line("item", w)>>
    BY <1>8 DEF HtmlLines, w
  <2> QED
    BY <1>5, <2>1
<1>9. CASE e.kind = "pre"
  <2>1. HtmlLines(e) = <<Fence, Line("text", w), Fence>>
    BY <1>9 DEF HtmlLines, w
  <2> QED
    BY <1>4, <1>5, <2>1
<1>10. CASE e.kind = "table"
  <2>1. HtmlLines(e) = <<Line("row", w), Line("sep", w), Line("row", w)>>
    BY <1>10 DEF HtmlLines, w
  <2> QED
    BY <1>5, <2>1
<1>11. CASE e.kind = "head"
  <2>1. HtmlLines(e) = <<LF(e)>>
    BY <1>11 DEF HtmlLines
  <2> QED
    BY <1>3, <2>1
<1> QED
  BY <1>1, <1>6, <1>7, <1>8, <1>9, <1>10, <1>11

LEMMA BetweenType ==
  ASSUME NEW e \in Lines, NEW f \in Lines
  PROVE  Between(e, f) \in Seq(Lines)
<1> DEFINE inline == {"p", "note"}
           empty == [Blank EXCEPT !.width = e.eol, !.eol = e.eol]
<1>1. e.eol \in {1, 2}
  BY LineIsLine
<1>2. empty \in Lines /\ Blank \in Lines
  BY <1>1, BlankLine, BlankAndFence
<1>3. CASE e.kind \in inline /\ f.kind \in inline
  <2>1. Between(e, f) = <<>>
    BY <1>3 DEF Between
  <2> QED
    BY <2>1
<1>4. CASE e.kind \in inline /\ f.kind \notin inline
  <2>1. Between(e, f) = <<Blank>>
    BY <1>4 DEF Between
  <2> QED
    BY <1>2, <2>1
<1>5. CASE e.kind \notin inline /\ (f.kind \in inline \/ e.eol = 1)
  <2>1. Between(e, f) = <<empty>>
    BY <1>5 DEF Between
  <2> HIDE DEF empty
  <2> QED
    BY <1>2, <2>1
<1>6. CASE e.kind \notin inline /\ f.kind \notin inline /\ e.eol # 1
  <2>1. Between(e, f) = <<empty>> \o <<Blank>>
    BY <1>6 DEF Between
  <2> HIDE DEF empty
  <2> QED
    BY <1>2, <2>1
<1> QED
  BY <1>3, <1>4, <1>5, <1>6

LEMMA NormalizedType ==
  ASSUME NEW elements \in Seq(Elements("html"))
  PROVE  normalize_to_markdown(elements) \in Seq(Lines)
<1> DEFINE gap(n) == IF n = 1 THEN <<>> ELSE Between(elements[n - 1], elements[n])
           parts == [n \in DOMAIN elements |-> gap(n) \o HtmlLines(elements[n])]
<1>1. normalize_to_markdown(elements) = IF elements = <<>> THEN <<>> ELSE Unindented(FlattenSeq(parts))
  BY DEF normalize_to_markdown
<1>2. parts \in Seq(Seq(Lines))
  <2>1. DOMAIN elements = 1..Len(elements) /\ Len(elements) \in Nat
    OBVIOUS
  <2>2. \A n \in DOMAIN elements : elements[n] \in Lines
    <3>1. \A n \in DOMAIN elements : elements[n] \in Elements("html")
      OBVIOUS
    <3> QED
      BY <3>1 DEF Elements
  <2>3. \A n \in DOMAIN elements : gap(n) \in Seq(Lines)
    <3> SUFFICES ASSUME NEW n \in DOMAIN elements, n # 1
                 PROVE  Between(elements[n - 1], elements[n]) \in Seq(Lines)
      OBVIOUS
    <3>1. n - 1 \in DOMAIN elements
      BY <2>1
    <3> QED
      BY <2>2, <3>1, BetweenType
  <2>4. \A n \in DOMAIN elements : HtmlLines(elements[n]) \in Seq(Lines)
    BY HtmlLinesType
  <2> DEFINE V == Seq(Lines)
  <2>5. \A v, w \in V : v \o w \in V
    OBVIOUS
  <2> HIDE DEF gap, V
  <2>6. \A n \in DOMAIN elements : gap(n) \o HtmlLines(elements[n]) \in V
    BY <2>3, <2>4, <2>5 DEF V
  <2>7. parts \in Seq(V)
    BY <2>1, <2>6
  <2> QED
    BY <2>7 DEF V
<1> HIDE DEF parts
<1>3. Unindented(FlattenSeq(parts)) \in Seq(Lines)
  BY <1>2, FlattenType, UnindentedType
<1> QED
  BY <1>1, <1>3

LEMMA KeptBeforeType ==
  ASSUME NEW lines, NEW i \in Nat
  PROVE  KeptBefore(lines, i) \in Nat
<1> DEFINE S == {k \in 1..(i - 1) : lines[k].kind \notin Fences /\ FencesUpTo(lines, k) % 2 = 0}
<1>1. IsFiniteSet(1..(i - 1)) /\ S \in SUBSET (1..(i - 1))
  BY FS_Interval
<1>2. IsFiniteSet(S)
  BY <1>1, FS_Subset
<1> QED
  BY <1>2, FS_CardinalityType DEF KeptBefore

LEMMA PdfType ==
  ASSUME NEW elements \in Seq(Lines)
  PROVE  PdfParser(elements) \in Contents
<1> DEFINE S == {k \in DOMAIN elements : /\ elements[k].kind \notin Fences
                                         /\ FencesUpTo(elements, k) % 2 = 0}
           B == {<<KeptBefore(elements, p[1]) + 1, KeptBefore(elements, p[2]) + 1>> : p \in Pairs(elements, Fences)}
<1>1. PdfParser(elements) = [Plain(Kept(elements, S)) EXCEPT !.code_blocks = B]
  BY DEF PdfParser
<1>2. Kept(elements, S) \in Seq(Lines)
  <2>1. S \in SUBSET DOMAIN elements /\ \A i \in S : elements[i] \in Lines
    OBVIOUS
  <2> HIDE DEF S
  <2> QED
    BY <2>1, KeptType
<1>3. B \in SUBSET (Nat \X Nat)
  <2>1. \A p \in Pairs(elements, Fences) : p[1] \in Nat /\ p[2] \in Nat
    BY PairsType, DomainIsNat
  <2>2. \A p \in Pairs(elements, Fences) : KeptBefore(elements, p[1]) + 1 \in Nat /\ KeptBefore(elements, p[2]) + 1 \in Nat
    BY <2>1, KeptBeforeType
  <2> QED
    BY <2>2
<1> HIDE DEF S, B
<1>4. Plain(Kept(elements, S)) \in Contents
  BY <1>2, PlainType
<1> QED
  BY <1>1, <1>3, <1>4 DEF Contents

LEMMA DocxLinesType ==
  ASSUME NEW paras \in Seq(Lines), NEW i \in DOMAIN paras
  PROVE  DocxLines(paras, i) \in Seq(Lines)
<1>1. paras[i] \in Lines /\ Fence \in Lines
  BY BlankAndFence
<1>2. CASE paras[i].kind # "styled"
  <2>1. DocxLines(paras, i) = <<paras[i]>>
    BY <1>2 DEF DocxLines
  <2> QED
    BY <1>1, <2>1
<1>3. CASE paras[i].kind = "styled"
  <2>1. paras[i].width \in Nat /\ paras[i].width >= 2
    <3> DEFINE l == paras[i]
    <3>1. l \in Lines /\ l.kind # "blank"
      BY <1>1, <1>3
    <3> HIDE DEF l
    <3>2. l.width \in Nat /\ l.width >= 2
      BY <3>1, LineIsLine
    <3> QED
      BY <3>2 DEF l
  <2>2. Line("text", paras[i].width) \in Lines
    BY <2>1, MarginLine
  <2>3. \/ DocxLines(paras, i) = <<Line("text", paras[i].width)>>
        \/ DocxLines(paras, i) = <<Fence, Line("text", paras[i].width), Fence>>
    BY <1>3 DEF DocxLines
  <2> DEFINE l == Line("text", paras[i].width)
  <2> HIDE DEF l
  <2>4. l \in Lines /\ (DocxLines(paras, i) = <<l>> \/ DocxLines(paras, i) = <<Fence, l, Fence>>)
    BY <2>2, <2>3 DEF l
  <2>5. <<l>> \in Seq(Lines)
    BY <2>4
  <2>6. <<Fence, l, Fence>> \in Seq(Lines)
    BY <1>1, <2>4
  <2> QED
    BY <2>4, <2>5, <2>6
<1> QED
  BY <1>2, <1>3

LEMMA DocxType ==
  ASSUME NEW elements \in Seq(Elements("docx"))
  PROVE  DocxParser(elements) \in Contents
<1> DEFINE S == {i \in DOMAIN elements : elements[i].kind # "table"}
           paras == Paragraphs(elements)
           parts == [i \in DOMAIN paras |-> DocxLines(paras, i)]
           rows == Len(elements) - Len(paras)
           T == IF rows > 0 THEN {<<0, rows>>} ELSE {}
<1>1. DocxParser(elements) = [Plain(FlattenSeq(parts)) EXCEPT !.code_blocks = Pairs(paras, Fences), !.tables = T]
  BY DEF DocxParser
<1>2. paras \in Seq(Lines)
  <2>1. Line("table", 0).kind = "table"
    BY DEF Line
  <2>2. S \in SUBSET DOMAIN elements /\ \A i \in S : elements[i] \in Lines
    <3>1. \A i \in S : elements[i] \in Lines \/ elements[i] = Line("table", 0)
      BY DEF Elements
    <3> QED
      BY <2>1, <3>1
  <2>3. paras = Kept(elements, S)
    BY DEF Paragraphs
  <2> HIDE DEF S, paras
  <2> QED
    BY <2>2, <2>3, KeptType
<1> HIDE DEF S, paras
<1>3. parts \in Seq(Seq(Lines))
  <2>1. \A i \in DOMAIN paras : DocxLines(paras, i) \in Seq(Lines)
    BY <1>2, DocxLinesType
  <2>2. DOMAIN paras = 1..Len(paras) /\ Len(paras) \in Nat
    BY <1>2
  <2> DEFINE V == Seq(Lines)
  <2>4. \A i \in DOMAIN paras : DocxLines(paras, i) \in V
    BY <2>1
  <2> HIDE DEF V
  <2>3. parts \in Seq(V)
    BY <2>2, <2>4
  <2> QED
    BY <2>3 DEF V
<1> HIDE DEF parts
<1>4. FlattenSeq(parts) \in Seq(Lines)
  BY <1>3, FlattenType
<1>5. Plain(FlattenSeq(parts)) \in Contents
  BY <1>4, PlainType
<1>6. Pairs(paras, Fences) \in SUBSET (Nat \X Nat)
  BY <1>2, PairsType, DomainIsNat
<1>7. T \in SUBSET (Nat \X Nat)
  <2>1. rows \in Int
    BY <1>2
  <2> HIDE DEF rows
  <2> QED
    BY <2>1
<1> HIDE DEF T, rows
<1> QED
  BY <1>1, <1>5, <1>6, <1>7 DEF Contents

LEMMA EpubType ==
  ASSUME NEW elements \in Seq(Lines)
  PROVE  EpubParser(elements) \in Contents
<1> DEFINE S == {i \in DOMAIN elements : elements[i].kind # "blank"}
           lines == Kept(elements, S)
<1>1. EpubParser(elements) = [Plain(lines) EXCEPT !.headings = extract_headings(lines),
                                                  !.code_blocks = Pairs(lines, {"fence"})]
  BY DEF EpubParser
<1>2. lines \in Seq(Lines)
  <2>1. S \in SUBSET DOMAIN elements /\ \A i \in S : elements[i] \in Lines
    OBVIOUS
  <2> HIDE DEF S
  <2> QED
    BY <2>1, KeptType
<1> HIDE DEF lines
<1>3. Plain(lines) \in Contents
  BY <1>2, PlainType
<1>4. extract_headings(lines) \in Seq(Nat \X Seq(STRING)) /\ Pairs(lines, {"fence"}) \in SUBSET (Nat \X Nat)
  BY <1>2, HeadingsType, PairsType, DomainIsNat
<1> QED
  BY <1>1, <1>3, <1>4 DEF Contents

LEMMA PyType ==
  ASSUME NEW elements \in Seq(Lines)
  PROVE  PyParser(elements) \in Contents
<1>1. Plain(elements) \in Contents
  BY PlainType
<1>2. /\ extract_headings_from_code(elements) \in Seq(Nat \X Seq(STRING))
      /\ Pairs(elements, Fences) \in SUBSET (Nat \X Nat)
  BY CodeHeadingsType, PairsType, DomainIsNat
<1> QED
  BY <1>1, <1>2 DEF Contents, PyParser

LEMMA HtmlType ==
  ASSUME NEW elements \in Seq(Elements("html"))
  PROVE  HtmlParser(elements) \in Contents
<1>1. Structured(normalize_to_markdown(elements)) \in Contents
  BY NormalizedType, StructuredType
<1> QED
  BY <1>1 DEF HtmlParser, Contents

\* What a parser returns is ParsedContent.
LEMMA ParsedContentType ==
  ASSUME NEW d \in Documents
  PROVE  ParsedContent(d) \in Contents
<1>1. d.elements \in Seq(Elements(d.media_type))
  BY DocumentsAreDocuments
<1>2. d.media_type \notin {"html", "docx"} => d.elements \in Seq(Lines)
  <2> SUFFICES ASSUME d.media_type \notin {"html", "docx"} PROVE d.elements \in Seq(Lines)
    OBVIOUS
  <2> DEFINE E == Elements(d.media_type)
  <2>1. E \subseteq Lines
    BY DEF Elements
  <2> HIDE DEF E
  <2> QED
    BY <1>1, <2>1 DEF E
<1>3. CASE d.media_type = "text"
  BY <1>2, <1>3, PlainType DEF ParsedContent, TextParser
<1>4. CASE d.media_type = "markdown"
  BY <1>2, <1>4, StructuredType DEF ParsedContent, MarkdownParser
<1>5. CASE d.media_type = "html"
  BY <1>1, <1>5, HtmlType DEF ParsedContent
<1>6. CASE d.media_type = "pdf"
  BY <1>2, <1>6, PdfType DEF ParsedContent
<1>7. CASE d.media_type = "docx"
  BY <1>1, <1>7, DocxType DEF ParsedContent
<1>8. CASE d.media_type = "epub"
  BY <1>2, <1>8, EpubType DEF ParsedContent
<1>9. CASE d.media_type = "python"
  BY <1>2, <1>9, PyType DEF ParsedContent
<1>10. CASE d.media_type = "ts"
  BY <1>2, <1>10, PyType DEF ParsedContent, TsParser
<1>11. CASE d.media_type \notin Registered
  <2>1. ParsedContent(d) = Plain(<<>>)
    BY <1>11 DEF ParsedContent, Registered
  <2>2. <<>> \in Seq(Lines)
    OBVIOUS
  <2> QED
    BY <2>1, <2>2, PlainType
<1> QED
  BY <1>3, <1>4, <1>5, <1>6, <1>7, <1>8, <1>9, <1>10, <1>11 DEF Registered

-----------------------------------------------------------------------------
\* _split_by_heading, and the text and the protected ranges of a section.

LEMMA ContentIs ==
  ASSUME NEW c \in Contents
  PROVE  /\ c.body \in Seq(Lines) /\ c.ended \in BOOLEAN /\ c.headings \in Seq(Nat \X Seq(STRING))
         /\ c.code_blocks \in SUBSET (Nat \X Nat) /\ c.tables \in SUBSET (Nat \X Nat)
         /\ c.list_items \in SUBSET (Nat \X Nat)
  BY DEF Contents

\* A headed line has a first heading that fits.
LEMMA HeadingOfHeaded ==
  ASSUME NEW c \in Contents, NEW i, Headed(c, i)
  PROVE  \E k \in DOMAIN c.headings :
            /\ HeadingOf(c, i) = c.headings[k] /\ IsHeading(c.body[i], c.headings[k])
            /\ \A j \in 1..(k - 1) : ~ IsHeading(c.body[i], c.headings[j])
<1> DEFINE D == DOMAIN c.headings
           fits(k) == IsHeading(c.body[i], c.headings[k])
           K == {k \in D : fits(k)}
           P(k) == fits(k) /\ \A j \in 1..(k - 1) : ~ fits(j)
<1>1. D \in SUBSET Nat /\ \A k \in D : 1..(k - 1) \subseteq D
  BY ContentIs
<1>2. K # {}
  BY DEF Headed
<1> HIDE DEF D, fits
<1>3. PICK k \in K : \A j \in K : k <= j
  <2>1. K \in SUBSET Nat
    BY <1>1
  <2> HIDE DEF K
  <2> QED
    BY <1>2, <2>1, NatMin
<1>4. k \in D /\ P(k)
  BY <1>1, <1>3
<1>5. HeadingOf(c, i) = c.headings[CHOOSE d \in D : P(d)]
  BY DEF HeadingOf, D, fits
<1>6. (CHOOSE d \in D : P(d)) \in D /\ P(CHOOSE d \in D : P(d))
  <2> HIDE DEF P
  <2> QED
    BY <1>4
<1> QED
  BY <1>5, <1>6 DEF D, fits

LEMMA DescendType ==
  ASSUME NEW path \in Seq(Seq(STRING)), NEW h \in Nat \X Seq(STRING)
  PROVE  Descend(path, h) \in Seq(Seq(STRING))
<1> DEFINE V == Seq(STRING)
           m == Smaller(Len(path), h[1] - 1)
           cut == SubSeq(path, 1, m)
<1>1. h[1] \in Nat /\ h[2] \in V
  OBVIOUS
<1>2. Descend(path, h) = Append(cut, h[2])
  BY DEF Descend
<1>3. path \in Seq(V)
  OBVIOUS
<1> HIDE DEF V
<1>4. m \in Int /\ m <= Len(path)
  BY <1>1, <1>3 DEF Smaller
<1> HIDE DEF m
<1>5. cut \in Seq(V)
  <2>1. CASE m <= 0
    <3>1. cut = <<>>
      BY <1>3, <1>4, <2>1
    <3>2. <<>> \in Seq(V)
      OBVIOUS
    <3> HIDE DEF cut
    <3> QED
      BY <3>1, <3>2
  <2>2. CASE m >= 1
    BY <1>3, <1>4, <2>2
  <2> QED
    BY <1>4, <2>1, <2>2
<1> HIDE DEF cut
<1>6. Append(cut, h[2]) \in Seq(V)
  BY <1>1, <1>5
<1> QED
  BY <1>2, <1>6 DEF V

\* heading_path from section to section.
LEMMA PathsUnfold ==
  ASSUME NEW c \in Contents, NEW starts \in Seq(Nat)
  PROVE  /\ PathsOf(c, starts) \in [0..Len(starts) -> Seq(Seq(STRING))] /\ PathsOf(c, starts)[0] = <<>>
         /\ \A k \in 1..Len(starts) :
              PathsOf(c, starts)[k] = IF Headed(c, starts[k])
                                      THEN Descend(PathsOf(c, starts)[k - 1], HeadingOf(c, starts[k]))
                                      ELSE PathsOf(c, starts)[k - 1]
<1> DEFINE n == Len(starts)
           V == Seq(Seq(STRING))
           next(k, p) == IF Headed(c, starts[k]) THEN Descend(p, HeadingOf(c, starts[k])) ELSE p
           G(g) == [k \in 0..n |-> IF k = 0 THEN <<>> ELSE next(k, g[k - 1])]
           step == [p \in (1..n) \X V |-> next(p[1], p[2])]
           path == CHOOSE g : g = G(g)
<1>1. n \in Nat /\ <<>> \in V
  OBVIOUS
<1>2. PathsOf(c, starts) = path
  <2>1. PathsOf(c, starts) = CHOOSE g : g = [k \in 0..n |-> IF k = 0 THEN <<>>
            ELSE IF Headed(c, starts[k]) THEN Descend(g[k - 1], HeadingOf(c, starts[k])) ELSE g[k - 1]]
    BY DEF PathsOf
  <2> QED
    BY <2>1
<1>3. \A k \in 1..n : \A p \in V : next(k, p) \in V
  <2> SUFFICES ASSUME NEW k \in 1..n, NEW p \in V PROVE next(k, p) \in V
    OBVIOUS
  <2>1. CASE Headed(c, starts[k])
    <3>1. HeadingOf(c, starts[k]) \in Nat \X Seq(STRING)
      BY <2>1, HeadingOfHeaded, ContentIs
    <3> QED
      BY <2>1, <3>1, DescendType
  <2> QED
    BY <2>1
<1>12. \A k, p : next(k, p) = IF Headed(c, starts[k]) THEN Descend(p, HeadingOf(c, starts[k])) ELSE p
  OBVIOUS
<1> HIDE DEF n, V, next
<1>4. step \in [(1..n) \X V -> V]
  BY <1>1, <1>3
<1>5. PICK f \in [0..n -> V] : Iterates(f, n, <<>>, step)
  <2> HIDE DEF step
  <2> QED
    BY <1>1, <1>4, Iterated
<1>6. ASSUME NEW k \in 0..n PROVE f[k] = IF k = 0 THEN <<>> ELSE next(k, f[k - 1])
  <2>1. CASE k = 0
    BY <1>5, <2>1 DEF Iterates
  <2>2. CASE k # 0
    <3>1. k \in 1..n /\ f[k - 1] \in V
      BY <1>1, <2>2
    <3>2. f[k] = step[<<k, f[k - 1]>>]
      BY <1>5, <3>1 DEF Iterates
    <3> QED
      BY <2>2, <3>1, <3>2
  <2> QED
    BY <2>1, <2>2
<1>7. f = G(f)
  BY <1>6
<1>8. path = G(path)
  <2> HIDE DEF G
  <2> QED
    BY <1>7
<1> HIDE DEF path, step
<1>9. path[0] = <<>> /\ \A k \in 1..n : path[k] = next(k, path[k - 1])
  <2>1. \A k \in 0..n : path[k] = IF k = 0 THEN <<>> ELSE next(k, path[k - 1])
    BY <1>8
  <2> QED
    BY <1>1, <2>1
<1> DEFINE Good == {k \in 0..n : path[k] \in V}
<1>10. \A k \in 0..n : k \in Good
  <2>1. 0 \in Good
    BY <1>1, <1>9
  <2>2. \A k \in 1..n : k - 1 \in Good => k \in Good
    BY <1>1, <1>3, <1>9
  <2> HIDE DEF Good
  <2> QED
    BY <1>1, <2>1, <2>2, UpTo
<1>11. path \in [0..n -> V]
  <2>1. \A k \in 0..n : path[k] \in V
    BY <1>10
  <2>2. path = [k \in 0..n |-> path[k]]
    BY <1>8
  <2> QED
    BY <2>1, <2>2
<1> QED
  BY <1>2, <1>9, <1>11, <1>12 DEF n, V

\* Where the sections of a body with headings begin.
StartsOf(c) == Ascending({i \in 1..Len(c.body) : i = 1 \/ Headed(c, i)})

LEMMA StartsInOrder ==
  ASSUME NEW c \in Contents
  PROVE  /\ StartsOf(c) \in Seq(1..Len(c.body))
         /\ \A k, l \in DOMAIN StartsOf(c) : k < l => StartsOf(c)[k] < StartsOf(c)[l]
         /\ \A i \in 1..Len(c.body) : (i = 1 \/ Headed(c, i)) <=> \E k \in DOMAIN StartsOf(c) : StartsOf(c)[k] = i
<1> DEFINE n == Len(c.body)
           S == {i \in 1..n : i = 1 \/ Headed(c, i)}
<1>1. IsFiniteSet(S) /\ S \in SUBSET Int
  <2>1. c.body \in Seq(Lines) /\ DOMAIN c.body = 1..n
    BY ContentIs
  <2>2. S \in SUBSET DOMAIN c.body
    BY <2>1
  <2> QED
    BY <2>1, <2>2, FiniteLines
<1>3. \A i : i \in S <=> i \in 1..n /\ (i = 1 \/ Headed(c, i))
  OBVIOUS
<1>4. StartsOf(c) = Ascending(S)
  BY DEF StartsOf
<1> HIDE DEF S, n
<1>2. /\ Cardinality(S) \in Nat
      /\ Ascending(S) \in [1..Cardinality(S) -> S]
      /\ \A x \in S : \E k \in 1..Cardinality(S) : Ascending(S)[k] = x
      /\ \A k, l \in 1..Cardinality(S) : k < l => Ascending(S)[k] < Ascending(S)[l]
  BY <1>1, AscendingInOrder
<1>5. Ascending(S) \in Seq(1..n)
  <2> DEFINE a == Ascending(S)
             m == Cardinality(S)
             N == 1..n
  <2>1. \A k \in 1..m : a[k] \in N
    BY <1>2, <1>3
  <2>2. m \in Nat /\ DOMAIN a = 1..m /\ a = [k \in 1..m |-> a[k]]
    BY <1>2
  <2> HIDE DEF a, m, N
  <2>3. a \in Seq(N)
    BY <2>1, <2>2
  <2> QED
    BY <2>3 DEF a, N
<1> QED
  BY <1>2, <1>3, <1>4, <1>5 DEF n

LEMMA SectionType ==
  ASSUME NEW c \in Contents, NEW path \in Seq(Seq(STRING)), NEW from \in Nat, NEW to \in Nat, NEW b \in BOOLEAN,
         1 <= from, from <= to + 1, to <= Len(c.body)
  PROVE  Section(path, from, to, b) \in SectionsOf(c)
<1> DEFINE V == Seq(Seq(STRING))
<1>1. path \in V
  OBVIOUS
<1> HIDE DEF V
<1> QED
  BY <1>1 DEF Section, SectionsOf, V

\* The sections of a body with headings.
LEMMA SplitAtHeadings ==
  ASSUME NEW c \in Contents, c.headings # <<>>
  PROVE  /\ DOMAIN split_by_heading(c) = DOMAIN StartsOf(c)
         /\ \A k \in DOMAIN StartsOf(c) :
              split_by_heading(c)[k] =
                Section(PathsOf(c, StartsOf(c))[k], StartsOf(c)[k],
                        IF k = Len(StartsOf(c)) THEN Len(c.body) ELSE StartsOf(c)[k + 1] - 1, TRUE)
  BY DEF split_by_heading, StartsOf

\* Sections are ranges of the body's lines.
LEMMA SplitType ==
  ASSUME NEW c \in Contents
  PROVE  split_by_heading(c) \in Seq(SectionsOf(c))
<1>0. c.body \in Seq(Lines)
  BY ContentIs
<1>1. CASE c.headings = <<>>
  <2>1. split_by_heading(c) = <<Section(<<>>, 1, Len(c.body), FALSE)>>
    BY <1>1 DEF split_by_heading
  <2>2. Len(c.body) \in Nat /\ <<>> \in Seq(Seq(STRING))
    BY <1>0
  <2>3. 1 \in Nat /\ 1 <= 1 /\ 1 <= Len(c.body) + 1 /\ Len(c.body) <= Len(c.body) /\ FALSE \in BOOLEAN
    BY <2>2
  <2> DEFINE s == Section(<<>>, 1, Len(c.body), FALSE)
  <2>4. s \in SectionsOf(c)
    BY <2>2, <2>3, SectionType
  <2>5. split_by_heading(c) = <<s>>
    BY <2>1
  <2> HIDE DEF s
  <2> QED
    BY <2>4, <2>5
<1>2. CASE c.headings # <<>>
  <2> DEFINE starts == StartsOf(c)
             n == Len(c.body)
             end(k) == IF k = Len(starts) THEN n ELSE starts[k + 1] - 1
             sec(k) == Section(PathsOf(c, starts)[k], starts[k], end(k), TRUE)
  <2>1. split_by_heading(c) = [k \in DOMAIN starts |-> sec(k)]
    BY <1>2 DEF split_by_heading, StartsOf
  <2>2. n \in Nat /\ starts \in Seq(1..n) /\ \A k, l \in DOMAIN starts : k < l => starts[k] < starts[l]
    BY <1>0, StartsInOrder
  <2> HIDE DEF starts
  <2>3. starts \in Seq(Nat)
    BY <2>2
  <2>4. PathsOf(c, starts) \in [0..Len(starts) -> Seq(Seq(STRING))]
    BY <2>3, PathsUnfold
  <2>5. Len(starts) \in Nat /\ DOMAIN starts = 1..Len(starts)
    BY <2>2
  <2>6. ASSUME NEW k \in DOMAIN starts PROVE sec(k) \in SectionsOf(c)
    <3>1. starts[k] \in 1..n
      BY <2>2
    <3>2. end(k) \in Nat /\ starts[k] <= end(k) + 1 /\ end(k) <= n
      <4>1. CASE k = Len(starts)
        BY <2>2, <3>1, <4>1
      <4>2. CASE k # Len(starts)
        <5>1. k + 1 \in DOMAIN starts /\ k < k + 1
          BY <2>5, <4>2
        <5>2. starts[k + 1] \in 1..n /\ starts[k] < starts[k + 1]
          BY <2>2, <5>1
        <5> QED
          BY <2>2, <3>1, <4>2, <5>2
      <4> QED
        BY <4>1, <4>2
    <3>3. PathsOf(c, starts)[k] \in Seq(Seq(STRING))
      BY <2>4, <2>5
    <3> HIDE DEF end
    <3>4. 1 <= starts[k] /\ starts[k] \in Nat
      BY <2>2, <3>1
    <3> QED
      BY <3>2, <3>3, <3>4, SectionType DEF n
  <2> HIDE DEF sec
  <2> QED
    BY <2>1, <2>5, <2>6
<1> QED
  BY <1>1, <1>2

LEMMA SectionIs ==
  ASSUME NEW c \in Contents, NEW s \in SectionsOf(c)
  PROVE  /\ s.from \in Nat /\ s.to \in Nat /\ s.stripped \in BOOLEAN /\ s.path \in Seq(Seq(STRING))
         /\ 1 <= s.from /\ s.from <= s.to + 1 /\ s.to <= Len(c.body)
         /\ Len(c.body) \in Nat /\ DOMAIN c.body = 1..Len(c.body)
<1>1. c.body \in Seq(Lines)
  BY ContentIs
<1> QED
  BY <1>1 DEF SectionsOf

\* rstrip() drops the blank lines at the end of a section and nothing else.
LEMMA LastLineIs ==
  ASSUME NEW c \in Contents, NEW s \in SectionsOf(c)
  PROVE  /\ LastLine(c, s) \in (s.from - 1)..s.to
         /\ \A k \in s.from..s.to : c.body[k].kind # "blank" => k <= LastLine(c, s)
<1>1. s.from \in Nat /\ s.to \in Nat /\ 1 <= s.from /\ s.from <= s.to + 1
  BY SectionIs
<1>2. CASE ~ s.stripped
  BY <1>1, <1>2 DEF LastLine
<1>3. CASE s.stripped
  <2> DEFINE I == (s.from - 1)..s.to
             kept(i) == i = s.from - 1 \/ c.body[i].kind # "blank"
             P(i) == kept(i) /\ \A k \in (i + 1)..s.to : c.body[k].kind = "blank"
             E == {i \in I : kept(i)}
  <2>1. LastLine(c, s) = CHOOSE i \in I : P(i)
    BY <1>3 DEF LastLine
  <2>2. E \in SUBSET Int /\ E # {} /\ s.to \in Int /\ \A i \in E : i <= s.to
    <3>1. s.from - 1 \in E
      BY <1>1
    <3> QED
      BY <1>1, <3>1
  <2>3. PICK i \in E : \A j \in E : j <= i
    <3> HIDE DEF E
    <3> QED
      BY <2>2, BoundedMax, Zenon
  <2>4. i \in I /\ P(i)
    <3>1. ASSUME NEW k \in (i + 1)..s.to PROVE c.body[k].kind = "blank"
      <4>1. k \in I /\ ~(k <= i)
        BY <1>1, <2>3
      <4> QED
        BY <2>3, <4>1
    <3> QED
      BY <2>3, <3>1
  <2>5. LastLine(c, s) \in I /\ P(LastLine(c, s))
    <3> HIDE DEF P, I
    <3> QED
      BY <2>1, <2>4
  <2> QED
    BY <1>1, <2>5
<1> QED
  BY <1>2, <1>3

\* The last line end, if the text ends before it.
Cut(c, s) ==
    IF LastLine(c, s) >= s.from /\ (s.stripped \/ ~ c.ended) THEN c.body[LastLine(c, s)].eol ELSE 0

\* Characters of the section: where its line i begins.
At(c, s, i) == CharOf(c.body, i) - CharOf(c.body, s.from)

LEMMA AtGrows ==
  ASSUME NEW c \in Contents, NEW s \in SectionsOf(c)
  PROVE  /\ At(c, s, s.from) = 0
         /\ \A i \in 1..(Len(c.body) + 1) : At(c, s, i) \in Int
         /\ \A i \in s.from..(Len(c.body) + 1) : At(c, s, i) \in Nat
         /\ \A i \in 1..Len(c.body) : At(c, s, i + 1) = At(c, s, i) + c.body[i].width
         /\ \A i, j \in 1..(Len(c.body) + 1) : i <= j => At(c, s, i) <= At(c, s, j)
         /\ \A i \in 1..Len(c.body) :
               /\ c.body[i].width \in Nat /\ c.body[i].width >= 1
               /\ c.body[i].eol \in 1..2 /\ c.body[i].width >= c.body[i].eol
<1> DEFINE body == c.body
<1>1. body \in Seq(Lines) /\ Len(body) \in Nat
  BY ContentIs
<1>2. /\ \A i \in 1..(Len(body) + 1) : CharOf(body, i) \in Nat
      /\ \A i \in 1..Len(body) : CharOf(body, i + 1) = CharOf(body, i) + body[i].width
      /\ \A i, j \in 1..(Len(body) + 1) : i <= j => CharOf(body, i) <= CharOf(body, j)
  BY <1>1, CharGrows
<1>3. s.from \in 1..(Len(body) + 1)
  BY <1>1, SectionIs
<1>4. \A i \in 1..Len(body) : /\ body[i].width \in Nat /\ body[i].width >= 1
                             /\ body[i].eol \in 1..2 /\ body[i].width >= body[i].eol
  BY <1>1, LineIsLine
<1> HIDE DEF body
<1>5. \A i \in 1..(Len(body) + 1) : At(c, s, i) = CharOf(body, i) - CharOf(body, s.from)
  BY DEF At, body
<1>6. ASSUME NEW i \in 1..Len(body) PROVE At(c, s, i + 1) = At(c, s, i) + body[i].width
  <2>1. i + 1 \in 1..(Len(body) + 1) /\ i \in 1..(Len(body) + 1)
    BY <1>1
  <2>2. CharOf(body, i + 1) = CharOf(body, i) + body[i].width /\ CharOf(body, i) \in Nat /\ CharOf(body, s.from) \in Nat
    BY <1>2, <1>3, <2>1
  <2> QED
    BY <1>4, <1>5, <2>1, <2>2
<1>7. ASSUME NEW i \in s.from..(Len(body) + 1) PROVE At(c, s, i) \in Nat
  <2>1. i \in 1..(Len(body) + 1) /\ s.from <= i
    BY <1>1, <1>3
  <2>2. CharOf(body, s.from) <= CharOf(body, i) /\ CharOf(body, i) \in Nat /\ CharOf(body, s.from) \in Nat
    BY <1>2, <1>3, <2>1
  <2> QED
    BY <1>5, <2>1, <2>2
<1>8. ASSUME NEW i \in 1..(Len(body) + 1), NEW j \in 1..(Len(body) + 1), i <= j PROVE At(c, s, i) <= At(c, s, j)
  <2>1. CharOf(body, i) <= CharOf(body, j) /\ CharOf(body, i) \in Nat /\ CharOf(body, j) \in Nat /\ CharOf(body, s.from) \in Nat
    BY <1>2, <1>3, <1>8
  <2> QED
    BY <1>5, <2>1
<1>9. At(c, s, s.from) = 0 /\ \A i \in 1..(Len(body) + 1) : At(c, s, i) \in Int
  BY <1>2, <1>3, <1>5
<1> QED
  BY <1>4, <1>6, <1>7, <1>8, <1>9 DEF body

\* The text of a section, line by line.
LEMMA TextIs ==
  ASSUME NEW c \in Contents, NEW s \in SectionsOf(c)
  PROVE  LET t == TextOf(c, s)
             last == LastLine(c, s)
         IN  /\ t \in Texts
             /\ t.len = At(c, s, last + 1) - Cut(c, s)
             /\ t.newlines = {p \in {At(c, s, i + 1) - 1 : i \in s.from..last} : p < t.len}
             /\ t.returns = {p \in {At(c, s, i + 1) - 2 : i \in {k \in s.from..last : c.body[k].eol = 2}} :
                               p < t.len}
             /\ t.blanks = t.newlines \cup t.returns
                              \cup {At(c, s, i) : i \in {k \in s.from..last : Is(c.body, Indented, k)}}
<1> DEFINE last == LastLine(c, s)
           len == At(c, s, last + 1) - Cut(c, s)
           ends == {p \in {At(c, s, i + 1) - 1 : i \in s.from..last} : p < len}
           returns == {p \in {At(c, s, i + 1) - 2 : i \in {k \in s.from..last : c.body[k].eol = 2}} : p < len}
           indents == {At(c, s, i) : i \in {k \in s.from..last : Is(c.body, Indented, k)}}
<1>1. TextOf(c, s) = [len |-> len, newlines |-> ends, returns |-> returns,
                      blanks |-> ends \cup returns \cup indents]
  BY DEF TextOf, At, Cut
<1>2. /\ s.from \in Nat /\ 1 <= s.from /\ s.to <= Len(c.body) /\ Len(c.body) \in Nat /\ s.to \in Nat
      /\ last \in (s.from - 1)..s.to
  BY SectionIs, LastLineIs
<1>3. \A i \in s.from..last :
         /\ At(c, s, i) \in Nat /\ At(c, s, i + 1) - 1 \in Nat
         /\ c.body[i].eol \in 1..2 /\ At(c, s, i + 1) - c.body[i].eol \in Nat
  <2> SUFFICES ASSUME NEW i \in s.from..last
               PROVE  /\ At(c, s, i) \in Nat /\ At(c, s, i + 1) - 1 \in Nat
                      /\ c.body[i].eol \in 1..2 /\ At(c, s, i + 1) - c.body[i].eol \in Nat
    OBVIOUS
  <2>1. i \in s.from..(Len(c.body) + 1) /\ i \in 1..Len(c.body)
    BY <1>2
  <2>2. At(c, s, i) \in Nat /\ At(c, s, i + 1) = At(c, s, i) + c.body[i].width /\ c.body[i].width \in Nat
        /\ c.body[i].eol \in 1..2 /\ c.body[i].width >= c.body[i].eol
    BY <2>1, AtGrows
  <2> QED
    BY <2>2
<1>4. len \in Nat
  <2>1. CASE last >= s.from
    <3>1. last \in s.from..last
      BY <1>2, <2>1
    <3>2. At(c, s, last + 1) - 1 \in Nat /\ At(c, s, last + 1) - c.body[last].eol \in Nat
      BY <1>3, <3>1
    <3>3. At(c, s, last + 1) \in Int
      BY <1>2, AtGrows
    <3> QED
      BY <3>2, <3>3 DEF Cut
  <2>2. CASE ~(last >= s.from)
    <3>1. last + 1 = s.from
      BY <1>2, <2>2
    <3>2. At(c, s, last + 1) = 0
      BY <3>1, AtGrows
    <3>3. Cut(c, s) = 0
      BY <2>2 DEF Cut
    <3> QED
      BY <3>2, <3>3
  <2> QED
    BY <2>1, <2>2
<1> HIDE DEF len, last
<1>5. ends \in SUBSET Nat /\ returns \in SUBSET Nat /\ indents \in SUBSET Nat
  <2>1. \A i \in s.from..last : c.body[i].eol = 2 => At(c, s, i + 1) - 2 \in Nat
    BY <1>3
  <2> QED
    BY <1>3, <2>1
<1> HIDE DEF ends, returns, indents
<1>6. TextOf(c, s) \in Texts
  BY <1>1, <1>4, <1>5 DEF Texts
<1>7. /\ TextOf(c, s).len = len /\ TextOf(c, s).newlines = ends /\ TextOf(c, s).returns = returns
      /\ TextOf(c, s).blanks = ends \cup returns \cup indents
  BY <1>1
<1> QED
  BY <1>6, <1>7 DEF len, ends, returns, indents, last

-----------------------------------------------------------------------------
\* Protected ranges: in characters as line_to_char counts them.

Counts(c, s, i) == line_to_char(c.body, s.from, i)

LEMMA CountsBehind ==
  ASSUME NEW c \in Contents, NEW s \in SectionsOf(c)
  PROVE  /\ Counts(c, s, s.from) = 0
         /\ \A i \in 1..(Len(c.body) + 1) : Counts(c, s, i) \in Int
         /\ \A i \in s.from..(Len(c.body) + 1) :
               Counts(c, s, i) \in Nat /\ Counts(c, s, i) <= At(c, s, i)
         /\ \A i, j \in 1..(Len(c.body) + 1) : i <= j => Counts(c, s, i) <= Counts(c, s, j)
         /\ \A i, j \in 1..(Len(c.body) + 1) : i < j => Counts(c, s, i) < Counts(c, s, j)
<1> DEFINE body == c.body
           cb == Counted(body)
           n == Len(body)
           f == s.from
<1>1. body \in Seq(Lines) /\ n \in Nat /\ f \in 1..(n + 1)
  BY ContentIs, SectionIs
<1>2. cb \in Seq(Lines) /\ Len(cb) = n
  BY <1>1, CountedLines
<1>3. /\ \A i \in 1..(n + 1) : CharOf(cb, i) \in Nat
      /\ \A i \in 1..n : CharOf(cb, i + 1) = CharOf(cb, i) + cb[i].width
      /\ \A i, j \in 1..(n + 1) : i <= j => CharOf(cb, i) <= CharOf(cb, j)
      /\ \A i \in 1..n : cb[i].width \in Nat /\ cb[i].width >= 1
  <2>1. \A i \in 1..n : cb[i].width \in Nat /\ cb[i].width >= 1
    <3>1. \A i \in 1..n : cb[i] \in Lines
      BY <1>2
    <3> QED
      BY <3>1, LineIsLine
  <2>2. /\ \A i \in 1..(Len(cb) + 1) : CharOf(cb, i) \in Nat
        /\ \A i \in 1..Len(cb) : CharOf(cb, i + 1) = CharOf(cb, i) + cb[i].width
        /\ \A i, j \in 1..(Len(cb) + 1) : i <= j => CharOf(cb, i) <= CharOf(cb, j)
    BY <1>2, CharGrows
  <2> HIDE DEF cb, n
  <2> QED
    BY <1>2, <2>1, <2>2
<1>4. \A i : Counts(c, s, i) = CharOf(cb, i) - CharOf(cb, f)
  BY DEF Counts, line_to_char
<1>5. ASSUME NEW i \in f..(n + 1) PROVE Counts(c, s, i) \in Nat /\ Counts(c, s, i) <= At(c, s, i)
  <2> DEFINE crlf == {k \in f..(i - 1) : body[k].eol = 2}
  <2>1. /\ Cardinality(crlf) \in Nat /\ Counts(c, s, i) \in Nat
        /\ Counts(c, s, i) = At(c, s, i) - Cardinality(crlf)
    BY <1>1, DriftIs DEF Counts, At
  <2>2. At(c, s, i) \in Nat
    BY AtGrows
  <2> HIDE DEF crlf
  <2> QED
    BY <2>1, <2>2
<1> HIDE DEF body, cb, n, f
<1>6. \A i \in 1..(n + 1) : Counts(c, s, i) \in Int
  BY <1>1, <1>3, <1>4
<1>7. ASSUME NEW i \in 1..(n + 1), NEW j \in 1..(n + 1), i <= j PROVE Counts(c, s, i) <= Counts(c, s, j)
  <2>1. CharOf(cb, i) <= CharOf(cb, j) /\ CharOf(cb, i) \in Nat /\ CharOf(cb, j) \in Nat /\ CharOf(cb, f) \in Nat
    BY <1>1, <1>3, <1>7
  <2> QED
    BY <1>4, <2>1
<1>8. ASSUME NEW i \in 1..(n + 1), NEW j \in 1..(n + 1), i < j PROVE Counts(c, s, i) < Counts(c, s, j)
  <2>1. i \in 1..n /\ i + 1 \in 1..(n + 1) /\ i + 1 <= j
    BY <1>1, <1>8
  <2>2. CharOf(cb, i + 1) = CharOf(cb, i) + cb[i].width /\ cb[i].width \in Nat /\ cb[i].width >= 1
    BY <1>3, <2>1
  <2>3. CharOf(cb, i) \in Nat /\ CharOf(cb, i + 1) \in Nat /\ CharOf(cb, j) \in Nat /\ CharOf(cb, f) \in Nat
        /\ CharOf(cb, i + 1) <= CharOf(cb, j)
    BY <1>1, <1>3, <2>1
  <2>4. CharOf(cb, i) < CharOf(cb, j)
    BY <2>2, <2>3
  <2> QED
    BY <1>4, <2>3, <2>4
<1>9. Counts(c, s, f) = 0
  BY <1>1, <1>3, <1>4
<1> QED
  BY <1>5, <1>6, <1>7, <1>8, <1>9 DEF body, n, f

Blocks(c, s) ==
    {b \in c.code_blocks \cup c.tables \cup c.list_items :
        b[1] >= s.from /\ b[1] <= LastLine(c, s) + IF s.stripped \/ ~ c.ended THEN 0 ELSE 1}

RangeOf(c, s, b) ==
    <<IF b[1] <= LastLine(c, s) THEN Counts(c, s, b[1]) ELSE 0,
      IF b[2] + 1 <= LastLine(c, s) THEN Counts(c, s, b[2] + 1) ELSE TextOf(c, s).len>>

LEMMA ProtectedIs ==
  ASSUME NEW c \in Contents, NEW s \in SectionsOf(c)
  PROVE  ProtectedOf(c, s) = InOrder({r \in {RangeOf(c, s, b) : b \in Blocks(c, s)} : r[1] < r[2]})
  BY DEF ProtectedOf, RangeOf, Blocks, Counts

LEMMA RangeIs ==
  ASSUME NEW c \in Contents, NEW s \in SectionsOf(c), NEW b \in Blocks(c, s), NEW r, r = RangeOf(c, s, b), r[1] < r[2]
  PROVE  r \in (0..TextOf(c, s).len) \X (0..TextOf(c, s).len)
<1> DEFINE last == LastLine(c, s)
           len == TextOf(c, s).len
           x == IF b[1] <= last THEN Counts(c, s, b[1]) ELSE 0
           y == IF b[2] + 1 <= last THEN Counts(c, s, b[2] + 1) ELSE len
<1>1. r = <<x, y>>
  BY DEF RangeOf
<1>2. b[1] \in Nat /\ b[2] \in Nat /\ b[1] >= s.from
  BY ContentIs DEF Blocks
<1>3. /\ s.from \in Nat /\ 1 <= s.from /\ s.to <= Len(c.body) /\ Len(c.body) \in Nat /\ s.to \in Nat
      /\ last \in (s.from - 1)..s.to
  BY SectionIs, LastLineIs
<1>4. len \in Nat /\ len = At(c, s, last + 1) - Cut(c, s)
  BY TextIs DEF Texts
<1>5. ASSUME NEW i \in s.from..last PROVE Counts(c, s, i) \in Nat /\ Counts(c, s, i) <= len
  <2>1. /\ i \in s.from..(Len(c.body) + 1) /\ i \in 1..(Len(c.body) + 1) /\ i <= last
        /\ last \in 1..Len(c.body) /\ last \in 1..(Len(c.body) + 1)
    BY <1>3
  <2>2. Counts(c, s, i) \in Nat /\ Counts(c, s, i) <= At(c, s, i)
    BY <2>1, CountsBehind
  <2>3. At(c, s, i) <= At(c, s, last) /\ At(c, s, i) \in Int /\ At(c, s, last) \in Int
    BY <2>1, AtGrows
  <2>4. /\ At(c, s, last + 1) = At(c, s, last) + c.body[last].width
        /\ c.body[last].width \in Nat /\ c.body[last].eol \in 1..2 /\ c.body[last].width >= c.body[last].eol
    BY <2>1, AtGrows
  <2>5. Cut(c, s) \in Int /\ Cut(c, s) <= c.body[last].width
    BY <2>4 DEF Cut
  <2> QED
    BY <1>4, <2>2, <2>3, <2>4, <2>5
<1> HIDE DEF last, len
<1>6. x \in 0..len
  <2>1. CASE b[1] <= last
    <3>1. b[1] \in s.from..last
      BY <1>2, <1>3, <2>1
    <3> QED
      BY <1>4, <1>5, <2>1, <3>1
  <2>2. CASE ~(b[1] <= last)
    BY <1>4, <2>2
  <2> QED
    BY <2>1, <2>2
<1>7. y \in Int /\ y <= len
  <2>1. CASE b[2] + 1 <= last /\ b[2] + 1 >= s.from
    <3>1. b[2] + 1 \in s.from..last
      BY <1>2, <1>3, <2>1
    <3>2. y = Counts(c, s, b[2] + 1)
      BY <2>1
    <3> HIDE DEF y
    <3> QED
      BY <1>4, <1>5, <3>1, <3>2
  <2>2. CASE b[2] + 1 <= last /\ ~(b[2] + 1 >= s.from)
    <3>1. b[2] + 1 \in 1..(Len(c.body) + 1) /\ s.from \in 1..(Len(c.body) + 1) /\ b[2] + 1 <= s.from
      BY <1>2, <1>3, <2>2
    <3>2. Counts(c, s, b[2] + 1) \in Int /\ Counts(c, s, b[2] + 1) <= Counts(c, s, s.from)
          /\ Counts(c, s, s.from) = 0
      BY <3>1, CountsBehind
    <3>3. y = Counts(c, s, b[2] + 1)
      BY <2>2
    <3> HIDE DEF y
    <3> QED
      BY <1>4, <3>2, <3>3
  <2>3. CASE ~(b[2] + 1 <= last)
    BY <1>4, <2>3
  <2> QED
    BY <2>1, <2>2, <2>3
<1> HIDE DEF x, y
<1>8. x < y
  BY <1>1
<1>9. y \in 0..len
  BY <1>4, <1>6, <1>7, <1>8
<1> QED
  BY <1>1, <1>6, <1>9 DEF len

\* The protected ranges are ranges of the section's text, and every block that shows has one.
LEMMA ProtectedType ==
  ASSUME NEW c \in Contents, NEW s \in SectionsOf(c)
  PROVE  /\ ProtectedOf(c, s) \in RangesOf(TextOf(c, s))
         /\ \A b \in Blocks(c, s) :
              RangeOf(c, s, b)[1] < RangeOf(c, s, b)[2]
                => \E i \in DOMAIN ProtectedOf(c, s) : ProtectedOf(c, s)[i] = RangeOf(c, s, b)
<1> DEFINE len == TextOf(c, s).len
           S == {r \in {RangeOf(c, s, b) : b \in Blocks(c, s)} : r[1] < r[2]}
<1>1. len \in Nat
  BY TextIs DEF Texts
<1>2. S \in SUBSET ((0..len) \X (0..len))
  <2> SUFFICES ASSUME NEW r \in S PROVE r \in (0..len) \X (0..len)
    OBVIOUS
  <2>1. PICK b \in Blocks(c, s) : r = RangeOf(c, s, b)
    OBVIOUS
  <2>2. r[1] < r[2]
    OBVIOUS
  <2> HIDE DEF S
  <2> QED
    BY <2>1, <2>2, RangeIs
<1>3. \A r \in S : r[1] < r[2]
  OBVIOUS
<1>4. \A b \in Blocks(c, s) : RangeOf(c, s, b)[1] < RangeOf(c, s, b)[2] => RangeOf(c, s, b) \in S
  OBVIOUS
<1>5. ProtectedOf(c, s) = InOrder(S)
  BY ProtectedIs
<1> HIDE DEF S, len
<1>6. InOrder(S) \in Seq(S) /\ \A r \in S : \E k \in DOMAIN InOrder(S) : InOrder(S)[k] = r
  BY <1>1, <1>2, InOrderHoldsAll
<1> DEFINE q == InOrder(S)
           R == (0..len) \X (0..len)
<1>7. q \in Seq(R) /\ \A i \in DOMAIN q : q[i][1] < q[i][2]
  <2>1. q \in Seq(S) /\ S \in SUBSET R
    BY <1>2, <1>6
  <2> HIDE DEF q, R
  <2>2. q \in Seq(R)
    BY <2>1
  <2>3. \A i \in DOMAIN q : q[i] \in S
    BY <2>1
  <2> QED
    BY <1>3, <2>2, <2>3
<1>8. q \in RangesOf(TextOf(c, s))
  BY <1>7 DEF RangesOf, len
<1> QED
  BY <1>4, <1>5, <1>6, <1>8

-----------------------------------------------------------------------------
\* The chunker keeps to its types, and is the chunker of texts over sections.

\* Opening a section and sliding over it are the steps of the chunker run over any sections.
LEMMA ChunkingIsWindowing ==
  ASSUME ChunkerTypeOK, [Next]_vars
  PROVE  [WindowNext]_windowVars
<1>1. ASSUME NextSection PROVE WindowNext
  <2> DEFINE s == Head(sections)
  <2>1. s \in SectionsOf(content) /\ content \in Contents
    BY <1>1 DEF NextSection, ChunkerTypeOK
  <2>2. TextOf(content, s) \in Texts /\ ProtectedOf(content, s) \in RangesOf(TextOf(content, s))
    BY <2>1, TextIs, ProtectedType
  <2>3. scan # "scan" /\ Open(TextOf(content, s), ProtectedOf(content, s))
    BY <1>1 DEF NextSection
  <2> HIDE DEF s
  <2> QED
    BY <2>2, <2>3 DEF WindowNext
<1>2. ASSUME SlideWindow PROVE WindowNext
  BY <1>2 DEF SlideWindow, WindowNext
<1>3. ASSUME Parse \/ Finish \/ (\E r \in UnsupportedReason : Reject(r)) \/ UNCHANGED vars PROVE UNCHANGED windowVars
  BY <1>3 DEF Parse, Finish, Reject, vars
<1> QED
  BY <1>1, <1>2, <1>3 DEF Next

LEMMA NoneIsSection ==
  ASSUME NEW c \in Contents
  PROVE  None \in SectionsOf(c)
<1>1. c.body \in Seq(Lines) /\ <<>> \in Seq(Seq(STRING))
  BY ContentIs
<1>2. 1 \in Nat /\ 0 \in Nat /\ 1 <= 1 /\ 1 <= 0 + 1 /\ 0 <= Len(c.body) /\ FALSE \in BOOLEAN
  BY <1>1
<1> QED
  BY <1>1, <1>2, SectionType DEF None

\* What the chunker holds at any time: the first half of its invariant.
ChunkerState == ChunkerTypeOK /\ ContentIsParsed /\ TextIsCurrent

LEMMA ChunkerInit == Init => ChunkerState /\ InitIdle
<1> SUFFICES ASSUME Init PROVE ChunkerState /\ InitIdle
  OBVIOUS
<1>1. content \in Contents
  <2>1. <<>> \in Seq(Lines)
    OBVIOUS
  <2> QED
    BY <2>1, PlainType DEF Init
<1>2. current \in SectionsOf(content)
  BY <1>1, NoneIsSection DEF Init
<1>3. sections \in Seq(SectionsOf(content))
  BY DEF Init
<1>4. scan = "idle" /\ windows = <<>> /\ InitIdle
  BY DEF Init, InitIdle
<1> QED
  BY <1>1, <1>2, <1>3, <1>4 DEF Init, ChunkerState, ChunkerTypeOK, ContentIsParsed, TextIsCurrent

LEMMA ParseState ==
  ASSUME ChunkerState, Parse
  PROVE  ChunkerState'
<1>1. /\ doc' = doc /\ current' = current /\ content' = ParsedContent(doc) /\ sections' = split_by_heading(content')
      /\ UNCHANGED windowVars /\ status = "new" /\ status' = "chunking"
  BY DEF Parse
<1>2. doc \in Documents /\ current = None /\ scan = "idle"
  BY <1>1 DEF ChunkerState, ChunkerTypeOK, ContentIsParsed
<1>3. content' \in Contents
  BY <1>1, <1>2, ParsedContentType
<1>4. sections' \in Seq(SectionsOf(content')) /\ current' \in SectionsOf(content')
  BY <1>1, <1>2, <1>3, SplitType, NoneIsSection
<1>5. ChunkerTypeOK'
  BY <1>1, <1>2, <1>3, <1>4 DEF ChunkerTypeOK
<1>6. ContentIsParsed'
  BY <1>1 DEF ContentIsParsed
<1>7. TextIsCurrent'
  BY <1>1, <1>2 DEF ChunkerState, TextIsCurrent, windowVars
<1> QED
  BY <1>5, <1>6, <1>7 DEF ChunkerState

LEMMA NextSectionState ==
  ASSUME ChunkerState, NextSection
  PROVE  /\ ChunkerState' /\ scan' # "idle" /\ content' = content
         /\ content' \in Contents /\ current' \in SectionsOf(content')
<1>1. /\ doc' = doc /\ content' = content /\ status' = status /\ status = "chunking" /\ sections # <<>>
      /\ current' = Head(sections) /\ sections' = Tail(sections)
      /\ Open(TextOf(content, Head(sections)), ProtectedOf(content, Head(sections)))
  BY DEF NextSection
<1>2. /\ text' = TextOf(content, Head(sections)) /\ protected' = ProtectedOf(content, Head(sections))
      /\ scan' # "idle"
  BY <1>1 DEF Open
<1>3. current' \in SectionsOf(content) /\ sections' \in Seq(SectionsOf(content))
  <2>1. sections \in Seq(SectionsOf(content))
    BY DEF ChunkerState, ChunkerTypeOK
  <2> QED
    BY <1>1, <2>1
<1>4. ChunkerTypeOK'
  BY <1>1, <1>3 DEF ChunkerState, ChunkerTypeOK
<1>5. ContentIsParsed'
  BY <1>1 DEF ChunkerState, ContentIsParsed
<1>6. TextIsCurrent'
  BY <1>1, <1>2 DEF TextIsCurrent
<1> QED
  BY <1>1, <1>2, <1>3, <1>4, <1>5, <1>6 DEF ChunkerState, ChunkerTypeOK

LEMMA SlideState ==
  ASSUME ChunkerState, SlideWindow
  PROVE  ChunkerState' /\ UNCHANGED chunkerVars /\ scan # "idle" /\ scan' # "idle"
<1>1. /\ UNCHANGED chunkerVars /\ scan = "scan" /\ scan' \in {"scan", "done"}
      /\ text' = text /\ protected' = protected
  BY DEF SlideWindow, Slide, SkipBlank, EmitWindow, RunOut
<1>2. scan # "idle" /\ scan' # "idle"
  BY <1>1
<1>3. ChunkerTypeOK'
  BY <1>1 DEF ChunkerState, ChunkerTypeOK, chunkerVars
<1>4. ContentIsParsed'
  BY <1>1, <1>2 DEF ChunkerState, ContentIsParsed, chunkerVars
<1>5. TextIsCurrent'
  BY <1>1, <1>2 DEF ChunkerState, TextIsCurrent, chunkerVars
<1> QED
  BY <1>1, <1>2, <1>3, <1>4, <1>5 DEF ChunkerState

LEMMA RestState ==
  ASSUME ChunkerState,
         Finish \/ (\E r \in UnsupportedReason : Reject(r)) \/ UNCHANGED vars
  PROVE  ChunkerState'
<1>1. doc' = doc /\ content' = content /\ sections' = sections /\ current' = current /\ UNCHANGED windowVars
  BY DEF Finish, Reject, vars, chunkerVars
<1>2. ChunkerTypeOK' /\ TextIsCurrent'
  BY <1>1 DEF ChunkerState, ChunkerTypeOK, TextIsCurrent, windowVars
<1>3. ASSUME Finish PROVE ContentIsParsed'
  BY <1>1, <1>3 DEF ChunkerState, ContentIsParsed, Finish
<1>4. ASSUME NEW r \in UnsupportedReason, Reject(r) PROVE ContentIsParsed'
  <2>1. status = "new" /\ status' = r /\ chunks' = chunks /\ r \notin {"chunking", "done"}
    BY <1>4 DEF Reject, UnsupportedReason
  <2> QED
    BY <1>1, <2>1 DEF ChunkerState, ContentIsParsed, windowVars
<1>5. ASSUME UNCHANGED vars PROVE ContentIsParsed'
  BY <1>5 DEF ChunkerState, ContentIsParsed, vars, chunkerVars, windowVars
<1> QED
  BY <1>2, <1>3, <1>4, <1>5 DEF ChunkerState

(***************************************************************************)
(* The text being chunked and its protected ranges are those of the        *)
(* section, of the content the parser made of the document, and the types  *)
(* hold, for every document and every configuration.                       *)
(***************************************************************************)
THEOREM ChunkerStateHolds == Spec => []ChunkerState
<1>1. Init => ChunkerState
  BY ChunkerInit
<1>2. ChunkerState /\ [Next]_vars => ChunkerState'
  BY ParseState, NextSectionState, SlideState, RestState DEF Next
<1> QED
  BY <1>1, <1>2, PTL DEF Spec

(***************************************************************************)
(* The chunker of documents implements the chunker of texts: the text and  *)
(* the ranges of a section are a text and ranges of it, whatever the       *)
(* parser found.                                                           *)
(***************************************************************************)
THEOREM ChunkerImplementsWindows == Spec => WindowSpec
<1>1. Init => InitIdle
  BY ChunkerInit
<1>2. ChunkerState /\ [Next]_vars => [WindowNext]_windowVars
  BY ChunkingIsWindowing DEF ChunkerState
<1> QED
  BY <1>1, <1>2, ChunkerStateHolds, PTL DEF Spec, WindowSpec

(***************************************************************************)
(* No visible character of a document's section is lost between chunks.    *)
(***************************************************************************)
THEOREM DocumentsKeepText == Spec => []TextIsKept
  BY ChunkerImplementsWindows, ChunksKeepText, PTL

-----------------------------------------------------------------------------
\* The line numbers of a chunk.

\* Character q of the section's text is a visible one of line i.
ShownOn(c, s, i, q) ==
    /\ At(c, s, i) + (IF Is(c.body, Indented, i) THEN 1 ELSE 0) <= q
    /\ q <= At(c, s, i + 1) - c.body[i].eol - 1

\* Lines that follow one another do not overlap.
LEMMA LinesApart ==
  ASSUME NEW c \in Contents, NEW s \in SectionsOf(c), NEW i \in 1..Len(c.body)
  PROVE  /\ \A j \in 1..Len(c.body) : j < i => At(c, s, j + 1) <= At(c, s, i)
         /\ \A j \in 1..Len(c.body) : i < j => At(c, s, i + 1) <= At(c, s, j)
         /\ At(c, s, i) \in Int /\ At(c, s, i + 1) \in Int /\ At(c, s, i) + 1 <= At(c, s, i + 1)
         /\ c.body[i].eol \in 1..2 /\ At(c, s, i) + c.body[i].eol <= At(c, s, i + 1)
<1>0. Len(c.body) \in Nat
  BY SectionIs
<1>1. ASSUME NEW j \in 1..Len(c.body), j < i PROVE At(c, s, j + 1) <= At(c, s, i)
  <2>1. j + 1 \in 1..(Len(c.body) + 1) /\ i \in 1..(Len(c.body) + 1) /\ j + 1 <= i
    BY <1>0, <1>1
  <2> QED
    BY <2>1, AtGrows
<1>2. ASSUME NEW j \in 1..Len(c.body), i < j PROVE At(c, s, i + 1) <= At(c, s, j)
  <2>1. i + 1 \in 1..(Len(c.body) + 1) /\ j \in 1..(Len(c.body) + 1) /\ i + 1 <= j
    BY <1>0, <1>2
  <2> QED
    BY <2>1, AtGrows
<1>3. i \in 1..(Len(c.body) + 1) /\ i + 1 \in 1..(Len(c.body) + 1)
  BY <1>0
<1>4. /\ At(c, s, i) \in Int /\ At(c, s, i + 1) \in Int /\ At(c, s, i + 1) = At(c, s, i) + c.body[i].width
      /\ c.body[i].width \in Nat /\ c.body[i].eol \in 1..2 /\ c.body[i].width >= c.body[i].eol
  BY <1>3, AtGrows
<1> QED
  BY <1>1, <1>2, <1>4

LEMMA ShownIsBetween ==
  ASSUME NEW c \in Contents, NEW s \in SectionsOf(c), NEW i \in 1..Len(c.body), NEW q \in Nat,
         ShownOn(c, s, i, q)
  PROVE  /\ At(c, s, i) <= q /\ q < At(c, s, i + 1) - c.body[i].eol /\ c.body[i].eol \in 1..2
         /\ Is(c.body, Indented, i) => At(c, s, i) < q
<1> DEFINE x == At(c, s, i)
           y == At(c, s, i + 1)
           n == c.body[i].eol
           indented == Is(c.body, Indented, i)
<1>1. x \in Int /\ y \in Int /\ n \in 1..2
  BY LinesApart
<1>2. x + (IF indented THEN 1 ELSE 0) <= q /\ q <= y - n - 1
  BY DEF ShownOn
<1> HIDE DEF x, y, n, indented
<1>3. x <= q /\ q < y - n /\ n \in 1..2 /\ (indented => x < q)
  BY <1>1, <1>2
<1> QED
  BY <1>3 DEF x, y, n, indented

\* A character that a line shows is on a line of the section, and no white space.
LEMMA ShownIsVisible ==
  ASSUME NEW c \in Contents, NEW s \in SectionsOf(c), NEW i \in 1..Len(c.body), NEW q \in Nat,
         q < TextOf(c, s).len, ShownOn(c, s, i, q)
  PROVE  i \in s.from..LastLine(c, s) /\ q \notin TextOf(c, s).blanks
<1> DEFINE n == Len(c.body)
           last == LastLine(c, s)
           len == TextOf(c, s).len
<1>1. /\ s.from \in Nat /\ 1 <= s.from /\ s.to <= n /\ n \in Nat /\ s.to \in Nat
      /\ last \in (s.from - 1)..s.to
  BY SectionIs, LastLineIs
<1>2. len \in Nat /\ len = At(c, s, last + 1) - Cut(c, s) /\ Cut(c, s) \in 0..2
  <2>1. len \in Nat /\ len = At(c, s, last + 1) - Cut(c, s)
    BY TextIs DEF Texts
  <2>2. last >= s.from => last \in 1..n
    BY <1>1
  <2>3. last >= s.from => c.body[last].eol \in 1..2
    BY <2>2, AtGrows
  <2> QED
    BY <2>1, <2>3 DEF Cut
<1>3. /\ At(c, s, i) <= q /\ q < At(c, s, i + 1) - c.body[i].eol /\ c.body[i].eol \in 1..2
      /\ Is(c.body, Indented, i) => At(c, s, i) < q
  BY ShownIsBetween
<1>4. At(c, s, i) \in Int /\ At(c, s, i + 1) \in Int
  BY LinesApart
<1> HIDE DEF n, last, len
<1>5. s.from <= i
  <2> SUFFICES ASSUME ~(s.from <= i) PROVE FALSE
    OBVIOUS
  <2>1. i + 1 \in 1..(n + 1) /\ s.from \in 1..(n + 1) /\ i + 1 <= s.from
    BY <1>1 DEF n
  <2>2. At(c, s, i + 1) <= At(c, s, s.from) /\ At(c, s, s.from) = 0
    BY <2>1, AtGrows DEF n
  <2> QED
    BY <1>3, <1>4, <2>2
<1>6. i <= last
  <2> SUFFICES ASSUME ~(i <= last) PROVE FALSE
    OBVIOUS
  <2>1. last + 1 \in 1..(n + 1) /\ i \in 1..(n + 1) /\ last + 1 <= i
    BY <1>1 DEF n
  <2>2. At(c, s, last + 1) <= At(c, s, i) /\ At(c, s, last + 1) \in Int
    BY <2>1, AtGrows DEF n
  <2>3. q < len
    BY DEF len
  <2> QED
    BY <1>2, <1>3, <1>4, <2>2, <2>3
<1>7. ASSUME NEW j \in s.from..last PROVE q # At(c, s, j + 1) - 1
  <2>1. j \in 1..n
    BY <1>1
  <2>2. At(c, s, j) \in Int /\ At(c, s, j + 1) \in Int /\ At(c, s, j) + 1 <= At(c, s, j + 1)
    BY <2>1, LinesApart DEF n
  <2>3. /\ j < i => At(c, s, j + 1) <= At(c, s, i)
        /\ i < j => At(c, s, i + 1) <= At(c, s, j)
    BY <2>1, LinesApart DEF n
  <2>4. j < i \/ j = i \/ i < j
    BY <1>1
  <2> DEFINE x == At(c, s, i)  y == At(c, s, i + 1)  u == At(c, s, j)  v == At(c, s, j + 1)
             l == c.body[i].eol
  <2>5. /\ x <= q /\ q < y - l /\ l \in 1..2 /\ x \in Int /\ y \in Int /\ u \in Int /\ v \in Int
        /\ u + 1 <= v
        /\ (v <= x \/ j = i \/ y <= u)
    BY <1>3, <1>4, <2>2, <2>3, <2>4
  <2>6. j = i => u = x /\ v = y
    OBVIOUS
  <2> HIDE DEF x, y, u, v, l
  <2>7. q # v - 1
    BY <2>5, <2>6
  <2> QED
    BY <2>7 DEF v
<1>8. ASSUME NEW j \in s.from..last, Is(c.body, Indented, j) PROVE q # At(c, s, j)
  <2>1. j \in 1..n
    BY <1>1
  <2>2. At(c, s, j) \in Int /\ At(c, s, j + 1) \in Int /\ At(c, s, j) + 1 <= At(c, s, j + 1)
    BY <2>1, LinesApart DEF n
  <2>3. /\ j < i => At(c, s, j + 1) <= At(c, s, i)
        /\ i < j => At(c, s, i + 1) <= At(c, s, j)
    BY <2>1, LinesApart DEF n
  <2>4. j < i \/ j = i \/ i < j
    BY <1>1
  <2> QED
    BY <1>3, <1>4, <1>8, <2>2, <2>3, <2>4
<1>12. ASSUME NEW j \in s.from..last, c.body[j].eol = 2 PROVE q # At(c, s, j + 1) - 2
  <2>1. j \in 1..n
    BY <1>1
  <2>2. At(c, s, j) \in Int /\ At(c, s, j + 1) \in Int /\ At(c, s, j) + 2 <= At(c, s, j + 1)
    BY <1>12, <2>1, LinesApart DEF n
  <2>3. /\ j < i => At(c, s, j + 1) <= At(c, s, i)
        /\ i < j => At(c, s, i + 1) <= At(c, s, j)
    BY <2>1, LinesApart DEF n
  <2>4. j < i \/ j = i \/ i < j
    BY <1>1
  <2> QED
    BY <1>3, <1>4, <1>12, <2>2, <2>3, <2>4
<1>9. i \in s.from..last
  BY <1>1, <1>5, <1>6
<1> DEFINE ends == {At(c, s, j + 1) - 1 : j \in s.from..last}
           returns == {At(c, s, j + 1) - 2 : j \in {k \in s.from..last : c.body[k].eol = 2}}
           indents == {At(c, s, j) : j \in {k \in s.from..last : Is(c.body, Indented, k)}}
<1>10. q \notin ends /\ q \notin returns /\ q \notin indents
  BY <1>7, <1>8, <1>12
<1>11. TextOf(c, s).blanks \subseteq ends \cup returns \cup indents
  <2>1. TextOf(c, s).newlines \subseteq ends /\ TextOf(c, s).returns \subseteq returns
    BY TextIs DEF last
  <2>2. TextOf(c, s).blanks = TextOf(c, s).newlines \cup TextOf(c, s).returns \cup indents
    BY TextIs DEF last
  <2> QED
    BY <2>1, <2>2
<1> HIDE DEF ends, returns, indents
<1> QED
  BY <1>9, <1>10, <1>11 DEF last

LEMMA NewlinesFinite ==
  ASSUME NEW c \in Contents, NEW s \in SectionsOf(c)
  PROVE  IsFiniteSet(TextOf(c, s).newlines)
<1> DEFINE K == s.from..LastLine(c, s)
           F == {At(c, s, j + 1) - 1 : j \in K}
           g == [j \in K |-> At(c, s, j + 1) - 1]
<1>1. IsFiniteSet(K)
  <2>1. s.from \in Int /\ LastLine(c, s) \in Int
    BY SectionIs, LastLineIs
  <2> QED
    BY <2>1, FS_Interval
<1>2. g \in Surjection(K, F)
  <2>1. g \in [K -> F] /\ \A z \in F : \E j \in K : g[j] = z
    OBVIOUS
  <2> QED
    BY <2>1 DEF Surjection
<1>3. TextOf(c, s).newlines \in SUBSET F
  BY TextIs
<1> HIDE DEF K, F, g
<1>4. IsFiniteSet(F)
  BY <1>1, <1>2, FS_Surjection
<1> QED
  BY <1>3, <1>4, FS_Subset

\* Counting the newlines before a character gives the number of its line.
LEMMA NewlinesCountLines ==
  ASSUME NEW c \in Contents, NEW s \in SectionsOf(c), NEW i \in 1..Len(c.body), NEW q \in Nat,
         q < TextOf(c, s).len, ShownOn(c, s, i, q), NEW x \in Int, x <= q, NEW y \in Int, q < y
  PROVE  /\ s.from + Cardinality({z \in TextOf(c, s).newlines : z < x}) <= i
         /\ i <= s.from + Cardinality({z \in TextOf(c, s).newlines : z < y})
<1> DEFINE n == Len(c.body)
           last == LastLine(c, s)
           len == TextOf(c, s).len
           nl == TextOf(c, s).newlines
           end(j) == At(c, s, j + 1) - 1
           J == s.from..(i - 1)
           E == {end(j) : j \in J}
           f == [j \in J |-> end(j)]
<1>1. /\ s.from \in Nat /\ 1 <= s.from /\ s.to <= n /\ n \in Nat /\ s.to \in Nat
      /\ last \in (s.from - 1)..s.to /\ i \in s.from..last
  BY SectionIs, LastLineIs, ShownIsVisible
<1>2. nl = {z \in {end(j) : j \in s.from..last} : z < len} /\ len \in Nat
  BY TextIs DEF Texts
<1>3. /\ At(c, s, i) <= q /\ q < end(i)
      /\ At(c, s, i) \in Int /\ At(c, s, i + 1) \in Int
  <2>1. /\ At(c, s, i) <= q /\ q < At(c, s, i + 1) - c.body[i].eol /\ c.body[i].eol \in 1..2
        /\ At(c, s, i) \in Int /\ At(c, s, i + 1) \in Int
    BY ShownIsBetween, LinesApart
  <2> QED
    BY <2>1
<1>4. \A j \in s.from..last : end(j) \in Int /\ (j < i => end(j) < At(c, s, i)) /\ (i <= j => q < end(j))
  <2> SUFFICES ASSUME NEW j \in s.from..last
               PROVE  end(j) \in Int /\ (j < i => end(j) < At(c, s, i)) /\ (i <= j => q < end(j))
    OBVIOUS
  <2>1. j \in 1..n
    BY <1>1
  <2>2. /\ At(c, s, j) \in Int /\ At(c, s, j + 1) \in Int /\ At(c, s, j) + 1 <= At(c, s, j + 1)
        /\ j < i => At(c, s, j + 1) <= At(c, s, i)
        /\ i < j => At(c, s, i + 1) <= At(c, s, j)
    BY <2>1, LinesApart
  <2>3. j < i \/ j = i \/ i < j
    BY <1>1
  <2> QED
    BY <1>3, <2>2, <2>3
<1>5. \A j, k \in J : j < k => end(j) < end(k)
  <2> SUFFICES ASSUME NEW j \in J, NEW k \in J, j < k PROVE end(j) < end(k)
    OBVIOUS
  <2>1. j \in 1..n /\ k \in 1..n
    BY <1>1
  <2>2. At(c, s, j + 1) <= At(c, s, k) /\ At(c, s, k) + 1 <= At(c, s, k + 1)
        /\ At(c, s, j + 1) \in Int /\ At(c, s, k) \in Int /\ At(c, s, k + 1) \in Int
    BY <2>1, LinesApart
  <2> QED
    BY <2>2
<1>12. \A j \in J : j \in s.from..last /\ j \in Int /\ j < i
  BY <1>1
<1> HIDE DEF n, last, len, nl, end
<1>6. IsFiniteSet(E) /\ Cardinality(E) = i - s.from
  <2>1. IsFiniteSet(J) /\ Cardinality(J) = i - s.from
    <3>1. s.from \in Int /\ i - 1 \in Int /\ s.from <= i
      BY <1>1
    <3>2. IsFiniteSet(J) /\ Cardinality(J) = IF s.from > i - 1 THEN 0 ELSE (i - 1) - s.from + 1
      BY <3>1, FS_Interval
    <3> HIDE DEF J
    <3> QED
      BY <3>1, <3>2
  <2>2. \A j \in J : end(j) \in Int
    BY <1>4, <1>12
  <2>3. f \in [J -> E] /\ \A j \in J : f[j] = end(j)
    OBVIOUS
  <2>4. f \in Surjection(J, E)
    <3>1. \A z \in E : \E j \in J : f[j] = z
      OBVIOUS
    <3> QED
      BY <2>3, <3>1 DEF Surjection
  <2>5. f \in Injection(J, E)
    <3>1. \A j, k \in J : f[j] = f[k] => j = k
      <4> SUFFICES ASSUME NEW j \in J, NEW k \in J, end(j) = end(k), j # k PROVE FALSE
        BY <2>3
      <4>1. j < k \/ k < j
        BY <1>1
      <4>2. end(j) < end(k) \/ end(k) < end(j)
        BY <1>5, <4>1
      <4> QED
        BY <2>2, <4>2
    <3> QED
      BY <2>3, <3>1 DEF Injection, IsInjective
  <2> HIDE DEF f, E, J
  <2> QED
    BY <2>1, <2>4, <2>5, FS_Surjection
<1>7. IsFiniteSet(nl)
  BY NewlinesFinite DEF nl
<1> DEFINE Nx == {z \in nl : z < x}
           Ny == {z \in nl : z < y}
<1>8. Nx \in SUBSET E
  <2> SUFFICES ASSUME NEW z \in Nx PROVE z \in E
    OBVIOUS
  <2>1. PICK j \in s.from..last : z = end(j)
    BY <1>2
  <2>2. z < x /\ end(j) \in Int
    BY <1>4
  <2>3. j < i
    BY <1>1, <1>4, <2>1, <2>2
  <2>4. j \in J
    BY <1>1, <2>3
  <2> QED
    BY <2>1, <2>4
<1>9. E \in SUBSET Ny
  <2> SUFFICES ASSUME NEW z \in E PROVE z \in Ny
    OBVIOUS
  <2>1. PICK j \in J : z = end(j)
    OBVIOUS
  <2>2. j \in s.from..last /\ end(j) < At(c, s, i) /\ end(j) \in Int
    BY <1>4, <1>12
  <2>3. q < len
    BY DEF len
  <2>4. end(j) < len /\ end(j) < y
    BY <1>2, <1>3, <2>2, <2>3
  <2> QED
    BY <1>2, <2>1, <2>2, <2>4
<1>10. IsFiniteSet(Ny) /\ IsFiniteSet(Nx)
  BY <1>7, FS_Subset
<1> HIDE DEF Nx, Ny, E
<1>11. Cardinality(Nx) <= i - s.from /\ i - s.from <= Cardinality(Ny) /\ Cardinality(Nx) \in Nat /\ Cardinality(Ny) \in Nat
  BY <1>6, <1>8, <1>9, <1>10, FS_Subset, FS_CardinalityType
<1> QED
  BY <1>1, <1>11 DEF Nx, Ny, nl

\* The chunk that window k becomes.
ChunkOf(k) ==
    [path |-> current.path, section |-> current.from,
     from |-> CharOf(content.body, current.from) + windows[k].from,
     end |-> CharOf(content.body, current.from) + windows[k].end,
     start_locator |-> LineAt(windows[k].from), end_locator |-> LineAt(windows[k].last)]

LEMMA CurrentBegins ==
  ASSUME ChunkerState
  PROVE  /\ content \in Contents /\ current \in SectionsOf(content) /\ current.from \in Nat
         /\ CharOf(content.body, current.from) \in Nat
<1>1. content \in Contents /\ current \in SectionsOf(content)
  BY DEF ChunkerState, ChunkerTypeOK
<1>2. /\ current.from \in Nat /\ current.to \in Nat /\ Len(content.body) \in Nat /\ 1 <= current.from
      /\ current.from <= current.to + 1 /\ current.to <= Len(content.body)
  BY <1>1, SectionIs
<1>3. current.from \in 1..(Len(content.body) + 1)
  BY <1>2
<1>4. content.body \in Seq(Lines)
  BY <1>1, ContentIs
<1> QED
  BY <1>1, <1>2, <1>3, <1>4, CharGrows

LEMMA WindowIs ==
  ASSUME WindowIInv, NEW k \in DOMAIN windows
  PROVE  /\ windows[k].from \in Nat /\ windows[k].end \in Nat /\ windows[k].last \in Nat
         /\ windows[k].end <= text.len
         /\ \A p \in Visible(windows[k].from, windows[k].end) : p < windows[k].last
<1> DEFINE W == [from : Nat, end : Nat, last : Nat]
<1>1. windows \in Seq(W)
  BY DEF WindowIInv, WindowTypeOK
<1>2. windows[k] \in W
  <2> HIDE DEF W
  <2> QED
    BY <1>1
<1>3. windows[k].end <= text.len /\ \A p \in Visible(windows[k].from, windows[k].end) : p < windows[k].last
  BY DEF WindowIInv, WindowsKeepContent
<1> QED
  BY <1>2, <1>3

LEMMA ChunkType ==
  ASSUME ChunkerState, WindowIInv, NEW k \in DOMAIN windows
  PROVE  ChunkOf(k) \in Chunks
<1>1. /\ content \in Contents /\ current \in SectionsOf(content) /\ current.from \in Nat
      /\ CharOf(content.body, current.from) \in Nat
  BY CurrentBegins
<1>2. windows[k].from \in Nat /\ windows[k].end \in Nat /\ windows[k].last \in Nat
  BY WindowIs
<1>3. text = TextOf(content, current)
  BY DEF ChunkerState, TextIsCurrent
<1>4. ASSUME NEW p \in Nat PROVE LineAt(p) \in Nat
  <2>1. IsFiniteSet(text.newlines)
    BY <1>1, <1>3, NewlinesFinite
  <2> DEFINE S == {q \in text.newlines : q < p}
  <2>2. IsFiniteSet(S)
    BY <2>1, FS_Subset
  <2>3. Cardinality(S) \in Nat
    BY <2>2, FS_CardinalityType
  <2>4. LineAt(p) = current.from + Cardinality(S)
    BY DEF LineAt
  <2> HIDE DEF S
  <2> QED
    BY <1>1, <2>3, <2>4
<1>5. LineAt(windows[k].from) \in Nat /\ LineAt(windows[k].last) \in Nat
  BY <1>2, <1>4
<1>6. current.path \in Seq(Seq(STRING))
  BY <1>1, SectionIs
<1> DEFINE V == Seq(Seq(STRING))
<1>7. current.path \in V
  BY <1>6
<1>8. /\ CharOf(content.body, current.from) + windows[k].from \in Nat
      /\ CharOf(content.body, current.from) + windows[k].end \in Nat
  BY <1>1, <1>2
<1> HIDE DEF V
<1> QED
  BY <1>1, <1>5, <1>7, <1>8 DEF ChunkOf, Chunks, V

\* The chunks there were, and then one for each window.
LEMMA CollectedIs ==
  ASSUME ChunkerState, WindowIInv, chunks \in Seq(Chunks)
  PROVE  /\ Collected \in Seq(Chunks)
         /\ \A k \in DOMAIN Collected :
               \/ k \in DOMAIN chunks /\ Collected[k] = chunks[k]
               \/ \E j \in DOMAIN windows : Collected[k] = ChunkOf(j)
<1> DEFINE more == [k \in DOMAIN windows |-> ChunkOf(k)]
<1>1. Collected = chunks \o more
  BY DEF Collected, ChunkOf
<1>2. DOMAIN windows = 1..Len(windows) /\ Len(windows) \in Nat
  BY DEF WindowIInv, WindowTypeOK
<1>3. \A k \in DOMAIN windows : ChunkOf(k) \in Chunks
  BY ChunkType
<1>4. \A k \in DOMAIN more : more[k] = ChunkOf(k)
  OBVIOUS
<1>5. more \in Seq(Chunks) /\ DOMAIN more = DOMAIN windows
  BY <1>2, <1>3
<1> HIDE DEF more
<1> DEFINE U == Chunks
<1> HIDE DEF U
<1>6. chunks \in Seq(U) /\ more \in Seq(U)
  BY <1>5 DEF U
<1>7. /\ chunks \o more \in Seq(U) /\ DOMAIN (chunks \o more) = 1..(Len(chunks) + Len(more))
      /\ \A k \in DOMAIN (chunks \o more) :
            (chunks \o more)[k] = IF k <= Len(chunks) THEN chunks[k] ELSE more[k - Len(chunks)]
  BY <1>6
<1>8. ASSUME NEW k \in DOMAIN Collected
      PROVE  \/ k \in DOMAIN chunks /\ Collected[k] = chunks[k]
             \/ \E j \in DOMAIN windows : Collected[k] = ChunkOf(j)
  <2>1. Len(chunks) \in Nat /\ Len(more) \in Nat /\ DOMAIN chunks = 1..Len(chunks) /\ DOMAIN more = 1..Len(more)
    BY <1>6
  <2>2. k \in 1..(Len(chunks) + Len(more))
    BY <1>1, <1>7
  <2>3. CASE k <= Len(chunks)
    BY <1>1, <1>7, <2>1, <2>2, <2>3
  <2>4. CASE ~(k <= Len(chunks))
    <3>1. k - Len(chunks) \in DOMAIN more /\ Collected[k] = more[k - Len(chunks)]
      BY <1>1, <1>7, <2>1, <2>2, <2>4
    <3> QED
      BY <1>4, <1>5, <3>1
  <2> QED
    BY <2>3, <2>4
<1> QED
  BY <1>1, <1>7, <1>8 DEF U

LEMMA ChunkCovers ==
  ASSUME ChunkerState, WindowIInv, NEW k \in DOMAIN windows
  PROVE  CoversText(content.body, ChunkOf(k))
<1> DEFINE base == CharOf(content.body, current.from)
           w == windows[k]
<1>1. content \in Contents /\ current \in SectionsOf(content) /\ current.from \in Nat /\ base \in Nat
  BY CurrentBegins
<1>2. /\ w.from \in Nat /\ w.end \in Nat /\ w.last \in Nat /\ w.end <= text.len
      /\ \A p \in Visible(w.from, w.end) : p < w.last
  BY WindowIs
<1>3. text = TextOf(content, current) /\ text.len \in Nat
  <2>1. text = TextOf(content, current)
    BY DEF ChunkerState, TextIsCurrent
  <2> QED
    BY <1>1, <2>1, TextIs DEF Texts
<1>4. /\ ChunkOf(k).from = base + w.from /\ ChunkOf(k).end = base + w.end
      /\ ChunkOf(k).start_locator = current.from + Cardinality({z \in text.newlines : z < w.from})
      /\ ChunkOf(k).end_locator = current.from + Cardinality({z \in text.newlines : z < w.last})
  BY DEF ChunkOf, LineAt
<1> SUFFICES ASSUME NEW i \in DOMAIN content.body, NEW p \in FirstVisible(content.body, i)..LastVisible(content.body, i),
                    ChunkOf(k).from <= p, p < ChunkOf(k).end
             PROVE  ChunkOf(k).start_locator <= i /\ i <= ChunkOf(k).end_locator
  BY DEF CoversText
<1>5. i \in 1..Len(content.body) /\ Len(content.body) \in Nat /\ content.body \in Seq(Lines)
  BY <1>1, SectionIs, ContentIs
<1>6. /\ CharOf(content.body, i) \in Nat /\ CharOf(content.body, i + 1) \in Nat
      /\ At(content, current, i) = CharOf(content.body, i) - base
      /\ At(content, current, i + 1) = CharOf(content.body, i + 1) - base
  <2>1. i \in 1..(Len(content.body) + 1) /\ i + 1 \in 1..(Len(content.body) + 1)
    BY <1>5
  <2> QED
    BY <1>5, <2>1, CharGrows DEF At
<1> DEFINE q == p - base
<1>7. p \in Int /\ FirstVisible(content.body, i) <= p /\ p <= LastVisible(content.body, i)
  <2>1. content.body[i].eol \in Nat
    BY <1>5, LineIsLine
  <2>2. FirstVisible(content.body, i) \in Int /\ LastVisible(content.body, i) \in Int
    BY <1>6, <2>1 DEF FirstVisible, LastVisible
  <2> QED
    BY <2>2
<1>10. base + w.from <= p /\ p < base + w.end
  BY <1>4
<1> HIDE DEF base, w
<1>8. q \in Nat /\ w.from <= q /\ q < w.end /\ q < text.len
  BY <1>1, <1>2, <1>3, <1>7, <1>10
<1>9. ShownOn(content, current, i, q)
  <2> DEFINE n == content.body[i].eol
             x == CharOf(content.body, i)
             y == CharOf(content.body, i + 1)
             m == IF Is(content.body, Indented, i) THEN 1 ELSE 0
  <2>1. n \in Nat /\ m \in Nat
    BY <1>5, LineIsLine
  <2>2. x + m <= p /\ p <= y - n - 1
    BY <1>7 DEF FirstVisible, LastVisible
  <2>3. x \in Nat /\ y \in Nat
    BY <1>6
  <2> HIDE DEF n, x, y, m
  <2>4. x - base + m <= q /\ q <= y - base - n - 1
    BY <1>1, <1>7, <2>1, <2>2, <2>3
  <2> QED
    BY <1>6, <2>4 DEF ShownOn, n, x, y, m
<1> HIDE DEF q
<1>11. q \notin text.blanks
  BY <1>1, <1>3, <1>5, <1>8, <1>9, ShownIsVisible
<1>12. q \in Visible(w.from, w.end)
  BY <1>2, <1>8, <1>11 DEF Visible
<1>13. q < w.last
  BY <1>2, <1>12
<1>14. /\ current.from + Cardinality({z \in text.newlines : z < w.from}) <= i
       /\ i <= current.from + Cardinality({z \in text.newlines : z < w.last})
  <2>1. w.from \in Int /\ w.last \in Int /\ q < TextOf(content, current).len
    BY <1>2, <1>3, <1>8
  <2>2. /\ current.from + Cardinality({z \in TextOf(content, current).newlines : z < w.from}) <= i
        /\ i <= current.from + Cardinality({z \in TextOf(content, current).newlines : z < w.last})
    BY <1>1, <1>5, <1>8, <1>9, <1>13, <2>1, NewlinesCountLines, Zenon
  <2> QED
    BY <1>3, <2>2, Zenon
<1> QED
  BY <1>4, <1>14

-----------------------------------------------------------------------------
\* Blocks stay whole.

\* A fence with an even number of fences before it is paired with the next one.
LEMMA FencesArePaired ==
  ASSUME NEW body \in Seq(Lines), NEW kinds, NEW a \in Int, NEW b \in Int, a < b,
         Is(body, kinds, a), Is(body, kinds, b), \A k \in (a + 1)..(b - 1) : ~ Is(body, kinds, k),
         Cardinality({k \in 1..(a - 1) : Is(body, kinds, k)}) % 2 = 0
  PROVE  <<a, b>> \in Pairs(body, kinds)
<1> DEFINE S == {i \in DOMAIN body : body[i].kind \in kinds}
           at == Ascending(S)
           n == Cardinality(S)
<1>1. \A i : i \in S <=> Is(body, kinds, i)
  BY DEF Is
<1>2. IsFiniteSet(S) /\ S \in SUBSET Int /\ DOMAIN body = 1..Len(body) /\ Len(body) \in Nat
  <2>1. S \in SUBSET DOMAIN body
    OBVIOUS
  <2> QED
    BY <2>1, FiniteLines
<1>3. Pairs(body, kinds) = {<<at[2 * k - 1], at[2 * k]>> : k \in 1..(Len(at) \div 2)}
  BY DEF Pairs
<1>9. \A i \in S : i \in 1..Len(body)
  BY <1>2
<1> HIDE DEF S
<1>4. /\ n \in Nat /\ at \in [1..n -> S]
      /\ \A x \in S : \E k \in 1..n : at[k] = x
      /\ \A k, l \in 1..n : k < l => at[k] < at[l]
      /\ \A k \in 1..n : Cardinality({y \in S : y < at[k]}) = k - 1
  BY <1>2, AscendingInOrder
<1>5. Len(at) = n
  BY <1>4
<1> HIDE DEF at, n
<1>6. a \in S /\ b \in S /\ \A i \in S : i \in Int /\ ~(a < i /\ i < b)
  BY <1>1, <1>2
<1>7. PICK x \in 1..n : at[x] = a
  BY <1>4, <1>6
<1>8. PICK y \in 1..n : at[y] = b
  BY <1>4, <1>6
<1>10. y = x + 1
  <2>1. x < y
    <3>1. ~(y < x) /\ x # y
      BY <1>4, <1>6, <1>7, <1>8
    <3> QED
      BY <1>4, <3>1
  <2>2. ~(x + 1 < y)
    <3> SUFFICES ASSUME x + 1 < y PROVE FALSE
      OBVIOUS
    <3>1. x + 1 \in 1..n /\ x < x + 1
      BY <1>4
    <3>2. at[x + 1] \in S /\ a < at[x + 1] /\ at[x + 1] < b
      BY <1>4, <1>7, <1>8, <3>1
    <3> QED
      BY <1>6, <3>2
  <2> QED
    BY <1>4, <2>1, <2>2
<1>11. (x - 1) % 2 = 0
  <2>1. {k \in 1..(a - 1) : Is(body, kinds, k)} = {k \in S : k < a}
    <3> DEFINE is(k) == Is(body, kinds, k)
    <3>1. \A k : k \in S <=> is(k)
      BY <1>1
    <3> HIDE DEF is
    <3>2. ASSUME NEW k \in 1..(a - 1), is(k) PROVE k \in S /\ k < a
      BY <1>2, <3>1, <3>2
    <3>3. ASSUME NEW k \in S, k < a PROVE k \in 1..(a - 1) /\ is(k)
      BY <1>2, <1>9, <3>1, <3>3
    <3>4. {k \in 1..(a - 1) : is(k)} = {k \in S : k < a}
      BY <3>2, <3>3
    <3> QED
      BY <3>4 DEF is
  <2>2. Cardinality({k \in S : k < a}) = x - 1
    BY <1>4, <1>7
  <2> QED
    BY <2>1, <2>2
<1>12. PICK k \in 1..(n \div 2) : x = 2 * k - 1 /\ y = 2 * k
  <2> DEFINE k == (x + 1) \div 2
  <2>1. x = 2 * k - 1 /\ k \in Int
    BY <1>11
  <2> HIDE DEF k
  <2>2. y = 2 * k /\ k \in 1..(n \div 2)
    BY <1>4, <1>10, <2>1
  <2> QED
    BY <2>1, <2>2
<1> QED
  BY <1>3, <1>5, <1>7, <1>8, <1>12

\* A header with a separator below and no row above it begins a table that is found.
LEMMA TablesAreFound ==
  ASSUME NEW body \in Seq(Lines), NEW a \in Int, NEW b \in Int, a < b,
         Is(body, {"row", "pipe"}, a), Is(body, {"sep"}, a + 1), ~ Is(body, {"row", "sep"}, a - 1),
         \A k \in (a + 1)..b : Is(body, {"row", "sep"}, k)
  PROVE  \E e \in Nat : e >= b /\ <<a, e>> \in extract_tables(body)
<1> DEFINE n == Len(body)
           T == TablesFrom(body)
           e == PipeRunEnd(body, a + 1)
           Good == {m \in 0..(a - 1) : \A i \in (a - m)..a : <<a, e>> \in T[i]}
<1>1. n \in Nat /\ DOMAIN body = 1..n /\ a \in 1..n
  BY DEF Is
<1>2. TableBegins(body, a) /\ ~ TableBegins(body, a - 1)
  <2>1. (a - 1) + 1 = a
    BY <1>1
  <2> QED
    BY <2>1 DEF TableBegins, Is
<1>3. /\ e \in (a + 1)..n
      /\ ~ Is(body, {"row", "sep"}, e + 1)
  BY <1>2, TableEnds
<1>4. e \in Nat /\ e >= b
  <2>1. e \in Nat
    BY <1>1, <1>3
  <2>2. ~(e < b)
    <3> SUFFICES ASSUME e < b PROVE FALSE
      OBVIOUS
    <3>1. e + 1 \in (a + 1)..b
      BY <1>1, <1>3
    <3> QED
      BY <1>3, <3>1
  <2> QED
    BY <2>1, <2>2
<1>5. \A i \in 1..(n + 2) : T[i] = TablesAt(body, T, i)
  BY TablesUnfold
<1>6. \A i \in 1..(n + 2) : T[i] = IF i > n THEN {}
                                   ELSE IF TableBegins(body, i)
                                        THEN {<<i, PipeRunEnd(body, i + 1)>>} \cup T[PipeRunEnd(body, i + 1) + 2]
                                        ELSE T[i + 1]
  BY <1>5 DEF TablesAt
<1>7. extract_tables(body) = T[1]
  BY DEF extract_tables
<1>14. \A i : TableBegins(body, i) =>
          /\ i \in 1..n /\ PipeRunEnd(body, i + 1) \in (i + 1)..n
          /\ \A k \in (i + 1)..PipeRunEnd(body, i + 1) : Is(body, {"row", "sep"}, k)
  BY TableEnds
<1>15. T[a] = {<<a, e>>} \cup T[e + 2]
  <2>1. a \in 1..(n + 2) /\ ~(a > n)
    BY <1>1
  <2> QED
    BY <1>2, <1>6, <2>1
<1> HIDE DEF n, T, e
<1>8. 0 \in Good
  <2>1. 0 \in 0..(a - 1) /\ \A i \in (a - 0)..a : i = a
    BY <1>1
  <2>2. <<a, e>> \in T[a]
    BY <1>15
  <2> QED
    BY <2>1, <2>2
<1>9. ASSUME NEW m \in 1..(a - 1), m - 1 \in Good PROVE m \in Good
  <2> DEFINE i == a - m
  <2>1. i \in 1..(a - 1) /\ m \in 0..(a - 1) /\ a - (m - 1) = i + 1
    BY <1>1
  <2>2. \A j \in (i + 1)..a : <<a, e>> \in T[j]
    BY <1>9, <2>1
  <2> HIDE DEF i
  <2>3. <<a, e>> \in T[i]
    <3>1. i \in 1..(n + 2) /\ ~(i > n)
      BY <1>1, <2>1
    <3>2. CASE TableBegins(body, i)
      <4> DEFINE r == PipeRunEnd(body, i + 1)
      <4>1. r \in (i + 1)..n /\ \A k \in (i + 1)..r : Is(body, {"row", "sep"}, k)
        BY <1>14, <3>2
      <4>2. T[i] = {<<i, r>>} \cup T[r + 2]
        BY <1>6, <3>1, <3>2
      <4> HIDE DEF r
      <4>3. i # a - 1
        BY <1>2, <3>2
      <4>4. ~(a - 1 <= r)
        <5> SUFFICES ASSUME a - 1 <= r PROVE FALSE
          OBVIOUS
        <5>1. a - 1 \in (i + 1)..r
          BY <1>1, <2>1, <4>1, <4>3
        <5> QED
          BY <4>1, <5>1
      <4>5. r + 2 \in (i + 1)..a
        BY <1>1, <2>1, <4>1, <4>4
      <4> QED
        BY <2>2, <4>2, <4>5
    <3>3. CASE ~ TableBegins(body, i)
      <4>1. T[i] = T[i + 1]
        BY <1>6, <3>1, <3>3
      <4>2. i + 1 \in (i + 1)..a
        BY <1>1, <2>1
      <4> QED
        BY <2>2, <4>1, <4>2
    <3> QED
      BY <3>2, <3>3
  <2>4. ASSUME NEW j \in i..a PROVE <<a, e>> \in T[j]
    <3>1. j = i \/ j \in (i + 1)..a
      BY <1>1, <2>1
    <3> QED
      BY <2>2, <2>3, <3>1
  <2> QED
    BY <2>1, <2>4 DEF i
<1>10. \A m \in 0..(a - 1) : m \in Good
  <2>1. a - 1 \in Nat
    BY <1>1
  <2> HIDE DEF Good
  <2> QED
    BY <1>8, <1>9, <2>1, UpTo
<1>11. <<a, e>> \in T[1]
  <2>1. a - 1 \in 0..(a - 1) /\ 1 \in (a - (a - 1))..a
    BY <1>1
  <2>2. a - 1 \in Good
    BY <1>10, <2>1
  <2> QED
    BY <2>1, <2>2
<1> HIDE DEF Good
<1> QED
  BY <1>4, <1>7, <1>11

LEMMA ItemsAreFound ==
  ASSUME NEW body \in Seq(Lines), NEW a \in Int, NEW b \in Int, a <= b,
         Is(body, {"item", "nested"}, a), \A k \in (a + 1)..b : Is(body, {"indent"}, k)
  PROVE  \E e \in Nat : e >= b /\ <<a, e>> \in extract_list_items(body)
<1> DEFINE e == ItemEnd(body, a)
<1>1. a \in DOMAIN body /\ DOMAIN body = 1..Len(body) /\ Len(body) \in Nat
  BY DEF Is
<1>2. e \in a..Len(body) /\ ~ Is(body, Continuing, e + 1)
  BY <1>1, ItemRun
<1>3. <<a, e>> \in extract_list_items(body)
  BY <1>1 DEF extract_list_items
<1> HIDE DEF e
<1>4. ~(e < b)
  <2> SUFFICES ASSUME e < b PROVE FALSE
    OBVIOUS
  <2>1. e + 1 \in (a + 1)..b
    BY <1>1, <1>2
  <2>2. Is(body, {"indent"}, e + 1)
    BY <2>1
  <2>3. Is(body, Continuing, e + 1)
    BY <2>2 DEF Is, Continuing
  <2> QED
    BY <1>2, <2>3
<1>5. e \in Nat /\ e >= b
  BY <1>1, <1>2, <1>4
<1> QED
  BY <1>3, <1>5

\* A line that is not blank shows its first character after the indentation.
LEMMA LineShows ==
  ASSUME NEW c \in Contents, NEW s \in SectionsOf(c), NEW i \in 1..Len(c.body), c.body[i].kind # "blank"
  PROVE  ShownOn(c, s, i, At(c, s, i) + (IF Is(c.body, Indented, i) THEN 1 ELSE 0))
<1>1. c.body \in Seq(Lines) /\ c.body[i] \in Lines
  BY ContentIs
<1>2. /\ c.body[i].width \in Nat /\ c.body[i].eol \in Nat /\ c.body[i].width >= c.body[i].eol + 1
      /\ c.body[i].kind \in Indented => c.body[i].width >= c.body[i].eol + 2
  BY <1>1, LineIsLine
<1>3. At(c, s, i) \in Int /\ At(c, s, i + 1) = At(c, s, i) + c.body[i].width
  <2>1. i \in 1..(Len(c.body) + 1)
    BY <1>1
  <2> QED
    BY <2>1, AtGrows
<1>4. Is(c.body, Indented, i) => c.body[i].kind \in Indented
  BY DEF Is
<1> DEFINE x == At(c, s, i)  y == At(c, s, i + 1)  w == c.body[i].width  l == c.body[i].eol
           d == IF Is(c.body, Indented, i) THEN 1 ELSE 0
<1>5. d \in Int /\ x + d \in Int /\ x + d <= y - l - 1
  <2>1. x \in Int /\ w \in Nat /\ l \in Nat /\ y = x + w /\ w >= l + 1
    BY <1>2, <1>3
  <2>2. (d = 1 /\ w >= l + 2) \/ d = 0
    BY <1>2, <1>4
  <2> HIDE DEF x, y, w, l, d
  <2> QED
    BY <2>1, <2>2
<1>6. x + d <= x + d
  BY <1>5
<1> QED
  BY <1>5, <1>6 DEF ShownOn

\* The range of a block begins no later than the block; it ends with the block, or as far before
\* that as line_to_char is behind there.
LEMMA RangeCoversBlock ==
  ASSUME NEW c \in Contents, NEW s \in SectionsOf(c), NEW a \in 1..Len(c.body), NEW b \in 1..Len(c.body),
         s.from <= a, a <= b, b <= LastLine(c, s), NEW e \in Nat, b <= e
  PROVE  /\ RangeOf(c, s, <<a, e>>)[1] \in Nat /\ RangeOf(c, s, <<a, e>>)[1] <= At(c, s, a)
         /\ \/ At(c, s, b + 1) - c.body[b].eol <= RangeOf(c, s, <<a, e>>)[2]
            \/ Counts(c, s, b + 1) <= RangeOf(c, s, <<a, e>>)[2]
         /\ RangeOf(c, s, <<a, e>>)[2] \in Int /\ RangeOf(c, s, <<a, e>>)[2] <= TextOf(c, s).len
<1> DEFINE last == LastLine(c, s)
           len == TextOf(c, s).len
           n == Len(c.body)
           y == IF e + 1 <= last THEN Counts(c, s, e + 1) ELSE len
<1>1. /\ s.from \in Nat /\ 1 <= s.from /\ s.to <= n /\ n \in Nat /\ s.to \in Nat
      /\ last \in (s.from - 1)..s.to /\ b <= last
  BY SectionIs, LastLineIs
<1>2. len \in Nat /\ len = At(c, s, last + 1) - Cut(c, s)
  BY TextIs DEF Texts
<1>3. RangeOf(c, s, <<a, e>>) = <<IF a <= last THEN Counts(c, s, a) ELSE 0, y>>
  BY DEF RangeOf
<1>4. Cut(c, s) \in {0, c.body[last].eol}
  BY DEF Cut
<1> HIDE DEF last, len, n
<1>5. /\ b + 1 \in 1..(n + 1) /\ last + 1 \in 1..(n + 1) /\ b + 1 <= last + 1 /\ a <= last
      /\ last \in 1..n /\ last \in 1..(n + 1) /\ a \in s.from..(n + 1)
  BY <1>1 DEF n
<1>6. /\ At(c, s, b + 1) \in Int /\ At(c, s, last) \in Int
      /\ At(c, s, last + 1) = At(c, s, last) + c.body[last].width
      /\ c.body[last].width \in Nat /\ c.body[last].eol \in 1..2 /\ c.body[last].width >= c.body[last].eol
      /\ b + 1 <= last => At(c, s, b + 1) <= At(c, s, last)
  BY <1>5, AtGrows DEF n
<1>7. Counts(c, s, a) \in Nat /\ Counts(c, s, a) <= At(c, s, a)
  BY <1>5, CountsBehind DEF n
<1>8. At(c, s, last) <= len /\ len \in Int
  <2> DEFINE x == At(c, s, last)  z == At(c, s, last + 1)  w == c.body[last].width  l == c.body[last].eol  k == Cut(c, s)
  <2>1. len = z - k /\ z = x + w /\ x \in Int /\ w \in Nat /\ l \in 1..2 /\ w >= l /\ (k = 0 \/ k = l)
    BY <1>2, <1>4, <1>6
  <2> HIDE DEF x, z, w, l, k
  <2>2. x <= len /\ len \in Int
    BY <2>1
  <2> QED
    BY <2>2 DEF x
<1>9. /\ At(c, s, b + 1) - c.body[b].eol <= y \/ Counts(c, s, b + 1) <= y
      /\ y \in Int /\ y <= len
  <2>1. CASE e + 1 <= last
    <3>1. e + 1 \in 1..(n + 1) /\ e + 1 \in s.from..(n + 1) /\ b + 1 <= e + 1
      BY <1>1, <1>5, <2>1
    <3>2. /\ Counts(c, s, b + 1) <= Counts(c, s, e + 1)
          /\ Counts(c, s, e + 1) \in Nat /\ Counts(c, s, e + 1) <= At(c, s, e + 1)
      BY <1>5, <3>1, CountsBehind DEF n
    <3>3. At(c, s, e + 1) <= At(c, s, last) /\ At(c, s, e + 1) \in Int
      BY <1>5, <2>1, <3>1, AtGrows DEF n
    <3>4. y = Counts(c, s, e + 1)
      BY <2>1
    <3> HIDE DEF y
    <3> QED
      BY <1>6, <1>8, <3>2, <3>3, <3>4
  <2>2. CASE ~(e + 1 <= last)
    <3>1. y = len
      BY <2>2
    <3> HIDE DEF y
    <3>2. CASE b = last
      <4>1. At(c, s, b + 1) - c.body[b].eol <= len
        BY <1>2, <1>4, <1>6, <3>2
      <4> QED
        BY <1>8, <3>1, <4>1
    <3>3. CASE b + 1 <= last
      <4>1. c.body[b].eol \in 1..2
        BY AtGrows
      <4>2. At(c, s, b + 1) - c.body[b].eol <= len
        BY <1>6, <1>8, <3>3, <4>1
      <4> QED
        BY <1>8, <3>1, <4>2
    <3> QED
      BY <1>1, <1>5, <3>2, <3>3
  <2> QED
    BY <2>1, <2>2
<1> HIDE DEF y
<1>10. RangeOf(c, s, <<a, e>>)[1] = Counts(c, s, a) /\ RangeOf(c, s, <<a, e>>)[2] = y
  BY <1>3, <1>5
<1> QED
  BY <1>7, <1>9, <1>10 DEF len

\* A block that the parser found is in one window when its section is done.
LEMMA FoundIsWhole ==
  ASSUME ChunkerState, WindowIInv, scan = "done", Separate, ~ exact,
         NEW a \in DOMAIN content.body, NEW b \in DOMAIN content.body, a <= b, InSection(a, b),
         content.body[a].kind # "blank", content.body[b].kind # "blank",
         NEW e \in Nat, b <= e, <<a, e>> \in content.code_blocks \cup content.tables \cup content.list_items
  PROVE  InOneWindow(a, b)
<1> DEFINE c == content
           s == current
           base == CharOf(c.body, s.from)
           blk == <<a, e>>
           r == RangeOf(c, s, blk)
           q == At(c, s, a) + (IF Is(c.body, Indented, a) THEN 1 ELSE 0)
           first == FirstVisible(c.body, a)
           last == Smaller(LastVisible(c.body, b), CharOf(c.body, b + 1) - Drift(b) - 1)
<1>1. c \in Contents /\ s \in SectionsOf(c) /\ s.from \in Nat /\ base \in Nat
  BY CurrentBegins
<1>2. /\ s.to \in Nat /\ Len(c.body) \in Nat /\ DOMAIN c.body = 1..Len(c.body) /\ 1 <= s.from
      /\ LastLine(c, s) \in (s.from - 1)..s.to
      /\ \A k \in s.from..s.to : c.body[k].kind # "blank" => k <= LastLine(c, s)
  BY <1>1, SectionIs, LastLineIs
<1>3. s.from <= a /\ b <= s.to
  BY DEF InSection
<1>4. a \in 1..Len(c.body) /\ b \in 1..Len(c.body)
  BY <1>2
<1>5. b <= LastLine(c, s) /\ a <= LastLine(c, s)
  <2>1. a \in s.from..s.to /\ b \in s.from..s.to
    BY <1>1, <1>2, <1>3, <1>4
  <2> QED
    BY <1>2, <2>1
<1>6. text = TextOf(c, s) /\ protected = ProtectedOf(c, s) /\ text.len \in Nat
  <2>1. text = TextOf(c, s) /\ protected = ProtectedOf(c, s)
    BY DEF ChunkerState, TextIsCurrent
  <2> QED
    BY <1>1, <2>1, TextIs DEF Texts
<1>7. blk \in Blocks(c, s)
  <2>1. blk[1] = a
    OBVIOUS
  <2>2. LastLine(c, s) \in Int
    BY <1>1, <1>2
  <2> QED
    BY <1>3, <1>4, <1>5, <2>1, <2>2 DEF Blocks
<1>8. /\ r[1] \in Nat /\ r[1] <= At(c, s, a)
      /\ At(c, s, b + 1) - c.body[b].eol <= r[2] \/ Counts(c, s, b + 1) <= r[2]
      /\ r[2] \in Int /\ r[2] <= text.len
  BY <1>1, <1>3, <1>4, <1>5, <1>6, RangeCoversBlock
<1>9. ShownOn(c, s, a, q)
  BY <1>1, <1>4, LineShows
<1>10. At(c, s, a) \in Nat /\ At(c, s, b + 1) \in Int /\ c.body[b].eol \in 1..2
  <2>1. a \in s.from..(Len(c.body) + 1) /\ b + 1 \in 1..(Len(c.body) + 1)
    <3> DEFINE n == Len(c.body)
    <3>1. n \in Nat /\ a \in 1..n /\ b \in 1..n /\ s.from \in Nat /\ s.from <= a
      BY <1>1, <1>2, <1>3, <1>4
    <3> HIDE DEF n
    <3>2. a \in s.from..(n + 1) /\ b + 1 \in 1..(n + 1)
      BY <3>1
    <3> QED
      BY <3>2 DEF n
  <2> QED
    BY <1>1, <1>4, <2>1, AtGrows
<1>11. q \in Nat /\ At(c, s, a) <= q
  BY <1>10
<1>12. /\ first = base + q
       /\ LastVisible(c.body, b) = base + At(c, s, b + 1) - c.body[b].eol - 1
       /\ CharOf(c.body, b + 1) - Drift(b) = base + Counts(c, s, b + 1)
       /\ Counts(c, s, b + 1) \in Int
  <2>1. /\ c.body \in Seq(Lines) /\ a \in 1..(Len(c.body) + 1) /\ b + 1 \in 1..(Len(c.body) + 1)
        /\ s.from \in 1..(Len(c.body) + 1) /\ b + 1 \in s.from..(Len(c.body) + 1) /\ (b + 1) - 1 = b
    <3> DEFINE n == Len(c.body)
    <3>1. c.body \in Seq(Lines)
      BY <1>1, ContentIs
    <3>2. n \in Nat /\ a \in 1..n /\ b \in 1..n /\ a <= b /\ s.from \in Nat /\ 1 <= s.from /\ s.from <= a
      BY <1>1, <1>2, <1>3, <1>4
    <3> HIDE DEF n
    <3>3. /\ a \in 1..(n + 1) /\ b + 1 \in 1..(n + 1)
          /\ s.from \in 1..(n + 1) /\ b + 1 \in s.from..(n + 1) /\ (b + 1) - 1 = b
      BY <3>2
    <3> QED
      BY <3>1, <3>3 DEF n
  <2>2. CharOf(c.body, a) \in Nat /\ CharOf(c.body, b + 1) \in Nat
    BY <2>1, CharGrows
  <2>3. CharOf(c.body, a) = base + At(c, s, a) /\ CharOf(c.body, b + 1) = base + At(c, s, b + 1)
    BY <1>1, <2>2 DEF At
  <2>4. /\ Drift(b) \in Nat
        /\ Counts(c, s, b + 1) = CharOf(c.body, b + 1) - base - Drift(b)
    <3>1. Drift(b) = Cardinality({k \in s.from..((b + 1) - 1) : c.body[k].eol = 2})
      BY <2>1 DEF Drift
    <3>2. /\ Cardinality({k \in s.from..((b + 1) - 1) : c.body[k].eol = 2}) \in Nat
          /\ line_to_char(c.body, s.from, b + 1) = CharOf(c.body, b + 1) - CharOf(c.body, s.from)
                - Cardinality({k \in s.from..((b + 1) - 1) : c.body[k].eol = 2})
      BY <2>1, DriftIs
    <3> QED
      BY <3>1, <3>2 DEF Counts
  <2>5. first = base + q
    BY <1>1, <1>10, <2>3 DEF FirstVisible
  <2> HIDE DEF first, q, base
  <2>6. LastVisible(c.body, b) = base + At(c, s, b + 1) - c.body[b].eol - 1
    <3> DEFINE x == CharOf(c.body, b + 1)  z == At(c, s, b + 1)  w == c.body[b].eol
    <3>1. x = base + z /\ w \in 1..2 /\ z \in Int /\ base \in Nat
      BY <1>1, <1>10, <2>3
    <3>2. LastVisible(c.body, b) = x - w - 1
      BY DEF LastVisible
    <3> HIDE DEF x, z, w
    <3>3. x - w - 1 = base + z - w - 1
      BY <3>1
    <3> QED
      BY <3>2, <3>3 DEF z, w
  <2>7. CharOf(c.body, b + 1) - Drift(b) = base + Counts(c, s, b + 1) /\ Counts(c, s, b + 1) \in Int
    <3> DEFINE x == CharOf(c.body, b + 1)  d == Drift(b)  m == Counts(c, s, b + 1)
    <3>1. x \in Nat /\ d \in Nat /\ base \in Nat /\ m = x - base - d
      BY <1>1, <2>2, <2>4
    <3> HIDE DEF x, d, m
    <3>2. x - d = base + m /\ m \in Int
      BY <3>1
    <3> QED
      BY <3>2 DEF x, d, m
  <2> QED
    BY <2>5, <2>6, <2>7
<1> HIDE DEF q, r, base
<1>13. last \in Int /\ last < base + r[2]
  <2> DEFINE x == LastVisible(c.body, b)  y == CharOf(c.body, b + 1) - Drift(b)  z == At(c, s, b + 1)
             m == Counts(c, s, b + 1)  w == c.body[b].eol
  <2>1. x = base + z - w - 1 /\ y = base + m /\ m \in Int /\ z \in Int /\ w \in 1..2
    BY <1>10, <1>12
  <2>2. (z - w <= r[2] \/ m <= r[2]) /\ r[2] \in Int
    BY <1>8
  <2>3. last = IF x < y - 1 THEN x ELSE y - 1
    BY DEF Smaller
  <2> HIDE DEF x, y, z, m, w, last
  <2> QED
    BY <1>1, <2>1, <2>2, <2>3
<1> HIDE DEF first, last
<1>14. SUFFICES ASSUME first <= last
                PROVE  \E k \in DOMAIN windows : base + windows[k].from <= first /\ last < base + windows[k].end
  BY DEF InOneWindow, first, last, base
<1>15. q < r[2] /\ r[1] <= q /\ r[1] < r[2] /\ q < text.len
  BY <1>1, <1>6, <1>8, <1>10, <1>11, <1>12, <1>13, <1>14
<1>16. q \notin text.blanks
  BY <1>1, <1>4, <1>6, <1>9, <1>11, <1>15, ShownIsVisible
<1>17. PICK i \in DOMAIN protected : protected[i] = r
  <2>1. RangeOf(c, s, blk)[1] < RangeOf(c, s, blk)[2]
    BY <1>15 DEF r
  <2> HIDE DEF blk
  <2>2. \E i \in DOMAIN ProtectedOf(c, s) : ProtectedOf(c, s)[i] = RangeOf(c, s, blk)
    BY <1>1, <1>7, <2>1, ProtectedType
  <2> QED
    BY <1>6, <2>2 DEF r
<1>18. InWindow(r)
  <2>1. InWindow(protected[i]) \/ Visible(protected[i][1], protected[i][2]) = {}
    BY DEF WindowIInv, BlocksAreKept
  <2>2. q \in Visible(r[1], r[2])
    BY <1>8, <1>11, <1>15, <1>16 DEF Visible
  <2> QED
    BY <1>17, <2>1, <2>2
<1>19. PICK k \in DOMAIN windows : Visible(r[1], windows[k].from) = {} /\ r[2] <= windows[k].end
  BY <1>18 DEF InWindow
<1>20. windows[k].from \in Nat /\ windows[k].end \in Nat
  BY WindowIs
<1>21. windows[k].from <= q
  <2> SUFFICES ASSUME ~(windows[k].from <= q) PROVE FALSE
    OBVIOUS
  <2>1. q \in Visible(r[1], windows[k].from)
    BY <1>8, <1>11, <1>15, <1>16, <1>20 DEF Visible
  <2> QED
    BY <1>19, <2>1
<1>22. base + windows[k].from <= first /\ last < base + windows[k].end
  BY <1>1, <1>8, <1>11, <1>12, <1>13, <1>19, <1>20, <1>21
<1> QED
  BY <1>22

\* The blocks of each format are those its parser finds in the body it returns.
LEMMA BlocksOfFormat ==
  ASSUME NEW d, NEW c, c = ParsedContent(d)
  PROVE  /\ d.media_type \in {"markdown", "html", "epub"} => c.code_blocks = Pairs(c.body, {"fence"})
         /\ d.media_type \in {"python", "ts"} => c.code_blocks = Pairs(c.body, Fences)
         /\ d.media_type \in {"markdown", "html"} =>
              /\ c.headings = extract_headings(c.body) /\ c.tables = extract_tables(c.body)
              /\ c.list_items = extract_list_items(c.body)
<1>2. ASSUME NEW body PROVE
        /\ Structured(body).body = body /\ Structured(body).code_blocks = Pairs(body, {"fence"})
        /\ Structured(body).headings = extract_headings(body) /\ Structured(body).tables = extract_tables(body)
        /\ Structured(body).list_items = extract_list_items(body)
  BY DEF Structured, extract_code_blocks
<1>3. CASE d.media_type = "markdown"
  <2>1. c = Structured(d.elements)
    BY <1>3 DEF ParsedContent, MarkdownParser
  <2> QED
    BY <1>2, <1>3, <2>1
<1>4. CASE d.media_type = "html"
  <2> DEFINE body == normalize_to_markdown(d.elements)
  <2>1. c = [Structured(body) EXCEPT !.ended = FALSE]
    BY <1>4 DEF ParsedContent, HtmlParser
  <2> HIDE DEF body
  <2>2. /\ c.body = body /\ c.code_blocks = Pairs(body, {"fence"})
        /\ c.headings = extract_headings(body) /\ c.tables = extract_tables(body)
        /\ c.list_items = extract_list_items(body)
    BY <2>1 DEF Structured, extract_code_blocks
  <2> QED
    BY <1>4, <2>2
<1>5. CASE d.media_type = "epub"
  <2>1. c = EpubParser(d.elements)
    BY <1>5 DEF ParsedContent
  <2>2. c.code_blocks = Pairs(c.body, {"fence"})
    BY <2>1 DEF EpubParser, Plain
  <2> QED
    BY <1>5, <2>2
<1>6. CASE d.media_type \in {"python", "ts"}
  <2>1. c = PyParser(d.elements)
    BY <1>6 DEF ParsedContent, TsParser
  <2>2. c.code_blocks = Pairs(c.body, Fences)
    BY <2>1 DEF PyParser, Plain
  <2> QED
    BY <1>6, <2>2
<1> QED
  BY <1>3, <1>4, <1>5, <1>6

(***************************************************************************)
(* A fenced block, a table or a list item (with the indented lines below   *)
(* it) that has no heading in it is whole in one chunk, but for as many    *)
(* characters at its end as line_to_char is behind there, for every        *)
(* document and every window size and overlap: the state the chunker keeps *)
(* implies it.                                                             *)
(***************************************************************************)
LEMMA StateKeepsBlocks ==
  ASSUME ChunkerState, WindowIInv
  PROVE  BlocksAreWhole
<1> SUFFICES ASSUME SectionDone, Separate, ~ exact, NEW a \in DOMAIN content.body, NEW b \in DOMAIN content.body,
                    InSection(a, b),
                    \/ doc.media_type \in {"markdown", "html", "epub"} /\ FencedBlock({"fence"}, a, b)
                    \/ doc.media_type \in {"python", "ts"} /\ FencedBlock(Fences, a, b)
                    \/ doc.media_type \in {"markdown", "html"} /\ (Table(a, b) \/ ListItem(a, b))
             PROVE  InOneWindow(a, b)
  BY DEF BlocksAreWhole
<1>1. status = "chunking" /\ scan = "done"
  BY DEF SectionDone
<1>8. content = ParsedContent(doc)
  BY <1>1 DEF ChunkerState, ContentIsParsed
<1>2. content.body \in Seq(Lines) /\ a \in Int /\ b \in Int /\ b \in Nat /\ b <= b
  <2>1. content \in Contents
    BY DEF ChunkerState, ChunkerTypeOK
  <2> QED
    BY <2>1, ContentIs
<1>3. ASSUME NEW kinds, kinds \subseteq Fences, FencedBlock(kinds, a, b), content.code_blocks = Pairs(content.body, kinds)
      PROVE  InOneWindow(a, b)
  <2>1. <<a, b>> \in content.code_blocks
    BY <1>2, <1>3, FencesArePaired DEF FencedBlock
  <2>2. a <= b /\ content.body[a].kind # "blank" /\ content.body[b].kind # "blank"
    BY <1>2, <1>3 DEF FencedBlock, Is, Fences
  <2> QED
    BY <1>1, <1>2, <2>1, <2>2, FoundIsWhole
<1>4. CASE doc.media_type \in {"markdown", "html", "epub"} /\ FencedBlock({"fence"}, a, b)
  <2>1. {"fence"} \subseteq Fences /\ content.code_blocks = Pairs(content.body, {"fence"})
    BY <1>8, <1>4, BlocksOfFormat DEF Fences
  <2> QED
    BY <1>3, <1>4, <2>1
<1>5. CASE doc.media_type \in {"python", "ts"} /\ FencedBlock(Fences, a, b)
  <2>1. content.code_blocks = Pairs(content.body, Fences)
    BY <1>8, <1>5, BlocksOfFormat
  <2> QED
    BY <1>3, <1>5, <2>1
<1>6. CASE doc.media_type \in {"markdown", "html"} /\ Table(a, b)
  <2>1. content.tables = extract_tables(content.body)
    BY <1>8, <1>6, BlocksOfFormat
  <2>2. PICK e \in Nat : e >= b /\ <<a, e>> \in extract_tables(content.body)
    BY <1>2, <1>6, TablesAreFound DEF Table
  <2>3. b \in (a + 1)..b /\ a <= b
    BY <1>2, <1>6 DEF Table
  <2>4. Is(content.body, {"row", "pipe"}, a) /\ Is(content.body, {"row", "sep"}, b)
    BY <1>6, <2>3 DEF Table
  <2>5. content.body[a].kind # "blank" /\ content.body[b].kind # "blank"
    BY <2>4 DEF Is
  <2>6. b <= e
    BY <1>2, <2>2
  <2> QED
    BY <1>1, <2>1, <2>2, <2>3, <2>5, <2>6, FoundIsWhole
<1>7. CASE doc.media_type \in {"markdown", "html"} /\ ListItem(a, b)
  <2>1. content.list_items = extract_list_items(content.body)
    BY <1>8, <1>7, BlocksOfFormat
  <2>2. PICK e \in Nat : e >= b /\ <<a, e>> \in extract_list_items(content.body)
    BY <1>2, <1>7, ItemsAreFound DEF ListItem
  <2>3. a <= b /\ (a = b \/ b \in (a + 1)..b)
    BY <1>2, <1>7 DEF ListItem
  <2>4. Is(content.body, {"item", "nested"}, a) /\ (a = b \/ Is(content.body, {"indent"}, b))
    BY <1>7, <2>3 DEF ListItem
  <2>5. content.body[a].kind # "blank" /\ content.body[b].kind # "blank"
    BY <2>4 DEF Is
  <2>6. b <= e
    BY <1>2, <2>2
  <2> QED
    BY <1>1, <2>1, <2>2, <2>3, <2>5, <2>6, FoundIsWhole
<1> QED
  BY <1>4, <1>5, <1>6, <1>7

-----------------------------------------------------------------------------
\* The headings above a section.

\* a lists the m numbers of S in ascending order.
Lists(a, m, S) ==
    /\ a \in [1..m -> S] /\ \A x \in S : \E k \in 1..m : a[k] = x
    /\ \A k, l \in 1..m : k < l => a[k] < a[l]

\* There is one way to do so.
LEMMA AscendingUnique ==
  ASSUME NEW S \in SUBSET Int, NEW m \in Nat, NEW a, Lists(a, m, S)
  PROVE  Ascending(S) = a
<1> DEFINE n == Cardinality(S)
           b == Ascending(S)
<1>0. /\ a \in [1..m -> S] /\ \A x \in S : \E k \in 1..m : a[k] = x
      /\ \A k, l \in 1..m : k < l => a[k] < a[l]
  BY DEF Lists
<1>1. \A k \in 1..m : a[k] \in Int
  BY <1>0
<1>2. IsFiniteSet(S) /\ n = m
  <2>1. IsFiniteSet(1..m) /\ Cardinality(1..m) = m
    BY FS_Interval
  <2>2. a \in Surjection(1..m, S)
    BY <1>0 DEF Surjection
  <2>3. \A k, l \in 1..m : a[k] = a[l] => k = l
    <3> SUFFICES ASSUME NEW k \in 1..m, NEW l \in 1..m, a[k] = a[l], k # l PROVE FALSE
      OBVIOUS
    <3>1. k < l \/ l < k
      OBVIOUS
    <3>2. a[k] < a[l] \/ a[l] < a[k]
      BY <1>0, <3>1
    <3> QED
      BY <1>1, <3>2
  <2>4. a \in Injection(1..m, S)
    BY <1>0, <2>3 DEF Injection, IsInjective
  <2> QED
    BY <2>1, <2>2, <2>4, FS_Surjection
<1>3. /\ b \in [1..n -> S] /\ \A x \in S : \E k \in 1..n : b[k] = x
      /\ \A k, l \in 1..n : k < l => b[k] < b[l]
  BY <1>2, AscendingInOrder
<1> HIDE DEF n, b
<1>4. /\ b \in [1..m -> S] /\ \A x \in S : \E k \in 1..m : b[k] = x
      /\ \A k, l \in 1..m : k < l => b[k] < b[l]
  BY <1>2, <1>3
<1> DEFINE Bad == {k \in 1..m : a[k] # b[k]}
<1>5. Bad = {}
  <2> SUFFICES ASSUME Bad # {} PROVE FALSE
    OBVIOUS
  <2>1. Bad \in SUBSET Nat
    OBVIOUS
  <2>2. PICK k \in Bad : \A l \in Bad : k <= l
    BY <2>1, NatMin
  <2>3. k \in 1..m /\ a[k] # b[k] /\ a[k] \in S /\ b[k] \in S /\ a[k] \in Int /\ b[k] \in Int
    BY <1>0, <1>1, <1>4, <2>2
  <2>4. \A l \in 1..m : l < k => a[l] = b[l]
    BY <2>2, <2>3
  <2>5. PICK i \in 1..m : a[i] = b[k]
    BY <1>0, <2>3
  <2>6. PICK j \in 1..m : b[j] = a[k]
    BY <1>4, <2>3
  <2>7. ~(i < k)
    <3> SUFFICES ASSUME i < k PROVE FALSE
      OBVIOUS
    <3>1. b[i] = b[k] /\ b[i] < b[k]
      BY <1>4, <2>3, <2>4, <2>5
    <3> QED
      BY <2>3, <3>1
  <2>8. ~(j < k)
    <3> SUFFICES ASSUME j < k PROVE FALSE
      OBVIOUS
    <3>1. a[j] = a[k] /\ a[j] < a[k]
      BY <1>0, <2>3, <2>4, <2>6
    <3> QED
      BY <2>3, <3>1
  <2>9. i # k /\ j # k
    BY <2>3, <2>5, <2>6
  <2>10. k < i /\ k < j
    BY <2>3, <2>7, <2>8, <2>9
  <2>11. a[k] < a[i] /\ b[k] < b[j]
    BY <1>0, <1>4, <2>3, <2>10
  <2> QED
    BY <2>3, <2>5, <2>6, <2>11
<1>6. \A k \in 1..m : a[k] = b[k]
  BY <1>5
<1> QED
  BY <1>0, <1>4, <1>6 DEF b

LEMMA HeadsAre ==
  ASSUME NEW body \in Seq(Lines)
  PROVE  /\ HeadLines(body) \in SUBSET Int /\ HeadLines(body) \subseteq DOMAIN body
         /\ \A i \in HeadLines(body) :
              /\ body[i] \in Lines /\ body[i].kind \in Heads
              /\ body[i].level \in Nat /\ body[i].level >= 1 /\ body[i].name \in Seq(STRING)
<1>1. \A i \in HeadLines(body) : i \in DOMAIN body /\ i \in Int /\ body[i] \in Lines /\ body[i].kind \in Heads
  BY DEF HeadLines
<1> QED
  BY <1>1, LineIsLine

\* The headings above i are as many as its level says, one of each level.
Levelled(body, a, m) == \A k \in 1..m : body[a[k]].level = k

OneOfEach(body, i) ==
    /\ Lists(Ancestors(body, i), body[i].level, Above(body, i))
    /\ Levelled(body, Ancestors(body, i), body[i].level)

\* What makes it so: a list of the headings above.
LEMMA Enumerated ==
  ASSUME NEW body \in Seq(Lines), NEW i \in HeadLines(body), NEW a, Lists(a, body[i].level, Above(body, i)),
         Levelled(body, a, body[i].level)
  PROVE  Ancestors(body, i) = a /\ OneOfEach(body, i)
<1>1. Above(body, i) \in SUBSET Int
  BY HeadsAre DEF Above
<1>2. body[i].level \in Nat
  BY HeadsAre
<1>3. Ancestors(body, i) = a
  BY <1>1, <1>2, AscendingUnique DEF Ancestors
<1> QED
  BY <1>3 DEF OneOfEach

\* The first heading has none above it.
LEMMA FirstHeading ==
  ASSUME NEW body \in Seq(Lines), ProperHeadings(body), NEW i \in HeadLines(body),
         \A k \in HeadLines(body) : ~(k < i)
  PROVE  body[i].level = 1 /\ Ancestors(body, i) = [k \in 1..1 |-> i] /\ OneOfEach(body, i)
<1>1. body[i].level = 1
  <2>1. {k \in HeadLines(body) : k < i} = {}
    OBVIOUS
  <2> QED
    BY <2>1 DEF ProperHeadings
<1>2. Above(body, i) = {i}
  <2>1. HeadLines(body) \in SUBSET Int
    BY HeadsAre
  <2>2. \A k \in HeadLines(body) : k <= i => k = i
    BY <2>1
  <2>3. i \in Above(body, i)
    BY <2>1 DEF Above
  <2> QED
    BY <2>2, <2>3 DEF Above
<1> DEFINE a == [k \in 1..1 |-> i]
<1>3. a \in [1..1 -> Above(body, i)] /\ \A x \in Above(body, i) : \E k \in 1..1 : a[k] = x
  BY <1>2
<1>4. \A k, l \in 1..1 : k < l => a[k] < a[l]
  OBVIOUS
<1>5. \A k \in 1..1 : body[a[k]].level = k
  BY <1>1
<1> HIDE DEF a
<1>7. Lists(a, body[i].level, Above(body, i)) /\ Levelled(body, a, body[i].level)
  BY <1>1, <1>3, <1>4, <1>5 DEF Lists, Levelled
<1>6. Ancestors(body, i) = a /\ OneOfEach(body, i)
  BY <1>7, Enumerated
<1> QED
  BY <1>1, <1>6 DEF a

\* A heading keeps those above the heading before it whose level is less than its own.
LEMMA NextHeading ==
  ASSUME NEW body \in Seq(Lines), ProperHeadings(body), NEW i \in HeadLines(body), NEW p \in HeadLines(body),
         p < i, \A k \in HeadLines(body) : ~(p < k /\ k < i), OneOfEach(body, p)
  PROVE  /\ body[i].level <= body[p].level + 1 /\ OneOfEach(body, i)
         /\ Ancestors(body, i) =
              [k \in 1..body[i].level |-> IF k = body[i].level THEN i ELSE Ancestors(body, p)[k]]
<1> DEFINE H == HeadLines(body)
           lev(k) == body[k].level
           old == Ancestors(body, p)
           a == [k \in 1..lev(i) |-> IF k = lev(i) THEN i ELSE old[k]]
<1>1. H \in SUBSET Int /\ \A k \in H : lev(k) \in Nat /\ lev(k) >= 1
  BY HeadsAre
<1>2. lev(i) <= lev(p) + 1
  <2> DEFINE before == {k \in H : k < i}
             last == CHOOSE k \in before : \A j \in before : j <= k
  <2>1. p \in before /\ \A k \in before : k <= p
    BY <1>1
  <2>2. last \in before /\ \A j \in before : j <= last
    <3> HIDE DEF before
    <3> QED
      BY <2>1
  <2>3. last = p
    <3>1. p <= last /\ last <= p
      BY <2>1, <2>2
    <3>2. last \in Int /\ p \in Int
      BY <1>1, <2>2
    <3> HIDE DEF last
    <3> QED
      BY <3>1, <3>2
  <2>4. before # {}
    <3> HIDE DEF before
    <3> QED
      BY <2>1
  <2>5. lev(i) <= lev(last) + 1
    BY <2>4 DEF ProperHeadings
  <2> HIDE DEF last
  <2> QED
    BY <2>3, <2>5
<1>3. \A k \in H : k <= i <=> k <= p \/ k = i
  BY <1>1
<1>4. \A m : m \in Above(body, i) <=> (m \in Above(body, p) /\ lev(m) < lev(i)) \/ m = i
  <2>0. \A m \in H : m <= p => m < i /\ m # i
    BY <1>1
  <2>1. \A m, s : m \in Above(body, s) <=> m \in H /\ m <= s /\ \A j \in H : m < j /\ j <= s => lev(j) > lev(m)
    BY DEF Above
  <2> HIDE DEF H, lev
  <2>2. ASSUME NEW m, m \in Above(body, i), m # i PROVE m \in Above(body, p) /\ lev(m) < lev(i)
    <3>1. m \in H /\ m <= i /\ \A j \in H : m < j /\ j <= i => lev(j) > lev(m)
      BY <2>1, <2>2
    <3>2. m <= p /\ m < i
      BY <1>3, <2>0, <2>2, <3>1
    <3>3. lev(i) > lev(m)
      <4>1. i \in H /\ i <= i
        BY <1>1 DEF H
      <4> QED
        BY <3>1, <3>2, <4>1
    <3>4. \A j \in H : m < j /\ j <= p => lev(j) > lev(m)
      BY <1>3, <3>1
    <3>5. m \in Above(body, p)
      BY <2>1, <3>1, <3>2, <3>4
    <3>6. lev(m) \in Nat /\ lev(i) \in Nat
      BY <1>1, <3>1 DEF H
    <3> QED
      BY <3>3, <3>5, <3>6
  <2>3. ASSUME NEW m, m \in Above(body, p), lev(m) < lev(i) PROVE m \in Above(body, i)
    <3>1. m \in H /\ m <= p /\ \A j \in H : m < j /\ j <= p => lev(j) > lev(m)
      BY <2>1, <2>3
    <3>2. m <= i
      BY <1>3, <3>1
    <3>3. lev(i) > lev(m)
      <4>1. lev(m) \in Nat /\ lev(i) \in Nat
        BY <1>1, <3>1 DEF H
      <4> QED
        BY <2>3, <4>1
    <3>4. \A j \in H : m < j /\ j <= i => lev(j) > lev(m)
      BY <1>3, <3>1, <3>3
    <3> QED
      BY <2>1, <3>1, <3>2, <3>4
  <2>4. i \in Above(body, i)
    <3>1. i \in H /\ i <= i /\ \A j \in H : ~(i < j /\ j <= i)
      BY <1>1 DEF H
    <3> QED
      BY <2>1, <3>1
  <2> QED
    BY <2>2, <2>3, <2>4
<1>5. /\ old \in [1..lev(p) -> Above(body, p)]
      /\ \A x \in Above(body, p) : \E k \in 1..lev(p) : old[k] = x
      /\ \A k, l \in 1..lev(p) : k < l => old[k] < old[l]
      /\ \A k \in 1..lev(p) : lev(old[k]) = k
  BY DEF OneOfEach, Lists, Levelled
<1>6. \A m \in Above(body, p) : m \in Int /\ m < i
  <2>1. \A m \in Above(body, p) : m \in H /\ m <= p
    BY DEF Above
  <2> QED
    BY <1>1, <2>1
<1>7. lev(i) \in Nat /\ lev(i) >= 1 /\ lev(p) \in Nat
  BY <1>1
<1> HIDE DEF H, lev, old
<1>8. \A k \in 1..lev(i) : k # lev(i) => k \in 1..lev(p) /\ k < lev(i)
  BY <1>2, <1>7
<1>9. a \in [1..lev(i) -> Above(body, i)]
  <2>1. ASSUME NEW k \in 1..lev(i) PROVE (IF k = lev(i) THEN i ELSE old[k]) \in Above(body, i)
    <3>1. CASE k = lev(i)
      BY <1>4, <3>1
    <3>2. CASE k # lev(i)
      <4>1. old[k] \in Above(body, p) /\ lev(old[k]) < lev(i)
        BY <1>5, <1>8, <3>2
      <4> QED
        BY <1>4, <3>2, <4>1
    <3> QED
      BY <3>1, <3>2
  <2> QED
    BY <2>1
<1>10. \A x \in Above(body, i) : \E k \in 1..lev(i) : a[k] = x
  <2> SUFFICES ASSUME NEW x \in Above(body, i) PROVE \E k \in 1..lev(i) : a[k] = x
    OBVIOUS
  <2>1. CASE x = i
    <3>1. lev(i) \in 1..lev(i)
      BY <1>7
    <3>2. a[lev(i)] = i
      BY <3>1
    <3> QED
      BY <2>1, <3>1, <3>2
  <2>2. CASE x # i
    <3>1. x \in Above(body, p) /\ lev(x) < lev(i)
      BY <1>4, <2>2
    <3>2. PICK k \in 1..lev(p) : old[k] = x
      BY <1>5, <3>1
    <3>3. lev(x) = k
      BY <1>5, <3>2
    <3>4. k \in 1..lev(i) /\ k # lev(i)
      BY <1>7, <3>1, <3>3
    <3>5. a[k] = x
      BY <3>2, <3>4
    <3> HIDE DEF a
    <3> QED
      BY <3>4, <3>5
  <2> QED
    BY <2>1, <2>2
<1>11. \A k, l \in 1..lev(i) : k < l => a[k] < a[l]
  <2> SUFFICES ASSUME NEW k \in 1..lev(i), NEW l \in 1..lev(i), k < l PROVE a[k] < a[l]
    OBVIOUS
  <2>1. k # lev(i) /\ a[k] = old[k] /\ k \in 1..lev(p)
    BY <1>7, <1>8
  <2>2. CASE l = lev(i)
    <3>1. a[l] = i
      BY <2>2
    <3>2. old[k] < i
      BY <1>5, <1>6, <2>1
    <3> HIDE DEF a
    <3> QED
      BY <2>1, <3>1, <3>2
  <2>3. CASE l # lev(i)
    <3>1. a[l] = old[l] /\ l \in 1..lev(p)
      BY <1>8, <2>3
    <3> HIDE DEF a
    <3> QED
      BY <1>5, <2>1, <3>1
  <2> QED
    BY <2>2, <2>3
<1>12. \A k \in 1..lev(i) : lev(a[k]) = k
  <2> SUFFICES ASSUME NEW k \in 1..lev(i) PROVE lev(a[k]) = k
    OBVIOUS
  <2>1. CASE k = lev(i)
    <3>1. a[k] = i
      BY <2>1
    <3> HIDE DEF a
    <3> QED
      BY <2>1, <3>1
  <2>2. CASE k # lev(i)
    <3>1. a[k] = old[k] /\ k \in 1..lev(p)
      BY <1>8, <2>2
    <3> HIDE DEF a
    <3> QED
      BY <1>5, <3>1
  <2> QED
    BY <2>1, <2>2
<1>13. a = [k \in 1..body[i].level |-> IF k = body[i].level THEN i ELSE Ancestors(body, p)[k]]
  BY DEF lev, old
<1> HIDE DEF a
<1>15. Lists(a, lev(i), Above(body, i))
  BY <1>9, <1>10, <1>11 DEF Lists
<1>16. Levelled(body, a, lev(i))
  BY <1>12 DEF Levelled, lev
<1>14. Ancestors(body, i) = a /\ OneOfEach(body, i)
  BY <1>15, <1>16, Enumerated DEF lev
<1> QED
  BY <1>2, <1>13, <1>14 DEF lev

\* extract_headings returns the level and the text of each heading line.
LEMMA HeadingsList ==
  ASSUME NEW body \in Seq(Lines)
  PROVE  /\ \A k \in DOMAIN extract_headings(body) : \E j \in HeadLines(body) :
              extract_headings(body)[k] = <<body[j].level, body[j].name>>
         /\ \A j \in HeadLines(body) : \E k \in DOMAIN extract_headings(body) :
              extract_headings(body)[k] = <<body[j].level, body[j].name>>
<1> DEFINE H == HeadLines(body)
           n == Cardinality(H)
           at == Ascending(H)
           heads == Kept(body, H)
<1>1. extract_headings(body) = [k \in DOMAIN heads |-> <<heads[k].level, heads[k].name>>]
  BY DEF extract_headings, HeadLines
<1>2. H \in SUBSET DOMAIN body /\ \A i \in H : body[i] \in Lines
  BY HeadsAre
<1>3. IsFiniteSet(H) /\ H \in SUBSET Int
  BY <1>2, FiniteLines
<1> HIDE DEF H
<1>4. DOMAIN heads = 1..n /\ at \in [1..n -> H] /\ \A k \in 1..n : heads[k] = body[at[k]]
  BY <1>2, KeptType
<1>5. \A x \in H : \E k \in 1..n : at[k] = x
  BY <1>3, AscendingInOrder
<1> HIDE DEF heads, at, n
<1>6. \A k \in 1..n : extract_headings(body)[k] = <<body[at[k]].level, body[at[k]].name>> /\ at[k] \in H
  BY <1>1, <1>4
<1>7. DOMAIN extract_headings(body) = 1..n
  BY <1>1, <1>4
<1>8. ASSUME NEW j \in H
      PROVE  \E k \in 1..n : extract_headings(body)[k] = <<body[j].level, body[j].name>>
  <2>1. PICK k \in 1..n : at[k] = j
    BY <1>5
  <2> QED
    BY <1>6, <2>1
<1> QED
  BY <1>6, <1>7, <1>8 DEF H

LEMMA PrefixReflexive ==
  ASSUME NEW T, NEW s \in Seq(T)
  PROVE  IsPrefix(s, s)
  BY DEF IsPrefix

\* The lines that begin sections are the heading lines, if one space follows the marks of each
\* and no indented line reads like one, ...
LEMMA HeadedIsHead ==
  ASSUME NEW c \in Contents, c.headings = extract_headings(c.body), ProperHeadings(c.body),
         NEW i \in DOMAIN c.body
  PROVE  Headed(c, i) <=> i \in HeadLines(c.body)
<1>1. c.body \in Seq(Lines)
  BY ContentIs
<1>2. ASSUME Headed(c, i) PROVE i \in HeadLines(c.body)
  <2>1. PICK k \in DOMAIN c.headings : IsHeading(c.body[i], c.headings[k])
    BY <1>2 DEF Headed
  <2>2. PICK j \in HeadLines(c.body) : c.headings[k] = <<c.body[j].level, c.body[j].name>>
    <3>1. \A l \in DOMAIN extract_headings(c.body) : \E j \in HeadLines(c.body) :
            extract_headings(c.body)[l] = <<c.body[j].level, c.body[j].name>>
      BY <1>1, HeadingsList
    <3>2. k \in DOMAIN extract_headings(c.body) /\ c.headings[k] = extract_headings(c.body)[k]
      OBVIOUS
    <3> QED
      BY <3>1, <3>2, Zenon
  <2>3. /\ c.body[i].kind \in {"head", "note"}
        /\ c.body[i].level = c.body[j].level /\ IsPrefix(c.body[j].name, c.body[i].name)
    BY <2>1, <2>2 DEF IsHeading
  <2>4. c.body[i].kind # "note"
    BY <2>3 DEF ProperHeadings
  <2>5. c.body[i].kind \in Heads
    BY <2>3, <2>4 DEF Heads
  <2> QED
    BY <2>5 DEF HeadLines
<1>3. ASSUME i \in HeadLines(c.body) PROVE Headed(c, i)
  <2>1. PICK k \in DOMAIN c.headings : c.headings[k] = <<c.body[i].level, c.body[i].name>>
    BY <1>1, <1>3, HeadingsList
  <2>2. c.body[i].kind = "head" /\ c.body[i].name \in Seq(STRING)
    <3>1. c.body[i].kind \in Heads /\ c.body[i].name \in Seq(STRING)
      BY <1>1, <1>3, HeadsAre
    <3>2. c.body[i].kind # "loose"
      BY <1>3 DEF ProperHeadings
    <3> QED
      BY <3>1, <3>2 DEF Heads
  <2>3. IsPrefix(c.body[i].name, c.body[i].name)
    BY <2>2, PrefixReflexive
  <2>4. IsHeading(c.body[i], c.headings[k])
    BY <2>1, <2>2, <2>3 DEF IsHeading
  <2> QED
    BY <2>4 DEF Headed
<1> QED
  BY <1>2, <1>3

\* ... each with its own level and text, if no heading's text begins another's.
LEMMA OwnHeading ==
  ASSUME NEW c \in Contents, c.headings = extract_headings(c.body), ProperHeadings(c.body),
         NEW i \in HeadLines(c.body)
  PROVE  HeadingOf(c, i) = <<c.body[i].level, c.body[i].name>>
<1>1. c.body \in Seq(Lines) /\ i \in DOMAIN c.body
  BY ContentIs, HeadsAre
<1>2. Headed(c, i)
  BY <1>1, HeadedIsHead
<1>3. PICK k \in DOMAIN c.headings : HeadingOf(c, i) = c.headings[k] /\ IsHeading(c.body[i], c.headings[k])
  BY <1>2, HeadingOfHeaded
<1>4. PICK j \in HeadLines(c.body) : c.headings[k] = <<c.body[j].level, c.body[j].name>>
  <2>1. \A l \in DOMAIN extract_headings(c.body) : \E j \in HeadLines(c.body) :
          extract_headings(c.body)[l] = <<c.body[j].level, c.body[j].name>>
    BY <1>1, HeadingsList
  <2>2. k \in DOMAIN extract_headings(c.body) /\ c.headings[k] = extract_headings(c.body)[k]
    OBVIOUS
  <2> QED
    BY <2>1, <2>2, Zenon
<1>5. c.body[i].level = c.body[j].level /\ IsPrefix(c.body[j].name, c.body[i].name)
  BY <1>3, <1>4 DEF IsHeading
<1>6. c.body[j].name = c.body[i].name
  BY <1>5 DEF ProperHeadings
<1> QED
  BY <1>3, <1>4, <1>5, <1>6

LEMMA DescendIs ==
  ASSUME NEW path \in Seq(Seq(STRING)), NEW l \in Nat, 1 <= l, l <= Len(path) + 1, NEW name \in Seq(STRING)
  PROVE  Descend(path, <<l, name>>) = [k \in 1..l |-> IF k = l THEN name ELSE path[k]]
<1> DEFINE V == Seq(STRING)
           h == <<l, name>>
           cut == SubSeq(path, 1, l - 1)
<1>1. h[1] = l /\ h[2] = name /\ name \in V /\ path \in Seq(V)
  OBVIOUS
<1> HIDE DEF V, h
<1>2. Len(path) \in Nat
  BY <1>1
<1>3. Smaller(Len(path), h[1] - 1) = l - 1
  BY <1>1, <1>2 DEF Smaller
<1>4. Descend(path, h) = Append(cut, name)
  BY <1>1, <1>3 DEF Descend
<1>5. cut \in Seq(V) /\ Len(cut) = l - 1 /\ \A k \in 1..(l - 1) : cut[k] = path[k]
  <2>1. l - 1 \in Nat /\ l - 1 <= Len(path)
    BY <1>2
  <2>2. CASE l - 1 = 0
    <3>1. cut = <<>>
      BY <1>1, <2>2
    <3>2. <<>> \in Seq(V) /\ Len(<<>>) = 0
      OBVIOUS
    <3> HIDE DEF cut
    <3> QED
      BY <2>2, <3>1, <3>2
  <2>3. CASE l - 1 # 0
    BY <1>1, <2>1, <2>3
  <2> QED
    BY <2>2, <2>3
<1> HIDE DEF cut
<1>6. /\ DOMAIN Append(cut, name) = 1..l
      /\ \A k \in 1..l : Append(cut, name)[k] = IF k = l THEN name ELSE path[k]
      /\ Append(cut, name) \in Seq(V)
  <2>1. Len(cut) + 1 = l
    BY <1>5
  <2> QED
    BY <1>1, <1>5, <2>1
<1>7. Append(cut, name) = [k \in 1..l |-> IF k = l THEN name ELSE path[k]]
  <2> DEFINE x == Append(cut, name)
  <2>1. /\ x \in Seq(V) /\ DOMAIN x = 1..l /\ \A k \in 1..l : x[k] = IF k = l THEN name ELSE path[k]
    BY <1>6
  <2> HIDE DEF x
  <2>2. x = [k \in 1..l |-> x[k]]
    BY <2>1
  <2>3. x = [k \in 1..l |-> IF k = l THEN name ELSE path[k]]
    BY <2>1, <2>2
  <2> QED
    BY <2>3 DEF x
<1> QED
  BY <1>4, <1>7 DEF h

\* Where no heading is above, the path is empty.
LEMMA NothingAbove ==
  ASSUME NEW body \in Seq(Lines), NEW s \in Nat, \A k \in HeadLines(body) : ~(k <= s)
  PROVE  Ancestry(body, s) = <<>>
<1>1. Above(body, s) = {}
  BY DEF Above
<1>2. Lists(<<>>, 0, {})
  <2>1. 1..0 = {} /\ DOMAIN <<>> = {}
    OBVIOUS
  <2>2. <<>> \in [1..0 -> {}]
    OBVIOUS
  <2> QED
    BY <2>1, <2>2 DEF Lists
<1>3. Ascending({}) = <<>>
  BY <1>2, AscendingUnique
<1>4. DOMAIN Ancestors(body, s) = {}
  BY <1>1, <1>3 DEF Ancestors
<1> QED
  BY <1>4 DEF Ancestry

LEMMA FirstPath ==
  ASSUME NEW c \in Contents, c.headings = extract_headings(c.body), ProperHeadings(c.body),
         NEW i \in HeadLines(c.body), \A k \in HeadLines(c.body) : ~(k < i)
  PROVE  Descend(<<>>, HeadingOf(c, i)) = Ancestry(c.body, i) /\ OneOfEach(c.body, i)
<1>1. c.body \in Seq(Lines)
  BY ContentIs
<1>2. c.body[i].level = 1 /\ Ancestors(c.body, i) = [k \in 1..1 |-> i] /\ OneOfEach(c.body, i)
  BY <1>1, FirstHeading
<1>3. HeadingOf(c, i) = <<1, c.body[i].name>> /\ c.body[i].name \in Seq(STRING)
  BY <1>1, <1>2, OwnHeading, HeadsAre
<1>4. <<>> \in Seq(Seq(STRING)) /\ Len(<<>>) = 0 /\ 1 <= 0 + 1 /\ 1 \in Nat /\ 1 <= 1
  OBVIOUS
<1>5. Descend(<<>>, <<1, c.body[i].name>>) = [k \in 1..1 |-> IF k = 1 THEN c.body[i].name ELSE <<>>[k]]
  BY <1>3, <1>4, DescendIs
<1>6. Ancestry(c.body, i) = [k \in 1..1 |-> c.body[i].name]
  BY <1>2 DEF Ancestry
<1>7. \A k \in 1..1 : k = 1
  OBVIOUS
<1> QED
  BY <1>2, <1>3, <1>5, <1>6, <1>7

LEMMA NextPath ==
  ASSUME NEW c \in Contents, c.headings = extract_headings(c.body), ProperHeadings(c.body),
         NEW i \in HeadLines(c.body), NEW p \in HeadLines(c.body),
         p < i, \A k \in HeadLines(c.body) : ~(p < k /\ k < i), OneOfEach(c.body, p)
  PROVE  Descend(Ancestry(c.body, p), HeadingOf(c, i)) = Ancestry(c.body, i) /\ OneOfEach(c.body, i)
<1> DEFINE lev(k) == c.body[k].level
           name(k) == c.body[k].name
           old == Ancestors(c.body, p)
           new == Ancestors(c.body, i)
           path == Ancestry(c.body, p)
<1>1. c.body \in Seq(Lines)
  BY ContentIs
<1>2. /\ lev(i) <= lev(p) + 1 /\ OneOfEach(c.body, i)
      /\ new = [k \in 1..lev(i) |-> IF k = lev(i) THEN i ELSE old[k]]
  BY <1>1, NextHeading
<1>3. /\ lev(i) \in Nat /\ lev(i) >= 1 /\ lev(p) \in Nat /\ name(i) \in Seq(STRING)
      /\ \A k \in HeadLines(c.body) : name(k) \in Seq(STRING)
  BY <1>1, HeadsAre
<1>4. HeadingOf(c, i) = <<lev(i), name(i)>>
  BY OwnHeading
<1>5. old \in [1..lev(p) -> Above(c.body, p)]
  BY DEF OneOfEach, Lists
<1>6. path = [k \in 1..lev(p) |-> name(old[k])]
  BY <1>5 DEF Ancestry
<1>7. Ancestry(c.body, i) = [k \in DOMAIN new |-> name(new[k])]
  BY DEF Ancestry
<1>8. \A k \in 1..lev(p) : old[k] \in HeadLines(c.body)
  BY <1>5 DEF Above
<1>9. \A k \in 1..lev(p) : name(old[k]) \in Seq(STRING)
  BY <1>3, <1>8
<1> HIDE DEF lev, name, old, new, path
<1>10. path \in Seq(Seq(STRING)) /\ Len(path) = lev(p)
  <2> DEFINE V == Seq(STRING)
  <2>1. \A k \in 1..lev(p) : name(old[k]) \in V
    BY <1>9
  <2> HIDE DEF V
  <2>2. path \in Seq(V) /\ Len(path) = lev(p)
    BY <1>3, <1>6, <2>1
  <2> QED
    BY <2>2 DEF V
<1>11. Descend(path, <<lev(i), name(i)>>) = [k \in 1..lev(i) |-> IF k = lev(i) THEN name(i) ELSE path[k]]
  <2>1. 1 <= lev(i) /\ lev(i) <= Len(path) + 1
    BY <1>2, <1>3, <1>10
  <2> QED
    BY <1>3, <1>10, <2>1, DescendIs
<1>12. ASSUME NEW k \in 1..lev(i) PROVE name(new[k]) = IF k = lev(i) THEN name(i) ELSE path[k]
  <2>1. new[k] = IF k = lev(i) THEN i ELSE old[k]
    BY <1>2
  <2>2. k # lev(i) => k \in 1..lev(p)
    BY <1>2, <1>3
  <2>3. k # lev(i) => path[k] = name(old[k])
    BY <1>6, <2>2
  <2> QED
    BY <2>1, <2>3
<1>13. DOMAIN new = 1..lev(i)
  BY <1>2
<1>14. [k \in 1..lev(i) |-> IF k = lev(i) THEN name(i) ELSE path[k]] = [k \in 1..lev(i) |-> name(new[k])]
  BY <1>12
<1>15. Descend(path, HeadingOf(c, i)) = Ancestry(c.body, i)
  BY <1>4, <1>7, <1>11, <1>13, <1>14
<1> QED
  BY <1>2, <1>15 DEF path

\* heading_path at each section is the chain of headings above its first line.
LEMMA PathsAreAncestry ==
  ASSUME NEW c \in Contents, c.headings = extract_headings(c.body), ProperHeadings(c.body),
         NEW k \in DOMAIN StartsOf(c)
  PROVE  PathsOf(c, StartsOf(c))[k] = Ancestry(c.body, StartsOf(c)[k])
<1> DEFINE starts == StartsOf(c)
           n == Len(c.body)
           m == Len(starts)
           H == HeadLines(c.body)
           path == PathsOf(c, starts)
           right(l) == IF starts[l] \in H
                       THEN path[l] = Ancestry(c.body, starts[l]) /\ OneOfEach(c.body, starts[l])
                       ELSE l = 1 /\ path[l] = <<>>
           Good == {l \in 0..m : l >= 1 => right(l)}
<1>1. c.body \in Seq(Lines) /\ n \in Nat /\ DOMAIN c.body = 1..n
  BY ContentIs
<1>2. /\ starts \in Seq(1..n) /\ \A j, l \in DOMAIN starts : j < l => starts[j] < starts[l]
      /\ \A i \in 1..n : (i = 1 \/ Headed(c, i)) <=> \E l \in DOMAIN starts : starts[l] = i
  BY StartsInOrder
<1>3. \A i \in 1..n : Headed(c, i) <=> i \in H
  BY <1>1, HeadedIsHead
<1>4. H \in SUBSET Int /\ H \subseteq 1..n
  BY <1>1, HeadsAre
<1>5. m \in Nat /\ DOMAIN starts = 1..m /\ starts \in Seq(Nat) /\ \A l \in 1..m : starts[l] \in 1..n
  <2> DEFINE N == 1..n
  <2>1. starts \in Seq(N) /\ \A i \in N : i \in Nat
    BY <1>1, <1>2
  <2> HIDE DEF starts, N
  <2>2. m \in Nat /\ DOMAIN starts = 1..m /\ \A l \in 1..m : starts[l] \in N
    BY <2>1
  <2>3. starts \in Seq(Nat)
    BY <2>1, <2>2
  <2> QED
    BY <2>2, <2>3 DEF N
<1>6. /\ path[0] = <<>>
      /\ \A l \in 1..m : path[l] = IF Headed(c, starts[l]) THEN Descend(path[l - 1], HeadingOf(c, starts[l]))
                                   ELSE path[l - 1]
  BY <1>5, PathsUnfold
<1> HIDE DEF starts, m, H, path, n
<1>7. 0 \in Good
  BY <1>5
<1>8. ASSUME NEW l \in 1..m, l - 1 \in Good PROVE l \in Good
  <2> DEFINE i == starts[l]
  <2>0. l \in 0..m /\ l >= 1 /\ i \in 1..n
    BY <1>5
  <2>1. \A x \in H : x < i => \E j \in 1..m : starts[j] = x /\ j < l
    <3> SUFFICES ASSUME NEW x \in H, x < i PROVE \E j \in 1..m : starts[j] = x /\ j < l
      OBVIOUS
    <3>1. PICK j \in 1..m : starts[j] = x
      BY <1>2, <1>3, <1>4, <1>5
    <3>2. ~(l < j) /\ l # j
      <4>1. l < j => i < x
        BY <1>2, <1>5, <3>1
      <4>2. x \in Int /\ i \in Int
        BY <1>1, <1>4, <2>0
      <4> HIDE DEF i
      <4>3. ~(l < j)
        BY <4>1, <4>2
      <4>4. l # j
        BY <3>1, <4>2 DEF i
      <4> QED
        BY <4>3, <4>4
    <3>3. j < l
      BY <1>5, <3>2
    <3> QED
      BY <3>1, <3>3
  <2>2. CASE i \notin H
    <3>1. i = 1
      BY <1>2, <1>3, <1>5, <2>0, <2>2
    <3>2. l = 1
      <4> SUFFICES ASSUME l # 1 PROVE FALSE
        OBVIOUS
      <4>1. 1 \in 1..m /\ 1 < l
        BY <1>5
      <4>2. starts[1] < i /\ starts[1] \in 1..n
        BY <1>2, <1>5, <4>1
      <4> HIDE DEF i
      <4> QED
        BY <1>1, <3>1, <4>2
    <3>3. path[l] = <<>>
      <4>1. path[l] = path[l - 1] /\ l - 1 = 0
        BY <1>3, <1>6, <2>0, <2>2, <3>2
      <4> QED
        BY <1>6, <4>1
    <3> QED
      BY <2>0, <2>2, <3>2, <3>3
  <2>3. CASE i \in H
    <3>1. path[l] = Descend(path[l - 1], HeadingOf(c, i))
      BY <1>3, <1>6, <2>0, <2>3
    <3>2. CASE \A x \in H : ~(x < i)
      <4>1. path[l - 1] = <<>>
        <5>1. CASE l = 1
          <6>1. l - 1 = 0
            BY <5>1
          <6> QED
            BY <1>6, <6>1
        <5>2. CASE l # 1
          <6>1. l - 1 \in 1..m /\ l - 1 < l /\ l - 1 >= 1
            BY <1>5, <5>2
          <6>2. starts[l - 1] < i
            BY <1>2, <1>5, <6>1
          <6>3. starts[l - 1] \notin H
            BY <3>2, <6>2
          <6> QED
            BY <1>8, <6>1, <6>3
        <5> QED
          BY <5>1, <5>2
      <4>2. Descend(<<>>, HeadingOf(c, i)) = Ancestry(c.body, i) /\ OneOfEach(c.body, i)
        BY <2>3, <3>2, FirstPath DEF H
      <4> QED
        BY <2>0, <2>3, <3>1, <4>1, <4>2
    <3>3. CASE \E x \in H : x < i
      <4> DEFINE p == starts[l - 1]
      <4>1. PICK x \in H : x < i
        BY <3>3
      <4>2. PICK j \in 1..m : starts[j] = x /\ j < l
        BY <2>1, <4>1
      <4>3. l - 1 \in 1..m /\ l - 1 < l /\ l - 1 >= 1 /\ j <= l - 1
        BY <1>5, <4>2
      <4>4. p \in H
        <5>1. CASE j = l - 1
          BY <4>2, <5>1
        <5>2. CASE j # l - 1
          <6>1. l - 1 # 1
            BY <4>2, <4>3, <5>2
          <6> QED
            BY <1>8, <4>3, <6>1
        <5> QED
          BY <5>1, <5>2
      <4>5. p < i /\ p \in Int
        BY <1>2, <1>4, <1>5, <4>3, <4>4
      <4>6. ASSUME NEW y \in H, p < y, y < i PROVE FALSE
        <5>1. PICK d \in 1..m : starts[d] = y /\ d < l
          BY <2>1, <4>6
        <5>2. d <= l - 1
          BY <5>1
        <5>3. d # l - 1
          <6>1. d = l - 1 => p = y
            BY <5>1
          <6>2. y \in Int
            BY <1>4
          <6> HIDE DEF p
          <6> QED
            BY <4>5, <4>6, <6>1, <6>2
        <5>4. d < l - 1
          BY <5>2, <5>3
        <5>5. y < p
          BY <1>2, <1>5, <4>3, <5>1, <5>4
        <5>6. y \in Int
          BY <1>4
        <5> HIDE DEF p
        <5> QED
          BY <4>5, <4>6, <5>5, <5>6
      <4>7. path[l - 1] = Ancestry(c.body, p) /\ OneOfEach(c.body, p)
        BY <1>8, <4>3, <4>4
      <4>8. Descend(Ancestry(c.body, p), HeadingOf(c, i)) = Ancestry(c.body, i) /\ OneOfEach(c.body, i)
        <5> HIDE DEF p, i
        <5>1. i \in HeadLines(c.body) /\ p \in HeadLines(c.body)
          BY <2>3, <4>4 DEF H
        <5>2. \A y \in HeadLines(c.body) : ~(p < y /\ y < i)
          BY <4>6 DEF H
        <5> QED
          BY <4>5, <4>7, <5>1, <5>2, NextPath
      <4> QED
        BY <2>0, <2>3, <3>1, <4>7, <4>8
    <3> QED
      BY <3>2, <3>3
  <2> QED
    BY <2>2, <2>3
<1>9. \A l \in 0..m : l \in Good
  <2> HIDE DEF Good
  <2> QED
    BY <1>5, <1>7, <1>8, UpTo
<1>10. k \in 1..m /\ right(k)
  <2>1. k \in 1..m
    BY <1>5 DEF starts
  <2>2. k \in 0..m /\ k >= 1
    BY <1>5, <2>1
  <2>3. k \in Good
    BY <1>9, <2>2
  <2> QED
    BY <2>1, <2>2, <2>3
<1>11. CASE starts[k] \in H
  BY <1>10, <1>11 DEF starts, path
<1>12. CASE starts[k] \notin H
  <2>1. k = 1 /\ path[k] = <<>> /\ starts[k] \in 1..n
    BY <1>5, <1>10, <1>12
  <2>2. starts[k] = 1
    BY <1>2, <1>3, <1>5, <1>10, <1>12, <2>1
  <2>3. \A x \in HeadLines(c.body) : ~(x <= 1)
    <3>1. \A x \in H : x \in 1..n /\ x # 1
      BY <1>4, <1>12, <2>2
    <3> QED
      BY <1>1, <3>1 DEF H
  <2>4. Ancestry(c.body, 1) = <<>>
    BY <1>1, <2>3, NothingAbove
  <2> QED
    BY <2>1, <2>2, <2>4 DEF starts, path
<1> QED
  BY <1>11, <1>12

-----------------------------------------------------------------------------
\* The invariant of the chunker and what it gives.

\* Each section has the headings above its first line for a path.
LEMMA SplitAncestry ==
  ASSUME NEW c \in Contents, c.headings = extract_headings(c.body), ProperHeadings(c.body),
         NEW k \in DOMAIN split_by_heading(c)
  PROVE  split_by_heading(c)[k].path = Ancestry(c.body, split_by_heading(c)[k].from)
<1>1. CASE c.headings = <<>>
  <2>1. split_by_heading(c) = <<Section(<<>>, 1, Len(c.body), FALSE)>>
    BY <1>1 DEF split_by_heading
  <2>2. split_by_heading(c)[k].path = <<>> /\ split_by_heading(c)[k].from = 1
    BY <2>1 DEF Section
  <2>3. c.body \in Seq(Lines)
    BY ContentIs
  <2>4. HeadLines(c.body) = {}
    <3>1. \A j \in HeadLines(c.body) : \E l \in DOMAIN c.headings :
            c.headings[l] = <<c.body[j].level, c.body[j].name>>
      BY <2>3, HeadingsList
    <3>2. DOMAIN c.headings = {}
      BY <1>1
    <3> QED
      BY <3>1, <3>2
  <2>5. Ancestry(c.body, 1) = <<>>
    BY <2>3, <2>4, NothingAbove
  <2> QED
    BY <2>2, <2>5
<1>2. CASE c.headings # <<>>
  <2>1. k \in DOMAIN StartsOf(c)
    BY <1>2, SplitAtHeadings
  <2>2. /\ split_by_heading(c)[k].path = PathsOf(c, StartsOf(c))[k]
        /\ split_by_heading(c)[k].from = StartsOf(c)[k]
    <3> DEFINE to == IF k = Len(StartsOf(c)) THEN Len(c.body) ELSE StartsOf(c)[k + 1] - 1
    <3>1. split_by_heading(c)[k] = Section(PathsOf(c, StartsOf(c))[k], StartsOf(c)[k], to, TRUE)
      BY <1>2, <2>1, SplitAtHeadings
    <3> HIDE DEF to
    <3> QED
      BY <3>1 DEF Section
  <2> QED
    BY <2>1, <2>2, PathsAreAncestry
<1> QED
  BY <1>1, <1>2

\* What the chunks already made and the sections still to come carry: the other half.
ChunksAreRight ==
    chunks \in Seq(Chunks) /\ SectionsHaveAncestry /\ HeadingPathIsAncestry /\ LocatorsCoverText

\* Collecting the windows of the current section keeps it.
LEMMA CollectedAreRight ==
  ASSUME ChunkerState, WindowIInv, ChunksAreRight, chunks' = Collected, doc' = doc, content' = content
  PROVE  chunks' \in Seq(Chunks) /\ HeadingPathIsAncestry' /\ LocatorsCoverText'
<1>1. chunks \in Seq(Chunks) /\ SectionsHaveAncestry /\ HeadingPathIsAncestry /\ LocatorsCoverText
  BY DEF ChunksAreRight
<1>2. /\ chunks' \in Seq(Chunks)
      /\ \A k \in DOMAIN chunks' :
            \/ k \in DOMAIN chunks /\ chunks'[k] = chunks[k]
            \/ \E j \in DOMAIN windows : chunks'[k] = ChunkOf(j)
  BY <1>1, CollectedIs
<1>3. \A j \in DOMAIN windows : CoversText(content.body, ChunkOf(j))
  BY ChunkCovers
<1>4. LocatorsCoverText'
  <2>1. ASSUME NEW k \in DOMAIN chunks' PROVE CoversText(content.body, chunks'[k])
    <3>1. CASE k \in DOMAIN chunks /\ chunks'[k] = chunks[k]
      BY <1>1, <3>1 DEF LocatorsCoverText
    <3>2. CASE \E j \in DOMAIN windows : chunks'[k] = ChunkOf(j)
      BY <1>3, <3>2
    <3> QED
      BY <1>2, <3>1, <3>2
  <2> QED
    BY <2>1 DEF LocatorsCoverText
<1>5. HeadingPathIsAncestry'
  <2> SUFFICES ASSUME doc.media_type \in {"markdown", "html"}, ProperHeadings(content.body), NEW k \in DOMAIN chunks'
               PROVE  chunks'[k].path = Ancestry(content.body, chunks'[k].section)
    BY DEF HeadingPathIsAncestry
  <2>1. CASE k \in DOMAIN chunks /\ chunks'[k] = chunks[k]
    BY <1>1, <2>1 DEF HeadingPathIsAncestry
  <2>2. ASSUME NEW j \in DOMAIN windows, chunks'[k] = ChunkOf(j)
        PROVE  chunks'[k].path = Ancestry(content.body, chunks'[k].section)
    <3>1. scan # "idle"
      BY <2>2 DEF ChunkerState, TextIsCurrent
    <3>2. current.path = Ancestry(content.body, current.from)
      BY <1>1, <3>1 DEF SectionsHaveAncestry
    <3>3. ChunkOf(j).path = current.path /\ ChunkOf(j).section = current.from
      BY DEF ChunkOf
    <3> QED
      BY <2>2, <3>2, <3>3
  <2> QED
    BY <1>2, <2>1, <2>2
<1> QED
  BY <1>2, <1>4, <1>5

LEMMA ParseIsRight ==
  ASSUME ChunkerState, ChunksAreRight, Parse
  PROVE  ChunksAreRight'
<1>1. /\ doc' = doc /\ chunks' = chunks /\ content' = ParsedContent(doc) /\ sections' = split_by_heading(content')
      /\ UNCHANGED windowVars /\ status = "new"
  BY DEF Parse
<1>2. doc \in Documents /\ chunks = <<>> /\ scan = "idle"
  BY <1>1 DEF ChunkerState, ChunkerTypeOK, ContentIsParsed
<1>3. scan' = "idle" /\ DOMAIN chunks' = {} /\ chunks' \in Seq(Chunks)
  BY <1>1, <1>2 DEF windowVars
<1>4. content' \in Contents
  BY <1>1, <1>2, ParsedContentType
<1>5. ASSUME doc.media_type \in {"markdown", "html"}, ProperHeadings(content'.body), NEW k \in DOMAIN sections'
      PROVE  sections'[k].path = Ancestry(content'.body, sections'[k].from)
  <2> DEFINE c == content'
  <2>1. c \in Contents /\ c.headings = extract_headings(c.body)
    BY <1>1, <1>4, <1>5, BlocksOfFormat
  <2>2. ProperHeadings(c.body) /\ k \in DOMAIN split_by_heading(c) /\ sections' = split_by_heading(c)
    BY <1>1, <1>5
  <2> HIDE DEF c
  <2>3. split_by_heading(c)[k].path = Ancestry(c.body, split_by_heading(c)[k].from)
    BY <2>1, <2>2, SplitAncestry
  <2> QED
    BY <2>2, <2>3 DEF c
<1>6. SectionsHaveAncestry'
  BY <1>1, <1>3, <1>5 DEF SectionsHaveAncestry
<1>7. HeadingPathIsAncestry' /\ LocatorsCoverText'
  BY <1>3 DEF HeadingPathIsAncestry, LocatorsCoverText
<1> QED
  BY <1>3, <1>6, <1>7 DEF ChunksAreRight

LEMMA NextSectionIsRight ==
  ASSUME ChunkerState, WindowIInv, ChunksAreRight, NextSection
  PROVE  ChunksAreRight'
<1>1. /\ doc' = doc /\ content' = content /\ chunks' = Collected /\ sections # <<>>
      /\ current' = Head(sections) /\ sections' = Tail(sections)
  BY DEF NextSection
<1>2. chunks' \in Seq(Chunks) /\ HeadingPathIsAncestry' /\ LocatorsCoverText'
  BY <1>1, CollectedAreRight
<1>3. /\ current' = sections[1] /\ 1 \in DOMAIN sections
      /\ \A k \in DOMAIN sections' : k + 1 \in DOMAIN sections /\ sections'[k] = sections[k + 1]
  <2> DEFINE S == SectionsOf(content)
  <2>1. sections \in Seq(S)
    BY DEF ChunkerState, ChunkerTypeOK
  <2> HIDE DEF S
  <2> QED
    BY <1>1, <2>1
<1>4. SectionsHaveAncestry'
  <2> SUFFICES ASSUME doc.media_type \in {"markdown", "html"}, ProperHeadings(content.body)
               PROVE  /\ \A k \in DOMAIN sections' : sections'[k].path = Ancestry(content.body, sections'[k].from)
                      /\ current'.path = Ancestry(content.body, current'.from)
    BY <1>1 DEF SectionsHaveAncestry
  <2>1. \A k \in DOMAIN sections : sections[k].path = Ancestry(content.body, sections[k].from)
    BY DEF ChunksAreRight, SectionsHaveAncestry
  <2> QED
    BY <1>3, <2>1
<1> QED
  BY <1>2, <1>4 DEF ChunksAreRight

LEMMA FinishIsRight ==
  ASSUME ChunkerState, WindowIInv, ChunksAreRight, Finish
  PROVE  ChunksAreRight'
<1>1. /\ doc' = doc /\ content' = content /\ chunks' = Collected /\ sections' = sections /\ current' = current
      /\ scan' = scan
  BY DEF Finish, windowVars
<1>2. chunks' \in Seq(Chunks) /\ HeadingPathIsAncestry' /\ LocatorsCoverText'
  BY <1>1, CollectedAreRight
<1>3. SectionsHaveAncestry'
  BY <1>1 DEF ChunksAreRight, SectionsHaveAncestry
<1> QED
  BY <1>2, <1>3 DEF ChunksAreRight

\* The other steps leave the chunks and the sections alone.
LEMMA OthersAreRight ==
  ASSUME ChunkerState, ChunksAreRight, SlideWindow \/ (\E r \in UnsupportedReason : Reject(r)) \/ UNCHANGED vars
  PROVE  ChunksAreRight'
<1>1. doc' = doc /\ content' = content /\ sections' = sections /\ current' = current /\ chunks' = chunks
  BY DEF SlideWindow, Reject, vars, chunkerVars
<1>2. (scan = "idle") <=> (scan' = "idle")
  BY SlideState DEF Reject, vars, windowVars
<1>3. SectionsHaveAncestry'
  BY <1>1, <1>2 DEF ChunksAreRight, SectionsHaveAncestry
<1>4. HeadingPathIsAncestry' /\ LocatorsCoverText'
  BY <1>1 DEF ChunksAreRight, HeadingPathIsAncestry, LocatorsCoverText
<1> QED
  BY <1>1, <1>3, <1>4 DEF ChunksAreRight

(***************************************************************************)
(* The chunker's inductive invariant: the content is what the parser made  *)
(* of the document, the text and the ranges being chunked are those of the *)
(* current section, every section and chunk carries its headings, and a    *)
(* chunk's locators cover what it shows.                                   *)
(***************************************************************************)
THEOREM ChunkerInvariant == Spec => []ChunkerIInv
<1>1. Init => ChunksAreRight
  <2> SUFFICES ASSUME Init PROVE ChunksAreRight
    OBVIOUS
  <2>1. chunks = <<>> /\ sections = <<>> /\ scan = "idle"
    BY DEF Init, InitIdle
  <2> QED
    BY <2>1 DEF ChunksAreRight, SectionsHaveAncestry, HeadingPathIsAncestry, LocatorsCoverText
<1>2. ChunkerState /\ WindowIInv /\ ChunksAreRight /\ [Next]_vars => ChunksAreRight'
  BY ParseIsRight, NextSectionIsRight, FinishIsRight, OthersAreRight DEF Next
<1>3. ChunkerState /\ WindowIInv /\ ChunksAreRight => ChunkerIInv
  BY DEF ChunkerState, ChunksAreRight, ChunkerIInv
<1>4. Spec => []WindowIInv
  BY ChunkerImplementsWindows, WindowInvariant, PTL
<1> QED
  BY <1>1, <1>2, <1>3, <1>4, ChunkerStateHolds, PTL DEF Spec

(***************************************************************************)
(* The heading_path of a chunk is the chain of headings above it, for      *)
(* every document whose headings skip no level, have one space after their *)
(* marks and do not begin with the text of another of their level, and     *)
(* that has no indented line that reads like a heading.                    *)
(***************************************************************************)
THEOREM ChunksNameTheirHeadings == Spec => []HeadingPathIsAncestry
<1>1. ChunkerIInv => HeadingPathIsAncestry
  BY DEF ChunkerIInv
<1> QED
  BY <1>1, ChunkerInvariant, PTL

(***************************************************************************)
(* A chunk's start and end locators cover every visible character of it,   *)
(* for every document, window size and overlap.                            *)
(***************************************************************************)
THEOREM LocatorsAreRight == Spec => []LocatorsCoverText
<1>1. ChunkerIInv => LocatorsCoverText
  BY DEF ChunkerIInv
<1> QED
  BY <1>1, ChunkerInvariant, PTL

(***************************************************************************)
(* A fenced block, a table or a list item is whole in one chunk, in the    *)
(* formats whose parsers find it, for every window size and overlap, as    *)
(* long as blocks are not nested and none ends exactly where a window      *)
(* does that begins in it. Where lines end with CRLF, its end may be cut   *)
(* off by as many characters as lines of the section up to there do.       *)
(***************************************************************************)
THEOREM BlocksStayWhole == Spec => []BlocksAreWhole
<1>1. ChunkerIInv => BlocksAreWhole
  BY StateKeepsBlocks DEF ChunkerIInv, ChunkerState
<1> QED
  BY <1>1, ChunkerInvariant, PTL

\* What is left of the section being chunked.
Left == IF scan = "scan" THEN text.len - start + 1 ELSE 0

\* A step ends the document's state or shortens what is left, of the sections first.
MovesOn ==
    \/ status = "new" /\ status' # "new"
    \/ status = "chunking" /\ status' = "done"
    \/ /\ status = "chunking" /\ status' = "chunking"
       /\ \/ Len(sections') \in Nat /\ Len(sections') < Len(sections)
          \/ sections' = sections /\ Left' \in Nat /\ Left' < Left

LEMMA SlideMovesOn ==
  ASSUME WindowIInv, Slide
  PROVE  Left' \in Nat /\ Left' < Left
<1>1. WindowTypeOK /\ start \in 0..text.len /\ text.len \in Nat
  BY RangeType DEF WindowIInv, WindowTypeOK
<1>2. scan = "scan" /\ text' = text
  BY DEF Slide, SkipBlank, EmitWindow, RunOut
<1>3. Left = text.len - start + 1
  BY <1>2 DEF Left
<1>4. CASE scan' # "scan"
  BY <1>1, <1>3, <1>4 DEF Left
<1>5. CASE scan' = "scan"
  <2>1. start < text.len /\ (start' = Smaller(start + 1, text.len) \/ start' = NextStart(WindowEnd))
    BY <1>5 DEF Slide, SkipBlank, EmitWindow, RunOut
  <2>2. NextStart(WindowEnd) \in 0..text.len /\ start < NextStart(WindowEnd)
    BY <1>2, <2>1, NextStartAdvances
  <2>3. start' \in 0..text.len /\ start < start'
    BY <1>1, <2>1, <2>2 DEF Smaller
  <2>4. Left' = text.len - start' + 1
    BY <1>2, <1>5 DEF Left
  <2> QED
    BY <1>1, <1>3, <2>3, <2>4
<1> QED
  BY <1>4, <1>5

\* The last section is chunked to its end before the document is done.
DoneIsChunked == status = "done" => scan # "scan"

LEMMA DoneMeansChunked == Spec => []DoneIsChunked
<1>1. Init => DoneIsChunked
  BY DEF Init, DoneIsChunked
<1>2. DoneIsChunked /\ [Next]_vars => DoneIsChunked'
  <2>1. ASSUME NEW r \in UnsupportedReason, Reject(r) PROVE status' # "done"
    BY <2>1 DEF Reject, UnsupportedReason
  <2>2. ASSUME Parse \/ NextSection PROVE status' # "done"
    BY <2>2 DEF Parse, NextSection
  <2>3. ASSUME Finish PROVE scan' # "scan"
    BY <2>3 DEF Finish, windowVars
  <2>4. ASSUME DoneIsChunked, SlideWindow PROVE status' # "done"
    BY <2>4 DEF DoneIsChunked, SlideWindow, Slide, SkipBlank, EmitWindow, RunOut, chunkerVars
  <2>5. ASSUME DoneIsChunked, UNCHANGED vars PROVE DoneIsChunked'
    BY <2>5 DEF DoneIsChunked, vars, chunkerVars, windowVars
  <2> QED
    BY <2>1, <2>2, <2>3, <2>4, <2>5 DEF DoneIsChunked, Next
<1> QED
  BY <1>1, <1>2, PTL DEF Spec

(***************************************************************************)
(* The while loops of chunk and _chunk_text cannot run for ever: every     *)
(* step leaves fewer sections, or less of the current one. This is the     *)
(* part of ChunkingEnds that needs no fairness.                            *)
(***************************************************************************)
THEOREM ChunkerMovesOn == Spec => [][MovesOn]_vars
<1>1. ASSUME ChunkerIInv, DoneIsChunked, [Next]_vars PROVE [MovesOn]_vars
  <2>1. ASSUME NEW r \in UnsupportedReason, Reject(r) PROVE MovesOn
    <3>1. status = "new" /\ status' = r /\ r # "new"
      BY <2>1 DEF Reject, UnsupportedReason
    <3> QED
      BY <3>1 DEF MovesOn
  <2>2. ASSUME Parse \/ Finish PROVE MovesOn
    BY <2>2 DEF Parse, Finish, MovesOn
  <2>3. ASSUME NextSection PROVE MovesOn
    <3> DEFINE S == SectionsOf(content)
    <3>1. sections \in Seq(S) /\ sections # <<>> /\ sections' = Tail(sections) /\ status = "chunking" /\ status' = status
      BY <1>1, <2>3 DEF ChunkerIInv, ChunkerTypeOK, NextSection
    <3> HIDE DEF S
    <3>2. Len(sections') \in Nat /\ Len(sections') < Len(sections)
      BY <3>1
    <3> QED
      BY <3>1, <3>2 DEF MovesOn
  <2>4. ASSUME SlideWindow PROVE MovesOn
    <3>1. Slide /\ sections' = sections /\ status' = status
      BY <2>4 DEF SlideWindow, chunkerVars
    <3>2. Left' \in Nat /\ Left' < Left
      BY <1>1, <3>1, SlideMovesOn DEF ChunkerIInv
    <3>3. status = "chunking"
      <4>1. scan = "scan"
        BY <3>1 DEF Slide, SkipBlank, EmitWindow, RunOut
      <4> QED
        BY <1>1, <4>1 DEF ChunkerIInv, ContentIsParsed, DoneIsChunked
    <3> QED
      BY <3>1, <3>2, <3>3 DEF MovesOn
  <2> QED
    BY <1>1, <2>1, <2>2, <2>3, <2>4 DEF Next
<1> QED
  BY <1>1, ChunkerInvariant, DoneMeansChunked, PTL DEF Spec
=============================================================================
