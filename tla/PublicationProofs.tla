------------------------- MODULE PublicationProofs -------------------------
(***************************************************************************)
(* Proofs about EvidenceChain, what it says of a graph that its verifier   *)
(* finds nothing wrong with, and ReportRecord, what becomes of a snapshot; *)
(* about ReportDelivery, what a client that reads page by page has read,   *)
(* for any collections, page sizes and changes between two pages, and what *)
(* an import makes of an export, for any records and any damage on the     *)
(* way; about Presentation, what the inbox says of forms, records and      *)
(* files; and about Reconciliation, how far apart reconciled totals are.   *)
(***************************************************************************)
EXTENDS ReportRecord, ReportDelivery, Presentation, Reconciliation, SequenceTheorems,
        FiniteSetTheorems, WellFoundedInduction, TLAPS

(* Induction up to n, with a set in place of the predicate.                *)
LEMMA UpTo ==
  ASSUME NEW n \in Nat, NEW T, 0 \in T, \A i \in 1 .. n : i - 1 \in T => i \in T
  PROVE  \A i \in 0 .. n : i \in T
<1> DEFINE S == {i \in Nat : i <= n /\ i \notin T}
           R == OpToRel(<, Nat)
<1>1. IsWellFoundedOn(R, Nat)
  BY NatLessThanWellFounded
<1>2. ASSUME S # {} PROVE FALSE
  <2>1. PICK m \in S : \A y \in S : ~(<<y, m>> \in R)
    <3>1. S \subseteq Nat /\ S # {}
      BY <1>2
    <3> HIDE DEF S, R
    <3> QED BY <1>1, <3>1, WFMin
  <2>2. \A y \in S : ~(y < m)
    BY <2>1 DEF OpToRel
  <2> HIDE DEF R
  <2>3. m # 0 /\ m - 1 \in Nat /\ m - 1 < m /\ m \in 1 .. n
    OBVIOUS
  <2>4. m - 1 \in T
    BY <2>2, <2>3
  <2> QED BY <2>3, <2>4
<1> QED BY <1>2

(* From a in X, n times a function from X to X, the i-th one the i-th time. *)
Iterates(f, n, X, a, G) ==
  /\ f \in [0 .. n -> X] /\ f[0] = a
  /\ \A i \in 1 .. n : f[i] = G[i][f[i - 1]]

LEMMA Iteration ==
  ASSUME NEW n \in Nat, NEW X, NEW a \in X, NEW G \in [1 .. n -> [X -> X]]
  PROVE  \E f : Iterates(f, n, X, a, G)
<1> DEFINE T == {m \in 0 .. n : \E f : Iterates(f, m, X, a, G)}
<1>1. 0 \in T
  <2>1. Iterates([i \in 0 .. 0 |-> a], 0, X, a, G)
    BY DEF Iterates
  <2> QED BY <2>1
<1>2. ASSUME NEW m \in 1 .. n, m - 1 \in T PROVE m \in T
  <2>1. PICK f : Iterates(f, m - 1, X, a, G)
    BY <1>2
  <2>2. /\ f \in [0 .. (m - 1) -> X] /\ f[0] = a
        /\ \A i \in 1 .. (m - 1) : f[i] = G[i][f[i - 1]]
    BY <2>1 DEF Iterates
  <2>3. PICK v \in X : v = G[m][f[m - 1]]
    BY <2>2
  <2> DEFINE h == [i \in 0 .. m |-> IF i < m THEN f[i] ELSE v]
  <2>4. h \in [0 .. m -> X] /\ h[0] = a /\ h[m] = v /\ \A i \in 0 .. (m - 1) : h[i] = f[i]
    BY <2>2
  <2> HIDE DEF h
  <2>5. ASSUME NEW i \in 1 .. m PROVE h[i] = G[i][h[i - 1]]
    <3>1. CASE i = m
      BY <2>3, <2>4, <3>1
    <3>2. CASE i # m
      BY <2>2, <2>4, <3>2
    <3> QED BY <3>1, <3>2
  <2>6. Iterates(h, m, X, a, G)
    BY <2>4, <2>5 DEF Iterates
  <2> QED BY <2>6
<1> HIDE DEF T
<1>3. \A m \in 0 .. n : m \in T
  <2>1. \A m \in 1 .. n : m - 1 \in T => m \in T
    BY <1>2
  <2> QED BY <1>1, <2>1, UpTo
<1>4. n \in T
  BY <1>3
<1> QED BY <1>4 DEF T

-----------------------------------------------------------------------------
(* Edges lead from nodes of the graph to nodes of the graph.               *)
Nodes(g) == DOMAIN g.nodes
Closed(g, C) == \A n \in C : Adjacent(g, n) \subseteq C

LEMMA AdjacentNodes ==
  ASSUME NEW g, NEW n
  PROVE  Adjacent(g, n) \subseteq Nodes(g)
BY DEF Adjacent, TypedEdges, Known, Nodes

LEMMA NodesClosed ==
  ASSUME NEW g
  PROVE  Closed(g, Nodes(g))
BY AdjacentNodes DEF Closed

(* ReachedFrom, round by round.                                            *)
ReachedBy(f, n, g, C, F) ==
  /\ f \in [0 .. n -> SUBSET C]
  /\ f[0] = F
  /\ \A k \in 1 .. n : f[k] = WithAdjacent(g, f[k - 1])
  /\ ReachedFrom(g, F) = f[n]

LEMMA ReachedRounds ==
  ASSUME NEW g, IsGraph(g), NEW C, NEW F \in SUBSET C, Closed(g, C)
  PROVE  \E f : ReachedBy(f, Cardinality(Nodes(g)), g, C, F)
<1> DEFINE n == Cardinality(DOMAIN g.nodes)
           X == SUBSET C
           G == [k \in 1 .. n |-> [S \in X |-> WithAdjacent(g, S)]]
           reached[k \in 0 .. Cardinality(DOMAIN g.nodes)] ==
             IF k = 0 THEN F ELSE WithAdjacent(g, reached[k - 1])
<1>1. n \in Nat
  BY FS_CardinalityType DEF IsGraph
<1>2. G \in [1 .. n -> [X -> X]]
  BY DEF WithAdjacent, Closed
<1>3. PICK f : Iterates(f, n, X, F, G)
  <2> HIDE DEF n, G
  <2> QED BY <1>1, <1>2, Iteration
<1>4. f \in [0 .. n -> X] /\ f[0] = F
  BY <1>3 DEF Iterates
<1>5. \A k \in 1 .. n : f[k] = WithAdjacent(g, f[k - 1])
  <2> SUFFICES ASSUME NEW k \in 1 .. n PROVE f[k] = WithAdjacent(g, f[k - 1])
    OBVIOUS
  <2>1. f[k] = G[k][f[k - 1]] /\ f[k - 1] \in X
    <3> HIDE DEF G, n, X
    <3> QED BY <1>1, <1>3, <1>4 DEF Iterates
  <2> QED BY <2>1
<1>6. f = [k \in 0 .. n |-> IF k = 0 THEN F ELSE WithAdjacent(g, f[k - 1])]
  BY <1>4, <1>5
<1>7. reached = [k \in 0 .. n |-> IF k = 0 THEN F ELSE WithAdjacent(g, reached[k - 1])]
  BY <1>6
<1>8. ReachedFrom(g, F) = reached[n]
  BY DEF ReachedFrom
<1> HIDE DEF reached, n
<1>9. reached[0] = F /\ \A k \in 1 .. n : reached[k] = WithAdjacent(g, reached[k - 1])
  BY <1>1, <1>7
<1>10. \A k \in 0 .. n : reached[k] \in X
  <2> DEFINE T == {k \in 0 .. n : reached[k] \in X}
  <2>1. 0 \in T
    BY <1>1, <1>9
  <2>2. \A k \in 1 .. n : k - 1 \in T => k \in T
    BY <1>1, <1>9 DEF WithAdjacent, Closed
  <2> HIDE DEF T
  <2>3. \A k \in 0 .. n : k \in T
    BY <1>1, <2>1, <2>2, UpTo
  <2> QED BY <2>3 DEF T
<1>11. reached \in [0 .. n -> X]
  BY <1>7, <1>10
<1>12. ReachedBy(reached, n, g, C, F)
  BY <1>8, <1>9, <1>11 DEF ReachedBy
<1> QED BY <1>12 DEF n, Nodes

(* What is reached stays in every closed set with the start, and contains  *)
(* the start.                                                              *)
LEMMA ReachedWithin ==
  ASSUME NEW g, IsGraph(g), NEW C, NEW F \in SUBSET C, Closed(g, C)
  PROVE  ReachedFrom(g, F) \subseteq C
<1>1. Cardinality(Nodes(g)) \in Nat
  BY FS_CardinalityType DEF IsGraph, Nodes
<1>2. PICK f : ReachedBy(f, Cardinality(Nodes(g)), g, C, F)
  BY ReachedRounds
<1> QED BY <1>1, <1>2 DEF ReachedBy

(* As many rounds as there are nodes are enough: a round that adds nothing *)
(* ends the growth, and every other adds a node.                           *)
LEMMA ReachedClosed ==
  ASSUME NEW g, IsGraph(g), NEW F \in SUBSET Nodes(g)
  PROVE  F \subseteq ReachedFrom(g, F) /\ Closed(g, ReachedFrom(g, F))
<1> DEFINE N == Nodes(g)
<1> PICK n : n = Cardinality(N)
  OBVIOUS
<1>1. n \in Nat /\ IsFiniteSet(N)
  BY FS_CardinalityType DEF IsGraph, Nodes
<1>0. PICK f : ReachedBy(f, n, g, N, F)
  BY NodesClosed, ReachedRounds
<1>2. /\ f \in [0 .. n -> SUBSET N] /\ f[0] = F
      /\ \A k \in 1 .. n : f[k] = WithAdjacent(g, f[k - 1])
      /\ ReachedFrom(g, F) = f[n]
  BY <1>0 DEF ReachedBy
<1> HIDE DEF N
<1>3. ASSUME NEW S \in SUBSET N PROVE IsFiniteSet(S) /\ Cardinality(S) \in Nat /\ Cardinality(S) <= n
  <2>1. IsFiniteSet(S) /\ Cardinality(S) <= Cardinality(N)
    BY <1>1, FS_Subset
  <2>2. Cardinality(S) \in Nat
    BY <2>1, FS_CardinalityType
  <2> QED BY <2>1, <2>2
<1>4. ASSUME NEW S \in SUBSET N, Closed(g, S) PROVE WithAdjacent(g, S) = S
  BY <1>4 DEF Closed, WithAdjacent
<1>5. ASSUME NEW S \in SUBSET N, ~Closed(g, S), WithAdjacent(g, S) \subseteq N
      PROVE  Cardinality(WithAdjacent(g, S)) >= Cardinality(S) + 1
  <2> PICK T : T = WithAdjacent(g, S)
    OBVIOUS
  <2>1. S \subseteq T /\ S # T
    BY <1>5 DEF Closed, WithAdjacent
  <2>2. IsFiniteSet(T) /\ Cardinality(T) \in Nat /\ Cardinality(S) \in Nat
    BY <1>3, <1>5
  <2>3. Cardinality(S) <= Cardinality(T) /\ (Cardinality(S) = Cardinality(T) => S = T)
    BY <2>1, <2>2, FS_Subset
  <2> QED BY <2>1, <2>2, <2>3
<1> DEFINE G == {k \in 0 .. n : F \subseteq f[k] /\ (Closed(g, f[k]) \/ Cardinality(f[k]) >= k)}
<1>6. 0 \in G
  <2>1. Cardinality(f[0]) \in Nat
    BY <1>1, <1>2, <1>3
  <2> QED BY <1>1, <1>2, <2>1
<1>7. ASSUME NEW k \in 1 .. n, k - 1 \in G PROVE k \in G
  <2> PICK S \in SUBSET N : S = f[k - 1]
    BY <1>1, <1>2
  <2>1. f[k] = WithAdjacent(g, S) /\ f[k] \subseteq N /\ k \in 0 .. n
    BY <1>1, <1>2
  <2>2. F \subseteq S /\ (Closed(g, S) \/ Cardinality(S) >= k - 1)
    BY <1>7
  <2>3. F \subseteq f[k]
    BY <2>1, <2>2 DEF WithAdjacent
  <2>4. CASE Closed(g, S)
    BY <1>4, <2>1, <2>3, <2>4
  <2>5. CASE ~Closed(g, S)
    <3>1. Cardinality(S) \in Nat /\ Cardinality(f[k]) \in Nat
      BY <1>3, <2>1
    <3>2. Cardinality(f[k]) >= Cardinality(S) + 1
      BY <1>5, <2>1, <2>5
    <3>3. Cardinality(f[k]) >= k
      BY <1>1, <2>2, <2>5, <3>1, <3>2
    <3> QED BY <2>1, <2>3, <3>3
  <2> QED BY <2>4, <2>5
<1> HIDE DEF G
<1>8. n \in G
  <2>1. \A k \in 1 .. n : k - 1 \in G => k \in G
    BY <1>7
  <2>2. \A k \in 0 .. n : k \in G
    BY <1>1, <1>6, <2>1, UpTo
  <2> QED BY <1>1, <2>2
<1> PICK S \in SUBSET N : S = f[n]
  BY <1>1, <1>2
<1>9. F \subseteq S /\ (Closed(g, S) \/ Cardinality(S) >= n)
  BY <1>8 DEF G
<1>10. CASE Cardinality(S) >= n
  <2>1. Cardinality(S) \in Nat /\ Cardinality(S) <= n
    BY <1>3
  <2>2. Cardinality(S) = Cardinality(N)
    BY <1>1, <1>10, <2>1
  <2>3. S = N
    BY <1>1, <2>2, FS_Subset
  <2>4. Closed(g, S)
    BY <2>3, NodesClosed DEF N
  <2> QED BY <1>2, <1>9, <2>4
<1> QED BY <1>2, <1>9, <1>10

(* What a node leads to: the least closed set with its targets.            *)
LEMMA LeadsFacts ==
  ASSUME NEW g, IsGraph(g), NEW n
  PROVE  /\ LeadsTo(g, n) \subseteq Nodes(g)
         /\ Adjacent(g, n) \subseteq LeadsTo(g, n)
         /\ Closed(g, LeadsTo(g, n))
         /\ \A C : Adjacent(g, n) \subseteq C /\ Closed(g, C) => LeadsTo(g, n) \subseteq C
<1>1. Adjacent(g, n) \in SUBSET Nodes(g)
  BY AdjacentNodes
<1>2. LeadsTo(g, n) \subseteq Nodes(g)
  BY <1>1, NodesClosed, ReachedWithin DEF LeadsTo
<1>3. Adjacent(g, n) \subseteq LeadsTo(g, n) /\ Closed(g, LeadsTo(g, n))
  BY <1>1, ReachedClosed DEF LeadsTo
<1>4. ASSUME NEW C, Adjacent(g, n) \subseteq C, Closed(g, C) PROVE LeadsTo(g, n) \subseteq C
  <2>1. Adjacent(g, n) \in SUBSET C
    BY <1>4
  <2> QED BY <1>4, <2>1, ReachedWithin DEF LeadsTo
<1> QED BY <1>2, <1>3, <1>4

-----------------------------------------------------------------------------
(* The search: pushing and popping of its stack.                           *)
LEMMA Pushed ==
  ASSUME NEW S, NEW s \in Seq(S), NEW e \in S
  PROVE  /\ Append(s, e) \in Seq(S) /\ Append(s, e) # << >>
         /\ Len(Append(s, e)) = Len(s) + 1 /\ Len(s) \in Nat
         /\ \A i \in 1 .. Len(s) : Append(s, e)[i] = s[i]
         /\ Append(s, e)[Len(s) + 1] = e
  OBVIOUS

LEMMA Popped ==
  ASSUME NEW S, NEW s \in Seq(S), s # << >>
  PROVE  /\ Front(s) \in Seq(S) /\ Len(s) \in Nat \ {0}
         /\ Len(Front(s)) = Len(s) - 1
         /\ \A i \in 1 .. (Len(s) - 1) : Front(s)[i] = s[i]
         /\ Last(s) = s[Len(s)] /\ Last(s) \in S
<1>1. Len(s) \in Nat \ {0}
  OBVIOUS
<1> PICK n \in Int : n = Len(s) - 1
  BY <1>1
<1>2. Front(s) = SubSeq(s, 1, n)
  BY DEF Front
<1>3. \A i \in 1 .. n : s[i] \in S
  BY <1>1
<1>4. /\ SubSeq(s, 1, n) \in Seq(S)
      /\ Len(SubSeq(s, 1, n)) = IF 1 <= n THEN n - 1 + 1 ELSE 0
      /\ \A i \in 1 .. n - 1 + 1 : SubSeq(s, 1, n)[i] = s[1 + i - 1]
  BY <1>3, SubSeqProperties
<1>5. \A i \in 1 .. n : SubSeq(s, 1, n)[i] = s[i]
  BY <1>4
<1>6. Last(s) = s[Len(s)] /\ s[Len(s)] \in S
  BY <1>1 DEF Last
<1> QED BY <1>1, <1>2, <1>4, <1>5, <1>6

SearchStates(g) ==
  [stack : Seq([node : Nodes(g), left : SUBSET Nodes(g)]), colours : [Nodes(g) -> 0 .. 2]]

(* A target of a node on the stack is still to be followed, finished, or   *)
(* next on the stack; of the node on top, it may also be one of A.         *)
Waiting(g, s, A) ==
  \A i \in 1 .. Len(s.stack) : \A y \in Adjacent(g, s.stack[i].node) :
    \/ y \in s.stack[i].left
    \/ s.colours[y] = 2
    \/ i < Len(s.stack) /\ y = s.stack[i + 1].node
    \/ i = Len(s.stack) /\ y \in A

(* Targets of finished nodes are finished, and were before them.           *)
Ranks(g, c, b, r) ==
  /\ b \in Nat /\ r \in [Nodes(g) -> 0 .. b]
  /\ \A x \in Nodes(g) : c[x] = 2 => \A y \in Adjacent(g, x) : c[y] = 2 /\ r[y] < r[x]
Ranked(g, c) == \E b, r : Ranks(g, c, b, r)

GoodStates(g) == {s \in SearchStates(g) : Waiting(g, s, {}) /\ Ranked(g, s.colours)}

LEMMA FoundGood ==
  ASSUME NEW g, NEW s \in SearchStates(g), NEW n \in Nodes(g),
         Waiting(g, s, {n}), Ranked(g, s.colours), s.colours[n] = 0
  PROVE  Found(g, s, n) \in GoodStates(g)
<1> PICK t : t = Found(g, s, n)
  OBVIOUS
<1> PICK e : e = [node |-> n, left |-> Adjacent(g, n)]
  OBVIOUS
<1>1. e \in [node : Nodes(g), left : SUBSET Nodes(g)] /\ e.node = n /\ e.left = Adjacent(g, n)
  BY AdjacentNodes
<1>2. s.stack \in Seq([node : Nodes(g), left : SUBSET Nodes(g)]) /\ s.colours \in [Nodes(g) -> 0 .. 2]
  BY DEF SearchStates
<1>3. t = [stack |-> Append(s.stack, e), colours |-> [s.colours EXCEPT ![n] = 1]]
  BY DEF Found
<1>4. t.stack = Append(s.stack, e) /\ t.colours = [s.colours EXCEPT ![n] = 1] /\ t \in SearchStates(g)
  BY <1>1, <1>2, <1>3, Pushed DEF SearchStates
<1>5. /\ Len(t.stack) = Len(s.stack) + 1 /\ Len(s.stack) \in Nat
      /\ \A i \in 1 .. Len(s.stack) : t.stack[i] = s.stack[i]
      /\ t.stack[Len(s.stack) + 1] = e
  BY <1>1, <1>2, <1>4, Pushed
<1>6. \A y \in Nodes(g) : s.colours[y] = 2 <=> t.colours[y] = 2
  BY <1>2, <1>4
<1>7. Waiting(g, t, {})
  <2> SUFFICES ASSUME NEW i \in 1 .. Len(t.stack), NEW y \in Adjacent(g, t.stack[i].node)
               PROVE  \/ y \in t.stack[i].left
                      \/ t.colours[y] = 2
                      \/ i < Len(t.stack) /\ y = t.stack[i + 1].node
    BY DEF Waiting
  <2>1. CASE i = Len(t.stack)
    BY <1>1, <1>5, <2>1
  <2>2. CASE i # Len(t.stack)
    <3>1. i \in 1 .. Len(s.stack) /\ t.stack[i] = s.stack[i]
      BY <1>5, <2>2
    <3>2. \/ y \in s.stack[i].left
          \/ s.colours[y] = 2
          \/ i < Len(s.stack) /\ y = s.stack[i + 1].node
          \/ i = Len(s.stack) /\ y = n
      BY <3>1 DEF Waiting
    <3>3. y \in Nodes(g)
      BY AdjacentNodes
    <3>4. CASE i < Len(s.stack) /\ y = s.stack[i + 1].node
      <4>1. i + 1 \in 1 .. Len(s.stack)
        BY <1>5, <3>1, <3>4
      <4> QED BY <1>5, <3>4, <4>1
    <3>5. CASE i = Len(s.stack) /\ y = n
      BY <1>1, <1>5, <3>5
    <3> QED BY <1>6, <3>1, <3>2, <3>3, <3>4, <3>5
  <2> QED BY <2>1, <2>2
<1>8. Ranked(g, t.colours)
  <2>1. PICK b, r : Ranks(g, s.colours, b, r)
    BY DEF Ranked
  <2>2. Ranks(g, t.colours, b, r)
    BY <1>6, <2>1, AdjacentNodes DEF Ranks
  <2> QED BY <2>2 DEF Ranked
<1> QED BY <1>4, <1>7, <1>8 DEF GoodStates

LEMMA FollowedWaits ==
  ASSUME NEW g, NEW s \in GoodStates(g), NEW t \in Nodes(g), s.stack # << >>
  PROVE  /\ Followed(s, t) \in SearchStates(g)
         /\ Followed(s, t).colours = s.colours
         /\ Waiting(g, Followed(s, t), {t})
<1> PICK f : f = Followed(s, t)
  OBVIOUS
<1> PICK e : e = [Last(s.stack) EXCEPT !.left = @ \ {t}]
  OBVIOUS
<1>1. s.stack \in Seq([node : Nodes(g), left : SUBSET Nodes(g)]) /\ s.colours \in [Nodes(g) -> 0 .. 2]
  BY DEF GoodStates, SearchStates
<1> PICK l : l = Len(s.stack)
  OBVIOUS
<1>2. /\ Front(s.stack) \in Seq([node : Nodes(g), left : SUBSET Nodes(g)]) /\ l \in Nat \ {0}
      /\ Len(Front(s.stack)) = l - 1
      /\ \A i \in 1 .. (l - 1) : Front(s.stack)[i] = s.stack[i]
      /\ Last(s.stack) = s.stack[l]
      /\ Last(s.stack) \in [node : Nodes(g), left : SUBSET Nodes(g)]
  BY <1>1, Popped
<1>3. /\ e \in [node : Nodes(g), left : SUBSET Nodes(g)]
      /\ e.node = s.stack[l].node /\ e.left = s.stack[l].left \ {t}
  BY <1>2
<1>4. f = [stack |-> Append(Front(s.stack), e), colours |-> s.colours]
  BY DEF Followed
<1>5. f.stack = Append(Front(s.stack), e) /\ f.colours = s.colours /\ f \in SearchStates(g)
  BY <1>1, <1>2, <1>3, <1>4, Pushed DEF SearchStates
<1>6. /\ Len(f.stack) = l
      /\ \A i \in 1 .. (l - 1) : f.stack[i] = s.stack[i]
      /\ f.stack[l] = e
  <2> PICK front : front = Front(s.stack)
    OBVIOUS
  <2>1. /\ Len(Append(front, e)) = Len(front) + 1
        /\ \A i \in 1 .. Len(front) : Append(front, e)[i] = front[i]
        /\ Append(front, e)[Len(front) + 1] = e
    BY <1>2, <1>3, Pushed
  <2>2. /\ front \in Seq([node : Nodes(g), left : SUBSET Nodes(g)]) /\ l \in Nat \ {0}
        /\ Len(front) = l - 1 /\ f.stack = Append(front, e)
        /\ \A i \in 1 .. (l - 1) : front[i] = s.stack[i]
    BY <1>2, <1>5
  <2>3. Len(f.stack) = l /\ f.stack[l] = e
    BY <2>1, <2>2
  <2>4. \A i \in 1 .. (l - 1) : f.stack[i] = s.stack[i]
    BY <2>1, <2>2
  <2> QED BY <2>3, <2>4
<1>7. \A i \in 1 .. l : f.stack[i].node = s.stack[i].node /\ s.stack[i].left \subseteq f.stack[i].left \cup {t}
  BY <1>2, <1>3, <1>6
<1>8. Waiting(g, f, {t})
  <2> SUFFICES ASSUME NEW i \in 1 .. l, NEW y \in Adjacent(g, s.stack[i].node)
               PROVE  \/ y \in f.stack[i].left
                      \/ s.colours[y] = 2
                      \/ i < l /\ y = f.stack[i + 1].node
                      \/ i = l /\ y = t
    BY <1>2, <1>5, <1>6, <1>7 DEF Waiting
  <2>1. \/ y \in s.stack[i].left
        \/ s.colours[y] = 2
        \/ i < l /\ y = s.stack[i + 1].node
    BY DEF Waiting, GoodStates
  <2>2. i < l => i + 1 \in 1 .. l /\ f.stack[i] = s.stack[i]
    BY <1>2, <1>6
  <2>3. ~(i < l) => i = l
    BY <1>2
  <2> QED BY <1>3, <1>6, <1>7, <2>1, <2>2, <2>3
<1> QED BY <1>5, <1>8

LEMMA FollowedGood ==
  ASSUME NEW g, NEW s \in GoodStates(g), NEW t \in Nodes(g), s.stack # << >>, s.colours[t] = 2
  PROVE  Followed(s, t) \in GoodStates(g)
<1> PICK f : f = Followed(s, t)
  OBVIOUS
<1>1. f \in SearchStates(g) /\ f.colours = s.colours /\ Waiting(g, f, {t})
  BY FollowedWaits
<1>2. Waiting(g, f, {})
  BY <1>1 DEF Waiting
<1> QED BY <1>1, <1>2 DEF GoodStates

(* The node that is finished is ranked above all others.                   *)
LEMMA FinishedRanked ==
  ASSUME NEW g, NEW c \in [Nodes(g) -> 0 .. 2], Ranked(g, c), NEW x \in Nodes(g),
         \A y \in Adjacent(g, x) : c[y] = 2
  PROVE  Ranked(g, [c EXCEPT ![x] = 2])
<1> PICK d : d = [c EXCEPT ![x] = 2]
  OBVIOUS
<1>1. PICK b, r : Ranks(g, c, b, r)
  BY DEF Ranked
<1>2. /\ b \in Nat /\ r \in [Nodes(g) -> 0 .. b]
      /\ \A z \in Nodes(g) : c[z] = 2 => \A y \in Adjacent(g, z) : c[y] = 2 /\ r[y] < r[z]
  BY <1>1 DEF Ranks
<1>3. CASE c[x] = 2
  BY <1>1, <1>3 DEF Ranked
<1>4. CASE c[x] # 2
  <2> PICK q : q = [r EXCEPT ![x] = b + 1]
    OBVIOUS
  <2>1. b + 1 \in Nat /\ q \in [Nodes(g) -> 0 .. b + 1]
    BY <1>2
  <2>2. ASSUME NEW z \in Nodes(g), d[z] = 2, NEW y \in Adjacent(g, z)
        PROVE  d[y] = 2 /\ q[y] < q[z]
    <3>1. y \in Nodes(g)
      BY AdjacentNodes
    <3>2. c[y] = 2
      BY <1>2, <2>2
    <3>3. d[y] = 2 /\ q[y] = r[y]
      BY <1>2, <1>4, <3>1, <3>2
    <3>4. CASE z = x
      BY <1>2, <3>1, <3>3, <3>4
    <3>5. CASE z # x
      BY <1>2, <2>2, <3>3, <3>5
    <3> QED BY <3>3, <3>4, <3>5
  <2>3. Ranks(g, d, b + 1, q)
    BY <2>1, <2>2 DEF Ranks
  <2> QED BY <2>3 DEF Ranked
<1> QED BY <1>3, <1>4

LEMMA FinishedGood ==
  ASSUME NEW g, NEW s \in GoodStates(g), s.stack # << >>, Last(s.stack).left = {}
  PROVE  Finished(s) \in GoodStates(g)
<1> PICK f : f = Finished(s)
  OBVIOUS
<1>1. s.stack \in Seq([node : Nodes(g), left : SUBSET Nodes(g)]) /\ s.colours \in [Nodes(g) -> 0 .. 2]
  BY DEF GoodStates, SearchStates
<1> PICK l : l = Len(s.stack)
  OBVIOUS
<1>2. /\ Front(s.stack) \in Seq([node : Nodes(g), left : SUBSET Nodes(g)]) /\ l \in Nat \ {0}
      /\ Len(Front(s.stack)) = l - 1
      /\ \A i \in 1 .. (l - 1) : Front(s.stack)[i] = s.stack[i]
      /\ Last(s.stack) = s.stack[l]
      /\ Last(s.stack) \in [node : Nodes(g), left : SUBSET Nodes(g)]
  BY <1>1, Popped
<1> PICK x \in Nodes(g) : x = s.stack[l].node
  BY <1>2
<1>3. f.stack = Front(s.stack) /\ f.colours = [s.colours EXCEPT ![x] = 2] /\ f \in SearchStates(g)
  BY <1>1, <1>2 DEF Finished, SearchStates
<1>4. \A y \in Adjacent(g, x) : s.colours[y] = 2
  BY <1>2 DEF GoodStates, Waiting
<1>5. Ranked(g, f.colours)
  BY <1>1, <1>3, <1>4, FinishedRanked DEF GoodStates
<1>6. Waiting(g, f, {})
  <2> SUFFICES ASSUME NEW i \in 1 .. (l - 1), NEW y \in Adjacent(g, s.stack[i].node)
               PROVE  \/ y \in s.stack[i].left
                      \/ f.colours[y] = 2
                      \/ i < l - 1 /\ y = f.stack[i + 1].node
    BY <1>2, <1>3 DEF Waiting
  <2>1. i \in 1 .. l /\ i + 1 \in 1 .. l /\ y \in Nodes(g)
    BY <1>2, AdjacentNodes
  <2>2. \/ y \in s.stack[i].left
        \/ s.colours[y] = 2
        \/ y = s.stack[i + 1].node
    BY <2>1 DEF Waiting, GoodStates
  <2>3. CASE y = s.stack[i + 1].node
    <3>1. CASE i + 1 = l
      BY <1>1, <1>3, <2>3, <3>1
    <3>2. CASE i + 1 # l
      <4>1. i + 1 \in 1 .. (l - 1) /\ i < l - 1
        BY <1>2, <3>2
      <4> QED BY <1>2, <1>3, <2>3, <4>1
    <3> QED BY <3>1, <3>2
  <2>4. s.colours[y] = 2 => f.colours[y] = 2
    BY <1>1, <1>3, <2>1
  <2> QED BY <2>2, <2>3, <2>4
<1> QED BY <1>3, <1>5, <1>6 DEF GoodStates

LEMMA StepGood ==
  ASSUME NEW g, NEW s \in GoodStates(g)
  PROVE  SearchStep(g, s) \in GoodStates(g)
<1> DEFINE white == {n \in Nodes(g) : s.colours[n] = 0}
           left == Last(s.stack).left
           next == CHOOSE t \in left : TRUE
<1>1. s \in SearchStates(g) /\ Waiting(g, s, {}) /\ Ranked(g, s.colours)
  BY DEF GoodStates
<1>2. /\ s.stack \in Seq([node : Nodes(g), left : SUBSET Nodes(g)])
      /\ s.colours \in [Nodes(g) -> 0 .. 2]
  BY <1>1 DEF SearchStates
<1>3. CASE s.stack = << >> /\ white = {}
  BY <1>3 DEF SearchStep, Nodes
<1>4. CASE s.stack = << >> /\ white # {}
  <2> PICK n : n = CHOOSE m \in white : TRUE
    OBVIOUS
  <2>1. n \in white
    BY <1>4
  <2>2. SearchStep(g, s) = Found(g, s, n)
    BY <1>4 DEF SearchStep, Nodes
  <2>3. Waiting(g, s, {n})
    BY <1>1 DEF Waiting
  <2> QED BY <1>1, <2>1, <2>2, <2>3, FoundGood
<1>5. CASE s.stack # << >> /\ left = {}
  <2>1. SearchStep(g, s) = Finished(s)
    BY <1>5 DEF SearchStep
  <2> QED BY <1>5, <2>1, FinishedGood
<1>6. CASE s.stack # << >> /\ left # {}
  <2> PICK t : t = next
    OBVIOUS
  <2>1. t \in left
    BY <1>6
  <2>2. t \in Nodes(g)
    <3>1. Last(s.stack) \in [node : Nodes(g), left : SUBSET Nodes(g)]
      BY <1>2, <1>6, Popped
    <3> QED BY <2>1, <3>1
  <2>3. s.colours[t] \in {0, 1, 2}
    BY <1>2, <2>2
  <2>4. CASE s.colours[t] = 0
    <3>1. SearchStep(g, s) = Found(g, Followed(s, t), t)
      BY <1>6, <2>4 DEF SearchStep
    <3>2. /\ Followed(s, t) \in SearchStates(g)
          /\ Followed(s, t).colours = s.colours
          /\ Waiting(g, Followed(s, t), {t})
      BY <1>6, <2>2, FollowedWaits
    <3> QED BY <1>1, <2>2, <2>4, <3>1, <3>2, FoundGood
  <2>5. CASE s.colours[t] = 1
    BY <1>6, <2>5 DEF SearchStep
  <2>6. CASE s.colours[t] = 2
    <3>1. SearchStep(g, s) = Followed(s, t)
      BY <1>6, <2>6 DEF SearchStep
    <3> QED BY <1>6, <2>2, <2>6, <3>1, FollowedGood
  <2> QED BY <2>3, <2>4, <2>5, <2>6
<1> QED BY <1>3, <1>4, <1>5, <1>6

LEMMA SearchedGood ==
  ASSUME NEW g, IsGraph(g)
  PROVE  Searched(g) \in GoodStates(g)
<1> DEFINE n == SearchLength(g)
           X == GoodStates(g)
           a == [stack |-> << >>, colours |-> [m \in DOMAIN g.nodes |-> 0]]
           G == [k \in 1 .. n |-> [s \in X |-> SearchStep(g, s)]]
           search[k \in 0 .. SearchLength(g)] ==
             IF k = 0 THEN [stack |-> << >>, colours |-> [m \in DOMAIN g.nodes |-> 0]]
             ELSE SearchStep(g, search[k - 1])
<1>1. n \in Nat
  BY FS_CardinalityType DEF SearchLength, IsGraph
<1>2. a \in X
  <2>1. a.colours \in [Nodes(g) -> 0 .. 2] /\ a.stack = << >>
    BY DEF Nodes
  <2>2. a \in SearchStates(g)
    BY <2>1 DEF SearchStates
  <2>3. Waiting(g, a, {})
    BY DEF Waiting
  <2>4. Ranks(g, a.colours, 0, [m \in Nodes(g) |-> 0])
    BY <2>1 DEF Ranks, Nodes
  <2>5. Ranked(g, a.colours)
    BY <2>4 DEF Ranked
  <2> QED BY <2>2, <2>3, <2>5 DEF GoodStates
<1>3. G \in [1 .. n -> [X -> X]]
  BY StepGood
<1>4. PICK f : Iterates(f, n, X, a, G)
  <2> HIDE DEF n, G, a, X
  <2> QED BY <1>1, <1>2, <1>3, Iteration
<1>5. f \in [0 .. n -> X] /\ f[0] = a
  BY <1>4 DEF Iterates
<1>6. \A k \in 1 .. n : f[k] = SearchStep(g, f[k - 1])
  <2> SUFFICES ASSUME NEW k \in 1 .. n PROVE f[k] = SearchStep(g, f[k - 1])
    OBVIOUS
  <2>1. f[k] = G[k][f[k - 1]] /\ f[k - 1] \in X
    <3> HIDE DEF G, n, X
    <3> QED BY <1>1, <1>4, <1>5 DEF Iterates
  <2> QED BY <2>1
<1>7. f = [k \in 0 .. n |-> IF k = 0 THEN a ELSE SearchStep(g, f[k - 1])]
  <2> HIDE DEF n, a, X
  <2> QED BY <1>5, <1>6
<1>8. search = [k \in 0 .. n |-> IF k = 0 THEN a ELSE SearchStep(g, search[k - 1])]
  BY <1>7
<1>9. Searched(g) = search[n]
  BY DEF Searched
<1> HIDE DEF search, n, a, X
<1>10. search[0] = a /\ \A k \in 1 .. n : search[k] = SearchStep(g, search[k - 1])
  BY <1>1, <1>8
<1> DEFINE T == {k \in 0 .. n : search[k] \in X}
<1>11. 0 \in T
  BY <1>1, <1>2, <1>10
<1>12. \A k \in 1 .. n : k - 1 \in T => k \in T
  BY <1>1, <1>10, StepGood DEF X
<1> HIDE DEF T
<1>13. \A k \in 0 .. n : k \in T
  BY <1>1, <1>11, <1>12, UpTo
<1>14. search[n] \in X
  BY <1>1, <1>13 DEF T
<1> QED BY <1>9, <1>14 DEF X

(* The search finds every cycle.                                           *)
LEMMA NoCycleNoReturn ==
  ASSUME NEW g, IsGraph(g), ~HasCycle(g), NEW n \in Nodes(g)
  PROVE  n \notin LeadsTo(g, n)
<1> PICK s \in GoodStates(g) : s = Searched(g)
  BY SearchedGood
<1>1. \A x \in Nodes(g) : s.colours[x] = 2
  BY DEF HasCycle, Nodes
<1>2. PICK b, r : Ranks(g, s.colours, b, r)
  BY DEF GoodStates, Ranked
<1>3. b \in Nat /\ r \in [Nodes(g) -> 0 .. b] /\ \A x \in Nodes(g) : \A y \in Adjacent(g, x) : r[y] < r[x]
  BY <1>1, <1>2 DEF Ranks
<1> DEFINE C == {y \in Nodes(g) : r[y] < r[n]}
<1>4. Adjacent(g, n) \subseteq C
  BY <1>3, AdjacentNodes
<1>5. Closed(g, C)
  <2> SUFFICES ASSUME NEW x \in C, NEW y \in Adjacent(g, x) PROVE y \in C
    BY DEF Closed
  <2>1. y \in Nodes(g)
    BY AdjacentNodes
  <2>2. r[x] \in Int /\ r[y] \in Int /\ r[n] \in Int
    BY <1>3, <2>1
  <2>3. r[y] < r[x] /\ r[x] < r[n]
    BY <1>3
  <2> QED BY <2>1, <2>2, <2>3
<1>6. n \notin C
  <2>1. r[n] \in Int
    BY <1>3
  <2> QED BY <2>1
<1> HIDE DEF C
<1>7. LeadsTo(g, n) \subseteq C
  BY <1>4, <1>5, LeadsFacts
<1> QED BY <1>6, <1>7

(* What the root reaches, itself left out, is what it leads to.            *)
LEMMA RootLeadsToAll ==
  ASSUME NEW g, IsGraph(g), ~HasCycle(g), NEW root \in Nodes(g),
         ReachedFrom(g, {root}) = Nodes(g)
  PROVE  LeadsTo(g, root) = Nodes(g) \ {root}
<1> PICK L : L = LeadsTo(g, root)
  OBVIOUS
<1>1. L \subseteq Nodes(g) /\ Adjacent(g, root) \subseteq L /\ Closed(g, L)
  BY LeadsFacts
<1>2. root \notin L
  BY NoCycleNoReturn
<1>3. Closed(g, L \cup {root})
  BY <1>1 DEF Closed
<1>4. {root} \in SUBSET (L \cup {root})
  OBVIOUS
<1>5. ReachedFrom(g, {root}) \subseteq L \cup {root}
  BY <1>3, <1>4, ReachedWithin
<1> QED BY <1>1, <1>2, <1>5

-----------------------------------------------------------------------------
(* The types an edge that counts leads between.                            *)
Between(t, from, to) ==
  /\ t \in DOMAIN EdgeSignatures
  /\ EdgeSignatures[t][1] \in {"ANY", from}
  /\ EdgeSignatures[t][2] = to

LEMMA TypedBetween ==
  ASSUME NEW g, IsGraph(g), NEW e \in TypedEdges(g)
  PROVE  Between(e.type, g.nodes[e.from].type, g.nodes[e.to].type)
BY DEF TypedEdges, Fits, Between

LEMMA Signatures ==
  ASSUME NEW t \in DOMAIN EdgeSignatures
  PROVE  \/ t = "RESULT_DEFINED_BY" /\ EdgeSignatures[t] = <<"METRIC_SNAPSHOT", "METRIC_DEFINITION">>
         \/ t = "RESULT_CALCULATED_WITH" /\ EdgeSignatures[t] = <<"METRIC_SNAPSHOT", "CALCULATION_PROFILE">>
         \/ t = "RESULT_USES_RESOLUTION" /\ EdgeSignatures[t] = <<"METRIC_SNAPSHOT", "RULE_RESOLUTION">>
         \/ t = "RESOLUTION_SELECTS_RULE" /\ EdgeSignatures[t] = <<"RULE_RESOLUTION", "CONFIGURATION_RULE">>
         \/ t = "PROFILE_SELECTS_RULE" /\ EdgeSignatures[t] = <<"CALCULATION_PROFILE", "CONFIGURATION_RULE">>
         \/ t = "PROFILE_USES_ROUNDING" /\ EdgeSignatures[t] = <<"CALCULATION_PROFILE", "ROUNDING_POLICY">>
         \/ t = "PROFILE_USES_SOURCE_AUTHORITY" /\ EdgeSignatures[t] = <<"CALCULATION_PROFILE", "SOURCE_AUTHORITY">>
         \/ t = "RESULT_DERIVED_FROM_EVENT" /\ EdgeSignatures[t] = <<"METRIC_SNAPSHOT", "CANONICAL_EVENT">>
         \/ t = "EVENT_NORMALIZED_FROM_RECORD" /\ EdgeSignatures[t] = <<"CANONICAL_EVENT", "SOURCE_RECORD">>
         \/ t = "RECORD_READ_FROM_FILE" /\ EdgeSignatures[t] = <<"SOURCE_RECORD", "SOURCE_FILE">>
         \/ t = "RESULT_USES_TRANSFORMATION" /\ EdgeSignatures[t] = <<"METRIC_SNAPSHOT", "TRANSFORMATION">>
         \/ t = "RESULT_HAS_FRESHNESS" /\ EdgeSignatures[t] = <<"METRIC_SNAPSHOT", "FRESHNESS_ASSESSMENT">>
         \/ t = "RESULT_HAS_CONFIDENCE" /\ EdgeSignatures[t] = <<"METRIC_SNAPSHOT", "CONFIDENCE_ASSESSMENT">>
         \/ t = "ARTIFACT_APPROVED_BY" /\ EdgeSignatures[t] = <<"ANY", "APPROVAL">>
         \/ t = "SNAPSHOT_SUPERSEDES" /\ EdgeSignatures[t] = <<"METRIC_SNAPSHOT", "METRIC_SNAPSHOT">>
         \/ t = "SNAPSHOT_RESTATES" /\ EdgeSignatures[t] = <<"METRIC_SNAPSHOT", "METRIC_SNAPSHOT">>
         \/ t = "RESULT_USES_PRODUCT_MASTER" /\ EdgeSignatures[t] = <<"METRIC_SNAPSHOT", "PRODUCT_MASTER">>
         \/ t = "RESULT_RECONCILED_BY" /\ EdgeSignatures[t] = <<"METRIC_SNAPSHOT", "RECONCILIATION_RESULT">>
BY DEF EdgeSignatures

(* What edges there are from the types a verified snapshot rests on.       *)
LEMMA EdgesFrom ==
  ASSUME NEW t, NEW from, NEW to, Between(t, from, to)
  PROVE  /\ t = "ARTIFACT_APPROVED_BY" <=> to = "APPROVAL"
         /\ from = "CALCULATION_PROFILE" =>
              /\ to \in {"APPROVAL", "CONFIGURATION_RULE", "ROUNDING_POLICY", "SOURCE_AUTHORITY"}
              /\ t = "PROFILE_SELECTS_RULE" <=> to = "CONFIGURATION_RULE"
              /\ t = "PROFILE_USES_ROUNDING" <=> to = "ROUNDING_POLICY"
              /\ t = "PROFILE_USES_SOURCE_AUTHORITY" <=> to = "SOURCE_AUTHORITY"
         /\ from = "RULE_RESOLUTION" =>
              /\ to \in {"APPROVAL", "CONFIGURATION_RULE"}
              /\ t = "RESOLUTION_SELECTS_RULE" <=> to = "CONFIGURATION_RULE"
         /\ from = "CANONICAL_EVENT" =>
              /\ to \in {"APPROVAL", "SOURCE_RECORD"}
              /\ t = "EVENT_NORMALIZED_FROM_RECORD" <=> to = "SOURCE_RECORD"
         /\ from = "SOURCE_RECORD" =>
              /\ to \in {"APPROVAL", "SOURCE_FILE"}
              /\ t = "RECORD_READ_FROM_FILE" <=> to = "SOURCE_FILE"
         /\ from = "METRIC_SNAPSHOT" =>
              /\ t = "RESULT_CALCULATED_WITH" <=> to = "CALCULATION_PROFILE"
              /\ t = "RESULT_USES_RESOLUTION" <=> to = "RULE_RESOLUTION"
              /\ t = "RESULT_DERIVED_FROM_EVENT" <=> to = "CANONICAL_EVENT"
         /\ from \in {"APPROVAL", "CONFIGURATION_RULE", "ROUNDING_POLICY", "SOURCE_AUTHORITY",
                      "SOURCE_FILE"} => to = "APPROVAL"
BY Signatures DEF Between

(* The targets of a type are those of the one edge type that leads there.  *)
Typed(g, n, type) == {m \in Adjacent(g, n) : g.nodes[m].type = type}

LEMMA TargetsOfType ==
  ASSUME NEW g, IsGraph(g), NEW n, NEW t, NEW type,
         \A e \in TypedEdges(g) : e.from = n => (e.type = t <=> g.nodes[e.to].type = type)
  PROVE  Targets(g, n, t) = Typed(g, n, type)
BY DEF Targets, Typed, Adjacent

LEMMA TypedTargets ==
  ASSUME NEW g, IsGraph(g), NEW n
  PROVE  /\ Targets(g, n, "ARTIFACT_APPROVED_BY") = Typed(g, n, "APPROVAL")
         /\ g.nodes[n].type = "CALCULATION_PROFILE" =>
              /\ Targets(g, n, "PROFILE_SELECTS_RULE") = Typed(g, n, "CONFIGURATION_RULE")
              /\ Targets(g, n, "PROFILE_USES_ROUNDING") = Typed(g, n, "ROUNDING_POLICY")
              /\ Targets(g, n, "PROFILE_USES_SOURCE_AUTHORITY") = Typed(g, n, "SOURCE_AUTHORITY")
         /\ g.nodes[n].type = "RULE_RESOLUTION" =>
              Targets(g, n, "RESOLUTION_SELECTS_RULE") = Typed(g, n, "CONFIGURATION_RULE")
         /\ g.nodes[n].type = "CANONICAL_EVENT" =>
              Targets(g, n, "EVENT_NORMALIZED_FROM_RECORD") = Typed(g, n, "SOURCE_RECORD")
         /\ g.nodes[n].type = "SOURCE_RECORD" =>
              Targets(g, n, "RECORD_READ_FROM_FILE") = Typed(g, n, "SOURCE_FILE")
         /\ g.nodes[n].type = "METRIC_SNAPSHOT" =>
              /\ Targets(g, n, "RESULT_CALCULATED_WITH") = Typed(g, n, "CALCULATION_PROFILE")
              /\ Targets(g, n, "RESULT_USES_RESOLUTION") = Typed(g, n, "RULE_RESOLUTION")
              /\ Targets(g, n, "RESULT_DERIVED_FROM_EVENT") = Typed(g, n, "CANONICAL_EVENT")
<1>1. \A e \in TypedEdges(g) : Between(e.type, g.nodes[e.from].type, g.nodes[e.to].type)
  BY TypedBetween
<1> DEFINE Leads(t, type) ==
             \A e \in TypedEdges(g) : e.from = n => (e.type = t <=> g.nodes[e.to].type = type)
<1>2. Leads("ARTIFACT_APPROVED_BY", "APPROVAL")
  BY <1>1, EdgesFrom
<1>3. ASSUME g.nodes[n].type = "CALCULATION_PROFILE"
      PROVE  /\ Leads("PROFILE_SELECTS_RULE", "CONFIGURATION_RULE")
             /\ Leads("PROFILE_USES_ROUNDING", "ROUNDING_POLICY")
             /\ Leads("PROFILE_USES_SOURCE_AUTHORITY", "SOURCE_AUTHORITY")
  BY <1>1, <1>3, EdgesFrom
<1>4. ASSUME g.nodes[n].type = "RULE_RESOLUTION"
      PROVE  Leads("RESOLUTION_SELECTS_RULE", "CONFIGURATION_RULE")
  BY <1>1, <1>4, EdgesFrom
<1>5. ASSUME g.nodes[n].type = "CANONICAL_EVENT"
      PROVE  Leads("EVENT_NORMALIZED_FROM_RECORD", "SOURCE_RECORD")
  BY <1>1, <1>5, EdgesFrom
<1>6. ASSUME g.nodes[n].type = "SOURCE_RECORD"
      PROVE  Leads("RECORD_READ_FROM_FILE", "SOURCE_FILE")
  BY <1>1, <1>6, EdgesFrom
<1>7. ASSUME g.nodes[n].type = "METRIC_SNAPSHOT"
      PROVE  /\ Leads("RESULT_CALCULATED_WITH", "CALCULATION_PROFILE")
             /\ Leads("RESULT_USES_RESOLUTION", "RULE_RESOLUTION")
             /\ Leads("RESULT_DERIVED_FROM_EVENT", "CANONICAL_EVENT")
  BY <1>1, <1>7, EdgesFrom
<1>8. ASSUME NEW t, NEW type, Leads(t, type) PROVE Targets(g, n, t) = Typed(g, n, type)
  BY <1>8, TargetsOfType
<1> HIDE DEF Leads
<1> QED BY <1>2, <1>3, <1>4, <1>5, <1>6, <1>7, <1>8

(* The same for the types of the targets.                                  *)
LEMMA AdjacentTypes ==
  ASSUME NEW g, IsGraph(g), NEW n, NEW m \in Adjacent(g, n)
  PROVE  /\ g.nodes[n].type = "CALCULATION_PROFILE" => g.nodes[m].type \in
              {"APPROVAL", "CONFIGURATION_RULE", "ROUNDING_POLICY", "SOURCE_AUTHORITY"}
         /\ g.nodes[n].type = "RULE_RESOLUTION" => g.nodes[m].type \in {"APPROVAL", "CONFIGURATION_RULE"}
         /\ g.nodes[n].type = "CANONICAL_EVENT" => g.nodes[m].type \in {"APPROVAL", "SOURCE_RECORD"}
         /\ g.nodes[n].type = "SOURCE_RECORD" => g.nodes[m].type \in {"APPROVAL", "SOURCE_FILE"}
         /\ g.nodes[n].type \in {"APPROVAL", "CONFIGURATION_RULE", "ROUNDING_POLICY",
                                 "SOURCE_AUTHORITY", "SOURCE_FILE"} => g.nodes[m].type = "APPROVAL"
<1>1. PICK e \in TypedEdges(g) : e.from = n /\ e.to = m
  BY DEF Adjacent
<1>2. Between(e.type, g.nodes[n].type, g.nodes[m].type)
  BY <1>1, TypedBetween
<1> QED BY <1>2, EdgesFrom

-----------------------------------------------------------------------------
(* Approvals lead to approvals: below a node whose targets have no others, *)
(* the nodes of another type are its targets.                              *)
Approvals(g) == {m \in Nodes(g) : g.nodes[m].type = "APPROVAL"}

LEMMA ApprovalsLead ==
  ASSUME NEW g, IsGraph(g), NEW m \in Approvals(g)
  PROVE  Adjacent(g, m) \subseteq Approvals(g)
BY AdjacentNodes, AdjacentTypes DEF Approvals

LEMMA BelowFlat ==
  ASSUME NEW g, IsGraph(g), NEW n, NEW type, type # "APPROVAL",
         \A m \in Adjacent(g, n) : Adjacent(g, m) \subseteq Approvals(g)
  PROVE  Below(g, n, type) = Typed(g, n, type)
<1> DEFINE C == Adjacent(g, n) \cup Approvals(g)
<1>1. Closed(g, C)
  BY ApprovalsLead DEF Closed
<1>2. LeadsTo(g, n) \subseteq C
  BY <1>1, LeadsFacts
<1>3. Adjacent(g, n) \subseteq LeadsTo(g, n)
  BY LeadsFacts
<1>4. \A m \in Approvals(g) : g.nodes[m].type = "APPROVAL"
  BY DEF Approvals
<1> QED BY <1>2, <1>3, <1>4 DEF Below, Typed

LEMMA BelowProfile ==
  ASSUME NEW g, IsGraph(g), NEW n, g.nodes[n].type = "CALCULATION_PROFILE",
         NEW type, type # "APPROVAL"
  PROVE  Below(g, n, type) = Typed(g, n, type)
<1>1. \A m \in Adjacent(g, n) : Adjacent(g, m) \subseteq Approvals(g)
  <2> SUFFICES ASSUME NEW m \in Adjacent(g, n), NEW k \in Adjacent(g, m) PROVE k \in Approvals(g)
    OBVIOUS
  <2>1. g.nodes[m].type \in {"APPROVAL", "CONFIGURATION_RULE", "ROUNDING_POLICY", "SOURCE_AUTHORITY"}
    BY AdjacentTypes
  <2>2. g.nodes[k].type = "APPROVAL"
    BY <2>1, AdjacentTypes
  <2> QED BY <2>2, AdjacentNodes DEF Approvals
<1> QED BY <1>1, BelowFlat

LEMMA BelowResolution ==
  ASSUME NEW g, IsGraph(g), NEW n, g.nodes[n].type = "RULE_RESOLUTION",
         NEW type, type # "APPROVAL"
  PROVE  Below(g, n, type) = Typed(g, n, type)
<1>1. \A m \in Adjacent(g, n) : Adjacent(g, m) \subseteq Approvals(g)
  <2> SUFFICES ASSUME NEW m \in Adjacent(g, n), NEW k \in Adjacent(g, m) PROVE k \in Approvals(g)
    OBVIOUS
  <2>1. g.nodes[m].type \in {"APPROVAL", "CONFIGURATION_RULE"}
    BY AdjacentTypes
  <2>2. g.nodes[k].type = "APPROVAL"
    BY <2>1, AdjacentTypes
  <2> QED BY <2>2, AdjacentNodes DEF Approvals
<1> QED BY <1>1, BelowFlat

(* An event leads to its records, their files, and approvals.              *)
LEMMA BelowEvent ==
  ASSUME NEW g, IsGraph(g), NEW v, g.nodes[v].type = "CANONICAL_EVENT"
  PROVE  Below(g, v, "SOURCE_FILE")
           = UNION {Typed(g, r, "SOURCE_FILE") : r \in Typed(g, v, "SOURCE_RECORD")}
<1> DEFINE R == Typed(g, v, "SOURCE_RECORD")
           F == UNION {Typed(g, r, "SOURCE_FILE") : r \in R}
           C == R \cup F \cup Approvals(g)
<1>1. ASSUME NEW m, NEW k \in Adjacent(g, m) PROVE k \in Nodes(g)
  BY AdjacentNodes
<1>2. Adjacent(g, v) \subseteq C
  <2> SUFFICES ASSUME NEW m \in Adjacent(g, v) PROVE m \in R \cup Approvals(g)
    OBVIOUS
  <2>1. g.nodes[m].type \in {"APPROVAL", "SOURCE_RECORD"}
    BY AdjacentTypes
  <2> QED BY <1>1, <2>1 DEF Typed, Approvals
<1>3. ASSUME NEW r \in R PROVE Adjacent(g, r) \subseteq C
  <2> SUFFICES ASSUME NEW m \in Adjacent(g, r) PROVE m \in Typed(g, r, "SOURCE_FILE") \cup Approvals(g)
    OBVIOUS
  <2>1. g.nodes[r].type = "SOURCE_RECORD"
    BY DEF Typed
  <2>2. g.nodes[m].type \in {"APPROVAL", "SOURCE_FILE"}
    BY <2>1, AdjacentTypes
  <2> QED BY <1>1, <2>2 DEF Typed, Approvals
<1>4. ASSUME NEW f \in F PROVE Adjacent(g, f) \subseteq C
  <2> SUFFICES ASSUME NEW m \in Adjacent(g, f) PROVE m \in Approvals(g)
    OBVIOUS
  <2>1. g.nodes[f].type = "SOURCE_FILE"
    BY DEF Typed
  <2>2. g.nodes[m].type = "APPROVAL"
    BY <2>1, AdjacentTypes
  <2> QED BY <1>1, <2>2 DEF Approvals
<1>5. Closed(g, C)
  BY <1>3, <1>4, ApprovalsLead DEF Closed
<1>6. \A m \in F : g.nodes[m].type = "SOURCE_FILE"
  BY DEF Typed
<1>7. \A m \in C : g.nodes[m].type = "SOURCE_FILE" => m \in F
  BY DEF Typed, Approvals
<1>8. F \subseteq LeadsTo(g, v)
  <2> SUFFICES ASSUME NEW r \in R, NEW f \in Typed(g, r, "SOURCE_FILE") PROVE f \in LeadsTo(g, v)
    OBVIOUS
  <2>1. r \in LeadsTo(g, v)
    BY LeadsFacts DEF Typed
  <2>2. f \in Adjacent(g, r)
    BY DEF Typed
  <2>3. Closed(g, LeadsTo(g, v))
    BY LeadsFacts
  <2> QED BY <2>1, <2>2, <2>3 DEF Closed
<1>9. LeadsTo(g, v) \subseteq C
  <2> HIDE DEF C
  <2> QED BY <1>2, <1>5, LeadsFacts
<1>10. Below(g, v, "SOURCE_FILE") = F
  <2> HIDE DEF F, C
  <2> QED BY <1>6, <1>7, <1>8, <1>9 DEF Below
<1> QED BY <1>10

LEMMA ApprovedBelow ==
  ASSUME NEW g, IsGraph(g), NEW n, IsApproved(g, n)
  PROVE  \E a \in Below(g, n, "APPROVAL") : g.nodes[a].approved
<1>1. PICK a \in Targets(g, n, "ARTIFACT_APPROVED_BY") : g.nodes[a].approved
  BY DEF IsApproved
<1>2. a \in Adjacent(g, n) /\ g.nodes[a].type = "APPROVAL"
  BY TypedTargets DEF Typed
<1>3. a \in LeadsTo(g, n)
  BY <1>2, LeadsFacts
<1> QED BY <1>1, <1>2, <1>3 DEF Below

-----------------------------------------------------------------------------
(* What the absence of errors says.                                        *)
LEMMA OneElement ==
  ASSUME NEW S, IsFiniteSet(S), Cardinality(S) = 1
  PROVE  \E x : S = {x}
BY FS_Singleton

LEMMA NoGraphErrors ==
  ASSUME NEW g, IsGraph(g), GraphErrors(g) = {}
  PROVE  /\ ~HasCycle(g)
         /\ \A n \in Nodes(g) : g.nodes[n].tenant = g.tenant /\ g.nodes[n].mode = g.mode
         /\ \E x : Roots(g) = {x}
<1>1. ~HasCycle(g)
  BY DEF GraphErrors
<1>2. ~\E n \in DOMAIN g.nodes : g.nodes[n].tenant # g.tenant
  BY DEF GraphErrors
<1>3. ~\E n \in DOMAIN g.nodes : g.nodes[n].mode # g.mode
  BY DEF GraphErrors
<1>4. Cardinality(Roots(g)) = 1
  BY DEF GraphErrors
<1>5. IsFiniteSet(Roots(g))
  BY FS_Subset DEF IsGraph, Roots
<1>6. \E x : Roots(g) = {x}
  BY <1>4, <1>5, OneElement
<1> QED BY <1>1, <1>2, <1>3, <1>6 DEF Nodes

LEMMA NoRootErrors ==
  ASSUME NEW g, NEW root, RootErrors(g, root) = {}
  PROVE  /\ ReachedFrom(g, {root}) = Nodes(g)
         /\ ~PathsMissing(g, root)
         /\ ~ApprovalMissing(g, root)
<1>1. ReachedFrom(g, {root}) = DOMAIN g.nodes
  BY DEF RootErrors
<1>2. ~PathsMissing(g, root)
  BY DEF RootErrors
<1>3. ~ApprovalMissing(g, root)
  BY DEF RootErrors
<1> QED BY <1>1, <1>2, <1>3 DEF Nodes

LEMMA NoFileErrors ==
  ASSUME NEW f, NEW bytes, NEW loader \in BOOLEAN, NEW required \in BOOLEAN,
         FileErrors(f, bytes, loader, required) = {}
  PROVE  /\ loader \/ ~required
         /\ loader => f.locator \in DOMAIN bytes /\ bytes[f.locator] = f.ref
<1>1. f.retained = f.ref
  BY DEF FileErrors
<1>2. IF loader THEN f.locator \in DOMAIN bytes ELSE ~required
  BY DEF FileErrors
<1>3. loader /\ f.locator \in DOMAIN bytes => bytes[f.locator] = f.retained
  BY DEF FileErrors
<1> QED BY <1>1, <1>2, <1>3

LEMMA NoErrors ==
  ASSUME NEW g, IsGraph(g), NEW bytes, NEW loader, NEW required,
         Errors(g, bytes, loader, required) = {}
  PROVE  \E root : /\ Roots(g) = {root}
                   /\ GraphErrors(g) = {}
                   /\ RootErrors(g, root) = {}
                   /\ \A f \in FilesOf(g, root) : FileErrors(g.nodes[f], bytes, loader, required) = {}
<1>1. GraphErrors(g) = {}
  BY DEF Errors
<1>2. PICK x : Roots(g) = {x}
  BY <1>1, NoGraphErrors
<1>3. Cardinality(Roots(g)) = 1
  BY <1>2, FS_Singleton
<1>4. (CHOOSE n \in Roots(g) : TRUE) = x
  BY <1>2
<1>5. RootErrors(g, x) \cup UNION {FileErrors(g.nodes[f], bytes, loader, required) : f \in FilesOf(g, x)} = {}
  BY <1>3, <1>4 DEF Errors
<1> QED BY <1>1, <1>2, <1>5

(* The root, its profile, its resolutions and its events.                  *)
LEMMA NoPathMissing ==
  ASSUME NEW g, IsGraph(g), NEW root, ~PathsMissing(g, root)
  PROVE  /\ Cardinality(Targets(g, root, "RESULT_CALCULATED_WITH")) = 1
         /\ \A p \in Targets(g, root, "RESULT_CALCULATED_WITH") :
              /\ Cardinality(Targets(g, p, "PROFILE_USES_ROUNDING")) = 1
              /\ Cardinality(Targets(g, p, "PROFILE_USES_SOURCE_AUTHORITY")) = 1
              /\ Targets(g, p, "PROFILE_SELECTS_RULE") # {}
              /\ Targets(g, p, "PROFILE_SELECTS_RULE")
                   = UNION {Targets(g, r, "RESOLUTION_SELECTS_RULE") :
                              r \in Targets(g, root, "RESULT_USES_RESOLUTION")}
         /\ \A v \in Targets(g, root, "RESULT_DERIVED_FROM_EVENT") :
              /\ Targets(g, v, "EVENT_NORMALIZED_FROM_RECORD") # {}
              /\ \A r \in Targets(g, v, "EVENT_NORMALIZED_FROM_RECORD") :
                   Targets(g, r, "RECORD_READ_FROM_FILE") # {}
<1>1. Cardinality(Targets(g, root, "RESULT_CALCULATED_WITH")) = 1
  BY DEF PathsMissing
<1>2. ASSUME NEW p \in Targets(g, root, "RESULT_CALCULATED_WITH")
      PROVE  /\ Cardinality(Targets(g, p, "PROFILE_USES_ROUNDING")) = 1
             /\ Cardinality(Targets(g, p, "PROFILE_USES_SOURCE_AUTHORITY")) = 1
             /\ Targets(g, p, "PROFILE_SELECTS_RULE") # {}
             /\ Targets(g, p, "PROFILE_SELECTS_RULE")
                  = UNION {Targets(g, r, "RESOLUTION_SELECTS_RULE") :
                             r \in Targets(g, root, "RESULT_USES_RESOLUTION")}
  BY <1>2 DEF PathsMissing
<1>3. ASSUME NEW v \in Targets(g, root, "RESULT_DERIVED_FROM_EVENT")
      PROVE  Targets(g, v, "EVENT_NORMALIZED_FROM_RECORD") # {}
  BY <1>3 DEF PathsMissing
<1>4. ASSUME NEW v \in Targets(g, root, "RESULT_DERIVED_FROM_EVENT"),
             NEW r \in Targets(g, v, "EVENT_NORMALIZED_FROM_RECORD")
      PROVE  Targets(g, r, "RECORD_READ_FROM_FILE") # {}
  BY <1>4 DEF PathsMissing
<1> QED BY <1>1, <1>2, <1>3, <1>4

-----------------------------------------------------------------------------
(* Without errors a graph is evidence.                                     *)
LEMMA NoErrorsIsEvidence ==
  ASSUME NEW g, IsGraph(g), NEW v, v.loader \in BOOLEAN, v.required \in BOOLEAN,
         Errors(g, v.bytes, v.loader, v.required) = {}
  PROVE  IsEvidence(g, v)
<1>1. PICK x : /\ Roots(g) = {x}
               /\ GraphErrors(g) = {}
               /\ RootErrors(g, x) = {}
               /\ \A f \in FilesOf(g, x) :
                    FileErrors(g.nodes[f], v.bytes, v.loader, v.required) = {}
  BY NoErrors
<1>2. x \in Nodes(g) /\ g.nodes[x].type = "METRIC_SNAPSHOT"
  BY <1>1 DEF Roots, Nodes
<1>3. (CHOOSE n \in DOMAIN g.nodes : g.nodes[n].type = "METRIC_SNAPSHOT" /\ g.nodes[n].ref = g.root) = x
  BY <1>1 DEF Roots
<1>4. /\ ~HasCycle(g)
      /\ \A n \in Nodes(g) : g.nodes[n].tenant = g.tenant /\ g.nodes[n].mode = g.mode
  BY <1>1, NoGraphErrors
<1>5. ReachedFrom(g, {x}) = Nodes(g) /\ ~PathsMissing(g, x) /\ ~ApprovalMissing(g, x)
  BY <1>1, NoRootErrors
<1>6. LeadsTo(g, x) = Nodes(g) \ {x}
  BY <1>2, <1>4, <1>5, RootLeadsToAll
<1>7. \A n \in Nodes(g) : n \notin LeadsTo(g, n)
  BY <1>4, NoCycleNoReturn
<1>8. /\ Targets(g, x, "RESULT_CALCULATED_WITH") = Typed(g, x, "CALCULATION_PROFILE")
      /\ Targets(g, x, "RESULT_USES_RESOLUTION") = Typed(g, x, "RULE_RESOLUTION")
      /\ Targets(g, x, "RESULT_DERIVED_FROM_EVENT") = Typed(g, x, "CANONICAL_EVENT")
  BY <1>2, TypedTargets
<1>9. PICK p : Typed(g, x, "CALCULATION_PROFILE") = {p}
  <2> PICK S : S = Typed(g, x, "CALCULATION_PROFILE")
    OBVIOUS
  <2>1. Cardinality(S) = 1
    BY <1>5, <1>8, NoPathMissing
  <2>2. S \subseteq Nodes(g)
    BY AdjacentNodes DEF Typed
  <2>3. IsFiniteSet(S)
    BY <2>2, FS_Subset DEF IsGraph, Nodes
  <2> QED BY <2>1, <2>3, OneElement
<1>10. (CHOOSE q \in Adjacent(g, x) : g.nodes[q].type = "CALCULATION_PROFILE") = p
  BY <1>9 DEF Typed
<1>11. p \in Targets(g, x, "RESULT_CALCULATED_WITH") /\ g.nodes[p].type = "CALCULATION_PROFILE"
  <2>1. p \in Typed(g, x, "CALCULATION_PROFILE")
    BY <1>9
  <2> QED BY <1>8, <2>1 DEF Typed
<1>12. /\ Targets(g, p, "PROFILE_SELECTS_RULE") = Below(g, p, "CONFIGURATION_RULE")
       /\ Targets(g, p, "PROFILE_USES_ROUNDING") = Below(g, p, "ROUNDING_POLICY")
       /\ Targets(g, p, "PROFILE_USES_SOURCE_AUTHORITY") = Below(g, p, "SOURCE_AUTHORITY")
  <2>1. /\ Targets(g, p, "PROFILE_SELECTS_RULE") = Typed(g, p, "CONFIGURATION_RULE")
        /\ Targets(g, p, "PROFILE_USES_ROUNDING") = Typed(g, p, "ROUNDING_POLICY")
        /\ Targets(g, p, "PROFILE_USES_SOURCE_AUTHORITY") = Typed(g, p, "SOURCE_AUTHORITY")
    BY <1>11, TypedTargets
  <2>2. /\ Typed(g, p, "CONFIGURATION_RULE") = Below(g, p, "CONFIGURATION_RULE")
        /\ Typed(g, p, "ROUNDING_POLICY") = Below(g, p, "ROUNDING_POLICY")
        /\ Typed(g, p, "SOURCE_AUTHORITY") = Below(g, p, "SOURCE_AUTHORITY")
    BY <1>11, BelowProfile
  <2> QED BY <2>1, <2>2
<1>13. /\ Cardinality(Below(g, p, "ROUNDING_POLICY")) = 1
       /\ Cardinality(Below(g, p, "SOURCE_AUTHORITY")) = 1
       /\ Below(g, p, "CONFIGURATION_RULE") # {}
       /\ Below(g, p, "CONFIGURATION_RULE")
            = UNION {Targets(g, r, "RESOLUTION_SELECTS_RULE") :
                       r \in Targets(g, x, "RESULT_USES_RESOLUTION")}
  <2>1. /\ Cardinality(Targets(g, p, "PROFILE_USES_ROUNDING")) = 1
        /\ Cardinality(Targets(g, p, "PROFILE_USES_SOURCE_AUTHORITY")) = 1
        /\ Targets(g, p, "PROFILE_SELECTS_RULE") # {}
        /\ Targets(g, p, "PROFILE_SELECTS_RULE")
             = UNION {Targets(g, r, "RESOLUTION_SELECTS_RULE") :
                        r \in Targets(g, x, "RESULT_USES_RESOLUTION")}
    BY <1>5, <1>11, NoPathMissing
  <2> QED BY <1>12, <2>1
<1>14. ASSUME NEW type \in {"ROUNDING_POLICY", "SOURCE_AUTHORITY"} PROVE OneApproved(g, p, type)
  <2>1. ASSUME NEW m \in Below(g, p, type) PROVE IsApproved(g, m)
    BY <1>5, <1>11, <1>12, <2>1 DEF ApprovalMissing
  <2>2. \A m \in Below(g, p, type) : \E a \in Below(g, m, "APPROVAL") : g.nodes[a].approved
    BY <2>1, ApprovedBelow
  <2>3. Cardinality(Below(g, p, type)) = 1
    BY <1>13
  <2> QED BY <2>2, <2>3 DEF OneApproved
<1>15. Below(g, p, "CONFIGURATION_RULE")
         = UNION {Below(g, r, "CONFIGURATION_RULE") : r \in Typed(g, x, "RULE_RESOLUTION")}
  <2>1. ASSUME NEW r \in Typed(g, x, "RULE_RESOLUTION")
        PROVE  Targets(g, r, "RESOLUTION_SELECTS_RULE") = Below(g, r, "CONFIGURATION_RULE")
    <3>1. g.nodes[r].type = "RULE_RESOLUTION"
      BY DEF Typed
    <3>2. Targets(g, r, "RESOLUTION_SELECTS_RULE") = Typed(g, r, "CONFIGURATION_RULE")
      BY <3>1, TypedTargets
    <3>3. Typed(g, r, "CONFIGURATION_RULE") = Below(g, r, "CONFIGURATION_RULE")
      BY <3>1, BelowResolution
    <3> QED BY <3>2, <3>3
  <2> QED BY <1>8, <1>13, <2>1
<1>16. ASSUME NEW e \in Typed(g, x, "CANONICAL_EVENT")
       PROVE  /\ Below(g, e, "SOURCE_FILE") # {}
              /\ \A f \in Below(g, e, "SOURCE_FILE") : BytesMatch(g, f, v)
  <2>1. e \in Targets(g, x, "RESULT_DERIVED_FROM_EVENT") /\ g.nodes[e].type = "CANONICAL_EVENT"
    BY <1>8 DEF Typed
  <2>2. Targets(g, e, "EVENT_NORMALIZED_FROM_RECORD") = Typed(g, e, "SOURCE_RECORD")
    BY <2>1, TypedTargets
  <2>3. ASSUME NEW r \in Typed(g, e, "SOURCE_RECORD")
        PROVE  Targets(g, r, "RECORD_READ_FROM_FILE") = Typed(g, r, "SOURCE_FILE")
    <3>1. g.nodes[r].type = "SOURCE_RECORD"
      BY DEF Typed
    <3> QED BY <3>1, TypedTargets
  <2>4. Below(g, e, "SOURCE_FILE")
          = UNION {Typed(g, r, "SOURCE_FILE") : r \in Typed(g, e, "SOURCE_RECORD")}
    BY <2>1, BelowEvent
  <2>5. /\ Targets(g, e, "EVENT_NORMALIZED_FROM_RECORD") # {}
        /\ \A r \in Targets(g, e, "EVENT_NORMALIZED_FROM_RECORD") :
             Targets(g, r, "RECORD_READ_FROM_FILE") # {}
    BY <1>5, <2>1, NoPathMissing
  <2>6. Below(g, e, "SOURCE_FILE") # {}
    BY <2>2, <2>3, <2>4, <2>5
  <2>7. ASSUME NEW f \in Below(g, e, "SOURCE_FILE") PROVE BytesMatch(g, f, v)
    <3>1. PICK r \in Targets(g, e, "EVENT_NORMALIZED_FROM_RECORD") :
             f \in Targets(g, r, "RECORD_READ_FROM_FILE")
      BY <2>2, <2>3, <2>4
    <3>2. f \in FilesOf(g, x)
      BY <2>1, <3>1 DEF FilesOf
    <3>3. FileErrors(g.nodes[f], v.bytes, v.loader, v.required) = {}
      BY <1>1, <3>2
    <3>4. /\ v.loader \/ ~v.required
          /\ v.loader => /\ g.nodes[f].locator \in DOMAIN v.bytes
                         /\ v.bytes[g.nodes[f].locator] = g.nodes[f].ref
      BY <3>3, NoFileErrors
    <3> QED BY <3>4 DEF BytesMatch
  <2> QED BY <2>6, <2>7
<1>17. \A type \in {"ROUNDING_POLICY", "SOURCE_AUTHORITY"} : OneApproved(g, p, type)
  BY <1>14
<1> QED BY <1>3, <1>4, <1>6, <1>7, <1>10, <1>13, <1>15, <1>16, <1>17 DEF IsEvidence, Nodes, Typed

(* Builders leave a graph a graph, and a change after the verification     *)
(* leaves no verdict.                                                      *)
EvidenceInv == IsGraph(graph) /\ VerifiedIsEvidence

LEMMA EditedIsGraph ==
  ASSUME NEW g, IsGraph(g), NEW e \in GraphEdits,
         e.edit \in {"drop", "change"} => e.node \in DOMAIN g.nodes
  PROVE  IsGraph(EditedGraph(g, e))
<1> PICK h : h = EditedGraph(g, e)
  OBVIOUS
<1>1. /\ DOMAIN g = DOMAIN BaseGraph /\ "sealed" \in DOMAIN g /\ "nodes" \in DOMAIN g
      /\ "edges" \in DOMAIN g
  BY GraphAssumption DEF IsGraph
<1>2. IsFiniteSet(DOMAIN g.nodes) /\ IsFiniteSet(g.edges)
  BY DEF IsGraph
<1>3. CASE e.edit = "drop"
  <2>1. h = [g EXCEPT !.nodes = [n \in DOMAIN @ \ {e.node} |-> @[n]]]
    BY <1>3 DEF EditedGraph
  <2>2. DOMAIN h = DOMAIN g /\ DOMAIN h.nodes = DOMAIN g.nodes \ {e.node} /\ h.edges = g.edges
    BY <1>1, <2>1
  <2>3. IsFiniteSet(DOMAIN h.nodes)
    BY <1>2, <2>2, FS_Subset
  <2> QED BY <1>1, <1>2, <2>2, <2>3 DEF IsGraph
<1>4. CASE e.edit = "change"
  <2>1. h = [g EXCEPT !.nodes = [@ EXCEPT ![e.node] = e.value]]
    BY <1>4 DEF EditedGraph
  <2>2. DOMAIN h = DOMAIN g /\ DOMAIN h.nodes = DOMAIN g.nodes /\ h.edges = g.edges
    BY <1>1, <2>1
  <2> QED BY <1>1, <1>2, <2>2 DEF IsGraph
<1>5. CASE e.edit = "draw"
  <2>1. h = [g EXCEPT !.edges = @ \cup {e.edge}]
    BY <1>5 DEF EditedGraph
  <2>2. DOMAIN h = DOMAIN g /\ h.nodes = g.nodes /\ h.edges = g.edges \cup {e.edge}
    BY <1>1, <2>1
  <2>3. IsFiniteSet(h.edges)
    BY <1>2, <2>2, FS_AddElement
  <2> QED BY <1>1, <1>2, <2>2, <2>3 DEF IsGraph
<1>6. CASE e.edit = "erase"
  <2>1. h = [g EXCEPT !.edges = @ \ {e.edge}]
    BY <1>6 DEF EditedGraph
  <2>2. DOMAIN h = DOMAIN g /\ h.nodes = g.nodes /\ h.edges = g.edges \ {e.edge}
    BY <1>1, <2>1
  <2>3. IsFiniteSet(h.edges)
    BY <1>2, <2>2, FS_Subset
  <2> QED BY <1>1, <1>2, <2>2, <2>3 DEF IsGraph
<1>7. CASE e.edit = "unseal"
  <2>1. h = [g EXCEPT !.sealed = FALSE]
    BY <1>7 DEF EditedGraph
  <2>2. DOMAIN h = DOMAIN g /\ h.nodes = g.nodes /\ h.edges = g.edges
    BY <1>1, <2>1
  <2> QED BY <1>1, <1>2, <2>2 DEF IsGraph
<1>8. e.edit \in {"drop", "change", "draw", "erase", "unseal"}
  BY GraphAssumption
<1> QED BY <1>3, <1>4, <1>5, <1>6, <1>7, <1>8

(* What verify_evidence_chain finds nothing wrong with is evidence, for    *)
(* every graph of nodes and edges of the code's types, every store and any *)
(* edits of both.                                                          *)
THEOREM VerifiedHolds == EvidenceSpec => []VerifiedIsEvidence
<1>1. EvidenceInit => EvidenceInv
  BY GraphAssumption DEF EvidenceInit, EvidenceInv, VerifiedIsEvidence, Unverified
<1>2. EvidenceInv /\ [EvidenceNext]_evidenceVars => EvidenceInv'
  <2> SUFFICES ASSUME EvidenceInv, [EvidenceNext]_evidenceVars PROVE EvidenceInv'
    OBVIOUS
  <2>1. IsGraph(graph) /\ VerifiedIsEvidence
    BY DEF EvidenceInv
  <2>2. ASSUME NEW e \in GraphEdits, EditGraph(e) PROVE EvidenceInv'
    <3>1. IsGraph(graph')
      BY <2>1, <2>2, EditedIsGraph DEF EditGraph
    <3>2. verdict'.errors # {}
      BY <2>2 DEF EditGraph, Unverified
    <3> QED BY <3>1, <3>2 DEF EvidenceInv, VerifiedIsEvidence
  <2>3. ASSUME NEW s \in StoreChanges, ChangeStore(s) PROVE EvidenceInv'
    <3>1. UNCHANGED <<graph, verdict>>
      BY <2>3 DEF ChangeStore
    <3> QED BY <2>1, <3>1 DEF EvidenceInv, VerifiedIsEvidence
  <2>4. ASSUME NEW loader \in BOOLEAN, NEW required \in BOOLEAN, Verify(loader, required)
        PROVE  EvidenceInv'
    <3>1. graph' = graph
      BY <2>4 DEF Verify
    <3> PICK v : v = verdict'
      OBVIOUS
    <3>2. /\ v.errors = Errors(graph, store, loader, required) /\ v.bytes = store
          /\ v.loader = loader /\ v.required = required
      BY <2>4 DEF Verify
    <3>3. ASSUME v.errors = {} PROVE IsEvidence(graph, v)
      <4>1. v.loader \in BOOLEAN /\ v.required \in BOOLEAN
        BY <3>2
      <4>2. Errors(graph, v.bytes, v.loader, v.required) = {}
        BY <3>2, <3>3
      <4> QED BY <2>1, <4>1, <4>2, NoErrorsIsEvidence
    <3> QED BY <2>1, <3>1, <3>3 DEF EvidenceInv, VerifiedIsEvidence
  <2>5. CASE UNCHANGED evidenceVars
    <3>1. UNCHANGED <<graph, verdict>>
      BY <2>5 DEF evidenceVars
    <3> QED BY <2>1, <3>1 DEF EvidenceInv, VerifiedIsEvidence
  <2> QED BY <2>2, <2>3, <2>4, <2>5 DEF EvidenceNext, EvidenceChange
<1>3. EvidenceInv => VerifiedIsEvidence
  BY DEF EvidenceInv
<1> QED BY <1>1, <1>2, <1>3, PTL DEF EvidenceSpec

-----------------------------------------------------------------------------
(* Without, item by item.                                                  *)
KeptBy(f, n, S, s, x) ==
  /\ f \in [0 .. n -> Seq(S)]
  /\ f[0] = << >>
  /\ \A i \in 1 .. n : f[i] = AddedUnless(x, f[i - 1], s[i])
  /\ Without(s, x) = f[n]

LEMMA WithoutRounds ==
  ASSUME NEW S, NEW s \in Seq(S), NEW x
  PROVE  \E f : KeptBy(f, Len(s), S, s, x)
<1> DEFINE n == Len(s)
           X == Seq(S)
           G == [i \in 1 .. n |-> [t \in X |-> AddedUnless(x, t, s[i])]]
           kept[i \in 0 .. Len(s)] ==
             IF i = 0 THEN << >> ELSE AddedUnless(x, kept[i - 1], s[i])
<1>1. n \in Nat /\ << >> \in X /\ \A i \in 1 .. n : s[i] \in S
  OBVIOUS
<1>0. \A i \in 1 .. n : \A t \in X : AddedUnless(x, t, s[i]) \in X
  BY <1>1 DEF AddedUnless
<1>2. G \in [1 .. n -> [X -> X]]
  BY <1>0
<1>3. PICK f : Iterates(f, n, X, << >>, G)
  <2> HIDE DEF n, G, X
  <2> QED BY <1>1, <1>2, Iteration
<1>4. f \in [0 .. n -> X] /\ f[0] = << >>
  BY <1>3 DEF Iterates
<1>5. \A i \in 1 .. n : f[i] = AddedUnless(x, f[i - 1], s[i])
  <2> SUFFICES ASSUME NEW i \in 1 .. n
               PROVE  f[i] = AddedUnless(x, f[i - 1], s[i])
    OBVIOUS
  <2>1. f[i] = G[i][f[i - 1]] /\ f[i - 1] \in X
    <3> HIDE DEF G, n, X
    <3> QED BY <1>1, <1>3, <1>4 DEF Iterates
  <2> QED BY <2>1
<1>6. f = [i \in 0 .. n |-> IF i = 0 THEN << >> ELSE AddedUnless(x, f[i - 1], s[i])]
  <2> HIDE DEF n, X
  <2> QED BY <1>4, <1>5
<1>7. kept = [i \in 0 .. n |-> IF i = 0 THEN << >> ELSE AddedUnless(x, kept[i - 1], s[i])]
  BY <1>6
<1>8. Without(s, x) = kept[n]
  BY DEF Without
<1> HIDE DEF kept, n
<1>9. kept[0] = << >> /\ \A i \in 1 .. n : kept[i] = AddedUnless(x, kept[i - 1], s[i])
  BY <1>1, <1>7
<1> HIDE DEF X
<1> DEFINE T == {i \in 0 .. n : kept[i] \in X}
<1>10. 0 \in T
  BY <1>1, <1>9
<1>11. \A i \in 1 .. n : i - 1 \in T => i \in T
  BY <1>0, <1>1, <1>9
<1> HIDE DEF T
<1>12. \A i \in 0 .. n : i \in T
  BY <1>1, <1>10, <1>11, UpTo
<1>13. kept \in [0 .. n -> X]
  BY <1>7, <1>12 DEF T
<1>14. KeptBy(kept, n, S, s, x)
  BY <1>8, <1>9, <1>13 DEF KeptBy, X
<1> QED BY <1>14 DEF n

(* It has the others, each as often as before.                             *)
LEMMA WithoutFacts ==
  ASSUME NEW S, NEW s \in Seq(S), NEW x, ~Repeated(s)
  PROVE  Without(s, x) \in Seq(S) /\ ~Repeated(Without(s, x)) /\ x \notin Range(Without(s, x))
<1> PICK n \in Nat : n = Len(s)
  OBVIOUS
<1>0. PICK f : KeptBy(f, n, S, s, x)
  BY WithoutRounds
<1>1. /\ f \in [0 .. n -> Seq(S)] /\ f[0] = << >>
      /\ \A i \in 1 .. n : f[i] = AddedUnless(x, f[i - 1], s[i])
      /\ Without(s, x) = f[n]
  BY <1>0 DEF KeptBy
<1>2. \A i, j \in 1 .. n : i # j => s[i] # s[j]
  BY DEF Repeated
<1> DEFINE From(t, k) == \A i \in 1 .. Len(t) : t[i] # x /\ \E j \in 1 .. k : t[i] = s[j]
           Once(t) == \A i, j \in 1 .. Len(t) : i # j => t[i] # t[j]
           T == {k \in 0 .. n : From(f[k], k) /\ Once(f[k])}
<1>3. 0 \in T
  BY <1>1
<1>4. ASSUME NEW k \in 1 .. n, k - 1 \in T PROVE k \in T
  <2> PICK t \in Seq(S) : t = f[k - 1]
    BY <1>1
  <2>1. From(t, k - 1) /\ Once(t)
    BY <1>4
  <2>2. From(t, k)
    BY <2>1
  <2>3. CASE s[k] = x
    BY <1>1, <2>1, <2>2, <2>3 DEF AddedUnless
  <2>4. CASE s[k] # x
    <3> PICK u : u = Append(t, s[k])
      OBVIOUS
    <3>1. s[k] \in S
      OBVIOUS
    <3>2. /\ u \in Seq(S) /\ Len(u) = Len(t) + 1 /\ Len(t) \in Nat
          /\ \A i \in 1 .. Len(t) : u[i] = t[i]
          /\ u[Len(t) + 1] = s[k]
      BY <3>1, Pushed
    <3>3. f[k] = u
      BY <1>1, <2>4 DEF AddedUnless
    <3>4. ASSUME NEW i \in 1 .. Len(t) PROVE t[i] # s[k]
      <4>1. PICK j \in 1 .. (k - 1) : t[i] = s[j]
        BY <2>1
      <4>2. j \in 1 .. n /\ j # k
        OBVIOUS
      <4> QED BY <1>2, <4>1, <4>2
    <3>5. From(u, k)
      <4> SUFFICES ASSUME NEW i \in 1 .. Len(u) PROVE u[i] # x /\ \E j \in 1 .. k : u[i] = s[j]
        OBVIOUS
      <4>1. CASE i = Len(t) + 1
        BY <2>4, <3>2, <4>1
      <4>2. CASE i # Len(t) + 1
        <5>1. i \in 1 .. Len(t) /\ u[i] = t[i]
          BY <3>2, <4>2
        <5> QED BY <2>2, <5>1
      <4> QED BY <4>1, <4>2
    <3>6. Once(u)
      <4> SUFFICES ASSUME NEW i \in 1 .. Len(u), NEW j \in 1 .. Len(u), i # j PROVE u[i] # u[j]
        OBVIOUS
      <4>1. \A m \in 1 .. Len(u) : m = Len(t) + 1 \/ (m \in 1 .. Len(t) /\ u[m] = t[m])
        BY <3>2
      <4> QED BY <2>1, <3>2, <3>4, <4>1
    <3>7. k \in 0 .. n
      OBVIOUS
    <3> HIDE DEF From, Once
    <3> QED BY <3>3, <3>5, <3>6, <3>7
  <2> QED BY <2>3, <2>4
<1> HIDE DEF T
<1>5. n \in T
  <2>1. \A k \in 0 .. n : k \in T
    <3>1. \A k \in 1 .. n : k - 1 \in T => k \in T
      BY <1>4
    <3> QED BY <1>3, <3>1, UpTo
  <2> QED BY <2>1
<1> PICK r \in Seq(S) : r = Without(s, x)
  BY <1>1
<1>6. From(r, n) /\ Once(r)
  BY <1>1, <1>5 DEF T
<1>7. ~Repeated(r)
  <2> SUFFICES ASSUME NEW i \in DOMAIN r, NEW j \in DOMAIN r, i < j, r[i] = r[j]
               PROVE  FALSE
    BY DEF Repeated
  <2>1. i \in 1 .. Len(r) /\ j \in 1 .. Len(r) /\ i # j
    OBVIOUS
  <2>2. Once(r)
    BY <1>6
  <2> QED BY <2>1, <2>2
<1>8. x \notin Range(r)
  BY <1>6 DEF Range
<1> QED BY <1>7, <1>8

(* The limitations of a record: none twice, and the one of a preview in a  *)
(* preview, once, and in no other record.                                  *)
Times(s, x) == Cardinality({i \in DOMAIN s : s[i] = x})

LEMMA TimesOnce ==
  ASSUME NEW S, NEW s \in Seq(S), ~Repeated(s), NEW x
  PROVE  Times(s, x) = IF x \in Range(s) THEN 1 ELSE 0
<1> DEFINE I == {i \in DOMAIN s : s[i] = x}
<1>1. CASE x \in Range(s)
  <2>1. PICK i \in DOMAIN s : s[i] = x
    BY <1>1 DEF Range
  <2>2. \A j \in DOMAIN s : s[j] = x => j = i
    BY <2>1 DEF Repeated
  <2>3. I = {i}
    BY <2>1, <2>2
  <2>4. Cardinality(I) = 1
    BY <2>3, FS_Singleton
  <2> QED BY <1>1, <2>4 DEF Times
<1>2. CASE x \notin Range(s)
  <2>1. I = {}
    BY <1>2 DEF Range
  <2>2. Cardinality(I) = 0
    BY <2>1, FS_EmptySet
  <2> QED BY <1>2, <2>2 DEF Times
<1> QED BY <1>1, <1>2

LEMMA LimitationsFacts ==
  ASSUME NEW S, NotVerified \in S, NEW s, s.limitations \in Seq(S), ~Repeated(s.limitations),
         NEW withChain \in BOOLEAN
  PROVE  /\ Limitations(s, withChain) \in Seq(S)
         /\ ~Repeated(Limitations(s, withChain))
         /\ NotVerified \in Range(Limitations(s, withChain)) <=> ~withChain
<1> PICK l \in Seq(S) : l = s.limitations
  OBVIOUS
<1>1. CASE withChain
  <2>1. Limitations(s, withChain) = Without(l, NotVerified)
    BY <1>1 DEF Limitations
  <2> QED BY <1>1, <2>1, WithoutFacts
<1>2. CASE ~withChain /\ NotVerified \in Range(l)
  BY <1>2 DEF Limitations
<1>3. CASE ~withChain /\ NotVerified \notin Range(l)
  <2> PICK u : u = Append(l, NotVerified)
    OBVIOUS
  <2>1. Limitations(s, withChain) = u
    BY <1>3 DEF Limitations
  <2>2. /\ u \in Seq(S) /\ Len(u) = Len(l) + 1 /\ Len(l) \in Nat
        /\ \A i \in 1 .. Len(l) : u[i] = l[i]
        /\ u[Len(l) + 1] = NotVerified
    BY Pushed
  <2>3. \A i \in 1 .. Len(l) : l[i] # NotVerified
    BY <1>3 DEF Range
  <2>4. \A i, j \in 1 .. Len(l) : i < j => l[i] # l[j]
    BY DEF Repeated
  <2>5. ~Repeated(u)
    <3> SUFFICES ASSUME NEW i \in 1 .. Len(u), NEW j \in 1 .. Len(u), i < j PROVE u[i] # u[j]
      BY <2>2 DEF Repeated
    <3>1. i \in 1 .. Len(l) /\ u[i] = l[i]
      BY <2>2
    <3>2. CASE j = Len(l) + 1
      BY <2>2, <2>3, <3>1, <3>2
    <3>3. CASE j # Len(l) + 1
      <4>1. j \in 1 .. Len(l) /\ u[j] = l[j]
        BY <2>2, <3>3
      <4> QED BY <2>4, <3>1, <4>1
    <3> QED BY <3>2, <3>3
  <2>6. NotVerified \in Range(u)
    <3>1. Len(l) + 1 \in DOMAIN u
      BY <2>2
    <3> QED BY <2>2, <3>1 DEF Range
  <2> QED BY <1>3, <2>1, <2>2, <2>5, <2>6
<1> QED BY <1>1, <1>2, <1>3

(* What a snapshot without errors is.                                      *)
LEMMA NoSnapshotErrors ==
  ASSUME NEW s, SnapshotErrors(s) = {}
  PROVE  /\ s.chain # "none" /\ s.mode # "contaminated"
         /\ s.state \in {"VALID"} \cup OtherStates
         /\ s.state = "VALID" => ~SnapshotValueInvalid(s)
         /\ s.state # "VALID" =>
              <<s.value, s.type, s.unit>> = <<"none", "none", "none">> /\ ~s.currency /\ s.reason
         /\ ~Repeated(s.limitations)
<1>1. s.chain # "none"
  BY DEF SnapshotErrors
<1>2. s.mode # "contaminated"
  BY DEF SnapshotErrors
<1>3. s.state \in {"VALID"} \cup OtherStates
  BY DEF SnapshotErrors
<1>4. s.state = "VALID" => ~SnapshotValueInvalid(s)
  BY DEF SnapshotErrors
<1>5. s.state \in OtherStates =>
        <<s.value, s.type, s.unit>> = <<"none", "none", "none">> /\ ~s.currency /\ s.reason
  BY DEF SnapshotErrors
<1>6. ~Repeated(s.limitations)
  BY DEF SnapshotErrors
<1> QED BY <1>1, <1>2, <1>3, <1>4, <1>5, <1>6

(* The record's validator accepts what the evidence verifier accepted.     *)
LEMMA AcceptedRecord ==
  ASSUME NEW S, NotVerified \in S, NEW s, s.limitations \in Seq(S), SnapshotErrors(s) = {},
         NEW g, NEW withChain \in BOOLEAN, withChain => Bound(s, g)
  PROVE  ValidRecord(RecordOf(s, g, withChain))
<1> PICK r : r = RecordOf(s, g, withChain)
  OBVIOUS
<1>1. /\ r.mode = s.mode /\ r.chain = s.chain /\ r.state = s.state
      /\ r.value = s.value /\ r.type = s.type /\ r.unit = s.unit
      /\ r.currency = s.currency /\ r.reason = s.reason /\ r.sealed
      /\ r.limitations = Limitations(s, withChain)
      /\ r.publication = IF withChain THEN "EVIDENCE_VERIFIED" ELSE "PREVIEW_ONLY"
      /\ r.chainHash = IF withChain THEN g.id ELSE "none"
  BY DEF RecordOf
<1>2. /\ s.chain # "none" /\ s.mode # "contaminated"
      /\ s.state \in {"VALID"} \cup OtherStates
      /\ s.state = "VALID" => ~SnapshotValueInvalid(s)
      /\ s.state # "VALID" =>
           <<s.value, s.type, s.unit>> = <<"none", "none", "none">> /\ ~s.currency /\ s.reason
      /\ ~Repeated(s.limitations)
  BY NoSnapshotErrors
<1>3. ~Repeated(r.limitations) /\ (NotVerified \in Range(r.limitations) <=> ~withChain)
  BY <1>1, <1>2, LimitationsFacts
<1>4. ~PublicationInvalid(r)
  <2>1. CASE withChain
    <3>1. g.id # "none"
      BY <1>2, <2>1 DEF Bound
    <3> QED BY <1>1, <1>3, <2>1, <3>1 DEF PublicationInvalid
  <2>2. CASE ~withChain
    BY <1>1, <1>3, <2>2 DEF PublicationInvalid
  <2> QED BY <2>1, <2>2
<1>5. SnapshotValueInvalid(s) <=> SnapshotValueInvalid(r)
  BY <1>1 DEF SnapshotValueInvalid
<1>6. RecordValueInvalid(r) => SnapshotValueInvalid(r)
  BY DEF RecordValueInvalid, SnapshotValueInvalid
<1>7. CASE s.state = "VALID"
  BY <1>1, <1>2, <1>3, <1>4, <1>5, <1>6, <1>7 DEF ValidRecord
<1>8. CASE s.state # "VALID"
  BY <1>1, <1>2, <1>3, <1>4, <1>8 DEF ValidRecord
<1> QED BY <1>7, <1>8

(* The report of a call, for the snapshot and the graph it was made with.  *)
Acceptable(s, g, bytes, withChain) ==
  /\ SnapshotErrors(s) = {}
  /\ withChain => Errors(g, bytes, FALSE, FALSE) = {} /\ Bound(s, g)

LEMMA BuiltReports ==
  ASSUME snapshot \in Snapshots, NEW withChain \in BOOLEAN, BuildReportRecord(withChain)
  PROVE  EverySnapshotReports'
<1> DEFINE record == RecordOf(snapshot, graph, withChain)
<1>1. PICK S : NotVerified \in S /\ snapshot.limitations \in Seq(S)
  <2> DEFINE T == STRING \cup {NotVerified}
  <2>1. snapshot.limitations \in Seq(STRING)
    BY SnapshotAssumption
  <2>2. snapshot.limitations \in Seq(T)
    BY <2>1
  <2>3. NotVerified \in T
    OBVIOUS
  <2> HIDE DEF T
  <2> QED BY <2>2, <2>3
<1>2. UNCHANGED <<graph, store, snapshot>>
  BY DEF BuildReportRecord, evidenceVars
<1>3. report'.withChain = withChain
  BY DEF BuildReportRecord
<1>4. report'.result # "NONE" /\ (report'.result = "BUILT" <=> Acceptable(snapshot, graph, store, withChain))
  <2>1. CASE SnapshotErrors(snapshot) # {}
    BY <2>1 DEF BuildReportRecord, Acceptable
  <2>2. CASE SnapshotErrors(snapshot) = {} /\ withChain /\ Errors(graph, store, FALSE, FALSE) # {}
    BY <2>2 DEF BuildReportRecord, Acceptable
  <2>3. CASE /\ SnapshotErrors(snapshot) = {} /\ withChain
             /\ Errors(graph, store, FALSE, FALSE) = {} /\ ~Bound(snapshot, graph)
    BY <2>3 DEF BuildReportRecord, Acceptable
  <2>4. CASE Acceptable(snapshot, graph, store, withChain)
    <3>1. ValidRecord(record)
      BY <1>1, <2>4, AcceptedRecord DEF Acceptable
    <3>2. report'.result = "BUILT"
      BY <2>4, <3>1 DEF BuildReportRecord, Acceptable
    <3> QED BY <2>4, <3>2
  <2> QED BY <2>1, <2>2, <2>3, <2>4 DEF Acceptable
<1>5. ASSUME report'.result = "BUILT"
      PROVE  /\ <<record.ref, record.tenant, record.mode>> = <<snapshot.ref, snapshot.tenant, snapshot.mode>>
             /\ <<record.state, record.value, record.type, record.unit>>
                  = <<snapshot.state, snapshot.value, snapshot.type, snapshot.unit>>
             /\ Times(record.limitations, NotVerified) = IF withChain THEN 0 ELSE 1
             /\ report'.record[1] = record
  <2>1. ~Repeated(snapshot.limitations)
    BY <1>4, <1>5, NoSnapshotErrors DEF Acceptable
  <2>2. /\ record.limitations \in Seq(S) /\ ~Repeated(record.limitations)
        /\ NotVerified \in Range(record.limitations) <=> ~withChain
    <3>1. record.limitations = Limitations(snapshot, withChain)
      BY DEF RecordOf
    <3> HIDE DEF record
    <3> QED BY <1>1, <2>1, <3>1, LimitationsFacts
  <2>3. Times(record.limitations, NotVerified) = IF withChain THEN 0 ELSE 1
    <3> HIDE DEF record
    <3> QED BY <2>2, TimesOnce
  <2>4. report'.record = <<record>>
    <3> PICK q : q = record
      OBVIOUS
    <3>1. report'.record = IF report'.result = "BUILT" THEN <<q>> ELSE << >>
      BY DEF BuildReportRecord
    <3> QED BY <1>5, <3>1
  <2>5. report'.record[1] = record
    BY <2>4
  <2>6. /\ record.ref = snapshot.ref /\ record.tenant = snapshot.tenant /\ record.mode = snapshot.mode
        /\ record.state = snapshot.state /\ record.value = snapshot.value
        /\ record.type = snapshot.type /\ record.unit = snapshot.unit
    BY DEF RecordOf
  <2> QED BY <2>3, <2>5, <2>6
<1> HIDE DEF record
<1> PICK r : r = report'.record[1]
  OBVIOUS
<1>6. report'.result = "BUILT" =>
        /\ <<r.ref, r.tenant, r.mode>> = <<snapshot.ref, snapshot.tenant, snapshot.mode>>
        /\ <<r.state, r.value, r.type, r.unit>>
             = <<snapshot.state, snapshot.value, snapshot.type, snapshot.unit>>
        /\ Cardinality({i \in DOMAIN r.limitations : r.limitations[i] = NotVerified})
             = IF withChain THEN 0 ELSE 1
  BY <1>5 DEF Times
<1>7. Errors(graph, store, FALSE, FALSE)' = Errors(graph, store, FALSE, FALSE)
  BY <1>2
<1>8. SnapshotErrors(snapshot)' = SnapshotErrors(snapshot) /\ Bound(snapshot, graph)' = Bound(snapshot, graph)
  BY <1>2
<1> QED BY <1>2, <1>3, <1>4, <1>6, <1>7, <1>8 DEF EverySnapshotReports, Acceptable

THEOREM SnapshotsAlwaysReport == RecordSpec => []EverySnapshotReports
<1> DEFINE Inv == snapshot \in Snapshots /\ EverySnapshotReports
<1>1. RecordInit => Inv
  BY DEF RecordInit, NoReport, EverySnapshotReports
<1>2. Inv /\ [RecordNext]_recordVars => Inv'
  <2> SUFFICES ASSUME Inv, [RecordNext]_recordVars PROVE Inv'
    OBVIOUS
  <2>1. CASE EvidenceChange /\ report' = NoReport /\ UNCHANGED snapshot
    BY <2>1 DEF NoReport, EverySnapshotReports
  <2>2. ASSUME NEW withChain \in BOOLEAN, BuildReportRecord(withChain) PROVE Inv'
    <3>1. snapshot' = snapshot
      BY <2>2 DEF BuildReportRecord
    <3> QED BY <2>2, <3>1, BuiltReports
  <2>3. CASE UNCHANGED recordVars
    <3>1. UNCHANGED <<graph, store, snapshot, report>>
      BY <2>3 DEF recordVars, evidenceVars
    <3>2. EverySnapshotReports' <=> EverySnapshotReports
      BY <3>1 DEF EverySnapshotReports
    <3> QED BY <3>1, <3>2
  <2> QED BY <2>1, <2>2, <2>3 DEF RecordNext
<1>3. Inv => EverySnapshotReports
  OBVIOUS
<1> QED BY <1>1, <1>2, <1>3, PTL DEF RecordSpec

-----------------------------------------------------------------------------
Cursors == [offset : Nat, digest : Seq(ReportRecords), given : BOOLEAN]
Clients ==
  [read : Seq(ReportRecords), first : Seq(ReportRecords), cursor : Cursors,
   state : {"READING", "REFUSED", "DONE"}]

(* The client has read the records of `first' up to the cursor; a cursor   *)
(* it was given is bound to exactly these records.                         *)
PagingInv ==
  /\ collection \in Seq(ReportRecords)
  /\ client \in Clients
  /\ client.cursor.offset <= Len(client.first)
  /\ client.read = SubSeq(client.first, 1, client.cursor.offset)
  /\ client.cursor.given =>
       client.cursor.digest = client.first /\ ValidCollection(client.first)
  /\ ~client.cursor.given => client.cursor.offset = 0
  /\ client.state = "DONE" => client.cursor.given /\ client.cursor.offset = Len(client.first)

-----------------------------------------------------------------------------
(* A page: the records from the offset on, limit of them or to the end.    *)
LEMMA PageFacts ==
  ASSUME NEW rs \in Seq(ReportRecords), NEW offset \in 0 .. Len(rs), NEW limit \in Nat \ {0}
  PROVE  LET page == SubSeq(rs, offset + 1, Min({offset + limit, Len(rs)}))
             next == offset + Len(page)
         IN /\ next \in offset .. Len(rs)
            /\ SubSeq(rs, 1, offset) \o page = SubSeq(rs, 1, next)
<1> DEFINE end == Min({offset + limit, Len(rs)})
           page == SubSeq(rs, offset + 1, end)
<1>1. end \in {offset + limit, Len(rs)} /\ end <= Len(rs) /\ end <= offset + limit
  <2>1. \E x \in {offset + limit, Len(rs)} : \A y \in {offset + limit, Len(rs)} : x <= y
    OBVIOUS
  <2> QED BY <2>1 DEF Min
<1> HIDE DEF end
<1>2. end \in offset .. Len(rs)
  BY <1>1
<1>3. Len(page) = end - offset
  BY <1>2
<1>4. offset + Len(page) = end
  BY <1>2, <1>3
<1>5. SubSeq(rs, 1, offset) \o page = SubSeq(rs, 1, end)
  BY <1>2, ConcatAdjacentSubSeq
<1> QED BY <1>2, <1>4, <1>5 DEF end

LEMMA PageStep ==
  ASSUME PagingInv, NEW limit \in PageLimits, PageRecords(limit)
  PROVE  PagingInv'
<1> DEFINE offset == client.cursor.offset
           ok == /\ limit \in 1..MaxPageSize
                 /\ ValidCollection(collection)
                 /\ client.cursor.given => SameRecords(collection, client.cursor)
                 /\ offset <= Len(collection)
           page == SubSeq(collection, offset + 1, Min({offset + limit, Len(collection)}))
           next == offset + Len(page)
<1>1. collection \in Seq(ReportRecords) /\ client \in Clients /\ collection' = collection
  BY DEF PagingInv, PageRecords
<1>2. CASE ~ok
  <2>1. client' = [client EXCEPT !.state = "REFUSED"]
    BY <1>2 DEF PageRecords
  <2>2. /\ client' \in Clients /\ client'.read = client.read /\ client'.first = client.first
        /\ client'.cursor = client.cursor /\ client'.state = "REFUSED"
    BY <1>1, <2>1 DEF Clients
  <2> QED BY <1>1, <2>2 DEF PagingInv, ValidCollection
<1>3. CASE ok
  <2> DEFINE first == IF client.cursor.given THEN client.first ELSE collection
             state == IF next < Len(collection) THEN "READING" ELSE "DONE"
             cursor == [offset |-> next, digest |-> collection, given |-> TRUE]
  <2>1. client' = [read |-> client.read \o page, first |-> first, cursor |-> cursor,
                   state |-> state]
    BY <1>3 DEF PageRecords
  <2>2. first = collection
    BY <1>3 DEF PagingInv, SameRecords
  <2>3. limit \in Nat \ {0} /\ offset \in 0 .. Len(collection)
    BY <1>1, <1>3, PageSizeAssumption DEF Clients, Cursors
  <2>4. client.read = SubSeq(collection, 1, offset)
    <3>1. CASE client.cursor.given
      BY <2>2, <3>1 DEF PagingInv
    <3>2. CASE ~client.cursor.given
      <4>1. offset = 0 /\ client.read = SubSeq(client.first, 1, 0)
        BY <3>2 DEF PagingInv
      <4> QED BY <4>1
    <3> QED BY <3>1, <3>2
  <2>5. next \in offset .. Len(collection) /\ client.read \o page = SubSeq(collection, 1, next)
    BY <1>1, <2>3, <2>4, PageFacts
  <2>6. ValidCollection(collection)
    BY <1>3
  <2> HIDE DEF offset, ok, page, next, first, state
  <2>7. next \in Nat /\ next <= Len(collection) /\ (state = "DONE" => next = Len(collection))
    BY <1>1, <2>3, <2>5 DEF state
  <2>8. SubSeq(collection, 1, next) \in Seq(ReportRecords)
    BY <1>1, <2>7
  <2>9. /\ client'.read = SubSeq(collection, 1, next) /\ client'.first = collection
        /\ client'.cursor = cursor /\ client'.state = state
    BY <2>1, <2>2, <2>5
  <2>10. client' \in Clients
    <3>1. state \in {"READING", "REFUSED", "DONE"}
      BY DEF state
    <3>2. cursor \in Cursors
      BY <1>1, <2>7 DEF Cursors
    <3> HIDE DEF cursor
    <3> QED BY <1>1, <2>1, <2>2, <2>5, <2>8, <3>1, <3>2 DEF Clients
  <2> QED BY <1>1, <2>6, <2>7, <2>9, <2>10 DEF PagingInv, ValidCollection
<1> QED BY <1>2, <1>3

LEMMA PagingSafety == DeliverySpec => []PagingInv
<1>1. DeliveryInit => PagingInv
  <2> SUFFICES ASSUME DeliveryInit PROVE PagingInv
    OBVIOUS
  <2>1. NewClient \in Clients /\ client = NewClient /\ collection \in Seq(ReportRecords)
    BY CollectionsAssumption DEF DeliveryInit, NewClient, NoCursor, Clients, Cursors
  <2>2. SubSeq(<< >>, 1, 0) = << >> /\ Len(<< >>) = 0
    OBVIOUS
  <2> QED BY <2>1, <2>2 DEF PagingInv, NewClient, NoCursor
<1>2. PagingInv /\ [DeliveryNext]_deliveryVars => PagingInv'
  <2> SUFFICES ASSUME PagingInv, [DeliveryNext]_deliveryVars PROVE PagingInv'
    OBVIOUS
  <2>1. ASSUME client' = client, collection' \in Seq(ReportRecords) PROVE PagingInv'
    BY <2>1 DEF PagingInv, ValidCollection
  <2>2. CASE UNCHANGED <<client, collection>>
    BY <2>1, <2>2 DEF PagingInv
  <2>3. ASSUME NEW rs \in Collections, ReplaceCollection(rs) PROVE PagingInv'
    BY <2>1, <2>3, CollectionsAssumption DEF ReplaceCollection
  <2> QED BY <2>2, <2>3, PageStep
          DEF DeliveryNext, deliveryVars, ExportRecords, Damage, ImportRecords
<1> QED BY <1>1, <1>2, PTL DEF DeliverySpec

-----------------------------------------------------------------------------
(* A client that follows the cursors of page_records reads a beginning of  *)
(* one valid collection and, when there is no further cursor, all of it:   *)
(* whatever changes between two pages, nothing is read twice or left out.  *)
THEOREM PagedAlways == DeliverySpec => []PagedExactly
<1>1. PagingInv => PagedExactly
  <2> SUFFICES ASSUME PagingInv PROVE PagedExactly
    OBVIOUS
  <2> DEFINE f == client.first
             n == client.cursor.offset
  <2>1. f \in Seq(ReportRecords) /\ n \in 0 .. Len(f) /\ client.read = SubSeq(f, 1, n)
    BY DEF PagingInv, Clients, Cursors
  <2> HIDE DEF f, n
  <2>2. Len(SubSeq(f, 1, n)) = n /\ SubSeq(f, 1, n) \in Seq(ReportRecords)
    BY <2>1
  <2>3. SubSeq(SubSeq(f, 1, n), 1, n) = SubSeq(f, 1, n)
    BY <2>2, SubSeqFull
  <2>4. IsPrefix(client.read, f)
    BY <2>1, <2>2, <2>3 DEF IsPrefix
  <2>5. ASSUME client.state = "DONE" PROVE client.read = f /\ ValidCollection(f)
    <3>1. n = Len(f) /\ ValidCollection(f)
      BY <2>5 DEF PagingInv, f, n
    <3> QED BY <2>1, <3>1, SubSeqFull
  <2> QED BY <2>4, <2>5 DEF PagedExactly, f
<1> QED BY <1>1, PagingSafety, PTL

-----------------------------------------------------------------------------
(* A step of an induction along a sequence.                                *)
LEMMA NextPrefix ==
  ASSUME NEW S, NEW u \in Seq(S), NEW v \in Seq(S), NEW m \in 1 .. Len(v)
  PROVE  /\ u \o SubSeq(v, 1, m - 1) \in Seq(S)
         /\ u \o SubSeq(v, 1, m) = Append(u \o SubSeq(v, 1, m - 1), v[m])
  OBVIOUS

LEMMA WholePrefix ==
  ASSUME NEW S, NEW v \in Seq(S)
  PROVE  SubSeq(v, 1, Len(v)) = v /\ SubSeq(v, 1, 0) = << >>
  OBVIOUS

(* FlattenSeq, one sequence after the other.                               *)
FlatBy(f, n, S, seqs) ==
  /\ f \in [0 .. n -> Seq(S)] /\ f[0] = << >>
  /\ \A i \in 1 .. n : f[i] = f[i - 1] \o seqs[i]
  /\ FlattenSeq(seqs) = f[n]

LEMMA FlattenRounds ==
  ASSUME NEW S, NEW seqs \in Seq(Seq(S))
  PROVE  \E f : FlatBy(f, Len(seqs), S, seqs)
<1> DEFINE X == Seq(S)
           n == Len(seqs)
           G == [i \in 1 .. n |-> [t \in X |-> t \o seqs[i]]]
<1>1. n \in Nat /\ << >> \in X /\ \A i \in 1 .. n : seqs[i] \in X
  OBVIOUS
<1>2. G \in [1 .. n -> [X -> X]]
  <2> SUFFICES ASSUME NEW i \in 1 .. n, NEW t \in X PROVE t \o seqs[i] \in X
    OBVIOUS
  <2>1. seqs[i] \in X
    BY <1>1
  <2> QED BY <2>1
<1>3. PICK f : Iterates(f, n, X, << >>, G)
  <2> HIDE DEF G, n, X
  <2> QED BY <1>1, <1>2, Iteration
<1>4. f \in [0 .. n -> X] /\ f[0] = << >>
  BY <1>3 DEF Iterates
<1>5. \A i \in 1 .. n : f[i] = f[i - 1] \o seqs[i]
  <2> SUFFICES ASSUME NEW i \in 1 .. n PROVE f[i] = f[i - 1] \o seqs[i]
    OBVIOUS
  <2>1. f[i - 1] \in X
    <3> HIDE DEF G, n, X
    <3> QED BY <1>1, <1>4
  <2>2. f[i] = G[i][f[i - 1]]
    <3> HIDE DEF G, n, X
    <3> QED BY <1>3 DEF Iterates
  <2> QED BY <2>1, <2>2
<1> HIDE DEF G, n
<1>6. FlattenSeq(seqs) = f[n]
  <2>1. CASE n = 0
    <3>1. seqs = << >> /\ Len(seqs) = 0
      BY <1>1, <2>1, EmptySeq DEF n
    <3> QED BY <1>4, <2>1, <3>1 DEF FlattenSeq
  <2>2. CASE n # 0
    <3> HIDE DEF X
    <3> DEFINE flatten[i \in 1 .. Len(seqs)] == IF i = 1 THEN seqs[i] ELSE flatten[i - 1] \o seqs[i]
               h == [i \in 1 .. n |-> f[i]]
    <3>1. \A i \in 1 .. n : h[i] = IF i = 1 THEN seqs[i] ELSE h[i - 1] \o seqs[i]
      <4> SUFFICES ASSUME NEW i \in 1 .. n PROVE h[i] = IF i = 1 THEN seqs[i] ELSE h[i - 1] \o seqs[i]
        OBVIOUS
      <4>1. seqs[i] \in Seq(S)
        BY <1>1 DEF X
      <4>2. CASE i = 1
        <5>1. << >> \o seqs[i] = seqs[i]
          BY <4>1
        <5>2. f[i - 1] = << >> /\ f[i] = f[i - 1] \o seqs[i]
          BY <1>1, <1>4, <1>5, <4>2
        <5> QED BY <4>2, <5>1, <5>2
      <4>3. CASE i # 1
        <5>1. i - 1 \in 1 .. n
          BY <1>1, <4>3
        <5> QED BY <1>5, <4>3, <5>1
      <4> QED BY <4>2, <4>3
    <3>2. h = [i \in 1 .. n |-> IF i = 1 THEN seqs[i] ELSE h[i - 1] \o seqs[i]]
      BY <3>1
    <3> HIDE DEF h
    <3>3. flatten = [i \in 1 .. n |-> IF i = 1 THEN seqs[i] ELSE flatten[i - 1] \o seqs[i]]
      BY <3>2 DEF n
    <3>4. FlattenSeq(seqs) = flatten[n]
      BY <2>2 DEF FlattenSeq, n
    <3> HIDE DEF flatten
    <3> DEFINE T == {i \in 0 .. n : i = 0 \/ flatten[i] = f[i]}
    <3>5. \A i \in 1 .. n : i - 1 \in T => i \in T
      <4>0. \A i \in 1 .. n : i \in 0 .. n
        BY <1>1
      <4> SUFFICES ASSUME NEW i \in 1 .. n, i - 1 \in T PROVE flatten[i] = f[i]
        BY <4>0
      <4>1. CASE i = 1
        <5>1. seqs[i] \in Seq(S)
          BY <1>1 DEF X
        <5>2. << >> \o seqs[i] = seqs[i]
          BY <5>1
        <5>3. f[i - 1] = << >> /\ f[i] = f[i - 1] \o seqs[i]
          BY <1>1, <1>4, <1>5, <4>1
        <5>4. flatten[i] = seqs[i]
          BY <3>3, <4>1
        <5> QED BY <5>2, <5>3, <5>4
      <4>2. CASE i # 1
        <5>1. flatten[i - 1] = f[i - 1]
          BY <1>1, <4>2
        <5> QED BY <1>5, <3>3, <4>2, <5>1
      <4> QED BY <4>1, <4>2
    <3>6. 0 \in T
      BY <1>1
    <3> HIDE DEF T
    <3>7. \A i \in 0 .. n : i \in T
      BY <1>1, <3>5, <3>6, UpTo
    <3>8. flatten[n] = f[n]
      BY <1>1, <2>2, <3>7 DEF T
    <3> QED BY <3>4, <3>8
  <2> QED BY <2>1, <2>2
<1> QED BY <1>4, <1>5, <1>6 DEF FlatBy, n

-----------------------------------------------------------------------------
(* A record's line of JSON, character by character.                        *)
Characters ==
  {"{", "}", "intact", "torn", "\\n"} \cup TextCharacters
    \cup {r.id : r \in ReportRecords} \cup {r.tenant : r \in ReportRecords}
    \cup {r.mode : r \in ReportRecords}

Written(c) == IF c = "LF" THEN "\\n" ELSE c

LEMMA RecordFacts ==
  ASSUME NEW r \in ReportRecords
  PROVE  /\ r = [id |-> r.id, tenant |-> r.tenant, mode |-> r.mode, text |-> r.text, intact |-> r.intact]
         /\ r.text \in Seq(TextCharacters) /\ Len(r.text) \in Nat /\ r.intact \in BOOLEAN
         /\ \A x \in {r.id, r.tenant, r.mode} : x \notin {"{", "}", "a", "=", "LF", "LS"}
<1>1. r \in [id : {r.id}, tenant : {r.tenant}, mode : {r.mode},
             text : Seq(TextCharacters), intact : BOOLEAN]
  BY RecordsAssumption
<1>2. {r.id, r.tenant, r.mode} \cap ({"{", "}"} \cup TextCharacters) = {}
  BY RecordsAssumption
<1>3. \A x \in {r.id, r.tenant, r.mode} : x \notin {"{", "}", "a", "=", "LF", "LS"}
  <2> SUFFICES ASSUME NEW x \in {r.id, r.tenant, r.mode} PROVE x \notin {"{", "}", "a", "=", "LF", "LS"}
    OBVIOUS
  <2>1. x \notin {"{", "}"} \cup TextCharacters
    <3> DEFINE X == {r.id, r.tenant, r.mode}
               Y == {"{", "}"} \cup TextCharacters
    <3>1. x \in X /\ X \cap Y = {}
      BY <1>2
    <3> HIDE DEF X, Y
    <3>2. x \notin Y
      BY <3>1
    <3> QED BY <3>2 DEF Y
  <2> QED BY <2>1 DEF TextCharacters
<1>4. r.text \in Seq(TextCharacters) /\ r.intact \in BOOLEAN
  BY <1>1
<1>5. r = [id |-> r.id, tenant |-> r.tenant, mode |-> r.mode, text |-> r.text, intact |-> r.intact]
  BY <1>1
<1>6. Len(r.text) \in Nat
  BY <1>4
<1> QED BY <1>3, <1>4, <1>5, <1>6

(* Five before a sequence and one after it.                                *)
FramedBy(J, h, body, z, S) ==
  /\ J \in Seq(S) /\ Len(J) = Len(body) + 6
  /\ \A i \in 1 .. 5 : J[i] = h[i]
  /\ \A i \in 1 .. Len(body) : J[i + 5] = body[i]
  /\ J[Len(body) + 6] = z

LEMMA Framed ==
  ASSUME NEW S, NEW h \in Seq(S), Len(h) = 5, NEW z \in S, NEW body \in Seq(S)
  PROVE  FramedBy(h \o body \o <<z>>, h, body, z, S)
<1> DEFINE u == h \o body
           J == Append(u, z)
           n == Len(body)
<1>1. n \in Nat
  OBVIOUS
<1>2. u \in Seq(S) /\ Len(u) = n + 5 /\ \A i \in 1 .. (n + 5) : u[i] = IF i <= 5 THEN h[i] ELSE body[i - 5]
  <2>1. u \in Seq(S) /\ Len(u) = Len(h) + Len(body)
    BY ConcatProperties
  <2>2. \A i \in 1 .. (Len(h) + Len(body)) : u[i] = IF i <= Len(h) THEN h[i] ELSE body[i - Len(h)]
    BY ConcatProperties
  <2> HIDE DEF u
  <2> QED BY <1>1, <2>1, <2>2
<1>3. h \o body \o <<z>> = J
  OBVIOUS
<1> HIDE DEF u
<1>4. /\ J \in Seq(S) /\ Len(J) = n + 6
      /\ \A i \in 1 .. (n + 5) : J[i] = u[i]
      /\ J[n + 6] = z
  <2>1. J \in Seq(S) /\ Len(J) = Len(u) + 1 /\ J[Len(u) + 1] = z /\ \A i \in 1 .. Len(u) : J[i] = u[i]
    BY <1>2, AppendProperties
  <2> HIDE DEF n, J
  <2>2. Len(u) + 1 = n + 6
    BY <1>1, <1>2
  <2> QED BY <1>1, <1>2, <2>1, <2>2
<1> HIDE DEF n, J
<1>5. \A i \in 1 .. 5 : J[i] = h[i]
  BY <1>1, <1>2, <1>4
<1>6. \A i \in 1 .. n : J[i + 5] = body[i]
  <2> SUFFICES ASSUME NEW i \in 1 .. n PROVE J[i + 5] = body[i]
    OBVIOUS
  <2>1. i + 5 \in 1 .. (n + 5) /\ ~(i + 5 <= 5) /\ (i + 5) - 5 = i
    BY <1>1
  <2> QED BY <1>2, <1>4, <2>1
<1>7. FramedBy(J, h, body, z, S)
  BY <1>4, <1>5, <1>6 DEF FramedBy, n
<1> QED BY <1>3, <1>7

Torn(r) == IF r.intact THEN "intact" ELSE "torn"

JsonOf(r, J) ==
  /\ Len(r.text) \in Nat /\ J \in Seq(Characters) /\ Len(J) = Len(r.text) + 6
  /\ J[2] = r.id /\ J[3] = r.tenant /\ J[4] = r.mode /\ J[5] = Torn(r)
  /\ \A i \in 1 .. Len(r.text) : J[i + 5] = Written(r.text[i])
  /\ J[Len(r.text) + 6] = "}"
  /\ \A m \in 1 .. (Len(r.text) + 5) : J[m] \notin {"LF", "}"}
  /\ \A m \in 1 .. 5 : J[m] # "LS"

(* The characters of a line of JSON: its end is the only closing bracket.  *)
LEMMA JsonFacts ==
  ASSUME NEW r \in ReportRecords
  PROVE  JsonOf(r, Json(r))
<1> DEFINE n == Len(r.text)
           J == Json(r)
           h == <<"{", r.id, r.tenant, r.mode, Torn(r)>>
           body == [i \in DOMAIN r.text |-> IF r.text[i] = "LF" THEN "\\n" ELSE r.text[i]]
<1>0. n \in Nat /\ r.text \in Seq(TextCharacters)
  BY RecordFacts
<1>1. J = h \o body \o <<"}">>
  BY DEF Json, Torn
<1>2. /\ "{" \in Characters /\ "}" \in Characters /\ Torn(r) \in Characters
      /\ r.id \in Characters /\ r.tenant \in Characters /\ r.mode \in Characters
  BY DEF Characters, Torn
<1>h. /\ h \in Seq(Characters) /\ Len(h) = 5
      /\ h[1] = "{" /\ h[2] = r.id /\ h[3] = r.tenant /\ h[4] = r.mode /\ h[5] = Torn(r)
  <2>1. \A a, b, c, d, e \in Characters : <<a, b, c, d, e>> \in Seq(Characters) /\ Len(<<a, b, c, d, e>>) = 5
    OBVIOUS
  <2>2. h \in Seq(Characters)
    BY <1>2, <2>1, Zenon
  <2> QED BY <2>2
<1>3. \A i \in 1 .. n : r.text[i] \in TextCharacters
  BY <1>0
<1>4. body = [i \in 1 .. n |-> Written(r.text[i])]
  BY <1>0 DEF Written
<1>5. \A i \in 1 .. n : Written(r.text[i]) \in Characters /\ Written(r.text[i]) \notin {"LF", "}"}
  BY <1>3 DEF Written, Characters, TextCharacters
<1> HIDE DEF body
<1>6. body \in Seq(Characters) /\ Len(body) = n /\ \A i \in 1 .. n : body[i] = Written(r.text[i])
  <2>1. \A i \in 1 .. n : Written(r.text[i]) \in Characters
    BY <1>5
  <2>2. DOMAIN body = 1 .. n /\ \A i \in 1 .. n : body[i] = Written(r.text[i])
    BY <1>4
  <2> HIDE DEF n
  <2>3. body \in Seq(Characters)
    BY <1>0, <1>4, <2>1
  <2> QED BY <1>0, <2>2, <2>3
<1> HIDE DEF h, J, n
<1>7. /\ J \in Seq(Characters) /\ Len(J) = n + 6
      /\ J[1] = "{" /\ J[2] = r.id /\ J[3] = r.tenant /\ J[4] = r.mode /\ J[5] = Torn(r)
      /\ \A i \in 1 .. n : J[i + 5] = body[i]
      /\ J[n + 6] = "}"
  <2>1. FramedBy(J, h, body, "}", Characters)
    BY <1>1, <1>2, <1>6, <1>h, Framed
  <2>2. Len(body) = n /\ \A i \in 1 .. 5 : i \in Int
    BY <1>6
  <2>3. J[1] = h[1] /\ J[2] = h[2] /\ J[3] = h[3] /\ J[4] = h[4] /\ J[5] = h[5]
    <3>1. \A i \in 1 .. 5 : J[i] = h[i]
      BY <2>1 DEF FramedBy
    <3>2. 1 \in 1 .. 5 /\ 2 \in 1 .. 5 /\ 3 \in 1 .. 5 /\ 4 \in 1 .. 5 /\ 5 \in 1 .. 5
      OBVIOUS
    <3> QED BY <3>1, <3>2, Zenon
  <2>4. /\ J \in Seq(Characters) /\ Len(J) = n + 6 /\ J[n + 6] = "}"
        /\ \A i \in 1 .. n : J[i + 5] = body[i]
    BY <2>1, <2>2 DEF FramedBy
  <2> QED BY <1>h, <2>3, <2>4
<1>8. \A m \in 1 .. 5 : J[m] \notin {"LF", "}", "LS"}
  <2>1. \A x \in {r.id, r.tenant, r.mode} : x \notin {"LF", "}", "LS"}
    BY RecordFacts
  <2>2. Torn(r) \notin {"LF", "}", "LS"}
    BY DEF Torn
  <2>3. \A m \in 1 .. 5 : m \in {1, 2, 3, 4, 5}
    OBVIOUS
  <2> QED BY <1>7, <2>1, <2>2, <2>3
<1>9. ASSUME NEW m \in 1 .. (n + 5) PROVE J[m] \notin {"LF", "}"}
  <2>1. CASE m < 6
    <3>1. m \in 1 .. 5
      BY <1>0, <2>1
    <3> QED BY <1>8, <3>1
  <2>2. CASE ~(m < 6)
    <3>1. PICK i \in 1 .. n : m = i + 5
      <4>1. m - 5 \in 1 .. n /\ m = (m - 5) + 5
        BY <1>0, <2>2
      <4> QED BY <4>1
    <3> QED BY <1>5, <1>6, <1>7, <3>1
  <2> QED BY <2>1, <2>2
<1>10. \A i \in 1 .. n : J[i + 5] = Written(r.text[i])
  BY <1>6, <1>7
<1>11. \A m \in 1 .. 5 : J[m] # "LS"
  BY <1>8
<1>12. JsonOf(r, J)
  BY <1>0, <1>7, <1>9, <1>10, <1>11 DEF JsonOf, n
<1> QED BY <1>12 DEF J

(* JSON tells records apart.                                               *)
LEMMA JsonInjective ==
  ASSUME NEW r \in ReportRecords, NEW q \in ReportRecords, Json(r) = Json(q)
  PROVE  r = q
<1> DEFINE n == Len(r.text)
           k == Len(q.text)
           J == Json(r)
<1>1. /\ n \in Nat /\ Len(J) = n + 6
      /\ J[2] = r.id /\ J[3] = r.tenant /\ J[4] = r.mode /\ J[5] = Torn(r)
      /\ \A i \in 1 .. n : J[i + 5] = Written(r.text[i])
  BY JsonFacts DEF JsonOf
<1>2. /\ k \in Nat /\ Len(J) = k + 6
      /\ J[2] = q.id /\ J[3] = q.tenant /\ J[4] = q.mode /\ J[5] = Torn(q)
      /\ \A i \in 1 .. k : J[i + 5] = Written(q.text[i])
  <2>1. JsonOf(q, J)
    BY JsonFacts
  <2> QED BY <2>1 DEF JsonOf
<1>3. r.text \in Seq(TextCharacters) /\ q.text \in Seq(TextCharacters)
  BY RecordFacts
<1>4. r.intact \in BOOLEAN /\ q.intact \in BOOLEAN
  BY RecordFacts
<1> HIDE DEF J
<1>5. n = k
  BY <1>1, <1>2
<1>6. r.intact = q.intact
  <2>1. Torn(r) = Torn(q)
    BY <1>1, <1>2
  <2> QED BY <1>4, <2>1 DEF Torn
<1>7. ASSUME NEW i \in 1 .. n PROVE r.text[i] = q.text[i]
  <2>1. Written(r.text[i]) = Written(q.text[i])
    <3> HIDE DEF n, k
    <3> QED BY <1>1, <1>2, <1>5
  <2>2. r.text[i] \in TextCharacters /\ q.text[i] \in TextCharacters
    BY <1>3, <1>5
  <2> QED BY <2>1, <2>2 DEF Written, TextCharacters
<1>8. r.text = q.text
  BY <1>3, <1>5, <1>7, SeqEqual
<1>9. r = [id |-> r.id, tenant |-> r.tenant, mode |-> r.mode, text |-> r.text, intact |-> r.intact]
  BY RecordFacts
<1>10. q = [id |-> q.id, tenant |-> q.tenant, mode |-> q.mode, text |-> q.text, intact |-> q.intact]
  BY RecordFacts
<1>11. r.id = q.id /\ r.tenant = q.tenant /\ r.mode = q.mode
  BY <1>1, <1>2
<1> QED BY <1>6, <1>8, <1>9, <1>10, <1>11

LEMMA ParsedJson ==
  ASSUME NEW r \in ReportRecords
  PROVE  Parsed(Json(r)) = {r}
BY JsonInjective DEF Parsed
-----------------------------------------------------------------------------
(* What has been read of a text: the lines that are ended, and the rest.   *)
ReadStates == [lines : Seq(Seq(Characters)), line : Seq(Characters)]
NothingRead == [lines |-> << >>, line |-> << >>]

ReadBy(f, text) ==
  /\ f \in [0 .. Len(text) -> ReadStates] /\ f[0] = NothingRead
  /\ \A i \in 1 .. Len(text) : f[i] = Read(f[i - 1], text[i])
  /\ ReadAll(text) = f[Len(text)]

LEMMA ReadType ==
  ASSUME NEW s \in ReadStates, NEW c \in Characters
  PROVE  Read(s, c) \in ReadStates /\ LineEnded(s) \in ReadStates
<1>1. s.lines \in Seq(Seq(Characters)) /\ s.line \in Seq(Characters)
  BY DEF ReadStates
<1>2. Append(s.lines, s.line) \in Seq(Seq(Characters)) /\ Append(s.line, c) \in Seq(Characters)
  BY <1>1
<1>3. LineEnded(s) \in ReadStates
  BY <1>1, <1>2 DEF LineEnded, ReadStates
<1>4. [s EXCEPT !.line = Append(@, c)] \in ReadStates
  BY <1>1, <1>2 DEF ReadStates
<1> QED BY <1>3, <1>4 DEF Read

LEMMA ReadRounds ==
  ASSUME NEW text \in Seq(Characters)
  PROVE  \E f : ReadBy(f, text)
<1> DEFINE n == Len(text)
           G == [i \in 1 .. n |-> [s \in ReadStates |-> Read(s, text[i])]]
<1>1. n \in Nat /\ NothingRead \in ReadStates /\ \A i \in 1 .. n : text[i] \in Characters
  BY DEF NothingRead, ReadStates
<1>2. G \in [1 .. n -> [ReadStates -> ReadStates]]
  <2> SUFFICES ASSUME NEW i \in 1 .. n, NEW s \in ReadStates PROVE Read(s, text[i]) \in ReadStates
    OBVIOUS
  <2> HIDE DEF n
  <2>1. text[i] \in Characters
    BY <1>1
  <2> QED BY <2>1, ReadType
<1>3. PICK f : Iterates(f, n, ReadStates, NothingRead, G)
  <2> HIDE DEF G, n
  <2> QED BY <1>1, <1>2, Iteration
<1>4. f \in [0 .. n -> ReadStates] /\ f[0] = NothingRead
  BY <1>3 DEF Iterates
<1>5. \A i \in 1 .. n : f[i] = Read(f[i - 1], text[i])
  <2> SUFFICES ASSUME NEW i \in 1 .. n PROVE f[i] = Read(f[i - 1], text[i])
    OBVIOUS
  <2>1. f[i - 1] \in ReadStates
    <3> HIDE DEF G, n
    <3> QED BY <1>1, <1>4
  <2>2. f[i] = G[i][f[i - 1]]
    <3> HIDE DEF G, n
    <3> QED BY <1>3 DEF Iterates
  <2> QED BY <2>1, <2>2
<1> HIDE DEF G, n
<1> DEFINE read[i \in 0 .. Len(text)] == IF i = 0 THEN NothingRead ELSE Read(read[i - 1], text[i])
           h == [i \in 0 .. n |-> f[i]]
<1>6. \A i \in 0 .. n : h[i] = IF i = 0 THEN NothingRead ELSE Read(h[i - 1], text[i])
  <2> SUFFICES ASSUME NEW i \in 0 .. n, i # 0 PROVE f[i] = Read(h[i - 1], text[i])
    BY <1>1, <1>4
  <2>1. i \in 1 .. n /\ i - 1 \in 0 .. n
    BY <1>1
  <2>2. h[i - 1] = f[i - 1]
    BY <2>1
  <2> QED BY <1>5, <2>1, <2>2
<1>7. h = [i \in 0 .. n |-> IF i = 0 THEN NothingRead ELSE Read(h[i - 1], text[i])]
  BY <1>6
<1> HIDE DEF h
<1>8. read = [i \in 0 .. n |-> IF i = 0 THEN NothingRead ELSE Read(read[i - 1], text[i])]
  BY <1>7 DEF n
<1>9. ReadAll(text) = read[n]
  BY DEF ReadAll, NothingRead, n
<1> HIDE DEF read
<1> DEFINE T == {i \in 0 .. n : read[i] = f[i]}
<1>10. 0 \in T
  BY <1>1, <1>4, <1>8
<1>11. \A i \in 1 .. n : i - 1 \in T => i \in T
  <2> SUFFICES ASSUME NEW i \in 1 .. n, read[i - 1] = f[i - 1] PROVE read[i] = f[i]
    BY <1>1
  <2>1. i \in 0 .. n /\ i # 0
    BY <1>1
  <2> QED BY <1>5, <1>8, <2>1
<1> HIDE DEF T
<1>12. \A i \in 0 .. n : i \in T
  BY <1>1, <1>10, <1>11, UpTo
<1>13. read[n] = f[n]
  BY <1>1, <1>12 DEF T
<1>14. ReadBy(f, text)
  BY <1>4, <1>5, <1>9, <1>13 DEF ReadBy, n
<1> QED BY <1>14

LEMMA ReadNothing == ReadAll(<< >>) = NothingRead
<1>1. << >> \in Seq(Characters) /\ Len(<< >>) = 0
  OBVIOUS
<1>2. PICK f : ReadBy(f, << >>)
  BY <1>1, ReadRounds
<1> QED BY <1>1, <1>2 DEF ReadBy

LEMMA ReadAppend ==
  ASSUME NEW text \in Seq(Characters), NEW c \in Characters
  PROVE  /\ ReadAll(text) \in ReadStates
         /\ ReadAll(Append(text, c)) = Read(ReadAll(text), c)
<1> DEFINE n == Len(text)
           more == Append(text, c)
<1>1. /\ n \in Nat /\ more \in Seq(Characters) /\ Len(more) = n + 1 /\ more[n + 1] = c
      /\ \A i \in 1 .. n : more[i] = text[i]
  BY AppendProperties
<1>2. PICK f : ReadBy(f, text)
  BY ReadRounds
<1> HIDE DEF more
<1>3. PICK g : ReadBy(g, more)
  BY <1>1, ReadRounds
<1>4. /\ f \in [0 .. n -> ReadStates] /\ f[0] = NothingRead /\ ReadAll(text) = f[n]
      /\ \A i \in 1 .. n : f[i] = Read(f[i - 1], text[i])
  BY <1>2 DEF ReadBy
<1>5. /\ g[0] = NothingRead /\ ReadAll(more) = g[n + 1]
      /\ \A i \in 1 .. (n + 1) : g[i] = Read(g[i - 1], more[i])
  BY <1>1, <1>3 DEF ReadBy
<1> HIDE DEF n
<1>n. n \in Nat
  BY <1>1
<1> DEFINE T == {i \in 0 .. n : f[i] = g[i]}
<1>6. 0 \in T
  BY <1>n, <1>4, <1>5
<1>7. \A i \in 1 .. n : i - 1 \in T => i \in T
  <2> SUFFICES ASSUME NEW i \in 1 .. n, f[i - 1] = g[i - 1] PROVE f[i] = g[i]
    BY <1>n
  <2>1. i \in 1 .. (n + 1)
    BY <1>n
  <2>2. f[i] = Read(f[i - 1], text[i])
    BY <1>4
  <2>3. g[i] = Read(g[i - 1], more[i])
    BY <1>5, <2>1
  <2>4. more[i] = text[i]
    BY <1>1
  <2> QED BY <2>2, <2>3, <2>4
<1> HIDE DEF T
<1>8. \A i \in 0 .. n : i \in T
  BY <1>1, <1>6, <1>7, UpTo
<1>9. f[n] = g[n]
  BY <1>1, <1>8 DEF T
<1>10. n + 1 \in 1 .. (n + 1) /\ (n + 1) - 1 = n /\ n \in 0 .. n
  BY <1>1
<1>11. g[n + 1] = Read(g[n], c)
  BY <1>1, <1>5, <1>10
<1> QED BY <1>4, <1>5, <1>9, <1>10, <1>11 DEF more
(* A line that is no record stays one among the lines.                     *)
Bad(s) == \E i \in DOMAIN s.lines : Parsed(s.lines[i]) = {}

LEMMA BadEnded ==
  ASSUME NEW s \in ReadStates, Bad(s)
  PROVE  Bad(LineEnded(s))
<1>1. s.lines \in Seq(Seq(Characters)) /\ s.line \in Seq(Characters)
  BY DEF ReadStates
<1>2. PICK i \in DOMAIN s.lines : Parsed(s.lines[i]) = {}
  BY DEF Bad
<1>3. i \in DOMAIN Append(s.lines, s.line) /\ Append(s.lines, s.line)[i] = s.lines[i]
  BY <1>1
<1>4. LineEnded(s).lines = s.lines \/ LineEnded(s).lines = Append(s.lines, s.line)
  BY DEF LineEnded
<1> QED BY <1>2, <1>3, <1>4 DEF Bad

LEMMA BadRead ==
  ASSUME NEW s \in ReadStates, NEW c \in Characters, Bad(s)
  PROVE  Bad(Read(s, c))
<1>1. [s EXCEPT !.line = Append(@, c)].lines = s.lines
  BY DEF ReadStates
<1>2. Bad([s EXCEPT !.line = Append(@, c)])
  BY <1>1 DEF Bad
<1> QED BY <1>2, BadEnded DEF Read

LEMMA BadLater ==
  ASSUME NEW text \in Seq(Characters), NEW v \in Seq(Characters), Bad(ReadAll(text))
  PROVE  Bad(ReadAll(text \o v))
<1> DEFINE n == Len(v)
           Part(m) == text \o SubSeq(v, 1, m)
           T == {m \in 0 .. n : Part(m) \in Seq(Characters) /\ Bad(ReadAll(Part(m)))}
<1>1. n \in Nat /\ \A i \in 1 .. n : v[i] \in Characters
  OBVIOUS
<1>2. Part(0) = text /\ Part(n) = text \o v
  <2>1. SubSeq(v, 1, n) = v /\ SubSeq(v, 1, 0) = << >>
    BY WholePrefix
  <2>2. text \o << >> = text
    BY ConcatEmptySeq
  <2> QED BY <2>1, <2>2
<1>3. \A m \in 1 .. n : /\ Part(m - 1) \in Seq(Characters)
                        /\ Part(m) = Append(Part(m - 1), v[m])
  BY NextPrefix
<1> HIDE DEF n, Part
<1>4. 0 \in T
  BY <1>1, <1>2
<1>5. \A m \in 1 .. n : m - 1 \in T => m \in T
  <2> SUFFICES ASSUME NEW m \in 1 .. n, Bad(ReadAll(Part(m - 1)))
               PROVE  Part(m) \in Seq(Characters) /\ Bad(ReadAll(Part(m)))
    BY <1>1
  <2>1. Part(m - 1) \in Seq(Characters) /\ Part(m) = Append(Part(m - 1), v[m]) /\ v[m] \in Characters
    BY <1>1, <1>3
  <2>2. Part(m) \in Seq(Characters)
    BY <2>1, AppendProperties
  <2>3. ReadAll(Part(m - 1)) \in ReadStates /\ ReadAll(Part(m)) = Read(ReadAll(Part(m - 1)), v[m])
    BY <2>1, ReadAppend
  <2> QED BY <2>1, <2>2, <2>3, BadRead
<1> HIDE DEF T
<1>6. \A m \in 0 .. n : m \in T
  BY <1>1, <1>4, <1>5, UpTo
<1>7. n \in T
  BY <1>1, <1>6
<1> QED BY <1>2, <1>7 DEF T

(* A record's line, cut off before its end, is no record.                  *)
LEMMA CutOff ==
  ASSUME NEW r \in ReportRecords, NEW m \in 1 .. (Len(r.text) + 5)
  PROVE  Parsed(SubSeq(Json(r), 1, m)) = {}
<1> SUFFICES ASSUME NEW q \in ReportRecords, Json(q) = SubSeq(Json(r), 1, m) PROVE FALSE
  BY DEF Parsed
<1> DEFINE J == Json(r)
           cut == SubSeq(J, 1, m)
           n == Len(r.text)
           k == Len(q.text)
<1>1. n \in Nat /\ J \in Seq(Characters) /\ Len(J) = n + 6
  BY JsonFacts DEF JsonOf
<1>f. \A i \in 1 .. (n + 5) : J[i] \notin {"LF", "}"}
  BY JsonFacts DEF JsonOf
<1>2. JsonOf(q, cut)
  BY JsonFacts
<1>3. k \in Nat /\ Len(cut) = k + 6 /\ cut[k + 6] = "}"
  BY <1>2 DEF JsonOf
<1> HIDE DEF J, n, k
<1>4. m \in 1 .. (n + 5)
  BY DEF n
<1>5. Len(cut) = m /\ \A i \in 1 .. m : cut[i] = J[i]
  BY <1>1, <1>4
<1> HIDE DEF cut
<1>6. m = k + 6 /\ m \in 1 .. m
  <2>1. Len(cut) = m /\ Len(cut) = k + 6
    BY <1>3, <1>5
  <2> QED BY <1>1, <1>4, <2>1
<1>7. cut[m] = "}"
  BY <1>3, <1>6
<1> QED BY <1>f, <1>4, <1>5, <1>6, <1>7

(* The line of a record read from the beginning of a line.                 *)
LEMMA ReadRecord ==
  ASSUME NEW text \in Seq(Characters), NEW r \in ReportRecords, NEW L,
         ReadAll(text) = [lines |-> L, line |-> << >>]
  PROVE  \/ Bad(ReadAll(text \o Append(Json(r), "LF")))
         \/ ReadAll(text \o Append(Json(r), "LF")) = [lines |-> Append(L, Json(r)), line |-> << >>]
<1> DEFINE J == Json(r)
           n == Len(r.text)
           Part(m) == text \o SubSeq(J, 1, m)
           Cut(m) == SubSeq(J, 1, m)
           T == {m \in 0 .. (n + 6) :
                   /\ Part(m) \in Seq(Characters)
                   /\ Bad(ReadAll(Part(m))) \/ ReadAll(Part(m)) = [lines |-> L, line |-> Cut(m)]}
<1>1. n \in Nat /\ J \in Seq(Characters) /\ Len(J) = n + 6
  BY JsonFacts DEF JsonOf
<1>e. J[n + 6] = "}"
  BY JsonFacts DEF JsonOf
<1>f. \A m \in 1 .. (n + 5) : J[m] \notin {"LF", "}"}
  BY JsonFacts DEF JsonOf
<1>g. \A m \in 1 .. 5 : J[m] # "LS"
  BY JsonFacts DEF JsonOf
<1>2. \A m \in 1 .. (n + 5) : Parsed(Cut(m)) = {}
  BY CutOff
<1> HIDE DEF J, n
<1>3. Cut(0) = << >> /\ Cut(n + 6) = J /\ Part(0) = text /\ Part(n + 6) = text \o J
  <2>1. SubSeq(J, 1, Len(J)) = J /\ SubSeq(J, 1, 0) = << >>
    BY <1>1, WholePrefix
  <2>2. text \o << >> = text
    BY ConcatEmptySeq
  <2> QED BY <1>1, <2>1, <2>2
<1>4. \A m \in 1 .. (n + 6) : /\ Part(m - 1) \in Seq(Characters)
                              /\ Part(m) = Append(Part(m - 1), J[m])
  BY <1>1, NextPrefix
<1>5. \A m \in 1 .. (n + 6) : Cut(m) = Append(Cut(m - 1), J[m])
  <2> SUFFICES ASSUME NEW m \in 1 .. Len(J) PROVE Cut(m) = Append(Cut(m - 1), J[m])
    BY <1>1
  <2> QED BY <1>1
<1>6. \A m \in 0 .. (n + 6) : Cut(m) \in Seq(Characters) /\ (m # 0 => Cut(m) # << >>)
  <2> SUFFICES ASSUME NEW m \in 0 .. Len(J) PROVE Cut(m) \in Seq(Characters) /\ (m # 0 => Cut(m) # << >>)
    BY <1>1
  <2> QED BY <1>1
<1> HIDE DEF Part, Cut
<1>7. 0 \in T
  BY <1>1, <1>3
<1>8. \A m \in 1 .. (n + 6) : m - 1 \in T => m \in T
  <2> SUFFICES ASSUME NEW m \in 1 .. (n + 6), m - 1 \in T PROVE m \in T
    OBVIOUS
  <2>0. J[m] \in Characters
    <3>1. m \in 1 .. Len(J)
      BY <1>1
    <3> QED BY <1>1, <3>1
  <2>1. Part(m - 1) \in Seq(Characters) /\ Part(m) = Append(Part(m - 1), J[m]) /\ J[m] \in Characters
    BY <1>4, <2>0
  <2>2. Part(m) \in Seq(Characters)
    BY <2>1, AppendProperties
  <2>3. ReadAll(Part(m - 1)) \in ReadStates /\ ReadAll(Part(m)) = Read(ReadAll(Part(m - 1)), J[m])
    BY <2>1, ReadAppend
  <2>4. m \in 0 .. (n + 6)
    BY <1>1
  <2>5. CASE Bad(ReadAll(Part(m - 1)))
    <3>1. Bad(ReadAll(Part(m)))
      BY <2>1, <2>3, <2>5, BadRead
    <3> QED BY <2>2, <2>4, <3>1
  <2>6. CASE ~Bad(ReadAll(Part(m - 1)))
    <3>1. ReadAll(Part(m - 1)) = [lines |-> L, line |-> Cut(m - 1)]
      BY <2>6
    <3>2. L \in Seq(Seq(Characters))
      BY <2>3, <3>1 DEF ReadStates
    <3>3. J[m] # "LF"
      <4>1. CASE m = n + 6
        BY <1>e, <4>1
      <4>2. CASE m # n + 6
        <5>1. m \in 1 .. (n + 5)
          BY <1>1, <4>2
        <5> QED BY <1>f, <5>1
      <4> QED BY <4>1, <4>2
    <3>4. CASE J[m] # "LS"
      <4>1. ReadAll(Part(m)) = [[lines |-> L, line |-> Cut(m - 1)] EXCEPT !.line = Append(@, J[m])]
        BY <2>3, <3>1, <3>3, <3>4 DEF Read
      <4>2. ReadAll(Part(m)) = [lines |-> L, line |-> Append(Cut(m - 1), J[m])]
        BY <4>1
      <4>3. ReadAll(Part(m)) = [lines |-> L, line |-> Cut(m)]
        BY <1>5, <4>2
      <4> QED BY <2>2, <2>4, <4>3
    <3>5. CASE J[m] = "LS"
      <4>1. m # n + 6 /\ ~(m \in 1 .. 5)
        BY <1>e, <1>g, <3>5
      <4>2. m - 1 \in 1 .. (n + 5) /\ m - 1 \in 0 .. (n + 6) /\ m - 1 # 0
        BY <1>1, <4>1
      <4>3. Cut(m - 1) # << >> /\ Parsed(Cut(m - 1)) = {}
        BY <1>2, <1>6, <4>2
      <4>4. ReadAll(Part(m)).lines = Append(L, Cut(m - 1))
        BY <2>3, <3>1, <3>5, <4>3 DEF Read, LineEnded
      <4>5. /\ Len(L) + 1 \in DOMAIN Append(L, Cut(m - 1))
            /\ Append(L, Cut(m - 1))[Len(L) + 1] = Cut(m - 1)
        BY <1>6, <3>2, <4>2
      <4>6. Bad(ReadAll(Part(m)))
        BY <4>3, <4>4, <4>5 DEF Bad
      <4> QED BY <2>2, <2>4, <4>6
    <3> QED BY <3>4, <3>5
  <2> QED BY <2>5, <2>6
<1> HIDE DEF T
<1>9. \A m \in 0 .. (n + 6) : m \in T
  <2> DEFINE end == n + 6
  <2>1. end \in Nat
    BY <1>1
  <2>2. 0 \in T /\ \A m \in 1 .. end : m - 1 \in T => m \in T
    BY <1>7, <1>8
  <2> HIDE DEF end
  <2>3. \A m \in 0 .. end : m \in T
    BY <2>1, <2>2, UpTo
  <2> QED BY <2>3 DEF end
<1>10. n + 6 \in T
  BY <1>1, <1>9
<1>11. /\ text \o J \in Seq(Characters)
       /\ Bad(ReadAll(text \o J)) \/ ReadAll(text \o J) = [lines |-> L, line |-> J]
  BY <1>3, <1>10 DEF T
<1>12. "LF" \in Characters
  BY DEF Characters, TextCharacters
<1>13. text \o Append(J, "LF") = Append(text \o J, "LF")
  BY <1>1, <1>12
<1>14. /\ ReadAll(text \o J) \in ReadStates
       /\ ReadAll(text \o Append(J, "LF")) = Read(ReadAll(text \o J), "LF")
  BY <1>11, <1>12, <1>13, ReadAppend
<1>15. J # << >>
  BY <1>1
<1>16. CASE Bad(ReadAll(text \o J))
  BY <1>12, <1>14, <1>16, BadRead DEF J
<1>17. CASE ReadAll(text \o J) = [lines |-> L, line |-> J]
  BY <1>14, <1>15, <1>17 DEF Read, LineEnded, J
<1> QED BY <1>11, <1>16, <1>17
JsonOfAll(rs, m) == [i \in 1 .. m |-> Json(rs[i])]

(* What an export wrote as JSON lines is read as it was, or not at all.    *)
LEMMA LinesRead ==
  ASSUME NEW rs \in Seq(ReportRecords)
  PROVE  FromLines(JsonLines(rs)) \subseteq {rs}
<1> DEFINE n == Len(rs)
           ls == [i \in DOMAIN rs |-> Append(Json(rs[i]), "LF")]
           text == JsonLines(rs)
           end == ReadAll(text)
<1>1. n \in Nat /\ DOMAIN rs = 1 .. n /\ \A i \in 1 .. n : rs[i] \in ReportRecords
  OBVIOUS
<1>2. \A i \in 1 .. n : Json(rs[i]) \in Seq(Characters)
  BY <1>1, JsonFacts DEF JsonOf
<1>3. /\ ls \in Seq(Seq(Characters)) /\ Len(ls) = n
      /\ \A i \in 1 .. n : ls[i] = Append(Json(rs[i]), "LF")
      /\ \A i \in 1 .. n : Append(Json(rs[i]), "LF") \in Seq(Characters)
  <2>1. "LF" \in Characters
    BY DEF Characters, TextCharacters
  <2>2. \A i \in 1 .. n : Append(Json(rs[i]), "LF") \in Seq(Characters)
    BY <1>2, <2>1, AppendProperties
  <2>3. ls = [i \in 1 .. n |-> Append(Json(rs[i]), "LF")]
    BY <1>1
  <2> HIDE DEF ls, n
  <2> DEFINE C == Seq(Characters)
  <2>4. \A i \in 1 .. n : Append(Json(rs[i]), "LF") \in C
    BY <2>2
  <2> HIDE DEF C
  <2>5. ls \in Seq(C) /\ Len(ls) = n
    BY <1>1, <2>3, <2>4
  <2> QED BY <2>2, <2>3, <2>5 DEF C
<1>4. text = FlattenSeq(ls)
  BY DEF JsonLines
<1> HIDE DEF ls, text, n
<1>5. PICK f : FlatBy(f, n, Characters, ls)
  BY <1>3, FlattenRounds
<1>6. /\ f \in [0 .. n -> Seq(Characters)] /\ f[0] = << >> /\ text = f[n]
      /\ \A i \in 1 .. n : f[i] = f[i - 1] \o ls[i]
  BY <1>4, <1>5 DEF FlatBy
<1> DEFINE T == {i \in 0 .. n : \/ Bad(ReadAll(f[i]))
                                \/ ReadAll(f[i]) = [lines |-> JsonOfAll(rs, i), line |-> << >>]}
<1>7. 0 \in T
  <2>1. JsonOfAll(rs, 0) = << >>
    BY DEF JsonOfAll
  <2> QED BY <1>1, <1>6, <2>1, ReadNothing DEF NothingRead
<1>8. \A i \in 1 .. n : i - 1 \in T => i \in T
  <2> SUFFICES ASSUME NEW i \in 1 .. n, i - 1 \in T PROVE i \in T
    OBVIOUS
  <2>0. i \in 0 .. n /\ i - 1 \in 0 .. n
    BY <1>1
  <2>a. f[i - 1] \in Seq(Characters)
    BY <1>6, <2>0
  <2>b. f[i] = f[i - 1] \o ls[i] /\ ls[i] = Append(Json(rs[i]), "LF")
    BY <1>3, <1>6
  <2>1. /\ i \in 0 .. n /\ i - 1 \in 0 .. n /\ f[i - 1] \in Seq(Characters)
        /\ f[i] = f[i - 1] \o Append(Json(rs[i]), "LF")
    BY <2>0, <2>a, <2>b
  <2>2. Append(Json(rs[i]), "LF") \in Seq(Characters) /\ rs[i] \in ReportRecords
    BY <1>1, <1>3
  <2>3. CASE Bad(ReadAll(f[i - 1]))
    <3>1. Bad(ReadAll(f[i]))
      BY <2>1, <2>2, <2>3, BadLater
    <3> QED BY <2>1, <3>1
  <2>4. CASE ReadAll(f[i - 1]) = [lines |-> JsonOfAll(rs, i - 1), line |-> << >>]
    <3>1. Append(JsonOfAll(rs, i - 1), Json(rs[i])) = JsonOfAll(rs, i)
      BY <1>1, <2>1 DEF JsonOfAll
    <3>2. \/ Bad(ReadAll(f[i]))
          \/ ReadAll(f[i]) = [lines |-> Append(JsonOfAll(rs, i - 1), Json(rs[i])), line |-> << >>]
      BY <2>1, <2>2, <2>4, ReadRecord
    <3> QED BY <2>1, <3>1, <3>2
  <2> QED BY <2>3, <2>4
<1> HIDE DEF T
<1>9. \A i \in 0 .. n : i \in T
  BY <1>1, <1>7, <1>8, UpTo
<1>10. n \in T /\ text \in Seq(Characters)
  BY <1>1, <1>6, <1>9
<1>11. Bad(end) \/ end = [lines |-> JsonOfAll(rs, n), line |-> << >>]
  BY <1>6, <1>10 DEF T
<1>12. end \in ReadStates
  <2>1. "a" \in Characters
    BY DEF Characters, TextCharacters
  <2> QED BY <1>10, <2>1, ReadAppend
<1>13. SplitLines(text) = LineEnded(end).lines
  BY DEF SplitLines
<1> HIDE DEF end
<1>14. CASE Bad(end)
  <2>1. Bad(LineEnded(end))
    BY <1>12, <1>14, BadEnded
  <2>2. FromLines(text) = {}
    BY <1>13, <2>1 DEF FromLines, Bad
  <2> QED BY <2>2 DEF text
<1>15. CASE end = [lines |-> JsonOfAll(rs, n), line |-> << >>]
  <2>1. SplitLines(text) = JsonOfAll(rs, n)
    BY <1>13, <1>15 DEF LineEnded
  <2>2. DOMAIN JsonOfAll(rs, n) = 1 .. n /\ \A i \in 1 .. n : JsonOfAll(rs, n)[i] = Json(rs[i])
    BY DEF JsonOfAll
  <2>3. \A i \in 1 .. n : Parsed(Json(rs[i])) = {rs[i]}
    BY <1>1, ParsedJson
  <2>4. [i \in DOMAIN JsonOfAll(rs, n) |-> CHOOSE r \in Parsed(JsonOfAll(rs, n)[i]) : TRUE] = rs
    <3>1. \A i \in 1 .. n : (CHOOSE r \in Parsed(JsonOfAll(rs, n)[i]) : TRUE) = rs[i]
      <4> SUFFICES ASSUME NEW i \in 1 .. n PROVE (CHOOSE r \in Parsed(JsonOfAll(rs, n)[i]) : TRUE) = rs[i]
        OBVIOUS
      <4>1. Parsed(JsonOfAll(rs, n)[i]) = {rs[i]}
        BY <2>2, <2>3
      <4> QED BY <4>1
    <3>2. rs = [i \in 1 .. n |-> rs[i]]
      BY <1>1
    <3> QED BY <2>2, <3>1, <3>2
  <2>5. FromLines(text) \subseteq {rs}
    <3> DEFINE lines == SplitLines(text)
               all == [i \in DOMAIN lines |-> CHOOSE r \in Parsed(lines[i]) : TRUE]
    <3>1. FromLines(text) = {} \/ FromLines(text) = {all}
      BY DEF FromLines
    <3>2. all = rs
      BY <2>1, <2>4, Zenon
    <3> HIDE DEF all
    <3> QED BY <3>1, <3>2
  <2> QED BY <2>5 DEF text
<1> QED BY <1>11, <1>14, <1>15
-----------------------------------------------------------------------------
(* Records with different ids are as many as the sequence is long.         *)
LEMMA AsManyAsLong ==
  ASSUME NEW rs \in Seq(ReportRecords), ValidCollection(rs)
  PROVE  Cardinality(Range(rs)) = Len(rs)
<1> DEFINE D == 1 .. Len(rs)
           R == Range(rs)
<1>1. DOMAIN rs = D /\ Len(rs) \in Nat /\ rs = [i \in D |-> rs[i]]
  OBVIOUS
<1>2. \A i, j \in D : rs[i] = rs[j] => i = j
  BY <1>1 DEF ValidCollection
<1>3. IsFiniteSet(D) /\ Cardinality(D) = Len(rs)
  <2> DEFINE n == Len(rs)
  <2>1. n \in Nat /\ n \in Int /\ 1 \in Int
    BY <1>1
  <2> HIDE DEF n
  <2>2. IsFiniteSet(1 .. n) /\ Cardinality(1 .. n) = IF 1 > n THEN 0 ELSE n - 1 + 1
    BY <2>1, FS_Interval
  <2>3. (IF 1 > n THEN 0 ELSE n - 1 + 1) = n
    BY <2>1
  <2> QED BY <2>2, <2>3 DEF n
<1>4. R = {rs[i] : i \in D}
  BY <1>1 DEF Range
<1> HIDE DEF D, R
<1>5. rs \in [D -> R]
  BY <1>1, <1>4
<1>6. rs \in Injection(D, R) /\ rs \in Surjection(D, R)
  BY <1>2, <1>4, <1>5 DEF Injection, IsInjective, Surjection
<1>7. Cardinality(R) = Cardinality(D)
  BY <1>3, <1>6, FS_Surjection
<1> QED BY <1>3, <1>7 DEF R

(* A cell in the CSV is the text or the text after an apostrophe.          *)
CellOf(cell, text) ==
  /\ cell = text \/ cell = <<"'">> \o text
  /\ cell # << >> => Head(cell) \notin {"=", "LF"}

LEMMA SafeCells ==
  ASSUME NEW text \in Seq(TextCharacters)
  PROVE  /\ CellOf(SafeCell(text), text)
         /\ SafeCell(text) \in Seq(TextCharacters \cup {"'"})
<1> DEFINE S == TextCharacters \cup {"'"}
<1>1. text \in Seq(S) /\ <<"'">> \in Seq(S) /\ <<"'">> \o text \in Seq(S)
  OBVIOUS
<1>2. CASE SafeCell(text) = <<"'">> \o text
  <2>1. Head(<<"'">> \o text) = "'"
    OBVIOUS
  <2> QED BY <1>1, <1>2, <2>1 DEF CellOf
<1>3. CASE /\ SafeCell(text) = text
           /\ ~ \E i \in DOMAIN text : text[i] = "=" /\ \A j \in 1 .. (i - 1) : text[j] = "LF"
           /\ ~ (text # << >> /\ Head(text) = "LF")
  <2>1. text # << >> => Head(text) # "="
    <3> SUFFICES ASSUME text # << >>, Head(text) = "=" PROVE FALSE
      OBVIOUS
    <3>1. 1 \in DOMAIN text /\ text[1] = "=" /\ \A j \in 1 .. (1 - 1) : text[j] = "LF"
      OBVIOUS
    <3> QED BY <1>3, <3>1
  <2> QED BY <1>1, <1>3, <2>1 DEF CellOf
<1> QED BY <1>2, <1>3 DEF SafeCell

(* The rows of a CSV: the JSON of one of the records, and cells.           *)
Cells == [id : Seq(Characters), tenant : Seq(Characters), mode : Seq(Characters),
          text : Seq(TextCharacters \cup {"'"})]
Rows(rs) == [cells : Cells, json : {Json(r) : r \in Range(rs)}]

LEMMA CsvRows ==
  ASSUME NEW rs \in Seq(ReportRecords)
  PROVE  [i \in DOMAIN rs |-> CsvRow(rs[i])] \in Seq(Rows(rs))
<1>1. Len(rs) \in Nat /\ DOMAIN rs = 1 .. Len(rs) /\ \A i \in 1 .. Len(rs) : rs[i] \in ReportRecords
  OBVIOUS
<1>2. ASSUME NEW i \in 1 .. Len(rs) PROVE CsvRow(rs[i]) \in Rows(rs)
  <2> PICK r \in ReportRecords : r = rs[i]
    BY <1>1
  <2>1. SafeCell(r.text) \in Seq(TextCharacters \cup {"'"})
    BY RecordFacts, SafeCells
  <2>2. r.id \in Characters /\ r.tenant \in Characters /\ r.mode \in Characters
    BY DEF Characters
  <2>3. <<r.id>> \in Seq(Characters) /\ <<r.tenant>> \in Seq(Characters) /\ <<r.mode>> \in Seq(Characters)
    BY <2>2
  <2>4. Projection(r) \in Cells
    BY <2>1, <2>3 DEF Projection, Cells
  <2>5. r \in Range(rs)
    BY <1>1 DEF Range
  <2>6. CsvRow(r) \in Rows(rs)
    BY <2>4, <2>5 DEF CsvRow, Rows
  <2> QED BY <2>6
<1> DEFINE R == Rows(rs)
<1>3. \A i \in 1 .. Len(rs) : CsvRow(rs[i]) \in R
  BY <1>2
<1> HIDE DEF R
<1>4. [i \in 1 .. Len(rs) |-> CsvRow(rs[i])] \in Seq(R)
  BY <1>1, <1>3
<1> QED BY <1>1, <1>4 DEF R

LEMMA RowsRead ==
  ASSUME NEW rs \in Seq(ReportRecords), NEW p \in Seq(Rows(rs)), NEW read \in FromRows(p)
  PROVE  /\ read \in Seq(Range(rs)) /\ Len(read) = Len(p)
         /\ \A i \in 1 .. Len(p) : p[i].cells = Projection(read[i])
<1>1. /\ read = [i \in DOMAIN p |-> CHOOSE r \in Parsed(p[i].json) : TRUE]
      /\ \A i \in DOMAIN p : p[i].cells = Projection(read[i])
  BY DEF FromRows, RecordOfRow
<1> DEFINE R == Rows(rs)
<1>2. Len(p) \in Nat /\ DOMAIN p = 1 .. Len(p) /\ \A i \in 1 .. Len(p) : p[i] \in R
  <2> HIDE DEF R
  <2>1. p \in Seq(R)
    BY DEF R
  <2> QED BY <2>1
<1>3. Range(rs) \subseteq ReportRecords
  BY DEF Range
<1>4. ASSUME NEW i \in 1 .. Len(p) PROVE read[i] \in Range(rs)
  <2>1. p[i].json \in {Json(r) : r \in Range(rs)}
    BY <1>2 DEF Rows
  <2>2. PICK r \in Range(rs) : p[i].json = Json(r)
    BY <2>1
  <2>3. Parsed(p[i].json) = {r}
    BY <1>3, <2>2, ParsedJson
  <2>4. read[i] = CHOOSE q \in Parsed(p[i].json) : TRUE
    BY <1>1, <1>2
  <2> QED BY <2>3, <2>4
<1>5. read \in Seq(Range(rs)) /\ Len(read) = Len(p)
  <2>1. DOMAIN read = 1 .. Len(p)
    BY <1>1, <1>2
  <2>2. read = [i \in 1 .. Len(p) |-> read[i]]
    BY <1>1, <2>1
  <2> QED BY <1>2, <1>4, <2>2
<1> QED BY <1>1, <1>2, <1>5
-----------------------------------------------------------------------------
(* What is under way: valid records, and a payload that still tells them.  *)
PayloadTells ==
  LET rs == export.exported
      p == export.payload
  IN /\ export.format = "JSON" =>
          \E tenant, mode, count, records :
            p = <<[tenant |-> tenant, mode |-> mode, count |-> count, records |-> records, hash |-> rs]>>
     /\ export.format = "JSONL" => p = JsonLines(rs)
     /\ export.format = "CSV" => p \in Seq(Rows(rs))

ExportInv ==
  /\ collection \in Seq(ReportRecords)
  /\ export = [format |-> export.format, exported |-> export.exported, payload |-> export.payload,
               imported |-> export.imported, state |-> export.state]
  /\ export.exported \in Seq(ReportRecords)
  /\ export.state \in {"SENT", "DAMAGED"} =>
       export.format \in {"JSON", "JSONL", "CSV"} /\ PayloadTells
  /\ ImportedWasExported

LEMMA ExportStep ==
  ASSUME ExportInv, NEW format \in {"JSON", "JSONL", "CSV"}, ExportRecords(format)
  PROVE  ExportInv'
<1> DEFINE rs == collection
           payload == CASE format = "JSON"  -> <<Bundle(rs)>>
                        [] format = "JSONL" -> JsonLines(rs)
                        [] format = "CSV"   -> [i \in DOMAIN rs |-> CsvRow(rs[i])]
           sent == [format |-> format, exported |-> rs, payload |-> payload,
                    imported |-> << >>, state |-> "SENT"]
           refused == [format |-> format, exported |-> << >>, payload |-> << >>,
                       imported |-> << >>, state |-> "REFUSED"]
<1>1. collection' = collection /\ collection \in Seq(ReportRecords)
  BY DEF ExportRecords, ExportInv
<1>2. export' = sent \/ export' = refused
  BY DEF ExportRecords, NoExport
<1>3. CASE export' = refused
  BY <1>1, <1>3 DEF ExportInv, ImportedWasExported
<1>4. CASE export' = sent
  <2>1. /\ format = "JSON" => payload = <<Bundle(rs)>>
        /\ format = "JSONL" => payload = JsonLines(rs)
        /\ format = "CSV" => payload = [i \in DOMAIN rs |-> CsvRow(rs[i])]
    OBVIOUS
  <2> HIDE DEF payload
  <2>2. /\ export'.format = format /\ export'.exported = rs /\ export'.payload = payload
        /\ export'.state = "SENT"
    BY <1>4
  <2>3. ASSUME format = "JSON"
        PROVE  \E tenant, mode, count, records :
                 payload = <<[tenant |-> tenant, mode |-> mode, count |-> count,
                              records |-> records, hash |-> rs]>>
    BY <2>1, <2>3 DEF Bundle
  <2>4. ASSUME format = "CSV" PROVE payload \in Seq(Rows(rs))
    BY <1>1, <2>1, <2>4, CsvRows
  <2>5. PayloadTells'
    BY <2>1, <2>2, <2>3, <2>4 DEF PayloadTells
  <2> QED BY <1>1, <1>4, <2>2, <2>5 DEF ExportInv, ImportedWasExported
<1> QED BY <1>2, <1>3, <1>4

LEMMA DamageStep ==
  ASSUME ExportInv, Damage
  PROVE  ExportInv'
<1> DEFINE p == export.payload
           rs == export.exported
           After(q) == [export EXCEPT !.payload = q, !.state = "DAMAGED"]
<1>1. /\ collection' = collection /\ export.state = "SENT" /\ PayloadTells
      /\ export = [format |-> export.format, exported |-> rs, payload |-> p,
                   imported |-> export.imported, state |-> export.state]
  BY DEF Damage, ExportInv
<1>2. ASSUME NEW q, export' = After(q), PayloadTells'
      PROVE  ExportInv'
  <2>1. export' = [format |-> export.format, exported |-> rs, payload |-> q,
                   imported |-> export.imported, state |-> "DAMAGED"]
    BY <1>1, <1>2
  <2> QED BY <1>1, <1>2, <2>1 DEF ExportInv, ImportedWasExported
<1>3. ASSUME NEW q, export' = After(q)
      PROVE  export'.format = export.format /\ export'.exported = rs /\ export'.payload = q
  BY <1>1, <1>3
<1>4. ASSUME export.format = "CSV", NEW q \in Seq(Rows(rs)), export' = After(q) PROVE ExportInv'
  <2>1. export'.format = "CSV" /\ export'.exported = rs /\ export'.payload = q
    BY <1>3, <1>4
  <2>2. PayloadTells'
    BY <1>4, <2>1 DEF PayloadTells
  <2> QED BY <1>2, <1>4, <2>2
<1>5. ASSUME export.format = "CSV", NEW i \in DOMAIN p,
             export' \in {After(RemoveAt(p, i)), After(Append(p, p[i])),
                          [export EXCEPT !.payload[i].cells.text = <<"a", "a">>, !.state = "DAMAGED"]}
      PROVE  ExportInv'
  <2> DEFINE R == Rows(rs)
  <2>1. p \in Seq(R)
    BY <1>1, <1>5 DEF PayloadTells
  <2>2. p[i] \in R
    <3> HIDE DEF R
    <3> QED BY <2>1
  <2> DEFINE row == [p[i] EXCEPT !.cells.text = <<"a", "a">>]
             retyped == [p EXCEPT ![i] = row]
  <2>3. row \in R
    <3>1. p[i].cells \in Cells /\ p[i] = [cells |-> p[i].cells, json |-> p[i].json]
      BY <2>2 DEF Rows
    <3>2. <<"a", "a">> \in Seq(TextCharacters \cup {"'"})
      BY DEF TextCharacters
    <3>3. [p[i].cells EXCEPT !.text = <<"a", "a">>] \in Cells
      BY <3>1, <3>2 DEF Cells
    <3>4. row = [cells |-> [p[i].cells EXCEPT !.text = <<"a", "a">>], json |-> p[i].json]
      BY <3>1
    <3> QED BY <2>2, <3>3, <3>4 DEF Rows
  <2>4. [export EXCEPT !.payload[i].cells.text = <<"a", "a">>, !.state = "DAMAGED"] = After(retyped)
    BY <1>1
  <2> HIDE DEF R, row
  <2>5. RemoveAt(p, i) \in Seq(R)
    BY <2>1 DEF RemoveAt
  <2>6. Append(p, p[i]) \in Seq(R)
    BY <2>1, <2>2
  <2>7. retyped \in Seq(R)
    BY <2>1, <2>3
  <2> HIDE DEF p, rs, After, retyped
  <2>8. \E q \in Seq(R) : export' = After(q)
    BY <1>5, <2>4, <2>5, <2>6, <2>7
  <2> QED BY <1>4, <1>5, <2>8 DEF R
<1>6. ASSUME export.format = "JSON", NEW i \in DOMAIN p[1].records,
             export' = [export EXCEPT !.payload[1].records = RemoveAt(p[1].records, i), !.state = "DAMAGED"]
      PROVE  ExportInv'
  <2> DEFINE q == [p EXCEPT ![1] = [p[1] EXCEPT !.records = RemoveAt(p[1].records, i)]]
  <2>1. export' = After(q)
    BY <1>1, <1>6
  <2>2. PICK tenant, mode, count, records :
          p = <<[tenant |-> tenant, mode |-> mode, count |-> count, records |-> records, hash |-> rs]>>
    BY <1>1, <1>6 DEF PayloadTells
  <2>3. q = <<[tenant |-> tenant, mode |-> mode, count |-> count,
               records |-> RemoveAt(p[1].records, i), hash |-> rs]>>
    BY <2>2
  <2>4. export'.format = "JSON" /\ export'.exported = rs /\ export'.payload = q
    BY <1>3, <1>6, <2>1
  <2>5. \E t, m, c, left :
          q = <<[tenant |-> t, mode |-> m, count |-> c, records |-> left, hash |-> rs]>>
    <3> DEFINE rest == RemoveAt(p[1].records, i)
    <3>1. q = <<[tenant |-> tenant, mode |-> mode, count |-> count, records |-> rest, hash |-> rs]>>
      BY <2>3
    <3> HIDE DEF rest, q, rs
    <3> QED BY <3>1, Zenon
  <2>6. PayloadTells'
    <3> HIDE DEF q, rs
    <3> QED BY <2>4, <2>5 DEF PayloadTells
  <2> QED BY <1>2, <2>1, <2>6
<1> QED BY <1>5, <1>6 DEF Damage

LEMMA ImportStep ==
  ASSUME ExportInv, ImportRecords
  PROVE  ExportInv'
<1> DEFINE p == export.payload
           rs == export.exported
           read == CASE export.format = "JSON"  -> {p[1].records}
                     [] export.format = "JSONL" -> FromLines(p)
                     [] export.format = "CSV"   -> FromRows(p)
           accepted == {q \in read : /\ Len(q) <= MaxExportRecords
                                     /\ ValidCollection(q)
                                     /\ export.format = "JSON" => ValidBundle(p[1])}
           Became(q, s) == [export EXCEPT !.state = s, !.imported = q]
<1>1. /\ collection' = collection /\ collection \in Seq(ReportRecords) /\ rs \in Seq(ReportRecords)
      /\ export.format \in {"JSON", "JSONL", "CSV"} /\ PayloadTells
      /\ export = [format |-> export.format, exported |-> rs, payload |-> p,
                   imported |-> export.imported, state |-> export.state]
  BY DEF ImportRecords, ExportInv
<1>2. \/ \E s \in {"LOST", "REFUSED"} : export' = [export EXCEPT !.state = s]
      \/ \E q \in accepted : export' = [export EXCEPT !.state = "IMPORTED", !.imported = q]
  <2> HIDE DEF accepted
  <2>1. CASE accepted = {}
    BY <2>1 DEF ImportRecords, accepted
  <2>2. CASE accepted # {}
    <3>1. (CHOOSE q \in accepted : TRUE) \in accepted
      BY <2>2
    <3>2. export' = [export EXCEPT !.state = "IMPORTED", !.imported = CHOOSE q \in accepted : TRUE]
      BY <2>2 DEF ImportRecords, accepted
    <3> QED BY <3>1, <3>2
  <2> QED BY <2>1, <2>2
<1>3. ASSUME NEW s \in {"LOST", "REFUSED"}, export' = [export EXCEPT !.state = s] PROVE ExportInv'
  <2>1. export' = [format |-> export.format, exported |-> rs, payload |-> p,
                   imported |-> export.imported, state |-> s]
    BY <1>1, <1>3
  <2>2. s \notin {"SENT", "DAMAGED", "IMPORTED"}
    OBVIOUS
  <2> QED BY <1>1, <2>1, <2>2 DEF ExportInv, ImportedWasExported
<1>4. ASSUME NEW q \in accepted, export' = [export EXCEPT !.state = "IMPORTED", !.imported = q]
      PROVE  ExportInv'
  <2>1. q \in read /\ ValidCollection(q) /\ (export.format = "JSON" => ValidBundle(p[1]))
    OBVIOUS
  <2>2. export' = [format |-> export.format, exported |-> rs, payload |-> p,
                   imported |-> q, state |-> "IMPORTED"]
    BY <1>1, <1>4
  <2>3. /\ export'.format = export.format /\ export'.exported = rs /\ export'.payload = p
        /\ export'.imported = q /\ export'.state = "IMPORTED"
    BY <2>2
  <2>4. CASE export.format = "JSON"
    <3>1. q = p[1].records
      BY <2>1, <2>4
    <3>2. p[1].hash = rs
      BY <1>1, <2>4 DEF PayloadTells
    <3>3. q = rs
      BY <2>1, <2>4, <3>1, <3>2 DEF ValidBundle
    <3>4. Cardinality(Range(q)) = Len(q)
      BY <1>1, <2>1, <3>3, AsManyAsLong
    <3>5. ImportedWasExported'
      <4> HIDE DEF p, rs, read, accepted
      <4> QED BY <2>3, <2>4, <3>3, <3>4 DEF ImportedWasExported
    <3> QED BY <1>1, <2>2, <3>5 DEF ExportInv
  <2>5. CASE export.format = "JSONL"
    <3>1. q \in FromLines(p) /\ p = JsonLines(rs)
      BY <1>1, <2>1, <2>5 DEF PayloadTells
    <3>2. q = rs
      BY <1>1, <3>1, LinesRead
    <3>3. Cardinality(Range(q)) = Len(q)
      BY <1>1, <2>1, <3>2, AsManyAsLong
    <3>4. ImportedWasExported'
      <4> HIDE DEF p, rs, read, accepted
      <4> QED BY <2>3, <2>5, <3>2, <3>3 DEF ImportedWasExported
    <3> QED BY <1>1, <2>2, <3>4 DEF ExportInv
  <2>6. CASE export.format = "CSV"
    <3>1. q \in FromRows(p) /\ p \in Seq(Rows(rs))
      BY <1>1, <2>1, <2>6 DEF PayloadTells
    <3>2. /\ q \in Seq(Range(rs)) /\ Len(q) = Len(p)
          /\ \A i \in 1 .. Len(p) : p[i].cells = Projection(q[i])
      BY <1>1, <3>1, RowsRead
    <3>3. Range(rs) \subseteq ReportRecords
      BY <1>1 DEF Range
    <3>4. Range(q) \subseteq Range(rs) /\ q \in Seq(ReportRecords)
      <4> DEFINE X == Range(rs)
      <4>1. q \in Seq(X) /\ X \subseteq ReportRecords
        BY <3>2, <3>3
      <4> HIDE DEF X
      <4>2. Range(q) \subseteq X /\ q \in Seq(ReportRecords)
        BY <4>1 DEF Range
      <4> QED BY <4>2 DEF X
    <3>5. Cardinality(Range(q)) = Len(q)
      BY <2>1, <3>4, AsManyAsLong
    <3>6. DOMAIN p = 1 .. Len(p) /\ DOMAIN q = 1 .. Len(p)
      <4> DEFINE R == Rows(rs)
      <4>1. p \in Seq(R)
        BY <3>1
      <4> HIDE DEF R, p, rs
      <4> QED BY <3>2, <3>4, <4>1
    <3>7. ASSUME NEW i \in DOMAIN p PROVE CellOf(p[i].cells.text, q[i].text)
      <4>1. q[i] \in ReportRecords /\ p[i].cells = Projection(q[i])
        BY <3>2, <3>4, <3>6
      <4>2. p[i].cells.text = SafeCell(q[i].text)
        BY <4>1 DEF Projection
      <4>3. q[i].text \in Seq(TextCharacters)
        BY <4>1, RecordFacts
      <4> QED BY <4>2, <4>3, SafeCells
    <3>8. ImportedWasExported'
      <4> HIDE DEF p, rs, read, accepted
      <4> QED BY <2>3, <2>6, <3>4, <3>5, <3>7 DEF ImportedWasExported, CellOf
    <3> QED BY <1>1, <2>2, <3>8 DEF ExportInv
  <2> QED BY <1>1, <2>4, <2>5, <2>6
<1> QED BY <1>2, <1>3, <1>4

(* What an import of an export accepts, as JSON, as JSON lines or as CSV,  *)
(* was exported, whatever the records, the separators in their texts and   *)
(* the damage on the way; and no cell of the CSV begins a formula.         *)
THEOREM ImportsAreExports == DeliverySpec => []ImportedWasExported
<1>1. DeliveryInit => ExportInv
  <2> SUFFICES ASSUME DeliveryInit PROVE ExportInv
    OBVIOUS
  <2>1. collection \in Seq(ReportRecords)
    BY CollectionsAssumption DEF DeliveryInit
  <2> QED BY <2>1 DEF DeliveryInit, NoExport, ExportInv, ImportedWasExported
<1>2. ExportInv /\ [DeliveryNext]_deliveryVars => ExportInv'
  <2> SUFFICES ASSUME ExportInv, [DeliveryNext]_deliveryVars PROVE ExportInv'
    OBVIOUS
  <2>1. ASSUME export' = export, collection' \in Seq(ReportRecords) PROVE ExportInv'
    BY <2>1 DEF ExportInv, PayloadTells, ImportedWasExported
  <2>2. CASE UNCHANGED <<export, collection>>
    BY <2>1, <2>2 DEF ExportInv
  <2>3. ASSUME NEW rs \in Collections, ReplaceCollection(rs) PROVE ExportInv'
    BY <2>1, <2>3, CollectionsAssumption DEF ReplaceCollection
  <2> QED BY <2>2, <2>3, ExportStep, DamageStep, ImportStep
          DEF DeliveryNext, deliveryVars, PageRecords
<1>3. ExportInv => ImportedWasExported
  BY DEF ExportInv
<1> QED BY <1>1, <1>2, <1>3, PTL DEF DeliverySpec

-----------------------------------------------------------------------------
(* Forms and the inbox.  A form is ready when its fields are, and has a    *)
(* start of validity; its problems are those of its fields.                *)
FormDiagnostics ==
  {"CONFIGURATION_REQUIRED", "TAX_BASE_INVALID", "DECIMAL_INPUT_INVALID", "CURRENCY_REQUIRED",
   "VALID_FROM_REQUIRED", "none"}
FieldStates ==
  [value : {"none", "decimal", "base"}, state : {"EMPTY", "INVALID", "BLOCKED", "VALID"},
   diagnostic : FormDiagnostics]
Forms ==
  [id : {q.id : q \in FormRequests}, context : {q.context : q \in FormRequests},
   from : {q.from : q \in FormRequests}, currency : {q.currency : q \in FormRequests},
   fields : [Fields -> FieldStates],
   problems : SUBSET ((Fields \cup {"valid_from"}) \X FormDiagnostics),
   status : {"READY_FOR_RULE_DRAFT", "PARTIAL", "BLOCKED"}]

FormOK(form) ==
  /\ form.status = "READY_FOR_RULE_DRAFT" <=>
       form.from # -1 /\ \A f \in Fields : form.fields[f].state = "VALID"
  /\ form.problems # {} =>
       form.from = -1 \/ \E f \in Fields : form.fields[f].state \in {"INVALID", "BLOCKED"}

PresentationInv ==
  /\ forms \in Seq(Forms)
  /\ \A i \in DOMAIN forms : FormOK(forms[i])
  /\ InboxIsComplete

LEMMA FilledType ==
  \A f \in Fields : \A typed, currency : Filled(f, typed, currency) \in FieldStates
<1> SUFFICES ASSUME NEW f \in Fields, NEW typed, NEW currency
             PROVE  Filled(f, typed, currency) \in FieldStates
  OBVIOUS
<1> DEFINE raw == IF f \in DOMAIN typed THEN typed[f] ELSE ""
           right == IF f = "tax_base" THEN "base" ELSE "decimal"
<1>1. CASE raw = ""
  BY <1>1 DEF Filled, EmptyField, FieldStates, FormDiagnostics
<1>2. CASE raw # "" /\ raw # right
  BY <1>2 DEF Filled, FieldStates, FormDiagnostics
<1>3. CASE raw # "" /\ raw = right
  BY <1>3 DEF Filled, FieldStates, FormDiagnostics
<1> QED BY <1>1, <1>2, <1>3

(* What apply_configuration_values makes of a form.                        *)
LEMMA AppliedForm ==
  ASSUME NEW form \in Forms, NEW fields \in [Fields -> FieldStates], NEW form2,
         form2 = [id |-> form.id, context |-> form.context, from |-> form.from,
                  currency |-> form.currency, fields |-> fields,
                  problems |-> ProblemsOf(form, fields), status |-> Status(form, fields)]
  PROVE  form2 \in Forms /\ FormOK(form2)
<1> DEFINE valid == {f \in Fields : fields[f].state = "VALID"}
           bad == {f \in Fields : fields[f].state \in {"INVALID", "BLOCKED"}}
           P == ProblemsOf(form, fields)
<1>1. /\ P = {} <=> form.from # -1 /\ bad = {}
      /\ P \in SUBSET ((Fields \cup {"valid_from"}) \X FormDiagnostics)
  <2> DEFINE A == {<<f, fields[f].diagnostic>> : f \in bad}
             B == IF form.from = -1 THEN {<<"valid_from", "VALID_FROM_REQUIRED">>} ELSE {}
  <2>1. P = A \cup B
    BY DEF ProblemsOf
  <2>2. A = {} <=> bad = {}
    OBVIOUS
  <2>3. B = {} <=> form.from # -1
    OBVIOUS
  <2>4. \A f \in bad : f \in Fields /\ fields[f].diagnostic \in FormDiagnostics
    BY DEF FieldStates
  <2>5. A \subseteq (Fields \cup {"valid_from"}) \X FormDiagnostics
    BY <2>4
  <2>6. B \subseteq (Fields \cup {"valid_from"}) \X FormDiagnostics
    BY DEF FormDiagnostics
  <2> QED BY <2>1, <2>2, <2>3, <2>5, <2>6
<1>2. /\ Status(form, fields) \in {"READY_FOR_RULE_DRAFT", "PARTIAL", "BLOCKED"}
      /\ Status(form, fields) = "READY_FOR_RULE_DRAFT" <=> P = {} /\ valid = Fields
  <2> HIDE DEF valid
  <2>1. CASE P # {}
    BY <2>1 DEF Status, valid
  <2>2. CASE P = {} /\ valid = Fields
    BY <2>2 DEF Status, valid, Fields
  <2>3. CASE P = {} /\ valid # Fields /\ valid # {}
    BY <2>3 DEF Status, valid
  <2>4. CASE P = {} /\ valid = {}
    BY <2>4 DEF Status, valid, Fields
  <2> QED BY <2>1, <2>2, <2>3, <2>4
<1>3. /\ form2.problems = P /\ form2.from = form.from /\ form2.fields = fields
      /\ form2.status = Status(form, fields)
  OBVIOUS
<1>4. form2 \in Forms
  BY <1>1, <1>2 DEF Forms
<1> HIDE DEF P
<1>5. valid = Fields => bad = {}
  OBVIOUS
<1>6. form2.status = "READY_FOR_RULE_DRAFT" <=>
        form2.from # -1 /\ \A f \in Fields : form2.fields[f].state = "VALID"
  BY <1>1, <1>2, <1>3, <1>5
<1>7. form2.problems # {} =>
        form2.from = -1 \/ \E f \in Fields : form2.fields[f].state \in {"INVALID", "BLOCKED"}
  BY <1>1, <1>3
<1> QED BY <1>4, <1>6, <1>7 DEF FormOK

-----------------------------------------------------------------------------
(* The exceptions of one record, form or file.                             *)
LEMMA OfRecordFacts ==
  ASSUME NEW r
  PROVE  /\ IsFiniteSet(OfRecord(r))
         /\ \A e \in OfRecord(r) : e.id = <<"metric", r.id, r.reason>>
         /\ \A e, d \in OfRecord(r) : e = d
         /\ OfRecord(r) # {} <=> r.state \notin {"VALID", "NOT_APPLICABLE"}
<1> DEFINE x == [id |-> <<"metric", r.id, r.reason>>, severity |-> Severity(r.state)]
<1>1. IsFiniteSet(OfRecord(r))
  BY FS_EmptySet, FS_Singleton DEF OfRecord
<1>2. OfRecord(r) = IF r.state \in {"VALID", "NOT_APPLICABLE"} THEN {} ELSE {x}
  BY DEF OfRecord
<1>3. x.id = <<"metric", r.id, r.reason>>
  OBVIOUS
<1> HIDE DEF x
<1> QED BY <1>1, <1>2, <1>3

LEMMA OfImportFacts ==
  ASSUME NEW x
  PROVE  /\ IsFiniteSet(OfImport(x))
         /\ \A e \in OfImport(x) : e.id = <<"import", x.id, x.diagnostic>>
         /\ \A e, d \in OfImport(x) : e = d
         /\ Cardinality(OfImport(x)) = IF x.state \in {"QUARANTINED", "REJECTED"} THEN 1 ELSE 0
<1>1. IsFiniteSet(OfImport(x))
  BY FS_EmptySet, FS_Singleton DEF OfImport
<1>2. Cardinality(OfImport(x)) = IF x.state \in {"QUARANTINED", "REJECTED"} THEN 1 ELSE 0
  BY FS_EmptySet, FS_Singleton DEF OfImport
<1> DEFINE y == [id |-> <<"import", x.id, x.diagnostic>>, severity |-> "ERROR"]
<1>3. OfImport(x) \subseteq {y}
  BY DEF OfImport
<1>4. y.id = <<"import", x.id, x.diagnostic>>
  OBVIOUS
<1> HIDE DEF y
<1> QED BY <1>1, <1>2, <1>3, <1>4

LEMMA ImageFinite ==
  ASSUME NEW h, IsFiniteSet(DOMAIN h)
  PROVE  IsFiniteSet({h[x] : x \in DOMAIN h})
<1> DEFINE S == DOMAIN h
           T == {h[x] : x \in S}
           g == [x \in S |-> h[x]]
<1>1. g \in Surjection(S, T)
  BY DEF Surjection
<1> QED BY <1>1, FS_Surjection

LEMMA FieldsFinite == IsFiniteSet(Fields)
<1>1. /\ IsFiniteSet({"cost"}) /\ IsFiniteSet({"tax_rate"})
      /\ IsFiniteSet({"tax_base"}) /\ IsFiniteSet({"other_expense"})
  BY FS_Singleton
<1>2. IsFiniteSet({"cost"} \cup {"tax_rate"}) /\ IsFiniteSet({"tax_base"} \cup {"other_expense"})
  BY <1>1, FS_Union
<1>3. Fields = ({"cost"} \cup {"tax_rate"}) \cup ({"tax_base"} \cup {"other_expense"})
  BY DEF Fields
<1> QED BY <1>2, <1>3, FS_Union

LEMMA OfFormFacts ==
  ASSUME NEW form
  PROVE  /\ IsFiniteSet(OfForm(form))
         /\ \A e \in OfForm(form) : e.id[1] = "configuration" /\ e.id[2] = form.id
         /\ \A e, d \in OfForm(form) : e.id = d.id => e = d
         /\ OfForm(form) = {} <=>
              form.from # -1 /\ \A f \in Fields : form.fields[f].state = "VALID"
         /\ form.from = -1 => \E e \in OfForm(form) : e.severity = "ERROR"
         /\ (\E f \in Fields : form.fields[f].state \in {"INVALID", "BLOCKED"})
              => \E e \in OfForm(form) : e.severity = "ERROR"
<1> DEFINE Ex(f) == [id |-> <<"configuration", form.id, f, form.fields[f].diagnostic>>,
                     severity |-> Severity(form.fields[f].state)]
           G == {g \in Fields : form.fields[g].state # "VALID"}
           A == {Ex(f) : f \in G}
           start == [id |-> <<"configuration", form.id, "valid_from", "VALID_FROM_REQUIRED">>,
                     severity |-> "ERROR"]
           B == IF form.from # -1 THEN {} ELSE {start}
<1>1. OfForm(form) = A \cup B
  BY DEF OfForm
<1>2. IsFiniteSet(OfForm(form))
  <2>1. IsFiniteSet(G)
    BY FieldsFinite, FS_Subset
  <2>2. IsFiniteSet(A)
    <3> HIDE DEF G, Ex
    <3> DEFINE h == [f \in G |-> Ex(f)]
    <3>1. A = {h[f] : f \in G} /\ DOMAIN h = G
      OBVIOUS
    <3> QED BY <2>1, <3>1, ImageFinite
  <2>3. IsFiniteSet(B)
    BY FS_EmptySet, FS_Singleton
  <2> HIDE DEF A, B
  <2> QED BY <1>1, <2>2, <2>3, FS_Union
<1>3. \A f : /\ Ex(f).id = <<"configuration", form.id, f, form.fields[f].diagnostic>>
             /\ Ex(f).id[1] = "configuration" /\ Ex(f).id[2] = form.id /\ Ex(f).id[3] = f
             /\ Ex(f).severity = Severity(form.fields[f].state)
  OBVIOUS
<1>4. /\ start.id[1] = "configuration" /\ start.id[2] = form.id /\ start.id[3] = "valid_from"
      /\ start.severity = "ERROR"
  OBVIOUS
<1>5. "valid_from" \notin Fields
  BY DEF Fields
<1> HIDE DEF Ex, start
<1>6. \A e \in OfForm(form) : e.id[1] = "configuration" /\ e.id[2] = form.id
  BY <1>1, <1>3, <1>4
<1>7. \A e, d \in OfForm(form) : e.id = d.id => e = d
  BY <1>1, <1>3, <1>4, <1>5
<1>8. OfForm(form) = {} <=>
        form.from # -1 /\ \A f \in Fields : form.fields[f].state = "VALID"
  BY <1>1
<1>9. form.from = -1 => \E e \in OfForm(form) : e.severity = "ERROR"
  BY <1>1, <1>4
<1>10. ASSUME NEW f \in Fields, form.fields[f].state \in {"INVALID", "BLOCKED"}
       PROVE  \E e \in OfForm(form) : e.severity = "ERROR"
  <2>1. Ex(f) \in OfForm(form)
    BY <1>1, <1>10
  <2>2. Ex(f).severity = "ERROR"
    BY <1>3, <1>10 DEF Severity
  <2> QED BY <2>1, <2>2
<1> QED BY <1>2, <1>6, <1>7, <1>8, <1>9, <1>10
(* Finitely many finite sets make a finite one.                            *)
LEMMA PartsFinite ==
  ASSUME NEW n \in Nat, NEW G, DOMAIN G = 1 .. n, \A i \in 1 .. n : IsFiniteSet(G[i])
  PROVE  IsFiniteSet(UNION {G[i] : i \in 1 .. n})
<1>1. IsFiniteSet(1 .. n)
  BY FS_Interval
<1>2. IsFiniteSet({G[i] : i \in DOMAIN G})
  BY <1>1, ImageFinite
<1> QED BY <1>2, FS_UNION

(* What build_exception_inbox collects.                                    *)
LEMMA CollectedFacts ==
  ASSUME NEW A, NEW B, NEW C, NEW rs \in Seq(A), NEW fs \in Seq(B), NEW is \in Seq(C),
         Unique(rs), Unique(fs), Unique(is), NEW X, X = Exceptions(rs, fs, is)
  PROVE  /\ IsFiniteSet(X)
         /\ \A e, d \in X : e.id = d.id => e = d
         /\ \A i \in DOMAIN rs :
              {e \in X : e.id[1] = "metric" /\ e.id[2] = rs[i].id} = OfRecord(rs[i])
         /\ \A i \in DOMAIN fs :
              {e \in X : e.id[1] = "configuration" /\ e.id[2] = fs[i].id} = OfForm(fs[i])
         /\ \A i \in DOMAIN is :
              {e \in X : e.id[1] = "import" /\ e.id[2] = is[i].id} = OfImport(is[i])
<1> DEFINE R == UNION {OfRecord(rs[i]) : i \in DOMAIN rs}
           F == UNION {OfForm(fs[i]) : i \in DOMAIN fs}
           I == UNION {OfImport(is[i]) : i \in DOMAIN is}
<1>1. X = R \cup F \cup I
  BY DEF Exceptions
<1>2. /\ DOMAIN rs = 1 .. Len(rs) /\ Len(rs) \in Nat
      /\ DOMAIN fs = 1 .. Len(fs) /\ Len(fs) \in Nat
      /\ DOMAIN is = 1 .. Len(is) /\ Len(is) \in Nat
  OBVIOUS
<1>3. IsFiniteSet(R)
  <2> DEFINE G == [i \in 1 .. Len(rs) |-> OfRecord(rs[i])]
  <2>1. \A i \in 1 .. Len(rs) : IsFiniteSet(G[i])
    BY OfRecordFacts
  <2>2. R = UNION {G[i] : i \in 1 .. Len(rs)}
    BY <1>2
  <2> HIDE DEF R
  <2>3. DOMAIN G = 1 .. Len(rs)
    OBVIOUS
  <2> HIDE DEF G
  <2> QED BY <1>2, <2>1, <2>2, <2>3, PartsFinite
<1>4. IsFiniteSet(F)
  <2> DEFINE G == [i \in 1 .. Len(fs) |-> OfForm(fs[i])]
  <2>1. \A i \in 1 .. Len(fs) : IsFiniteSet(G[i])
    BY OfFormFacts
  <2>2. F = UNION {G[i] : i \in 1 .. Len(fs)}
    BY <1>2
  <2> HIDE DEF F
  <2>3. DOMAIN G = 1 .. Len(fs)
    OBVIOUS
  <2> HIDE DEF G
  <2> QED BY <1>2, <2>1, <2>2, <2>3, PartsFinite
<1>5. IsFiniteSet(I)
  <2> DEFINE G == [i \in 1 .. Len(is) |-> OfImport(is[i])]
  <2>1. \A i \in 1 .. Len(is) : IsFiniteSet(G[i])
    BY OfImportFacts
  <2>2. I = UNION {G[i] : i \in 1 .. Len(is)}
    BY <1>2
  <2> HIDE DEF I
  <2>3. DOMAIN G = 1 .. Len(is)
    OBVIOUS
  <2> HIDE DEF G
  <2> QED BY <1>2, <2>1, <2>2, <2>3, PartsFinite
<1>6. IsFiniteSet(X)
  <2> HIDE DEF R, F, I
  <2>1. IsFiniteSet(R \cup F)
    BY <1>3, <1>4, FS_Union
  <2> QED BY <1>1, <1>5, <2>1, FS_Union
<1>7. \A e : e \in R <=> \E i \in DOMAIN rs : e \in OfRecord(rs[i])
  OBVIOUS
<1>8. \A e : e \in F <=> \E i \in DOMAIN fs : e \in OfForm(fs[i])
  OBVIOUS
<1>9. \A e : e \in I <=> \E i \in DOMAIN is : e \in OfImport(is[i])
  OBVIOUS
<1> HIDE DEF R, F, I
<1>10. \A i \in DOMAIN rs : \A e \in OfRecord(rs[i]) : e.id[1] = "metric" /\ e.id[2] = rs[i].id
  BY OfRecordFacts
<1>11. \A i \in DOMAIN fs : \A e \in OfForm(fs[i]) :
         e.id[1] = "configuration" /\ e.id[2] = fs[i].id
  BY OfFormFacts
<1>12. \A i \in DOMAIN is : \A e \in OfImport(is[i]) : e.id[1] = "import" /\ e.id[2] = is[i].id
  BY OfImportFacts
<1>13. ASSUME NEW i \in DOMAIN rs
       PROVE  {e \in X : e.id[1] = "metric" /\ e.id[2] = rs[i].id} = OfRecord(rs[i])
  <2>1. ASSUME NEW e \in X, e.id[1] = "metric", e.id[2] = rs[i].id PROVE e \in OfRecord(rs[i])
    <3>1. e \in R
      BY <1>1, <1>8, <1>9, <1>11, <1>12, <2>1
    <3>2. PICK j \in DOMAIN rs : e \in OfRecord(rs[j])
      BY <1>7, <3>1
    <3>3. rs[j].id = rs[i].id
      BY <1>10, <2>1, <3>2
    <3> QED BY <3>2, <3>3 DEF Unique
  <2>2. \A e \in OfRecord(rs[i]) : e \in X /\ e.id[1] = "metric" /\ e.id[2] = rs[i].id
    BY <1>1, <1>7, <1>10
  <2> QED BY <2>1, <2>2
<1>14. ASSUME NEW i \in DOMAIN fs
       PROVE  {e \in X : e.id[1] = "configuration" /\ e.id[2] = fs[i].id} = OfForm(fs[i])
  <2>1. ASSUME NEW e \in X, e.id[1] = "configuration", e.id[2] = fs[i].id
        PROVE  e \in OfForm(fs[i])
    <3>1. e \in F
      BY <1>1, <1>7, <1>9, <1>10, <1>12, <2>1
    <3>2. PICK j \in DOMAIN fs : e \in OfForm(fs[j])
      BY <1>8, <3>1
    <3>3. fs[j].id = fs[i].id
      BY <1>11, <2>1, <3>2
    <3> QED BY <3>2, <3>3 DEF Unique
  <2>2. \A e \in OfForm(fs[i]) : e \in X /\ e.id[1] = "configuration" /\ e.id[2] = fs[i].id
    BY <1>1, <1>8, <1>11
  <2> QED BY <2>1, <2>2
<1>15. ASSUME NEW i \in DOMAIN is
       PROVE  {e \in X : e.id[1] = "import" /\ e.id[2] = is[i].id} = OfImport(is[i])
  <2>1. ASSUME NEW e \in X, e.id[1] = "import", e.id[2] = is[i].id PROVE e \in OfImport(is[i])
    <3>1. e \in I
      BY <1>1, <1>7, <1>8, <1>10, <1>11, <2>1
    <3>2. PICK j \in DOMAIN is : e \in OfImport(is[j])
      BY <1>9, <3>1
    <3>3. is[j].id = is[i].id
      BY <1>12, <2>1, <3>2
    <3> QED BY <3>2, <3>3 DEF Unique
  <2>2. \A e \in OfImport(is[i]) : e \in X /\ e.id[1] = "import" /\ e.id[2] = is[i].id
    BY <1>1, <1>9, <1>12
  <2> QED BY <2>1, <2>2
<1>16. ASSUME NEW e \in X, NEW d \in X, e.id = d.id PROVE e = d
  <2>1. CASE e \in R
    <3>1. PICK i \in DOMAIN rs : e \in OfRecord(rs[i])
      BY <1>7, <2>1
    <3>2. d \in OfRecord(rs[i])
      BY <1>10, <1>13, <1>16, <3>1
    <3> QED BY <3>1, <3>2, OfRecordFacts
  <2>2. CASE e \in F
    <3>1. PICK i \in DOMAIN fs : e \in OfForm(fs[i])
      BY <1>8, <2>2
    <3>2. d \in OfForm(fs[i])
      BY <1>11, <1>14, <1>16, <3>1
    <3> QED BY <1>16, <3>1, <3>2, OfFormFacts
  <2>3. CASE e \in I
    <3>1. PICK i \in DOMAIN is : e \in OfImport(is[i])
      BY <1>9, <2>3
    <3>2. d \in OfImport(is[i])
      BY <1>12, <1>15, <1>16, <3>1
    <3> QED BY <3>1, <3>2, OfImportFacts
  <2> QED BY <1>1, <2>1, <2>2, <2>3
<1> QED BY <1>6, <1>13, <1>14, <1>15, <1>16
(* An inbox built from unique records, forms in order and unique files.    *)
LEMMA BuiltIsComplete ==
  ASSUME NEW A, NEW B, NEW C, NEW rs \in Seq(A), NEW fs \in Seq(B), NEW is \in Seq(C),
         Unique(rs), Unique(fs), Unique(is), \A i \in DOMAIN fs : FormOK(fs[i]),
         \A i \in DOMAIN rs : rs[i].state = "VALID" => rs[i].value # "dash",
         NEW box, box.records = rs, box.forms = fs, box.imports = is,
         box.exceptions = Exceptions(rs, fs, is),
         box.available = {rs[i].metric : i \in {j \in DOMAIN rs : rs[j].state = "VALID"}}
  PROVE  CompleteInbox(box)
<1> DEFINE X == Exceptions(rs, fs, is)
           ids == {e.id : e \in X}
           of(kind, x) == {e \in X : e.id[1] = kind /\ e.id[2] = x.id}
<1>1. /\ IsFiniteSet(X)
      /\ \A e, d \in X : e.id = d.id => e = d
      /\ \A i \in DOMAIN rs : of("metric", rs[i]) = OfRecord(rs[i])
      /\ \A i \in DOMAIN fs : of("configuration", fs[i]) = OfForm(fs[i])
      /\ \A i \in DOMAIN is : of("import", is[i]) = OfImport(is[i])
  <2> HIDE DEF X
  <2>1. X = Exceptions(rs, fs, is)
    BY DEF X
  <2>2. /\ IsFiniteSet(X)
        /\ \A e, d \in X : e.id = d.id => e = d
        /\ \A i \in DOMAIN rs :
             {e \in X : e.id[1] = "metric" /\ e.id[2] = rs[i].id} = OfRecord(rs[i])
        /\ \A i \in DOMAIN fs :
             {e \in X : e.id[1] = "configuration" /\ e.id[2] = fs[i].id} = OfForm(fs[i])
        /\ \A i \in DOMAIN is :
             {e \in X : e.id[1] = "import" /\ e.id[2] = is[i].id} = OfImport(is[i])
    BY <2>1, CollectedFacts
  <2> QED BY <2>2
<1> HIDE DEF X
<1>2. Cardinality(ids) = Cardinality(X)
  <2> DEFINE h == [e \in X |-> e.id]
  <2>1. h \in Surjection(X, ids)
    BY DEF Surjection
  <2>2. \A e, d \in X : h[e] = h[d] => e = d
    BY <1>1
  <2> HIDE DEF h
  <2>3. h \in Bijection(X, ids)
    BY <2>1, <2>2 DEF Bijection, Injection, Surjection, IsInjective
  <2> QED BY <1>1, <2>3, FS_Bijection DEF ExistsBijection
<1> HIDE DEF of
<1>3. ASSUME NEW i \in DOMAIN fs
      PROVE  /\ fs[i].status = "READY_FOR_RULE_DRAFT" <=> of("configuration", fs[i]) = {}
             /\ fs[i].problems # {} =>
                  \E e \in of("configuration", fs[i]) : e.severity = "ERROR"
  <2>1. FormOK(fs[i]) /\ of("configuration", fs[i]) = OfForm(fs[i])
    BY <1>1
  <2> QED BY <2>1, OfFormFacts DEF FormOK
<1>4. ASSUME NEW i \in DOMAIN rs
      PROVE  /\ of("metric", rs[i]) # {} => View(rs[i]).text = "dash" /\ ~View(rs[i]).zero
             /\ View(rs[i]).text # "dash" => rs[i].metric \in box.available
             /\ of("metric", rs[i]) = {} =>
                  View(rs[i]).text # "dash" \/ rs[i].state = "NOT_APPLICABLE"
             /\ Drilldown(rs[i]).claimsVerified <=> View(rs[i]).evidence
  <2>1. of("metric", rs[i]) # {} <=> rs[i].state \notin {"VALID", "NOT_APPLICABLE"}
    BY <1>1, OfRecordFacts
  <2>2. /\ View(rs[i]).text = IF rs[i].state = "VALID" THEN rs[i].value ELSE "dash"
        /\ View(rs[i]).zero => rs[i].state = "VALID"
        /\ View(rs[i]).evidence = rs[i].verified /\ Drilldown(rs[i]).claimsVerified = rs[i].verified
    BY DEF View, Drilldown
  <2>3. rs[i].state = "VALID" => rs[i].metric \in box.available
    OBVIOUS
  <2>4. rs[i].state = "VALID" => rs[i].value # "dash"
    OBVIOUS
  <2> QED BY <2>1, <2>2, <2>3, <2>4
<1>5. ASSUME NEW i \in DOMAIN is
      PROVE  Cardinality(of("import", is[i])) =
               IF is[i].state \in {"QUARANTINED", "REJECTED"} THEN 1 ELSE 0
  BY <1>1, OfImportFacts
<1>6. X = box.exceptions
  BY DEF X
<1> HIDE DEF X
<1>7. \A kind, x : of(kind, x) = {e \in box.exceptions : e.id[1] = kind /\ e.id[2] = x.id}
  BY <1>6 DEF of
<1>8. Cardinality({e.id : e \in box.exceptions}) = Cardinality(box.exceptions)
  BY <1>2, <1>6
<1> HIDE DEF of
<1>9. \A i \in DOMAIN box.forms :
        /\ box.forms[i].status = "READY_FOR_RULE_DRAFT" <=> of("configuration", box.forms[i]) = {}
        /\ box.forms[i].problems # {} =>
             \E e \in of("configuration", box.forms[i]) : e.severity = "ERROR"
  BY <1>3
<1>10. \A i \in DOMAIN box.records :
         /\ of("metric", box.records[i]) # {} =>
              View(box.records[i]).text = "dash" /\ ~View(box.records[i]).zero
         /\ View(box.records[i]).text # "dash" => box.records[i].metric \in box.available
         /\ of("metric", box.records[i]) = {} =>
              View(box.records[i]).text # "dash" \/ box.records[i].state = "NOT_APPLICABLE"
         /\ Drilldown(box.records[i]).claimsVerified <=> View(box.records[i]).evidence
  BY <1>4
<1>11. \A i \in DOMAIN box.imports :
         Cardinality(of("import", box.imports[i]))
           = IF box.imports[i].state \in {"QUARANTINED", "REJECTED"} THEN 1 ELSE 0
  BY <1>5
<1>12. ASSUME NEW i \in DOMAIN box.imports
       PROVE  Cardinality({e \in box.exceptions : e.id[1] = "import" /\ e.id[2] = box.imports[i].id})
                = IF box.imports[i].state \in {"QUARANTINED", "REJECTED"} THEN 1 ELSE 0
  BY <1>7, <1>11
<1> QED BY <1>7, <1>8, <1>9, <1>10, <1>12, Zenon DEF CompleteInbox

LEMMA PresentationInvInit == PresentationInit => PresentationInv
BY DEF PresentationInit, PresentationInv, InboxIsComplete

LEMMA PresentationInvNext ==
  PresentationInv /\ [PresentationNext]_presentationVars => PresentationInv'
<1> SUFFICES ASSUME PresentationInv, [PresentationNext]_presentationVars PROVE PresentationInv'
  OBVIOUS
<1>1. ASSUME NEW q \in FormRequests, BuildForm(q) PROVE PresentationInv'
  <2> DEFINE new == [id |-> q.id, context |-> q.context, from |-> q.from,
                     currency |-> q.currency, fields |-> [f \in Fields |-> EmptyField],
                     problems |-> {}, status |-> "BLOCKED"]
  <2>1. forms' = Append(forms, new) /\ inbox' = inbox
    BY <1>1 DEF BuildForm
  <2>2. new \in Forms
    BY DEF Forms, FieldStates, FormDiagnostics, EmptyField
  <2>3. FormOK(new)
    BY DEF FormOK, EmptyField, Fields
  <2> HIDE DEF new
  <2>4. /\ forms \in Seq(Forms)
        /\ forms' \in Seq(Forms) /\ Len(forms') = Len(forms) + 1
        /\ \A i \in 1 .. Len(forms) : forms'[i] = forms[i]
        /\ forms'[Len(forms) + 1] = new
    BY <2>1, <2>2 DEF PresentationInv
  <2>5. ASSUME NEW i \in DOMAIN forms' PROVE FormOK(forms'[i])
    <3>1. CASE i \in 1 .. Len(forms)
      BY <2>4, <3>1 DEF PresentationInv
    <3>2. CASE i = Len(forms) + 1
      BY <2>3, <2>4, <3>2
    <3> QED BY <2>4, <3>1, <3>2
  <2>6. \A i \in DOMAIN forms' : FormOK(forms'[i])
    BY <2>5
  <2>7. InboxIsComplete'
    BY <2>1 DEF PresentationInv, InboxIsComplete
  <2> QED BY <2>4, <2>6, <2>7 DEF PresentationInv, FormOK
<1>2. ASSUME NEW i \in DOMAIN forms, NEW typed \in FormValues, ApplyConfigurationValues(i, typed)
      PROVE  PresentationInv'
  <2> DEFINE fields == [f \in Fields |-> Filled(f, typed, forms[i].currency)]
             new == [id |-> forms[i].id, context |-> forms[i].context, from |-> forms[i].from,
                     currency |-> forms[i].currency, fields |-> fields,
                     problems |-> ProblemsOf(forms[i], fields),
                     status |-> Status(forms[i], fields)]
  <2>1. fields \in [Fields -> FieldStates]
    BY FilledType
  <2> HIDE DEF fields
  <2>2. /\ forms' = [forms EXCEPT ![i] = [@ EXCEPT !.fields = fields,
                                                  !.problems = ProblemsOf(forms[i], fields),
                                                  !.status = Status(forms[i], fields)]]
        /\ inbox' = inbox
    BY <1>2 DEF ApplyConfigurationValues, fields
  <2>3. forms \in Seq(Forms) /\ forms[i] \in Forms
    BY DEF PresentationInv
  <2>4. forms' = [forms EXCEPT ![i] = new]
    <3>1. PICK form, form2 :
            /\ form = forms[i]
            /\ form2 = [form EXCEPT !.fields = fields, !.problems = ProblemsOf(form, fields),
                                    !.status = Status(form, fields)]
      OBVIOUS
    <3>2. forms' = [forms EXCEPT ![i] = form2]
      BY <2>2, <3>1
    <3>3. form2 = [id |-> form.id, context |-> form.context, from |-> form.from,
                   currency |-> form.currency, fields |-> fields,
                   problems |-> ProblemsOf(form, fields), status |-> Status(form, fields)]
      <4>1. form \in Forms
        BY <2>3, <3>1
      <4> QED BY <3>1, <4>1 DEF Forms
    <3> QED BY <3>1, <3>2, <3>3
  <2>5. new \in Forms /\ FormOK(new)
    BY <2>1, <2>3, AppliedForm
  <2> HIDE DEF new
  <2>6. forms' \in Seq(Forms)
    BY <2>3, <2>4, <2>5
  <2>7. \A j \in DOMAIN forms' : FormOK(forms'[j])
    BY <2>3, <2>4, <2>5 DEF PresentationInv
  <2>8. InboxIsComplete'
    BY <2>2 DEF PresentationInv, InboxIsComplete
  <2> QED BY <2>6, <2>7, <2>8 DEF PresentationInv, FormOK
<1>3. ASSUME NEW rs \in UxRecords, NEW is \in UxImports, NEW tenant \in {"t", "t2"},
             BuildExceptionInbox(rs, is, tenant)
      PROVE  PresentationInv'
  <2>1. forms' = forms
    BY <1>3 DEF BuildExceptionInbox
  <2>2. InboxIsComplete'
    <3>1. CASE InboxRaises(rs, forms, is, tenant)
      <4>1. inbox'.state = "REFUSED"
        BY <1>3, <3>1 DEF BuildExceptionInbox
      <4> QED BY <4>1 DEF InboxIsComplete
    <3>2. CASE ~InboxRaises(rs, forms, is, tenant)
      <4>1. inbox' = [state |-> "BUILT", records |-> rs, imports |-> is, forms |-> forms,
                      exceptions |-> Exceptions(rs, forms, is),
                      available |-> {rs[i].metric : i \in {j \in DOMAIN rs : rs[j].state = "VALID"}}]
        BY <1>3, <3>2 DEF BuildExceptionInbox
      <4>2. Unique(rs) /\ Unique(forms) /\ Unique(is)
        BY <3>2, Zenon DEF InboxRaises
      <4>3. PICK fs, box : fs = forms /\ box = inbox'
        OBVIOUS
      <4>4. /\ fs \in Seq(Forms) /\ rs \in Seq(ToSet(rs)) /\ is \in Seq(ToSet(is))
            /\ Unique(rs) /\ Unique(fs) /\ Unique(is)
            /\ \A i \in DOMAIN fs : FormOK(fs[i])
            /\ \A i \in DOMAIN rs : rs[i].state = "VALID" => rs[i].value # "dash"
        BY <4>2, <4>3, UxAssumption DEF PresentationInv
      <4>5. /\ box.records = rs /\ box.forms = fs /\ box.imports = is
            /\ box.exceptions = Exceptions(rs, fs, is)
            /\ box.available = {rs[i].metric : i \in {j \in DOMAIN rs : rs[j].state = "VALID"}}
        BY <4>1, <4>3
      <4>6. CompleteInbox(box)
        <5>1. PICK A, C : rs \in Seq(A) /\ is \in Seq(C)
          BY <4>4
        <5> QED BY <4>4, <4>5, <5>1, BuiltIsComplete
      <4> QED BY <4>3, <4>6 DEF InboxIsComplete
    <3> QED BY <3>1, <3>2
  <2> QED BY <2>1, <2>2 DEF PresentationInv, FormOK
<1>4. ASSUME UNCHANGED presentationVars PROVE PresentationInv'
  BY <1>4 DEF PresentationInv, presentationVars, InboxIsComplete, FormOK
<1> QED BY <1>1, <1>2, <1>3, <1>4 DEF PresentationNext

(* Whatever forms are built and filled, and whatever the inbox is asked to *)
(* collect: each form that is not ready, each record without a value and   *)
(* each file that was not accepted is in it, once, and nothing else is     *)
(* (build_exception_inbox against apply_configuration_values and           *)
(* render_report_record).                                                  *)
THEOREM InboxStaysComplete == PresentationSpec => []InboxIsComplete
<1>1. PresentationInv => InboxIsComplete
  BY DEF PresentationInv
<1> QED BY <1>1, PresentationInvInit, PresentationInvNext, PTL DEF PresentationSpec

-----------------------------------------------------------------------------
(* Reconciliation.  Powers of ten and digits are recursive functions on    *)
(* the natural numbers; that such functions exist:                         *)
Recursively(f, n, X, a, P, G) ==
  /\ f \in [0 .. n -> X] /\ f[0] = a
  /\ \A i \in 1 .. n : f[i] = G[i][f[P[i]]]

Solves(f, X, a, P, G) ==
  /\ f \in [Nat -> X] /\ f[0] = a
  /\ \A n \in Nat \ {0} : f[n] = G[n][f[P[n]]]

LEMMA RecursionExists ==
  ASSUME NEW X, NEW a \in X, NEW P \in [Nat \ {0} -> Nat], \A n \in Nat \ {0} : P[n] < n,
         NEW G \in [Nat \ {0} -> [X -> X]]
  PROVE  \E f : Solves(f, X, a, P, G)
<1> DEFINE Upto(f, n) == Recursively(f, n, X, a, P, G)
<1>1. ASSUME NEW n \in Nat PROVE \E f : Upto(f, n)
  <2> DEFINE T == {m \in 0 .. n : \E f : Upto(f, m)}
  <2>1. 0 \in T
    <3>1. Upto([i \in 0 .. 0 |-> a], 0)
      BY DEF Recursively
    <3> QED BY <3>1
  <2>2. ASSUME NEW m \in 1 .. n, m - 1 \in T PROVE m \in T
    <3>1. PICK f : Upto(f, m - 1)
      BY <2>2
    <3>2. /\ f \in [0 .. (m - 1) -> X] /\ f[0] = a
          /\ \A i \in 1 .. (m - 1) : f[i] = G[i][f[P[i]]]
      BY <3>1 DEF Recursively
    <3>3. m \in Nat \ {0} /\ P[m] \in 0 .. (m - 1)
      OBVIOUS
    <3>4. PICK v \in X : v = G[m][f[P[m]]]
      BY <3>2, <3>3
    <3> DEFINE h == [i \in 0 .. m |-> IF i < m THEN f[i] ELSE v]
    <3>5. h \in [0 .. m -> X] /\ h[0] = a /\ h[m] = v /\ \A i \in 0 .. (m - 1) : h[i] = f[i]
      BY <3>2, <3>3
    <3> HIDE DEF h
    <3>6. ASSUME NEW i \in 1 .. m PROVE h[i] = G[i][h[P[i]]]
      <4>1. CASE i = m
        BY <3>3, <3>4, <3>5, <4>1
      <4>2. CASE i # m
        <5>1. i \in 1 .. (m - 1) /\ P[i] \in 0 .. (m - 1)
          BY <3>3, <4>2
        <5> QED BY <3>2, <3>5, <5>1
      <4> QED BY <4>1, <4>2
    <3>7. Upto(h, m)
      BY <3>5, <3>6 DEF Recursively
    <3> QED BY <3>7
  <2> HIDE DEF T
  <2>3. \A i \in 0 .. n : i \in T
    BY <2>1, <2>2, UpTo
  <2>4. n \in T
    BY <2>3
  <2> QED BY <2>4 DEF T
<1>2. ASSUME NEW m \in Nat, NEW n \in Nat, m <= n, NEW f, Upto(f, m), NEW g, Upto(g, n)
      PROVE  \A i \in 0 .. m : f[i] = g[i]
  <2> DEFINE T == {i \in 0 .. m : \A j \in 0 .. i : f[j] = g[j]}
  <2>1. /\ f[0] = a /\ \A i \in 1 .. m : f[i] = G[i][f[P[i]]]
        /\ g[0] = a /\ \A i \in 1 .. m : g[i] = G[i][g[P[i]]]
    BY <1>2 DEF Recursively
  <2>2. 0 \in T
    BY <2>1
  <2>3. ASSUME NEW i \in 1 .. m, i - 1 \in T PROVE i \in T
    <3>1. P[i] \in 0 .. (i - 1)
      OBVIOUS
    <3>2. \A j \in 0 .. (i - 1) : f[j] = g[j]
      BY <2>3
    <3>3. f[i] = g[i]
      BY <2>1, <3>1, <3>2
    <3>4. ASSUME NEW j \in 0 .. i PROVE f[j] = g[j]
      <4>1. j = i \/ j \in 0 .. (i - 1)
        OBVIOUS
      <4> QED BY <3>2, <3>3, <4>1
    <3>5. i \in 0 .. m
      OBVIOUS
    <3> QED BY <3>4, <3>5
  <2> HIDE DEF T
  <2>4. \A i \in 0 .. m : i \in T
    BY <2>2, <2>3, UpTo
  <2> QED BY <2>4 DEF T
<1> DEFINE h == [n \in Nat |-> CHOOSE f : Upto(f, n)]
           F == [n \in Nat |-> h[n][n]]
<1>3. \A n \in Nat : Upto(h[n], n)
  BY <1>1
<1> HIDE DEF h
<1>4. F \in [Nat -> X] /\ F[0] = a
  <2>1. \A n \in Nat : h[n] \in [0 .. n -> X] /\ h[n][0] = a
    BY <1>3 DEF Recursively
  <2>2. \A n \in Nat : h[n][n] \in X
    BY <2>1
  <2> QED BY <2>1, <2>2
<1>5. ASSUME NEW n \in Nat \ {0} PROVE F[n] = G[n][F[P[n]]]
  <2>1. P[n] \in Nat /\ P[n] <= n
    OBVIOUS
  <2>2. h[n][n] = G[n][h[n][P[n]]]
    BY <1>3 DEF Recursively
  <2>3. \A i \in 0 .. P[n] : h[P[n]][i] = h[n][i]
    BY <1>2, <1>3, <2>1
  <2>4. h[P[n]][P[n]] = h[n][P[n]]
    BY <2>1, <2>3
  <2> QED BY <2>1, <2>2, <2>4
<1>6. Solves(F, X, a, P, G)
  BY <1>4, <1>5 DEF Solves
<1> QED BY <1>6

LEMMA PowerFacts ==
  /\ PowerOfTen[0] = 1
  /\ \A n \in Nat : PowerOfTen[n] \in Nat /\ PowerOfTen[n] > 0
                    /\ PowerOfTen[n + 1] = 10 * PowerOfTen[n]
<1> DEFINE P == [n \in Nat \ {0} |-> n - 1]
           X == Nat \ {0}
           G == [n \in Nat \ {0} |-> [x \in X |-> 10 * x]]
<1>1. P \in [Nat \ {0} -> Nat] /\ \A n \in Nat \ {0} : P[n] < n
  OBVIOUS
<1>2. G \in [Nat \ {0} -> [X -> X]] /\ 1 \in X
  OBVIOUS
<1>3. \E f : Solves(f, X, 1, P, G)
  <2> HIDE DEF P, X, G
  <2> QED BY <1>1, <1>2, RecursionExists
<1>4. PICK f \in [Nat -> X] : f[0] = 1 /\ \A n \in Nat \ {0} : f[n] = G[n][f[P[n]]]
  <2> HIDE DEF P, X, G
  <2> QED BY <1>3 DEF Solves
<1>5. ASSUME NEW n \in Nat \ {0} PROVE f[n] = 10 * f[n - 1]
  <2>1. P[n] = n - 1 /\ n - 1 \in Nat
    OBVIOUS
  <2>2. f[n - 1] \in X
    BY <1>4, <2>1
  <2>3. \A x \in X : G[n][x] = 10 * x
    OBVIOUS
  <2> HIDE DEF G, P, X
  <2> QED BY <1>4, <2>1, <2>2, <2>3
<1>6. f = [n \in Nat |-> IF n = 0 THEN 1 ELSE 10 * f[n - 1]]
  BY <1>4, <1>5
<1>7. PowerOfTen = [n \in Nat |-> IF n = 0 THEN 1 ELSE 10 * PowerOfTen[n - 1]]
  BY <1>6 DEF PowerOfTen
<1> DEFINE Q == PowerOfTen
<1> HIDE DEF Q
<1>8. Q = [n \in Nat |-> IF n = 0 THEN 1 ELSE 10 * Q[n - 1]]
  BY <1>7 DEF Q
<1>9. Q[0] = 1 /\ \A n \in Nat : Q[n + 1] = 10 * Q[n]
  BY <1>8
<1>10. ASSUME NEW n \in Nat PROVE Q[n] \in X
  <2> DEFINE T == {i \in 0 .. n : Q[i] \in X}
  <2>1. 0 \in T
    BY <1>9
  <2>2. ASSUME NEW i \in 1 .. n, i - 1 \in T PROVE i \in T
    BY <1>8, <2>2
  <2> HIDE DEF T
  <2>3. \A i \in 0 .. n : i \in T
    BY <2>1, <2>2, UpTo
  <2>4. n \in T
    BY <2>3
  <2> QED BY <2>4 DEF T
<1> QED BY <1>9, <1>10 DEF Q

LEMMA DigitsFacts ==
  \A n \in Nat : /\ DigitsOf[n] \in Nat \ {0}
                 /\ DigitsOf[n] = IF n < 10 THEN 1 ELSE 1 + DigitsOf[n \div 10]
<1> DEFINE P == [n \in Nat \ {0} |-> n \div 10]
           X == Nat \ {0}
           G == [n \in Nat \ {0} |-> [x \in X |-> IF n < 10 THEN 1 ELSE 1 + x]]
<1>1. P \in [Nat \ {0} -> Nat] /\ \A n \in Nat \ {0} : P[n] < n
  OBVIOUS
<1>2. G \in [Nat \ {0} -> [X -> X]] /\ 1 \in X
  OBVIOUS
<1>3. \E f : Solves(f, X, 1, P, G)
  <2> HIDE DEF P, X, G
  <2> QED BY <1>1, <1>2, RecursionExists
<1>4. PICK f \in [Nat -> X] : f[0] = 1 /\ \A n \in Nat \ {0} : f[n] = G[n][f[P[n]]]
  <2> HIDE DEF P, X, G
  <2> QED BY <1>3 DEF Solves
<1>5. ASSUME NEW n \in Nat PROVE f[n] = IF n < 10 THEN 1 ELSE 1 + f[n \div 10]
  <2>1. CASE n = 0
    BY <1>4, <2>1
  <2>2. CASE n # 0
    <3>1. n \in Nat \ {0} /\ P[n] = n \div 10 /\ n \div 10 \in Nat
      BY <2>2
    <3>2. f[n \div 10] \in X
      BY <1>4, <3>1
    <3>3. \A x \in X : G[n][x] = IF n < 10 THEN 1 ELSE 1 + x
      BY <3>1
    <3> HIDE DEF G, P, X
    <3> QED BY <1>4, <3>1, <3>2, <3>3
  <2> QED BY <2>1, <2>2
<1>6. f = [n \in Nat |-> IF n < 10 THEN 1 ELSE 1 + f[n \div 10]]
  BY <1>5
<1>7. DigitsOf = [n \in Nat |-> IF n < 10 THEN 1 ELSE 1 + DigitsOf[n \div 10]]
  BY <1>6 DEF DigitsOf
<1> DEFINE Q == DigitsOf
<1> HIDE DEF Q
<1>8. Q = [n \in Nat |-> IF n < 10 THEN 1 ELSE 1 + Q[n \div 10]]
  BY <1>7 DEF Q
<1>9. \A n \in Nat : Q[n] = IF n < 10 THEN 1 ELSE 1 + Q[n \div 10]
  BY <1>8
<1>10. ASSUME NEW n \in Nat PROVE Q[n] \in X
  <2> DEFINE T == {i \in 0 .. n : \A j \in 0 .. i : Q[j] \in X}
  <2>1. 0 \in T
    BY <1>9
  <2>2. ASSUME NEW i \in 1 .. n, i - 1 \in T PROVE i \in T
    <3>1. \A j \in 0 .. (i - 1) : Q[j] \in X
      BY <2>2
    <3>2. i \div 10 \in 0 .. (i - 1) /\ i \in Nat
      OBVIOUS
    <3>3. Q[i] \in X
      BY <1>9, <3>1, <3>2
    <3> QED BY <3>1, <3>3
  <2> HIDE DEF T
  <2>3. \A i \in 0 .. n : i \in T
    BY <2>1, <2>2, UpTo
  <2>4. n \in T
    BY <2>3
  <2> QED BY <2>4 DEF T
<1> QED BY <1>9, <1>10 DEF Q

LEMMA PowerAdds ==
  ASSUME NEW a \in Nat, NEW b \in Nat
  PROVE  PowerOfTen[a + b] = PowerOfTen[a] * PowerOfTen[b]
<1> DEFINE T == {i \in 0 .. b : PowerOfTen[a + i] = PowerOfTen[a] * PowerOfTen[i]}
<1>1. 0 \in T
  BY PowerFacts
<1>2. ASSUME NEW i \in 1 .. b, i - 1 \in T PROVE i \in T
  <2>1. i - 1 \in Nat /\ a + (i - 1) \in Nat /\ (i - 1) + 1 = i /\ (a + (i - 1)) + 1 = a + i
    OBVIOUS
  <2>2. /\ PowerOfTen[i] = 10 * PowerOfTen[i - 1]
        /\ PowerOfTen[a + i] = 10 * PowerOfTen[a + (i - 1)]
    BY <2>1, PowerFacts
  <2>3. PowerOfTen[a + (i - 1)] = PowerOfTen[a] * PowerOfTen[i - 1]
    BY <1>2
  <2>4. PowerOfTen[a] \in Nat /\ PowerOfTen[i - 1] \in Nat
    BY <2>1, PowerFacts
  <2>5. \A x, y \in Nat : 10 * (x * y) = x * (10 * y)
    OBVIOUS
  <2>6. PowerOfTen[a + i] = PowerOfTen[a] * PowerOfTen[i]
    BY <2>2, <2>3, <2>4, <2>5
  <2> QED BY <2>6
<1> HIDE DEF T
<1>3. \A i \in 0 .. b : i \in T
  BY <1>1, <1>2, UpTo
<1>4. b \in T
  BY <1>3
<1> QED BY <1>4 DEF T

LEMMA PowersGrow ==
  ASSUME NEW a \in Nat, NEW b \in Nat, a <= b
  PROVE  PowerOfTen[a] <= PowerOfTen[b]
<1>1. b - a \in Nat /\ a + (b - a) = b
  OBVIOUS
<1>2. PowerOfTen[b] = PowerOfTen[a] * PowerOfTen[b - a]
  BY <1>1, PowerAdds
<1>3. PowerOfTen[a] \in Nat /\ PowerOfTen[b - a] \in Nat \ {0}
  BY <1>1, PowerFacts
<1>4. \A x \in Nat, y \in Nat \ {0} : x <= x * y
  OBVIOUS
<1> QED BY <1>2, <1>3, <1>4

(* A number of d digits lies below the d-th power of ten, and not below    *)
(* the one before if it has more than one digit.                           *)
LEMMA DigitsBound ==
  ASSUME NEW n \in Nat
  PROVE  /\ n < PowerOfTen[DigitsOf[n]]
         /\ DigitsOf[n] > 1 => PowerOfTen[DigitsOf[n] - 1] <= n
<1> DEFINE Bounded(m) == /\ m < PowerOfTen[DigitsOf[m]]
                         /\ DigitsOf[m] > 1 => PowerOfTen[DigitsOf[m] - 1] <= m
           T == {i \in 0 .. n : \A j \in 0 .. i : Bounded(j)}
<1>1. PowerOfTen[1] = 10
  BY PowerFacts
<1>2. ASSUME NEW i \in Nat, i < 10 PROVE Bounded(i)
  <2>1. DigitsOf[i] = 1
    BY <1>2, DigitsFacts
  <2> QED BY <1>1, <1>2, <2>1
<1>3. ASSUME NEW i \in Nat, i >= 10, Bounded(i \div 10) PROVE Bounded(i)
  <2> DEFINE q == i \div 10
             d == DigitsOf[q]
  <2>1. q \in Nat /\ 10 * q <= i /\ i < 10 * (q + 1)
    OBVIOUS
  <2>2. d \in Nat \ {0} /\ DigitsOf[i] = d + 1
    BY <1>3, <2>1, DigitsFacts
  <2>3. q < PowerOfTen[d] /\ (d > 1 => PowerOfTen[d - 1] <= q)
    BY <1>3
  <2> HIDE DEF q, d
  <2>4. PowerOfTen[d] \in Nat /\ PowerOfTen[d + 1] = 10 * PowerOfTen[d]
    BY <2>2, PowerFacts
  <2>5. i < PowerOfTen[d + 1]
    BY <2>1, <2>3, <2>4
  <2>6. PowerOfTen[d] <= i
    <3>1. CASE d = 1
      BY <1>1, <1>3, <3>1
    <3>2. CASE d > 1
      <4>1. d - 1 \in Nat /\ (d - 1) + 1 = d
        BY <2>2, <3>2
      <4>2. PowerOfTen[d - 1] \in Nat /\ PowerOfTen[d] = 10 * PowerOfTen[d - 1]
        BY <4>1, PowerFacts
      <4> QED BY <2>1, <2>3, <3>2, <4>2
    <3> QED BY <2>2, <3>1, <3>2
  <2>7. (d + 1) - 1 = d
    BY <2>2
  <2> QED BY <2>2, <2>5, <2>6, <2>7
<1> HIDE DEF Bounded
<1>4. 0 \in T
  BY <1>2
<1>5. ASSUME NEW i \in 1 .. n, i - 1 \in T PROVE i \in T
  <2>1. \A j \in 0 .. (i - 1) : Bounded(j)
    BY <1>5
  <2>2. i \div 10 \in 0 .. (i - 1) /\ i \in Nat
    OBVIOUS
  <2>3. Bounded(i)
    BY <1>2, <1>3, <2>1, <2>2
  <2> QED BY <2>1, <2>3
<1> HIDE DEF T
<1>6. \A i \in 0 .. n : i \in T
  BY <1>4, <1>5, UpTo
<1>7. n \in T
  BY <1>6
<1> QED BY <1>7 DEF T, Bounded

LEMMA FewDigits ==
  ASSUME NEW n \in Nat, NEW k \in Nat \ {0}, n < PowerOfTen[k]
  PROVE  DigitsOf[n] <= k
<1>1. SUFFICES ASSUME DigitsOf[n] > k PROVE FALSE
  BY DigitsFacts
<1>2. DigitsOf[n] \in Nat /\ DigitsOf[n] - 1 \in Nat /\ k <= DigitsOf[n] - 1 /\ DigitsOf[n] > 1
  BY <1>1, DigitsFacts
<1>3. PowerOfTen[DigitsOf[n] - 1] <= n
  BY <1>2, DigitsBound
<1>4. PowerOfTen[k] <= PowerOfTen[DigitsOf[n] - 1]
  BY <1>2, PowersGrow
<1>5. PowerOfTen[k] \in Nat /\ PowerOfTen[DigitsOf[n] - 1] \in Nat
  BY <1>2, PowerFacts
<1> QED BY <1>3, <1>4, <1>5

LEMMA Division ==
  ASSUME NEW n \in Nat, NEW u \in Nat \ {0}
  PROVE  \E q, r \in Nat : q = n \div u /\ r = n % u /\ n = u * q + r /\ r < u
<1> DEFINE q == n \div u
           r == n % u
<1>1. q \in Nat /\ r \in Nat /\ r < u
  OBVIOUS
<1>2. q = n \div u /\ r = n % u
  OBVIOUS
<1> HIDE DEF q, r
<1>3. n = u * q + r
  BY <1>2
<1> QED BY <1>1, <1>2, <1>3

(* What a decimal context makes of a number: itself if it has no more      *)
(* digits than the context, and otherwise the multiple of a power of ten   *)
(* just below or just above, whichever is not farther than half of that.   *)
LEMMA NothingRounded ==
  ASSUME NEW n \in Nat, NEW k \in Nat \ {0}, DigitsOf[n] <= k
  PROVE  ToPrecision(n, k) = n
<1> DEFINE z == Max({0, NumberOfDigits(n) - k})
           u == PowerOfTen[z]
           q == n \div u
           r == 2 * (n % u)
<1>1. NumberOfDigits(n) = DigitsOf[n] /\ DigitsOf[n] \in Nat
  BY DigitsFacts DEF NumberOfDigits, Size
<1>2. z = 0
  BY <1>1 DEF Max
<1>3. u = 1
  BY <1>2, PowerFacts
<1>4. ToPrecision(n, k) = u * (IF r > u \/ (r = u /\ q % 2 = 1) THEN q + 1 ELSE q)
  BY DEF ToPrecision
<1>5. q = n /\ r = 0
  BY <1>3
<1> HIDE DEF u, q, r
<1> QED BY <1>3, <1>4, <1>5

LEMMA RoundedToMultiple ==
  ASSUME NEW n \in Nat, NEW k \in Nat \ {0}, NEW z \in Nat, DigitsOf[n] = k + z, z > 0
  PROVE  \E q \in Nat : LET u == PowerOfTen[z] IN
           /\ u * q <= n /\ n < u * q + u
           /\ \/ ToPrecision(n, k) = u * q /\ 2 * (n - u * q) <= u
              \/ ToPrecision(n, k) = u * q + u /\ u * q < n
<1> DEFINE u == PowerOfTen[z]
           q == n \div u
           m == n % u
           r == 2 * m
<1>1. NumberOfDigits(n) = k + z
  BY DEF NumberOfDigits, Size
<1>2. Max({0, NumberOfDigits(n) - k}) = z
  BY <1>1 DEF Max
<1>3. ToPrecision(n, k) = u * (IF r > u \/ (r = u /\ q % 2 = 1) THEN q + 1 ELSE q)
  BY <1>2 DEF ToPrecision
<1>4. u \in Nat \ {0}
  BY PowerFacts
<1> HIDE DEF u
<1>5. q \in Nat /\ m \in Nat /\ n = u * q + m /\ m < u
  <2>1. PICK x, y \in Nat : x = n \div u /\ y = n % u /\ n = u * x + y /\ y < u
    BY <1>4, Division
  <2>2. q = x /\ m = y
    BY <2>1
  <2> HIDE DEF q, m
  <2> QED BY <2>1, <2>2
<1> HIDE DEF q, m
<1>6. u * q \in Nat /\ u * (q + 1) = u * q + u
  BY <1>4, <1>5
<1>7. \/ ToPrecision(n, k) = u * (q + 1) /\ r >= u
      \/ ToPrecision(n, k) = u * q /\ r <= u
  BY <1>3, <1>4, <1>5
<1> DEFINE d == u * q
<1> HIDE DEF d
<1>8. /\ d \in Nat /\ d <= n /\ n < d + u
      /\ \/ ToPrecision(n, k) = d /\ 2 * (n - d) <= u
         \/ ToPrecision(n, k) = d + u /\ d < n
  BY <1>4, <1>5, <1>6, <1>7 DEF d
<1> QED BY <1>5, <1>8 DEF d, u

-----------------------------------------------------------------------------
LEMMA MaxOfThree ==
  ASSUME NEW a \in Int, NEW b \in Int, NEW c \in Int
  PROVE  /\ Max({a, b, c}) \in {a, b, c}
         /\ a <= Max({a, b, c}) /\ b <= Max({a, b, c}) /\ c <= Max({a, b, c})
<1>1. \E x \in {a, b, c} : \A y \in {a, b, c} : x >= y
  <2>1. CASE a >= b /\ a >= c
    BY <2>1
  <2>2. CASE b >= a /\ b >= c
    BY <2>2
  <2>3. CASE c >= a /\ c >= b
    BY <2>3
  <2> QED BY <2>1, <2>2, <2>3
<1> QED BY <1>1 DEF Max

LEMMA MinOfTwo ==
  ASSUME NEW a \in Int, NEW b \in Int
  PROVE  Min({a, b}) \in {a, b} /\ Min({a, b}) <= a /\ Min({a, b}) <= b
<1>1. \E x \in {a, b} : \A y \in {a, b} : x =< y
  <2>1. CASE a <= b
    BY <2>1
  <2>2. CASE b <= a
    BY <2>2
  <2> QED BY <2>1, <2>2
<1> QED BY <1>1 DEF Min

LEMMA CoefficientDigits ==
  ASSUME NEW x, Decimal(x)
  PROVE  /\ Scaled(x) \in Int
         /\ NumberOfDigits(x.coefficient) \in Nat \ {0}
         /\ x.coefficient >= 0 =>
              x.coefficient < PowerOfTen[NumberOfDigits(x.coefficient)]
<1>1. Size(x.coefficient) \in Nat /\ (x.coefficient >= 0 => Size(x.coefficient) = x.coefficient)
  BY DEF Decimal, Size
<1>2. NumberOfDigits(x.coefficient) = DigitsOf[Size(x.coefficient)]
  BY DEF NumberOfDigits
<1>3. Scaled(x) \in Int
  <2>1. x.exponent + FractionDigits \in Nat /\ x.coefficient \in Int
    BY DigitsAssumption DEF Decimal
  <2>2. PowerOfTen[x.exponent + FractionDigits] \in Int
    BY <2>1, PowerFacts
  <2> QED BY <2>1, <2>2 DEF Scaled
<1> QED BY <1>1, <1>2, <1>3, DigitsFacts, DigitsBound

(* The precision leaves room for the guard digits and for the tolerance.   *)
LEMMA PrecisionIsEnough ==
  ASSUME NEW s, NEW c, NEW t, Decimal(s), Decimal(c), Decimal(t), ~TooLong(t)
  PROVE  /\ Precision(s, c, t) \in Nat
         /\ Precision(s, c, t) >= GuardDigits + 1
         /\ Precision(s, c, t) >= NumberOfDigits(t.coefficient)
<1> DEFINE a == NumberOfDigits(s.coefficient)
           b == NumberOfDigits(c.coefficient)
           d == NumberOfDigits(t.coefficient)
           L == Max({a, b, d})
<1>1. a \in Nat \ {0} /\ b \in Nat \ {0} /\ d \in Nat \ {0}
  BY CoefficientDigits
<1>2. {NumberOfDigits(x.coefficient) : x \in {s, c, t}} = {a, b, d}
  OBVIOUS
<1>3. Precision(s, c, t) = Min({MaxDigits, L + GuardDigits})
  BY <1>2 DEF Precision
<1>4. d <= MaxDigits
  BY <1>1, DigitsAssumption DEF TooLong
<1> HIDE DEF a, b, d
<1>5. L \in {a, b, d} /\ d <= L
  BY <1>1, MaxOfThree
<1> HIDE DEF L
<1>6. L \in Nat \ {0} /\ L + GuardDigits \in Int /\ MaxDigits \in Int
  BY <1>1, <1>5, DigitsAssumption
<1>7. Min({MaxDigits, L + GuardDigits}) \in {MaxDigits, L + GuardDigits}
  BY <1>6, MinOfTwo
<1> HIDE DEF d
<1>8. /\ MaxDigits \in Nat /\ MaxDigits >= GuardDigits + 1 /\ MaxDigits >= d
      /\ L + GuardDigits \in Nat /\ L + GuardDigits >= GuardDigits + 1 /\ L + GuardDigits >= d
  BY <1>1, <1>4, <1>5, <1>6, DigitsAssumption
<1> QED BY <1>3, <1>7, <1>8 DEF d

LEMMA SmallerProduct ==
  ASSUME NEW x \in Int, NEW y \in Int, NEW w \in Nat, x <= y
  PROVE  x * w <= y * w
OBVIOUS

(* A match is within the tolerance but for the rounding.                   *)
LEMMA MatchIsNear ==
  ASSUME NEW n \in Nat, NEW T \in Int, NEW k \in Nat, k >= GuardDigits + 1, ToPrecision(n, k) <= T
  PROVE  /\ 2 * (n - T) * PowerOfTen[GuardDigits] <= n
         /\ n < PowerOfTen[GuardDigits + 1] => n <= T
<1> DEFINE g == PowerOfTen[GuardDigits]
<1>1. GuardDigits \in Nat /\ g \in Nat /\ DigitsOf[n] \in Nat \ {0} /\ k \in Nat \ {0}
  BY DigitsAssumption, PowerFacts, DigitsFacts
<1>2. ASSUME n <= T PROVE 2 * (n - T) * g <= n
  <2>1. 2 * (n - T) \in Int /\ 2 * (n - T) <= 0
    BY <1>2
  <2> DEFINE x == 2 * (n - T)
  <2> HIDE DEF x, g
  <2>2. x * g <= 0 * g
    BY <1>1, <2>1, SmallerProduct DEF x
  <2>3. x \in Int /\ x * g \in Int /\ 0 * g = 0
    BY <1>1, <2>1 DEF x
  <2>4. x * g <= n
    BY <2>2, <2>3
  <2> QED BY <2>4 DEF x
<1>3. CASE DigitsOf[n] <= k
  <2>1. n <= T
    BY <1>1, <1>3, NothingRounded
  <2> QED BY <1>2, <2>1
<1>4. CASE DigitsOf[n] > k
  <2> DEFINE z == DigitsOf[n] - k
             u == PowerOfTen[z]
  <2>1. z \in Nat /\ z > 0 /\ DigitsOf[n] = k + z
    BY <1>1, <1>4
  <2> HIDE DEF z
  <2>2. PICK q \in Nat :
          /\ u * q <= n /\ n < u * q + u
          /\ \/ ToPrecision(n, k) = u * q /\ 2 * (n - u * q) <= u
             \/ ToPrecision(n, k) = u * q + u /\ u * q < n
    BY <1>1, <2>1, RoundedToMultiple
  <2>3. u \in Nat
    BY <2>1, PowerFacts
  <2>4. u * g <= n
    <3>1. u * g = PowerOfTen[z + GuardDigits]
      BY <1>1, <2>1, PowerAdds
    <3>2. z + GuardDigits \in Nat /\ DigitsOf[n] - 1 \in Nat /\ z + GuardDigits <= DigitsOf[n] - 1
      BY <1>1, <2>1
    <3>3. PowerOfTen[z + GuardDigits] <= PowerOfTen[DigitsOf[n] - 1]
      BY <3>2, PowersGrow
    <3>4. PowerOfTen[DigitsOf[n] - 1] <= n
      BY <1>1, <2>1, DigitsBound
    <3>5. PowerOfTen[z + GuardDigits] \in Nat /\ PowerOfTen[DigitsOf[n] - 1] \in Nat
      BY <3>2, PowerFacts
    <3> QED BY <3>1, <3>3, <3>4, <3>5
  <2>5. ASSUME ~(n <= T) PROVE 2 * (n - T) * g <= n
    <3> DEFINE d == u * q
               x == 2 * (n - T)
    <3>1. d \in Int
      BY <2>3
    <3> HIDE DEF d, u
    <3>2. /\ d <= n /\ n < d + u
          /\ \/ ToPrecision(n, k) = d /\ 2 * (n - d) <= u
             \/ ToPrecision(n, k) = d + u /\ d < n
      BY <2>2 DEF d
    <3>3. x \in Int /\ x <= u
      BY <2>3, <2>5, <3>1, <3>2
    <3> HIDE DEF x, g
    <3>4. x * g <= u * g
      BY <1>1, <2>3, <3>3, SmallerProduct
    <3>5. x * g \in Int /\ u * g \in Int
      BY <1>1, <2>3, <3>3
    <3>6. x * g <= n
      BY <2>4, <3>4, <3>5
    <3> QED BY <3>6 DEF x
  <2>6. ~(n < PowerOfTen[GuardDigits + 1])
    <3>1. GuardDigits + 1 \in Nat \ {0}
      BY <1>1
    <3>2. SUFFICES ASSUME n < PowerOfTen[GuardDigits + 1] PROVE FALSE
      OBVIOUS
    <3>3. DigitsOf[n] <= GuardDigits + 1
      BY <3>1, <3>2, FewDigits
    <3> QED BY <1>1, <1>4, <3>3
  <2> QED BY <1>2, <2>5, <2>6
<1> QED BY <1>1, <1>3, <1>4

(* A tolerance that covers the difference covers what it is rounded to,    *)
(* being a multiple of the power of ten it is rounded to.                  *)
LEMMA NearIsMatch ==
  ASSUME NEW n \in Nat, NEW t, Decimal(t), t.coefficient >= 0,
         NEW k \in Nat, k >= NumberOfDigits(t.coefficient), n <= Scaled(t)
  PROVE  ToPrecision(n, k) <= Scaled(t)
<1> DEFINE T == Scaled(t)
           c == t.coefficient
           e == t.exponent + FractionDigits
           d == NumberOfDigits(c)
<1>1. /\ c \in Nat /\ e \in Nat /\ d \in Nat \ {0} /\ c < PowerOfTen[d]
      /\ T = c * PowerOfTen[e] /\ T \in Int /\ k \in Nat \ {0} /\ k >= d
  BY CoefficientDigits, DigitsAssumption DEF Decimal, Scaled
<1>2. DigitsOf[n] \in Nat \ {0}
  BY DigitsFacts
<1> HIDE DEF T, c, e, d
<1>3. n <= T
  BY DEF T
<1>4. CASE DigitsOf[n] <= k
  BY <1>1, <1>3, <1>4, NothingRounded DEF T
<1>5. CASE DigitsOf[n] > k
  <2> DEFINE z == DigitsOf[n] - k
             u == PowerOfTen[z]
  <2>1. z \in Nat /\ z > 0 /\ DigitsOf[n] = k + z
    BY <1>1, <1>2, <1>5
  <2> HIDE DEF z
  <2>2. PICK q \in Nat :
          /\ u * q <= n /\ n < u * q + u
          /\ \/ ToPrecision(n, k) = u * q /\ 2 * (n - u * q) <= u
             \/ ToPrecision(n, k) = u * q + u /\ u * q < n
    BY <1>1, <2>1, RoundedToMultiple
  <2>3. u \in Nat \ {0}
    BY <2>1, PowerFacts
  <2>4. e >= z
    <3>1. SUFFICES ASSUME e < z PROVE FALSE
      BY <1>1, <2>1
    <3>2. d + e \in Nat /\ DigitsOf[n] - 1 \in Nat /\ d + e <= DigitsOf[n] - 1 /\ DigitsOf[n] > 1
      BY <1>1, <1>2, <2>1, <3>1
    <3>3. PowerOfTen[d + e] <= PowerOfTen[DigitsOf[n] - 1]
      BY <3>2, PowersGrow
    <3>4. PowerOfTen[DigitsOf[n] - 1] <= n
      BY <3>2, DigitsBound
    <3>5. PowerOfTen[d + e] = PowerOfTen[d] * PowerOfTen[e]
      BY <1>1, PowerAdds
    <3> DEFINE v == PowerOfTen[d]
               w == PowerOfTen[e]
    <3>6. v \in Nat /\ w \in Nat \ {0} /\ PowerOfTen[DigitsOf[n] - 1] \in Nat
      BY <1>1, <3>2, PowerFacts
    <3>7. c < v /\ T = c * w /\ PowerOfTen[d + e] = v * w
      BY <1>1, <3>5
    <3> HIDE DEF v, w
    <3>8. c * w < v * w
      <4>1. (c + 1) * w <= v * w
        BY <1>1, <3>6, <3>7, SmallerProduct
      <4>2. (c + 1) * w = c * w + w /\ c * w \in Nat /\ v * w \in Nat
        BY <1>1, <3>6
      <4> QED BY <3>6, <4>1, <4>2
    <3>9. c * w \in Nat /\ v * w \in Nat
      BY <1>1, <3>6
    <3> QED BY <1>3, <3>3, <3>4, <3>6, <3>7, <3>8, <3>9
  <2> DEFINE w == PowerOfTen[e - z]
             v == c * w
  <2>5. w \in Nat /\ PowerOfTen[e] = u * w
    <3> DEFINE y == e - z
    <3>1. y \in Nat /\ z + y = e
      BY <1>1, <2>1, <2>4
    <3> HIDE DEF y
    <3>2. PowerOfTen[z + y] = PowerOfTen[z] * PowerOfTen[y] /\ PowerOfTen[y] \in Nat
      BY <2>1, <3>1, PowerFacts, PowerAdds
    <3> QED BY <3>1, <3>2 DEF y
  <2> HIDE DEF u, w
  <2>6. T = u * v /\ v \in Nat
    <3>1. c * (u * w) = u * (c * w)
      BY <1>1, <2>3, <2>5
    <3> QED BY <1>1, <2>5, <3>1
  <2> HIDE DEF v
  <2>7. CASE ToPrecision(n, k) = u * q
    <3>1. u * q \in Int
      BY <2>3
    <3> QED BY <1>1, <1>3, <2>2, <2>7, <3>1 DEF T
  <2>8. CASE ToPrecision(n, k) = u * q + u /\ u * q < n
    <3>1. v >= q + 1
      <4>1. SUFFICES ASSUME v <= q PROVE FALSE
        BY <2>6
      <4>2. v * u <= q * u
        BY <2>3, <2>6, <4>1, SmallerProduct
      <4>3. v * u = u * v /\ q * u = u * q /\ u * v \in Int /\ u * q \in Int
        BY <2>3, <2>6
      <4> QED BY <1>3, <2>6, <2>8, <4>2, <4>3
    <3>2. (q + 1) * u <= v * u
      BY <2>3, <2>6, <3>1, SmallerProduct
    <3>3. (q + 1) * u = u * q + u /\ v * u = u * v
      BY <2>3, <2>6
    <3> QED BY <2>6, <2>8, <3>2, <3>3 DEF T
  <2> QED BY <2>2, <2>7, <2>8
<1> QED BY <1>1, <1>2, <1>4, <1>5

Apart(r, m) ==
  Size(Scaled(r.source.totals[m].value) - Scaled(r.calculated.totals[m].value))
Allowed(r, m) == Scaled(r.policy.metrics[m].absolute)

LEMMA RefusalKinds ==
  ASSUME NEW r
  PROVE  /\ Refusal(r) # "RECONCILED" /\ Refusal(r) # "CONFLICT"
         /\ Refusal(r) = "NONE" => ~PolicyRaises(r.policy) /\ ~MetricsDiffer(r)
BY DEF Refusal

LEMMA MetricVerdict ==
  ASSUME NEW r \in Requests, Refusal(r) = "NONE", NEW m \in DOMAIN r.policy.metrics
  PROVE  /\ MetricMatches(r, m) =>
              /\ 2 * (Apart(r, m) - Allowed(r, m)) * PowerOfTen[GuardDigits] <= Apart(r, m)
              /\ Apart(r, m) < PowerOfTen[GuardDigits + 1] => Apart(r, m) <= Allowed(r, m)
         /\ Apart(r, m) <= Allowed(r, m) => MetricMatches(r, m)
<1> DEFINE s == r.source.totals[m].value
           c == r.calculated.totals[m].value
           t == r.policy.metrics[m].absolute
           n == Apart(r, m)
           k == Precision(s, c, t)
<1>1. ~PolicyRaises(r.policy) /\ ~MetricsDiffer(r)
  BY RefusalKinds
<1>2. m \in DOMAIN r.source.totals /\ m \in DOMAIN r.calculated.totals
  BY <1>1 DEF MetricsDiffer
<1>3. Decimal(s) /\ Decimal(c) /\ Decimal(t)
  BY <1>2, DecimalsAssumption
<1>4. t.coefficient \in Int /\ t.coefficient >= 0 /\ ~TooLong(t)
  BY <1>1, <1>3 DEF PolicyRaises, Decimal
<1>5. n = Size(Scaled(s) - Scaled(c))
  BY DEF Apart
<1>6. MetricMatches(r, m) <=> ToPrecision(n, k) <= Scaled(t)
  BY <1>5 DEF MetricMatches
<1>7. Allowed(r, m) = Scaled(t)
  BY DEF Allowed
<1> HIDE DEF s, c, t, n
<1>8. n \in Nat /\ Scaled(t) \in Int
  BY <1>3, <1>5, CoefficientDigits DEF Size
<1>9. k \in Nat /\ k >= GuardDigits + 1 /\ k >= NumberOfDigits(t.coefficient)
  BY <1>3, <1>4, PrecisionIsEnough
<1> HIDE DEF k
<1>10. MetricMatches(r, m) =>
         /\ 2 * (n - Scaled(t)) * PowerOfTen[GuardDigits] <= n
         /\ n < PowerOfTen[GuardDigits + 1] => n <= Scaled(t)
  <2> DEFINE T == Scaled(t)
  <2>1. T \in Int /\ (MetricMatches(r, m) => ToPrecision(n, k) <= T)
    BY <1>6, <1>8
  <2> HIDE DEF T
  <2>2. MetricMatches(r, m) =>
          /\ 2 * (n - T) * PowerOfTen[GuardDigits] <= n
          /\ n < PowerOfTen[GuardDigits + 1] => n <= T
    BY <1>8, <1>9, <2>1, MatchIsNear
  <2> QED BY <2>2 DEF T
<1>11. n <= Scaled(t) => MetricMatches(r, m)
  BY <1>3, <1>4, <1>6, <1>8, <1>9, NearIsMatch
<1> QED BY <1>7, <1>10, <1>11 DEF n

(* Whatever totals, tolerances and precision: a reconciliation that answers*)
(* RECONCILED has totals that differ by no more than their tolerance, or   *)
(* by so little more that GuardDigits digits of the difference do not show *)
(* it, and one that answers CONFLICT has totals that differ by more, or    *)
(* row counts that do (reconcile_source_totals).                           *)
THEOREM ReconciledMeansWithin == ReconciliationSpec => []ReconciledWithinTolerance
<1> DEFINE Inv == request \in Requests /\ ReconciledWithinTolerance
<1>1. ReconciliationInit => Inv
  BY DEF ReconciliationInit, ReconciledWithinTolerance
<1>2. Inv /\ [Reconcile]_reconciliationVars => Inv'
  <2> SUFFICES ASSUME Inv, [Reconcile]_reconciliationVars PROVE Inv'
    OBVIOUS
  <2>1. CASE UNCHANGED reconciliationVars
    BY <2>1 DEF reconciliationVars, ReconciledWithinTolerance
  <2>2. CASE Reconcile
    <3>1. request' = request /\ request \in Requests
      BY <2>2 DEF Reconcile
    <3>2. CASE Refusal(request) # "NONE"
      <4>1. reconciliation' # "RECONCILED" /\ reconciliation' # "CONFLICT"
        BY <2>2, <3>2, RefusalKinds DEF Reconcile
      <4> QED BY <3>1, <4>1 DEF ReconciledWithinTolerance
    <3>3. CASE Refusal(request) = "NONE"
      <4>1. \A m \in DOMAIN request.policy.metrics :
              /\ MetricMatches(request, m) =>
                   /\ 2 * (Apart(request, m) - Allowed(request, m)) * PowerOfTen[GuardDigits]
                        <= Apart(request, m)
                   /\ Apart(request, m) < PowerOfTen[GuardDigits + 1]
                        => Apart(request, m) <= Allowed(request, m)
              /\ Apart(request, m) <= Allowed(request, m) => MetricMatches(request, m)
        BY <3>1, <3>3, MetricVerdict
      <4>2. /\ reconciliation' = "RECONCILED" =>
                 /\ RowsMatch(request)
                 /\ \A m \in DOMAIN request.policy.metrics : MetricMatches(request, m)
            /\ reconciliation' = "CONFLICT" =>
                 \/ ~RowsMatch(request)
                 \/ \E m \in DOMAIN request.policy.metrics : ~MetricMatches(request, m)
        BY <2>2, <3>3 DEF Reconcile
      <4>3. ReconciledWithinTolerance' <=>
              /\ reconciliation' = "RECONCILED" =>
                   /\ RowsMatch(request)
                   /\ \A m \in DOMAIN request.policy.metrics :
                        /\ 2 * (Apart(request, m) - Allowed(request, m)) * PowerOfTen[GuardDigits]
                             <= Apart(request, m)
                        /\ Apart(request, m) < PowerOfTen[GuardDigits + 1]
                             => Apart(request, m) <= Allowed(request, m)
              /\ reconciliation' = "CONFLICT" =>
                   \/ ~RowsMatch(request)
                   \/ \E m \in DOMAIN request.policy.metrics :
                        ~(Apart(request, m) <= Allowed(request, m))
        BY <3>1 DEF ReconciledWithinTolerance, RowsMatch, Apart, Allowed
      <4> QED BY <3>1, <4>1, <4>2, <4>3
    <3> QED BY <3>2, <3>3
  <2> QED BY <2>1, <2>2
<1> QED BY <1>1, <1>2, PTL DEF ReconciliationSpec
=============================================================================
