---------------------------- MODULE FinanceProofs ----------------------------
(***************************************************************************)
(* Proofs about quantum.finance.  The resolution cache: which resolutions  *)
(* it keeps, and that what is evaluated is the rule that applies in the    *)
(* catalogue at hand.  The kernel: that it agrees with its reference.      *)
(* Expressions: that they are evaluated to what they mean.                 *)
(***************************************************************************)
EXTENDS RuleResolution, FinancialKernel, SafeExpression, SequenceTheorems, FiniteSetTheorems,
        WellFoundedInduction, TLAPS

Resolutions == {Resolution(c, x) : c \in Catalogues, x \in Contexts}
Traces == [resolution : Resolutions, rules : Catalogues]

(* t holds the newest entries of u, in the same order.                     *)
Mirrors(t, u) ==
  /\ Len(t) = IF Len(u) <= CacheLimit THEN Len(u) ELSE CacheLimit
  /\ \A i \in 1 .. Len(t) : t[i].resolution = u[Len(u) - Len(t) + i]

Distinct(u) == \A i, j \in 1 .. Len(u) : u[i] = u[j] => i = j

(* Each entry was made by resolving a catalogue that is still with it.     *)
Genuine(t) ==
  \A i \in 1 .. Len(t) : \E x \in Contexts : t[i].resolution = Resolution(t[i].rules, x)

CacheInv ==
  /\ traces \in Seq(Traces)
  /\ uses \in Seq(Resolutions)
  /\ Distinct(uses)
  /\ Mirrors(traces, uses)
  /\ Genuine(traces)

-----------------------------------------------------------------------------
(* An element is taken out of a sequence and another one added at its end. *)
LEMMA RemoveAtFacts ==
  ASSUME NEW S, NEW s \in Seq(S), NEW p \in 1 .. Len(s)
  PROVE  /\ RemoveAt(s, p) \in Seq(S)
         /\ Len(RemoveAt(s, p)) = Len(s) - 1
         /\ \A i \in 1 .. Len(s) - 1 : RemoveAt(s, p)[i] = IF i < p THEN s[i] ELSE s[i + 1]
<1> DEFINE a == SubSeq(s, 1, p - 1)
           b == SubSeq(s, p + 1, Len(s))
<1>1. /\ a \in Seq(S) /\ Len(a) = p - 1
      /\ \A i \in 1 .. p - 1 : a[i] = s[i]
  OBVIOUS
<1>2. /\ b \in Seq(S) /\ Len(b) = Len(s) - p
      /\ \A i \in 1 .. Len(s) - p : b[i] = s[p + i]
  OBVIOUS
<1>3. RemoveAt(s, p) = a \o b
  BY DEF RemoveAt
<1> HIDE DEF a, b
<1>4. /\ a \o b \in Seq(S) /\ Len(a \o b) = Len(s) - 1
      /\ \A i \in 1 .. Len(s) - 1 :
           (a \o b)[i] = IF i <= p - 1 THEN a[i] ELSE b[i - (p - 1)]
  <2>1. /\ a \o b \in Seq(S) /\ Len(a \o b) = Len(a) + Len(b)
        /\ \A i \in 1 .. Len(a) + Len(b) :
             (a \o b)[i] = IF i <= Len(a) THEN a[i] ELSE b[i - Len(a)]
    BY <1>1, <1>2, ConcatProperties
  <2> QED BY <1>1, <1>2, <2>1
<1>5. ASSUME NEW i \in 1 .. Len(s) - 1, ~(i < p)
      PROVE  b[i - (p - 1)] = s[i + 1]
  <2>1. i - (p - 1) \in 1 .. Len(s) - p /\ p + (i - (p - 1)) = i + 1
    BY <1>5
  <2> QED BY <1>2, <2>1
<1> QED BY <1>1, <1>3, <1>4, <1>5

LEMMA AppendFacts ==
  ASSUME NEW S, NEW s \in Seq(S), NEW x \in S
  PROVE  /\ Append(s, x) \in Seq(S)
         /\ Len(Append(s, x)) = Len(s) + 1
         /\ \A i \in 1 .. Len(s) + 1 : Append(s, x)[i] = IF i <= Len(s) THEN s[i] ELSE x
OBVIOUS

LEMMA NewestFacts ==
  ASSUME NEW S, NEW s \in Seq(S), NEW limit \in Nat
  PROVE  /\ Newest(s, limit) \in Seq(S)
         /\ Len(Newest(s, limit)) = IF Len(s) <= limit THEN Len(s) ELSE limit
         /\ \A i \in 1 .. Len(Newest(s, limit)) :
              Newest(s, limit)[i] = s[Len(s) - Len(Newest(s, limit)) + i]
<1>1. CASE Len(s) <= limit
  BY <1>1 DEF Newest
<1>2. CASE ~(Len(s) <= limit)
  <2> DEFINE b == SubSeq(s, Len(s) - limit + 1, Len(s))
  <2>1. /\ b \in Seq(S) /\ Len(b) = limit
        /\ \A i \in 1 .. limit : b[i] = s[Len(s) - limit + i]
    BY <1>2
  <2> QED BY <1>2, <2>1 DEF Newest
<1> QED BY <1>1, <1>2

(* w is s with one of the places P taken out, if there is one, and x added.*)
Moved(s, P, x, w) ==
  \/ /\ P = {} /\ Len(w) = Len(s) + 1 /\ w[Len(s) + 1] = x
     /\ \A i \in 1 .. Len(s) : w[i] = s[i]
  \/ \E p \in P : /\ Len(w) = Len(s) /\ w[Len(s)] = x
                  /\ \A i \in 1 .. Len(s) - 1 : w[i] = IF i < p THEN s[i] ELSE s[i + 1]

LEMMA MovedFacts ==
  ASSUME NEW S, NEW s \in Seq(S), NEW P \in SUBSET (1 .. Len(s)), NEW x \in S
  PROVE  /\ Append(TakenOut(s, P), x) \in Seq(S)
         /\ Moved(s, P, x, Append(TakenOut(s, P), x))
<1>1. CASE P = {}
  BY <1>1, AppendFacts DEF TakenOut, Moved
<1>2. CASE P # {}
  <2>1. PICK p \in P : TakenOut(s, P) = RemoveAt(s, p)
    BY <1>2 DEF TakenOut
  <2> DEFINE r == RemoveAt(s, p)
  <2>2. /\ r \in Seq(S) /\ Len(r) = Len(s) - 1
        /\ \A i \in 1 .. Len(s) - 1 : r[i] = IF i < p THEN s[i] ELSE s[i + 1]
    BY RemoveAtFacts
  <2> HIDE DEF r
  <2>3. /\ Append(r, x) \in Seq(S) /\ Len(Append(r, x)) = Len(s)
        /\ Append(r, x)[Len(s)] = x
        /\ \A i \in 1 .. Len(s) - 1 : Append(r, x)[i] = r[i]
    BY <2>2, AppendFacts
  <2>4. Moved(s, P, x, Append(r, x))
    BY <2>2, <2>3, Zenon DEF Moved
  <2> QED BY <2>1, <2>3, <2>4, Zenon DEF r
<1> QED BY <1>1, <1>2

-----------------------------------------------------------------------------
LEMMA UsedFacts ==
  ASSUME uses \in Seq(Resolutions), Distinct(uses), NEW z \in Resolutions,
         NEW P, P = {i \in DOMAIN uses : uses[i] = z}
  PROVE  /\ Used(z) \in Seq(Resolutions)
         /\ Distinct(Used(z))
         /\ Moved(uses, P, z, Used(z))
<1> DEFINE w == Used(z)
<1>1. DOMAIN uses = 1 .. Len(uses) /\ Len(uses) \in Nat
  OBVIOUS
<1>2. P \in SUBSET (1 .. Len(uses)) /\ \A i \in 1 .. Len(uses) : i \in P <=> uses[i] = z
  BY <1>1
<1>3. w = Append(TakenOut(uses, P), z)
  BY DEF Used
<1> HIDE DEF w
<1>4. w \in Seq(Resolutions) /\ Moved(uses, P, z, w)
  BY <1>2, <1>3, MovedFacts
<1>5. ASSUME P = {}, Len(w) = Len(uses) + 1, w[Len(uses) + 1] = z,
             \A i \in 1 .. Len(uses) : w[i] = uses[i]
      PROVE  Distinct(w)
  BY <1>1, <1>2, <1>5 DEF Distinct
<1>6. ASSUME NEW p \in P, Len(w) = Len(uses), w[Len(uses)] = z,
             \A i \in 1 .. Len(uses) - 1 : w[i] = IF i < p THEN uses[i] ELSE uses[i + 1]
      PROVE  Distinct(w)
  <2> SUFFICES ASSUME NEW i \in 1 .. Len(w), NEW j \in 1 .. Len(w), w[i] = w[j], i < j
               PROVE  FALSE
    BY <1>1, <1>6 DEF Distinct
  <2> DEFINE from(k) == IF k < p THEN k ELSE k + 1
  <2>0. i \in 1 .. Len(uses) /\ j \in 1 .. Len(uses) /\ i < j
    BY <1>6, Zenon
  <2>1. p \in 1 .. Len(uses) /\ uses[p] = z
    BY <1>2
  <2>2. \A k \in 1 .. Len(uses) - 1 :
          w[k] = uses[from(k)] /\ from(k) \in 1 .. Len(uses) /\ from(k) # p
    BY <1>1, <1>6, <2>1
  <2>3. CASE j = Len(uses)
    <3>1. i \in 1 .. Len(uses) - 1 /\ w[i] = z
      BY <1>1, <1>6, <2>3
    <3> HIDE DEF from
    <3>2. from(i) \in 1 .. Len(uses) /\ from(i) # p /\ uses[from(i)] = uses[p]
      BY <2>1, <2>2, <3>1
    <3> QED BY <2>1, <3>2, Zenon DEF Distinct
  <2>4. CASE j # Len(uses)
    <3>1. i \in 1 .. Len(uses) - 1 /\ j \in 1 .. Len(uses) - 1
      <4>1. \A n \in Nat : \A a, b \in 1 .. n : a < b /\ b # n =>
              a \in 1 .. n - 1 /\ b \in 1 .. n - 1
        OBVIOUS
      <4> QED BY <1>1, <2>0, <2>4, <4>1, Zenon
    <3>2. from(i) # from(j)
      BY <1>1, <2>1, <3>1
    <3> HIDE DEF from
    <3>3. /\ from(i) \in 1 .. Len(uses) /\ from(j) \in 1 .. Len(uses)
          /\ uses[from(i)] = uses[from(j)]
      BY <2>2, <3>1
    <3> QED BY <3>2, <3>3, Zenon DEF Distinct
  <2> QED BY <2>3, <2>4
<1>7. Distinct(w)
  BY <1>4, <1>5, <1>6, Zenon DEF Moved
<1> QED BY <1>4, <1>7 DEF w

(* Moving one entry to the end of both keeps the cache in step with the    *)
(* uses: the oldest entry goes only when the use is new to the cache.      *)
LEMMA MirrorsMoved ==
  ASSUME NEW t \in Seq(Traces), NEW u \in Seq(Resolutions), Distinct(u), Mirrors(t, u),
         NEW e, NEW P, NEW Q,
         P = {i \in 1 .. Len(u) : u[i] = e.resolution},
         Q = {i \in 1 .. Len(t) : t[i].resolution = e.resolution},
         NEW m \in Seq(Traces), Moved(t, Q, e, m),
         NEW w \in Seq(Resolutions), Moved(u, P, e.resolution, w)
  PROVE  Mirrors(Newest(m, CacheLimit), w)
<1> DEFINE K == CacheLimit
           n == Newest(m, CacheLimit)
           d == Len(u) - Len(t)
<1>1. /\ Len(n) = IF Len(m) <= K THEN Len(m) ELSE K
      /\ \A i \in 1 .. Len(n) : n[i] = m[Len(m) - Len(n) + i]
  BY CacheLimitAssumption, NewestFacts
<1>2. /\ Len(t) = IF Len(u) <= K THEN Len(u) ELSE K
      /\ \A i \in 1 .. Len(t) : t[i].resolution = u[d + i]
  BY DEF Mirrors
<1>3. /\ K \in Nat /\ K > 0 /\ Len(m) \in Nat /\ Len(t) \in Nat /\ Len(u) \in Nat
      /\ d \in Nat /\ Len(w) \in Nat
      /\ d > 0 => Len(t) = K
  BY CacheLimitAssumption, <1>2
<1> SUFFICES /\ Len(n) = IF Len(w) <= K THEN Len(w) ELSE K
             /\ \A i \in 1 .. Len(n) : n[i].resolution = w[Len(w) - Len(n) + i]
  BY DEF Mirrors
<1> HIDE DEF K, n, d
<1>4. \A i \in 1 .. Len(t) : i \in Q <=> d + i \in P
  <2>1. \A i \in 1 .. Len(t) : d + i \in 1 .. Len(u)
    BY <1>3 DEF d
  <2> QED BY <1>2, <2>1
<1>5. CASE P = {} /\ Q = {}
  <2>1. /\ Len(w) = Len(u) + 1 /\ w[Len(u) + 1] = e.resolution
        /\ \A i \in 1 .. Len(u) : w[i] = u[i]
    BY <1>5 DEF Moved
  <2>2. /\ Len(m) = Len(t) + 1 /\ m[Len(t) + 1] = e
        /\ \A i \in 1 .. Len(t) : m[i] = t[i]
    BY <1>5 DEF Moved
  <2>3. Len(n) = IF Len(w) <= K THEN Len(w) ELSE K
    BY <1>1, <1>2, <1>3, <2>1, <2>2
  <2>4. ASSUME NEW i \in 1 .. Len(n) PROVE n[i].resolution = w[Len(w) - Len(n) + i]
    <3> DEFINE j == Len(m) - Len(n) + i
    <3>1. j \in 1 .. Len(t) + 1 /\ Len(w) - Len(n) + i = d + j
      BY <1>1, <1>3, <2>1, <2>2 DEF d
    <3>2. n[i] = m[j]
      BY <1>1
    <3> HIDE DEF j
    <3>3. CASE j \in 1 .. Len(t)
      <4>1. d + j \in 1 .. Len(u)
        BY <1>3, <3>3 DEF d
      <4> QED BY <1>2, <2>1, <2>2, <3>1, <3>2, <3>3, <4>1
    <3>4. CASE j = Len(t) + 1
      <4>1. d + j = Len(u) + 1
        BY <1>3, <3>4 DEF d
      <4> QED BY <2>1, <2>2, <3>1, <3>2, <3>4, <4>1
    <3> QED BY <1>3, <3>1, <3>3, <3>4
  <2> QED BY <2>3, <2>4
<1>6. CASE P # {} /\ Q = {}
  <2>1. PICK p \in P : /\ Len(w) = Len(u) /\ w[Len(u)] = e.resolution
                       /\ \A i \in 1 .. Len(u) - 1 : w[i] = IF i < p THEN u[i] ELSE u[i + 1]
    BY <1>6 DEF Moved
  <2>2. /\ Len(m) = Len(t) + 1 /\ m[Len(t) + 1] = e
        /\ \A i \in 1 .. Len(t) : m[i] = t[i]
    BY <1>6 DEF Moved
  <2>3. p \in 1 .. d
    <3>1. p \in 1 .. Len(u)
      OBVIOUS
    <3>2. ASSUME p > d PROVE FALSE
      <4>1. p - d \in 1 .. Len(t) /\ d + (p - d) = p
        BY <1>3, <3>1, <3>2 DEF d
      <4> QED BY <1>4, <1>6, <4>1
    <3> QED BY <1>3, <3>1, <3>2
  <2>4. Len(t) = K /\ Len(n) = K /\ Len(m) = K + 1 /\ Len(u) = d + K
    <3>1. d > 0
      BY <1>3, <2>3
    <3>2. Len(t) = K /\ Len(m) = K + 1
      BY <1>3, <2>2, <3>1
    <3>3. Len(n) = K
      BY <1>1, <1>3, <3>2
    <3>4. Len(u) = d + K
      BY <1>3, <3>2 DEF d
    <3> QED BY <3>2, <3>3, <3>4
  <2>5. ASSUME NEW i \in 1 .. K PROVE n[i].resolution = w[d + i]
    <3>1. n[i] = m[i + 1]
      <4>1. Len(m) - Len(n) + i = i + 1
        BY <1>3, <2>4
      <4> QED BY <1>1, <2>4, <4>1
    <3>2. CASE i = K
      BY <1>3, <2>1, <2>2, <2>4, <3>1, <3>2
    <3>3. CASE i # K
      <4>1. /\ i + 1 \in 1 .. Len(t) /\ d + i \in 1 .. Len(u) - 1 /\ ~(d + i < p)
            /\ d + (i + 1) = d + i + 1
        BY <1>3, <2>3, <2>4, <3>3
      <4>2. w[d + i] = u[d + i + 1]
        BY <2>1, <4>1
      <4>3. m[i + 1].resolution = u[d + i + 1]
        BY <1>2, <2>2, <4>1
      <4> QED BY <3>1, <4>2, <4>3
    <3> QED BY <3>2, <3>3
  <2>6. Len(w) - Len(n) = d /\ Len(n) = IF Len(w) <= K THEN Len(w) ELSE K
    BY <1>3, <2>1, <2>3, <2>4
  <2> QED BY <2>4, <2>5, <2>6
<1>7. CASE P # {} /\ Q # {}
  <2>1. PICK p \in P : /\ Len(w) = Len(u) /\ w[Len(u)] = e.resolution
                       /\ \A i \in 1 .. Len(u) - 1 : w[i] = IF i < p THEN u[i] ELSE u[i + 1]
    BY <1>7 DEF Moved
  <2>2. PICK q \in Q : /\ Len(m) = Len(t) /\ m[Len(t)] = e
                       /\ \A i \in 1 .. Len(t) - 1 : m[i] = IF i < q THEN t[i] ELSE t[i + 1]
    BY <1>7 DEF Moved
  <2>3. q \in 1 .. Len(t) /\ p = d + q
    <3>1. q \in 1 .. Len(t) /\ d + q \in P
      BY <1>4
    <3>2. \A i, j \in P : i = j
      BY DEF Distinct
    <3> QED BY <3>1, <3>2
  <2>4. Len(n) = Len(t) /\ Len(m) - Len(n) = 0 /\ Len(w) - Len(n) = d /\ Len(u) = d + Len(t)
    BY <1>1, <1>2, <1>3, <2>1, <2>2 DEF d
  <2>5. ASSUME NEW i \in 1 .. Len(t) PROVE n[i].resolution = w[d + i]
    <3>1. n[i] = m[i]
      <4>1. 0 + i = i
        OBVIOUS
      <4> QED BY <1>1, <2>4, <4>1
    <3>2. CASE i = Len(t)
      BY <2>1, <2>2, <2>4, <3>1, <3>2
    <3>3. CASE i # Len(t)
      <4>1. /\ i \in 1 .. Len(t) - 1 /\ i + 1 \in 1 .. Len(t)
            /\ d + i \in 1 .. Len(u) - 1 /\ (d + i < p <=> i < q)
            /\ d + (i + 1) = d + i + 1
        <5>1. /\ d \in Int /\ i \in Int /\ q \in Int /\ Len(t) \in Nat /\ d >= 0
              /\ p = d + q /\ Len(u) = d + Len(t) /\ 1 <= i /\ i < Len(t)
          BY <1>3, <2>3, <2>4, <3>3
        <5> QED BY <5>1
      <4> QED BY <1>2, <2>1, <2>2, <3>1, <4>1
    <3> QED BY <3>2, <3>3
  <2>6. Len(n) = IF Len(w) <= K THEN Len(w) ELSE K
    BY <1>2, <1>3, <2>1, <2>4
  <2> QED BY <2>4, <2>5, <2>6
<1>8. Q # {} => P # {}
  BY <1>4
<1> QED BY <1>5, <1>6, <1>7, <1>8

LEMMA GenuineMoved ==
  ASSUME NEW t \in Seq(Traces), Genuine(t), NEW e, NEW Q \in SUBSET (1 .. Len(t)),
         \E x \in Contexts : e.resolution = Resolution(e.rules, x),
         NEW m \in Seq(Traces), Moved(t, Q, e, m)
  PROVE  Genuine(Newest(m, CacheLimit))
<1>1. ASSUME NEW i \in 1 .. Len(m)
      PROVE  m[i] = e \/ \E j \in 1 .. Len(t) : m[i] = t[j]
  <2>1. Len(t) \in Nat
    OBVIOUS
  <2>2. CASE Q = {} /\ Len(m) = Len(t) + 1 /\ m[Len(t) + 1] = e /\ \A j \in 1 .. Len(t) : m[j] = t[j]
    BY <1>1, <2>1, <2>2
  <2>3. ASSUME NEW q \in Q, Len(m) = Len(t), m[Len(t)] = e,
               \A j \in 1 .. Len(t) - 1 : m[j] = IF j < q THEN t[j] ELSE t[j + 1]
        PROVE  m[i] = e \/ \E j \in 1 .. Len(t) : m[i] = t[j]
    <3>1. CASE i = Len(t)
      BY <2>3, <3>1
    <3>2. CASE i # Len(t)
      <4>1. i \in 1 .. Len(t) - 1 /\ i \in 1 .. Len(t) /\ i + 1 \in 1 .. Len(t)
        BY <1>1, <2>1, <2>3, <3>2
      <4>2. m[i] = t[i] \/ m[i] = t[i + 1]
        BY <2>3, <4>1
      <4> QED BY <4>1, <4>2
    <3> QED BY <3>1, <3>2
  <2> QED BY <2>2, <2>3, Zenon DEF Moved
<1> DEFINE n == Newest(m, CacheLimit)
<1>2. /\ Len(n) = IF Len(m) <= CacheLimit THEN Len(m) ELSE CacheLimit
      /\ \A i \in 1 .. Len(n) : n[i] = m[Len(m) - Len(n) + i]
  BY CacheLimitAssumption, NewestFacts
<1> HIDE DEF n
<1>3. \A i \in 1 .. Len(n) : \E j \in 1 .. Len(m) : n[i] = m[j]
  <2>1. \A i \in 1 .. Len(n) : Len(m) - Len(n) + i \in 1 .. Len(m)
    BY <1>2, CacheLimitAssumption
  <2> QED BY <1>2, <2>1
<1>4. ASSUME NEW i \in 1 .. Len(n)
      PROVE  \E x \in Contexts : n[i].resolution = Resolution(n[i].rules, x)
  <2>1. n[i] = e \/ \E j \in 1 .. Len(t) : n[i] = t[j]
    BY <1>1, <1>3, <1>4
  <2> QED BY <2>1 DEF Genuine
<1> QED BY <1>4 DEF Genuine, n

LEMMA RegisteredKeeps ==
  ASSUME CacheInv, NEW c \in Catalogues, NEW x \in Contexts, NEW z, z = Resolution(c, x),
         traces' = Registered(z, c), uses' = Used(z)
  PROVE  CacheInv'
<1> DEFINE e == [resolution |-> z, rules |-> c]
           P == {i \in DOMAIN uses : uses[i] = z}
           Q == {i \in DOMAIN traces : traces[i].resolution = z}
           m == Append(TakenOut(traces, Q), e)
<1>1. /\ traces \in Seq(Traces) /\ uses \in Seq(Resolutions) /\ Distinct(uses)
      /\ Mirrors(traces, uses) /\ Genuine(traces)
  BY DEF CacheInv
<1>2. DOMAIN uses = 1 .. Len(uses) /\ DOMAIN traces = 1 .. Len(traces)
  BY <1>1
<1>3. z \in Resolutions /\ e \in Traces /\ e.resolution = z /\ e.rules = c
  BY DEF Resolutions, Traces
<1>4. /\ P = {i \in 1 .. Len(uses) : uses[i] = e.resolution}
      /\ Q = {i \in 1 .. Len(traces) : traces[i].resolution = e.resolution}
      /\ Q \in SUBSET (1 .. Len(traces))
  BY <1>2, <1>3
<1>5. traces' = Newest(m, CacheLimit)
  BY DEF Registered, Without
<1> HIDE DEF e
<1>6. uses' \in Seq(Resolutions) /\ Distinct(uses') /\ Moved(uses, P, e.resolution, uses')
  BY <1>1, <1>3, UsedFacts
<1> HIDE DEF P, Q
<1>7. m \in Seq(Traces) /\ Moved(traces, Q, e, m)
  BY <1>1, <1>3, <1>4, MovedFacts
<1> HIDE DEF m
<1>8. traces' \in Seq(Traces)
  BY <1>5, <1>7, NewestFacts, CacheLimitAssumption
<1>9. Mirrors(traces', uses')
  BY <1>1, <1>4, <1>5, <1>6, <1>7, MirrorsMoved
<1>10. Genuine(traces')
  BY <1>1, <1>3, <1>4, <1>5, <1>7, GenuineMoved
<1> QED BY <1>6, <1>8, <1>9, <1>10 DEF CacheInv, Mirrors, Genuine, Distinct

(* Using an entry is registering it again.                                 *)
LEMMA TouchedIsRegistered ==
  ASSUME CacheInv, NEW z, Holds(z)
  PROVE  /\ \E x \in Contexts : z = Resolution(Entry(z).rules, x)
         /\ Entry(z) \in Traces /\ Entry(z).resolution = z
         /\ Touched(z) = Registered(z, Entry(z).rules)
<1>1. /\ traces \in Seq(Traces) /\ Mirrors(traces, uses) /\ Genuine(traces)
      /\ uses \in Seq(Resolutions)
  BY DEF CacheInv
<1>2. PICK i \in 1 .. Len(traces) : Entry(z) = traces[i] /\ traces[i].resolution = z
  <2>1. DOMAIN traces = 1 .. Len(traces)
    BY <1>1
  <2> QED BY <2>1 DEF Holds, Entry
<1>3. Entry(z) \in Traces /\ Entry(z).resolution = z
  BY <1>1, <1>2
<1>4. \E x \in Contexts : z = Resolution(Entry(z).rules, x)
  BY <1>1, <1>2 DEF Genuine
<1> DEFINE e == Entry(z)
           Q == {j \in DOMAIN traces : traces[j].resolution = z}
           m == Append(TakenOut(traces, Q), e)
<1>5. e = [resolution |-> z, rules |-> e.rules]
  BY <1>3 DEF Traces
<1>6. i \in Q /\ Q \in SUBSET (1 .. Len(traces))
  BY <1>1, <1>2
<1> HIDE DEF e, Q
<1>7. m \in Seq(Traces) /\ Moved(traces, Q, e, m)
  BY <1>1, <1>3, <1>6, MovedFacts DEF e
<1>8. Len(m) = Len(traces)
  BY <1>6, <1>7 DEF Moved
<1>9. Len(m) <= CacheLimit
  BY <1>1, <1>8, CacheLimitAssumption DEF Mirrors
<1>10. Newest(m, CacheLimit) = m
  BY <1>9 DEF Newest
<1>11. Touched(z) = m
  BY DEF Touched, Without, e, Q
<1>12. Registered(z, e.rules) = Newest(m, CacheLimit)
  BY <1>5 DEF Registered, Without, Q
<1> QED BY <1>3, <1>4, <1>10, <1>11, <1>12 DEF e

LEMMA CacheNext ==
  ASSUME CacheInv, [RuleNext]_ruleVars
  PROVE  CacheInv'
<1>1. ASSUME UNCHANGED <<traces, uses>> PROVE CacheInv'
  BY <1>1 DEF CacheInv, Mirrors, Genuine, Distinct
<1>2. ASSUME NEW c \in Catalogues, NEW x \in Contexts, ResolveRule(c, x) PROVE CacheInv'
  BY <1>2, RegisteredKeeps DEF ResolveRule
<1>3. ASSUME NEW i \in DOMAIN traces, NEW c \in Catalogues, NEW v \in Environments,
             EvaluateResolvedRule(traces[i].resolution, c, v)
      PROVE  CacheInv'
  <2> DEFINE z == traces[i].resolution
  <2>1. Holds(z)
    BY DEF Holds
  <2>2. traces' = Touched(z) /\ uses' = Used(z)
    BY <1>3, <2>1 DEF EvaluateResolvedRule
  <2> HIDE DEF z
  <2>3. PICK x \in Contexts : z = Resolution(Entry(z).rules, x)
    BY <2>1, TouchedIsRegistered
  <2>4. traces' = Registered(z, Entry(z).rules) /\ Entry(z).rules \in Catalogues
    BY <2>1, <2>2, TouchedIsRegistered DEF Traces
  <2> QED BY <2>2, <2>3, <2>4, RegisteredKeeps
<1>4. CASE Restart
  <2>1. traces' = << >> /\ uses' = << >> /\ Len(<< >>) = 0
    BY <1>4 DEF Restart
  <2>2. \A i \in 1 .. 0 : FALSE
    OBVIOUS
  <2> QED BY <2>1, <2>2, CacheLimitAssumption DEF CacheInv, Mirrors, Genuine, Distinct
<1> QED BY <1>1, <1>2, <1>3, <1>4 DEF RuleNext, ruleVars, EvaluateUnknown, RejectCatalogue

LEMMA CacheSafety == RuleSpec => []CacheInv
<1>1. RuleInit => CacheInv
  <2> SUFFICES ASSUME RuleInit PROVE CacheInv
    OBVIOUS
  <2>1. traces = << >> /\ uses = << >> /\ Len(<< >>) = 0
    BY DEF RuleInit
  <2>2. \A i \in 1 .. 0 : FALSE
    OBVIOUS
  <2> QED BY <2>1, <2>2, CacheLimitAssumption DEF CacheInv, Mirrors, Genuine, Distinct
<1>2. CacheInv /\ [RuleNext]_ruleVars => CacheInv'
  BY CacheNext
<1> QED BY <1>1, <1>2, PTL DEF RuleSpec

(* However resolving, evaluating and restarting alternate, _TRACES holds   *)
(* exactly the _CACHE_LIMIT resolutions most recently made or evaluated.   *)
THEOREM RecentlyUsedKept == RuleSpec => []RecentlyUsedAccepted
<1>1. CacheInv => RecentlyUsedAccepted
  <2> SUFFICES ASSUME CacheInv PROVE RecentlyUsedAccepted
    OBVIOUS
  <2> DEFINE n == Newest(uses, CacheLimit)
  <2>1. traces \in Seq(Traces) /\ uses \in Seq(Resolutions) /\ Mirrors(traces, uses)
    BY DEF CacheInv
  <2>2. /\ n \in Seq(Resolutions)
        /\ Len(n) = IF Len(uses) <= CacheLimit THEN Len(uses) ELSE CacheLimit
        /\ \A i \in 1 .. Len(n) : n[i] = uses[Len(uses) - Len(n) + i]
    BY <2>1, NewestFacts, CacheLimitAssumption
  <2> HIDE DEF n
  <2>3. /\ DOMAIN n = 1 .. Len(n) /\ DOMAIN traces = 1 .. Len(n)
        /\ \A i \in 1 .. Len(n) : n[i] = traces[i].resolution
    BY <2>1, <2>2 DEF Mirrors
  <2>4. {traces[i].resolution : i \in DOMAIN traces} = {n[i] : i \in DOMAIN n}
    BY <2>3
  <2> QED BY <2>4 DEF RecentlyUsedAccepted, ToSet, n
<1> QED BY <1>1, CacheSafety, PTL

-----------------------------------------------------------------------------
(* The ordering of rules: a first place decides, or there is none.         *)
NumberedRule(r) == r.priority \in Int /\ r.from \in Int /\ r.version \in Int
Scoped(r, i) == IF Dimensions[i] \in DOMAIN r.scope THEN 1 ELSE 0

LEMMA OrderingAt ==
  ASSUME NEW r, NumberedRule(r)
  PROVE  /\ \A i \in 1 .. 6 : Ordering(r)[i] = Scoped(r, i)
         /\ Ordering(r)[7] = r.priority /\ Ordering(r)[8] = r.from /\ Ordering(r)[9] = r.version
         /\ \A i \in 1 .. 9 : Ordering(r)[i] \in Int
<1> DEFINE a == [i \in 1 .. 6 |-> Scoped(r, i)]
           b == <<r.priority, r.from, r.version>>
<1>1. a \in Seq(Int) /\ Len(a) = 6
  BY DEF Scoped
<1>2. b \in Seq(Int) /\ Len(b) = 3
  BY DEF NumberedRule
<1>3. Ordering(r) = a \o b
  BY DEF Ordering, Scoped
<1>4. \A i \in 1 .. 9 : (a \o b)[i] = IF i <= 6 THEN a[i] ELSE b[i - 6]
  BY <1>1, <1>2, ConcatProperties
<1>5. \A i \in 1 .. 6 : (a \o b)[i] = Scoped(r, i)
  BY <1>4
<1>6. (a \o b)[7] = r.priority /\ (a \o b)[8] = r.from /\ (a \o b)[9] = r.version
  BY <1>4
<1>7. ASSUME NEW i \in 1 .. 9 PROVE (a \o b)[i] \in Int
  BY <1>5, <1>6 DEF Scoped, NumberedRule
<1> QED BY <1>3, <1>5, <1>6, <1>7

(* Two of nine numbers each: the first difference, or all are equal.       *)
LEMMA FirstDifference ==
  ASSUME NEW a, NEW b, \A i \in 1 .. 9 : a[i] \in Int /\ b[i] \in Int
  PROVE  Precedes(a, b) \/ Precedes(b, a) \/ \A i \in 1 .. 9 : a[i] = b[i]
<1>1. ASSUME NEW k \in 1 .. 9, a[k] # b[k], \A j \in 1 .. k - 1 : a[j] = b[j]
      PROVE  Precedes(a, b) \/ Precedes(b, a)
  BY <1>1 DEF Precedes
<1>2. ASSUME \A k \in 1 .. 9 : (\A j \in 1 .. k - 1 : a[j] = b[j]) => a[k] = b[k]
      PROVE  \A i \in 1 .. 9 : a[i] = b[i]
  <2>1. a[1] = b[1]
    BY <1>2
  <2>2. a[2] = b[2]
    BY <1>2, <2>1
  <2>3. a[3] = b[3]
    BY <1>2, <2>1, <2>2
  <2>4. a[4] = b[4]
    BY <1>2, <2>1, <2>2, <2>3
  <2>5. a[5] = b[5]
    BY <1>2, <2>1, <2>2, <2>3, <2>4
  <2>6. a[6] = b[6]
    BY <1>2, <2>1, <2>2, <2>3, <2>4, <2>5
  <2>7. a[7] = b[7]
    BY <1>2, <2>1, <2>2, <2>3, <2>4, <2>5, <2>6
  <2>8. a[8] = b[8]
    BY <1>2, <2>1, <2>2, <2>3, <2>4, <2>5, <2>6, <2>7
  <2>9. a[9] = b[9]
    BY <1>2, <2>1, <2>2, <2>3, <2>4, <2>5, <2>6, <2>7, <2>8
  <2> QED BY <2>1, <2>2, <2>3, <2>4, <2>5, <2>6, <2>7, <2>8, <2>9
<1> QED BY <1>1, <1>2

LEMMA PrecedesMeansAppliesBefore ==
  ASSUME NEW r, NEW s, NumberedRule(r), NumberedRule(s), Precedes(Ordering(r), Ordering(s))
  PROVE  AppliesBefore(r, s)
<1> DEFINE only == {i \in 1 .. 6 : ~(Dimensions[i] \in DOMAIN r.scope <=> Dimensions[i] \in DOMAIN s.scope)}
           first == CHOOSE i \in only : \A j \in only : i <= j
<1>1. PICK i \in 1 .. 9 : /\ Ordering(r)[i] > Ordering(s)[i]
                          /\ \A j \in 1 .. (i - 1) : Ordering(r)[j] = Ordering(s)[j]
  BY DEF Precedes
<1>2. \A j \in 1 .. 6 : j \in only <=> Ordering(r)[j] # Ordering(s)[j]
  <2> SUFFICES ASSUME NEW j \in 1 .. 6
               PROVE  j \in only <=> Ordering(r)[j] # Ordering(s)[j]
    OBVIOUS
  <2>1. Ordering(r)[j] = Scoped(r, j) /\ Ordering(s)[j] = Scoped(s, j)
    BY OrderingAt
  <2>2. Scoped(r, j) # Scoped(s, j) <=>
          ~((Dimensions[j] \in DOMAIN r.scope) <=> (Dimensions[j] \in DOMAIN s.scope))
    BY DEF Scoped
  <2> QED BY <2>1, <2>2, Zenon
<1>3. CASE i <= 6
  <2>1. i \in only /\ \A j \in only : i <= j
    BY <1>1, <1>2, <1>3, OrderingAt
  <2>2. first = i
    BY <2>1
  <2>3. Dimensions[i] \in DOMAIN r.scope
    BY <1>1, <1>3, OrderingAt DEF Scoped
  <2> QED BY <2>1, <2>2, <2>3, Zenon DEF AppliesBefore
<1>4. CASE ~(i <= 6)
  <2>1. only = {}
    BY <1>1, <1>2, <1>4
  <2>2. \/ r.priority > s.priority
        \/ r.priority = s.priority /\ r.from > s.from
        \/ r.priority = s.priority /\ r.from = s.from /\ r.version > s.version
    <3>1. i = 7 \/ i = 8 \/ i = 9
      BY <1>4
    <3> QED BY <1>1, <3>1, OrderingAt
  <2> QED BY <2>1, <2>2, Zenon DEF AppliesBefore
<1> QED BY <1>3, <1>4

-----------------------------------------------------------------------------
(* A resolution that selects a rule: the only best one, without overlap.   *)
LEMMA SelectedIsBest ==
  ASSUME NEW c \in Catalogues, NEW x \in Contexts, NEW z, z = Resolution(c, x),
         z.selected # None \/ z.state = "VALID"
  PROVE  /\ z.context = x
         /\ ~Overlapping(Eligible(c, x))
         /\ Best(Eligible(c, x)) = {z.selected}
<1> DEFINE e == Eligible(c, x)
           outcome(state, diagnostic, rule) ==
             [context |-> x, candidates |-> c, state |-> state, diagnostic |-> diagnostic,
              selected |-> rule]
<1> HIDE DEF e
<1>1. z.context = x
  <2>1. \E state, diagnostic, rule : z = outcome(state, diagnostic, rule)
    BY DEF Resolution, e
  <2> QED BY <2>1
<1>2. CASE Overlapping(e)
  <2>1. z = outcome("CONFLICT", "RULE_EXCLUSIVITY_OVERLAP", None)
    BY <1>2 DEF Resolution, e
  <2> QED BY <2>1
<1>3. CASE ~Overlapping(e) /\ e = {}
  <2>1. \E diagnostic : z = outcome("BLOCKED", diagnostic, None)
    BY <1>3 DEF Resolution, e
  <2> QED BY <2>1
<1>4. CASE ~Overlapping(e) /\ e # {} /\ Cardinality(Best(e)) # 1
  <2>1. z = outcome("CONFLICT", "RULE_RESOLUTION_TIE", None)
    BY <1>4 DEF Resolution, e
  <2> QED BY <2>1
<1>5. CASE ~Overlapping(e) /\ e # {} /\ Cardinality(Best(e)) = 1
  <2>1. z = outcome("VALID", None, CHOOSE r \in Best(e) : TRUE)
    BY <1>5 DEF Resolution, e
  <2>2. IsFiniteSet(Best(e))
    <3>1. Best(e) \subseteq c /\ IsFiniteSet(c)
      BY CataloguesAssumption DEF Best, Eligible, e
    <3> QED BY <3>1, FS_Subset
  <2>3. PICK r : Best(e) = {r}
    BY <1>5, <2>2, FS_Singleton
  <2>4. z.selected = r
    BY <2>1, <2>3
  <2> QED BY <1>1, <1>5, <2>3, <2>4 DEF e
<1> QED BY <1>2, <1>3, <1>4, <1>5

(* A rule that applies in a context, and the one that applies before all.  *)
Applies(s, x) ==
  /\ s.organization = x.organization
  /\ s.status \in Approved
  /\ s.from <= x.instant /\ (s.to # None => x.instant < s.to)
  /\ \A d \in DOMAIN s.scope : s.scope[d] = x.scope[d]
Current(r, x, c) ==
  /\ r \in c
  /\ Applies(r, x)
  /\ \A s \in c \ {r} :
       Applies(s, x) => /\ AppliesBefore(r, s)
                        /\ r.exclusivity = None \/ r.exclusivity # s.exclusivity

LEMMA EligibleApplies ==
  ASSUME NEW c \in Catalogues, NEW x \in Contexts, NEW s \in c
  PROVE  s \in Eligible(c, x) <=> Applies(s, x)
<1>1. s.from \in Int /\ x.instant \in Int /\ (s.to # None => s.to \in Int)
  BY CataloguesAssumption, ContextsAssumption
<1>2. s \in Eligible(c, x) <=>
        /\ "ORGANIZATION" \notin Exclusions(s, x) /\ "STATUS" \notin Exclusions(s, x)
        /\ "VALIDITY" \notin Exclusions(s, x) /\ "SCENARIO" \notin Exclusions(s, x)
        /\ "SCOPE" \notin Exclusions(s, x)
  <2>1. Exclusions(s, x) \subseteq {"ORGANIZATION", "STATUS", "VALIDITY", "SCENARIO", "SCOPE"}
    BY DEF Exclusions
  <2>2. s \in Eligible(c, x) <=> Exclusions(s, x) = {}
    BY DEF Eligible
  <2> QED BY <2>1, <2>2
<1>3. "ORGANIZATION" \notin Exclusions(s, x) <=> s.organization = x.organization
  BY DEF Exclusions
<1>4. "STATUS" \notin Exclusions(s, x) <=> s.status \in Approved
  BY DEF Exclusions
<1>5. "VALIDITY" \notin Exclusions(s, x) <=>
        s.from <= x.instant /\ (s.to # None => x.instant < s.to)
  <2>1. "VALIDITY" \in Exclusions(s, x) <=>
          x.instant < s.from \/ (s.to # None /\ x.instant >= s.to)
    BY DEF Exclusions
  <2> QED BY <1>1, <2>1
<1>6. "SCENARIO" \notin Exclusions(s, x) <=>
        ("scenario" \in DOMAIN s.scope => s.scope["scenario"] = x.scope["scenario"])
  BY DEF Exclusions
<1>7. "SCOPE" \notin Exclusions(s, x) <=>
        \A d \in DOMAIN s.scope \ {"scenario"} : s.scope[d] = x.scope[d]
  BY DEF Exclusions
<1> QED BY <1>2, <1>3, <1>4, <1>5, <1>6, <1>7 DEF Applies

LEMMA SelectedIsCurrent ==
  ASSUME NEW c \in Catalogues, NEW x \in Contexts, NEW z, z = Resolution(c, x),
         z.selected # None \/ z.state = "VALID"
  PROVE  z.context = x /\ Current(z.selected, x, c)
<1> DEFINE e == Eligible(c, x)
           r == z.selected
<1>1. z.context = x /\ ~Overlapping(e) /\ Best(e) = {r}
  BY SelectedIsBest
<1>2. \A s : s \in e => s \in c /\ NumberedRule(s)
  BY CataloguesAssumption DEF Eligible, NumberedRule
<1>3. \A s \in c : s \in e <=> Applies(s, x)
  BY EligibleApplies
<1> HIDE DEF e, r
<1>4. r \in e /\ \A s \in e : ~Precedes(Ordering(s), Ordering(r))
  BY <1>1 DEF Best
<1>5. ASSUME NEW s \in e, s # r PROVE AppliesBefore(r, s)
  <2>1. s \notin Best(e)
    BY <1>1, <1>5
  <2>2. PICK q \in e : Precedes(Ordering(q), Ordering(s))
    BY <1>5, <2>1 DEF Best
  <2>3. CASE \A i \in 1 .. 9 : Ordering(r)[i] = Ordering(s)[i]
    <3>1. Precedes(Ordering(q), Ordering(r))
      BY <2>2, <2>3 DEF Precedes
    <3> QED BY <1>4, <3>1
  <2>4. CASE Precedes(Ordering(r), Ordering(s))
    BY <1>2, <1>4, <1>5, <2>4, PrecedesMeansAppliesBefore
  <2>5. \A i \in 1 .. 9 : Ordering(r)[i] \in Int /\ Ordering(s)[i] \in Int
    BY <1>2, <1>4, <1>5, OrderingAt
  <2> QED BY <1>4, <2>3, <2>4, <2>5, FirstDifference
<1>6. ASSUME NEW s \in e, s # r PROVE r.exclusivity = None \/ r.exclusivity # s.exclusivity
  BY <1>1, <1>4, <1>6 DEF Overlapping
<1>7. Current(r, x, c)
  BY <1>2, <1>3, <1>4, <1>5, <1>6 DEF Current
<1> QED BY <1>1, <1>7 DEF r

-----------------------------------------------------------------------------
(* No evaluation yields VALID with a resolution that the catalogue given   *)
(* with the call would not produce again: evaluate_resolved_rule trusts    *)
(* a resolution only together with the catalogue it was made from.         *)
THEOREM EvaluatedStaysCurrent == RuleSpec => []EvaluatedIsCurrent
<1>1. RuleInit => last.call # "evaluate"
  BY DEF RuleInit, Raised
<1>2. RuleInit => EvaluatedIsCurrent
  BY <1>1 DEF EvaluatedIsCurrent
<1>3. CacheInv /\ EvaluatedIsCurrent /\ [RuleNext]_ruleVars => EvaluatedIsCurrent'
  <2> SUFFICES ASSUME CacheInv, EvaluatedIsCurrent, [RuleNext]_ruleVars
               PROVE  EvaluatedIsCurrent'
    OBVIOUS
  <2>1. ASSUME last' = last PROVE EvaluatedIsCurrent'
    BY <2>1 DEF EvaluatedIsCurrent
  <2>2. ASSUME last'.call # "evaluate" PROVE EvaluatedIsCurrent'
    BY <2>2 DEF EvaluatedIsCurrent
  <2>3. \A why : Raised(why).call = "raised"
    BY DEF Raised
  <2>4. ASSUME NEW i \in DOMAIN traces, NEW c \in Catalogues, NEW v \in Environments,
               EvaluateResolvedRule(traces[i].resolution, c, v)
        PROVE  EvaluatedIsCurrent'
    <3> DEFINE z == traces[i].resolution
    <3>1. CASE ~Trusted(z, c)
      BY <2>2, <2>3, <2>4, <3>1 DEF EvaluateResolvedRule
    <3>2. CASE Trusted(z, c) /\ last'.call = "evaluate" /\ last'.state = "VALID"
      <4>1. Holds(z) /\ Entry(z).rules = c
        BY <3>2 DEF Trusted
      <4>2. /\ last'.resolution = z /\ last'.rules = c
            /\ z.selected # None \/ z.state = "VALID"
        <5> HIDE DEF z
        <5>1. \/ last' = Raised("EXPRESSION")
              \/ /\ z.selected = None
                 /\ last' = [call |-> "evaluate", resolution |-> z, rules |-> c, state |-> z.state]
              \/ /\ z.selected # None
                 /\ last' = [call |-> "evaluate", resolution |-> z, rules |-> c,
                             state |-> RuleState(z.selected, v)]
          BY <2>4, <3>2 DEF EvaluateResolvedRule, z
        <5> QED BY <2>3, <3>2, <5>1
      <4> HIDE DEF z
      <4>3. PICK x \in Contexts : z = Resolution(c, x)
        BY <4>1, TouchedIsRegistered
      <4>4. z.context = x /\ Current(z.selected, x, c)
        BY <4>2, <4>3, SelectedIsCurrent
      <4>5. Current(last'.resolution.selected, last'.resolution.context, last'.rules)
        BY <4>2, <4>4
      <4> QED BY <4>5 DEF EvaluatedIsCurrent, Current, Applies
    <3>3. CASE ~(last'.call = "evaluate" /\ last'.state = "VALID")
      BY <3>3 DEF EvaluatedIsCurrent
    <3> QED BY <3>1, <3>2, <3>3
  <2>5. ASSUME NEW c \in Catalogues, NEW x \in Contexts, ResolveRule(c, x)
        PROVE  EvaluatedIsCurrent'
    BY <2>2, <2>5 DEF ResolveRule
  <2>6. CASE \E c \in Catalogues : EvaluateUnknown(c) \/ RejectCatalogue(c)
    BY <2>2, <2>3, <2>6 DEF EvaluateUnknown, RejectCatalogue
  <2>7. CASE Restart
    BY <2>2, <2>3, <2>7 DEF Restart
  <2> QED BY <2>1, <2>4, <2>5, <2>6, <2>7 DEF RuleNext, ruleVars
<1> QED BY <1>2, <1>3, CacheSafety, PTL DEF RuleSpec
-----------------------------------------------------------------------------
(* Numbers.                                                                *)
LEMMA NumbersClosed ==
  ASSUME NEW a \in Numbers, NEW b \in Numbers
  PROVE  /\ Plus(a, b) \in Numbers /\ Minus(a, b) \in Numbers /\ Times(a, b) \in Numbers
<1>1. a[2] * b[2] \in Nat \ {0}
  BY DEF Numbers
<1> QED BY <1>1 DEF Numbers, Plus, Minus, Times

LEMMA NumberType == \A n \in Int : Number(n) \in Numbers
BY DEF Number, Numbers

LEMMA TimesOne ==
  ASSUME NEW a \in Numbers PROVE Times(Number(1), a) = a /\ Plus(Number(0), a) = a
BY DEF Numbers, Number, Times, Plus

LEMMA MinusIsPlus ==
  ASSUME NEW a \in Numbers, NEW b \in Numbers
  PROVE  Plus(a, Times(Number(-1), b)) = Minus(a, b)
BY DEF Numbers, Number, Times, Plus, Minus

LEMMA TimesCommutes ==
  ASSUME NEW a \in Numbers, NEW b \in Numbers
  PROVE  Times(a, b) = Times(b, a)
BY DEF Numbers, Times

LEMMA WholeMinus ==
  ASSUME NEW a \in Numbers, NEW b \in Numbers, a[2] = 1, b[2] = 1
  PROVE  Minus(a, b) = Number(a[1] - b[1])
BY DEF Numbers, Number, Plus, Minus

LEMMA QuantizedType ==
  ASSUME NEW a \in Numbers, NEW mode, NEW scale \in Nat \ {0}
  PROVE  /\ Quantized(a, mode, scale) \in Numbers
         /\ Quantized(a, mode, scale)[2] = scale
         /\ a[1] >= 0 => Quantized(a, mode, scale)[1] >= 0
<1> DEFINE n == a[1] * scale
           floor == n \div a[2]
           z == Quantized(a, mode, scale)
<1>1. n \in Int /\ a[2] \in Nat \ {0} /\ (a[1] >= 0 => n >= 0)
  BY DEF Numbers
<1> HIDE DEF n
<1>2. floor \in Int /\ (n >= 0 => floor >= 0)
  BY <1>1
<1> HIDE DEF floor
<1>3. \E up \in BOOLEAN : z = <<IF up THEN floor + 1 ELSE floor, scale>>
  BY DEF Quantized, floor, n
<1> HIDE DEF z
<1> QED BY <1>1, <1>2, <1>3 DEF Numbers, z

LEMMA QuantizedZero ==
  ASSUME NEW a \in Numbers, a[1] = 0, NEW scale \in Nat \ {0},
         NEW mode \in {"FLOOR", "CEILING", "DOWN", "UP", "HALF_UP", "HALF_EVEN"}
  PROVE  Quantized(a, mode, scale)[1] = 0
<1>1. a[2] \in Nat \ {0} /\ a[1] * scale = 0
  BY DEF Numbers
<1>2. 0 \div a[2] = 0 /\ 0 % a[2] = 0
  BY <1>1
<1> DEFINE n == a[1] * scale
           floor == n \div a[2]
           rest == n % a[2]
<1>3. n = 0 /\ floor = 0 /\ rest = 0 /\ ~(2 * rest > a[2]) /\ ~(2 * rest = a[2])
  BY <1>1, <1>2
<1> HIDE DEF n, floor, rest
<1>4. \E up \in BOOLEAN :
        /\ Quantized(a, mode, scale) = <<IF up THEN floor + 1 ELSE floor, scale>>
        /\ up => rest > 0 \/ 2 * rest > a[2] \/ 2 * rest = a[2]
  BY DEF Quantized, n, floor, rest
<1> QED BY <1>3, <1>4
-----------------------------------------------------------------------------
(* Sums.  SumOf is a recursive function; that it exists and ranges over    *)
(* the numbers is shown by induction, with sets in place of predicates.    *)
LEMMA UptoInduction ==
  ASSUME NEW n \in Nat, NEW T, 0 \in T, \A i \in 1 .. n : i - 1 \in T => i \in T
  PROVE  \A i \in 0 .. n : i \in T
<1> DEFINE S == {i \in Nat : i <= n /\ i \notin T}
           R == OpToRel(<, Nat)
<1> SUFFICES ASSUME S # {} PROVE FALSE
  OBVIOUS
<1>1. IsWellFoundedOn(R, Nat)
  BY NatLessThanWellFounded
<1>2. PICK m \in S : \A y \in S : ~(<<y, m>> \in R)
  <2> HIDE DEF R
  <2> QED BY <1>1, WFMin
<1>3. \A y \in S : ~(y < m)
  BY <1>2 DEF OpToRel
<1>4. m # 0 /\ m \in 1 .. n /\ m - 1 \in Nat /\ m - 1 < m
  OBVIOUS
<1>5. m - 1 \in T
  BY <1>3, <1>4
<1> QED BY <1>4, <1>5

AddsUp(f, values) ==
  /\ f \in [0 .. Len(values) -> Numbers]
  /\ f[0] = Number(0)
  /\ \A i \in 1 .. Len(values) : f[i] = Plus(f[i - 1], values[i])

LEMMA SumExists ==
  ASSUME NEW values \in Seq(Numbers)
  PROVE  \E f : AddsUp(f, values)
<1> DEFINE n == Len(values)
           Upto(f, m) == /\ f \in [0 .. m -> Numbers] /\ f[0] = Number(0)
                         /\ \A i \in 1 .. m : f[i] = Plus(f[i - 1], values[i])
           T == {m \in 0 .. n : \E f : Upto(f, m)}
<1>1. n \in Nat /\ \A i \in 1 .. n : values[i] \in Numbers
  OBVIOUS
<1> HIDE DEF n
<1>2. 0 \in T
  <2>1. Upto([i \in 0 .. 0 |-> Number(0)], 0)
    BY NumberType
  <2> HIDE DEF Upto
  <2>2. \E f : Upto(f, 0)
    BY <2>1
  <2> QED BY <1>1, <2>2
<1>3. ASSUME NEW m \in 1 .. n, m - 1 \in T PROVE m \in T
  <2>1. PICK f : Upto(f, m - 1)
    BY <1>3
  <2>2. PICK v \in Numbers : v = Plus(f[m - 1], values[m])
    BY <1>1, <2>1, NumbersClosed
  <2> DEFINE g == [i \in 0 .. m |-> IF i < m THEN f[i] ELSE v]
  <2>3. g \in [0 .. m -> Numbers] /\ g[0] = Number(0)
    BY <1>1, <2>1
  <2>4. \A i \in 0 .. m - 1 : g[i] = f[i]
    BY <1>1
  <2>5. g[m] = v
    BY <1>1
  <2> HIDE DEF g
  <2>6. ASSUME NEW i \in 1 .. m PROVE g[i] = Plus(g[i - 1], values[i])
    <3>1. CASE i = m
      BY <1>1, <2>2, <2>4, <2>5, <3>1
    <3>2. CASE i # m
      <4>1. i \in 1 .. m - 1 /\ i \in 0 .. m - 1 /\ i - 1 \in 0 .. m - 1
        BY <1>1, <3>2
      <4> QED BY <2>1, <2>4, <4>1
    <3> QED BY <3>1, <3>2
  <2>7. Upto(g, m)
    BY <2>3, <2>6
  <2> QED BY <2>7
<1> HIDE DEF T
<1>4. n \in T
  <2>1. \A m \in 1 .. n : m - 1 \in T => m \in T
    BY <1>3
  <2>2. \A m \in 0 .. n : m \in T
    BY <1>1, <1>2, <2>1, UptoInduction
  <2> QED BY <1>1, <2>2
<1> QED BY <1>4 DEF T, AddsUp, n

LEMMA SumSteps ==
  ASSUME NEW values \in Seq(Numbers)
  PROVE  \E f : AddsUp(f, values) /\ SumOf(values) = f[Len(values)]
<1> DEFINE n == Len(values)
           sum[i \in 0 .. Len(values)] == IF i = 0 THEN Number(0) ELSE Plus(sum[i - 1], values[i])
<1>1. SumOf(values) = sum[n]
  BY DEF SumOf
<1>2. PICK f : AddsUp(f, values)
  BY SumExists
<1>3. f = [i \in 0 .. n |-> IF i = 0 THEN Number(0) ELSE Plus(f[i - 1], values[i])]
  BY <1>2 DEF AddsUp
<1>4. sum = [i \in 0 .. n |-> IF i = 0 THEN Number(0) ELSE Plus(sum[i - 1], values[i])]
  BY <1>3
<1> HIDE DEF sum
<1>5. n \in Nat /\ \A i \in 1 .. n : values[i] \in Numbers
  OBVIOUS
<1> HIDE DEF n
<1>6. sum[0] = Number(0) /\ \A i \in 1 .. n : sum[i] = Plus(sum[i - 1], values[i])
  BY <1>4, <1>5
<1>7. \A i \in 0 .. n : sum[i] \in Numbers
  <2> DEFINE T == {i \in 0 .. n : sum[i] \in Numbers}
  <2>1. 0 \in T
    BY <1>5, <1>6, NumberType
  <2>2. ASSUME NEW i \in 1 .. n, i - 1 \in T PROVE i \in T
    BY <1>5, <1>6, <2>2, NumbersClosed
  <2> HIDE DEF T
  <2>3. \A i \in 0 .. n : i \in T
    BY <1>5, <2>1, <2>2, UptoInduction
  <2> QED BY <2>3 DEF T
<1>8. sum \in [0 .. n -> Numbers]
  BY <1>4, <1>7
<1>9. AddsUp(sum, values)
  BY <1>6, <1>8 DEF AddsUp, n
<1> QED BY <1>1, <1>9 DEF n

LEMMA SumType ==
  ASSUME NEW values \in Seq(Numbers)
  PROVE  SumOf(values) \in Numbers
<1>1. PICK f : AddsUp(f, values) /\ SumOf(values) = f[Len(values)]
  BY SumSteps
<1> QED BY <1>1 DEF AddsUp

(* The last sum of the kernel, a - b - c - d.                              *)
LEMMA SumOfFour ==
  ASSUME NEW a \in Numbers, NEW b \in Numbers, NEW c \in Numbers, NEW d \in Numbers
  PROVE  SumOf(<<Times(Number(1), a), Times(Number(-1), b), Times(Number(-1), c),
                 Times(Number(-1), d)>>) = Minus(Minus(Minus(a, b), c), d)
<1> DEFINE values == <<Times(Number(1), a), Times(Number(-1), b), Times(Number(-1), c),
                       Times(Number(-1), d)>>
<1>1. /\ Times(Number(1), a) \in Numbers /\ Times(Number(-1), b) \in Numbers
      /\ Times(Number(-1), c) \in Numbers /\ Times(Number(-1), d) \in Numbers
  BY NumberType, NumbersClosed
<1>2. /\ values \in Seq(Numbers) /\ Len(values) = 4
      /\ values[1] = Times(Number(1), a) /\ values[2] = Times(Number(-1), b)
      /\ values[3] = Times(Number(-1), c) /\ values[4] = Times(Number(-1), d)
  BY <1>1
<1> HIDE DEF values
<1>3. PICK f : AddsUp(f, values) /\ SumOf(values) = f[4]
  BY <1>2, SumSteps
<1>4. /\ f[0] = Number(0) /\ f[1] = Plus(f[0], values[1]) /\ f[2] = Plus(f[1], values[2])
      /\ f[3] = Plus(f[2], values[3]) /\ f[4] = Plus(f[3], values[4])
  BY <1>2, <1>3 DEF AddsUp
<1>5. f[1] = a
  BY <1>2, <1>4, TimesOne
<1>6. f[2] = Minus(a, b) /\ f[2] \in Numbers
  <2>1. f[2] = Plus(a, Times(Number(-1), b))
    BY <1>2, <1>4, <1>5
  <2> QED BY <2>1, MinusIsPlus, NumbersClosed
<1>7. f[3] = Minus(f[2], c) /\ f[3] \in Numbers
  <2>1. f[3] = Plus(f[2], Times(Number(-1), c))
    BY <1>2, <1>4
  <2> QED BY <1>6, <2>1, MinusIsPlus, NumbersClosed
<1>8. f[4] = Minus(f[3], d)
  <2>1. f[4] = Plus(f[3], Times(Number(-1), d))
    BY <1>2, <1>4
  <2> QED BY <1>7, <2>1, MinusIsPlus
<1> QED BY <1>3, <1>6, <1>7, <1>8 DEF values
-----------------------------------------------------------------------------
(* _propagate gives VALID exactly when every value is.                     *)
LEMMA WorstStateFacts ==
  ASSUME NEW values, \A j \in DOMAIN values : values[j].state \in States
  PROVE  /\ WorstState(values) \in States
         /\ WorstState(values) = "VALID" <=> \A j \in DOMAIN values : values[j].state = "VALID"
<1> DEFINE found == {i \in DOMAIN Precedence :
                       \E j \in DOMAIN values : values[j].state = Precedence[i]}
<1>1. /\ DOMAIN Precedence = 1 .. 4
      /\ Precedence[1] = "CONFLICT" /\ Precedence[2] = "BLOCKED"
      /\ Precedence[3] = "UNAVAILABLE" /\ Precedence[4] = "EMPTY"
  BY DEF Precedence
<1>2. \A s \in States : s = "VALID" \/ \E i \in 1 .. 4 : s = Precedence[i]
  BY <1>1 DEF States
<1>3. \A i \in 1 .. 4 : Precedence[i] # "VALID" /\ Precedence[i] \in States
  BY <1>1 DEF States
<1>4. found = {} <=> \A j \in DOMAIN values : values[j].state = "VALID"
  BY <1>1, <1>2, <1>3
<1>5. CASE found = {}
  BY <1>4, <1>5 DEF WorstState, States
<1>6. CASE found # {}
  <2>1. \E i \in found : \A k \in found : i <= k
    <3>1. found \subseteq 1 .. 4
      BY <1>1
    <3> HIDE DEF found
    <3>2. CASE 1 \in found
      BY <3>1, <3>2
    <3>3. CASE 1 \notin found /\ 2 \in found
      BY <3>1, <3>3
    <3>4. CASE 1 \notin found /\ 2 \notin found /\ 3 \in found
      BY <3>1, <3>4
    <3>5. CASE found \subseteq {4}
      <4>1. found = {4}
        BY <1>6, <3>5
      <4> QED BY <4>1
    <3> QED BY <3>1, <3>2, <3>3, <3>4, <3>5
  <2> DEFINE least == CHOOSE i \in found : \A k \in found : i <= k
  <2>2. least \in 1 .. 4
    BY <1>1, <2>1
  <2>3. WorstState(values) = Precedence[least]
    BY <1>6 DEF WorstState
  <2> HIDE DEF least
  <2> QED BY <1>3, <1>4, <1>6, <2>2, <2>3
<1> QED BY <1>5, <1>6

LEMMA WorstOfTwo ==
  ASSUME NEW x, NEW y, x.state \in States, y.state \in States
  PROVE  /\ WorstState(<<x, y>>) \in States
         /\ WorstState(<<x, y>>) = "VALID" <=> x.state = "VALID" /\ y.state = "VALID"
<1> DEFINE v == <<x, y>>
<1>1. DOMAIN v = 1 .. 2 /\ v[1] = x /\ v[2] = y
  OBVIOUS
<1> HIDE DEF v
<1>2. \A j \in DOMAIN v : v[j].state \in States
  BY <1>1
<1>3. /\ WorstState(v) \in States
      /\ WorstState(v) = "VALID" <=> \A j \in DOMAIN v : v[j].state = "VALID"
  BY <1>2, WorstStateFacts
<1> QED BY <1>1, <1>3 DEF v

LEMMA ValidFields ==
  \A number, signature : /\ Valid(number, signature).state = "VALID"
                         /\ Valid(number, signature).value = number
                         /\ Valid(number, signature).signature = signature
BY DEF Valid

LEMMA NonvalidFields ==
  \A state, signature : /\ Nonvalid(state, signature).state = state
                        /\ Nonvalid(state, signature).signature = signature
BY DEF Nonvalid

LEMMA NormalizedFacts ==
  ASSUME NEW x, Typed(x)
  PROVE  /\ Typed(Normalized(x))
         /\ Normalized(x).state = x.state /\ Normalized(x).signature = x.signature
         /\ Type(x.signature) = "INTEGER" => Normalized(x) = x
<1> DEFINE z == Quantized(x.value, Policy.mode, Policy.calculation)
<1>1. CASE IsValid(x) /\ Type(x.signature) \in {"MONEY", "DECIMAL", "RATE"}
  <2>1. Normalized(x) = Valid(z, x.signature)
    BY <1>1 DEF Normalized
  <2>2. z \in Numbers
    BY <1>1, PolicyAssumption, QuantizedType DEF Typed
  <2> HIDE DEF z
  <2> QED BY <1>1, <2>1, <2>2, ValidFields DEF Typed, IsValid, States
<1>2. CASE ~(IsValid(x) /\ Type(x.signature) \in {"MONEY", "DECIMAL", "RATE"})
  BY <1>2 DEF Normalized, Typed, IsValid
<1> QED BY <1>1, <1>2
-----------------------------------------------------------------------------
(* The steps of the calculation, on inputs that are typed: when each of    *)
(* them is VALID, and with which number.                                   *)
TypedIn(inputs) == \A n \in DOMAIN inputs : Typed(inputs[n])

(* An input is there, VALID and of its signature.                          *)
Given(inputs, name, signature) ==
  name \in DOMAIN inputs /\ IsValid(inputs[name]) /\ inputs[name].signature = signature

LEMMA ExpectFacts ==
  ASSUME NEW inputs, TypedIn(inputs), NEW name, NEW signature
  PROVE  /\ Typed(Expect(inputs, name, signature))
         /\ Expect(inputs, name, signature).signature = signature
         /\ IsValid(Expect(inputs, name, signature)) <=> Given(inputs, name, signature)
         /\ Given(inputs, name, signature) => Expect(inputs, name, signature) = inputs[name]
<1>1. CASE name \in DOMAIN inputs /\ inputs[name].signature = signature
  BY <1>1 DEF Expect, TypedIn, Given
<1>2. CASE ~(name \in DOMAIN inputs /\ inputs[name].signature = signature)
  <2>1. Expect(inputs, name, signature) = Nonvalid("BLOCKED", signature)
    BY <1>2 DEF Expect
  <2> QED BY <1>2, <2>1, NonvalidFields DEF Given, Typed, IsValid, States
<1> QED BY <1>1, <1>2

(* The four counts of units are there.                                     *)
Counted(inputs) == \A name \in UnitInputs : Given(inputs, name, Items)
Count(inputs, name) == inputs[name].value[1]

(* Units are there, none negative, no more returned than sold and no more  *)
(* resold and compensated than returned.                                   *)
UnitsAgree(inputs) ==
  /\ Counted(inputs)
  /\ \A name \in UnitInputs : Count(inputs, name) >= 0
  /\ Count(inputs, "returned_units") <= Count(inputs, "gross_sales_units")
  /\ Count(inputs, "resalable_returned_units") + Count(inputs, "compensated_returned_units")
       <= Count(inputs, "returned_units")

LEMMA UnitNames ==
  /\ "gross_sales_units" \in UnitInputs /\ "returned_units" \in UnitInputs
  /\ "resalable_returned_units" \in UnitInputs /\ "compensated_returned_units" \in UnitInputs
  /\ \A name \in UnitInputs :
       name \in {"gross_sales_units", "returned_units", "resalable_returned_units",
                 "compensated_returned_units"}
BY DEF UnitInputs

LEMMA CountType ==
  ASSUME NEW inputs, TypedIn(inputs), NEW name, Given(inputs, name, Items)
  PROVE  Count(inputs, name) \in Int /\ inputs[name].value = Number(Count(inputs, name))
<1>1. inputs[name].value \in Numbers /\ inputs[name].value[2] = 1
  BY DEF TypedIn, Given, Typed, Items, Type
<1> QED BY <1>1 DEF Count, Numbers, Number

LEMMA NetUnitsFacts ==
  ASSUME NEW inputs, TypedIn(inputs)
  PROVE  /\ NetUnits(inputs).state \in States
         /\ UnitsAgree(inputs) =>
              NetUnits(inputs) = Valid(Number(Count(inputs, "gross_sales_units")
                                                - Count(inputs, "returned_units")), Items)
<1> DEFINE a == Units(inputs, "gross_sales_units")
           b == Units(inputs, "returned_units")
           x == <<a, b>>
<1>1. a.state \in States /\ b.state \in States
  BY ExpectFacts DEF Units, Typed
<1>2. /\ WorstState(x) \in States
      /\ WorstState(x) = "VALID" <=> IsValid(a) /\ IsValid(b)
  <2> HIDE DEF a, b
  <2> QED BY <1>1, WorstOfTwo DEF IsValid
<1>3. NetUnits(inputs) =
        IF WorstState(x) # "VALID" THEN Nonvalid(WorstState(x), Items)
        ELSE IF a.value[1] < 0 \/ b.value[1] < 0 \/ b.value[1] > a.value[1]
        THEN Nonvalid("BLOCKED", Items)
        ELSE Valid(Number(a.value[1] - b.value[1]), Items)
  BY DEF NetUnits
<1>4. NetUnits(inputs).state \in States
  <2> HIDE DEF a, b, x
  <2> QED BY <1>2, <1>3, ValidFields, NonvalidFields DEF States
<1>5. ASSUME UnitsAgree(inputs)
      PROVE  NetUnits(inputs) = Valid(Number(Count(inputs, "gross_sales_units")
                                               - Count(inputs, "returned_units")), Items)
  <2>1. /\ Given(inputs, "gross_sales_units", Items) /\ Given(inputs, "returned_units", Items)
        /\ Count(inputs, "gross_sales_units") >= 0 /\ Count(inputs, "returned_units") >= 0
        /\ Count(inputs, "returned_units") <= Count(inputs, "gross_sales_units")
    BY <1>5, UnitNames DEF UnitsAgree, Counted
  <2>2. /\ IsValid(a) /\ IsValid(b)
        /\ a.value[1] = Count(inputs, "gross_sales_units")
        /\ b.value[1] = Count(inputs, "returned_units")
    BY <2>1, ExpectFacts DEF Units, Count
  <2>3. Count(inputs, "gross_sales_units") \in Int /\ Count(inputs, "returned_units") \in Int
    BY <2>1, CountType
  <2> HIDE DEF a, b, x
  <2> QED BY <1>2, <1>3, <2>1, <2>2, <2>3
<1> QED BY <1>4, <1>5

LEMMA NetUnitsTyped ==
  ASSUME NEW inputs, TypedIn(inputs)
  PROVE  Typed(NetUnits(inputs)) /\ NetUnits(inputs).signature = Items
<1> DEFINE a == Units(inputs, "gross_sales_units")
           b == Units(inputs, "returned_units")
           x == <<a, b>>
<1>1. Typed(a) /\ Typed(b) /\ a.signature = Items /\ b.signature = Items
  BY ExpectFacts DEF Units
<1>2. /\ WorstState(x) \in States
      /\ WorstState(x) = "VALID" <=> a.state = "VALID" /\ b.state = "VALID"
  <2> HIDE DEF a, b
  <2> QED BY <1>1, WorstOfTwo DEF Typed
<1>3. NetUnits(inputs) =
        IF WorstState(x) # "VALID" THEN Nonvalid(WorstState(x), Items)
        ELSE IF a.value[1] < 0 \/ b.value[1] < 0 \/ b.value[1] > a.value[1]
        THEN Nonvalid("BLOCKED", Items)
        ELSE Valid(Number(a.value[1] - b.value[1]), Items)
  BY DEF NetUnits
<1> HIDE DEF a, b, x
<1>4. \A s \in States : s # "VALID" =>
        Typed(Nonvalid(s, Items)) /\ Nonvalid(s, Items).signature = Items
  BY NonvalidFields DEF Typed, IsValid
<1>5. CASE WorstState(x) = "VALID"
  <2>1. a.value[1] \in Int /\ b.value[1] \in Int
    BY <1>1, <1>2, <1>5 DEF Typed, IsValid, Numbers
  <2>2. a.value[1] - b.value[1] \in Int
    BY <2>1
  <2>3. Number(a.value[1] - b.value[1]) \in Numbers /\ Number(a.value[1] - b.value[1])[2] = 1
    BY <2>2, NumberType DEF Number
  <2>4. Typed(Valid(Number(a.value[1] - b.value[1]), Items))
    BY <2>3, ValidFields DEF Typed, States
  <2> QED BY <1>3, <1>4, <1>5, <2>4, ValidFields DEF States
<1>6. CASE WorstState(x) # "VALID"
  BY <1>2, <1>3, <1>4, <1>6
<1> QED BY <1>5, <1>6

LEMMA CostUnitsFacts ==
  ASSUME NEW inputs, TypedIn(inputs)
  PROVE  /\ CostUnits(inputs).state \in States
         /\ IsValid(CostUnits(inputs)) <=> UnitsAgree(inputs)
         /\ UnitsAgree(inputs) =>
              CostUnits(inputs) = Valid(Number(Count(inputs, "gross_sales_units")
                                    - Count(inputs, "resalable_returned_units")), Items)
<1> DEFINE x == <<Units(inputs, "gross_sales_units"), Units(inputs, "returned_units"),
                  Units(inputs, "resalable_returned_units"),
                  Units(inputs, "compensated_returned_units")>>
           n == [i \in 1..4 |-> x[i].value[1]]
           bad == (\E i \in 1..4 : n[i] < 0) \/ n[2] > n[1] \/ n[3] + n[4] > n[2]
<1>1. /\ DOMAIN x = 1 .. 4
      /\ x[1] = Units(inputs, "gross_sales_units") /\ x[2] = Units(inputs, "returned_units")
      /\ x[3] = Units(inputs, "resalable_returned_units")
      /\ x[4] = Units(inputs, "compensated_returned_units")
  OBVIOUS
<1>2. CostUnits(inputs) =
        IF WorstState(x) # "VALID" THEN Nonvalid(WorstState(x), Items)
        ELSE IF bad THEN Nonvalid("BLOCKED", Items)
        ELSE Valid(Number(n[1] - n[3]), Items)
  BY DEF CostUnits
<1>3. DOMAIN n = 1 .. 4 /\ \A i \in 1 .. 4 : n[i] = x[i].value[1]
  OBVIOUS
<1> HIDE DEF x, n
<1>4. \A i \in 1 .. 4 : x[i].state \in States
  BY <1>1, ExpectFacts DEF Units, Typed
<1>5. /\ WorstState(x) \in States
      /\ WorstState(x) = "VALID" <=> \A i \in 1 .. 4 : x[i].state = "VALID"
  BY <1>1, <1>4, WorstStateFacts
<1>6. WorstState(x) = "VALID" <=> Counted(inputs)
  <2>1. /\ x[1].state = "VALID" <=> Given(inputs, "gross_sales_units", Items)
        /\ x[2].state = "VALID" <=> Given(inputs, "returned_units", Items)
        /\ x[3].state = "VALID" <=> Given(inputs, "resalable_returned_units", Items)
        /\ x[4].state = "VALID" <=> Given(inputs, "compensated_returned_units", Items)
    BY <1>1, ExpectFacts DEF Units, IsValid
  <2>2. Counted(inputs) <=> /\ Given(inputs, "gross_sales_units", Items)
                            /\ Given(inputs, "returned_units", Items)
                            /\ Given(inputs, "resalable_returned_units", Items)
                            /\ Given(inputs, "compensated_returned_units", Items)
    BY UnitNames DEF Counted
  <2>3. (\A i \in 1 .. 4 : x[i].state = "VALID") <=>
          x[1].state = "VALID" /\ x[2].state = "VALID" /\ x[3].state = "VALID" /\ x[4].state = "VALID"
    OBVIOUS
  <2> QED BY <1>5, <2>1, <2>2, <2>3
<1>7. ASSUME Counted(inputs)
      PROVE  /\ n[1] = Count(inputs, "gross_sales_units") /\ n[2] = Count(inputs, "returned_units")
             /\ n[3] = Count(inputs, "resalable_returned_units")
             /\ n[4] = Count(inputs, "compensated_returned_units")
             /\ n[1] \in Int /\ n[2] \in Int /\ n[3] \in Int /\ n[4] \in Int
  <2>1. /\ Given(inputs, "gross_sales_units", Items) /\ Given(inputs, "returned_units", Items)
        /\ Given(inputs, "resalable_returned_units", Items)
        /\ Given(inputs, "compensated_returned_units", Items)
    BY <1>7, UnitNames DEF Counted
  <2>2. /\ x[1] = inputs["gross_sales_units"] /\ x[2] = inputs["returned_units"]
        /\ x[3] = inputs["resalable_returned_units"]
        /\ x[4] = inputs["compensated_returned_units"]
    BY <1>1, <2>1, ExpectFacts DEF Units
  <2>3. /\ n[1] = Count(inputs, "gross_sales_units") /\ n[2] = Count(inputs, "returned_units")
        /\ n[3] = Count(inputs, "resalable_returned_units")
        /\ n[4] = Count(inputs, "compensated_returned_units")
    BY <1>3, <2>2 DEF Count
  <2> QED BY <2>1, <2>3, CountType
<1>8. Counted(inputs) => (bad <=> ~UnitsAgree(inputs))
  <2> SUFFICES ASSUME Counted(inputs) PROVE bad <=> ~UnitsAgree(inputs)
    OBVIOUS
  <2>1. (\A name \in UnitInputs : Count(inputs, name) >= 0) <=>
          n[1] >= 0 /\ n[2] >= 0 /\ n[3] >= 0 /\ n[4] >= 0
    BY <1>7, UnitNames
  <2>2. bad <=> n[1] < 0 \/ n[2] < 0 \/ n[3] < 0 \/ n[4] < 0 \/ n[2] > n[1] \/ n[3] + n[4] > n[2]
    BY <1>7
  <2> HIDE DEF bad
  <2> QED BY <1>7, <2>1, <2>2 DEF UnitsAgree
<1>9. UnitsAgree(inputs) => Counted(inputs)
  BY DEF UnitsAgree
<1> HIDE DEF bad
<1>10. CASE ~Counted(inputs)
  BY <1>2, <1>5, <1>6, <1>9, <1>10, NonvalidFields DEF IsValid
<1>11. CASE Counted(inputs) /\ ~UnitsAgree(inputs)
  BY <1>2, <1>6, <1>8, <1>11, NonvalidFields DEF IsValid, States
<1>12. CASE Counted(inputs) /\ UnitsAgree(inputs)
  BY <1>2, <1>6, <1>7, <1>8, <1>12, ValidFields DEF IsValid, States
<1> QED BY <1>10, <1>11, <1>12

(* The number of a value at the calculation scale.                         *)
At(x) == Normalized(x).value

LEMMA AtType ==
  ASSUME NEW x, Typed(x), IsValid(x)
  PROVE  At(x) \in Numbers
BY NormalizedFacts DEF At, Typed, IsValid

(* A calculated amount of money.                                           *)
Amounts(x, q) ==
  /\ x.state \in States
  /\ x.signature = Money(q.currency)
  /\ IsValid(x) => x.value \in Numbers

LEMMA NonvalidAmount ==
  ASSUME NEW q, NEW s \in States, s # "VALID"
  PROVE  Amounts(Nonvalid(s, Money(q.currency)), q) /\ ~IsValid(Nonvalid(s, Money(q.currency)))
BY NonvalidFields DEF Amounts, IsValid

LEMMA ProductCostFacts ==
  ASSUME NEW inputs, TypedIn(inputs), NEW q, Typed(q.cost)
  PROVE  /\ Amounts(ProductCost(inputs, q), q)
         /\ IsValid(ProductCost(inputs, q)) <=>
              UnitsAgree(inputs) /\ IsValid(q.cost) /\ q.cost.signature = PerItem(q.currency)
         /\ IsValid(ProductCost(inputs, q)) =>
              ProductCost(inputs, q).value =
                Times(Number(Count(inputs, "gross_sales_units")
                               - Count(inputs, "resalable_returned_units")), At(q.cost))
<1> DEFINE units == CostUnits(inputs)
           cost == Normalized(q.cost)
           fits == IsValid(q.cost) /\ q.cost.signature = PerItem(q.currency)
           z == Times(units.value, cost.value)
<1>1. ProductCost(inputs, q) =
        IF ~IsValid(units) THEN Nonvalid(units.state, Money(q.currency))
        ELSE IF cost.signature # PerItem(q.currency) THEN Nonvalid("BLOCKED", Money(q.currency))
        ELSE IF ~IsValid(cost) THEN Nonvalid(cost.state, Money(q.currency))
        ELSE Valid(z, Money(q.currency))
  BY DEF ProductCost
<1>2. /\ units.state \in States
      /\ IsValid(units) <=> UnitsAgree(inputs)
      /\ UnitsAgree(inputs) => units.value = Number(Count(inputs, "gross_sales_units")
                                    - Count(inputs, "resalable_returned_units"))
  BY CostUnitsFacts, ValidFields
<1>3. /\ cost.state = q.cost.state /\ cost.signature = q.cost.signature
      /\ cost.state \in States
  BY NormalizedFacts DEF Typed
<1>4. IsValid(cost) <=> IsValid(q.cost)
  BY <1>3 DEF IsValid
<1>5. UnitsAgree(inputs) => units.value \in Numbers
  <2>1. UnitsAgree(inputs) => /\ Count(inputs, "gross_sales_units") \in Int
                              /\ Count(inputs, "resalable_returned_units") \in Int
    BY CountType, UnitNames DEF UnitsAgree, Counted
  <2> QED BY <1>2, <2>1, NumberType
<1>6. UnitsAgree(inputs) /\ fits => z \in Numbers
  BY <1>5, AtType, NumbersClosed DEF At
<1>7. z = Times(units.value, At(q.cost))
  BY DEF At
<1> HIDE DEF units, cost, z
<1>8. CASE ~IsValid(units)
  BY <1>1, <1>2, <1>8, NonvalidAmount DEF IsValid
<1>9. CASE IsValid(units) /\ ~fits
  <2>1. CASE cost.signature # PerItem(q.currency)
    BY <1>1, <1>9, <2>1, <1>2, <1>3, NonvalidAmount DEF States
  <2>2. CASE cost.signature = PerItem(q.currency)
    <3>1. ~IsValid(cost) /\ cost.state # "VALID"
      BY <1>3, <1>4, <1>9, <2>2 DEF IsValid
    <3> QED BY <1>1, <1>2, <1>3, <1>9, <2>2, <3>1, NonvalidAmount
  <2> QED BY <2>1, <2>2
<1>10. CASE IsValid(units) /\ fits
  <2>1. ProductCost(inputs, q) = Valid(z, Money(q.currency))
    BY <1>1, <1>3, <1>4, <1>10
  <2> QED BY <1>2, <1>6, <1>7, <1>10, <2>1, ValidFields DEF Amounts, IsValid, States
<1> QED BY <1>8, <1>9, <1>10

(* _money_sum: VALID exactly when every term is.                           *)
LEMMA MoneySumFacts ==
  ASSUME NEW q, NEW k \in Nat, NEW terms, DOMAIN terms = 1 .. k,
         \A i \in 1 .. k : terms[i][1] \in Int /\ Amounts(terms[i][2], q)
  PROVE  /\ Amounts(MoneySum(terms, q), q)
         /\ IsValid(MoneySum(terms, q)) <=> \A i \in 1 .. k : IsValid(terms[i][2])
         /\ IsValid(MoneySum(terms, q)) =>
              MoneySum(terms, q).value =
                SumOf([i \in 1 .. k |-> Times(Number(terms[i][1]), terms[i][2].value)])
<1> DEFINE v == [i \in DOMAIN terms |-> terms[i][2]]
           products == [i \in 1 .. k |-> Times(Number(terms[i][1]), terms[i][2].value)]
<1>1. MoneySum(terms, q) =
        IF WorstState(v) # "VALID" THEN Nonvalid(WorstState(v), Money(q.currency))
        ELSE Valid(SumOf(products), Money(q.currency))
  BY DEF MoneySum
<1>2. DOMAIN v = 1 .. k /\ \A i \in 1 .. k : v[i] = terms[i][2]
  OBVIOUS
<1> HIDE DEF v
<1>3. /\ WorstState(v) \in States
      /\ WorstState(v) = "VALID" <=> \A i \in 1 .. k : v[i].state = "VALID"
  <2>1. \A i \in DOMAIN v : v[i].state \in States
    BY <1>2 DEF Amounts
  <2> QED BY <1>2, <2>1, WorstStateFacts
<1>4. WorstState(v) = "VALID" <=> \A i \in 1 .. k : IsValid(terms[i][2])
  BY <1>2, <1>3 DEF IsValid
<1>5. CASE WorstState(v) # "VALID"
  BY <1>1, <1>3, <1>4, <1>5, NonvalidAmount
<1>6. CASE WorstState(v) = "VALID"
  <2>1. ASSUME NEW i \in 1 .. k PROVE Times(Number(terms[i][1]), terms[i][2].value) \in Numbers
    BY <1>4, <1>6, NumberType, NumbersClosed DEF Amounts
  <2>2. products \in Seq(Numbers)
    BY <2>1
  <2> HIDE DEF products
  <2>3. SumOf(products) \in Numbers
    BY <2>2, SumType
  <2> QED BY <1>1, <1>4, <1>6, <2>3, ValidFields DEF Amounts, IsValid, States, products
<1> QED BY <1>5, <1>6

(* Every component is a VALID amount, or a VALID amount per item.          *)
Fits(x, q) == IsValid(x) /\ x.signature \in {Money(q.currency), PerItem(q.currency)}
ExpensesFit(q) == q.expenses # << >> /\ \A i \in DOMAIN q.expenses : Fits(q.expenses[i].value, q)
ExpenseOf(x, net) == IF x.signature[2] = "MONEY_PER_ITEM" THEN Times(At(x), net) ELSE At(x)

LEMMA OtherExpenseFacts ==
  ASSUME NEW inputs, TypedIn(inputs), NEW q, Components(q.expenses)
  PROVE  /\ Amounts(OtherExpense(inputs, q), q)
         /\ IsValid(OtherExpense(inputs, q)) => ExpensesFit(q)
         /\ UnitsAgree(inputs) /\ ExpensesFit(q) =>
              /\ IsValid(OtherExpense(inputs, q))
              /\ OtherExpense(inputs, q).value =
                   SumOf([i \in DOMAIN q.expenses |->
                            ExpenseOf(q.expenses[i].value,
                                      Number(Count(inputs, "gross_sales_units")
                                               - Count(inputs, "returned_units")))])
<1> DEFINE net == NetUnits(inputs)
           Worst(x) == WorstState(<<net, x>>)
           A(x) == IF x.signature = Money(q.currency) THEN x
                   ELSE IF Worst(x) # "VALID" THEN Nonvalid(Worst(x), Money(q.currency))
                   ELSE Valid(Times(net.value, x.value), Money(q.currency))
           k == Len(q.expenses)
           terms == [i \in DOMAIN q.expenses |-> <<1, A(Normalized(q.expenses[i].value))>>]
           number == Number(Count(inputs, "gross_sales_units") - Count(inputs, "returned_units"))
           misfit == \E i \in DOMAIN q.expenses : Misfits(q, i)
<1>1. OtherExpense(inputs, q) =
        IF q.expenses = << >> \/ misfit THEN Nonvalid("BLOCKED", Money(q.currency))
        ELSE MoneySum(terms, q)
  BY DEF OtherExpense
<1>2. /\ k \in Nat /\ DOMAIN q.expenses = 1 .. k
      /\ \A i \in 1 .. k : Typed(q.expenses[i].value)
  BY DEF Components
<1>3. DOMAIN terms = 1 .. k
      /\ \A i \in 1 .. k : terms[i][1] = 1 /\ terms[i][2] = A(Normalized(q.expenses[i].value))
  BY <1>2
<1> HIDE DEF terms, k, net
<1>4. CASE q.expenses = << >> \/ misfit
  <2>1. ~ExpensesFit(q)
    BY <1>4 DEF ExpensesFit, Fits, Misfits
  <2> HIDE DEF misfit
  <2> QED BY <1>1, <1>4, <2>1, NonvalidAmount DEF States
<1>5. CASE ~(q.expenses = << >> \/ misfit)
  <2>1. OtherExpense(inputs, q) = MoneySum(terms, q)
    BY <1>1, <1>5
  <2>2. ASSUME NEW i \in 1 .. k
        PROVE  q.expenses[i].value.signature \in {Money(q.currency), PerItem(q.currency)}
    BY <1>2, <1>5 DEF Misfits
  <2>3. net.state \in States
        /\ (UnitsAgree(inputs) => net.state = "VALID" /\ net.value = number)
    BY NetUnitsFacts, ValidFields DEF net
  <2>4. UnitsAgree(inputs) => number \in Numbers
    <3>1. UnitsAgree(inputs) => /\ Count(inputs, "gross_sales_units") \in Int
                                /\ Count(inputs, "returned_units") \in Int
      BY CountType, UnitNames DEF UnitsAgree, Counted
    <3> QED BY <3>1, NumberType
  <2> HIDE DEF number
  <2>5. ASSUME NEW i \in 1 .. k
        PROVE  LET x == q.expenses[i].value
               IN /\ Amounts(A(Normalized(x)), q)
                  /\ IsValid(A(Normalized(x))) => IsValid(x)
                  /\ UnitsAgree(inputs) /\ IsValid(x) =>
                       /\ IsValid(A(Normalized(x)))
                       /\ Times(Number(1), A(Normalized(x)).value) = ExpenseOf(x, number)
    <3> PICK x : x = q.expenses[i].value
      OBVIOUS
    <3> PICK y : y = Normalized(x)
      OBVIOUS
    <3>1. /\ Typed(x) /\ Typed(y) /\ y.state = x.state /\ y.signature = x.signature
          /\ y.value = At(x) /\ x.state \in States
      BY <1>2, NormalizedFacts DEF At, Typed
    <3>2. IsValid(x) => At(x) \in Numbers
      BY <3>1, AtType
    <3>3. CASE y.signature = Money(q.currency)
      <4>1. A(y) = y
        BY <3>3
      <4>2. x.signature[2] # "MONEY_PER_ITEM"
        BY <3>1, <3>3 DEF Money
      <4> HIDE DEF A
      <4>3. ExpenseOf(x, number) = At(x)
        BY <4>2 DEF ExpenseOf
      <4>4. IsValid(x) => Times(Number(1), y.value) = ExpenseOf(x, number)
        BY <3>1, <3>2, <4>3, TimesOne
      <4> QED BY <3>1, <3>2, <3>3, <4>1, <4>4 DEF Amounts, IsValid
    <3>4. CASE y.signature # Money(q.currency)
      <4>1. A(y) = IF Worst(y) # "VALID" THEN Nonvalid(Worst(y), Money(q.currency))
                   ELSE Valid(Times(net.value, y.value), Money(q.currency))
        BY <3>4
      <4>2. x.signature = PerItem(q.currency)
        BY <2>2, <3>1, <3>4
      <4>3. x.signature[2] = "MONEY_PER_ITEM"
        BY <4>2 DEF PerItem
      <4>4. ExpenseOf(x, number) = Times(At(x), number)
        BY <4>3 DEF ExpenseOf
      <4>5. /\ Worst(y) \in States
            /\ Worst(y) = "VALID" <=> net.state = "VALID" /\ y.state = "VALID"
        BY <2>3, <3>1, WorstOfTwo
      <4>6. net.state = "VALID" => net.value \in Numbers
        <5>1. Typed(net)
          BY NetUnitsTyped DEF net
        <5> QED BY <5>1 DEF Typed, IsValid
      <4> HIDE DEF A, Worst
      <4>7. CASE Worst(y) # "VALID"
        <5>1. A(y) = Nonvalid(Worst(y), Money(q.currency))
          BY <4>1, <4>7
        <5>2. Amounts(A(y), q) /\ ~IsValid(A(y))
          BY <4>5, <4>7, <5>1, NonvalidAmount
        <5> QED BY <2>3, <3>1, <4>5, <4>7, <5>2 DEF IsValid
      <4>8. CASE Worst(y) = "VALID"
        <5>1. A(y) = Valid(Times(net.value, y.value), Money(q.currency))
          BY <4>1, <4>8
        <5>2. IsValid(x)
          BY <3>1, <4>5, <4>8 DEF IsValid
        <5>3. Times(net.value, y.value) \in Numbers
          BY <3>1, <3>2, <4>5, <4>6, <4>8, <5>2, NumbersClosed
        <5>4. UnitsAgree(inputs) => Times(Number(1), Times(net.value, y.value)) = Times(At(x), number)
          BY <2>3, <2>4, <3>1, <3>2, <5>2, <5>3, TimesOne, TimesCommutes
        <5> QED BY <4>4, <5>1, <5>2, <5>3, <5>4, ValidFields DEF Amounts, IsValid, States
      <4> QED BY <4>7, <4>8
    <3> HIDE DEF A
    <3> QED BY <3>3, <3>4
  <2> HIDE DEF A, misfit
  <2>6. \A i \in 1 .. k : terms[i][1] \in Int /\ Amounts(terms[i][2], q)
    BY <1>3, <2>5
  <2>7. /\ Amounts(MoneySum(terms, q), q)
        /\ IsValid(MoneySum(terms, q)) <=> \A i \in 1 .. k : IsValid(terms[i][2])
        /\ IsValid(MoneySum(terms, q)) =>
             MoneySum(terms, q).value =
               SumOf([i \in 1 .. k |-> Times(Number(terms[i][1]), terms[i][2].value)])
    BY <1>2, <1>3, <2>6, MoneySumFacts
  <2>8. IsValid(MoneySum(terms, q)) => ExpensesFit(q)
    BY <1>2, <1>3, <1>5, <2>2, <2>5, <2>7 DEF ExpensesFit, Fits
  <2>9. ASSUME UnitsAgree(inputs), ExpensesFit(q)
        PROVE  /\ IsValid(MoneySum(terms, q))
               /\ MoneySum(terms, q).value =
                    SumOf([i \in DOMAIN q.expenses |-> ExpenseOf(q.expenses[i].value, number)])
    <3>1. \A i \in 1 .. k : IsValid(q.expenses[i].value)
      BY <1>2, <2>9 DEF ExpensesFit, Fits
    <3>2. \A i \in 1 .. k : /\ IsValid(terms[i][2])
                            /\ Times(Number(terms[i][1]), terms[i][2].value)
                                 = ExpenseOf(q.expenses[i].value, number)
      BY <1>3, <2>5, <2>9, <3>1
    <3>3. [i \in 1 .. k |-> Times(Number(terms[i][1]), terms[i][2].value)]
            = [i \in DOMAIN q.expenses |-> ExpenseOf(q.expenses[i].value, number)]
      BY <1>2, <3>2
    <3> QED BY <2>7, <3>2, <3>3
  <2> QED BY <2>1, <2>7, <2>8, <2>9 DEF number
<1> QED BY <1>4, <1>5

(* The compensation of returns is given, and paid only for returns that    *)
(* are counted as compensated.                                             *)
Paid(inputs, q) ==
  /\ Given(inputs, "compensated_returned_units", Items)
  /\ Given(inputs, Compensation, Money(q.currency))
Payable(inputs) ==
  /\ Count(inputs, "compensated_returned_units") >= 0
  /\ Count(inputs, Compensation) >= 0
  /\ Count(inputs, "compensated_returned_units") = 0 => Count(inputs, Compensation) = 0

LEMMA AmountFacts ==
  ASSUME NEW inputs, TypedIn(inputs), NEW q, NEW name
  PROVE  /\ Amounts(Amount(inputs, name, q), q)
         /\ IsValid(Amount(inputs, name, q)) <=> Given(inputs, name, Money(q.currency))
         /\ Given(inputs, name, Money(q.currency)) => Amount(inputs, name, q) = inputs[name]
BY ExpectFacts DEF Amount, Amounts, Typed

LEMMA ReturnCompensationFacts ==
  ASSUME NEW inputs, TypedIn(inputs), NEW q
  PROVE  /\ Amounts(ReturnCompensation(inputs, q), q)
         /\ IsValid(ReturnCompensation(inputs, q)) =>
              Paid(inputs, q) /\ ReturnCompensation(inputs, q) = inputs[Compensation]
         /\ Paid(inputs, q) /\ Payable(inputs) => IsValid(ReturnCompensation(inputs, q))
<1> DEFINE units == Units(inputs, "compensated_returned_units")
           amount == Amount(inputs, Compensation, q)
           worst == WorstState(<<units, amount>>)
           wrong == \/ units.value[1] < 0 \/ amount.value[1] < 0
                    \/ (units.value[1] = 0 /\ amount.value[1] # 0)
<1>1. ReturnCompensation(inputs, q) =
        IF worst # "VALID" THEN Nonvalid(worst, Money(q.currency))
        ELSE IF wrong THEN Nonvalid("BLOCKED", Money(q.currency)) ELSE amount
  BY DEF ReturnCompensation
<1>2. /\ Typed(units)
      /\ IsValid(units) <=> Given(inputs, "compensated_returned_units", Items)
      /\ Given(inputs, "compensated_returned_units", Items) =>
           units = inputs["compensated_returned_units"]
  BY ExpectFacts DEF Units
<1>3. /\ Amounts(amount, q)
      /\ IsValid(amount) <=> Given(inputs, Compensation, Money(q.currency))
      /\ Given(inputs, Compensation, Money(q.currency)) => amount = inputs[Compensation]
  BY AmountFacts
<1> HIDE DEF units, amount
<1>4. worst \in States /\ (worst = "VALID" <=> IsValid(units) /\ IsValid(amount))
  BY <1>2, <1>3, WorstOfTwo DEF Typed, Amounts, IsValid
<1> HIDE DEF worst
<1>5. CASE worst # "VALID"
  BY <1>1, <1>2, <1>3, <1>4, <1>5, NonvalidAmount DEF Paid
<1>6. CASE worst = "VALID"
  <2>1. /\ Paid(inputs, q) /\ amount = inputs[Compensation]
        /\ units.value[1] = Count(inputs, "compensated_returned_units")
        /\ amount.value[1] = Count(inputs, Compensation)
    BY <1>2, <1>3, <1>4, <1>6 DEF Paid, Count
  <2>2. units.value[1] \in Int /\ amount.value[1] \in Int
    BY <1>2, <1>3, <1>4, <1>6 DEF Typed, Amounts, Numbers
  <2>3. Payable(inputs) => ~wrong
    BY <2>1, <2>2 DEF Payable
  <2> HIDE DEF wrong
  <2>4. CASE wrong
    <3>1. ReturnCompensation(inputs, q) = Nonvalid("BLOCKED", Money(q.currency))
      BY <1>1, <1>6, <2>4
    <3> QED BY <2>3, <2>4, <3>1, NonvalidAmount DEF States
  <2>5. CASE ~wrong
    BY <1>1, <1>3, <1>4, <1>6, <2>1, <2>5
  <2> QED BY <2>4, <2>5
<1> QED BY <1>5, <1>6

LEMMA IncomeNames ==
  /\ DOMAIN IncomeTerms = 1 .. 10
  /\ \A i \in 1 .. 10 : IncomeTerms[i][1] \in Int /\ IncomeTerms[i][2] \in AmountInputs
  /\ \A name \in AmountInputs : \E i \in 1 .. 10 : name = IncomeTerms[i][2]
  /\ Compensation \in AmountInputs
<1>1. DOMAIN IncomeTerms = 1 .. 10 /\ \A i \in 1 .. 10 : IncomeTerms[i][1] \in Int
  BY DEF IncomeTerms
<1>2. IncomeTerms[4][2] = Compensation
  BY DEF IncomeTerms
<1> QED BY <1>1, <1>2 DEF AmountInputs

AmountsGiven(inputs, q) == \A name \in AmountInputs : Given(inputs, name, Money(q.currency))

LEMMA IncomeFacts ==
  ASSUME NEW inputs, TypedIn(inputs), NEW q
  PROVE  /\ Amounts(Income(inputs, q), q)
         /\ IsValid(Income(inputs, q)) =>
              /\ AmountsGiven(inputs, q)
              /\ Given(inputs, "compensated_returned_units", Items)
         /\ /\ AmountsGiven(inputs, q) /\ Payable(inputs)
            /\ Given(inputs, "compensated_returned_units", Items)
            => /\ IsValid(Income(inputs, q))
               /\ Income(inputs, q).value =
                    SumOf([i \in 1 .. 10 |-> Times(Number(IncomeTerms[i][1]),
                                                   inputs[IncomeTerms[i][2]].value)])
<1> DEFINE compensation == ReturnCompensation(inputs, q)
           V(name) == IF name = Compensation THEN compensation ELSE Amount(inputs, name, q)
           terms == [i \in DOMAIN IncomeTerms |-> <<IncomeTerms[i][1], V(IncomeTerms[i][2])>>]
<1>1. Income(inputs, q) =
        IF ~IsValid(compensation) THEN Nonvalid(compensation.state, Money(q.currency))
        ELSE MoneySum(terms, q)
  BY DEF Income
<1>2. /\ Amounts(compensation, q)
      /\ IsValid(compensation) => Paid(inputs, q) /\ compensation = inputs[Compensation]
      /\ Paid(inputs, q) /\ Payable(inputs) => IsValid(compensation)
  BY ReturnCompensationFacts
<1> HIDE DEF compensation
<1>3. /\ DOMAIN terms = 1 .. 10
      /\ \A i \in 1 .. 10 : /\ terms[i][1] = IncomeTerms[i][1]
                            /\ terms[i][2] = V(IncomeTerms[i][2])
  BY IncomeNames
<1> HIDE DEF terms
<1>4. AmountsGiven(inputs, q) /\ Given(inputs, "compensated_returned_units", Items) => Paid(inputs, q)
  BY IncomeNames DEF AmountsGiven, Paid
<1>5. CASE ~IsValid(compensation)
  BY <1>1, <1>2, <1>4, <1>5, NonvalidAmount DEF Amounts, IsValid
<1>6. CASE IsValid(compensation)
  <2>1. Paid(inputs, q) /\ compensation = inputs[Compensation]
    BY <1>2, <1>6
  <2>2. ASSUME NEW name
        PROVE  /\ Amounts(V(name), q)
               /\ IsValid(V(name)) <=> Given(inputs, name, Money(q.currency))
               /\ Given(inputs, name, Money(q.currency)) => V(name) = inputs[name]
    <3>1. CASE name = Compensation
      BY <1>2, <1>6, <2>1, <3>1 DEF Paid
    <3>2. CASE name # Compensation
      BY <3>2, AmountFacts
    <3> QED BY <3>1, <3>2
  <2> HIDE DEF V
  <2>3. \A i \in 1 .. 10 : terms[i][1] \in Int /\ Amounts(terms[i][2], q)
    BY <1>3, <2>2, IncomeNames
  <2>4. /\ Amounts(MoneySum(terms, q), q)
        /\ IsValid(MoneySum(terms, q)) <=> \A i \in 1 .. 10 : IsValid(terms[i][2])
        /\ IsValid(MoneySum(terms, q)) =>
             MoneySum(terms, q).value =
               SumOf([i \in 1 .. 10 |-> Times(Number(terms[i][1]), terms[i][2].value)])
    <3>1. PICK k \in Nat : k = 10
      OBVIOUS
    <3>2. DOMAIN terms = 1 .. k /\ \A i \in 1 .. k : terms[i][1] \in Int /\ Amounts(terms[i][2], q)
      BY <1>3, <2>3, <3>1
    <3>3. /\ Amounts(MoneySum(terms, q), q)
          /\ IsValid(MoneySum(terms, q)) <=> \A i \in 1 .. k : IsValid(terms[i][2])
          /\ IsValid(MoneySum(terms, q)) =>
               MoneySum(terms, q).value =
                 SumOf([i \in 1 .. k |-> Times(Number(terms[i][1]), terms[i][2].value)])
      BY <3>2, MoneySumFacts
    <3> QED BY <3>1, <3>3
  <2>5. IsValid(MoneySum(terms, q)) <=> AmountsGiven(inputs, q)
    BY <1>3, <2>2, <2>4, IncomeNames DEF AmountsGiven
  <2>6. ASSUME AmountsGiven(inputs, q)
        PROVE  [i \in 1 .. 10 |-> Times(Number(terms[i][1]), terms[i][2].value)]
                 = [i \in 1 .. 10 |-> Times(Number(IncomeTerms[i][1]),
                                            inputs[IncomeTerms[i][2]].value)]
    <3>1. \A i \in 1 .. 10 : terms[i][1] = IncomeTerms[i][1]
                             /\ terms[i][2] = inputs[IncomeTerms[i][2]]
      BY <1>3, <2>2, <2>6, IncomeNames DEF AmountsGiven
    <3> QED BY <3>1
  <2>7. Income(inputs, q) = MoneySum(terms, q)
    BY <1>1, <1>6
  <2> QED BY <2>1, <2>4, <2>5, <2>6, <2>7 DEF Paid
<1> QED BY <1>5, <1>6

(* The base of the tax, and when the tax is VALID.                         *)
TaxBase(inputs, q) ==
  CASE q.base = "net_marketplace_income_amount" -> Income(inputs, q)
    [] q.base = "product_cost_amount"           -> ProductCost(inputs, q)
    [] q.base = "other_expense_amount"          -> OtherExpense(inputs, q)
    [] OTHER -> inputs[q.base]

LEMMA TaxBaseFacts ==
  ASSUME NEW inputs, TypedIn(inputs), NEW q, Typed(q.cost), Components(q.expenses),
         q.base \in DOMAIN inputs \cup Computed
  PROVE  /\ TaxBase(inputs, q).state \in States
         /\ IsValid(TaxBase(inputs, q)) => TaxBase(inputs, q).value \in Numbers
         /\ q.base \in Computed => TaxBase(inputs, q).signature = Money(q.currency)
<1>1. Amounts(Income(inputs, q), q) /\ Amounts(ProductCost(inputs, q), q)
      /\ Amounts(OtherExpense(inputs, q), q)
  BY IncomeFacts, ProductCostFacts, OtherExpenseFacts
<1>2. CASE q.base = "net_marketplace_income_amount"
  BY <1>1, <1>2 DEF TaxBase, Amounts
<1>3. CASE q.base = "product_cost_amount"
  BY <1>1, <1>3 DEF TaxBase, Amounts
<1>4. CASE q.base = "other_expense_amount"
  BY <1>1, <1>4 DEF TaxBase, Amounts
<1>5. CASE q.base \notin Computed
  <2>1. TaxBase(inputs, q) = inputs[q.base]
    BY <1>5 DEF TaxBase, Computed
  <2>2. Typed(inputs[q.base])
    BY <1>5 DEF TypedIn
  <2> QED BY <1>5, <2>1, <2>2 DEF Typed
<1> QED BY <1>2, <1>3, <1>4, <1>5 DEF Computed

LEMMA TaxFacts ==
  ASSUME NEW inputs, TypedIn(inputs), NEW q, Typed(q.cost), Typed(q.rate), Components(q.expenses)
  PROVE  /\ Amounts(Tax(inputs, q), q)
         /\ IsValid(Tax(inputs, q)) <=>
              /\ q.base \in DOMAIN inputs \cup Computed
              /\ IsValid(q.rate) /\ q.rate.signature = Rate
              /\ IsValid(TaxBase(inputs, q))
              /\ TaxBase(inputs, q).signature = Money(q.currency)
         /\ IsValid(Tax(inputs, q)) =>
              Tax(inputs, q).value = Times(TaxBase(inputs, q).value, At(q.rate))
<1> DEFINE rate == Normalized(q.rate)
           base == TaxBase(inputs, q)
           known == q.base \in DOMAIN inputs \cup Computed
           worst == WorstState(<<rate, base>>)
<1>1. Tax(inputs, q) =
        IF ~known \/ rate.signature # Rate \/ base.signature # Money(q.currency)
        THEN Nonvalid("BLOCKED", Money(q.currency))
        ELSE IF worst # "VALID" THEN Nonvalid(worst, Money(q.currency))
        ELSE Valid(Times(base.value, rate.value), Money(q.currency))
  BY DEF Tax, TaxBase
<1>2. /\ rate.state = q.rate.state /\ rate.signature = q.rate.signature
      /\ rate.state \in States /\ rate.value = At(q.rate)
      /\ IsValid(q.rate) => At(q.rate) \in Numbers
  BY NormalizedFacts, AtType DEF Typed, At
<1>3. known => base.state \in States /\ (IsValid(base) => base.value \in Numbers)
  BY TaxBaseFacts
<1> HIDE DEF rate, base
<1>4. known => worst \in States /\ (worst = "VALID" <=> IsValid(q.rate) /\ IsValid(base))
  BY <1>2, <1>3, WorstOfTwo DEF IsValid
<1> HIDE DEF worst, known
<1>5. CASE ~known \/ rate.signature # Rate \/ base.signature # Money(q.currency)
  <2>1. Tax(inputs, q) = Nonvalid("BLOCKED", Money(q.currency))
    BY <1>1, <1>5
  <2> QED BY <1>2, <1>5, <2>1, NonvalidAmount DEF States, known, base
<1>6. CASE known /\ rate.signature = Rate /\ base.signature = Money(q.currency) /\ worst # "VALID"
  <2>1. Tax(inputs, q) = Nonvalid(worst, Money(q.currency))
    BY <1>1, <1>6
  <2>2. Amounts(Tax(inputs, q), q) /\ ~IsValid(Tax(inputs, q))
    BY <1>4, <1>6, <2>1, NonvalidAmount
  <2> QED BY <1>4, <1>6, <2>2 DEF base
<1>7. CASE known /\ rate.signature = Rate /\ base.signature = Money(q.currency) /\ worst = "VALID"
  <2>1. Tax(inputs, q) = Valid(Times(base.value, At(q.rate)), Money(q.currency))
    BY <1>1, <1>2, <1>7
  <2>2. Times(base.value, At(q.rate)) \in Numbers
    BY <1>2, <1>3, <1>4, <1>7, NumbersClosed
  <2>3. Amounts(Tax(inputs, q), q) /\ IsValid(Tax(inputs, q))
        /\ Tax(inputs, q).value = Times(base.value, At(q.rate))
    BY <2>1, <2>2, ValidFields DEF Amounts, IsValid, States
  <2> QED BY <1>2, <1>4, <1>7, <2>3 DEF base, known
<1> QED BY <1>5, <1>6, <1>7

LEMMA ProfitFacts ==
  ASSUME NEW inputs, TypedIn(inputs), NEW q, Typed(q.cost), Typed(q.rate), Components(q.expenses)
  PROVE  /\ Amounts(Profit(inputs, q), q)
         /\ IsValid(Profit(inputs, q)) <=>
              /\ IsValid(Income(inputs, q)) /\ IsValid(ProductCost(inputs, q))
              /\ IsValid(OtherExpense(inputs, q)) /\ IsValid(Tax(inputs, q))
         /\ IsValid(Profit(inputs, q)) =>
              Profit(inputs, q).value =
                Minus(Minus(Minus(Income(inputs, q).value, ProductCost(inputs, q).value),
                            OtherExpense(inputs, q).value), Tax(inputs, q).value)
<1> PICK a : a = Income(inputs, q)
  OBVIOUS
<1> PICK b : b = ProductCost(inputs, q)
  OBVIOUS
<1> PICK c : c = OtherExpense(inputs, q)
  OBVIOUS
<1> PICK d : d = Tax(inputs, q)
  OBVIOUS
<1>1. Amounts(a, q) /\ Amounts(b, q) /\ Amounts(c, q) /\ Amounts(d, q)
  BY IncomeFacts, ProductCostFacts, OtherExpenseFacts, TaxFacts
<1> DEFINE terms == << <<1, a>>, <<-1, b>>, <<-1, c>>, <<-1, d>> >>
<1>2. Profit(inputs, q) = MoneySum(terms, q)
  BY DEF Profit
<1>3. /\ DOMAIN terms = 1 .. 4
      /\ terms[1] = <<1, a>> /\ terms[2] = <<-1, b>> /\ terms[3] = <<-1, c>> /\ terms[4] = <<-1, d>>
  OBVIOUS
<1> HIDE DEF terms
<1>4. \A i \in 1 .. 4 : terms[i][1] \in Int /\ Amounts(terms[i][2], q)
  <2>1. \A i \in 1 .. 4 : i = 1 \/ i = 2 \/ i = 3 \/ i = 4
    OBVIOUS
  <2> QED BY <1>1, <1>3, <2>1
<1> DEFINE products == [i \in 1 .. 4 |-> Times(Number(terms[i][1]), terms[i][2].value)]
<1>5. /\ Amounts(MoneySum(terms, q), q)
      /\ IsValid(MoneySum(terms, q)) <=> \A i \in 1 .. 4 : IsValid(terms[i][2])
      /\ IsValid(MoneySum(terms, q)) => MoneySum(terms, q).value = SumOf(products)
  <2>1. PICK k \in Nat : k = 4
    OBVIOUS
  <2>2. DOMAIN terms = 1 .. k /\ \A i \in 1 .. k : terms[i][1] \in Int /\ Amounts(terms[i][2], q)
    BY <1>3, <1>4, <2>1
  <2>3. /\ Amounts(MoneySum(terms, q), q)
        /\ IsValid(MoneySum(terms, q)) <=> \A i \in 1 .. k : IsValid(terms[i][2])
        /\ IsValid(MoneySum(terms, q)) =>
             MoneySum(terms, q).value =
               SumOf([i \in 1 .. k |-> Times(Number(terms[i][1]), terms[i][2].value)])
    BY <2>2, MoneySumFacts
  <2> QED BY <2>1, <2>3
<1>6. (\A i \in 1 .. 4 : IsValid(terms[i][2])) <=> IsValid(a) /\ IsValid(b) /\ IsValid(c) /\ IsValid(d)
  <2>1. \A i \in 1 .. 4 : i = 1 \/ i = 2 \/ i = 3 \/ i = 4
    OBVIOUS
  <2> QED BY <1>3, <2>1
<1>7. products = <<Times(Number(1), a.value), Times(Number(-1), b.value),
                   Times(Number(-1), c.value), Times(Number(-1), d.value)>>
  BY <1>3
<1> HIDE DEF products
<1>8. ASSUME IsValid(a), IsValid(b), IsValid(c), IsValid(d)
      PROVE  SumOf(products) = Minus(Minus(Minus(a.value, b.value), c.value), d.value)
  <2>1. /\ a.value \in Numbers /\ b.value \in Numbers /\ c.value \in Numbers /\ d.value \in Numbers
    BY <1>1, <1>8 DEF Amounts
  <2> QED BY <1>7, <2>1, SumOfFour
<1> QED BY <1>2, <1>5, <1>6, <1>8

LEMMA ProfitPerUnitFacts ==
  ASSUME NEW inputs, TypedIn(inputs), NEW q, UnitsAgree(inputs), IsValid(Profit(inputs, q)),
         NEW d \in Int,
         d = Count(inputs, "gross_sales_units") - Count(inputs, "returned_units")
  PROVE  /\ d > 0 => ProfitPerUnit(inputs, q) =
                       Valid(Over(Profit(inputs, q).value, Number(d)), PerItem(q.currency))
         /\ d <= 0 => ProfitPerUnit(inputs, q) = Nonvalid("BLOCKED", PerItem(q.currency))
<1> PICK profit : profit = Profit(inputs, q)
  OBVIOUS
<1> PICK net : net = NetUnits(inputs)
  OBVIOUS
<1>1. net.state = "VALID" /\ net.value = Number(d)
  BY NetUnitsFacts, ValidFields
<1>2. profit.state = "VALID"
  BY DEF IsValid
<1>3. WorstState(<<profit, net>>) = "VALID"
  BY <1>1, <1>2, WorstOfTwo DEF States
<1>4. net.value[1] = d
  BY <1>1 DEF Number
<1>5. ProfitPerUnit(inputs, q) =
        IF net.value[1] <= 0 THEN Nonvalid("BLOCKED", PerItem(q.currency))
        ELSE Valid(Over(profit.value, net.value), PerItem(q.currency))
  BY <1>3 DEF ProfitPerUnit
<1> QED BY <1>1, <1>4, <1>5
-----------------------------------------------------------------------------
(* From a request to its inputs at the calculation scale.                  *)
Parsed(q) == CompensationPrevalidated(q.inputs, q)
Scaled(q) == [n \in DOMAIN Parsed(q) |-> Normalized(Parsed(q)[n])]

(* What the prevalidation asks of a compensation, before any rounding.     *)
PaidExactly(inputs) ==
  /\ Count(inputs, Compensation) >= 0
  /\ Count(inputs, "compensated_returned_units") = 0 => Count(inputs, Compensation) = 0
  /\ Count(inputs, "compensated_returned_units") > 0 => Count(inputs, Compensation) > 0

LEMMA PrevalidatedFacts ==
  ASSUME NEW q, TypedIn(q.inputs)
  PROVE  /\ TypedIn(Parsed(q))
         /\ DOMAIN Parsed(q) = DOMAIN q.inputs
         /\ \A n \in DOMAIN q.inputs : n # Compensation => Parsed(q)[n] = q.inputs[n]
         /\ Given(Parsed(q), Compensation, Money(q.currency)) => Parsed(q) = q.inputs
         /\ Given(q.inputs, "compensated_returned_units", Items) =>
              /\ Given(Parsed(q), Compensation, Money(q.currency)) => PaidExactly(q.inputs)
              /\ Given(q.inputs, Compensation, Money(q.currency)) /\ PaidExactly(q.inputs) =>
                   Parsed(q) = q.inputs
<1> PICK inputs : inputs = q.inputs
  OBVIOUS
<1> DEFINE units == "compensated_returned_units"
           counted == /\ units \in DOMAIN inputs
                      /\ IsValid(inputs[units])
                      /\ inputs[units].signature = Items
           amount == inputs[Compensation].value[1]
           count == inputs[units].value[1]
           wrong == \/ amount < 0
                    \/ counted /\ count = 0 /\ amount # 0
                    \/ counted /\ count > 0 /\ amount <= 0
           blocked == Nonvalid("BLOCKED", Money(q.currency))
           paid == Given(inputs, Compensation, Money(q.currency))
<1>1. Parsed(q) = IF paid /\ wrong THEN [inputs EXCEPT ![Compensation] = blocked] ELSE inputs
  BY DEF Parsed, CompensationPrevalidated, Given
<1>2. counted <=> Given(inputs, units, Items)
  BY DEF Given
<1>3. paid => amount \in Int
  BY DEF Given, TypedIn, Typed, Numbers
<1>4. counted => count \in Int
  BY DEF TypedIn, Typed, Numbers
<1>5. amount = Count(inputs, Compensation) /\ count = Count(inputs, units)
  BY DEF Count
<1>6. counted /\ paid => (wrong <=> ~PaidExactly(inputs))
  BY <1>3, <1>4, <1>5 DEF PaidExactly
<1>7. /\ Typed(blocked) /\ ~IsValid(blocked)
  BY NonvalidFields DEF Typed, IsValid, States
<1>8. Compensation \in DOMAIN inputs \/ ~paid
  BY DEF Given
<1> HIDE DEF counted, wrong, blocked, paid, amount, count, units
<1>9. CASE paid /\ wrong
  <2>1. Parsed(q) = [inputs EXCEPT ![Compensation] = blocked]
    BY <1>1, <1>9
  <2>2. /\ DOMAIN Parsed(q) = DOMAIN inputs /\ Parsed(q)[Compensation] = blocked
        /\ \A n \in DOMAIN inputs : n # Compensation => Parsed(q)[n] = inputs[n]
    BY <1>8, <1>9, <2>1
  <2>3. TypedIn(Parsed(q))
    BY <1>7, <2>2 DEF TypedIn
  <2>4. ~Given(Parsed(q), Compensation, Money(q.currency))
    BY <1>7, <2>2 DEF Given
  <2> QED BY <1>2, <1>6, <1>9, <2>2, <2>3, <2>4 DEF paid, units
<1>10. CASE ~(paid /\ wrong)
  <2>1. Parsed(q) = inputs
    BY <1>1, <1>10
  <2> QED BY <1>2, <1>6, <1>10, <2>1 DEF paid, units
<1> QED BY <1>9, <1>10

LEMMA ScaledFacts ==
  ASSUME NEW q, TypedIn(q.inputs)
  PROVE  /\ TypedIn(Scaled(q))
         /\ DOMAIN Scaled(q) = DOMAIN q.inputs
         /\ \A n, s : Given(Scaled(q), n, s) <=> Given(Parsed(q), n, s)
         /\ \A n \in DOMAIN q.inputs : Scaled(q)[n].value = At(Parsed(q)[n])
         /\ \A n : Given(Parsed(q), n, Items) => Scaled(q)[n] = Parsed(q)[n]
<1>1. TypedIn(Parsed(q)) /\ DOMAIN Parsed(q) = DOMAIN q.inputs
  BY PrevalidatedFacts
<1>2. DOMAIN Scaled(q) = DOMAIN q.inputs
      /\ \A n \in DOMAIN q.inputs : Scaled(q)[n] = Normalized(Parsed(q)[n])
  BY <1>1 DEF Scaled
<1>3. \A n \in DOMAIN q.inputs :
         /\ Typed(Parsed(q)[n]) /\ Typed(Scaled(q)[n])
         /\ Scaled(q)[n].state = Parsed(q)[n].state
         /\ Scaled(q)[n].signature = Parsed(q)[n].signature
         /\ Type(Parsed(q)[n].signature) = "INTEGER" => Scaled(q)[n] = Parsed(q)[n]
  BY <1>1, <1>2, NormalizedFacts DEF TypedIn
<1>4. TypedIn(Scaled(q)) /\ \A n, s : Given(Scaled(q), n, s) <=> Given(Parsed(q), n, s)
  BY <1>1, <1>2, <1>3 DEF TypedIn, Given, IsValid
<1>5. Type(Items) = "INTEGER"
  BY DEF Type, Items
<1>6. \A n : Given(Parsed(q), n, Items) => Scaled(q)[n] = Parsed(q)[n]
  BY <1>1, <1>3, <1>5 DEF Given
<1> QED BY <1>2, <1>4, <1>6 DEF At

(* The kernel calculates from complete and consistent inputs.              *)
Sound(q) ==
  /\ UnitsAgree(q.inputs) /\ AmountsGiven(q.inputs, q) /\ PaidExactly(q.inputs)
  /\ DOMAIN q.inputs = InputNames
  /\ IsValid(q.cost) /\ q.cost.signature = PerItem(q.currency)
  /\ IsValid(q.rate) /\ q.rate.signature = Rate
  /\ ExpensesFit(q)
  /\ q.base \in AmountInputs \cup Computed

LEMMA SoundIsAccepted ==
  ASSUME NEW q, TypedIn(q.inputs)
  PROVE  Complete(q) /\ OracleAccepts(q) <=> Sound(q)
<1> DEFINE N(name) == q.inputs[name].value[1]
<1>1. Complete(q) <=>
        /\ DOMAIN q.inputs = InputNames
        /\ Counted(q.inputs) /\ AmountsGiven(q.inputs, q)
        /\ IsValid(q.cost) /\ q.cost.signature = PerItem(q.currency)
        /\ IsValid(q.rate) /\ q.rate.signature = Rate
        /\ ExpensesFit(q)
        /\ q.base \in AmountInputs \cup Computed
  <2>1. DOMAIN q.inputs = InputNames =>
          /\ Counted(q.inputs) <=> \A n \in UnitInputs : /\ IsValid(q.inputs[n])
                                                         /\ q.inputs[n].signature \in {Items}
          /\ AmountsGiven(q.inputs, q) <=>
               \A n \in AmountInputs : /\ IsValid(q.inputs[n])
                                       /\ q.inputs[n].signature \in {Money(q.currency)}
    BY DEF Counted, AmountsGiven, Given, InputNames
  <2> QED BY <2>1 DEF Complete, ExpensesFit, Fits
<1>2. OracleAccepts(q) <=>
        /\ \A name \in UnitInputs : Count(q.inputs, name) >= 0
        /\ Count(q.inputs, "returned_units") <= Count(q.inputs, "gross_sales_units")
        /\ Count(q.inputs, "resalable_returned_units") + Count(q.inputs, "compensated_returned_units")
             <= Count(q.inputs, "returned_units")
        /\ Count(q.inputs, Compensation) >= 0
        /\ (Count(q.inputs, "compensated_returned_units") = 0) = (Count(q.inputs, Compensation) = 0)
  BY DEF OracleAccepts, Count
<1>3. AmountsGiven(q.inputs, q) => Count(q.inputs, Compensation) \in Int
  BY IncomeNames DEF AmountsGiven, Given, TypedIn, Typed, Numbers, Count
<1>4. Counted(q.inputs) => Count(q.inputs, "compensated_returned_units") \in Int
  BY UnitNames, CountType DEF Counted
<1>5. Counted(q.inputs) /\ AmountsGiven(q.inputs, q) =>
        (OracleAccepts(q) <=> UnitsAgree(q.inputs) /\ PaidExactly(q.inputs))
  BY <1>2, <1>3, <1>4, UnitNames DEF UnitsAgree, PaidExactly
<1> QED BY <1>1, <1>5 DEF Sound, UnitsAgree

(* A VALID profit was calculated from a sound request.                     *)
LEMMA ProfitIsSound ==
  ASSUME NEW q, TypedRequest(q), ~Refuses(q), IsValid(Profit(Scaled(q), q))
  PROVE  Sound(q)
<1> PICK inputs : inputs = Scaled(q)
  OBVIOUS
<1>1. TypedIn(q.inputs) /\ Typed(q.cost) /\ Typed(q.rate) /\ Components(q.expenses)
  BY DEF TypedRequest, TypedIn
<1>2. TypedIn(inputs) /\ DOMAIN inputs = DOMAIN q.inputs
      /\ \A n, s : Given(inputs, n, s) <=> Given(Parsed(q), n, s)
  BY <1>1, ScaledFacts
<1>3. /\ IsValid(Income(inputs, q)) /\ IsValid(ProductCost(inputs, q))
      /\ IsValid(OtherExpense(inputs, q)) /\ IsValid(Tax(inputs, q))
  BY <1>1, <1>2, ProfitFacts
<1>4. UnitsAgree(inputs) /\ IsValid(q.cost) /\ q.cost.signature = PerItem(q.currency)
  BY <1>1, <1>2, <1>3, ProductCostFacts
<1>5. ExpensesFit(q)
  BY <1>1, <1>2, <1>3, OtherExpenseFacts
<1>6. AmountsGiven(inputs, q)
  BY <1>2, <1>3, IncomeFacts
<1>7. Parsed(q) = q.inputs
  BY <1>1, <1>2, <1>6, IncomeNames, PrevalidatedFacts DEF AmountsGiven
<1>8. AmountsGiven(q.inputs, q) /\ Counted(q.inputs)
  BY <1>2, <1>4, <1>6, <1>7 DEF AmountsGiven, UnitsAgree, Counted
<1>9. \A n \in UnitInputs : inputs[n] = q.inputs[n]
  BY <1>1, <1>7, <1>8, ScaledFacts DEF Counted
<1>10. UnitsAgree(q.inputs)
  BY <1>4, <1>8, <1>9, UnitNames DEF UnitsAgree, Count
<1>11. PaidExactly(q.inputs)
  <2>1. Given(q.inputs, "compensated_returned_units", Items)
        /\ Given(Parsed(q), Compensation, Money(q.currency))
    BY <1>7, <1>8, UnitNames, IncomeNames DEF Counted, AmountsGiven
  <2> QED BY <1>1, <2>1, PrevalidatedFacts
<1>12. DOMAIN q.inputs = InputNames
  <2>1. UnitInputs \cup AmountInputs \subseteq DOMAIN q.inputs
    BY <1>8 DEF Counted, AmountsGiven, Given
  <2> QED BY <2>1 DEF Refuses, InputNames
<1>13. /\ IsValid(q.rate) /\ q.rate.signature = Rate
       /\ q.base \in DOMAIN inputs \cup Computed
       /\ TaxBase(inputs, q).signature = Money(q.currency)
  BY <1>1, <1>2, <1>3, TaxFacts
<1>14. q.base \in AmountInputs \cup Computed
  <2> SUFFICES ASSUME q.base \notin Computed, q.base \in UnitInputs PROVE FALSE
    BY <1>2, <1>12, <1>13 DEF InputNames
  <2>1. TaxBase(inputs, q) = inputs[q.base]
    BY DEF TaxBase, Computed
  <2>2. inputs[q.base].signature = Items
    BY <1>4 DEF UnitsAgree, Counted, Given
  <2>3. Items # Money(q.currency)
    BY DEF Items, Money
  <2> QED BY <1>13, <2>1, <2>2, <2>3
<1> QED BY <1>4, <1>5, <1>8, <1>10, <1>11, <1>12, <1>13, <1>14 DEF Sound

(* The inputs of a sound request, at the calculation scale, are sound:     *)
(* rounding keeps a compensation from becoming negative, and a zero zero.  *)
LEMMA SoundScaled ==
  ASSUME NEW q, TypedRequest(q), Sound(q)
  PROVE  /\ TypedIn(Scaled(q)) /\ DOMAIN Scaled(q) = InputNames
         /\ UnitsAgree(Scaled(q)) /\ AmountsGiven(Scaled(q), q) /\ Payable(Scaled(q))
         /\ \A n \in InputNames : Scaled(q)[n].value = At(q.inputs[n])
         /\ \A n \in UnitInputs : Scaled(q)[n] = q.inputs[n]
<1>1. TypedIn(q.inputs)
  BY DEF TypedRequest, TypedIn
<1>2. /\ Given(q.inputs, "compensated_returned_units", Items)
      /\ Given(q.inputs, Compensation, Money(q.currency))
  BY UnitNames, IncomeNames DEF Sound, UnitsAgree, Counted, AmountsGiven
<1>3. Parsed(q) = q.inputs
  BY <1>1, <1>2, PrevalidatedFacts DEF Sound
<1> PICK inputs : inputs = Scaled(q)
  OBVIOUS
<1>4. /\ TypedIn(inputs) /\ DOMAIN inputs = InputNames
      /\ \A n, s : Given(inputs, n, s) <=> Given(q.inputs, n, s)
      /\ \A n \in InputNames : inputs[n].value = At(q.inputs[n])
      /\ \A n : Given(q.inputs, n, Items) => inputs[n] = q.inputs[n]
  BY <1>1, <1>3, ScaledFacts DEF Sound
<1>5. \A n \in UnitInputs : inputs[n] = q.inputs[n]
  BY <1>4 DEF Sound, UnitsAgree, Counted
<1>6. UnitsAgree(inputs) /\ AmountsGiven(inputs, q)
  BY <1>4, <1>5, UnitNames DEF Sound, UnitsAgree, Counted, AmountsGiven, Count
<1>7. Payable(inputs)
  <2> PICK a : a = q.inputs[Compensation].value
    OBVIOUS
  <2>1. a \in Numbers /\ a[1] = Count(q.inputs, Compensation)
    BY <1>1, <1>2 DEF TypedIn, Given, Typed, Count
  <2>2. At(q.inputs[Compensation]) = Quantized(a, Policy.mode, Policy.calculation)
    <3>1. Type(Money(q.currency)) = "MONEY"
      BY DEF Type, Money
    <3>2. Normalized(q.inputs[Compensation]) =
            Valid(Quantized(a, Policy.mode, Policy.calculation), Money(q.currency))
      BY <1>2, <3>1 DEF Given, Normalized
    <3> QED BY <3>2, ValidFields DEF At
  <2>3. Count(inputs, Compensation) = At(q.inputs[Compensation])[1]
    <3>1. Compensation \in InputNames
      BY IncomeNames DEF InputNames
    <3> QED BY <1>4, <3>1 DEF Count
  <2>4. a[1] >= 0 => Quantized(a, Policy.mode, Policy.calculation)[1] >= 0
    BY <2>1, PolicyAssumption, QuantizedType
  <2>5. a[1] = 0 => Quantized(a, Policy.mode, Policy.calculation)[1] = 0
    BY <2>1, PolicyAssumption, QuantizedZero
  <2>6. /\ Count(inputs, "compensated_returned_units") = Count(q.inputs, "compensated_returned_units")
        /\ Count(inputs, "compensated_returned_units") >= 0
    BY <1>5, <1>6, UnitNames DEF Count, UnitsAgree
  <2> QED BY <2>1, <2>2, <2>3, <2>4, <2>5, <2>6 DEF Payable, Sound, PaidExactly
<1> QED BY <1>4, <1>5, <1>6, <1>7

(* The amounts of the reference, before they are rounded.                  *)
OracleNet(q) == Minus(At(q.inputs["gross_sales_units"]), At(q.inputs["returned_units"]))
OracleCost(q) ==
  Times(At(q.cost), Minus(At(q.inputs["gross_sales_units"]), At(q.inputs["resalable_returned_units"])))
OracleOther(q) ==
  SumOf([i \in DOMAIN q.expenses |-> ExpenseOf(q.expenses[i].value, OracleNet(q))])
OracleIncome(q) ==
  SumOf([i \in DOMAIN IncomeTerms |->
           Times(Number(IncomeTerms[i][1]), At(q.inputs[IncomeTerms[i][2]]))])
OracleBase(q) ==
  CASE q.base = "net_marketplace_income_amount" -> OracleIncome(q)
    [] q.base = "product_cost_amount"           -> OracleCost(q)
    [] q.base = "other_expense_amount"          -> OracleOther(q)
    [] OTHER -> At(q.inputs[q.base])
OracleTax(q) == Times(OracleBase(q), At(q.rate))
OracleProfit(q) == Minus(Minus(Minus(OracleIncome(q), OracleCost(q)), OracleOther(q)), OracleTax(q))

Gives(x, number) == IsValid(x) /\ x.value = number

LEMMA SoundAgrees ==
  ASSUME NEW q, TypedRequest(q), Sound(q), NEW inputs, inputs = Scaled(q)
  PROVE  /\ Gives(NetUnits(inputs), OracleNet(q))
         /\ Gives(ProductCost(inputs, q), OracleCost(q))
         /\ Gives(OtherExpense(inputs, q), OracleOther(q))
         /\ Gives(Income(inputs, q), OracleIncome(q))
         /\ Gives(Tax(inputs, q), OracleTax(q))
         /\ Gives(Profit(inputs, q), OracleProfit(q))
         /\ OracleNet(q)[1] > 0 =>
              ProfitPerUnit(inputs, q) = Valid(Over(OracleProfit(q), OracleNet(q)), PerItem(q.currency))
         /\ ~(OracleNet(q)[1] > 0) =>
              ProfitPerUnit(inputs, q) = Nonvalid("BLOCKED", PerItem(q.currency))
<1>1. Typed(q.cost) /\ Typed(q.rate) /\ Components(q.expenses)
  BY DEF TypedRequest
<1>2. /\ TypedIn(inputs) /\ DOMAIN inputs = InputNames
      /\ UnitsAgree(inputs) /\ AmountsGiven(inputs, q) /\ Payable(inputs)
      /\ \A n \in InputNames : inputs[n].value = At(q.inputs[n])
  BY SoundScaled
<1> PICK g : g = Count(inputs, "gross_sales_units")
  OBVIOUS
<1> PICK r : r = Count(inputs, "returned_units")
  OBVIOUS
<1> PICK s : s = Count(inputs, "resalable_returned_units")
  OBVIOUS
<1>3. /\ g \in Int /\ r \in Int /\ s \in Int
      /\ At(q.inputs["gross_sales_units"]) = Number(g)
      /\ At(q.inputs["returned_units"]) = Number(r)
      /\ At(q.inputs["resalable_returned_units"]) = Number(s)
  BY <1>2, UnitNames, CountType DEF UnitsAgree, Counted, InputNames
<1>4. /\ OracleNet(q) = Number(g - r)
      /\ OracleCost(q) = Times(At(q.cost), Number(g - s))
  <2>1. Minus(Number(g), Number(r)) = Number(g - r) /\ Minus(Number(g), Number(s)) = Number(g - s)
    BY <1>3 DEF Minus, Plus, Number
  <2> QED BY <1>3, <2>1 DEF OracleNet, OracleCost
<1>5. Gives(NetUnits(inputs), OracleNet(q))
  BY <1>2, <1>4, NetUnitsFacts, ValidFields DEF Gives, IsValid
<1>6. Gives(ProductCost(inputs, q), OracleCost(q))
  <2>1. /\ IsValid(ProductCost(inputs, q))
        /\ ProductCost(inputs, q).value = Times(Number(g - s), At(q.cost))
    BY <1>1, <1>2, ProductCostFacts DEF Sound
  <2>2. Number(g - s) \in Numbers /\ At(q.cost) \in Numbers
    <3>1. g - s \in Int
      BY <1>3
    <3> QED BY <1>1, <3>1, NumberType, AtType DEF Sound
  <2> QED BY <1>4, <2>1, <2>2, TimesCommutes DEF Gives
<1>7. Gives(OtherExpense(inputs, q), OracleOther(q))
  <2>1. /\ IsValid(OtherExpense(inputs, q))
        /\ OtherExpense(inputs, q).value =
             SumOf([i \in DOMAIN q.expenses |-> ExpenseOf(q.expenses[i].value, Number(g - r))])
    BY <1>1, <1>2, OtherExpenseFacts DEF Sound
  <2> QED BY <1>4, <2>1 DEF Gives, OracleOther
<1>8. Gives(Income(inputs, q), OracleIncome(q))
  <2>1. Given(inputs, "compensated_returned_units", Items)
    BY <1>2, UnitNames DEF UnitsAgree, Counted
  <2>2. /\ IsValid(Income(inputs, q))
        /\ Income(inputs, q).value =
             SumOf([i \in 1 .. 10 |-> Times(Number(IncomeTerms[i][1]),
                                            inputs[IncomeTerms[i][2]].value)])
    BY <1>2, <2>1, IncomeFacts
  <2>3. \A i \in 1 .. 10 : inputs[IncomeTerms[i][2]].value = At(q.inputs[IncomeTerms[i][2]])
    BY <1>2, IncomeNames DEF InputNames
  <2>4. [i \in 1 .. 10 |-> Times(Number(IncomeTerms[i][1]), inputs[IncomeTerms[i][2]].value)]
          = [i \in DOMAIN IncomeTerms |->
               Times(Number(IncomeTerms[i][1]), At(q.inputs[IncomeTerms[i][2]]))]
    BY <2>3, IncomeNames
  <2> QED BY <2>2, <2>4 DEF Gives, OracleIncome
<1>9. Gives(Tax(inputs, q), OracleTax(q))
  <2>1. /\ IsValid(TaxBase(inputs, q)) /\ TaxBase(inputs, q).signature = Money(q.currency)
        /\ TaxBase(inputs, q).value = OracleBase(q)
    <3>1. /\ Amounts(Income(inputs, q), q) /\ Amounts(ProductCost(inputs, q), q)
          /\ Amounts(OtherExpense(inputs, q), q)
      BY <1>1, <1>2, IncomeFacts, ProductCostFacts, OtherExpenseFacts
    <3>2. CASE q.base = "net_marketplace_income_amount"
      BY <1>8, <3>1, <3>2 DEF TaxBase, OracleBase, Gives, Amounts
    <3>3. CASE q.base = "product_cost_amount"
      BY <1>6, <3>1, <3>3 DEF TaxBase, OracleBase, Gives, Amounts
    <3>4. CASE q.base = "other_expense_amount"
      BY <1>7, <3>1, <3>4 DEF TaxBase, OracleBase, Gives, Amounts
    <3>5. CASE q.base \notin Computed
      <4>1. TaxBase(inputs, q) = inputs[q.base] /\ OracleBase(q) = At(q.inputs[q.base])
        BY <3>5 DEF TaxBase, OracleBase, Computed
      <4>2. q.base \in AmountInputs /\ q.base \in InputNames
        BY <3>5 DEF Sound, InputNames
      <4> QED BY <1>2, <4>1, <4>2 DEF AmountsGiven, Given
    <3> QED BY <3>2, <3>3, <3>4, <3>5 DEF Computed
  <2>2. q.base \in DOMAIN inputs \cup Computed
    BY <1>2 DEF Sound, InputNames
  <2> QED BY <1>1, <1>2, <2>1, <2>2, TaxFacts DEF Sound, Gives, OracleTax
<1>10. Gives(Profit(inputs, q), OracleProfit(q))
  BY <1>1, <1>2, <1>6, <1>7, <1>8, <1>9, ProfitFacts DEF Gives, OracleProfit
<1>11. OracleNet(q)[1] = g - r
  BY <1>4 DEF Number
<1>12. PICK d \in Int : d = g - r
  BY <1>3
<1>13. /\ d > 0 => ProfitPerUnit(inputs, q) =
                     Valid(Over(Profit(inputs, q).value, Number(d)), PerItem(q.currency))
       /\ d <= 0 => ProfitPerUnit(inputs, q) = Nonvalid("BLOCKED", PerItem(q.currency))
  BY <1>2, <1>10, <1>12, ProfitPerUnitFacts DEF Gives
<1>14. Profit(inputs, q).value = OracleProfit(q)
  BY <1>10 DEF Gives
<1>15. /\ OracleNet(q)[1] > 0 =>
            ProfitPerUnit(inputs, q) = Valid(Over(OracleProfit(q), OracleNet(q)), PerItem(q.currency))
       /\ ~(OracleNet(q)[1] > 0) =>
            ProfitPerUnit(inputs, q) = Nonvalid("BLOCKED", PerItem(q.currency))
  BY <1>4, <1>11, <1>12, <1>13, <1>14
<1> QED BY <1>5, <1>6, <1>7, <1>8, <1>9, <1>10, <1>15

InMoney(number) == Quantized(number, Policy.mode, Policy.money)

LEMMA OracleFields ==
  ASSUME NEW q, TypedRequest(q), Sound(q)
  PROVE  Oracle(AtCalculationScale(q)) =
           [net |-> OracleNet(q), cost |-> InMoney(OracleCost(q)), other |-> InMoney(OracleOther(q)),
            tax |-> InMoney(OracleTax(q)), income |-> InMoney(OracleIncome(q)),
            profit |-> InMoney(OracleProfit(q)),
            perUnit |-> IF OracleNet(q)[1] > 0 THEN InMoney(Over(OracleProfit(q), OracleNet(q)))
                        ELSE << >>]
<1> PICK s : s = AtCalculationScale(q)
  OBVIOUS
<1>1. /\ s.inputs = [n \in DOMAIN q.inputs |-> Normalized(q.inputs[n])]
      /\ s.cost = Normalized(q.cost) /\ s.rate = Normalized(q.rate) /\ s.base = q.base
      /\ s.expenses = [i \in DOMAIN q.expenses |->
                         [id |-> q.expenses[i].id, value |-> Normalized(q.expenses[i].value)]]
  BY DEF AtCalculationScale, TypedRequest
<1>2. /\ s.cost.value = At(q.cost) /\ s.rate.value = At(q.rate)
      /\ \A n \in InputNames : s.inputs[n].value = At(q.inputs[n])
  BY <1>1 DEF At, Sound
<1>3. /\ s.inputs["gross_sales_units"].value = At(q.inputs["gross_sales_units"])
      /\ s.inputs["returned_units"].value = At(q.inputs["returned_units"])
      /\ s.inputs["resalable_returned_units"].value = At(q.inputs["resalable_returned_units"])
  BY <1>2 DEF InputNames, UnitInputs
<1>4. ASSUME NEW i \in DOMAIN q.expenses
      PROVE  LET x == s.expenses[i].value
             IN (IF x.signature[2] = "MONEY_PER_ITEM" THEN Times(x.value, OracleNet(q)) ELSE x.value)
                = ExpenseOf(q.expenses[i].value, OracleNet(q))
  <2>1. Typed(q.expenses[i].value)
    BY DEF TypedRequest, Components
  <2>2. Normalized(q.expenses[i].value).signature = q.expenses[i].value.signature
    BY <2>1, NormalizedFacts
  <2> QED BY <1>1, <2>2 DEF ExpenseOf, At
<1>5. SumOf([i \in DOMAIN s.expenses |->
               LET x == s.expenses[i].value
               IN IF x.signature[2] = "MONEY_PER_ITEM" THEN Times(x.value, OracleNet(q))
                                                       ELSE x.value])
      = OracleOther(q)
  <2>1. DOMAIN s.expenses = DOMAIN q.expenses
    BY <1>1
  <2>2. [i \in DOMAIN s.expenses |->
           LET x == s.expenses[i].value
           IN IF x.signature[2] = "MONEY_PER_ITEM" THEN Times(x.value, OracleNet(q)) ELSE x.value]
        = [i \in DOMAIN q.expenses |-> ExpenseOf(q.expenses[i].value, OracleNet(q))]
    BY <1>4, <2>1
  <2> QED BY <2>2 DEF OracleOther
<1>6. SumOf([i \in DOMAIN IncomeTerms |->
               Times(Number(IncomeTerms[i][1]), s.inputs[IncomeTerms[i][2]].value)])
      = OracleIncome(q)
  <2>1. \A i \in DOMAIN IncomeTerms : IncomeTerms[i][2] \in InputNames
    BY DEF AmountInputs, InputNames
  <2>2. [i \in DOMAIN IncomeTerms |->
           Times(Number(IncomeTerms[i][1]), s.inputs[IncomeTerms[i][2]].value)]
        = [i \in DOMAIN IncomeTerms |->
             Times(Number(IncomeTerms[i][1]), At(q.inputs[IncomeTerms[i][2]]))]
    BY <1>2, <2>1
  <2> QED BY <2>2 DEF OracleIncome
<1>7. (CASE s.base = "net_marketplace_income_amount" -> OracleIncome(q)
        [] s.base = "product_cost_amount"           -> OracleCost(q)
        [] s.base = "other_expense_amount"          -> OracleOther(q)
        [] OTHER -> s.inputs[s.base].value) = OracleBase(q)
  BY <1>1, <1>2 DEF OracleBase, Sound, Computed, InputNames
<1> QED BY <1>1, <1>2, <1>3, <1>5, <1>6, <1>7
        DEF Oracle, OracleNet, OracleCost, OracleTax, OracleProfit, InMoney

LEMMA PublishedFacts ==
  \A x : /\ Published(x).state = x.state
         /\ IsValid(x) => Published(x).value = InMoney(x.value)
BY ValidFields DEF Published, IsValid, InMoney

-----------------------------------------------------------------------------
(* What AgreesWithOracle says of a request and its results.                *)
Matches(q, c) ==
  LET o == Oracle(AtCalculationScale(q))
  IN IF Complete(q) /\ OracleAccepts(q)
     THEN /\ <<c.net_sold_units.value, c.product_cost_amount.value,
               c.other_expense_amount.value, c.tax_amount.value,
               c.net_marketplace_income_amount.value, c.net_profit_amount.value,
               c.profit_per_sold_unit.value>>
             = <<o.net, o.cost, o.other, o.tax, o.income, o.profit, o.perUnit>>
          /\ c.profit_per_sold_unit.state = IF o.net[1] > 0 THEN "VALID" ELSE "BLOCKED"
     ELSE c.net_profit_amount.state # "VALID"

(* One calculation agrees with the reference.                              *)
LEMMA CalculationAgrees ==
  ASSUME NEW q, TypedRequest(q), ~Refuses(q)
  PROVE  Matches(q, Calculation(q))
<1> PICK inputs : inputs = Scaled(q)
  OBVIOUS
<1> PICK c : c = Calculation(q)
  OBVIOUS
<1>1. /\ c.net_sold_units = NetUnits(inputs)
      /\ c.product_cost_amount = Published(ProductCost(inputs, q))
      /\ c.other_expense_amount = Published(OtherExpense(inputs, q))
      /\ c.tax_amount = Published(Tax(inputs, q))
      /\ c.net_marketplace_income_amount = Published(Income(inputs, q))
      /\ c.net_profit_amount = Published(Profit(inputs, q))
      /\ c.profit_per_sold_unit = Published(ProfitPerUnit(inputs, q))
  BY DEF Calculation, Scaled, Parsed
<1>2. Complete(q) /\ OracleAccepts(q) <=> Sound(q)
  <2>1. TypedIn(q.inputs)
    BY DEF TypedRequest, TypedIn
  <2> QED BY <2>1, SoundIsAccepted
<1>3. CASE Sound(q)
  <2>1. /\ Gives(NetUnits(inputs), OracleNet(q))
        /\ Gives(ProductCost(inputs, q), OracleCost(q))
        /\ Gives(OtherExpense(inputs, q), OracleOther(q))
        /\ Gives(Income(inputs, q), OracleIncome(q))
        /\ Gives(Tax(inputs, q), OracleTax(q))
        /\ Gives(Profit(inputs, q), OracleProfit(q))
    BY <1>3, SoundAgrees
  <2>2. /\ OracleNet(q)[1] > 0 =>
             ProfitPerUnit(inputs, q) = Valid(Over(OracleProfit(q), OracleNet(q)), PerItem(q.currency))
        /\ ~(OracleNet(q)[1] > 0) =>
             ProfitPerUnit(inputs, q) = Nonvalid("BLOCKED", PerItem(q.currency))
    BY <1>3, SoundAgrees
  <2> PICK o : o = Oracle(AtCalculationScale(q))
    OBVIOUS
  <2>3. /\ o.net = OracleNet(q) /\ o.cost = InMoney(OracleCost(q))
        /\ o.other = InMoney(OracleOther(q)) /\ o.tax = InMoney(OracleTax(q))
        /\ o.income = InMoney(OracleIncome(q)) /\ o.profit = InMoney(OracleProfit(q))
        /\ o.perUnit = IF OracleNet(q)[1] > 0 THEN InMoney(Over(OracleProfit(q), OracleNet(q)))
                       ELSE << >>
    BY <1>3, OracleFields
  <2>4. /\ c.net_sold_units.value = o.net /\ c.product_cost_amount.value = o.cost
        /\ c.other_expense_amount.value = o.other /\ c.tax_amount.value = o.tax
        /\ c.net_marketplace_income_amount.value = o.income
        /\ c.net_profit_amount.value = o.profit
    BY <1>1, <2>1, <2>3, PublishedFacts DEF Gives
  <2>5. /\ c.profit_per_sold_unit.value = o.perUnit
        /\ c.profit_per_sold_unit.state = IF o.net[1] > 0 THEN "VALID" ELSE "BLOCKED"
    <3>1. CASE OracleNet(q)[1] > 0
      <4>1. ProfitPerUnit(inputs, q).state = "VALID"
            /\ ProfitPerUnit(inputs, q).value = Over(OracleProfit(q), OracleNet(q))
        BY <2>2, <3>1, ValidFields
      <4> QED BY <1>1, <2>3, <3>1, <4>1, PublishedFacts DEF IsValid
    <3>2. CASE ~(OracleNet(q)[1] > 0)
      <4>1. ProfitPerUnit(inputs, q).state = "BLOCKED"
            /\ ProfitPerUnit(inputs, q).value = << >>
        BY <2>2, <3>2 DEF Nonvalid
      <4>2. Published(ProfitPerUnit(inputs, q)) = ProfitPerUnit(inputs, q)
        BY <4>1 DEF Published, IsValid
      <4> QED BY <1>1, <2>3, <3>2, <4>1, <4>2
    <3> QED BY <3>1, <3>2
  <2>6. Matches(q, c)
    BY <1>2, <1>3, <2>4, <2>5 DEF Matches
  <2> QED BY <2>6
<1>4. CASE ~Sound(q)
  <2>1. ~IsValid(Profit(inputs, q))
    BY <1>4, ProfitIsSound
  <2>2. c.net_profit_amount.state # "VALID"
    BY <1>1, <2>1, PublishedFacts DEF IsValid
  <2>3. Matches(q, c)
    BY <1>2, <1>4, <2>2 DEF Matches
  <2> QED BY <2>3
<1> QED BY <1>3, <1>4

(* The request is typed, and its results are those of its calculation.     *)
KernelInv ==
  /\ TypedRequest(request)
  /\ calculated.outcome = "calculated" =>
       calculated = Calculation(request) /\ ~Refuses(request)

LEMMA EditedIsTyped ==
  ASSUME NEW q, TypedRequest(q), NEW e \in Edits
  PROVE  TypedRequest(Edited(q, e))
<1> PICK p : p = Edited(q, e)
  OBVIOUS
<1>1. CASE e.part # "inputs"
  <2>1. p = [q EXCEPT ![e.part] = e.value]
    BY <1>1 DEF Edited
  <2>2. /\ DOMAIN p = DOMAIN q
        /\ \A f \in DOMAIN q : p[f] = IF f = e.part THEN e.value ELSE q[f]
    BY <2>1
  <2>3. /\ p.inputs = q.inputs
        /\ p.cost = IF e.part = "cost" THEN e.value ELSE q.cost
        /\ p.rate = IF e.part = "rate" THEN e.value ELSE q.rate
        /\ p.expenses = IF e.part = "expenses" THEN e.value ELSE q.expenses
    BY <1>1, <2>2 DEF TypedRequest
  <2> QED BY <2>2, <2>3, EditsAssumption DEF TypedRequest
<1>2. CASE e.part = "inputs"
  <2>1. /\ e.value = << >> => p = [q EXCEPT !.inputs = [n \in DOMAIN q.inputs \ {e.name} |-> q.inputs[n]]]
        /\ e.value # << >> =>
             p = [q EXCEPT !.inputs = [n \in DOMAIN q.inputs \cup {e.name} |->
                                         IF n = e.name THEN e.value[1] ELSE q.inputs[n]]]
    BY <1>2 DEF Edited
  <2> PICK new : new = p.inputs
    OBVIOUS
  <2>2. /\ DOMAIN p = DOMAIN q /\ p.cost = q.cost /\ p.rate = q.rate /\ p.expenses = q.expenses
        /\ e.value = << >> => new = [n \in DOMAIN q.inputs \ {e.name} |-> q.inputs[n]]
        /\ e.value # << >> => new = [n \in DOMAIN q.inputs \cup {e.name} |->
                                       IF n = e.name THEN e.value[1] ELSE q.inputs[n]]
    BY <2>1 DEF TypedRequest
  <2>3. \A n \in DOMAIN new : Typed(new[n])
    BY <1>2, <2>2, EditsAssumption DEF TypedRequest
  <2> QED BY <2>2, <2>3 DEF TypedRequest
<1> QED BY <1>1, <1>2

LEMMA KernelInvInductive ==
  /\ KernelInit => KernelInv
  /\ KernelInv /\ [KernelNext]_kernelVars => KernelInv'
<1>1. KernelInit => KernelInv
  BY RequestAssumption DEF KernelInit, KernelInv, Pending
<1>2. ASSUME KernelInv, Calculate PROVE KernelInv'
  BY <1>2 DEF KernelInv, Calculate, Refused
<1>3. ASSUME KernelInv, NEW e \in Edits, Edit(e) PROVE KernelInv'
  <2>1. TypedRequest(request)'
    BY <1>3, EditedIsTyped DEF KernelInv, Edit
  <2> QED BY <1>3, <2>1 DEF KernelInv, Edit, Pending
<1>4. ASSUME KernelInv, UNCHANGED kernelVars PROVE KernelInv'
  BY <1>4 DEF KernelInv, kernelVars
<1> QED BY <1>1, <1>2, <1>3, <1>4 DEF KernelNext

(* In every state the kernel publishes a profit exactly for the requests   *)
(* the reference accepts, and its metrics are then the reference's on the  *)
(* amounts at calculation scale, whatever the request, the edits and the   *)
(* rounding policy.                                                        *)
THEOREM KernelAgreesWithOracle == KernelSpec => []AgreesWithOracle
<1>1. KernelInv => AgreesWithOracle
  <2> SUFFICES ASSUME KernelInv, calculated.outcome = "calculated"
               PROVE  Matches(request, calculated)
    BY DEF AgreesWithOracle, Matches
  <2> QED BY CalculationAgrees DEF KernelInv
<1> QED BY <1>1, KernelInvInductive, PTL DEF KernelSpec
-----------------------------------------------------------------------------
(* Expressions.  The trees to a height are a recursive function of it.     *)
Levels(g, n) ==
  g = [h \in 0 .. n |-> IF h = 0 THEN Simple ELSE Simple \cup OperationsOn(g[h - 1])]

LEMMA LevelsExist ==
  ASSUME NEW n \in Nat
  PROVE  \E g : Levels(g, n)
<1> DEFINE T == {m \in 0 .. n : \E g : Levels(g, m)}
<1>1. 0 \in T
  <2>1. Levels([h \in 0 .. 0 |-> Simple], 0)
    BY DEF Levels
  <2> QED BY <2>1
<1>2. ASSUME NEW m \in 1 .. n, m - 1 \in T PROVE m \in T
  <2>1. PICK f : Levels(f, m - 1)
    BY <1>2
  <2> DEFINE top == Simple \cup OperationsOn(f[m - 1])
             g == [h \in 0 .. m |-> IF h < m THEN f[h] ELSE top]
  <2>2. g[m] = top /\ \A h \in 0 .. (m - 1) : g[h] = f[h]
    OBVIOUS
  <2>3. f[0] = Simple /\ \A h \in 1 .. (m - 1) : f[h] = Simple \cup OperationsOn(f[h - 1])
    <3>1. \A h \in 0 .. (m - 1) :
            f[h] = IF h = 0 THEN Simple ELSE Simple \cup OperationsOn(f[h - 1])
      BY <2>1 DEF Levels
    <3>2. 0 \in 0 .. (m - 1) /\ \A h \in 1 .. (m - 1) : h \in 0 .. (m - 1) /\ h # 0
      OBVIOUS
    <3> QED BY <3>1, <3>2
  <2>4. DOMAIN g = 0 .. m /\ g = [h \in 0 .. m |-> g[h]]
    OBVIOUS
  <2> HIDE DEF g
  <2>5. ASSUME NEW h \in 0 .. m
        PROVE  g[h] = IF h = 0 THEN Simple ELSE Simple \cup OperationsOn(g[h - 1])
    <3>1. CASE h = m
      <4>1. h # 0 /\ h - 1 = m - 1 /\ m - 1 \in 0 .. (m - 1)
        BY <3>1
      <4>2. g[h - 1] = f[m - 1]
        BY <2>2, <4>1
      <4> QED BY <2>2, <3>1, <4>1, <4>2
    <3>2. CASE h = 0 /\ h # m
      <4>1. h \in 0 .. (m - 1)
        BY <3>2
      <4> QED BY <2>2, <2>3, <3>2, <4>1
    <3>3. CASE h # 0 /\ h # m
      <4>1. h \in 1 .. (m - 1) /\ h \in 0 .. (m - 1) /\ h - 1 \in 0 .. (m - 1)
        BY <3>3
      <4>2. g[h] = f[h] /\ g[h - 1] = f[h - 1]
        BY <2>2, <4>1
      <4> QED BY <2>3, <3>3, <4>1, <4>2
    <3> QED BY <3>1, <3>2, <3>3
  <2>6. Levels(g, m)
    BY <2>4, <2>5 DEF Levels
  <2> QED BY <2>6
<1> HIDE DEF T
<1>3. \A m \in 1 .. n : m - 1 \in T => m \in T
  BY <1>2
<1>4. n \in T
  <2>1. n \in 0 .. n
    OBVIOUS
  <2> QED BY <1>1, <1>3, <2>1, UptoInduction
<1> QED BY <1>4 DEF T

LEMMA TreesToFacts ==
  /\ TreesTo[0] = Simple
  /\ \A n \in 1 .. BuildLimit : TreesTo[n] = Simple \cup OperationsOn(TreesTo[n - 1])
<1>1. \E g : Levels(g, BuildLimit)
  BY LevelsExist, ExpressionAssumption
<1>2. TreesTo = CHOOSE g : Levels(g, BuildLimit)
  BY DEF TreesTo, Levels
<1>3. Levels(TreesTo, BuildLimit)
  BY <1>1, <1>2
<1> QED BY <1>3, ExpressionAssumption DEF Levels

(* A tree is a leaf, or an operation on trees of lesser height.            *)
LEMMA TreeShapes ==
  ASSUME NEW n \in 0 .. BuildLimit, NEW t \in TreesTo[n]
  PROVE  \/ t \in Simple /\ ~IsOperation(t)
         \/ /\ IsOperation(t) /\ n - 1 \in 0 .. BuildLimit /\ n # 0
            /\ t \in OperationsOn(TreesTo[n - 1])
            /\ t.operator \in Operators /\ t.signature \in Declared
            /\ t.arguments \in Seq(TreesTo[n - 1])
            /\ DOMAIN t.arguments = 1 .. Len(t.arguments) /\ Len(t.arguments) \in Nat
            /\ \A i \in DOMAIN t.arguments : t.arguments[i] \in TreesTo[n - 1]
<1>1. CASE t \in Simple
  BY <1>1, ExpressionAssumption DEF Simple, IsOperation
<1>2. CASE t \notin Simple
  <2>1. n # 0 /\ t \in OperationsOn(TreesTo[n - 1])
    BY <1>2, TreesToFacts, ExpressionAssumption
  <2>2. /\ t.kind = "OPERATION" /\ t.operator \in Operators /\ t.signature \in Declared
        /\ t.arguments \in Seq(TreesTo[n - 1])
    BY <2>1 DEF OperationsOn
  <2>3. n - 1 \in 0 .. BuildLimit
    BY <2>1, ExpressionAssumption
  <2> QED BY <2>1, <2>2, <2>3 DEF IsOperation
<1> QED BY <1>1, <1>2

LEMMA SimpleInAll ==
  ASSUME NEW n \in 0 .. BuildLimit
  PROVE  Simple \subseteq TreesTo[n]
BY TreesToFacts, ExpressionAssumption

LEMMA SeqGrows ==
  ASSUME NEW S, NEW T, S \subseteq T
  PROVE  OperationsOn(S) \subseteq OperationsOn(T)
<1>1. Seq(S) \subseteq Seq(T)
  OBVIOUS
<1> QED BY <1>1 DEF OperationsOn

LEMMA TreesGrow ==
  \A n \in 1 .. BuildLimit : TreesTo[n - 1] \subseteq TreesTo[n]
<1> DEFINE T == {n \in 0 .. BuildLimit : n = 0 \/ TreesTo[n - 1] \subseteq TreesTo[n]}
<1>1. 0 \in T
  BY ExpressionAssumption
<1>2. ASSUME NEW n \in 1 .. BuildLimit, n - 1 \in T PROVE n \in T
  <2>1. CASE n = 1
    BY <2>1, TreesToFacts, ExpressionAssumption
  <2>2. CASE n # 1
    <3>1. n - 1 \in 1 .. BuildLimit /\ n - 1 # 0 /\ (n - 1) - 1 = n - 2 /\ n - 2 \in Int
      BY <2>2, ExpressionAssumption
    <3>2. TreesTo[n - 2] \subseteq TreesTo[n - 1]
      BY <1>2, <3>1
    <3>3. /\ TreesTo[n] = Simple \cup OperationsOn(TreesTo[n - 1])
          /\ TreesTo[n - 1] = Simple \cup OperationsOn(TreesTo[n - 2])
      BY <3>1, TreesToFacts
    <3>4. OperationsOn(TreesTo[n - 2]) \subseteq OperationsOn(TreesTo[n - 1])
      BY <3>2, SeqGrows
    <3>5. TreesTo[n - 1] \subseteq TreesTo[n] /\ n \in 0 .. BuildLimit
      BY <3>3, <3>4
    <3> QED BY <3>5
  <2> QED BY <2>1, <2>2
<1> HIDE DEF T
<1>3. \A n \in 0 .. BuildLimit : n \in T
  <2>1. \A n \in 1 .. BuildLimit : n - 1 \in T => n \in T
    BY <1>2
  <2> QED BY <1>1, <2>1, UptoInduction, ExpressionAssumption
<1>4. ASSUME NEW n \in 1 .. BuildLimit PROVE TreesTo[n - 1] \subseteq TreesTo[n]
  <2>1. n \in 0 .. BuildLimit /\ n # 0
    OBVIOUS
  <2> QED BY <1>3, <2>1 DEF T
<1> QED BY <1>4

LEMMA TreesInTrees ==
  \A n \in 0 .. BuildLimit : TreesTo[n] \subseteq Trees
<1> DEFINE T == {n \in 0 .. BuildLimit : TreesTo[BuildLimit - n] \subseteq Trees}
<1>1. 0 \in T
  BY ExpressionAssumption DEF Trees
<1>2. ASSUME NEW n \in 1 .. BuildLimit, n - 1 \in T PROVE n \in T
  <2>1. /\ BuildLimit - (n - 1) \in 1 .. BuildLimit
        /\ (BuildLimit - (n - 1)) - 1 = BuildLimit - n
    BY ExpressionAssumption
  <2>2. TreesTo[BuildLimit - n] \subseteq TreesTo[BuildLimit - (n - 1)]
    BY <2>1, TreesGrow
  <2> QED BY <1>2, <2>2
<1> HIDE DEF T
<1>3. \A n \in 0 .. BuildLimit : n \in T
  <2>1. \A n \in 1 .. BuildLimit : n - 1 \in T => n \in T
    BY <1>2
  <2> QED BY <1>1, <2>1, UptoInduction, ExpressionAssumption
<1>4. ASSUME NEW n \in 0 .. BuildLimit PROVE TreesTo[n] \subseteq Trees
  <2>1. BuildLimit - n \in 0 .. BuildLimit /\ BuildLimit - (BuildLimit - n) = n
    BY ExpressionAssumption
  <2>2. TreesTo[BuildLimit - (BuildLimit - n)] \subseteq Trees
    BY <1>3, <2>1 DEF T
  <2> QED BY <2>1, <2>2
<1> QED BY <1>4

LEMMA ArgumentsInTrees ==
  ASSUME NEW t \in Trees, IsOperation(t)
  PROVE  /\ t.arguments \in Seq(Trees)
         /\ DOMAIN t.arguments = 1 .. Len(t.arguments) /\ Len(t.arguments) \in Nat
         /\ \A i \in DOMAIN t.arguments : t.arguments[i] \in Trees
<1>1. BuildLimit \in 0 .. BuildLimit
  BY ExpressionAssumption
<1>2. PICK m \in 0 .. BuildLimit : /\ t.arguments \in Seq(TreesTo[m])
                                   /\ DOMAIN t.arguments = 1 .. Len(t.arguments)
                                   /\ Len(t.arguments) \in Nat
  BY <1>1, TreeShapes DEF Trees
<1>3. TreesTo[m] \subseteq Trees
  BY TreesInTrees
<1>4. Seq(TreesTo[m]) \subseteq Seq(Trees)
  BY <1>3
<1>5. t.arguments \in Seq(Trees)
  BY <1>2, <1>4
<1> QED BY <1>2, <1>5

-----------------------------------------------------------------------------
(* The recursive functions on trees exist.  What each gives for a tree,    *)
(* from what it gives for the arguments, is one operator here, with the    *)
(* function's name as a parameter, so that one proof serves them all.      *)
LeafOf(name, t, p) ==
  CASE name = "wellTyped" -> LeafDeclared(t, p)
    [] name \in {"eager", "meaning"} -> LeafValue(t, p)
    [] name = "resolved" -> [tree |-> t, synthetic |-> 0, raises |-> FALSE]
    [] name = "ifs" -> 0
    [] name = "variables" -> IF t.kind = "VARIABLE" THEN {t} ELSE {}

NodeOf(name, t, x, p) ==
  CASE name = "wellTyped" ->
         /\ Len(t.arguments) = Arity(t.operator)
         /\ \A i \in DOMAIN t.arguments : x[i]
         /\ Agrees(t.operator, [i \in DOMAIN t.arguments |-> t.arguments[i].signature], t.signature)
    [] name = "eager" -> Operation(t, x)
    [] name = "meaning" -> IF t.operator = "IF" THEN MeaningOfIf(t, x) ELSE Operation(t, x)
    [] name = "resolved" -> IF t.operator = "IF" THEN Selected(t, x, p) ELSE Kept(t, x)
    [] name = "ifs" -> Total(x) + (IF t.operator = "IF" THEN 1 ELSE 0)
    [] name = "variables" -> UNION {x[i] : i \in DOMAIN t.arguments}

OnTrees(f, S, name, p) ==
  f = [t \in S |-> IF IsOperation(t) THEN NodeOf(name, t, Below(f, t), p) ELSE LeafOf(name, t, p)]

LEMMA TreeRecursion ==
  ASSUME NEW name, NEW p
  PROVE  \E f : OnTrees(f, Trees, name, p)
<1> DEFINE T == {n \in 0 .. BuildLimit : \E f : OnTrees(f, TreesTo[n], name, p)}
<1>1. 0 \in T
  <2> DEFINE f == [t \in TreesTo[0] |-> LeafOf(name, t, p)]
  <2>1. 0 \in 0 .. BuildLimit
    BY ExpressionAssumption
  <2>2. \A t \in TreesTo[0] : ~IsOperation(t)
    BY <2>1, TreeShapes
  <2>3. OnTrees(f, TreesTo[0], name, p)
    BY <2>2 DEF OnTrees
  <2> QED BY <2>1, <2>3
<1>2. ASSUME NEW n \in 1 .. BuildLimit, n - 1 \in T PROVE n \in T
  <2> DEFINE Low == TreesTo[n - 1]
             High == TreesTo[n]
             Value(f, t) == IF IsOperation(t) THEN NodeOf(name, t, Below(f, t), p)
                            ELSE LeafOf(name, t, p)
  <2>1. PICK f : OnTrees(f, Low, name, p)
    BY <1>2
  <2>2. Low \subseteq High /\ n \in 0 .. BuildLimit /\ n - 1 \in 0 .. BuildLimit
    BY TreesGrow, ExpressionAssumption
  <2>3. \A t \in High : IsOperation(t) => \A i \in DOMAIN t.arguments : t.arguments[i] \in Low
    BY <2>2, TreeShapes
  <2> DEFINE g == [t \in High |-> IF t \in Low THEN f[t] ELSE Value(f, t)]
  <2>4. \A t \in Low : g[t] = f[t] /\ f[t] = Value(f, t)
    BY <2>1, <2>2 DEF OnTrees
  <2>5. \A t \in High : g[t] = Value(f, t)
    BY <2>4
  <2>6. g = [t \in High |-> g[t]]
    OBVIOUS
  <2> HIDE DEF g, Low, High
  <2>7. ASSUME NEW t \in High PROVE g[t] = Value(g, t)
    <3>1. CASE IsOperation(t)
      <4>1. Below(g, t) = Below(f, t)
        BY <2>3, <2>4, <3>1 DEF Below
      <4> QED BY <2>5, <4>1
    <3>2. CASE ~IsOperation(t)
      BY <2>5, <3>2
    <3> QED BY <3>1, <3>2
  <2>8. g = [t \in High |-> Value(g, t)]
    BY <2>6, <2>7
  <2>9. OnTrees(g, High, name, p)
    BY <2>8 DEF OnTrees
  <2> QED BY <2>2, <2>9 DEF High
<1> HIDE DEF T
<1>3. \A n \in 1 .. BuildLimit : n - 1 \in T => n \in T
  BY <1>2
<1>4. BuildLimit \in T
  BY <1>1, <1>3, UptoInduction, ExpressionAssumption
<1> QED BY <1>4 DEF T, Trees

(* They satisfy their equations.                                           *)
LEMMA EagerFunction ==
  ASSUME NEW inputs
  PROVE  \E f : /\ OnTrees(f, Trees, "eager", inputs)
                /\ \A t \in Trees : Eager(t, inputs) = f[t]
<1> DEFINE f == CHOOSE g : OnTrees(g, Trees, "eager", inputs)
           own[t \in Trees] ==
             IF IsOperation(t) THEN Operation(t, Below(own, t)) ELSE LeafValue(t, inputs)
<1>1. OnTrees(f, Trees, "eager", inputs)
  BY TreeRecursion
<1>2. \A g : OnTrees(g, Trees, "eager", inputs) <=>
        g = [t \in Trees |->
              IF IsOperation(t) THEN Operation(t, Below(g, t)) ELSE LeafValue(t, inputs)]
  BY DEF OnTrees, NodeOf, LeafOf
<1>3. \A t : Eager(t, inputs) = own[t]
  BY DEF Eager
<1>4. own = f
  BY <1>2
<1> QED BY <1>1, <1>3, <1>4

LEMMA MeaningFunction ==
  ASSUME NEW inputs
  PROVE  \E f : /\ OnTrees(f, Trees, "meaning", inputs)
                /\ \A t \in Trees : Meaning(t, inputs) = f[t]
<1> DEFINE f == CHOOSE g : OnTrees(g, Trees, "meaning", inputs)
           own[t \in Trees] ==
             IF ~IsOperation(t) THEN LeafValue(t, inputs)
             ELSE IF t.operator = "IF" THEN MeaningOfIf(t, Below(own, t))
             ELSE Operation(t, Below(own, t))
<1>1. OnTrees(f, Trees, "meaning", inputs)
  BY TreeRecursion
<1>2. \A g : OnTrees(g, Trees, "meaning", inputs) <=>
        g = [t \in Trees |->
              IF ~IsOperation(t) THEN LeafValue(t, inputs)
              ELSE IF t.operator = "IF" THEN MeaningOfIf(t, Below(g, t))
              ELSE Operation(t, Below(g, t))]
  BY DEF OnTrees, NodeOf, LeafOf
<1>3. \A t : Meaning(t, inputs) = own[t]
  BY DEF Meaning
<1>4. own = f
  BY <1>2
<1> QED BY <1>1, <1>3, <1>4

LEMMA ResolvedFunction ==
  ASSUME NEW inputs
  PROVE  \E f : /\ OnTrees(f, Trees, "resolved", inputs)
                /\ \A t \in Trees : Resolved(t, inputs) = f[t]
<1> DEFINE f == CHOOSE g : OnTrees(g, Trees, "resolved", inputs)
           own[t \in Trees] ==
             IF ~IsOperation(t) THEN [tree |-> t, synthetic |-> 0, raises |-> FALSE]
             ELSE IF t.operator = "IF" THEN Selected(t, Below(own, t), inputs)
             ELSE Kept(t, Below(own, t))
<1>1. OnTrees(f, Trees, "resolved", inputs)
  BY TreeRecursion
<1>2. \A g : OnTrees(g, Trees, "resolved", inputs) <=>
        g = [t \in Trees |->
              IF ~IsOperation(t) THEN [tree |-> t, synthetic |-> 0, raises |-> FALSE]
              ELSE IF t.operator = "IF" THEN Selected(t, Below(g, t), inputs)
              ELSE Kept(t, Below(g, t))]
  BY DEF OnTrees, NodeOf, LeafOf
<1>3. \A t : Resolved(t, inputs) = own[t]
  BY DEF Resolved
<1>4. own = f
  BY <1>2
<1> QED BY <1>1, <1>3, <1>4

LEMMA WellTypedFunction ==
  ASSUME NEW dependencies
  PROVE  \E f : /\ OnTrees(f, Trees, "wellTyped", dependencies)
                /\ \A t \in Trees : WellTyped(t, dependencies) = f[t]
<1> DEFINE f == CHOOSE g : OnTrees(g, Trees, "wellTyped", dependencies)
           own[t \in Trees] ==
             IF IsOperation(t)
             THEN /\ Len(t.arguments) = Arity(t.operator)
                  /\ \A i \in DOMAIN t.arguments : Below(own, t)[i]
                  /\ Agrees(t.operator, [i \in DOMAIN t.arguments |-> t.arguments[i].signature],
                            t.signature)
             ELSE LeafDeclared(t, dependencies)
<1>1. OnTrees(f, Trees, "wellTyped", dependencies)
  BY TreeRecursion
<1>2. \A g : OnTrees(g, Trees, "wellTyped", dependencies) <=>
        g = [t \in Trees |->
              IF IsOperation(t)
              THEN /\ Len(t.arguments) = Arity(t.operator)
                   /\ \A i \in DOMAIN t.arguments : Below(g, t)[i]
                   /\ Agrees(t.operator, [i \in DOMAIN t.arguments |-> t.arguments[i].signature],
                             t.signature)
              ELSE LeafDeclared(t, dependencies)]
  BY DEF OnTrees, NodeOf, LeafOf
<1>3. \A t : WellTyped(t, dependencies) = own[t]
  BY DEF WellTyped
<1>4. own = f
  BY <1>2
<1> QED BY <1>1, <1>3, <1>4

LEMMA IfsFunction ==
  \E f : /\ OnTrees(f, Trees, "ifs", 0)
         /\ \A t \in Trees : Ifs(t) = f[t]
<1> DEFINE f == CHOOSE g : OnTrees(g, Trees, "ifs", 0)
           own[t \in Trees] ==
             IF IsOperation(t)
             THEN Total(Below(own, t)) + (IF t.operator = "IF" THEN 1 ELSE 0)
             ELSE 0
<1>1. OnTrees(f, Trees, "ifs", 0)
  BY TreeRecursion
<1>2. \A g : OnTrees(g, Trees, "ifs", 0) <=>
        g = [t \in Trees |->
              IF IsOperation(t)
              THEN Total(Below(g, t)) + (IF t.operator = "IF" THEN 1 ELSE 0)
              ELSE 0]
  BY DEF OnTrees, NodeOf, LeafOf
<1>3. \A t : Ifs(t) = own[t]
  BY DEF Ifs
<1>4. own = f
  BY <1>2
<1> QED BY <1>1, <1>3, <1>4

LEMMA VariablesOfFunction ==
  \E f : /\ OnTrees(f, Trees, "variables", 0)
         /\ \A t \in Trees : VariablesOf(t) = f[t]
<1> DEFINE f == CHOOSE g : OnTrees(g, Trees, "variables", 0)
           own[t \in Trees] ==
             IF IsOperation(t) THEN UNION {Below(own, t)[i] : i \in DOMAIN t.arguments}
             ELSE IF t.kind = "VARIABLE" THEN {t} ELSE {}
<1>1. OnTrees(f, Trees, "variables", 0)
  BY TreeRecursion
<1>2. \A g : OnTrees(g, Trees, "variables", 0) <=>
        g = [t \in Trees |->
              IF IsOperation(t) THEN UNION {Below(g, t)[i] : i \in DOMAIN t.arguments}
              ELSE IF t.kind = "VARIABLE" THEN {t} ELSE {}]
  BY DEF OnTrees, NodeOf, LeafOf
<1>3. \A t : VariablesOf(t) = own[t]
  BY DEF VariablesOf
<1>4. own = f
  BY <1>2
<1> QED BY <1>1, <1>3, <1>4

(* The same, of the operators: what each gives for an operation in terms   *)
(* of what it gives for the arguments.                                     *)

LEMMA EagerEquation ==
  ASSUME NEW inputs, NEW t \in Trees
  PROVE  Eager(t, inputs) = IF IsOperation(t)
         THEN Operation(t, [i \in DOMAIN t.arguments |-> Eager(t.arguments[i], inputs)])
         ELSE LeafValue(t, inputs)
<1>1. PICK f : /\ OnTrees(f, Trees, "eager", inputs)
               /\ \A e \in Trees : Eager(e, inputs) = f[e]
  BY EagerFunction
<1>2. f[t] = IF IsOperation(t) THEN NodeOf("eager", t, Below(f, t), inputs)
             ELSE LeafOf("eager", t, inputs)
  BY <1>1 DEF OnTrees
<1>3. CASE IsOperation(t)
  <2>1. Below(f, t) = [i \in DOMAIN t.arguments |-> Eager(t.arguments[i], inputs)]
    BY <1>1, <1>3, ArgumentsInTrees DEF Below
  <2> QED BY <1>1, <1>2, <1>3, <2>1 DEF NodeOf
<1>4. CASE ~IsOperation(t)
  BY <1>1, <1>2, <1>4 DEF LeafOf
<1> QED BY <1>3, <1>4

LEMMA MeaningEquation ==
  ASSUME NEW inputs, NEW t \in Trees
  PROVE  Meaning(t, inputs) = IF ~IsOperation(t) THEN LeafValue(t, inputs)
         ELSE LET x == [i \in DOMAIN t.arguments |-> Meaning(t.arguments[i], inputs)]
              IN IF t.operator = "IF" THEN MeaningOfIf(t, x) ELSE Operation(t, x)
<1>1. PICK f : /\ OnTrees(f, Trees, "meaning", inputs)
               /\ \A e \in Trees : Meaning(e, inputs) = f[e]
  BY MeaningFunction
<1>2. f[t] = IF IsOperation(t) THEN NodeOf("meaning", t, Below(f, t), inputs)
             ELSE LeafOf("meaning", t, inputs)
  BY <1>1 DEF OnTrees
<1>3. CASE IsOperation(t)
  <2>1. Below(f, t) = [i \in DOMAIN t.arguments |-> Meaning(t.arguments[i], inputs)]
    BY <1>1, <1>3, ArgumentsInTrees DEF Below
  <2> QED BY <1>1, <1>2, <1>3, <2>1 DEF NodeOf
<1>4. CASE ~IsOperation(t)
  BY <1>1, <1>2, <1>4 DEF LeafOf
<1> QED BY <1>3, <1>4

LEMMA ResolvedEquation ==
  ASSUME NEW inputs, NEW t \in Trees
  PROVE  Resolved(t, inputs) =
         IF ~IsOperation(t) THEN [tree |-> t, synthetic |-> 0, raises |-> FALSE]
         ELSE LET r == [i \in DOMAIN t.arguments |-> Resolved(t.arguments[i], inputs)]
              IN IF t.operator = "IF" THEN Selected(t, r, inputs) ELSE Kept(t, r)
<1>1. PICK f : /\ OnTrees(f, Trees, "resolved", inputs)
               /\ \A e \in Trees : Resolved(e, inputs) = f[e]
  BY ResolvedFunction
<1>2. f[t] = IF IsOperation(t) THEN NodeOf("resolved", t, Below(f, t), inputs)
             ELSE LeafOf("resolved", t, inputs)
  BY <1>1 DEF OnTrees
<1>3. CASE IsOperation(t)
  <2>1. Below(f, t) = [i \in DOMAIN t.arguments |-> Resolved(t.arguments[i], inputs)]
    BY <1>1, <1>3, ArgumentsInTrees DEF Below
  <2> QED BY <1>1, <1>2, <1>3, <2>1 DEF NodeOf
<1>4. CASE ~IsOperation(t)
  BY <1>1, <1>2, <1>4 DEF LeafOf
<1> QED BY <1>3, <1>4

LEMMA IfsEquation ==
  ASSUME NEW t \in Trees
  PROVE  Ifs(t) = IF IsOperation(t)
         THEN Total([i \in DOMAIN t.arguments |-> Ifs(t.arguments[i])])
              + (IF t.operator = "IF" THEN 1 ELSE 0)
         ELSE 0
<1>1. PICK f : /\ OnTrees(f, Trees, "ifs", 0)
               /\ \A e \in Trees : Ifs(e) = f[e]
  BY IfsFunction
<1>2. f[t] = IF IsOperation(t) THEN NodeOf("ifs", t, Below(f, t), 0)
             ELSE LeafOf("ifs", t, 0)
  BY <1>1 DEF OnTrees
<1>3. CASE IsOperation(t)
  <2>1. Below(f, t) = [i \in DOMAIN t.arguments |-> Ifs(t.arguments[i])]
    BY <1>1, <1>3, ArgumentsInTrees DEF Below
  <2> QED BY <1>1, <1>2, <1>3, <2>1 DEF NodeOf
<1>4. CASE ~IsOperation(t)
  BY <1>1, <1>2, <1>4 DEF LeafOf
<1> QED BY <1>3, <1>4

LEMMA VariablesOfEquation ==
  ASSUME NEW t \in Trees
  PROVE  VariablesOf(t) = IF IsOperation(t)
         THEN UNION {VariablesOf(t.arguments[i]) : i \in DOMAIN t.arguments}
         ELSE IF t.kind = "VARIABLE" THEN {t} ELSE {}
<1>1. PICK f : /\ OnTrees(f, Trees, "variables", 0)
               /\ \A e \in Trees : VariablesOf(e) = f[e]
  BY VariablesOfFunction
<1>2. f[t] = IF IsOperation(t) THEN NodeOf("variables", t, Below(f, t), 0)
             ELSE LeafOf("variables", t, 0)
  BY <1>1 DEF OnTrees
<1>3. CASE IsOperation(t)
  <2>1. Below(f, t) = [i \in DOMAIN t.arguments |-> VariablesOf(t.arguments[i])]
    BY <1>1, <1>3, ArgumentsInTrees DEF Below
  <2> QED BY <1>1, <1>2, <1>3, <2>1 DEF NodeOf
<1>4. CASE ~IsOperation(t)
  BY <1>1, <1>2, <1>4 DEF LeafOf
<1> QED BY <1>3, <1>4

LEMMA WellTypedEquation ==
  ASSUME NEW dependencies, NEW t \in Trees
  PROVE  WellTyped(t, dependencies) = IF IsOperation(t)
         THEN /\ Len(t.arguments) = Arity(t.operator)
              /\ \A i \in DOMAIN t.arguments : WellTyped(t.arguments[i], dependencies)
              /\ Agrees(t.operator, [i \in DOMAIN t.arguments |-> t.arguments[i].signature],
                        t.signature)
         ELSE LeafDeclared(t, dependencies)
<1>1. PICK f : /\ OnTrees(f, Trees, "wellTyped", dependencies)
               /\ \A e \in Trees : WellTyped(e, dependencies) = f[e]
  BY WellTypedFunction
<1>2. f[t] = IF IsOperation(t) THEN NodeOf("wellTyped", t, Below(f, t), dependencies)
             ELSE LeafOf("wellTyped", t, dependencies)
  BY <1>1 DEF OnTrees
<1>3. CASE IsOperation(t)
  <2>1. Below(f, t) = [i \in DOMAIN t.arguments |-> WellTyped(t.arguments[i], dependencies)]
    BY <1>1, <1>3, ArgumentsInTrees DEF Below
  <2> QED BY <1>1, <1>2, <1>3, <2>1 DEF NodeOf
<1>4. CASE ~IsOperation(t)
  BY <1>1, <1>2, <1>4 DEF LeafOf
<1> QED BY <1>3, <1>4

(* Totals.                                                                 *)
Counts(f, counts) ==
  /\ f \in [0 .. Len(counts) -> Nat] /\ f[0] = 0
  /\ \A i \in 1 .. Len(counts) : f[i] = f[i - 1] + counts[i]

LEMMA CountsExist ==
  ASSUME NEW counts \in Seq(Nat)
  PROVE  \E f : Counts(f, counts)
<1> DEFINE n == Len(counts)
           Upto(f, m) == /\ f \in [0 .. m -> Nat] /\ f[0] = 0
                         /\ \A i \in 1 .. m : f[i] = f[i - 1] + counts[i]
           T == {m \in 0 .. n : \E f : Upto(f, m)}
<1>1. n \in Nat /\ \A i \in 1 .. n : counts[i] \in Nat
  OBVIOUS
<1> HIDE DEF n
<1>2. 0 \in T
  <2>1. Upto([i \in 0 .. 0 |-> 0], 0)
    OBVIOUS
  <2> HIDE DEF Upto
  <2>2. \E f : Upto(f, 0)
    BY <2>1
  <2> QED BY <1>1, <2>2
<1>3. ASSUME NEW m \in 1 .. n, m - 1 \in T PROVE m \in T
  <2>1. PICK f : Upto(f, m - 1)
    BY <1>3
  <2>2. PICK v \in Nat : v = f[m - 1] + counts[m]
    BY <1>1, <2>1
  <2> DEFINE g == [i \in 0 .. m |-> IF i < m THEN f[i] ELSE v]
  <2>3. g \in [0 .. m -> Nat] /\ g[0] = 0
    BY <1>1, <2>1
  <2>4. \A i \in 0 .. m - 1 : g[i] = f[i]
    BY <1>1
  <2>5. g[m] = v
    BY <1>1
  <2> HIDE DEF g
  <2>6. ASSUME NEW i \in 1 .. m PROVE g[i] = g[i - 1] + counts[i]
    <3>1. CASE i = m
      BY <1>1, <2>2, <2>4, <2>5, <3>1
    <3>2. CASE i # m
      <4>1. i \in 1 .. m - 1 /\ i \in 0 .. m - 1 /\ i - 1 \in 0 .. m - 1
        BY <1>1, <3>2
      <4> QED BY <2>1, <2>4, <4>1
    <3> QED BY <3>1, <3>2
  <2>7. Upto(g, m) /\ m \in 0 .. n
    BY <1>1, <2>3, <2>6
  <2> HIDE DEF Upto
  <2> QED BY <2>7
<1> HIDE DEF T
<1>4. n \in T
  <2>1. \A m \in 1 .. n : m - 1 \in T => m \in T
    BY <1>3
  <2>2. \A m \in 0 .. n : m \in T
    BY <1>1, <1>2, <2>1, UptoInduction
  <2> QED BY <1>1, <2>2
<1> QED BY <1>4 DEF T, Counts, n

LEMMA TotalSteps ==
  ASSUME NEW counts \in Seq(Nat)
  PROVE  \E f : Counts(f, counts) /\ Total(counts) = f[Len(counts)]
<1> DEFINE n == Len(counts)
           total[i \in 0 .. Len(counts)] == IF i = 0 THEN 0 ELSE total[i - 1] + counts[i]
<1>1. Total(counts) = total[n]
  BY DEF Total
<1>2. PICK f : Counts(f, counts)
  BY CountsExist
<1>3. f = [i \in 0 .. n |-> IF i = 0 THEN 0 ELSE f[i - 1] + counts[i]]
  BY <1>2 DEF Counts
<1>4. total = [i \in 0 .. n |-> IF i = 0 THEN 0 ELSE total[i - 1] + counts[i]]
  BY <1>3
<1> HIDE DEF total
<1>5. n \in Nat /\ \A i \in 1 .. n : counts[i] \in Nat
  OBVIOUS
<1> HIDE DEF n
<1>6. total[0] = 0 /\ \A i \in 1 .. n : total[i] = total[i - 1] + counts[i]
  BY <1>4, <1>5
<1>7. \A i \in 0 .. n : total[i] \in Nat
  <2> DEFINE T == {i \in 0 .. n : total[i] \in Nat}
  <2>1. 0 \in T
    BY <1>5, <1>6
  <2>2. ASSUME NEW i \in 1 .. n, i - 1 \in T PROVE i \in T
    BY <1>5, <1>6, <2>2
  <2> HIDE DEF T
  <2>3. \A i \in 0 .. n : i \in T
    BY <1>5, <2>1, <2>2, UptoInduction
  <2> QED BY <2>3 DEF T
<1>8. total \in [0 .. n -> Nat]
  BY <1>4, <1>7
<1>9. Counts(total, counts)
  BY <1>6, <1>8 DEF Counts, n
<1> QED BY <1>1, <1>9 DEF n

LEMMA TotalType ==
  ASSUME NEW counts \in Seq(Nat)
  PROVE  Total(counts) \in Nat
<1>1. PICK f : Counts(f, counts) /\ Total(counts) = f[Len(counts)]
  BY TotalSteps
<1>2. Len(counts) \in Nat
  OBVIOUS
<1> QED BY <1>1, <1>2 DEF Counts

LEMMA SumsGrow ==
  ASSUME NEW v \in Nat, NEW w \in Nat, NEW x \in Nat, NEW y \in Nat, v <= w, x <= y
  PROVE  v + x <= w + y
OBVIOUS

LEMMA TotalGrows ==
  ASSUME NEW a \in Seq(Nat), NEW b \in Seq(Nat), Len(a) = Len(b),
         \A i \in 1 .. Len(a) : a[i] <= b[i]
  PROVE  Total(a) <= Total(b)
<1> DEFINE n == Len(a)
<1>1. PICK f : Counts(f, a) /\ Total(a) = f[n]
  BY TotalSteps
<1>2. PICK g : Counts(g, b) /\ Total(b) = g[n]
  BY TotalSteps
<1>3. /\ n \in Nat /\ \A i \in 1 .. n : a[i] \in Nat /\ b[i] \in Nat /\ a[i] <= b[i]
      /\ f \in [0 .. n -> Nat] /\ f[0] = 0 /\ \A i \in 1 .. n : f[i] = f[i - 1] + a[i]
      /\ g \in [0 .. n -> Nat] /\ g[0] = 0 /\ \A i \in 1 .. n : g[i] = g[i - 1] + b[i]
  BY <1>1, <1>2 DEF Counts
<1> HIDE DEF n
<1> DEFINE T == {i \in 0 .. n : f[i] <= g[i]}
<1>4. 0 \in T
  BY <1>3
<1>5. ASSUME NEW i \in 1 .. n, i - 1 \in T PROVE i \in T
  <2>1. i \in 0 .. n /\ i - 1 \in 0 .. n
    BY <1>3
  <2>2. f[i] = f[i - 1] + a[i] /\ g[i] = g[i - 1] + b[i] /\ a[i] <= b[i]
    BY <1>3
  <2>3. f[i - 1] \in Nat /\ g[i - 1] \in Nat /\ a[i] \in Nat /\ b[i] \in Nat
    BY <1>3, <2>1
  <2>4. f[i - 1] <= g[i - 1]
    BY <1>5
  <2>5. f[i] <= g[i]
    <3>1. f[i - 1] + a[i] <= g[i - 1] + b[i]
      BY <2>2, <2>3, <2>4, SumsGrow
    <3> QED BY <2>2, <3>1
  <2> QED BY <2>1, <2>5
<1> HIDE DEF T
<1>6. n \in T
  <2>1. \A i \in 1 .. n : i - 1 \in T => i \in T
    BY <1>5
  <2>2. \A i \in 0 .. n : i \in T
    BY <1>3, <1>4, <2>1, UptoInduction
  <2> QED BY <1>3, <2>2
<1> QED BY <1>1, <1>2, <1>6 DEF T

LEMMA TotalOfThree ==
  ASSUME NEW a \in Seq(Nat), Len(a) = 3
  PROVE  Total(a) = a[1] + a[2] + a[3] /\ a[1] \in Nat /\ a[2] \in Nat /\ a[3] \in Nat
<1>1. PICK f : Counts(f, a) /\ Total(a) = f[3]
  BY TotalSteps
<1>2. /\ f[0] = 0 /\ f[1] = f[0] + a[1] /\ f[2] = f[1] + a[2] /\ f[3] = f[2] + a[3]
      /\ a[1] \in Nat /\ a[2] \in Nat /\ a[3] \in Nat
  <2>1. \A i \in 1 .. 3 : f[i] = f[i - 1] + a[i] /\ a[i] \in Nat
    <3>1. \A i \in 1 .. 3 : a[i] \in Nat
      BY ElementOfSeq
    <3>2. \A i \in 1 .. 3 : f[i] = f[i - 1] + a[i]
      BY <1>1 DEF Counts
    <3> QED BY <3>1, <3>2
  <2>2. f[0] = 0
    BY <1>1 DEF Counts
  <2>3. f[1] = f[1 - 1] + a[1] /\ f[2] = f[2 - 1] + a[2] /\ f[3] = f[3 - 1] + a[3]
    BY <2>1
  <2>4. 1 - 1 = 0 /\ 2 - 1 = 1 /\ 3 - 1 = 2
    OBVIOUS
  <2> QED BY <2>1, <2>2, <2>3, <2>4
<1> QED BY <1>1, <1>2

(* Values have a state; rounding leaves it, and the signature, as it is.   *)
LEMMA NormalizedKeeps ==
  ASSUME NEW x
  PROVE  Normalized(x).state = x.state /\ Normalized(x).signature = x.signature
BY DEF Normalized, Valid, IsValid

LEMMA RaisesHasNoState ==
  Raises.state \notin States
BY DEF Raises, States

LEMMA LeafValueFacts ==
  ASSUME NEW inputs \in Inputs, NEW t \in Simple, LeafValue(t, inputs) # Raises
  PROVE  /\ LeafValue(t, inputs).state \in States
         /\ LeafValue(t, inputs).signature = t.signature
<1>1. CASE t.kind = "LITERAL"
  BY <1>1, NormalizedKeeps DEF LeafValue, Valid, States
<1>2. CASE t.kind = "VARIABLE"
  <2>1. LeafValue(t, inputs) = IF t.name \in DOMAIN inputs /\ inputs[t.name].signature = t.signature
                               THEN Normalized(inputs[t.name]) ELSE Raises
    BY <1>2 DEF LeafValue
  <2> QED BY <2>1, NormalizedKeeps, ExpressionAssumption
<1>3. CASE t.kind \notin {"LITERAL", "VARIABLE"}
  <2>1. t \in [kind : {"SYNTHETIC"}, state : States, signature : Declared]
    BY <1>3, ExpressionAssumption DEF Simple
  <2>2. LeafValue(t, inputs) = Nonvalid(t.state, t.signature) /\ t.state \in States
    BY <2>1 DEF LeafValue
  <2> QED BY <2>2 DEF Nonvalid
<1> QED BY <1>1, <1>2, <1>3

LEMMA AppliedFacts ==
  ASSUME NEW op \in Operators, NEW x, NEW signature
  PROVE  /\ Applied(op, x, signature).state \in States
         /\ Applied(op, x, signature).signature = signature
<1>1. \A v : Valid(v, signature).state \in States /\ Valid(v, signature).signature = signature
  BY DEF Valid, States
<1>2. /\ Nonvalid("BLOCKED", signature).state \in States
      /\ Nonvalid("BLOCKED", signature).signature = signature
  BY DEF Nonvalid, States
<1>3. \/ \E v : Applied(op, x, signature) = Valid(v, signature)
      \/ Applied(op, x, signature) = Nonvalid("BLOCKED", signature)
  <2>1. op \in {"ADD", "SUBTRACT", "MULTIPLY", "MIN", "MAX", "NEGATE", "ABS", "IF", "EQUAL",
                "DIVIDE", "LESS_THAN", "LESS_OR_EQUAL", "GREATER_THAN", "GREATER_OR_EQUAL"}
    BY ExpressionAssumption
  <2>2. CASE op \in {"ADD", "SUBTRACT", "MULTIPLY", "MIN", "MAX"}
    BY <2>2 DEF Applied
  <2>3. CASE op \in {"NEGATE", "ABS", "IF", "EQUAL"}
    BY <2>3 DEF Applied
  <2>4. CASE op = "DIVIDE"
    BY <2>4 DEF Applied
  <2>5. CASE op \in {"LESS_THAN", "LESS_OR_EQUAL", "GREATER_THAN", "GREATER_OR_EQUAL"}
    BY <2>5 DEF Applied
  <2> QED BY <2>1, <2>2, <2>3, <2>4, <2>5
<1> QED BY <1>1, <1>2, <1>3

LEMMA OperationFacts ==
  ASSUME NEW t, t.operator \in Operators, NEW x,
         \A i \in DOMAIN x : x[i] = Raises \/ x[i].state \in States
  PROVE  IF \E i \in DOMAIN x : x[i] = Raises
         THEN Operation(t, x) = Raises
         ELSE /\ Operation(t, x).state \in States /\ Operation(t, x) # Raises
              /\ Operation(t, x).signature = t.signature
<1>1. CASE \E i \in DOMAIN x : x[i] = Raises
  BY <1>1 DEF Operation
<1>2. CASE \A i \in DOMAIN x : x[i] # Raises
  <2>1. WorstState(x) \in States
    BY <1>2, WorstStateFacts
  <2>2. CASE WorstState(x) # "VALID"
    <3>1. Operation(t, x) = Nonvalid(WorstState(x), t.signature)
      BY <1>2, <2>2 DEF Operation
    <3> QED BY <1>2, <2>1, <3>1, RaisesHasNoState DEF Nonvalid
  <2>3. CASE WorstState(x) = "VALID"
    <3>1. Operation(t, x) = Applied(t.operator, x, t.signature)
      BY <1>2, <2>3 DEF Operation
    <3> QED BY <1>2, <3>1, AppliedFacts, RaisesHasNoState
  <2> QED BY <2>2, <2>3
<1> QED BY <1>1, <1>2

LEMMA EagerState ==
  ASSUME NEW inputs \in Inputs
  PROVE  \A t \in Trees : Eager(t, inputs) = Raises \/ Eager(t, inputs).state \in States
<1> DEFINE T == {n \in 0 .. BuildLimit :
                   \A t \in TreesTo[n] : \/ Eager(t, inputs) = Raises
                                         \/ Eager(t, inputs).state \in States}
<1>1. ASSUME NEW n \in 0 .. BuildLimit, n # 0 => n - 1 \in T PROVE n \in T
  <2> SUFFICES ASSUME NEW t \in TreesTo[n], Eager(t, inputs) # Raises
               PROVE  Eager(t, inputs).state \in States
    OBVIOUS
  <2>1. t \in Trees
    BY TreesInTrees
  <2>2. CASE ~IsOperation(t)
    BY <2>1, <2>2, TreeShapes, EagerEquation, LeafValueFacts
  <2>3. CASE IsOperation(t)
    <3> DEFINE x == [i \in DOMAIN t.arguments |-> Eager(t.arguments[i], inputs)]
    <3>1. /\ n # 0 /\ t.operator \in Operators
          /\ \A i \in DOMAIN t.arguments : t.arguments[i] \in TreesTo[n - 1]
      BY <2>3, TreeShapes
    <3>2. \A i \in DOMAIN x : x[i] = Raises \/ x[i].state \in States
      BY <1>1, <3>1
    <3>3. Eager(t, inputs) = Operation(t, x)
      BY <2>1, <2>3, EagerEquation
    <3> HIDE DEF x
    <3> QED BY <3>1, <3>2, <3>3, OperationFacts
  <2> QED BY <2>2, <2>3
<1> HIDE DEF T
<1>2. BuildLimit \in T
  <2>1. 0 \in T /\ \A n \in 1 .. BuildLimit : n - 1 \in T => n \in T
    BY <1>1, ExpressionAssumption
  <2> QED BY <2>1, UptoInduction, ExpressionAssumption
<1> QED BY <1>2 DEF T, Trees

(* Meaning gives a value of the declared signature or raises, and does not *)
(* raise when the inputs have every variable with the signature it has in  *)
(* the tree.                                                               *)
HasInputs(t, inputs) ==
  \A x \in VariablesOf(t) : x.name \in DOMAIN inputs /\ inputs[x.name].signature = x.signature

MeansWell(t, inputs) ==
  LET v == Meaning(t, inputs)
  IN /\ v # Raises => v.state \in States /\ v.signature = t.signature
     /\ HasInputs(t, inputs) => v # Raises

LEMMA ArgumentsWellTyped ==
  ASSUME NEW d, NEW t \in Trees, IsOperation(t), WellTyped(t, d)
  PROVE  /\ \A i \in DOMAIN t.arguments : t.arguments[i] \in Trees /\ WellTyped(t.arguments[i], d)
         /\ t.operator = "IF" =>
              /\ DOMAIN t.arguments = 1 .. 3 /\ Len(t.arguments) = 3
              /\ t.arguments[2].signature = t.signature /\ t.arguments[3].signature = t.signature
<1> DEFINE a == [i \in DOMAIN t.arguments |-> t.arguments[i].signature]
<1>1. /\ Len(t.arguments) = Arity(t.operator)
      /\ \A i \in DOMAIN t.arguments : WellTyped(t.arguments[i], d)
      /\ Agrees(t.operator, a, t.signature)
  BY WellTypedEquation
<1>2. ASSUME t.operator = "IF"
      PROVE  /\ DOMAIN t.arguments = 1 .. 3 /\ Len(t.arguments) = 3
             /\ t.arguments[2].signature = t.signature /\ t.arguments[3].signature = t.signature
  <2>1. Len(t.arguments) = 3 /\ DOMAIN t.arguments = 1 .. 3
    BY <1>1, <1>2, ArgumentsInTrees DEF Arity
  <2>2. a[2] = t.signature /\ a[3] = t.signature
    BY <1>1, <1>2 DEF Agrees
  <2> QED BY <2>1, <2>2
<1> QED BY <1>1, <1>2, ArgumentsInTrees

LEMMA ArgumentsGiven ==
  ASSUME NEW t \in Trees, IsOperation(t), NEW inputs, HasInputs(t, inputs)
  PROVE  \A i \in DOMAIN t.arguments : HasInputs(t.arguments[i], inputs)
<1>1. VariablesOf(t) = UNION {VariablesOf(t.arguments[i]) : i \in DOMAIN t.arguments}
  BY VariablesOfEquation
<1>2. \A i \in DOMAIN t.arguments : VariablesOf(t.arguments[i]) \subseteq VariablesOf(t)
  BY <1>1
<1> QED BY <1>2 DEF HasInputs

LEMMA MeaningFacts ==
  ASSUME NEW inputs \in Inputs, NEW d
  PROVE  \A t \in Trees : WellTyped(t, d) => MeansWell(t, inputs)
<1> DEFINE T == {n \in 0 .. BuildLimit :
                   \A t \in TreesTo[n] : WellTyped(t, d) => MeansWell(t, inputs)}
<1>1. ASSUME NEW n \in 0 .. BuildLimit, n # 0 => n - 1 \in T PROVE n \in T
  <2> SUFFICES ASSUME NEW t \in TreesTo[n], WellTyped(t, d)
               PROVE  MeansWell(t, inputs)
    OBVIOUS
  <2>1. t \in Trees
    BY TreesInTrees
  <2>2. CASE ~IsOperation(t)
    <3>1. Meaning(t, inputs) = LeafValue(t, inputs) /\ t \in Simple
      BY <2>1, <2>2, MeaningEquation, TreeShapes
    <3>2. t.kind \in {"LITERAL", "VARIABLE"}
      BY <2>1, <2>2, WellTypedEquation DEF LeafDeclared
    <3>3. ASSUME HasInputs(t, inputs) PROVE LeafValue(t, inputs) # Raises
      <4>1. CASE t.kind = "LITERAL"
        BY <4>1, NormalizedKeeps, RaisesHasNoState DEF LeafValue, Valid, States
      <4>2. CASE t.kind = "VARIABLE"
        <5>1. VariablesOf(t) = {t}
          BY <2>1, <2>2, <4>2, VariablesOfEquation
        <5>2. t.name \in DOMAIN inputs /\ inputs[t.name].signature = t.signature
          BY <3>3, <5>1 DEF HasInputs
        <5>3. LeafValue(t, inputs) = Normalized(inputs[t.name])
          BY <4>2, <5>2 DEF LeafValue
        <5>4. inputs[t.name].state \in States
          BY <5>2, ExpressionAssumption
        <5> QED BY <5>3, <5>4, NormalizedKeeps, RaisesHasNoState
      <4> QED BY <3>2, <4>1, <4>2
    <3> QED BY <3>1, <3>3, LeafValueFacts DEF MeansWell
  <2>3. CASE IsOperation(t)
    <3> DEFINE x == [i \in DOMAIN t.arguments |-> Meaning(t.arguments[i], inputs)]
    <3>1. /\ n # 0 /\ t.operator \in Operators
          /\ \A i \in DOMAIN t.arguments : t.arguments[i] \in TreesTo[n - 1]
      BY <2>3, TreeShapes
    <3>2. \A i \in DOMAIN t.arguments : MeansWell(t.arguments[i], inputs)
      BY <1>1, <2>1, <2>3, <3>1, ArgumentsWellTyped
    <3>3. Meaning(t, inputs) = IF t.operator = "IF" THEN MeaningOfIf(t, x) ELSE Operation(t, x)
      BY <2>1, <2>3, MeaningEquation
    <3>4. /\ DOMAIN x = DOMAIN t.arguments
          /\ \A i \in DOMAIN t.arguments :
               x[i] # Raises => x[i].state \in States /\ x[i].signature = t.arguments[i].signature
          /\ HasInputs(t, inputs) => \A i \in DOMAIN t.arguments : x[i] # Raises
      BY <2>1, <2>3, <3>2, ArgumentsGiven DEF MeansWell
    <3> HIDE DEF x
    <3>5. CASE t.operator # "IF"
      BY <3>1, <3>3, <3>4, <3>5, OperationFacts DEF MeansWell
    <3>6. CASE t.operator = "IF"
      <4>1. /\ DOMAIN t.arguments = 1 .. 3
            /\ t.arguments[2].signature = t.signature /\ t.arguments[3].signature = t.signature
        BY <2>1, <2>3, <3>6, ArgumentsWellTyped
      <4>2. CASE x[1] = Raises
        <5>1. Meaning(t, inputs) = Raises /\ ~HasInputs(t, inputs)
          BY <3>3, <3>4, <3>6, <4>1, <4>2 DEF MeaningOfIf
        <5> QED BY <5>1 DEF MeansWell
      <4>3. CASE x[1] # Raises /\ ~IsValid(x[1])
        <5>1. Meaning(t, inputs) = Nonvalid(x[1].state, t.signature) /\ x[1].state \in States
          BY <3>3, <3>4, <3>6, <4>1, <4>3 DEF MeaningOfIf
        <5> QED BY <5>1, RaisesHasNoState DEF MeansWell, Nonvalid
      <4>4. CASE x[1] # Raises /\ IsValid(x[1])
        <5> DEFINE j == IF x[1].value = Truth(TRUE) THEN 2 ELSE 3
        <5>0. j \in 2 .. 3 /\ Meaning(t, inputs) = x[j]
          BY <3>3, <3>6, <4>4 DEF MeaningOfIf
        <5>1. PICK i \in 2 .. 3 : Meaning(t, inputs) = x[i]
          BY <5>0
        <5>2. i \in DOMAIN t.arguments /\ t.arguments[i].signature = t.signature
          BY <4>1
        <5> QED BY <3>4, <5>1, <5>2 DEF MeansWell
      <4> QED BY <4>2, <4>3, <4>4
    <3> QED BY <3>5, <3>6
  <2> QED BY <2>2, <2>3
<1> HIDE DEF T
<1>2. BuildLimit \in T
  <2>1. 0 \in T /\ \A n \in 1 .. BuildLimit : n - 1 \in T => n \in T
    BY <1>1, ExpressionAssumption
  <2> QED BY <2>1, UptoInduction, ExpressionAssumption
<1> QED BY <1>2 DEF T, Trees

(* Rewriting.  A tree without its IFs is a tree, the synthetic variables   *)
(* are no more than the IFs were, and evaluated eagerly it has the meaning *)
(* of the tree with them; if a condition raises, so does the meaning.      *)
Rewritten(t, n, inputs) ==
  LET r == Resolved(t, inputs)
  IN /\ r \in [tree : TreesTo[n], synthetic : Nat, raises : BOOLEAN]
     /\ Ifs(t) \in Nat /\ r.synthetic <= Ifs(t)
     /\ r.raises => Meaning(t, inputs) = Raises
     /\ ~r.raises => Eager(r.tree, inputs) = Meaning(t, inputs)

LEMMA RewrittenHigher ==
  ASSUME NEW n \in 1 .. BuildLimit, NEW t, NEW inputs, Rewritten(t, n - 1, inputs)
  PROVE  Resolved(t, inputs) \in [tree : TreesTo[n], synthetic : Nat, raises : BOOLEAN]
BY TreesGrow DEF Rewritten

LEMMA LeafRewritten ==
  ASSUME NEW n \in 0 .. BuildLimit, NEW t \in TreesTo[n], ~IsOperation(t), NEW inputs
  PROVE  Rewritten(t, n, inputs)
<1>1. t \in Trees
  BY TreesInTrees
<1>2. /\ Resolved(t, inputs) = [tree |-> t, synthetic |-> 0, raises |-> FALSE]
      /\ Ifs(t) = 0
      /\ Meaning(t, inputs) = LeafValue(t, inputs) /\ Eager(t, inputs) = LeafValue(t, inputs)
  BY <1>1, ResolvedEquation, IfsEquation, MeaningEquation, EagerEquation
<1> QED BY <1>2 DEF Rewritten

LEMMA FunctionIsSequence ==
  ASSUME NEW S, NEW k \in Nat, NEW f \in [1 .. k -> S]
  PROVE  f \in Seq(S) /\ Len(f) = k
OBVIOUS

(* An operation that is not an IF keeps its place.                         *)
LEMMA KeptRewritten ==
  ASSUME NEW n \in 1 .. BuildLimit, NEW t \in TreesTo[n], IsOperation(t), t.operator # "IF",
         NEW inputs \in Inputs,
         \A i \in DOMAIN t.arguments : Rewritten(t.arguments[i], n - 1, inputs)
  PROVE  Rewritten(t, n, inputs)
<1> DEFINE a == t.arguments
           r == [i \in DOMAIN a |-> Resolved(a[i], inputs)]
           trees == [i \in DOMAIN r |-> r[i].tree]
           counts == [i \in DOMAIN r |-> r[i].synthetic]
           ifs == [i \in DOMAIN a |-> Ifs(a[i])]
           m == [i \in DOMAIN a |-> Meaning(a[i], inputs)]
           u == [t EXCEPT !.arguments = trees]
           e == [i \in DOMAIN u.arguments |-> Eager(u.arguments[i], inputs)]
<1>1. /\ t \in Trees /\ t \in OperationsOn(TreesTo[n - 1]) /\ n - 1 \in 0 .. BuildLimit
      /\ t.operator \in Operators
      /\ DOMAIN a = 1 .. Len(a) /\ Len(a) \in Nat
      /\ \A i \in DOMAIN a : a[i] \in TreesTo[n - 1]
  <2>1. n \in 0 .. BuildLimit
    OBVIOUS
  <2> QED BY <2>1, TreesInTrees, TreeShapes
<1>2. \A i \in DOMAIN a :
        /\ r[i] \in [tree : TreesTo[n - 1], synthetic : Nat, raises : BOOLEAN]
        /\ ifs[i] \in Nat /\ counts[i] \in Nat /\ counts[i] <= ifs[i]
        /\ r[i].raises => m[i] = Raises
        /\ ~r[i].raises => Eager(trees[i], inputs) = m[i]
  BY DEF Rewritten
<1>3. /\ Resolved(t, inputs) = Kept(t, r)
      /\ Ifs(t) = Total(ifs) + 0
      /\ Meaning(t, inputs) = Operation(t, m)
  BY <1>1, ResolvedEquation, IfsEquation, MeaningEquation
<1>4. Kept(t, r) = [tree |-> u, synthetic |-> Total(counts),
                    raises |-> \E i \in DOMAIN r : r[i].raises]
  BY DEF Kept
<1>5. /\ DOMAIN r = 1 .. Len(a) /\ DOMAIN trees = 1 .. Len(a) /\ DOMAIN m = 1 .. Len(a)
      /\ counts \in Seq(Nat) /\ ifs \in Seq(Nat) /\ trees \in Seq(TreesTo[n - 1])
      /\ Len(counts) = Len(a) /\ Len(ifs) = Len(a)
  <2>1. DOMAIN r = 1 .. Len(a) /\ DOMAIN trees = 1 .. Len(a) /\ DOMAIN m = 1 .. Len(a)
    BY <1>1
  <2>2. counts \in [1 .. Len(a) -> Nat] /\ ifs \in [1 .. Len(a) -> Nat]
    BY <1>1, <1>2
  <2>3. trees \in [1 .. Len(a) -> TreesTo[n - 1]]
    BY <1>1, <1>2
  <2> HIDE DEF counts, ifs, trees, r, m
  <2> QED BY <1>1, <2>1, <2>2, <2>3, FunctionIsSequence
<1>6. /\ u \in OperationsOn(TreesTo[n - 1]) /\ IsOperation(u) /\ u.arguments = trees
      /\ u.operator = t.operator /\ u.signature = t.signature
  <2> HIDE DEF trees
  <2> QED BY <1>1, <1>5 DEF OperationsOn, IsOperation
<1>7. u \in TreesTo[n] /\ u \in Trees
  <2>1. u \in TreesTo[n]
    BY <1>6, TreesToFacts
  <2>2. n \in 0 .. BuildLimit
    OBVIOUS
  <2> QED BY <2>1, <2>2, TreesInTrees
<1>8. Eager(u, inputs) = Operation(u, e)
  BY <1>6, <1>7, EagerEquation
<1>9. DOMAIN e = 1 .. Len(a) /\ \A i \in DOMAIN a : e[i] = Eager(trees[i], inputs)
  BY <1>1, <1>5, <1>6
<1>10. Total(counts) \in Nat /\ Total(ifs) \in Nat /\ Total(counts) <= Total(ifs)
  BY <1>1, <1>2, <1>5, TotalType, TotalGrows
<1>11. \A i \in DOMAIN a : a[i] \in Trees /\ trees[i] \in Trees
  BY <1>1, <1>2, TreesInTrees
<1>12. \A i \in DOMAIN a : ~r[i].raises => m[i] = Raises \/ m[i].state \in States
  BY <1>2, <1>11, EagerState
<1> HIDE DEF r, trees, counts, ifs, m, u, e
<1>13. ASSUME \E i \in DOMAIN r : r[i].raises PROVE Meaning(t, inputs) = Raises
  BY <1>1, <1>2, <1>3, <1>5, <1>13 DEF Operation
<1>14. ASSUME \A i \in DOMAIN r : ~r[i].raises PROVE Eager(u, inputs) = Meaning(t, inputs)
  <2>1. e = m
    <3>1. \A i \in 1 .. Len(a) : e[i] = m[i]
      BY <1>1, <1>2, <1>5, <1>9, <1>14
    <3>2. e = [i \in 1 .. Len(a) |-> e[i]] /\ m = [i \in 1 .. Len(a) |-> m[i]]
      BY <1>5, <1>9 DEF e, m
    <3> QED BY <3>1, <3>2
  <2>2. Operation(u, e) = Operation(t, e)
    BY <1>6 DEF Operation
  <2> QED BY <1>3, <1>8, <2>1, <2>2
<1>15. Resolved(t, inputs) = [tree |-> u, synthetic |-> Total(counts),
                              raises |-> \E i \in DOMAIN r : r[i].raises]
  BY <1>3, <1>4
<1> QED BY <1>3, <1>7, <1>10, <1>13, <1>14, <1>15 DEF Rewritten

(* An IF becomes what its condition selects.                               *)
LEMMA SelectedRewritten ==
  ASSUME NEW n \in 1 .. BuildLimit, NEW t \in TreesTo[n], IsOperation(t), t.operator = "IF",
         DOMAIN t.arguments = 1 .. 3, Len(t.arguments) = 3,
         NEW inputs \in Inputs,
         \A i \in 1 .. 3 : Rewritten(t.arguments[i], n - 1, inputs)
  PROVE  Rewritten(t, n, inputs)
<1> DEFINE a == t.arguments
           r == [i \in DOMAIN a |-> Resolved(a[i], inputs)]
           ifs == [i \in DOMAIN a |-> Ifs(a[i])]
           m == [i \in DOMAIN a |-> Meaning(a[i], inputs)]
           Shapes == [tree : TreesTo[n], synthetic : Nat, raises : BOOLEAN]
<1>1. n \in 0 .. BuildLimit /\ t \in Trees /\ n - 1 \in 0 .. BuildLimit
  <2>1. n \in 0 .. BuildLimit
    OBVIOUS
  <2> QED BY <2>1, TreesInTrees, TreeShapes
<1>2. \A i \in 1 .. 3 :
        /\ r[i] \in Shapes /\ r[i].tree \in TreesTo[n - 1]
        /\ ifs[i] \in Nat /\ r[i].synthetic <= ifs[i]
        /\ r[i].raises => m[i] = Raises
        /\ ~r[i].raises => Eager(r[i].tree, inputs) = m[i]
  BY RewrittenHigher DEF Rewritten
<1>3. /\ Resolved(t, inputs) = Selected(t, r, inputs)
      /\ Ifs(t) = Total(ifs) + 1
      /\ Meaning(t, inputs) = MeaningOfIf(t, m)
  BY <1>1, ResolvedEquation, IfsEquation, MeaningEquation
<1>4. Ifs(t) = ifs[1] + ifs[2] + ifs[3] + 1
  <2>1. ifs \in [1 .. 3 -> Nat]
    BY <1>2
  <2> HIDE DEF ifs
  <2>2. PICK k \in Nat : k = 3
    OBVIOUS
  <2>3. ifs \in [1 .. k -> Nat]
    BY <2>1, <2>2
  <2>4. ifs \in Seq(Nat) /\ Len(ifs) = k
    BY <2>3, FunctionIsSequence
  <2> QED BY <1>3, <2>2, <2>4, TotalOfThree
<1>5. t.signature \in Declared
  BY <1>1, TreeShapes
<1> DEFINE c == r[1]
           condition == Eager(c.tree, inputs)
           j == IF condition.value = Truth(TRUE) THEN 2 ELSE 3
           branch == r[j]
<1>6. condition = Raises \/ condition.state \in States
  BY <1>1, <1>2, TreesInTrees, EagerState
<1>7. Selected(t, r, inputs) =
        CASE c.raises \/ condition = Raises -> [c EXCEPT !.raises = TRUE]
          [] ~c.raises /\ condition # Raises /\ ~IsValid(condition) ->
               [tree |-> Synthetic(condition.state, t.signature),
                synthetic |-> c.synthetic + 1, raises |-> FALSE]
          [] ~c.raises /\ condition # Raises /\ IsValid(condition) ->
               [branch EXCEPT !.synthetic = @ + c.synthetic]
  BY DEF Selected
<1>8. j = 2 \/ j = 3
  OBVIOUS
<1> HIDE DEF r, ifs, m, Shapes, j
<1>9. /\ c \in Shapes /\ branch \in Shapes
      /\ c.synthetic <= ifs[1] /\ branch.synthetic <= ifs[j]
      /\ ifs[1] \in Nat /\ ifs[2] \in Nat /\ ifs[3] \in Nat
      /\ branch.raises => m[j] = Raises
      /\ ~branch.raises => Eager(branch.tree, inputs) = m[j]
  <2>1. j \in 1 .. 3 /\ 1 \in 1 .. 3 /\ 2 \in 1 .. 3 /\ 3 \in 1 .. 3
    BY <1>8
  <2> QED BY <1>2, <2>1
<1>10. CASE c.raises \/ condition = Raises
  <2>1. Resolved(t, inputs) = [c EXCEPT !.raises = TRUE]
    BY <1>3, <1>7, <1>10
  <2>2. m[1] = Raises
    BY <1>2, <1>10
  <2>3. Meaning(t, inputs) = Raises
    BY <1>3, <2>2 DEF MeaningOfIf
  <2>4. /\ Resolved(t, inputs) \in Shapes
        /\ Resolved(t, inputs).synthetic = c.synthetic /\ Resolved(t, inputs).raises
    <3> HIDE DEF c, condition
    <3> QED BY <1>9, <2>1 DEF Shapes
  <2>5. c.synthetic \in Nat
    <3> HIDE DEF c
    <3> QED BY <1>9 DEF Shapes
  <2> HIDE DEF c, condition, branch
  <2> QED BY <1>4, <1>9, <2>3, <2>4, <2>5 DEF Rewritten, Shapes
<1>11. CASE ~c.raises /\ condition # Raises /\ ~IsValid(condition)
  <2> DEFINE s == Synthetic(condition.state, t.signature)
  <2>1. Resolved(t, inputs) = [tree |-> s, synthetic |-> c.synthetic + 1, raises |-> FALSE]
    BY <1>3, <1>7, <1>11
  <2>2. s \in Simple
    BY <1>5, <1>6, <1>11 DEF Synthetic, Simple
  <2>3. s \in TreesTo[n] /\ s \in Trees /\ ~IsOperation(s)
    BY <1>1, <2>2, SimpleInAll, TreesInTrees DEF IsOperation, Synthetic
  <2>4. Eager(s, inputs) = Nonvalid(condition.state, t.signature)
    <3>1. Eager(s, inputs) = LeafValue(s, inputs)
      BY <2>3, EagerEquation
    <3>2. s.kind = "SYNTHETIC" /\ s.state = condition.state /\ s.signature = t.signature
      BY DEF Synthetic
    <3> HIDE DEF s
    <3> QED BY <3>1, <3>2 DEF LeafValue
  <2>5. m[1] = condition
    BY <1>2, <1>11
  <2>6. Meaning(t, inputs) = Nonvalid(condition.state, t.signature)
    BY <1>3, <1>11, <2>5 DEF MeaningOfIf
  <2>7. c.synthetic \in Nat
    <3> HIDE DEF c
    <3> QED BY <1>9 DEF Shapes
  <2> HIDE DEF s, c, condition, branch
  <2> QED BY <1>4, <1>9, <2>1, <2>3, <2>4, <2>6, <2>7 DEF Rewritten
<1>12. CASE ~c.raises /\ condition # Raises /\ IsValid(condition)
  <2>1. Resolved(t, inputs) = [branch EXCEPT !.synthetic = @ + c.synthetic]
    BY <1>3, <1>7, <1>12
  <2>2. m[1] = condition
    BY <1>2, <1>12
  <2>3. Meaning(t, inputs) = m[j]
    <3>1. m[1] # Raises /\ IsValid(m[1])
      BY <1>12, <2>2
    <3>2. MeaningOfIf(t, m) = m[IF m[1].value = Truth(TRUE) THEN 2 ELSE 3]
      BY <3>1 DEF MeaningOfIf
    <3>3. j = IF m[1].value = Truth(TRUE) THEN 2 ELSE 3
      BY <2>2 DEF j
    <3> QED BY <1>3, <3>2, <3>3
  <2> HIDE DEF c, condition, branch
  <2>4. c.synthetic \in Nat /\ branch.synthetic \in Nat
    BY <1>9 DEF Shapes
  <2>5. /\ Resolved(t, inputs) \in Shapes
        /\ Resolved(t, inputs).synthetic = branch.synthetic + c.synthetic
        /\ Resolved(t, inputs).raises = branch.raises /\ Resolved(t, inputs).tree = branch.tree
    BY <1>9, <2>1, <2>4 DEF Shapes
  <2>6. Ifs(t) \in Nat /\ branch.synthetic + c.synthetic <= Ifs(t)
    <3>1. CASE j = 2
      BY <1>4, <1>9, <2>4, <3>1
    <3>2. CASE j = 3
      BY <1>4, <1>9, <2>4, <3>2
    <3> QED BY <1>8, <3>1, <3>2
  <2> QED BY <1>9, <2>3, <2>5, <2>6 DEF Rewritten, Shapes
<1> QED BY <1>10, <1>11, <1>12

LEMMA RewritingKeepsMeaning ==
  ASSUME NEW inputs \in Inputs, NEW d
  PROVE  \A t \in Trees : WellTyped(t, d) => Rewritten(t, BuildLimit, inputs)
<1> DEFINE T == {n \in 0 .. BuildLimit :
                   \A t \in TreesTo[n] : WellTyped(t, d) => Rewritten(t, n, inputs)}
<1>1. ASSUME NEW n \in 0 .. BuildLimit, n # 0 => n - 1 \in T PROVE n \in T
  <2> SUFFICES ASSUME NEW t \in TreesTo[n], WellTyped(t, d)
               PROVE  Rewritten(t, n, inputs)
    OBVIOUS
  <2>1. t \in Trees
    BY TreesInTrees
  <2>2. CASE ~IsOperation(t)
    BY <2>2, LeafRewritten
  <2>3. CASE IsOperation(t)
    <3>1. /\ n \in 1 .. BuildLimit
          /\ \A i \in DOMAIN t.arguments : t.arguments[i] \in TreesTo[n - 1]
      BY <2>3, TreeShapes, ExpressionAssumption
    <3>2. \A i \in DOMAIN t.arguments : Rewritten(t.arguments[i], n - 1, inputs)
      BY <1>1, <2>1, <2>3, <3>1, ArgumentsWellTyped
    <3>3. CASE t.operator # "IF"
      BY <2>3, <3>1, <3>2, <3>3, KeptRewritten
    <3>4. CASE t.operator = "IF"
      <4>1. DOMAIN t.arguments = 1 .. 3 /\ Len(t.arguments) = 3
        BY <2>1, <2>3, <3>4, ArgumentsWellTyped
      <4> QED BY <2>3, <3>1, <3>2, <3>4, <4>1, SelectedRewritten
    <3> QED BY <3>3, <3>4
  <2> QED BY <2>2, <2>3
<1> HIDE DEF T
<1>2. BuildLimit \in T
  <2>1. 0 \in T /\ \A n \in 1 .. BuildLimit : n - 1 \in T => n \in T
    BY <1>1, ExpressionAssumption
  <2> QED BY <2>1, UptoInduction, ExpressionAssumption
<1> QED BY <1>2 DEF T, Trees

-----------------------------------------------------------------------------
(* The stack holds trees, and what was evaluated last is one of them.      *)
Answer(t, inputs, d) ==
  IF ValidExpression(t, d) /\ DOMAIN inputs \subseteq d THEN Lazy(t, inputs, d) ELSE Raises

Evaluation(v) ==
  \E t \in Trees, inputs \in Inputs, d \in DependencySets :
    v = [tree |-> t, inputs |-> inputs, dependencies |-> d, result |-> Answer(t, inputs, d)]

ExpressionInv == stack \in Seq(Trees) /\ (evaluated = Nothing \/ Evaluation(evaluated))

LEMMA RoundedFacts ==
  ASSUME NEW v, v # Raises => v.state \in States
  PROVE  /\ Rounded(Raises) = Raises
         /\ v # Raises => Rounded(v) # Raises /\ Rounded(v).signature = v.signature
BY NormalizedKeeps, RaisesHasNoState DEF Rounded

(* Room for many synthetic variables is room for fewer.                    *)
LEMMA RoomForFewer ==
  ASSUME NEW d \in DependencySets, NEW m \in Nat, NEW n \in Nat, m <= n, ~NoRoom(d, n)
  PROVE  ~NoRoom(d, m)
<1>1. Cardinality(d) \in Nat
  BY ExpressionAssumption, FS_CardinalityType
<1>2. 0 .. (m - 1) \subseteq 0 .. (n - 1)
  OBVIOUS
<1> QED BY <1>1, <1>2, ExpressionAssumption DEF NoRoom

LEMMA AnswerIsMeaning ==
  ASSUME NEW t \in Trees, NEW inputs \in Inputs, NEW d \in DependencySets,
         ValidExpression(t, d), DOMAIN inputs \subseteq d
  PROVE  /\ ~NoRoom(d, Ifs(t)) \/ Answer(t, inputs, d) # Raises
              => Answer(t, inputs, d) = Rounded(Meaning(t, inputs))
         /\ Answer(t, inputs, d) # Raises => Answer(t, inputs, d).signature = t.signature
         /\ ~NoRoom(d, Ifs(t)) /\ HasInputs(t, inputs) => Answer(t, inputs, d) # Raises
<1> DEFINE r == Resolved(t, inputs)
<1>1. WellTyped(t, d)
  BY DEF ValidExpression
<1>2. Rewritten(t, BuildLimit, inputs) /\ MeansWell(t, inputs)
  BY <1>1, RewritingKeepsMeaning, MeaningFacts
<1>3. /\ r.synthetic \in Nat /\ Ifs(t) \in Nat /\ r.synthetic <= Ifs(t)
      /\ r.raises => Meaning(t, inputs) = Raises
      /\ ~r.raises => Eager(r.tree, inputs) = Meaning(t, inputs)
  BY <1>2 DEF Rewritten
<1>4. Answer(t, inputs, d) = IF r.raises \/ NoRoom(d, r.synthetic)
                             THEN Raises ELSE Rounded(Eager(r.tree, inputs))
  BY DEF Answer, Lazy
<1> HIDE DEF r
<1>5. ~NoRoom(d, Ifs(t)) => ~NoRoom(d, r.synthetic)
  BY <1>3, RoomForFewer
<1>6. /\ Rounded(Raises) = Raises
      /\ Meaning(t, inputs) # Raises =>
           /\ Rounded(Meaning(t, inputs)) # Raises
           /\ Rounded(Meaning(t, inputs)).signature = Meaning(t, inputs).signature
  BY <1>2, RoundedFacts DEF MeansWell
<1>7. ~NoRoom(d, r.synthetic) => Answer(t, inputs, d) = Rounded(Meaning(t, inputs))
  BY <1>3, <1>4, <1>6
<1>8. NoRoom(d, r.synthetic) => Answer(t, inputs, d) = Raises
  BY <1>4
<1> QED BY <1>2, <1>5, <1>6, <1>7, <1>8 DEF MeansWell

LEMMA ExpressionInvImplies == ExpressionInv => ShortCircuit
<1> SUFFICES ASSUME ExpressionInv, evaluated # Nothing,
                    ValidExpression(evaluated.tree, evaluated.dependencies),
                    DOMAIN evaluated.inputs \subseteq evaluated.dependencies
             PROVE  /\ ~NoRoom(evaluated.dependencies, Ifs(evaluated.tree))
                         \/ evaluated.result # Raises
                         => evaluated.result = Rounded(Meaning(evaluated.tree, evaluated.inputs))
                    /\ evaluated.result # Raises =>
                         evaluated.result.signature = evaluated.tree.signature
                    /\ ~NoRoom(evaluated.dependencies, Ifs(evaluated.tree))
                         /\ HasInputs(evaluated.tree, evaluated.inputs)
                         => evaluated.result # Raises
  BY DEF ShortCircuit, HasInputs
<1>1. PICK t \in Trees, inputs \in Inputs, d \in DependencySets :
        evaluated = [tree |-> t, inputs |-> inputs, dependencies |-> d,
                     result |-> Answer(t, inputs, d)]
  BY DEF ExpressionInv, Evaluation
<1>2. /\ evaluated.tree = t /\ evaluated.inputs = inputs /\ evaluated.dependencies = d
      /\ evaluated.result = Answer(t, inputs, d)
  BY <1>1
<1> QED BY <1>2, AnswerIsMeaning

LEMMA ExpressionInvInit == ExpressionInit => ExpressionInv
BY DEF ExpressionInit, ExpressionInv

LEMMA ExpressionInvNext == ExpressionInv /\ [ExpressionNext]_expressionVars => ExpressionInv'
<1> SUFFICES ASSUME ExpressionInv, [ExpressionNext]_expressionVars PROVE ExpressionInv'
  OBVIOUS
<1>1. ASSUME NEW leaf \in Leaves, PushLeaf(leaf) PROVE ExpressionInv'
  <2>1. BuildLimit \in 0 .. BuildLimit
    BY ExpressionAssumption
  <2>2. leaf \in Trees
    BY <2>1, SimpleInAll DEF Trees, Simple
  <2> QED BY <1>1, <2>2 DEF PushLeaf, ExpressionInv
<1>2. ASSUME NEW op \in Operators, NEW s \in Declared, PushOperation(op, s) PROVE ExpressionInv'
  <2> DEFINE k == Len(stack) - Arity(op)
             low == SubSeq(stack, 1, k)
             high == SubSeq(stack, k + 1, Len(stack))
             t == [kind |-> "OPERATION", operator |-> op, signature |-> s, arguments |-> high]
  <2>1. /\ k >= 0 /\ stack' = Append(low, t) /\ evaluated' = evaluated
        /\ \A i \in (k + 1) .. Len(stack) : stack[i] \in TreesTo[BuildLimit - 1]
    BY <1>2 DEF PushOperation, expressionVars
  <2>2. k \in Nat /\ k <= Len(stack) /\ Len(stack) \in Nat /\ stack \in Seq(Trees)
    BY <2>1 DEF Arity, ExpressionInv
  <2> HIDE DEF k
  <2>3. low \in Seq(Trees)
    BY <2>2
  <2>4. high \in Seq(TreesTo[BuildLimit - 1])
    <3>1. \A i \in 1 .. Len(stack) - k : high[i] = stack[k + i] /\ k + i \in (k + 1) .. Len(stack)
      BY <2>2
    <3>2. DOMAIN high = 1 .. Len(stack) - k /\ high = [i \in 1 .. Len(stack) - k |-> high[i]]
      BY <2>2
    <3> HIDE DEF high
    <3>3. high \in [1 .. Len(stack) - k -> TreesTo[BuildLimit - 1]]
      BY <2>1, <3>1, <3>2
    <3>4. Len(stack) - k \in Nat
      BY <2>2
    <3> QED BY <3>3, <3>4, FunctionIsSequence
  <2> HIDE DEF high
  <2>5. t \in OperationsOn(TreesTo[BuildLimit - 1])
    BY <2>4 DEF OperationsOn
  <2>6. t \in Trees
    BY <2>5, TreesToFacts, ExpressionAssumption DEF Trees
  <2> HIDE DEF low, t
  <2>7. Append(low, t) \in Seq(Trees)
    BY <2>3, <2>6
  <2> QED BY <2>1, <2>7 DEF ExpressionInv, Evaluation
<1>3. ASSUME NEW inputs \in Inputs, NEW d \in DependencySets, EvaluateExpression(inputs, d)
      PROVE  ExpressionInv'
  <2>1. stack[1] \in Trees
    BY <1>3 DEF EvaluateExpression, ExpressionInv
  <2>2. evaluated' = [tree |-> stack[1], inputs |-> inputs, dependencies |-> d,
                      result |-> Answer(stack[1], inputs, d)]
    BY <1>3 DEF EvaluateExpression, Answer
  <2>3. Evaluation(evaluated')
    BY <2>1, <2>2 DEF Evaluation
  <2>4. stack' \in Seq(Trees)
    BY <1>3 DEF EvaluateExpression
  <2> QED BY <2>3, <2>4 DEF ExpressionInv, Evaluation
<1>4. CASE UNCHANGED expressionVars
  BY <1>4 DEF ExpressionInv, Evaluation, expressionVars
<1> QED BY <1>1, <1>2, <1>3, <1>4 DEF ExpressionNext

(* Whatever expressions are built and evaluated: rewriting the IFs away    *)
(* and evaluating what is left gives the meaning of the expression, with   *)
(* the declared signature, or raises; and an expression that passed        *)
(* validation does not raise when its variables are given and there is     *)
(* room for its synthetic variables (evaluate_expression of                *)
(* _expression_lazy, resolve, register_nonvalid and walk).                 *)
THEOREM LazyIsMeaning == ExpressionSpec => []ShortCircuit
<1> QED BY ExpressionInvInit, ExpressionInvNext, ExpressionInvImplies, PTL DEF ExpressionSpec
=============================================================================
