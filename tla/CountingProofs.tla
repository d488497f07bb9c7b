--------------------------- MODULE CountingProofs ---------------------------
(***************************************************************************)
(* Induction over sets of numbers, functions given by a first value and a  *)
(* step, and what the operators of Counting return.  The installed provers *)
(* cannot instantiate an induction theorem whose parameter is an operator; *)
(* SetInduction, whose parameter is a set, takes the place of it.          *)
(***************************************************************************)
EXTENDS Counting, SequencesExt, FiniteSetTheorems, SequenceTheorems, TLAPS

LEMMA FunctionSeq ==
  ASSUME NEW T, NEW n \in Nat, NEW f \in [1..n -> T]
  PROVE  f \in Seq(T) /\ Len(f) = n /\ DOMAIN f = 1..n
<1>1. f \in Seq(T) BY SeqDef
<1>2. Len(f) = n /\ DOMAIN f = 1..n BY <1>1, LenProperties
<1> QED BY <1>1, <1>2

\* Were n not in T, the members of T up to n would map one to one to fewer of them.
LEMMA SetInduction ==
  ASSUME NEW T, 0 \in T, \A k \in Nat : k \in T => k + 1 \in T
  PROVE Nat \subseteq T
<1> SUFFICES ASSUME NEW n \in Nat, n \notin T PROVE FALSE OBVIOUS
<1> DEFINE S == {k \in 0 .. n : k \in T}
<1> DEFINE f == [k \in S |-> k + 1]
<1>1. IsFiniteSet(S) /\ Cardinality(S) \in Nat
  <2>1. IsFiniteSet(0 .. n) BY FS_Interval
  <2> QED BY <2>1, FS_Subset, FS_CardinalityType
<1>2. IsFiniteSet(S \ {0}) /\ Cardinality(S \ {0}) < Cardinality(S)
  <2>1. 0 \in S OBVIOUS
  <2>2. IsFiniteSet(S \ {0}) /\ Cardinality(S \ {0}) = Cardinality(S) - 1
    <3> HIDE DEF S
    <3> QED BY <2>1, <1>1, FS_RemoveElement
  <2> QED BY <2>2, <1>1
<1>3. f \in [S -> S \ {0}]
  <2>1. ASSUME NEW k \in S PROVE k + 1 \in S \ {0}
    BY <2>1
  <2> QED BY <2>1
<1>4. \E x, y \in S : x # y /\ f[x] = f[y]
  <2> HIDE DEF S, f
  <2> QED BY <1>1, <1>2, <1>3, FS_PigeonHole
<1> QED BY <1>4

Rank(K, i) == Cardinality({k \in K : k <= i})

\* The rank counts up by one at each member.
LEMMA RankFacts ==
  ASSUME NEW n \in Nat, NEW K \in SUBSET (1..n)
  PROVE  /\ IsFiniteSet(K) /\ Cardinality(K) \in Nat
         /\ \A i \in Nat : Rank(K, i) \in Nat
         /\ Rank(K, 0) = 0
         /\ \A i \in Nat : Rank(K, i + 1) = IF i + 1 \in K THEN Rank(K, i) + 1 ELSE Rank(K, i)
         /\ Rank(K, n) = Cardinality(K)
<1>0. \A k \in K : k \in Nat /\ 1 <= k /\ k <= n OBVIOUS
<1>1. IsFiniteSet(K) /\ Cardinality(K) \in Nat
  <2>1. IsFiniteSet(1..n) BY FS_Interval
  <2> QED BY <2>1, FS_Subset, FS_CardinalityType
<1> DEFINE Upto(i) == {k \in K : k <= i}
<1>2. ASSUME NEW i \in Nat PROVE IsFiniteSet(Upto(i)) /\ Rank(K, i) \in Nat
  <2>1. IsFiniteSet(Upto(i)) BY <1>1, FS_Subset
  <2> QED BY <2>1, FS_CardinalityType DEF Rank
<1>3. Rank(K, 0) = 0
  <2>1. \A k \in K : ~(k <= 0) BY <1>0
  <2>2. Upto(0) = {} BY <2>1
  <2> QED BY <2>2, FS_EmptySet DEF Rank
<1>4. ASSUME NEW i \in Nat
      PROVE Rank(K, i + 1) = IF i + 1 \in K THEN Rank(K, i) + 1 ELSE Rank(K, i)
  <2>1. CASE i + 1 \in K
    <3>0. \A k \in K : k <= i + 1 <=> k <= i \/ k = i + 1 BY <1>0
    <3>1. Upto(i + 1) = Upto(i) \cup {i + 1} BY <3>0, <2>1
    <3>2. i + 1 \notin Upto(i) OBVIOUS
    <3>3. Rank(K, i) = Cardinality(Upto(i)) /\ Rank(K, i + 1) = Cardinality(Upto(i + 1))
      BY DEF Rank
    <3> HIDE DEF Upto
    <3> QED BY <1>2, <2>1, <3>1, <3>2, <3>3, FS_AddElement
  <2>2. CASE i + 1 \notin K
    <3>0. \A k \in K : k <= i + 1 <=> k <= i BY <1>0, <2>2
    <3>1. Upto(i + 1) = Upto(i) BY <3>0
    <3> QED BY <2>2, <3>1 DEF Rank
  <2> QED BY <2>1, <2>2
<1>5. Rank(K, n) = Cardinality(K)
  <2>1. Upto(n) = K BY <1>0
  <2> QED BY <2>1 DEF Rank
<1> QED BY <1>1, <1>2, <1>3, <1>4, <1>5

LEMMA RankGrows ==
  ASSUME NEW n \in Nat, NEW K \in SUBSET (1..n)
  PROVE  \A i, j \in Nat : i <= j => Rank(K, i) <= Rank(K, j)
<1> SUFFICES ASSUME NEW i \in Nat, NEW j \in Nat, i <= j PROVE Rank(K, i) <= Rank(K, j)
  OBVIOUS
<1> DEFINE T == {d \in Nat : Rank(K, i) <= Rank(K, i + d)}
<1>1. 0 \in T BY SMTT(30), RankFacts
<1>2. ASSUME NEW d \in Nat, d \in T PROVE d + 1 \in T
  <2>1. i + d \in Nat /\ i + (d + 1) = (i + d) + 1 OBVIOUS
  <2>2. Rank(K, i) \in Nat /\ Rank(K, i + d) \in Nat BY <2>1, RankFacts
  <2> DEFINE e == i + d
  <2>5. Rank(K, e + 1) = IF e + 1 \in K THEN Rank(K, e) + 1 ELSE Rank(K, e)
    BY <2>1, RankFacts
  <2>3. Rank(K, i + (d + 1)) >= Rank(K, i + d) /\ Rank(K, i + (d + 1)) \in Nat
    BY <2>1, <2>2, <2>5
  <2>4. Rank(K, i) <= Rank(K, i + d) BY <1>2
  <2> QED BY <2>2, <2>3, <2>4
<1>3. j - i \in T
  <2> HIDE DEF T
  <2> QED BY <1>1, <1>2, SetInduction
<1> QED BY <1>3

\* Nth counts the members of a set.
LEMMA NthFacts ==
  ASSUME NEW n \in Nat, NEW K \in SUBSET (1..n)
  PROVE  /\ Cardinality(K) \in Nat
         /\ \A j \in 1..Cardinality(K) : Nth(K, j) \in K /\ Rank(K, Nth(K, j)) = j
         /\ \A i \in K : Rank(K, i) \in 1..Cardinality(K) /\ Nth(K, Rank(K, i)) = i
<1>0. Cardinality(K) \in Nat /\ Rank(K, n) = Cardinality(K) BY RankFacts
<1>1. ASSUME NEW i \in K, NEW k \in K, i < k PROVE Rank(K, i) < Rank(K, k)
  <2>0. i \in Nat /\ k \in Nat OBVIOUS
  <2> DEFINE e == k - 1
  <2>1. e \in Nat /\ i <= e /\ e + 1 = k BY <1>1, <2>0
  <2> HIDE DEF e
  <2>2. Rank(K, e + 1) = Rank(K, e) + 1 /\ Rank(K, e) \in Nat BY <2>1, RankFacts
  <2>3. Rank(K, i) <= Rank(K, e) /\ Rank(K, i) \in Nat BY <2>0, <2>1, RankGrows, RankFacts
  <2> QED BY <2>1, <2>2, <2>3
<1>2. ASSUME NEW i \in K PROVE Rank(K, i) \in 1..Cardinality(K)
  <2>1. i - 1 \in Nat /\ (i - 1) + 1 = i /\ i <= n /\ i \in Nat OBVIOUS
  <2>2. Rank(K, i) = Rank(K, i - 1) + 1 /\ Rank(K, i - 1) \in Nat BY SMTT(30), <2>1, RankFacts
  <2>3. Rank(K, i) <= Rank(K, n) BY <2>1, RankGrows
  <2> QED BY <2>2, <2>3, <1>0
<1>3. ASSUME NEW j \in 1..Cardinality(K) PROVE \E i \in K : Rank(K, i) = j
  <2> DEFINE T == {m \in Nat : Rank(K, m) >= j => \E i \in K : Rank(K, i) = j}
  <2>1. 0 \in T BY RankFacts
  <2>2. ASSUME NEW m \in Nat, m \in T PROVE m + 1 \in T
    <3>1. ASSUME Rank(K, m + 1) >= j PROVE \E i \in K : Rank(K, i) = j
      <4>1. CASE Rank(K, m) >= j BY <2>2, <4>1
      <4>2. CASE Rank(K, m) < j
        <5>1. Rank(K, m) \in Nat BY RankFacts
        <5>2. Rank(K, m + 1) = IF m + 1 \in K THEN Rank(K, m) + 1 ELSE Rank(K, m) BY RankFacts
        <5>3. m + 1 \in K /\ Rank(K, m + 1) = j BY <3>1, <4>2, <5>1, <5>2, <1>0
        <5> QED BY <5>3
      <4>3. Rank(K, m) \in Nat BY RankFacts
      <4> QED BY <4>1, <4>2, <4>3, <1>0
    <3> QED BY <3>1
  <2>3. n \in T
    <3> HIDE DEF T
    <3> QED BY <2>1, <2>2, SetInduction
  <2> QED BY <2>3, <1>0
<1>4. ASSUME NEW j \in 1..Cardinality(K) PROVE Nth(K, j) \in K /\ Rank(K, Nth(K, j)) = j
  BY <1>3 DEF Nth, Rank
<1>5. ASSUME NEW i \in K PROVE Nth(K, Rank(K, i)) = i
  <2> DEFINE m == Nth(K, Rank(K, i))
  <2>1. m \in K /\ Rank(K, m) = Rank(K, i) BY <1>2, <1>4
  <2>2. ~(m < i) /\ ~(i < m)
    <3> HIDE DEF m
    <3>1. Rank(K, m) \in Nat BY <2>1, <1>2, <1>0
    <3> QED BY <2>1, <1>1, <3>1
  <2>3. m \in Nat /\ i \in Nat
    <3> HIDE DEF m
    <3> QED BY <2>1
  <2> HIDE DEF m
  <2>4. m = i BY <2>2, <2>3
  <2> QED BY <2>4 DEF m
<1> QED BY <1>0, <1>2, <1>4, <1>5

LEMMA PickFacts ==
  ASSUME NEW T, NEW s \in Seq(T), NEW K \in SUBSET (DOMAIN s)
  PROVE  /\ Pick(s, K) \in Seq(T)
         /\ Len(Pick(s, K)) = Cardinality(K) /\ Cardinality(K) \in Nat
         /\ DOMAIN Pick(s, K) = 1..Cardinality(K)
         /\ \A j \in 1..Cardinality(K) : Nth(K, j) \in K /\ Pick(s, K)[j] = s[Nth(K, j)]
         /\ \A i \in K : \E j \in 1..Cardinality(K) : Nth(K, j) = i
         /\ \A i, j \in 1..Cardinality(K) : Nth(K, i) = Nth(K, j) => i = j
<1>1. Len(s) \in Nat /\ DOMAIN s = 1..Len(s) BY LenProperties
<1>2. /\ Cardinality(K) \in Nat
      /\ \A j \in 1..Cardinality(K) : Nth(K, j) \in K /\ Rank(K, Nth(K, j)) = j
      /\ \A i \in K : Rank(K, i) \in 1..Cardinality(K) /\ Nth(K, Rank(K, i)) = i
  BY <1>1, NthFacts
<1> DEFINE f == [j \in 1..Cardinality(K) |-> s[Nth(K, j)]]
<1>3. f \in [1..Cardinality(K) -> T]
  <2>1. ASSUME NEW j \in 1..Cardinality(K) PROVE s[Nth(K, j)] \in T
    BY <1>1, <1>2, ElementOfSeq
  <2> QED BY <2>1
<1>4. f \in Seq(T) /\ Len(f) = Cardinality(K) /\ DOMAIN f = 1..Cardinality(K)
  <2> HIDE DEF f
  <2> QED BY <1>2, <1>3, FunctionSeq
<1>5. Pick(s, K) = f BY DEF Pick
<1>6. \A j \in 1..Cardinality(K) : f[j] = s[Nth(K, j)] OBVIOUS
<1>7. \A i \in K : \E j \in 1..Cardinality(K) : Nth(K, j) = i BY <1>2
<1>8. \A i, j \in 1..Cardinality(K) : Nth(K, i) = Nth(K, j) => i = j
  <2> SUFFICES ASSUME NEW i \in 1..Cardinality(K), NEW j \in 1..Cardinality(K),
                      Nth(K, i) = Nth(K, j)
               PROVE i = j
    OBVIOUS
  <2>1. Rank(K, Nth(K, i)) = i /\ Rank(K, Nth(K, j)) = j BY <1>2
  <2> QED BY <2>1
<1> HIDE DEF f
<1> QED BY <1>2, <1>4, <1>5, <1>6, <1>7, <1>8

\* Every set of numbers has a least one.
LEMMA LeastNumber ==
  ASSUME NEW S \in SUBSET Nat, S # {}
  PROVE  \E n \in S : \A m \in S : n <= m
<1> SUFFICES ASSUME \A n \in S : \E m \in S : ~(n <= m) PROVE FALSE OBVIOUS
<1> DEFINE T == {n \in Nat : \A m \in S : n <= m}
<1>1. 0 \in T OBVIOUS
<1>2. ASSUME NEW n \in Nat, n \in T PROVE n + 1 \in T
  <2>1. n \notin S BY <1>2
  <2>2. ASSUME NEW m \in S PROVE n + 1 <= m
    <3>1. n <= m /\ m # n /\ m \in Nat BY <1>2, <2>1
    <3> QED BY <3>1
  <2> QED BY <2>2
<1>3. Nat \subseteq T
  <2> HIDE DEF T
  <2> QED BY <1>1, <1>2, SetInduction
<1>4. PICK m \in S : TRUE OBVIOUS
<1>5. m + 1 \in T /\ m \in Nat BY <1>3
<1>6. m + 1 <= m BY <1>5
<1> QED BY <1>5, <1>6

\* A function given by its first value and a step.
LEMMA Iteration ==
  ASSUME NEW D, NEW e \in D, NEW G \in [D -> D]
  PROVE  \E f \in [Nat -> D] : f[0] = e /\ \A n \in Nat : f[n + 1] = G[f[n]]
<1> DEFINE A(n, h) == /\ h \in [0..n -> D] /\ h[0] = e
                      /\ \A k \in 0..n : k # 0 => h[k] = G[h[k - 1]]
           T == {n \in Nat : \E h \in [0..n -> D] : A(n, h)}
           U == {k \in Nat : \A n, m \in Nat : \A h \in [0..n -> D], g \in [0..m -> D] :
                                A(n, h) /\ A(m, g) /\ k <= n /\ k <= m => h[k] = g[k]}
<1>1. Nat \subseteq T
  <2>1. 0 \in T
    <3> DEFINE h == [k \in 0..0 |-> e]
    <3>1. A(0, h) OBVIOUS
    <3> QED BY <3>1
  <2>2. ASSUME NEW n \in Nat, n \in T PROVE n + 1 \in T
    <3>1. PICK h \in [0..n -> D] : A(n, h) BY <2>2
    <3> DEFINE g == [k \in 0..(n + 1) |-> IF k = n + 1 THEN G[h[n]] ELSE h[k]]
    <3>2. g \in [0..(n + 1) -> D] BY <3>1
    <3>3. g[0] = e BY <3>1
    <3>4. ASSUME NEW k \in 0..(n + 1), k # 0 PROVE g[k] = G[g[k - 1]]
      <4>1. k - 1 \in 0..n /\ k - 1 # n + 1 BY <3>4
      <4>2. g[k - 1] = h[k - 1] BY <4>1
      <4>3. CASE k = n + 1
        <5>1. k - 1 = n BY <4>3
        <5> QED BY <4>2, <4>3, <5>1
      <4>4. CASE k # n + 1
        <5>1. k \in 0..n BY <4>4
        <5> QED BY <3>1, <3>4, <4>2, <4>4, <5>1
      <4> QED BY <4>3, <4>4
    <3> HIDE DEF g
    <3>5. A(n + 1, g) BY <3>2, <3>3, <3>4
    <3> QED BY <3>2, <3>5
  <2> HIDE DEF T
  <2> QED BY <2>1, <2>2, SetInduction
<1>2. Nat \subseteq U
  <2>1. 0 \in U OBVIOUS
  <2>2. ASSUME NEW k \in Nat, k \in U PROVE k + 1 \in U
    <3> SUFFICES ASSUME NEW n \in Nat, NEW m \in Nat, NEW h \in [0..n -> D], NEW g \in [0..m -> D],
                        A(n, h), A(m, g), k + 1 <= n, k + 1 <= m
                 PROVE  h[k + 1] = g[k + 1]
      <4> HIDE DEF A
      <4> QED OBVIOUS
    <3>0. \A i, j \in Nat : i + 1 <= j => i + 1 \in 0..j /\ i + 1 # 0 /\ (i + 1) - 1 = i /\ i <= j
      OBVIOUS
    <3>1. k + 1 \in 0..n /\ k + 1 \in 0..m /\ k + 1 # 0 /\ (k + 1) - 1 = k /\ k <= n /\ k <= m
      <4> HIDE DEF A
      <4> QED BY <3>0
    <3>2. h[k] = g[k] BY <2>2, <3>1
    <3>3. h[k + 1] = G[h[k]] /\ g[k + 1] = G[g[k]] BY <3>1
    <3> QED BY <3>2, <3>3
  <2> HIDE DEF U
  <2> QED BY <2>1, <2>2, SetInduction
<1> DEFINE H(n) == CHOOSE h : h \in [0..n -> D] /\ A(n, h)
           f == [n \in Nat |-> H(n)[n]]
<1>3. ASSUME NEW n \in Nat PROVE H(n) \in [0..n -> D] /\ A(n, H(n))
  <2>1. \E h : h \in [0..n -> D] /\ A(n, h)
    <3>1. n \in T BY <1>1
    <3> QED BY <3>1
  <2> QED BY <2>1
<1> HIDE DEF H
<1>4. f \in [Nat -> D]
  <2>1. ASSUME NEW n \in Nat PROVE H(n)[n] \in D
    <3>1. H(n) \in [0..n -> D] /\ n \in 0..n BY <1>3
    <3> QED BY <3>1
  <2> QED BY <2>1
<1>5. f[0] = e BY <1>3
<1>6. ASSUME NEW n \in Nat PROVE f[n + 1] = G[f[n]]
  <2>1. A(n, H(n)) /\ H(n) \in [0..n -> D] BY <1>3
  <2>2. A(n + 1, H(n + 1)) /\ H(n + 1) \in [0..(n + 1) -> D]
    <3>1. n + 1 \in Nat OBVIOUS
    <3> QED BY <1>3, <3>1
  <2>3. n + 1 \in 0..(n + 1) /\ n + 1 # 0 /\ (n + 1) - 1 = n /\ n <= n + 1 /\ n <= n /\ n + 1 \in Nat
    OBVIOUS
  <2>4. H(n + 1)[n + 1] = G[H(n + 1)[n]] BY <2>2, <2>3
  <2>5. n \in U BY <1>2
  <2>6. H(n + 1)[n] = H(n)[n]
    <3> HIDE DEF A
    <3> QED BY <2>1, <2>2, <2>3, <2>5
  <2>7. f[n + 1] = H(n + 1)[n + 1] /\ f[n] = H(n)[n] BY <2>3
  <2> QED BY <2>4, <2>6, <2>7
<1> HIDE DEF f
<1> QED BY <1>4, <1>5, <1>6
------------------------------------------------------------------------------
(***************************************************************************)
(* Loops written as recursive functions: f[s] is out[s] where the loop     *)
(* ends, and f of the next state elsewhere.                                *)
(***************************************************************************)
LoopIs(f, S, T, out, step) == f = [s \in S |-> IF s \in T THEN out[s] ELSE f[step[s]]]

\* Such a function exists, whether or not the loop comes to an end.
LEMMA LoopExists ==
  ASSUME NEW S, NEW T, NEW out, NEW step, \A s \in S \ T : step[s] \in S
  PROVE  \E f : LoopIs(f, S, T, out, step)
<1> DEFINE Closed(X) == \A x \in X \ T : step[x] \in X
           Ends(s) == {t \in S \cap T : \A X \in SUBSET S : s \in X /\ Closed(X) => t \in X}
           f == [s \in S |-> out[CHOOSE t : t \in Ends(s)]]
<1>1. ASSUME NEW s \in S \cap T PROVE Ends(s) = {s}
  <2>1. {s} \in SUBSET S /\ Closed({s}) /\ s \in {s} OBVIOUS
  <2>2. \A t \in Ends(s) : t \in {s} BY <2>1
  <2>3. s \in Ends(s) OBVIOUS
  <2> QED BY <2>2, <2>3
<1>2. ASSUME NEW s \in S \ T PROVE Ends(s) = Ends(step[s])
  <2>1. ASSUME NEW t \in Ends(s), NEW X \in SUBSET S, step[s] \in X, Closed(X) PROVE t \in X
    <3>1. X \cup {s} \in SUBSET S /\ Closed(X \cup {s}) /\ s \in X \cup {s} BY <2>1
    <3>2. t \in X \cup {s} BY <3>1
    <3>3. t # s OBVIOUS
    <3> QED BY <3>2, <3>3
  <2>2. ASSUME NEW t \in Ends(step[s]), NEW X \in SUBSET S, s \in X, Closed(X) PROVE t \in X
    <3>1. step[s] \in X BY <2>2
    <3> QED BY <2>2, <3>1
  <2> QED BY <2>1, <2>2
<1>3. ASSUME NEW s \in S PROVE f[s] = IF s \in T THEN out[s] ELSE f[step[s]]
  <2>1. CASE s \in T
    <3>1. Ends(s) = {s} BY <1>1, <2>1
    <3>2. (CHOOSE t : t \in {s}) = s OBVIOUS
    <3> HIDE DEF Ends
    <3> QED BY <2>1, <3>1, <3>2
  <2>2. CASE s \notin T
    <3>1. Ends(s) = Ends(step[s]) /\ step[s] \in S BY <1>2, <2>2
    <3> HIDE DEF Ends
    <3> QED BY <2>2, <3>1
  <2> QED BY <2>1, <2>2
<1>4. f = [s \in S |-> f[s]] OBVIOUS
<1> HIDE DEF f
<1>5. f = [s \in S |-> IF s \in T THEN out[s] ELSE f[step[s]]] BY <1>3, <1>4
<1> QED BY <1>5 DEF LoopIs

\* A loop that keeps I and counts down ends in I.
LEMMA LoopEnds ==
  ASSUME NEW S, NEW T, NEW out, NEW step, NEW f, LoopIs(f, S, T, out, step),
         NEW I \in SUBSET S, NEW m, \A s \in I : m[s] \in Nat,
         \A s \in I \ T : step[s] \in I /\ m[step[s]] < m[s],
         NEW s0 \in I
  PROVE  \E e \in I \cap T : f[s0] = out[e]
<1> DEFINE Done(s) == \E e \in I \cap T : f[s] = out[e]
           Late == {n \in Nat : \E s \in I : m[s] = n /\ ~Done(s)}
<1>1. CASE Late = {} BY <1>1
<1>2. CASE Late # {}
  <2>1. PICK n \in Late : \A k \in Late : n <= k
    <3>1. Late \in SUBSET Nat OBVIOUS
    <3> HIDE DEF Late
    <3> QED BY <1>2, <3>1, LeastNumber
  <2>2. PICK s \in I : m[s] = n /\ ~Done(s) BY <2>1
  <2>3. \A t \in S : f[t] = IF t \in T THEN out[t] ELSE f[step[t]] BY DEF LoopIs
  <2>4. s \notin T BY <2>2, <2>3
  <2>5. step[s] \in I /\ m[step[s]] < n /\ m[step[s]] \in Nat BY <2>2, <2>4
  <2>6. Done(step[s])
    <3>1. m[step[s]] \notin Late BY <2>1, <2>5
    <3> HIDE DEF Done
    <3> QED BY <2>5, <3>1
  <2>7. f[s] = f[step[s]] BY <2>2, <2>3, <2>4
  <2> QED BY <2>2, <2>6, <2>7
<1> QED BY <1>1, <1>2

LEMMA FewerMembers ==
  ASSUME NEW U, IsFiniteSet(U), NEW A \in SUBSET U, NEW B \in SUBSET A, NEW x \in A, x \notin B
  PROVE  Cardinality(A) \in Nat /\ Cardinality(B) \in Nat /\ Cardinality(B) < Cardinality(A)
<1>1. IsFiniteSet(A) /\ IsFiniteSet(B) BY FS_Subset
<1>2. Cardinality(A) \in Nat /\ Cardinality(B) \in Nat BY <1>1, FS_CardinalityType
<1>3. Cardinality(B) <= Cardinality(A) /\ (Cardinality(A) = Cardinality(B) => A = B)
  BY <1>1, FS_Subset
<1> QED BY <1>2, <1>3

\* A set that grows by step until nothing comes to it: the least one with what it
\* started from that step does not leave.
Growth(U, step) == CHOOSE w : w = [r \in SUBSET U |-> IF step[r] = r THEN r ELSE w[step[r]]]
LEMMA GrowthEnds ==
  ASSUME NEW U, IsFiniteSet(U), NEW step,
         \A r \in SUBSET U : step[r] \in SUBSET U /\ r \subseteq step[r],
         NEW W, W = Growth(U, step), NEW s0 \in SUBSET U
  PROVE  /\ W[s0] \in SUBSET U /\ s0 \subseteq W[s0] /\ step[W[s0]] = W[s0]
         /\ \A X \in SUBSET U : s0 \subseteq X /\ (\A r \in SUBSET X : step[r] \subseteq X) => W[s0] \subseteq X
<1> DEFINE S == SUBSET U
           T == {r \in S : step[r] = r}
           out == [r \in S |-> r]
           Holds(X) == s0 \subseteq X /\ \A r \in SUBSET X : step[r] \subseteq X
           I == {r \in S : s0 \subseteq r /\ \A X \in S : Holds(X) => r \subseteq X}
           m == [r \in S |-> Cardinality(U \ r)]
<1>1. \A r \in S \ T : step[r] \in S /\ r \subseteq step[r] /\ step[r] # r OBVIOUS
<1>2. \A w : [r \in S |-> IF step[r] = r THEN r ELSE w[step[r]]] = [r \in S |-> IF r \in T THEN out[r] ELSE w[step[r]]]
  OBVIOUS
<1> DEFINE F(w) == [r \in S |-> IF step[r] = r THEN r ELSE w[step[r]]]
           H(w) == [r \in S |-> IF r \in T THEN out[r] ELSE w[step[r]]]
<1>3. \E w : w = F(w)
  <2>1. \A r \in S \ T : step[r] \in S BY <1>1
  <2>2. \E w : LoopIs(w, S, T, out, step)
    <3> HIDE DEF S, T, out
    <3> QED BY ONLY <2>1, LoopExists
  <2>3. \A w : LoopIs(w, S, T, out, step) <=> w = H(w) BY DEF LoopIs
  <2>4. \A w : F(w) = H(w) BY <1>2
  <2> HIDE DEF F, H
  <2> QED BY <2>2, <2>3, <2>4
<1>4. LoopIs(W, S, T, out, step)
  <2>1. W = CHOOSE w : w = F(w) BY DEF Growth
  <2>2. \A w : F(w) = H(w) BY <1>2
  <2>3. W = H(W)
    <3> HIDE DEF F, H
    <3> QED BY <1>3, <2>1, <2>2
  <2> QED BY <2>3 DEF LoopIs
<1> HIDE DEF F, H
<1>5. \A r \in I : m[r] \in Nat
  <2> SUFFICES ASSUME NEW r \in I PROVE m[r] \in Nat OBVIOUS
  <2>1. U \ r \subseteq U OBVIOUS
  <2> QED BY <2>1, FS_Subset, FS_CardinalityType
<1>6. \A r \in I \ T : step[r] \in I /\ m[step[r]] < m[r]
  <2> SUFFICES ASSUME NEW r \in I \ T PROVE step[r] \in I /\ m[step[r]] < m[r] OBVIOUS
  <2>1. step[r] \in S /\ r \subseteq step[r] /\ step[r] # r /\ r \in S BY <1>1
  <2>2. PICK d \in step[r] : d \notin r BY <2>1
  <2>3. step[r] \in I
    <3>1. s0 \subseteq step[r] BY <2>1
    <3>2. ASSUME NEW X \in S, Holds(X) PROVE step[r] \subseteq X
      <4>1. r \in SUBSET X BY <3>2
      <4> QED BY <3>2, <4>1
    <3> QED BY <2>1, <3>1, <3>2
  <2>4. U \ step[r] \in SUBSET (U \ r) /\ U \ r \in SUBSET U /\ d \in U \ r /\ d \notin U \ step[r]
    BY <2>1, <2>2
  <2>5. Cardinality(U \ step[r]) < Cardinality(U \ r) BY <2>4, FewerMembers
  <2> QED BY <2>1, <2>3, <2>5
<1>7. s0 \in I /\ I \in SUBSET S OBVIOUS
<1>8. \E e \in I \cap T : W[s0] = out[e]
  <2> HIDE DEF S, T, I, out, m
  <2> QED BY ONLY <1>4, <1>5, <1>6, <1>7, LoopEnds
<1> QED BY <1>8

------------------------------------------------------------------------------
(***************************************************************************)
(* What sequences hold, put one behind the other.                          *)
(***************************************************************************)
Has(s, x) == \E j \in 1..Len(s) : s[j] = x
Distinct(s) == \A j, k \in 1..Len(s) : s[j] = s[k] => j = k

LEMMA ConcatFacts ==
  ASSUME NEW T, NEW s \in Seq(T), NEW t \in Seq(T)
  PROVE  /\ s \o t \in Seq(T)
         /\ \A x : Has(s \o t, x) <=> Has(s, x) \/ Has(t, x)
         /\ Distinct(s) /\ Distinct(t) /\ (\A x : ~(Has(s, x) /\ Has(t, x))) => Distinct(s \o t)
<1> DEFINE u == s \o t
<1>1. Len(s) \in Nat /\ Len(t) \in Nat BY LenProperties
<1>2. u \in Seq(T) /\ Len(u) = Len(s) + Len(t) BY ConcatProperties
<1>3. \A i \in 1..(Len(s) + Len(t)) : u[i] = IF i <= Len(s) THEN s[i] ELSE t[i - Len(s)]
  BY ConcatProperties
<1> HIDE DEF u
<1>4. ASSUME NEW i \in 1..Len(u)
      PROVE  \/ i \in 1..Len(s) /\ u[i] = s[i]
             \/ i - Len(s) \in 1..Len(t) /\ u[i] = t[i - Len(s)] /\ ~(i <= Len(s))
  BY <1>1, <1>2, <1>3
<1>5. ASSUME NEW i \in 1..Len(s) PROVE i \in 1..Len(u) /\ u[i] = s[i]
  BY <1>1, <1>2, <1>3
<1>6. ASSUME NEW i \in 1..Len(t) PROVE i + Len(s) \in 1..Len(u) /\ u[i + Len(s)] = t[i]
  <2>1. i + Len(s) \in 1..Len(u) /\ ~(i + Len(s) <= Len(s)) /\ (i + Len(s)) - Len(s) = i
    BY <1>1, <1>2
  <2> QED BY <1>2, <1>3, <2>1
<1>7. ASSUME NEW x PROVE Has(u, x) <=> Has(s, x) \/ Has(t, x)
  <2>1. Has(s, x) => Has(u, x) BY <1>5 DEF Has
  <2>2. Has(t, x) => Has(u, x) BY <1>6 DEF Has
  <2>3. Has(u, x) => Has(s, x) \/ Has(t, x) BY <1>4 DEF Has
  <2> QED BY <2>1, <2>2, <2>3
<1>8. ASSUME Distinct(s), Distinct(t), \A x : ~(Has(s, x) /\ Has(t, x)) PROVE Distinct(u)
  <2> SUFFICES ASSUME NEW j \in 1..Len(u), NEW k \in 1..Len(u), u[j] = u[k] PROVE j = k
    BY DEF Distinct
  <2> DEFINE x == u[j]
  <2>1. CASE j \in 1..Len(s) /\ k \in 1..Len(s) BY <1>5, <1>8, <2>1 DEF Distinct
  <2>2. CASE j - Len(s) \in 1..Len(t) /\ k - Len(s) \in 1..Len(t)
             /\ u[j] = t[j - Len(s)] /\ u[k] = t[k - Len(s)]
    <3>1. j - Len(s) = k - Len(s) BY <1>8, <2>2 DEF Distinct
    <3> QED BY <1>1, <3>1
  <2>3. (Has(s, x) /\ Has(t, x)) \/ (j \in 1..Len(s) /\ k \in 1..Len(s))
        \/ (j - Len(s) \in 1..Len(t) /\ k - Len(s) \in 1..Len(t)
            /\ u[j] = t[j - Len(s)] /\ u[k] = t[k - Len(s)])
    <3>1. \/ j \in 1..Len(s) /\ u[j] = s[j]
          \/ j - Len(s) \in 1..Len(t) /\ u[j] = t[j - Len(s)] BY <1>4
    <3>2. \/ k \in 1..Len(s) /\ u[k] = s[k]
          \/ k - Len(s) \in 1..Len(t) /\ u[k] = t[k - Len(s)] BY <1>4
    <3>3. CASE j \in 1..Len(s) /\ u[j] = s[j]
      <4>1. Has(s, x) BY <3>3 DEF Has
      <4>2. k - Len(s) \in 1..Len(t) /\ u[k] = t[k - Len(s)] => Has(t, x) BY DEF Has
      <4> QED BY <3>2, <3>3, <4>1, <4>2
    <3>4. CASE j - Len(s) \in 1..Len(t) /\ u[j] = t[j - Len(s)]
      <4>1. Has(t, x) BY <3>4 DEF Has
      <4>2. k \in 1..Len(s) /\ u[k] = s[k] => Has(s, x) BY DEF Has
      <4> QED BY <3>2, <3>4, <4>1, <4>2
    <3> QED BY <3>1, <3>3, <3>4
  <2> QED BY <1>8, <2>1, <2>2, <2>3
<1> QED BY <1>2, <1>7, <1>8 DEF u

\* The recursion of FlattenSeq defines a function.
LEMMA FlattenDef ==
  ASSUME NEW ss, Len(ss) \in Nat, Len(ss) # 0
  PROVE  \E fl : /\ fl = [i \in 1..Len(ss) |-> IF i = 1 THEN ss[i] ELSE fl[i - 1] \o ss[i]]
                 /\ FlattenSeq(ss) = fl[Len(ss)]
<1> DEFINE Step(f, i) == IF i = 1 THEN ss[i] ELSE f[i - 1] \o ss[i]
           T == {m \in Nat : \E f : f = [i \in 1..m |-> Step(f, i)]}
<1>1. 0 \in T
  <2> DEFINE f == [i \in 1..0 |-> 0]
  <2>1. f = [i \in 1..0 |-> Step(f, i)] OBVIOUS
  <2> HIDE DEF f, Step
  <2> QED BY <2>1
<1>2. ASSUME NEW m \in Nat, m \in T PROVE m + 1 \in T
  <2>1. PICK f : f = [i \in 1..m |-> Step(f, i)] BY <1>2
  <2> DEFINE g == [i \in 1..(m + 1) |-> IF i <= m THEN f[i] ELSE Step(f, i)]
  <2>2. ASSUME NEW i \in 1..(m + 1) PROVE g[i] = Step(g, i)
    <3>1. i # 1 => g[i - 1] = f[i - 1] OBVIOUS
    <3>2. Step(g, i) = Step(f, i) BY <3>1
    <3> HIDE DEF Step
    <3>3. i <= m => f[i] = Step(f, i) BY <2>1
    <3> QED BY <3>2, <3>3
  <2>3. g = [i \in 1..(m + 1) |-> Step(g, i)]
    <3>1. g = [i \in 1..(m + 1) |-> g[i]] OBVIOUS
    <3> HIDE DEF g, Step
    <3> QED BY <2>2, <3>1
  <2> HIDE DEF g, Step
  <2> QED BY <2>3
<1>3. Len(ss) \in T
  <2> HIDE DEF T
  <2> QED BY <1>1, <1>2, SetInduction
<1> DEFINE fl == CHOOSE f : f = [i \in 1..Len(ss) |-> Step(f, i)]
<1>4. fl = [i \in 1..Len(ss) |-> Step(fl, i)]
  <2>1. \E f : f = [i \in 1..Len(ss) |-> Step(f, i)] BY <1>3
  <2> HIDE DEF Step
  <2> QED BY <2>1
<1>5. FlattenSeq(ss) = fl[Len(ss)] BY DEF FlattenSeq
<1> HIDE DEF fl
<1> QED BY <1>4, <1>5

\* No member comes twice in the parts, or in two of them.
PartsDistinct(ss) ==
    \A n, m \in 1..Len(ss) : \A j \in 1..Len(ss[n]), k \in 1..Len(ss[m]) :
        ss[n][j] = ss[m][k] => n = m /\ j = k

LEMMA FlattenFacts ==
  ASSUME NEW T, NEW ss \in Seq(Seq(T))
  PROVE  /\ FlattenSeq(ss) \in Seq(T)
         /\ \A x : Has(FlattenSeq(ss), x) <=> \E n \in 1..Len(ss) : Has(ss[n], x)
         /\ PartsDistinct(ss) => Distinct(FlattenSeq(ss))
<1>0. Len(ss) \in Nat /\ \A n \in 1..Len(ss) : ss[n] \in Seq(T) BY LenProperties, ElementOfSeq
<1>1. CASE Len(ss) = 0
  <2>1. FlattenSeq(ss) = ss BY <1>1 DEF FlattenSeq
  <2>2. ss = <<>> /\ <<>> \in Seq(T) BY <1>1, EmptySeq
  <2> QED BY <1>1, <2>1, <2>2 DEF Has, Distinct
<1>2. CASE Len(ss) # 0
  <2>1. PICK fl : /\ fl = [i \in 1..Len(ss) |-> IF i = 1 THEN ss[i] ELSE fl[i - 1] \o ss[i]]
                  /\ FlattenSeq(ss) = fl[Len(ss)]
    BY <1>0, <1>2, FlattenDef
  <2> DEFINE Ok(s, n) == /\ s \in Seq(T)
                         /\ \A x : Has(s, x) <=> \E m \in 1..n : Has(ss[m], x)
                         /\ PartsDistinct(ss) => Distinct(s)
             U == {n \in Nat : n + 1 \in 1..Len(ss) => Ok(fl[n + 1], n + 1)}
  <2>2. 0 \in U
    <3>1. 1 \in 1..Len(ss) /\ fl[1] = ss[1] BY <1>0, <1>2, <2>1
    <3>2. ss[1] \in Seq(T) BY <1>0, <3>1
    <3>3. PartsDistinct(ss) => Distinct(ss[1]) BY <3>1 DEF PartsDistinct, Distinct
    <3>4. \A x : Has(ss[1], x) <=> \E m \in 1..1 : Has(ss[m], x)
      <4>1. \A m : m \in 1..1 <=> m = 1 OBVIOUS
      <4> QED BY <4>1
    <3>5. Ok(fl[1], 1) BY <3>1, <3>2, <3>3, <3>4
    <3>6. 0 + 1 = 1 OBVIOUS
    <3> HIDE DEF Ok
    <3> QED BY <3>5, <3>6
  <2>3. ASSUME NEW n \in Nat, n \in U PROVE n + 1 \in U
    <3> SUFFICES ASSUME (n + 1) + 1 \in 1..Len(ss) PROVE Ok(fl[(n + 1) + 1], (n + 1) + 1)
      OBVIOUS
    <3> DEFINE k == n + 1
               s == fl[k]
               t == ss[k + 1]
    <3>1. k \in 1..Len(ss) /\ k + 1 \in 1..Len(ss) /\ k + 1 # 1 /\ (k + 1) - 1 = k /\ k \in Nat
      BY <1>0
    <3>2. fl[k + 1] = s \o t BY <2>1, <3>1
    <3>3. Ok(s, k) BY <2>3, <3>1
    <3>4. s \in Seq(T) /\ t \in Seq(T) BY <1>0, <3>1, <3>3
    <3>5. \A x : Has(s, x) <=> \E m \in 1..k : Has(ss[m], x) BY <3>3
    <3>6. PartsDistinct(ss) => Distinct(s) BY <3>3
    <3> HIDE DEF s, k
    <3>7. /\ s \o t \in Seq(T)
          /\ \A x : Has(s \o t, x) <=> Has(s, x) \/ Has(t, x)
          /\ Distinct(s) /\ Distinct(t) /\ (\A x : ~(Has(s, x) /\ Has(t, x))) => Distinct(s \o t)
      <4> HIDE DEF t
      <4> QED BY <3>4, ConcatFacts
    <3>8. \A x : Has(s \o t, x) <=> \E m \in 1..(k + 1) : Has(ss[m], x)
      <4>1. \A m : m \in 1..(k + 1) <=> m = k + 1 \/ m \in 1..k BY <3>1
      <4> QED BY <3>5, <3>7, <4>1
    <3>9. PartsDistinct(ss) => Distinct(s \o t)
      <4> SUFFICES ASSUME PartsDistinct(ss) PROVE Distinct(s \o t) OBVIOUS
      <4>1. Distinct(t) BY <3>1 DEF PartsDistinct, Distinct
      <4>2. ASSUME NEW x, Has(s, x), Has(t, x) PROVE FALSE
        <5>1. PICK m \in 1..k : Has(ss[m], x) BY <3>5, <4>2
        <5>2. m \in 1..Len(ss) /\ m # k + 1 BY <1>0, <3>1
        <5>3. PICK i \in 1..Len(ss[m]) : ss[m][i] = x BY <5>1 DEF Has
        <5>4. PICK j \in 1..Len(ss[k + 1]) : ss[k + 1][j] = x BY <4>2 DEF Has
        <5> QED BY SMTT(30), <3>1, <5>2, <5>3, <5>4 DEF PartsDistinct
      <4> QED BY <3>6, <3>7, <4>1, <4>2
    <3>10. Ok(fl[k + 1], k + 1) BY <3>2, <3>7, <3>8, <3>9
    <3> HIDE DEF Ok
    <3> QED BY <3>10 DEF k
  <2>4. Len(ss) - 1 \in U
    <3> HIDE DEF U
    <3>1. Nat \subseteq U BY <2>2, <2>3, SetInduction
    <3> QED BY <1>0, <1>2, <3>1
  <2>5. Ok(fl[Len(ss)], Len(ss))
    <3>1. (Len(ss) - 1) + 1 = Len(ss) /\ Len(ss) \in 1..Len(ss) BY <1>0, <1>2
    <3> HIDE DEF Ok
    <3> QED BY <2>4, <3>1
  <2> QED BY <2>1, <2>5
<1> QED BY <1>1, <1>2
=============================================================================
