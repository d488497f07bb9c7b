----------------------------- MODULE TextProofs -----------------------------
(***************************************************************************)
(* What a module keeps while it is read, for every text, every size of     *)
(* aggregate and every limit: layouts are sound, and what is accepted      *)
(* names only what it defines and declares.                                *)
(***************************************************************************)
EXTENDS TextProps, CountingProofs

------------------------------------------------------------------------------
(***************************************************************************)
(* Tables.                                                                 *)
(***************************************************************************)
IsTable(t) == \E n \in Nat : DOMAIN t = 0 .. n - 1

LEMMA TableFacts ==
  ASSUME NEW t, IsTable(t)
  PROVE  Count(t) \in Nat /\ DOMAIN t = 0 .. Count(t) - 1
<1>1. PICK n \in Nat : DOMAIN t = 0 .. n - 1 BY DEF IsTable
<1>2. IsFiniteSet(0 .. n - 1) /\ Cardinality(0 .. n - 1) = IF 0 > n - 1 THEN 0 ELSE (n - 1) - 0 + 1
  BY FS_Interval
<1>3. Cardinality(0 .. n - 1) = n BY <1>2
<1> QED BY <1>1, <1>3 DEF Count

LEMMA PushFacts ==
  ASSUME NEW t, IsTable(t), NEW x
  PROVE  /\ IsTable(Push(t, x))
         /\ Count(Push(t, x)) = Count(t) + 1
         /\ DOMAIN Push(t, x) = 0 .. Count(t)
         /\ DOMAIN Push(t, x) = DOMAIN t \cup {Count(t)}
         /\ Push(t, x)[Count(t)] = x
         /\ \A i \in DOMAIN t : Push(t, x)[i] = t[i] /\ i < Count(t) /\ i \in Nat
<1>1. Count(t) \in Nat /\ DOMAIN t = 0 .. Count(t) - 1 BY TableFacts
<1> DEFINE u == Push(t, x)
<1>2. u = [i \in 0 .. Count(t) |-> IF i = Count(t) THEN x ELSE t[i]] BY DEF Push
<1>3. DOMAIN u = 0 .. Count(t) BY <1>2
<1>4. DOMAIN u = 0 .. (Count(t) + 1) - 1 BY <1>1, <1>3
<1>5. Count(t) + 1 \in Nat BY <1>1
<1>6. IsTable(u) BY <1>4, <1>5 DEF IsTable
<1>7. Count(u) \in Nat /\ DOMAIN u = 0 .. Count(u) - 1 BY <1>6, TableFacts
<1>8. Count(u) = Count(t) + 1
  <2> DEFINE c == Count(u)  n == Count(t)
  <2>1. c \in Nat /\ n \in Nat /\ 0 .. c - 1 = 0 .. n BY <1>1, <1>3, <1>7
  <2> HIDE DEF c, n
  <2>2. n \in 0 .. n /\ (c = 0 \/ c - 1 \in 0 .. c - 1) BY <2>1
  <2>3. n \in 0 .. c - 1 /\ (c = 0 \/ c - 1 \in 0 .. n) BY <2>1, <2>2
  <2>4. n <= c - 1 /\ (c = 0 \/ c - 1 <= n) BY <2>1, <2>3
  <2>5. c = n + 1 BY <2>1, <2>4
  <2> QED BY <2>5 DEF c, n
<1> HIDE DEF u
<1>9. \A i \in DOMAIN t : u[i] = t[i] /\ i < Count(t) /\ i \in Nat BY <1>1, <1>2
<1>10. u[Count(t)] = x BY <1>1, <1>2
<1>11. DOMAIN u = DOMAIN t \cup {Count(t)} BY <1>1, <1>3
<1> QED BY <1>3, <1>6, <1>8, <1>9, <1>10, <1>11 DEF u

LEMMA EmptyTable == IsTable(Empty) /\ Count(Empty) = 0
<1>1. DOMAIN Empty = 0 .. 0 - 1 BY DEF Empty
<1>2. IsTable(Empty) BY <1>1 DEF IsTable
<1>3. DOMAIN Empty = {} BY DEF Empty
<1> QED BY <1>2, <1>3, FS_EmptySet DEF Count

------------------------------------------------------------------------------
(***************************************************************************)
(* Layouts.                                                                *)
(***************************************************************************)
\* Of two scalars' alignments the smaller divides the larger.
LayoutOk(l) == l.size \in Nat /\ l.align \in ScalarSizes /\ l.size % l.align = 0

LEMMA ScalarsDivide ==
  /\ \A a, b \in ScalarSizes : a % a = 0 /\ (a < b => b % a = 0) /\ (~(a < b) => a % b = 0)
  /\ \A a, b, c \in ScalarSizes : a % b = 0 /\ b % c = 0 => a % c = 0
<1> DEFINE S == {1, 2, 4, 8}
<1>1. \A a, b \in S : a % a = 0 /\ (a < b => b % a = 0) /\ (~(a < b) => a % b = 0) OBVIOUS
<1>2. \A a, b \in S : a % b = 0 <=> ~(a < b)
  <2>1. ASSUME NEW a \in S, NEW b \in S PROVE a % b = 0 <=> ~(a < b)
    <3>1. CASE a = 1 BY <3>1
    <3>2. CASE a = 2 BY <3>2
    <3>3. CASE a = 4 BY <3>3
    <3>4. CASE a = 8 BY <3>4
    <3> QED BY <3>1, <3>2, <3>3, <3>4
  <2> QED BY <2>1
<1>3. \A a, b, c \in S : ~(a < b) /\ ~(b < c) => ~(a < c) OBVIOUS
<1> QED BY <1>1, <1>2, <1>3 DEF ScalarSizes

LEMMA RoundUpFacts ==
  ASSUME NEW v \in Nat, NEW a \in ScalarSizes
  PROVE  RoundUp(v, a) \in Nat /\ v <= RoundUp(v, a) /\ RoundUp(v, a) % a = 0
<1>1. CASE a = 1 BY <1>1 DEF RoundUp
<1>2. CASE a = 2 BY <1>2 DEF RoundUp
<1>3. CASE a = 4 BY <1>3 DEF RoundUp
<1>4. CASE a = 8 BY <1>4 DEF RoundUp
<1> QED BY <1>1, <1>2, <1>3, <1>4 DEF ScalarSizes

\* The struct as far as its first n fields are placed.
PlacedFit(packed, n, L, s) ==
    /\ s = [size |-> s.size, align |-> s.align, offsets |-> s.offsets]
    /\ s.size \in Nat /\ s.align \in ScalarSizes /\ s.offsets \in Seq(Nat) /\ Len(s.offsets) = n
    /\ packed => s.align = 1
    /\ \A k \in 1 .. n :
          /\ ~packed => s.offsets[k] % L[k].align = 0 /\ s.align % L[k].align = 0
          /\ s.offsets[k] + L[k].size <= s.size
          /\ \A j \in 1 .. k - 1 : s.offsets[j] + L[j].size <= s.offsets[k]

LEMMA FieldFits ==
  ASSUME NEW packed \in BOOLEAN, NEW n \in Nat, NEW L, \A k \in 1 .. n + 1 : LayoutOk(L[k]),
         NEW s, PlacedFit(packed, n, L, s)
  PROVE  PlacedFit(packed, n + 1, L, PlaceField(packed, s, L[n + 1]))
<1> DEFINE l == L[n + 1]
           start == IF packed THEN s.size ELSE RoundUp(s.size, l.align)
           align == IF packed \/ l.align < s.align THEN s.align ELSE l.align
           u == PlaceField(packed, s, l)
<1>1. LayoutOk(l) BY DEF LayoutOk
<1>2. start \in Nat /\ s.size <= start /\ (~packed => start % l.align = 0)
  BY <1>1, RoundUpFacts DEF PlacedFit, LayoutOk
<1>3. u = [size |-> start + l.size, align |-> align, offsets |-> Append(s.offsets, start)]
  BY DEF PlaceField
<1>4. s.offsets \in Seq(Nat) /\ Len(s.offsets) = n /\ s.size \in Nat BY DEF PlacedFit
<1> HIDE DEF u, start
<1>5. /\ u.offsets \in Seq(Nat) /\ Len(u.offsets) = n + 1
      /\ \A k \in 1 .. n : u.offsets[k] = s.offsets[k]
      /\ u.offsets[n + 1] = start
  BY <1>2, <1>3, <1>4, AppendProperties
<1>6. align \in ScalarSizes /\ (packed => align = 1)
      /\ (~packed => align % s.align = 0 /\ align % l.align = 0)
  <2>1. s.align \in ScalarSizes /\ l.align \in ScalarSizes BY <1>1 DEF PlacedFit, LayoutOk
  <2>2. \A a, b \in ScalarSizes : (a < b => b % a = 0) /\ a % a = 0 /\ (~(a < b) => a % b = 0)
    BY ScalarsDivide
  <2>3. packed => s.align = 1 BY DEF PlacedFit
  <2>4. CASE packed \/ l.align < s.align BY <2>1, <2>2, <2>3, <2>4
  <2>5. CASE ~(packed \/ l.align < s.align) BY <2>1, <2>2, <2>5
  <2> QED BY <2>4, <2>5
<1>7. u.size = start + l.size /\ u.align = align /\ l.size \in Nat BY <1>1, <1>3 DEF LayoutOk
<1> HIDE DEF align
<1>8. \A k \in 1 .. n : L[k].size \in Nat /\ L[k].align \in ScalarSizes BY DEF LayoutOk
<1>9. \A k \in 1 .. n : s.offsets[k] \in Nat /\ s.offsets[k] + L[k].size <= s.size
  BY <1>4, ElementOfSeq DEF PlacedFit
<1>10. ASSUME NEW k \in 1 .. n + 1
       PROVE  /\ ~packed => u.offsets[k] % L[k].align = 0 /\ u.align % L[k].align = 0
              /\ u.offsets[k] + L[k].size <= u.size
              /\ \A j \in 1 .. k - 1 : u.offsets[j] + L[j].size <= u.offsets[k]
  <2>1. CASE k = n + 1
    <3>1. ~packed => u.offsets[k] % L[k].align = 0 /\ u.align % L[k].align = 0
      BY <1>2, <1>5, <1>6, <1>7, <2>1
    <3>2. u.offsets[k] + L[k].size <= u.size BY <1>2, <1>5, <1>7, <2>1
    <3>3. ASSUME NEW j \in 1 .. k - 1 PROVE u.offsets[j] + L[j].size <= u.offsets[k]
      <4>1. j \in 1 .. n BY <2>1
      <4>2. u.offsets[k] = start BY <1>5, <2>1
      <4>3. u.offsets[j] = s.offsets[j] /\ s.offsets[j] \in Nat /\ L[j].size \in Nat
            /\ s.offsets[j] + L[j].size <= s.size
        BY <1>5, <1>8, <1>9, <4>1
      <4> QED BY <1>2, <1>4, <4>2, <4>3
    <3> QED BY <3>1, <3>2, <3>3
  <2>2. CASE k # n + 1
    <3>1. k \in 1 .. n /\ \A j \in 1 .. k - 1 : j \in 1 .. n BY <2>2
    <3>2. ~packed => u.offsets[k] % L[k].align = 0 BY <1>5, <3>1 DEF PlacedFit
    <3>3. ~packed => u.align % L[k].align = 0
      <4> SUFFICES ASSUME ~packed PROVE u.align % L[k].align = 0 OBVIOUS
      <4>1. align % s.align = 0 /\ s.align % L[k].align = 0 BY <1>6, <3>1 DEF PlacedFit
      <4>2. \A a, b, c \in ScalarSizes : a % b = 0 /\ b % c = 0 => a % c = 0 BY ScalarsDivide
      <4>3. align \in ScalarSizes /\ s.align \in ScalarSizes /\ L[k].align \in ScalarSizes
        BY <1>6, <1>8, <3>1 DEF PlacedFit
      <4> QED BY <1>7, <4>1, <4>2, <4>3
    <3>4. u.offsets[k] + L[k].size <= u.size
      <4>1. u.offsets[k] = s.offsets[k] /\ s.offsets[k] \in Nat /\ L[k].size \in Nat
            /\ s.offsets[k] + L[k].size <= s.size
        BY <1>5, <1>8, <1>9, <3>1
      <4>2. s.size <= u.size /\ u.size \in Nat /\ s.size \in Nat BY <1>2, <1>4, <1>7
      <4>3. u.offsets[k] + L[k].size <= s.size BY <4>1
      <4>4. u.offsets[k] + L[k].size \in Nat BY <4>1
      <4> QED BY <4>2, <4>3, <4>4
    <3>5. \A j \in 1 .. k - 1 : u.offsets[j] + L[j].size <= u.offsets[k]
      BY <1>5, <3>1 DEF PlacedFit
    <3> QED BY <3>2, <3>3, <3>4, <3>5
  <2> QED BY <2>1, <2>2
<1>11. u = [size |-> u.size, align |-> u.align, offsets |-> u.offsets] BY <1>3
<1>12. u.size \in Nat BY <1>2, <1>7
<1>13. u.align \in ScalarSizes /\ (packed => u.align = 1) BY <1>6, <1>7
<1> QED BY <1>5, <1>10, <1>11, <1>12, <1>13 DEF PlacedFit, u

\* The layouts of the fields of a struct, placed one after the other.
LEMMA PlacedFacts ==
  ASSUME NEW packed \in BOOLEAN, NEW L, NEW N \in Nat, Len(L) = N, \A k \in 1 .. N : LayoutOk(L[k])
  PROVE  PlacedFit(packed, N, L, Placed(packed, L))
<1> DEFINE Body(w, k) == IF k = 0 THEN [size |-> 0, align |-> 1, offsets |-> <<>>]
                         ELSE PlaceField(packed, w[k - 1], L[k])
           W == CHOOSE w : w = [k \in 0 .. Len(L) |-> Body(w, k)]
<1>1. Placed(packed, L) = W[N] BY DEF Placed
<1>2. \E w : w = [k \in 0 .. N |-> Body(w, k)]
  <2> DEFINE T == {n \in Nat : \E w : w = [k \in 0 .. n |-> Body(w, k)]}
  <2>1. 0 \in T
    <3> DEFINE w == [k \in 0 .. 0 |-> [size |-> 0, align |-> 1, offsets |-> <<>>]]
    <3>1. \A k \in 0 .. 0 : Body(w, k) = [size |-> 0, align |-> 1, offsets |-> <<>>] OBVIOUS
    <3>2. w = [k \in 0 .. 0 |-> Body(w, k)] BY <3>1
    <3> QED BY <3>2
  <2>2. ASSUME NEW n \in Nat, n \in T PROVE n + 1 \in T
    <3>1. PICK w : w = [k \in 0 .. n |-> Body(w, k)] BY <2>2
    <3> DEFINE z == [k \in 0 .. (n + 1) |-> IF k = n + 1 THEN Body(w, k) ELSE w[k]]
    <3>2. ASSUME NEW k \in 0 .. (n + 1) PROVE z[k] = Body(z, k)
      <4>1. k = 0 \/ (k - 1 \in 0 .. n /\ z[k - 1] = w[k - 1]) OBVIOUS
      <4>2. Body(z, k) = Body(w, k) BY <4>1
      <4>3. z[k] = Body(w, k)
        <5>1. CASE k = n + 1 BY <5>1
        <5>2. CASE k # n + 1
          <6>1. k \in 0 .. n BY <5>2
          <6>2. w[k] = Body(w, k)
            <7> HIDE DEF Body
            <7> QED BY <3>1, <6>1
          <6> QED BY <5>2, <6>2
        <5> QED BY <5>1, <5>2
      <4> QED BY <4>2, <4>3
    <3>3. z = [k \in 0 .. (n + 1) |-> z[k]] OBVIOUS
    <3> HIDE DEF z
    <3>4. z = [k \in 0 .. (n + 1) |-> Body(z, k)]
      <4> HIDE DEF Body
      <4> QED BY <3>2, <3>3
    <3> QED BY <3>4
  <2>3. Nat \subseteq T
    <3> HIDE DEF T
    <3> QED BY <2>1, <2>2, SetInduction
  <2> QED BY <2>3
<1>3. W = [k \in 0 .. N |-> Body(W, k)] BY <1>2
<1> HIDE DEF W
<1>4. \A k \in 0 .. N : W[k] = Body(W, k)
  <2> HIDE DEF Body
  <2> QED BY <1>3
<1> DEFINE T == {k \in Nat : k <= N => PlacedFit(packed, k, L, W[k])}
<1>5. 0 \in T
  <2>1. 0 \in 0 .. N OBVIOUS
  <2>2. W[0] = [size |-> 0, align |-> 1, offsets |-> <<>>] BY <1>4, <2>1
  <2>3. PlacedFit(packed, 0, L, W[0]) BY <2>2, EmptySeq DEF PlacedFit, ScalarSizes
  <2> HIDE DEF Body
  <2> QED BY <2>3
<1>6. ASSUME NEW k \in Nat, k \in T PROVE k + 1 \in T
  <2> SUFFICES ASSUME k + 1 <= N PROVE PlacedFit(packed, k + 1, L, W[k + 1]) OBVIOUS
  <2>1. k + 1 \in 0 .. N /\ k <= N /\ (k + 1) - 1 = k /\ k + 1 # 0 OBVIOUS
  <2>2. W[k + 1] = PlaceField(packed, W[k], L[k + 1]) BY <1>4, <2>1
  <2>3. PlacedFit(packed, k, L, W[k]) BY <1>6, <2>1
  <2>4. \A j \in 1 .. k + 1 : LayoutOk(L[j]) BY <2>1
  <2> QED BY <2>2, <2>3, <2>4, FieldFits
<1>7. Nat \subseteq T
  <2> HIDE DEF T
  <2> QED BY <1>5, <1>6, SetInduction
<1>8. N \in T BY <1>7
<1> QED BY <1>1, <1>8

LEMMA LayoutIsOk ==
  ASSUME NEW aggs, \A i \in DOMAIN aggs : LayoutOk(aggs[i].layout),
         NEW t, IsMemType(t), t.agg \in DOMAIN aggs \cup {NoId}
  PROVE  LayoutOk(LayoutOf(aggs, t))
<1>1. CASE t.agg = NoId
  <2>1. t.size \in ScalarSizes BY <1>1 DEF IsMemType, NoId
  <2>2. t.size % t.size = 0 BY <2>1, ScalarsDivide
  <2>3. t.size \in Nat BY <2>1 DEF ScalarSizes
  <2> QED BY <1>1, <2>1, <2>2, <2>3 DEF LayoutOf, LayoutOk
<1>2. CASE t.agg # NoId BY <1>2 DEF LayoutOf
<1> QED BY <1>1, <1>2

LEMMA Multiples ==
  ASSUME NEW v \in Nat, NEW a \in ScalarSizes, v % a = 0, NEW n \in Nat
  PROVE  v * n \in Nat /\ (v * n) % a = 0
<1>0. \A w \in Nat : (2 * w) % 2 = 0 /\ (4 * w) % 4 = 0 /\ (8 * w) % 8 = 0 OBVIOUS
<1> DEFINE q == v \div a  r == q * n
<1>1. CASE a = 1 BY <1>1
<1>2. CASE a = 2
  <2>1. q \in Nat /\ v = 2 * q BY <1>2
  <2>2. r \in Nat /\ v * n = 2 * r BY <2>1
  <2>3. r \in Nat /\ v * n = a * r BY <1>2, <2>2
  <2> HIDE DEF r, q
  <2>4. v * n \in Nat BY <1>2, <2>2
  <2>5. (v * n) % a = 0 BY <1>0, <1>2, <2>3
  <2> QED BY <2>4, <2>5
<1>3. CASE a = 4
  <2>1. q \in Nat /\ v = 4 * q BY <1>3
  <2>2. r \in Nat /\ v * n = 4 * r BY <2>1
  <2>3. r \in Nat /\ v * n = a * r BY <1>3, <2>2
  <2> HIDE DEF r, q
  <2>4. v * n \in Nat BY <1>3, <2>2
  <2>5. (v * n) % a = 0 BY <1>0, <1>3, <2>3
  <2> QED BY <2>4, <2>5
<1>4. CASE a = 8
  <2>1. q \in Nat /\ v = 8 * q BY <1>4
  <2>2. r \in Nat /\ v * n = 8 * r BY <2>1
  <2>3. r \in Nat /\ v * n = a * r BY <1>4, <2>2
  <2> HIDE DEF r, q
  <2>4. v * n \in Nat BY <1>4, <2>2
  <2>5. (v * n) % a = 0 BY <1>0, <1>4, <2>3
  <2> QED BY <2>4, <2>5
<1> QED BY <1>1, <1>2, <1>3, <1>4 DEF ScalarSizes

\* What an aggregate asks of those declared before it.
Declared(aggs, agg) == IsAggregate(agg) /\ \A t \in MemTypes(agg) : t.agg \in DOMAIN aggs \cup {NoId}
\* A layout as LayoutSound asks for it.
SoundFor(aggs, agg, l) ==
    /\ LayoutOk(l)
    /\ agg.kind = "struct" =>
          \A k \in DOMAIN agg.fields :
             /\ ~agg.packed => l.offsets[k] % LayoutOf(aggs, agg.fields[k]).align = 0
             /\ ~agg.packed => l.align % LayoutOf(aggs, agg.fields[k]).align = 0
             /\ l.offsets[k] + LayoutOf(aggs, agg.fields[k]).size <= l.size
             /\ \A j \in 1 .. k - 1 :
                   l.offsets[j] + LayoutOf(aggs, agg.fields[j]).size <= l.offsets[k]

LEMMA ComputedIsSound ==
  ASSUME NEW aggs, \A i \in DOMAIN aggs : LayoutOk(aggs[i].layout), NEW agg, Declared(aggs, agg)
  PROVE  SoundFor(aggs, agg, ComputeLayout(aggs, agg))
<1>1. CASE agg.kind = "struct"
  <2> DEFINE N == Len(agg.fields)
             L == [k \in DOMAIN agg.fields |-> LayoutOf(aggs, agg.fields[k])]
             e == Placed(agg.packed, L)
             l == StructLayout(aggs, agg)
  <2>1. agg.fields \in Seq(Range(agg.fields)) /\ agg.packed \in BOOLEAN BY <1>1 DEF Declared, IsAggregate
  <2>2. N \in Nat /\ DOMAIN agg.fields = 1 .. N BY <2>1, LenProperties
  <2>3. \A k \in 1 .. N : L[k] = LayoutOf(aggs, agg.fields[k]) BY <2>2
  <2>4. ASSUME NEW k \in 1 .. N PROVE LayoutOk(L[k])
    <3>1. agg.fields[k] \in MemTypes(agg) BY <1>1, <2>2 DEF MemTypes, Range
    <3>2. IsMemType(agg.fields[k]) /\ agg.fields[k].agg \in DOMAIN aggs \cup {NoId}
      BY <3>1 DEF Declared, IsAggregate
    <3> QED BY <2>3, <3>2, LayoutIsOk
  <2>5. Len(L) = N
    <3>1. L \in [1 .. N -> Range(L)] BY <2>2 DEF Range
    <3> QED BY <2>2, <3>1, FunctionSeq
  <2> HIDE DEF N, L
  <2>6. PlacedFit(agg.packed, N, L, e) BY <2>1, <2>2, <2>4, <2>5, PlacedFacts
  <2>7. l = IF agg.packed THEN e ELSE [e EXCEPT !.size = RoundUp(@, e.align)] BY DEF StructLayout, L
  <2> HIDE DEF e, l
  <2>8. /\ e.size \in Nat /\ e.align \in ScalarSizes
        /\ e = [size |-> e.size, align |-> e.align, offsets |-> e.offsets]
        /\ agg.packed => e.align = 1
        /\ e.offsets \in Seq(Nat) /\ Len(e.offsets) = N
    BY <2>6 DEF PlacedFit
  <2>9. l.offsets = e.offsets /\ l.align = e.align /\ e.size <= l.size /\ LayoutOk(l)
    <3>1. CASE agg.packed BY <2>7, <2>8, <3>1 DEF LayoutOk
    <3>2. CASE ~agg.packed
      <4>1. l.offsets = e.offsets /\ l.align = e.align /\ l.size = RoundUp(e.size, e.align)
        BY <2>7, <2>8, <3>2
      <4> QED BY <2>8, <4>1, RoundUpFacts DEF LayoutOk
    <3> QED BY <3>1, <3>2
  <2>10. ASSUME NEW k \in 1 .. N
         PROVE  /\ ~agg.packed => l.offsets[k] % L[k].align = 0 /\ l.align % L[k].align = 0
                /\ l.offsets[k] + L[k].size <= l.size
                /\ \A j \in 1 .. k - 1 : l.offsets[j] + L[j].size <= l.offsets[k]
    <3>1. /\ ~agg.packed => e.offsets[k] % L[k].align = 0 /\ e.align % L[k].align = 0
          /\ e.offsets[k] + L[k].size <= e.size
          /\ \A j \in 1 .. k - 1 : e.offsets[j] + L[j].size <= e.offsets[k]
      BY <2>6 DEF PlacedFit
    <3>2. l.size \in Nat /\ L[k].size \in Nat BY <2>4, <2>9 DEF LayoutOk
    <3>3. e.offsets[k] \in Nat BY <2>8, ElementOfSeq
    <3>4. e.offsets[k] + L[k].size <= l.size BY <2>8, <2>9, <3>1, <3>2, <3>3
    <3> QED BY <2>9, <3>1, <3>4
  <2>11. ComputeLayout(aggs, agg) = l BY <1>1 DEF ComputeLayout, l
  <2>12. ASSUME NEW k \in DOMAIN agg.fields
         PROVE  /\ ~agg.packed => l.offsets[k] % LayoutOf(aggs, agg.fields[k]).align = 0
                /\ ~agg.packed => l.align % LayoutOf(aggs, agg.fields[k]).align = 0
                /\ l.offsets[k] + LayoutOf(aggs, agg.fields[k]).size <= l.size
                /\ \A j \in 1 .. k - 1 : l.offsets[j] + LayoutOf(aggs, agg.fields[j]).size <= l.offsets[k]
    <3>1. k \in 1 .. N /\ \A j \in 1 .. k - 1 : j \in 1 .. N BY <2>2
    <3> QED BY <2>3, <2>10, <3>1
  <2> QED BY <2>9, <2>11, <2>12 DEF SoundFor
<1>2. CASE agg.kind # "struct"
  <2> DEFINE e == LayoutOf(aggs, agg.elem)
  <2>1. IsMemType(agg.elem) /\ agg.elem.agg \in DOMAIN aggs \cup {NoId} /\ agg.len \in Nat
    BY <1>2 DEF Declared, IsAggregate, MemTypes
  <2>2. LayoutOk(e) BY <2>1, LayoutIsOk
  <2>3. ComputeLayout(aggs, agg) = [size |-> e.size * agg.len, align |-> e.align, offsets |-> <<>>]
    BY <1>2 DEF ComputeLayout
  <2> HIDE DEF e
  <2>4. LayoutOk(ComputeLayout(aggs, agg)) BY <2>1, <2>2, <2>3, Multiples DEF LayoutOk
  <2> QED BY <1>2, <2>4 DEF SoundFor
<1> QED BY <1>1, <1>2

LEMMA ComputeStable ==
  ASSUME NEW aggs, NEW u, DOMAIN aggs \subseteq DOMAIN u,
         \A i \in DOMAIN aggs : u[i].layout = aggs[i].layout, NEW agg, Declared(aggs, agg)
  PROVE  ComputeLayout(u, agg) = ComputeLayout(aggs, agg)
<1>1. \A t \in MemTypes(agg) : LayoutOf(u, t) = LayoutOf(aggs, t) BY DEF Declared, LayoutOf
<1>2. CASE agg.kind = "struct"
  <2>1. \A k \in DOMAIN agg.fields : agg.fields[k] \in MemTypes(agg) BY <1>2 DEF MemTypes, Range
  <2>2. [k \in DOMAIN agg.fields |-> LayoutOf(u, agg.fields[k])]
          = [k \in DOMAIN agg.fields |-> LayoutOf(aggs, agg.fields[k])]
    BY <1>1, <2>1
  <2>3. StructLayout(u, agg) = StructLayout(aggs, agg) BY <2>2 DEF StructLayout
  <2> QED BY <1>2, <2>3 DEF ComputeLayout
<1>3. CASE agg.kind # "struct"
  <2>1. LayoutOf(u, agg.elem) = LayoutOf(aggs, agg.elem) BY <1>1, <1>3 DEF MemTypes
  <2> QED BY <1>3, <2>1 DEF ComputeLayout
<1> QED BY <1>2, <1>3

------------------------------------------------------------------------------
(***************************************************************************)
(* What holds of a module as far as it is read: kn is what Parser::prescan *)
(* found, so a symbol is bound when kn has its name.                       *)
(***************************************************************************)
Bound(kn, sym) ==
    \/ sym.kind = "func" /\ sym.id \in 0 .. Len(kn.funcs) - 1
    \/ sym.kind = "global" /\ sym.id \in 0 .. Len(kn.globals) - 1

AggFits(aggs, i) ==
    LET a == aggs[i]
        l == ComputeLayout(aggs, a.agg)
    IN  /\ IsAggregate(a.agg)
        /\ \A t \in MemTypes(a.agg) : t.agg \in 0 .. i - 1 \cup {NoId}
        /\ l.size <= MaxAggregateSize
        /\ a = [agg |-> a.agg, offsets |-> l.offsets, layout |-> [size |-> l.size, align |-> l.align]]
        /\ SoundFor(aggs, a.agg, l)
AggsFit(aggs) == IsTable(aggs) /\ \A i \in DOMAIN aggs : AggFits(aggs, i)

GlobalFits(kn, g) ==
    /\ IsGlobal(g)
    /\ CheckGlobal(g) = None
    /\ \A r \in Range(g.relocs) : Bound(kn, r.target)

\* A body: its tables, which every id in it is an index of.
BodyShape(f) ==
    /\ DOMAIN f = {"slots", "values", "blocks", "insts", "entry"}
    /\ f.slots \in Nat
    /\ IsTable(f.values) /\ IsTable(f.blocks) /\ IsTable(f.insts)
    /\ \A v \in DOMAIN f.values : f.values[v].alias = NoId
    /\ \A b \in DOMAIN f.blocks :
          LET n == f.blocks[b]
          IN  /\ DOMAIN n = {"live", "params", "insts", "term"}
              /\ n.live \in BOOLEAN /\ n.params \in Seq(Nat) /\ n.insts \in Seq(DOMAIN f.insts)
              /\ n.term = <<>> \/ n.term = <<n.term[1]>>
    /\ \A i \in DOMAIN f.insts : f.insts[i].results \in Seq(Nat)
\* What AcceptedResolves asks of it.
BodyResolves(kn, f) ==
    /\ ReadIn(f) \subseteq DefinedIn(f)
    /\ \A e \in EdgesOf(f) : e.block \in LiveBlocks(f)
    /\ \A d \in OpsOf(f) : d.sym = NoSym \/ Bound(kn, d.sym)

FunctionFits(kn, d) ==
    /\ DOMAIN d = {"name", "sig", "linkage", "body"}
    /\ d.body # NoBody => d.body = <<d.body[1]>> /\ BodyShape(d.body[1]) /\ BodyResolves(kn, d.body[1])

NamesApart(md) ==
    /\ \A f, g \in DOMAIN md.funcs : f # g => md.funcs[f].name # md.funcs[g].name
    /\ \A f, g \in DOMAIN md.globals : f # g => md.globals[f].name # md.globals[g].name
    /\ \A f \in DOMAIN md.funcs, g \in DOMAIN md.globals : md.funcs[f].name # md.globals[g].name

ModuleFits(kn, md) ==
    /\ DOMAIN md = {"sigs", "aggs", "globals", "funcs"}
    /\ IsTable(md.sigs) /\ IsTable(md.globals) /\ IsTable(md.funcs)
    /\ AggsFit(md.aggs)
    /\ \A g \in DOMAIN md.globals : GlobalFits(kn, md.globals[g])
    /\ \A f \in DOMAIN md.funcs : FunctionFits(kn, md.funcs[f])
    /\ NamesApart(md)

\* The body being read.  What its lines name is remembered until its end.
OpFits(kn, o, d) ==
    /\ Range(d.vals) \cup Range(d.gc) \subseteq o.valueRefs
    /\ d.sym = NoSym \/ Bound(kn, d.sym)
TermFits(kn, o, t) ==
    OpFits(kn, o, t.data) /\ ArgRefs(t.edges) \subseteq o.valueRefs /\ EdgeRefs(t.edges) \subseteq o.blockRefs
DefinedBy(o, v) ==
    \E b \in o.blocks :
       \/ v \in Range(o.f.blocks[b].params)
       \/ \E i \in Range(o.f.blocks[b].insts) : v \in Range(o.f.insts[i].results)
OpenFits(kn, o) ==
    /\ DOMAIN o = {"func", "f", "values", "blocks", "valueRefs", "blockRefs", "first", "current"}
    /\ BodyShape(o.f)
    /\ o.blocks = LiveBlocks(o.f)
    /\ \A v \in o.values : v \in DOMAIN o.f.values /\ DefinedBy(o, v)
    /\ \A i \in DOMAIN o.f.insts : OpFits(kn, o, o.f.insts[i].data)
    /\ \A b \in o.blocks : o.f.blocks[b].term # <<>> => TermFits(kn, o, o.f.blocks[b].term[1])

FuncLines == {k \in DOMAIN doc : doc[k].kind = "func" /\ DepthAt(k) = 0}
GlobalLines == {k \in DOMAIN doc : doc[k].kind = "global" /\ DepthAt(k) = 0}

\* How far the reader is, and that prescan saw the same.
Progress ==
    /\ phase \in {"module", "slots", "blocks"} =>
          /\ Len(known.funcs) = Cardinality(FuncLines) /\ Len(known.globals) = Cardinality(GlobalLines)
          /\ DepthAt(pos) = IF phase = "module" THEN 0 ELSE 1
          /\ Count(m.funcs) = Rank(FuncLines, pos - 1)
          /\ Count(m.globals) = Rank(GlobalLines, pos - 1)
    /\ phase = "accepted" => Count(m.funcs) = Len(known.funcs) /\ Count(m.globals) = Len(known.globals)
TextInv ==
    /\ IsText(doc) /\ pos \in 1 .. Len(doc) + 1
    /\ phase \in {"scan", "module", "slots", "blocks", "accepted", "refused"}
    /\ DOMAIN known = {"funcs", "globals"} /\ Len(known.funcs) \in Nat /\ Len(known.globals) \in Nat
    /\ DOMAIN known.funcs = 1 .. Len(known.funcs) /\ DOMAIN known.globals = 1 .. Len(known.globals)
    /\ phase = "scan" => m = NewModule /\ pos = 1
    /\ ModuleFits(known, m)
    /\ phase \in {"slots", "blocks"} => open.func \in DOMAIN m.funcs /\ OpenFits(known, open)
    /\ phase = "blocks" => open.current \in open.blocks
    /\ Progress

------------------------------------------------------------------------------
(***************************************************************************)
(* Checks and declarations.                                                *)
(***************************************************************************)
LEMMA NoProblem ==
  ASSUME NEW n \in Nat, NEW checks, DOMAIN checks = 1 .. n, Problem(checks) = None
  PROVE  \A k \in 1 .. n : checks[k] = None
<1> SUFFICES ASSUME NEW k \in 1 .. n, checks[k] # None PROVE FALSE OBVIOUS
<1> DEFINE S == {j \in 1 .. n : checks[j] # None}
           First(j) == j \in DOMAIN checks /\ checks[j] # None /\ \A i \in 1 .. j - 1 : checks[i] = None
           j == CHOOSE i \in DOMAIN checks : checks[i] # None /\ \A h \in 1 .. i - 1 : checks[h] = None
<1>1. S \in SUBSET Nat /\ S # {} BY DEF S
<1>2. PICK i \in S : \A h \in S : i <= h BY <1>1, LeastNumber
<1>3. First(i)
  <2>1. ASSUME NEW h \in 1 .. i - 1 PROVE checks[h] = None
    <3>1. i \in 1 .. n /\ h \in 1 .. n /\ ~(i <= h) OBVIOUS
    <3> QED BY <1>2, <3>1
  <2> QED BY <2>1
<1>4. First(j) BY <1>3
<1>5. Problem(checks) = checks[j] BY DEF Problem
<1> QED BY <1>4, <1>5

\* An aggregate that is accepted fits, and so do those before it.
LEMMA AggregateFits ==
  ASSUME NEW md, AggsFit(md.aggs), "aggs" \in DOMAIN md, NEW agg, IsAggregate(agg),
         NEW d, d = DeclareAggregate(md, agg), d.err = None
  PROVE  d.m = [md EXCEPT !.aggs = d.m.aggs] /\ AggsFit(d.m.aggs)
<1> DEFINE A == md.aggs  n == Count(A)
           l == ComputeLayout(A, agg)
           x == [agg |-> agg, offsets |-> l.offsets, layout |-> [size |-> l.size, align |-> l.align]]
           u == Push(A, x)
<1>1. IsTable(A) /\ \A i \in DOMAIN A : AggFits(A, i) BY DEF AggsFit
<1>2. \A t \in MemTypes(agg) : t.agg \in DOMAIN A \cup {NoId}
  BY DEF DeclareAggregate, Fault, None
<1>7. \A i \in DOMAIN A : LayoutOk(A[i].layout)
  <2> SUFFICES ASSUME NEW i \in DOMAIN A PROVE LayoutOk(A[i].layout) OBVIOUS
  <2> DEFINE k == ComputeLayout(A, A[i].agg)
  <2>1. LayoutOk(k) /\ A[i].layout = [size |-> k.size, align |-> k.align]
    <3>1. SoundFor(A, A[i].agg, k)
          /\ A[i] = [agg |-> A[i].agg, offsets |-> k.offsets, layout |-> [size |-> k.size, align |-> k.align]]
      BY <1>1 DEF AggFits
    <3> HIDE DEF k
    <3> QED BY <3>1 DEF SoundFor
  <2> HIDE DEF k
  <2> QED BY <2>1 DEF LayoutOk
<1>8. Declared(A, agg) BY <1>2 DEF Declared
<1>12. SoundFor(A, agg, l) BY <1>7, <1>8, ComputedIsSound
<1>13. l.size \in Nat /\ MaxAggregateSize \in Nat BY <1>12, DeclsAssumption DEF SoundFor, LayoutOk
<1>14. l.size <= MaxAggregateSize /\ d = Done([md EXCEPT !.aggs = u])
  <2> DEFINE room == HasRoom(A)
             unknown == \E t \in MemTypes(agg) : t.agg \notin DOMAIN A \cup {NoId}
             large == l.size > MaxAggregateSize
             made == Done([md EXCEPT !.aggs = u])
  <2>1. d = IF ~room THEN Fault("capacity", md)
            ELSE IF unknown THEN Fault("unknown aggregate", md)
            ELSE IF large THEN Fault("too large", md)
            ELSE made
    BY DEF DeclareAggregate
  <2> HIDE DEF room, unknown, large, made
  <2>2. \A e : Fault(e, md).err = e BY DEF Fault
  <2>3. None # "capacity" /\ None # "unknown aggregate" /\ None # "too large" BY DEF None
  <2>4. d # Fault("capacity", md) /\ d # Fault("unknown aggregate", md) /\ d # Fault("too large", md)
    BY <2>2, <2>3
  <2>5. ~large /\ d = made BY <2>1, <2>4
  <2> QED BY <1>13, <2>5 DEF large, made
<1>3. d.m = [md EXCEPT !.aggs = u] BY <1>14 DEF Done
<1>4. d.m.aggs = u BY <1>3
<1>5. n \in Nat /\ DOMAIN A = 0 .. n - 1 BY <1>1, TableFacts
<1> HIDE DEF A
<1>6. /\ IsTable(u) /\ DOMAIN u = 0 .. n /\ DOMAIN u = DOMAIN A \cup {n} /\ u[n] = x
      /\ \A i \in DOMAIN A : u[i] = A[i] /\ i < n /\ i \in Nat
  <2> HIDE DEF x
  <2> QED BY <1>1, PushFacts
<1> HIDE DEF u
<1>9. ASSUME NEW agg0, Declared(A, agg0), NEW k
      PROVE  ComputeLayout(u, agg0) = ComputeLayout(A, agg0)
             /\ (SoundFor(A, agg0, k) => SoundFor(u, agg0, k))
  <2>1. DOMAIN A \subseteq DOMAIN u /\ \A i \in DOMAIN A : u[i].layout = A[i].layout BY <1>6
  <2>2. ComputeLayout(u, agg0) = ComputeLayout(A, agg0) BY <1>9, <2>1, ComputeStable
  <2>3. SoundFor(A, agg0, k) => SoundFor(u, agg0, k)
    <3>1. \A t \in MemTypes(agg0) : LayoutOf(u, t) = LayoutOf(A, t) BY <1>9, <2>1 DEF Declared, LayoutOf
    <3>2. CASE agg0.kind = "struct"
      <4>1. agg0.fields \in Seq(Range(agg0.fields)) BY <1>9, <3>2 DEF Declared, IsAggregate
      <4>2. \A h \in DOMAIN agg0.fields : agg0.fields[h] \in MemTypes(agg0) BY <3>2 DEF MemTypes, Range
      <4>3. \A h \in DOMAIN agg0.fields : LayoutOf(u, agg0.fields[h]) = LayoutOf(A, agg0.fields[h])
        BY <3>1, <4>2
      <4>4. \A h \in DOMAIN agg0.fields : \A j \in 1 .. h - 1 : j \in DOMAIN agg0.fields
        BY <4>1, LenProperties
      <4> QED BY <4>3, <4>4 DEF SoundFor
    <3>3. CASE agg0.kind # "struct" BY <3>3 DEF SoundFor
    <3> QED BY <3>2, <3>3
  <2> QED BY <2>2, <2>3
<1>10. ASSUME NEW i \in DOMAIN u PROVE AggFits(u, i)
  <2>1. CASE i = n
    <3> DEFINE k == ComputeLayout(u, agg)
    <3>1. k = l /\ SoundFor(u, agg, l) BY <1>8, <1>9, <1>12
    <3>2. u[i].agg = agg BY <1>6, <2>1
    <3>3. \A t \in MemTypes(agg) : t.agg \in 0 .. n - 1 \cup {NoId} BY <1>2, <1>5
    <3> HIDE DEF l
    <3> QED BY <1>6, <1>14, <2>1, <3>1, <3>2, <3>3 DEF AggFits
  <2>2. CASE i # n
    <3>1. i \in DOMAIN A /\ u[i] = A[i] /\ i < n /\ i \in Nat BY <1>6, <2>2
    <3>2. AggFits(A, i) BY <1>1, <3>1
    <3>3. Declared(A, A[i].agg) BY <1>5, <3>1, <3>2 DEF AggFits, Declared
    <3>4. ComputeLayout(u, A[i].agg) = ComputeLayout(A, A[i].agg) BY <1>9, <3>3
    <3>5. SoundFor(u, A[i].agg, ComputeLayout(A, A[i].agg)) BY <1>9, <3>2, <3>3 DEF AggFits
    <3> QED BY <3>1, <3>2, <3>4, <3>5 DEF AggFits
  <2> QED BY <2>1, <2>2
<1>11. AggsFit(u) BY <1>6, <1>10 DEF AggsFit
<1> QED BY <1>3, <1>4, <1>11

LEMMA FaultErr == \A e, md : Fault(e, md).err = e /\ Done(md).err = None /\ Done(md).m = md
BY DEF Fault, Done

LEMMA NameFree ==
  ASSUME NEW md, NEW name, ClaimName(md, name) = None
  PROVE  /\ \A f \in DOMAIN md.funcs : md.funcs[f].name # name
         /\ \A g \in DOMAIN md.globals : md.globals[g].name # name
BY DEF ClaimName, None

LEMMA AggregateDeclared ==
  ASSUME NEW kn, NEW md, ModuleFits(kn, md), NEW agg, IsAggregate(agg),
         NEW d, d = DeclareAggregate(md, agg), d.err = None
  PROVE  ModuleFits(kn, d.m) /\ d.m.funcs = md.funcs /\ d.m.globals = md.globals
<1>1. "aggs" \in DOMAIN md /\ AggsFit(md.aggs) BY DEF ModuleFits
<1>2. d.m = [md EXCEPT !.aggs = d.m.aggs] /\ AggsFit(d.m.aggs) BY <1>1, AggregateFits
<1>3. DOMAIN d.m = {"sigs", "aggs", "globals", "funcs"} /\ d.m.sigs = md.sigs
      /\ d.m.funcs = md.funcs /\ d.m.globals = md.globals
  BY <1>2 DEF ModuleFits
<1> QED BY <1>2, <1>3 DEF ModuleFits, NamesApart

LEMMA SignatureInterned ==
  ASSUME NEW kn, NEW md, ModuleFits(kn, md), NEW sig,
         NEW d, d = InternSignature(md, sig), d.err = None
  PROVE  ModuleFits(kn, d.m) /\ d.m.funcs = md.funcs /\ d.m.globals = md.globals
<1> DEFINE u == Push(md.sigs, sig)  found == SigId(md, sig) # NoId  room == HasRoom(md.sigs)
<1>1. d = IF found THEN Done(md) ELSE IF room THEN Done([md EXCEPT !.sigs = u]) ELSE Fault("capacity", md)
  BY DEF InternSignature
<1> HIDE DEF found, room
<1>2. None # "capacity" BY DEF None
<1>3. d # Fault("capacity", md) BY <1>2, FaultErr
<1>4. d.m = md \/ d.m = [md EXCEPT !.sigs = u] BY <1>1, <1>3, FaultErr
<1>5. IsTable(u) BY PushFacts DEF ModuleFits
<1>6. CASE d.m = md BY <1>6
<1>7. CASE d.m = [md EXCEPT !.sigs = u]
  <2>1. DOMAIN d.m = {"sigs", "aggs", "globals", "funcs"} /\ d.m.sigs = u /\ d.m.aggs = md.aggs
        /\ d.m.funcs = md.funcs /\ d.m.globals = md.globals
    BY <1>7 DEF ModuleFits
  <2> QED BY <1>5, <2>1 DEF ModuleFits, NamesApart
<1> QED BY <1>4, <1>6, <1>7

LEMMA GlobalDeclared ==
  ASSUME NEW kn, NEW md, ModuleFits(kn, md), NEW g, IsGlobal(g),
         \A r \in Range(g.relocs) : Bound(kn, r.target),
         NEW d, d = DeclareGlobal(md, g), d.err = None
  PROVE  /\ ModuleFits(kn, d.m) /\ d.m.funcs = md.funcs
         /\ Count(d.m.globals) = Count(md.globals) + 1
<1> DEFINE u == Push(md.globals, g)  room == HasRoom(md.globals)
           named == ClaimName(md, g.name)  bad == CheckGlobal(g)  n == Count(md.globals)
<1>1. d = IF named # None THEN Fault(named, md)
          ELSE IF bad # None THEN Fault(bad, md)
          ELSE IF ~room THEN Fault("capacity", md)
          ELSE Done([md EXCEPT !.globals = u])
  BY DEF DeclareGlobal
<1> HIDE DEF room, named, bad
<1>2. None # "capacity" BY DEF None
<1>3. named = None /\ bad = None /\ d = Done([md EXCEPT !.globals = u])
  <2>1. named # None => d # Fault(named, md) BY FaultErr
  <2>2. bad # None => d # Fault(bad, md) BY FaultErr
  <2>3. d # Fault("capacity", md) BY <1>2, FaultErr
  <2> HIDE DEF u
  <2> QED BY <1>1, <2>1, <2>2, <2>3
<1>4. d.m = [md EXCEPT !.globals = u] BY <1>3, FaultErr
<1>5. IsTable(md.globals) /\ DOMAIN md = {"sigs", "aggs", "globals", "funcs"} BY DEF ModuleFits
<1>6. /\ IsTable(u) /\ DOMAIN u = DOMAIN md.globals \cup {n} /\ u[n] = g /\ Count(u) = n + 1
      /\ \A i \in DOMAIN md.globals : u[i] = md.globals[i] /\ i < n /\ i \in Nat
  <2>1. IsTable(u) /\ DOMAIN u = DOMAIN md.globals \cup {n} BY <1>5, PushFacts
  <2>2. u[n] = g /\ Count(u) = n + 1 BY <1>5, PushFacts
  <2>3. n \in Nat /\ DOMAIN md.globals = 0 .. n - 1 BY <1>5, TableFacts
  <2>4. \A i \in DOMAIN md.globals : u[i] = md.globals[i] /\ i < n /\ i \in Nat
    <3> HIDE DEF n
    <3>1. u = [i \in 0 .. n |-> IF i = n THEN g ELSE md.globals[i]] BY DEF Push, n
    <3> HIDE DEF u
    <3> QED BY <2>3, <3>1
  <2> QED BY <2>1, <2>2, <2>4
<1> HIDE DEF u
<1>7. DOMAIN d.m = {"sigs", "aggs", "globals", "funcs"} /\ d.m.globals = u /\ d.m.aggs = md.aggs
      /\ d.m.funcs = md.funcs /\ d.m.sigs = md.sigs
  BY <1>4, <1>5
<1>8. ASSUME NEW i \in DOMAIN u PROVE GlobalFits(kn, u[i])
  <2>1. CASE i = n BY <1>3, <1>6, <2>1 DEF GlobalFits, bad
  <2>2. CASE i # n BY <1>6, <2>2 DEF ModuleFits
  <2> QED BY <2>1, <2>2
<1>9. NamesApart(d.m)
  <2>1. /\ \A f \in DOMAIN md.funcs : md.funcs[f].name # g.name
        /\ \A h \in DOMAIN md.globals : md.globals[h].name # g.name
    BY <1>3, NameFree DEF named
  <2>2. NamesApart(md) BY DEF ModuleFits
  <2>3. ASSUME NEW i \in DOMAIN u, NEW j \in DOMAIN u, i # j PROVE u[i].name # u[j].name
    <3>1. CASE i = n BY <1>6, <2>1, <2>3, <3>1
    <3>2. CASE j = n BY <1>6, <2>1, <2>3, <3>2
    <3>3. CASE i # n /\ j # n BY <1>6, <2>2, <2>3, <3>3 DEF NamesApart
    <3> QED BY <3>1, <3>2, <3>3
  <2>4. ASSUME NEW f \in DOMAIN md.funcs, NEW i \in DOMAIN u PROVE md.funcs[f].name # u[i].name
    <3>1. CASE i = n BY <1>6, <2>1, <3>1
    <3>2. CASE i # n BY <1>6, <2>2, <3>2 DEF NamesApart
    <3> QED BY <3>1, <3>2
  <2> QED BY <1>7, <2>2, <2>3, <2>4 DEF NamesApart
<1>10. Count(d.m.globals) = n + 1 BY <1>6, <1>7
<1> HIDE DEF n
<1>11. ModuleFits(kn, d.m) BY <1>6, <1>7, <1>8, <1>9 DEF ModuleFits
<1> QED BY <1>7, <1>10, <1>11 DEF n

LEMMA FunctionDeclared ==
  ASSUME NEW kn, NEW md, ModuleFits(kn, md), NEW name, NEW sig, NEW linkage,
         NEW d, d = DeclareFunction(md, name, sig, linkage), d.err = None
  PROVE  /\ ModuleFits(kn, d.m) /\ d.m.globals = md.globals
         /\ Count(d.m.funcs) = Count(md.funcs) + 1
         /\ Count(md.funcs) \in DOMAIN d.m.funcs
<1> DEFINE room == HasRoom(md.funcs)  named == ClaimName(md, name)
           e == InternSignature(md, sig)
           g == [name |-> name, sig |-> SigId(e.m, sig), linkage |-> linkage, body |-> NoBody]
           made == Done([e.m EXCEPT !.funcs = Push(@, g)])
           u == Push(md.funcs, g)  n == Count(md.funcs)
<1>1. d = IF named # None THEN Fault(named, md)
          ELSE IF ~room THEN Fault("capacity", md)
          ELSE IF e.err # None THEN e
          ELSE made
  BY DEF DeclareFunction
<1> HIDE DEF room, named, e, made
<1>2. None # "capacity" BY DEF None
<1>3. named = None /\ e.err = None /\ d = made
  <2>1. named # None => d # Fault(named, md) BY FaultErr
  <2>2. d # Fault("capacity", md) BY <1>2, FaultErr
  <2> QED BY <1>1, <2>1, <2>2
<1>4. ModuleFits(kn, e.m) /\ e.m.funcs = md.funcs /\ e.m.globals = md.globals
  BY <1>3, SignatureInterned DEF e
<1>5. d.m = [e.m EXCEPT !.funcs = u] BY <1>3, <1>4, FaultErr DEF made
<1>6. IsTable(md.funcs) /\ DOMAIN e.m = {"sigs", "aggs", "globals", "funcs"}
  BY <1>4 DEF ModuleFits
<1>7. /\ IsTable(u) /\ DOMAIN u = DOMAIN md.funcs \cup {n} /\ u[n] = g /\ Count(u) = n + 1
      /\ \A i \in DOMAIN md.funcs : u[i] = md.funcs[i] /\ i < n /\ i \in Nat
  <2> HIDE DEF g
  <2>1. IsTable(u) /\ DOMAIN u = DOMAIN md.funcs \cup {n} BY <1>6, PushFacts
  <2>2. u[n] = g /\ Count(u) = n + 1 BY <1>6, PushFacts
  <2>3. n \in Nat /\ DOMAIN md.funcs = 0 .. n - 1 BY <1>6, TableFacts
  <2>4. \A i \in DOMAIN md.funcs : u[i] = md.funcs[i] /\ i < n /\ i \in Nat
    <3> HIDE DEF n
    <3>1. u = [i \in 0 .. n |-> IF i = n THEN g ELSE md.funcs[i]] BY DEF Push, n
    <3> HIDE DEF u
    <3> QED BY <2>3, <3>1
  <2> QED BY <2>1, <2>2, <2>4
<1> HIDE DEF u
<1>8. DOMAIN d.m = {"sigs", "aggs", "globals", "funcs"} /\ d.m.globals = md.globals
      /\ d.m.aggs = e.m.aggs /\ d.m.funcs = u /\ d.m.sigs = e.m.sigs
  BY <1>4, <1>5, <1>6
<1>9. ASSUME NEW i \in DOMAIN u PROVE FunctionFits(kn, u[i])
  <2>1. CASE i = n
    <3>1. DOMAIN g = {"name", "sig", "linkage", "body"} /\ g.body = NoBody OBVIOUS
    <3> QED BY <1>7, <2>1, <3>1 DEF FunctionFits
  <2>2. CASE i # n BY <1>7, <2>2 DEF ModuleFits
  <2> QED BY <2>1, <2>2
<1>10. g.name = name OBVIOUS
<1> HIDE DEF g
<1>11. NamesApart(d.m)
  <2>1. /\ \A f \in DOMAIN md.funcs : md.funcs[f].name # name
        /\ \A h \in DOMAIN md.globals : md.globals[h].name # name
    BY <1>3, NameFree DEF named
  <2>2. NamesApart(md) BY DEF ModuleFits
  <2>3. ASSUME NEW i \in DOMAIN u, NEW j \in DOMAIN u, i # j PROVE u[i].name # u[j].name
    <3>1. CASE i = n BY <1>7, <1>10, <2>1, <2>3, <3>1
    <3>2. CASE j = n BY <1>7, <1>10, <2>1, <2>3, <3>2
    <3>3. CASE i # n /\ j # n BY <1>7, <2>2, <2>3, <3>3 DEF NamesApart
    <3> QED BY <3>1, <3>2, <3>3
  <2>4. ASSUME NEW i \in DOMAIN u, NEW h \in DOMAIN md.globals PROVE u[i].name # md.globals[h].name
    <3>1. CASE i = n BY <1>7, <1>10, <2>1, <3>1
    <3>2. CASE i # n BY <1>7, <2>2, <3>2 DEF NamesApart
    <3> QED BY <3>1, <3>2
  <2> QED BY <1>8, <2>2, <2>3, <2>4 DEF NamesApart
<1>12. Count(d.m.funcs) = n + 1 /\ n \in DOMAIN d.m.funcs BY <1>7, <1>8
<1> HIDE DEF n
<1>13. ModuleFits(kn, d.m) BY <1>4, <1>7, <1>8, <1>9, <1>11 DEF ModuleFits
<1> QED BY <1>8, <1>12, <1>13 DEF n

LEMMA BodySet ==
  ASSUME NEW kn, NEW md, ModuleFits(kn, md), NEW fn \in DOMAIN md.funcs,
         NEW f, BodyShape(f), BodyResolves(kn, f)
  PROVE  LET u == SetBody(md, fn, f)
         IN  /\ ModuleFits(kn, u) /\ u.globals = md.globals
             /\ DOMAIN u.funcs = DOMAIN md.funcs
<1> DEFINE u == SetBody(md, fn, f)  d == [md.funcs[fn] EXCEPT !.body = <<f>>]
<1>1. u = [md EXCEPT !.funcs = [md.funcs EXCEPT ![fn] = d]] BY DEF SetBody
<1>2. DOMAIN md = {"sigs", "aggs", "globals", "funcs"} /\ FunctionFits(kn, md.funcs[fn]) BY DEF ModuleFits
<1> HIDE DEF u
<1>3. DOMAIN u = {"sigs", "aggs", "globals", "funcs"} /\ u.globals = md.globals
      /\ u.aggs = md.aggs /\ u.sigs = md.sigs /\ u.funcs = [md.funcs EXCEPT ![fn] = d]
  BY <1>1, <1>2
<1>4. DOMAIN d = {"name", "sig", "linkage", "body"} /\ d.body = <<f>> /\ d.name = md.funcs[fn].name
  BY <1>2 DEF FunctionFits
<1> HIDE DEF d
<1>5. /\ DOMAIN u.funcs = DOMAIN md.funcs /\ u.funcs[fn] = d
      /\ \A i \in DOMAIN md.funcs : u.funcs[i] = (IF i = fn THEN d ELSE md.funcs[i])
  BY <1>3
<1>6. FunctionFits(kn, d)
  <2>1. d.body[1] = f /\ d.body = <<d.body[1]>> BY <1>4
  <2> QED BY <1>4, <2>1 DEF FunctionFits
<1>7. ASSUME NEW i \in DOMAIN u.funcs PROVE FunctionFits(kn, u.funcs[i])
  BY <1>5, <1>6 DEF ModuleFits
<1>8. \A i \in DOMAIN md.funcs : u.funcs[i].name = md.funcs[i].name BY <1>4, <1>5
<1>9. NamesApart(u) BY <1>3, <1>5, <1>8 DEF NamesApart, ModuleFits
<1>10. IsTable(u.funcs) BY <1>5 DEF IsTable, ModuleFits
<1>11. ModuleFits(kn, u) BY <1>3, <1>7, <1>9, <1>10 DEF ModuleFits
<1> QED BY <1>3, <1>5, <1>11 DEF u

------------------------------------------------------------------------------
(***************************************************************************)
(* Bodies.                                                                 *)
(***************************************************************************)
LEMMA MaxFacts ==
  ASSUME NEW S \in SUBSET Int, IsFiniteSet(S), S # {}
  PROVE  Max(S) \in S /\ \A y \in S : Max(S) >= y
<1> DEFINE T == {n \in Nat : \A R \in SUBSET Int :
                    IsFiniteSet(R) /\ Cardinality(R) = n + 1 => \E x \in R : \A y \in R : x >= y}
<1>1. 0 \in T
  <2> SUFFICES ASSUME NEW R \in SUBSET Int, IsFiniteSet(R), Cardinality(R) = 0 + 1
               PROVE  \E x \in R : \A y \in R : x >= y
    OBVIOUS
  <2>0. Cardinality(R) = 1 OBVIOUS
  <2>1. PICK x : R = {x} BY <2>0, FS_Singleton
  <2>2. x \in Int BY <2>1
  <2> QED BY <2>1, <2>2
<1>2. ASSUME NEW n \in Nat, n \in T PROVE n + 1 \in T
  <2> SUFFICES ASSUME NEW R \in SUBSET Int, IsFiniteSet(R), Cardinality(R) = (n + 1) + 1
               PROVE  \E x \in R : \A y \in R : x >= y
    OBVIOUS
  <2>1. R # {} BY FS_EmptySet
  <2>2. PICK x \in R : TRUE BY <2>1
  <2>3. IsFiniteSet(R \ {x}) /\ Cardinality(R \ {x}) = Cardinality(R) - 1 BY FS_RemoveElement
  <2>4. Cardinality(R \ {x}) = n + 1 BY <2>3
  <2>5. PICK z \in R \ {x} : \A y \in R \ {x} : z >= y BY <1>2, <2>3, <2>4
  <2>6. x \in Int /\ z \in Int OBVIOUS
  <2>7. CASE x >= z
    <3>1. \A y \in R : x >= y BY <2>5, <2>6, <2>7
    <3> QED BY <3>1
  <2>8. CASE ~(x >= z)
    <3>1. \A y \in R : z >= y BY <2>5, <2>6, <2>8
    <3> QED BY <3>1
  <2> QED BY <2>7, <2>8
<1>3. Nat \subseteq T
  <2> HIDE DEF T
  <2> QED BY <1>1, <1>2, SetInduction
<1>4. Cardinality(S) \in Nat /\ Cardinality(S) # 0 BY FS_CardinalityType, FS_EmptySet
<1>5. Cardinality(S) - 1 \in T /\ Cardinality(S) = (Cardinality(S) - 1) + 1 BY <1>3, <1>4
<1>6. \E x \in S : \A y \in S : x >= y BY <1>5
<1> QED BY <1>6 DEF Max

LEMMA ExtendedFacts ==
  ASSUME NEW t, IsTable(t), NEW e, DOMAIN e \subseteq Nat, IsFiniteSet(DOMAIN e), NEW blank
  PROVE  LET u == Extended(t, e, blank)
         IN  /\ IsTable(u)
             /\ DOMAIN t \subseteq DOMAIN u /\ DOMAIN e \subseteq DOMAIN u
             /\ \A n \in DOMAIN u :
                   u[n] = IF n \in DOMAIN e THEN e[n] ELSE IF n \in DOMAIN t THEN t[n] ELSE blank
<1> DEFINE u == Extended(t, e, blank)
           S == DOMAIN e \cup {Count(t) - 1}
           top == Max(S)
<1>1. Count(t) \in Nat /\ DOMAIN t = 0 .. Count(t) - 1 BY TableFacts
<1>2. S \in SUBSET Int /\ S # {} BY <1>1
<1>3. IsFiniteSet(S) BY FS_AddElement
<1>4. top \in S /\ \A y \in S : top >= y
  <2> HIDE DEF S
  <2> QED BY <1>2, <1>3, MaxFacts
<1> HIDE DEF top
<1>5. top \in Int /\ top >= -1 /\ top >= Count(t) - 1 BY <1>1, <1>2, <1>4
<1>6. u = [n \in 0 .. top |->
             IF n \in DOMAIN e THEN e[n] ELSE IF n \in DOMAIN t THEN t[n] ELSE blank]
  BY DEF Extended, top
<1> HIDE DEF u
<1>7. DOMAIN u = 0 .. top BY <1>6
<1>8. top + 1 \in Nat /\ 0 .. top = 0 .. (top + 1) - 1 BY <1>5
<1>9. IsTable(u) BY <1>7, <1>8 DEF IsTable
<1>10. DOMAIN t \subseteq DOMAIN u BY <1>1, <1>5, <1>7
<1>11. DOMAIN e \subseteq DOMAIN u
  <2>1. \A y \in DOMAIN e : y \in Nat /\ top >= y BY <1>4
  <2> QED BY <1>5, <1>7, <2>1
<1> QED BY <1>6, <1>7, <1>9, <1>10, <1>11 DEF u

LEMMA IdsFacts ==
  ASSUME NEW w, IsDefs(w)
  PROVE  /\ Ids(w) \in Seq(Nat) /\ Range(Ids(w)) \subseteq Nat /\ IsFiniteSet(Range(Ids(w)))
         /\ Len(w) \in Nat /\ DOMAIN w = 1 .. Len(w)
         /\ Range(Ids(w)) = {w[k].id : k \in DOMAIN w}
<1>1. w \in Seq(Range(w)) /\ \A d \in Range(w) : d.id \in Nat BY DEF IsDefs
<1>2. Len(w) \in Nat /\ DOMAIN w = 1 .. Len(w) BY <1>1, LenProperties
<1>3. \A k \in 1 .. Len(w) : w[k].id \in Nat BY <1>1, <1>2 DEF Range
<1>4. Ids(w) \in [1 .. Len(w) -> Nat] BY <1>2, <1>3 DEF Ids
<1>5. Ids(w) \in Seq(Nat) BY <1>2, <1>4, FunctionSeq
<1>6. Range(Ids(w)) = {w[k].id : k \in DOMAIN w} BY DEF Ids, Range
<1>7. IsFiniteSet(1 .. Len(w)) BY <1>2, FS_Interval
<1>8. Ids(w) \in Surjection(1 .. Len(w), Range(Ids(w))) BY <1>4 DEF Surjection, Range
<1>9. IsFiniteSet(Range(Ids(w))) BY <1>7, <1>8, FS_Surjection
<1>10. Range(Ids(w)) \subseteq Nat BY <1>2, <1>3, <1>6
<1> QED BY <1>1, <1>2, <1>5, <1>6, <1>9, <1>10

OpenFields == {"func", "f", "values", "blocks", "valueRefs", "blockRefs", "first", "current"}
BodyFields == {"slots", "values", "blocks", "insts", "entry"}
LEMMA DefinedFacts ==
  ASSUME NEW o, DOMAIN o = OpenFields, DOMAIN o.f = BodyFields, IsTable(o.f.values),
         \A v \in DOMAIN o.f.values : o.f.values[v].alias = NoId,
         NEW written, IsDefs(written), NEW defs
  PROVE  LET n == DefineValues(o, written, defs)
         IN  /\ DOMAIN n = OpenFields /\ DOMAIN n.f = BodyFields
             /\ n.f.slots = o.f.slots /\ n.f.blocks = o.f.blocks /\ n.f.insts = o.f.insts
             /\ IsTable(n.f.values) /\ \A v \in DOMAIN n.f.values : n.f.values[v].alias = NoId
             /\ DOMAIN o.f.values \subseteq DOMAIN n.f.values
             /\ Range(Ids(written)) \subseteq DOMAIN n.f.values
             /\ n.values = o.values \cup Range(Ids(written))
             /\ n.func = o.func /\ n.blocks = o.blocks /\ n.valueRefs = o.valueRefs
             /\ n.blockRefs = o.blockRefs /\ n.current = o.current
<1> DEFINE n == DefineValues(o, written, defs)
           place(v) == CHOOSE k \in DOMAIN written : written[k].id = v
           R == Range(Ids(written))
           nodes == [v \in R |-> [ty |-> written[place(v)].ty, def |-> defs[place(v)], alias |-> NoId]]
           u == Extended(o.f.values, nodes, BlankValue)
<1>1. n = [o EXCEPT !.f = [o.f EXCEPT !.values = u], !.values = o.values \cup R]
  BY DEF DefineValues, OpenFields
<1>2. DOMAIN nodes = R OBVIOUS
<1>3. R \subseteq Nat /\ IsFiniteSet(R) BY IdsFacts
<1>4. \A v \in R : nodes[v].alias = NoId OBVIOUS
<1> HIDE DEF nodes, R
<1>5. /\ IsTable(u) /\ DOMAIN o.f.values \subseteq DOMAIN u /\ R \subseteq DOMAIN u
      /\ \A v \in DOMAIN u : u[v] = IF v \in R THEN nodes[v]
                                    ELSE IF v \in DOMAIN o.f.values THEN o.f.values[v] ELSE BlankValue
  <2> DEFINE B == BlankValue  t == o.f.values
  <2>1. IsTable(t) OBVIOUS
  <2> HIDE DEF B, t
  <2>2. DOMAIN nodes \subseteq Nat /\ IsFiniteSet(DOMAIN nodes) BY <1>2, <1>3
  <2>3. LET z == Extended(t, nodes, B)
        IN  /\ IsTable(z) /\ DOMAIN t \subseteq DOMAIN z /\ DOMAIN nodes \subseteq DOMAIN z
            /\ \A v \in DOMAIN z : z[v] = IF v \in DOMAIN nodes THEN nodes[v]
                                          ELSE IF v \in DOMAIN t THEN t[v] ELSE B
    BY <2>1, <2>2, ExtendedFacts
  <2> QED BY <1>2, <2>3 DEF B, t
<1> HIDE DEF u, n
<1>6. BlankValue.alias = NoId BY DEF BlankValue
<1>7. \A v \in DOMAIN u : u[v].alias = NoId BY <1>4, <1>5, <1>6
<1>8. /\ DOMAIN n = OpenFields /\ n.f = [o.f EXCEPT !.values = u] /\ n.values = o.values \cup R
      /\ n.func = o.func /\ n.blocks = o.blocks /\ n.valueRefs = o.valueRefs
      /\ n.blockRefs = o.blockRefs /\ n.current = o.current
  BY <1>1 DEF OpenFields
<1>9. /\ DOMAIN n.f = BodyFields /\ n.f.values = u
      /\ n.f.slots = o.f.slots /\ n.f.blocks = o.f.blocks /\ n.f.insts = o.f.insts
  BY <1>8 DEF BodyFields
<1> QED BY <1>5, <1>7, <1>8, <1>9 DEF n, R

LEMMA HeaderFits ==
  ASSUME NEW kn, NEW o, OpenFits(kn, o), NEW b \in Nat, b \notin o.blocks,
         NEW params, IsDefs(params), NEW defs, NEW first
  PROVE  LET headed == [o EXCEPT
                          !.f.blocks = Extended(@, [n \in {b} |->
                             [BlankBlock EXCEPT !.live = TRUE, !.params = Ids(params)]], BlankBlock),
                          !.blocks = @ \cup {b}, !.first = first, !.current = b]
             z == DefineValues(headed, params, defs)
         IN  OpenFits(kn, z) /\ z.func = o.func /\ z.current \in z.blocks
<1> DEFINE node == [BlankBlock EXCEPT !.live = TRUE, !.params = Ids(params)]
           e == [n \in {b} |-> node]
           bs == Extended(o.f.blocks, e, BlankBlock)
           headed == [o EXCEPT
                        !.f.blocks = Extended(@, [n \in {b} |->
                           [BlankBlock EXCEPT !.live = TRUE, !.params = Ids(params)]], BlankBlock),
                        !.blocks = @ \cup {b}, !.first = first, !.current = b]
           z == DefineValues(headed, params, defs)
<1>1. /\ DOMAIN o = OpenFields /\ BodyShape(o.f) /\ o.blocks = LiveBlocks(o.f)
      /\ DOMAIN o.f = BodyFields
  BY DEF OpenFits, BodyShape, OpenFields, BodyFields
<1>3. headed = [o EXCEPT !.f = [o.f EXCEPT !.blocks = bs], !.blocks = o.blocks \cup {b},
                         !.first = first, !.current = b]
  BY <1>1 DEF OpenFields
<1>4. IsTable(o.f.blocks) /\ IsTable(o.f.values) /\ IsTable(o.f.insts)
      /\ \A v \in DOMAIN o.f.values : o.f.values[v].alias = NoId
  BY <1>1 DEF BodyShape
<1>5. /\ IsTable(bs) /\ DOMAIN o.f.blocks \subseteq DOMAIN bs /\ b \in DOMAIN bs
      /\ \A n \in DOMAIN bs : bs[n] = IF n = b THEN node
                                      ELSE IF n \in DOMAIN o.f.blocks THEN o.f.blocks[n] ELSE BlankBlock
  <2>1. DOMAIN e = {b} /\ e[b] = node OBVIOUS
  <2> DEFINE B == BlankBlock  t == o.f.blocks
  <2>2. IsTable(t) BY <1>4
  <2> HIDE DEF B, t, e, node
  <2>3. DOMAIN e \subseteq Nat /\ IsFiniteSet(DOMAIN e) BY <2>1, FS_Singleton
  <2>4. LET y == Extended(t, e, B)
        IN  /\ IsTable(y) /\ DOMAIN t \subseteq DOMAIN y /\ DOMAIN e \subseteq DOMAIN y
            /\ \A n \in DOMAIN y : y[n] = IF n \in DOMAIN e THEN e[n]
                                          ELSE IF n \in DOMAIN t THEN t[n] ELSE B
    BY <2>2, <2>3, ExtendedFacts
  <2> QED BY <2>1, <2>4 DEF B, t
<1> HIDE DEF e, bs, headed
<1>6. /\ DOMAIN headed = OpenFields /\ headed.f = [o.f EXCEPT !.blocks = bs]
      /\ headed.blocks = o.blocks \cup {b} /\ headed.current = b /\ headed.func = o.func
      /\ headed.values = o.values /\ headed.valueRefs = o.valueRefs /\ headed.blockRefs = o.blockRefs
  BY <1>1, <1>3 DEF OpenFields
<1>7. /\ DOMAIN headed.f = BodyFields /\ headed.f.blocks = bs /\ headed.f.values = o.f.values
      /\ headed.f.insts = o.f.insts /\ headed.f.slots = o.f.slots
  BY <1>1, <1>6 DEF BodyFields
<1>8. /\ DOMAIN z = OpenFields /\ DOMAIN z.f = BodyFields
      /\ z.f.slots = o.f.slots /\ z.f.blocks = bs /\ z.f.insts = o.f.insts
      /\ IsTable(z.f.values) /\ \A v \in DOMAIN z.f.values : z.f.values[v].alias = NoId
      /\ DOMAIN o.f.values \subseteq DOMAIN z.f.values
      /\ Range(Ids(params)) \subseteq DOMAIN z.f.values
      /\ z.values = o.values \cup Range(Ids(params))
      /\ z.func = o.func /\ z.blocks = o.blocks \cup {b} /\ z.valueRefs = o.valueRefs
      /\ z.blockRefs = o.blockRefs /\ z.current = b
  <2>1. /\ DOMAIN headed = OpenFields /\ DOMAIN headed.f = BodyFields /\ IsTable(headed.f.values)
        /\ \A v \in DOMAIN headed.f.values : headed.f.values[v].alias = NoId
    BY <1>4, <1>6, <1>7
  <2>2. /\ DOMAIN z = OpenFields /\ DOMAIN z.f = BodyFields
        /\ z.f.slots = headed.f.slots /\ z.f.blocks = headed.f.blocks /\ z.f.insts = headed.f.insts
        /\ IsTable(z.f.values) /\ \A v \in DOMAIN z.f.values : z.f.values[v].alias = NoId
        /\ DOMAIN headed.f.values \subseteq DOMAIN z.f.values
        /\ Range(Ids(params)) \subseteq DOMAIN z.f.values
        /\ z.values = headed.values \cup Range(Ids(params))
        /\ z.func = headed.func /\ z.blocks = headed.blocks /\ z.valueRefs = headed.valueRefs
        /\ z.blockRefs = headed.blockRefs /\ z.current = headed.current
    <3> HIDE DEF node
    <3> QED BY <2>1, DefinedFacts
  <2> HIDE DEF z
  <2> QED BY <1>6, <1>7, <2>2
<1> HIDE DEF z
<1>9. node.params = Ids(params) /\ node.live = TRUE /\ node.insts = <<>> /\ node.term = <<>>
      /\ DOMAIN node = {"live", "params", "insts", "term"}
  BY DEF BlankBlock
<1> HIDE DEF node
<1>10. BlankBlock.live = FALSE /\ BlankBlock.params = <<>> /\ BlankBlock.insts = <<>>
       /\ BlankBlock.term = <<>> /\ DOMAIN BlankBlock = {"live", "params", "insts", "term"}
  BY DEF BlankBlock
<1>11. BodyShape(z.f)
  <2>1. ASSUME NEW n \in DOMAIN bs
        PROVE  /\ DOMAIN bs[n] = {"live", "params", "insts", "term"}
               /\ bs[n].live \in BOOLEAN /\ bs[n].params \in Seq(Nat) /\ bs[n].insts \in Seq(DOMAIN o.f.insts)
               /\ bs[n].term = <<>> \/ bs[n].term = <<bs[n].term[1]>>
    <3>1. <<>> \in Seq(Nat) /\ <<>> \in Seq(DOMAIN o.f.insts) BY EmptySeq
    <3>2. CASE n = b
      <4>1. Ids(params) \in Seq(Nat) BY IdsFacts
      <4>2. bs[n] = node BY <1>5, <3>2
      <4> QED BY <1>9, <3>1, <4>1, <4>2
    <3>3. CASE n # b /\ n \in DOMAIN o.f.blocks BY <1>1, <1>5, <3>3 DEF BodyShape
    <3>4. CASE n # b /\ n \notin DOMAIN o.f.blocks BY <1>5, <1>10, <3>1, <3>4
    <3> QED BY <3>2, <3>3, <3>4
  <2> QED BY <1>1, <1>5, <1>8, <2>1 DEF BodyShape, BodyFields
<1>12. z.blocks = LiveBlocks(z.f)
  <2>1. b \notin LiveBlocks(o.f) /\ LiveBlocks(o.f) = o.blocks BY <1>1
  <2>2. ASSUME NEW n PROVE n \in LiveBlocks(z.f) <=> n = b \/ n \in LiveBlocks(o.f)
    <3>1. CASE n = b BY <1>5, <1>8, <1>9, <3>1 DEF LiveBlocks
    <3>2. CASE n # b /\ n \in DOMAIN o.f.blocks BY <1>5, <1>8, <3>2 DEF LiveBlocks
    <3>3. CASE n # b /\ n \notin DOMAIN o.f.blocks BY <1>5, <1>8, <1>10, <3>3 DEF LiveBlocks
    <3> QED BY <3>1, <3>2, <3>3
  <2> QED BY <1>8, <2>1, <2>2
<1>13. \A n \in o.blocks : n # b /\ n \in DOMAIN o.f.blocks /\ bs[n] = o.f.blocks[n]
  BY <1>1, <1>5 DEF LiveBlocks
<1>14. ASSUME NEW v \in z.values PROVE v \in DOMAIN z.f.values /\ DefinedBy(z, v)
  <2>1. CASE v \in o.values
    <3>1. v \in DOMAIN o.f.values /\ DefinedBy(o, v) BY <2>1 DEF OpenFits
    <3> QED BY <1>8, <1>13, <3>1 DEF DefinedBy
  <2>2. CASE v \in Range(Ids(params)) BY <1>5, <1>8, <1>9, <2>2 DEF DefinedBy
  <2> QED BY <1>8, <2>1, <2>2
<1>15. \A i \in DOMAIN z.f.insts : OpFits(kn, z, z.f.insts[i].data) BY <1>8 DEF OpenFits, OpFits
<1>16. ASSUME NEW n \in z.blocks, z.f.blocks[n].term # <<>> PROVE TermFits(kn, z, z.f.blocks[n].term[1])
  <2>1. n # b BY <1>5, <1>8, <1>9, <1>16
  <2>2. n \in o.blocks /\ bs[n] = o.f.blocks[n] BY <1>8, <1>13, <1>16, <2>1
  <2>3. TermFits(kn, o, z.f.blocks[n].term[1]) BY <1>8, <1>16, <2>2 DEF OpenFits
  <2> QED BY <1>8, <2>3 DEF TermFits, OpFits
<1>17. OpenFits(kn, z) BY <1>8, <1>11, <1>12, <1>14, <1>15, <1>16 DEF OpenFits, OpenFields
<1> QED BY <1>8, <1>17 DEF z, headed

LEMMA ResolveSame ==
  ASSUME NEW f, \A u \in DOMAIN f.values : f.values[u].alias = NoId, NEW v \in DOMAIN f.values
  PROVE  Resolve(f, v) = v
<1> DEFINE D == DOMAIN f.values
           Is(e) == e = [u \in D |-> IF f.values[u].alias = NoId THEN u ELSE e[f.values[u].alias]]
           end == CHOOSE e : Is(e)
           id == [u \in D |-> u]
<1>1. \A u \in D : (IF f.values[u].alias = NoId THEN u ELSE id[f.values[u].alias]) = u OBVIOUS
<1>2. Is(id) BY <1>1
<1>3. Is(end) BY <1>2
<1>4. end[v] = v BY <1>3
<1> QED BY <1>4 DEF Resolve

LEMMA BodyEnds ==
  ASSUME NEW kn, NEW o, OpenFits(kn, o), o.valueRefs \subseteq o.values, o.blockRefs \subseteq o.blocks,
         NEW entry
  PROVE  LET f == [o.f EXCEPT !.entry = entry] IN BodyShape(f) /\ BodyResolves(kn, f)
<1> DEFINE f == [o.f EXCEPT !.entry = entry]
<1>1. BodyShape(o.f) BY DEF OpenFits
<1>2. DOMAIN f = DOMAIN o.f /\ f.slots = o.f.slots /\ f.values = o.f.values /\ f.blocks = o.f.blocks
      /\ f.insts = o.f.insts
  BY <1>1 DEF BodyShape
<1> HIDE DEF f
<1>3. BodyShape(f) BY <1>1, <1>2 DEF BodyShape
<1>4. LiveBlocks(f) = o.blocks BY <1>2 DEF OpenFits, LiveBlocks
<1>5. \A b \in o.blocks : b \in DOMAIN f.blocks BY <1>4 DEF LiveBlocks
<1>6. ASSUME NEW i \in InstsOf(f) PROVE i \in DOMAIN f.insts
  <2>1. PICK b \in LiveBlocks(f) : i \in Range(f.blocks[b].insts) BY DEF InstsOf
  <2>2. f.blocks[b].insts \in Seq(DOMAIN f.insts) BY <1>3, <2>1 DEF BodyShape, LiveBlocks
  <2>3. PICK k \in DOMAIN f.blocks[b].insts : i = f.blocks[b].insts[k] BY <2>1 DEF Range
  <2>4. k \in 1 .. Len(f.blocks[b].insts) BY <2>2, <2>3, LenProperties
  <2> QED BY <2>2, <2>3, <2>4, ElementOfSeq
<1>7. ASSUME NEW t \in TermsOf(f) PROVE TermFits(kn, o, t)
  <2>1. PICK b \in LiveBlocks(f) : f.blocks[b].term # <<>> /\ t = f.blocks[b].term[1] BY DEF TermsOf
  <2> QED BY <1>2, <1>4, <2>1 DEF OpenFits
<1>8. ASSUME NEW d \in OpsOf(f) PROVE OpFits(kn, o, d)
  <2>1. CASE \E i \in InstsOf(f) : d = f.insts[i].data BY <1>2, <1>6, <2>1 DEF OpenFits
  <2>2. CASE \E t \in TermsOf(f) : d = t.data BY <1>7, <2>2 DEF TermFits
  <2> QED BY <2>1, <2>2 DEF OpsOf
<1>9. ASSUME NEW v \in o.values PROVE Resolve(f, v) = v /\ v \in DefinedIn(f)
  <2>1. v \in DOMAIN f.values /\ DefinedBy(o, v) BY <1>2 DEF OpenFits
  <2>2. \A u \in DOMAIN f.values : f.values[u].alias = NoId BY <1>3 DEF BodyShape
  <2>3. Resolve(f, v) = v BY <2>1, <2>2, ResolveSame
  <2>4. PICK b \in o.blocks : \/ v \in Range(f.blocks[b].params)
                              \/ \E i \in Range(f.blocks[b].insts) : v \in Range(f.insts[i].results)
    BY <1>2, <2>1 DEF DefinedBy
  <2>5. CASE v \in Range(f.blocks[b].params)
    <3>1. Range(f.blocks[b].params) \in {Range(f.blocks[c].params) : c \in LiveBlocks(f)} BY <1>4
    <3>2. v \in UNION {Range(f.blocks[c].params) : c \in LiveBlocks(f)} BY <2>5, <3>1
    <3> QED BY <2>3, <3>2 DEF DefinedIn
  <2>6. CASE \E i \in Range(f.blocks[b].insts) : v \in Range(f.insts[i].results)
    <3>1. PICK i \in Range(f.blocks[b].insts) : v \in Range(f.insts[i].results) BY <2>6
    <3>2. Range(f.blocks[b].insts) \in {Range(f.blocks[c].insts) : c \in LiveBlocks(f)} BY <1>4
    <3>3. i \in InstsOf(f) BY <3>1, <3>2 DEF InstsOf
    <3>4. Range(f.insts[i].results) \in {Range(f.insts[j].results) : j \in InstsOf(f)} BY <3>3
    <3>5. v \in UNION {Range(f.insts[j].results) : j \in InstsOf(f)} BY <3>1, <3>4
    <3> QED BY <2>3, <3>5 DEF DefinedIn
  <2> QED BY <2>3, <2>4, <2>5, <2>6
<1>10. \A t \in TermsOf(f) : ArgRefs(t.edges) \subseteq o.values BY <1>7 DEF TermFits
<1>11. \A d \in OpsOf(f) : Range(d.vals) \cup Range(d.gc) \subseteq o.values BY <1>8 DEF OpFits
<1>12. ReadIn(f) \subseteq DefinedIn(f)
  <2> SUFFICES ASSUME NEW r \in ReadIn(f) PROVE r \in DefinedIn(f) OBVIOUS
  <2>1. PICK v \in (UNION {ArgRefs(t.edges) : t \in TermsOf(f)})
                     \cup UNION {Range(d.vals) \cup Range(d.gc) : d \in OpsOf(f)} : r = Resolve(f, v)
    BY DEF ReadIn
  <2>2. v \in o.values BY <1>10, <1>11, <2>1
  <2> QED BY <1>9, <2>1, <2>2
<1>13. \A e \in EdgesOf(f) : e.block \in LiveBlocks(f)
  <2> SUFFICES ASSUME NEW e \in EdgesOf(f) PROVE e.block \in LiveBlocks(f) OBVIOUS
  <2>1. PICK t \in TermsOf(f) : e \in Range(t.edges) BY DEF EdgesOf
  <2>2. e.block \in EdgeRefs(t.edges) BY <2>1 DEF EdgeRefs
  <2>3. EdgeRefs(t.edges) \subseteq o.blockRefs BY <1>7, <2>1 DEF TermFits
  <2> QED BY <1>4, <2>2, <2>3
<1>14. \A d \in OpsOf(f) : d.sym = NoSym \/ Bound(kn, d.sym) BY <1>8 DEF OpFits
<1> QED BY <1>3, <1>12, <1>13, <1>14 DEF BodyResolves, f

LEMMA InstructionFits ==
  ASSUME NEW kn, NEW o, OpenFits(kn, o), o.current \in o.blocks,
         NEW written, IsDefs(written), NEW defs, NEW refs, NEW data,
         Range(data.vals) \cup Range(data.gc) \subseteq refs, data.sym = NoSym \/ Bound(kn, data.sym)
  PROVE  LET made == [o EXCEPT
                        !.f.insts = Push(@, [data |-> data, results |-> Ids(written)]),
                        !.f.blocks[o.current].insts = Append(@, Count(o.f.insts)),
                        !.valueRefs = @ \cup refs]
             z == DefineValues(made, written, defs)
         IN  OpenFits(kn, z) /\ z.func = o.func /\ z.current \in z.blocks
<1> DEFINE c == o.current  i == Count(o.f.insts)
           inst == [data |-> data, results |-> Ids(written)]
           is == Push(o.f.insts, inst)
           node == [o.f.blocks[c] EXCEPT !.insts = Append(@, i)]
           bs == [o.f.blocks EXCEPT ![c] = node]
           made == [o EXCEPT
                      !.f.insts = Push(@, [data |-> data, results |-> Ids(written)]),
                      !.f.blocks[o.current].insts = Append(@, Count(o.f.insts)),
                      !.valueRefs = @ \cup refs]
           z == DefineValues(made, written, defs)
<1>1. /\ DOMAIN o = OpenFields /\ BodyShape(o.f) /\ o.blocks = LiveBlocks(o.f)
      /\ DOMAIN o.f = BodyFields
  BY DEF OpenFits, BodyShape, OpenFields, BodyFields
<1>2. IsTable(o.f.blocks) /\ IsTable(o.f.values) /\ IsTable(o.f.insts)
      /\ \A v \in DOMAIN o.f.values : o.f.values[v].alias = NoId
  BY <1>1 DEF BodyShape
<1>3. c \in DOMAIN o.f.blocks BY <1>1 DEF LiveBlocks
<1>4. /\ IsTable(is) /\ DOMAIN is = DOMAIN o.f.insts \cup {i} /\ is[i] = inst
      /\ \A j \in DOMAIN o.f.insts : is[j] = o.f.insts[j] /\ j < i /\ j \in Nat
  <2> DEFINE old == o.f.insts
  <2>1. IsTable(old) BY <1>2
  <2> HIDE DEF inst, old
  <2>2. IsTable(Push(old, inst)) BY <2>1, PushFacts
  <2>3. DOMAIN Push(old, inst) = DOMAIN old \cup {Count(old)} BY <2>1, PushFacts
  <2>4. Push(old, inst)[Count(old)] = inst BY <2>1, PushFacts
  <2>5. ASSUME NEW j \in DOMAIN old PROVE Push(old, inst)[j] = old[j] /\ j < Count(old) /\ j \in Nat
    <3>1. Count(old) \in Nat /\ DOMAIN old = 0 .. Count(old) - 1 BY <2>1, TableFacts
    <3>2. j \in 0 .. Count(old) /\ j # Count(old) /\ j < Count(old) /\ j \in Nat BY <3>1
    <3> QED BY <3>2 DEF Push
  <2> QED BY <2>2, <2>3, <2>4, <2>5 DEF old
<1>5. made = [o EXCEPT !.f = [[o.f EXCEPT !.insts = is] EXCEPT !.blocks = bs],
                       !.valueRefs = o.valueRefs \cup refs]
  <2> DEFINE fi == [o.f EXCEPT !.insts = is]
             oi == [o EXCEPT !.f = fi]
             ob == [oi EXCEPT !.f.blocks[c].insts = Append(@, i)]
  <2>1. made = [ob EXCEPT !.valueRefs = @ \cup refs] OBVIOUS
  <2>2. oi.f = fi /\ fi.blocks = o.f.blocks /\ oi.valueRefs = o.valueRefs /\ DOMAIN oi = OpenFields
    BY <1>1 DEF OpenFields, BodyFields
  <2>3. ob = [oi EXCEPT !.f = [fi EXCEPT !.blocks = bs]] BY <2>2
  <2> HIDE DEF fi, bs
  <2>4. ob = [o EXCEPT !.f = [fi EXCEPT !.blocks = bs]] BY <1>1, <2>3 DEF OpenFields
  <2>5. ob.valueRefs = o.valueRefs BY <1>1, <2>4 DEF OpenFields
  <2>6. made = [ob EXCEPT !.valueRefs = o.valueRefs \cup refs] BY <2>1, <2>5
  <2> HIDE DEF ob, made
  <2> QED BY <2>4, <2>6 DEF fi
<1>6. inst.data = data /\ inst.results = Ids(written) OBVIOUS
<1> HIDE DEF is, made, inst
<1>7. /\ DOMAIN made = OpenFields /\ made.f = [[o.f EXCEPT !.insts = is] EXCEPT !.blocks = bs]
      /\ made.blocks = o.blocks /\ made.current = c /\ made.func = o.func
      /\ made.values = o.values /\ made.valueRefs = o.valueRefs \cup refs /\ made.blockRefs = o.blockRefs
  <2> HIDE DEF bs
  <2> QED BY <1>1, <1>5 DEF OpenFields
<1>8. /\ DOMAIN made.f = BodyFields /\ made.f.blocks = bs /\ made.f.values = o.f.values
      /\ made.f.insts = is /\ made.f.slots = o.f.slots
  <2> HIDE DEF bs
  <2> QED BY <1>1, <1>7 DEF BodyFields
<1>9. /\ DOMAIN z = OpenFields /\ DOMAIN z.f = BodyFields
      /\ z.f.slots = o.f.slots /\ z.f.blocks = bs /\ z.f.insts = is
      /\ IsTable(z.f.values) /\ \A v \in DOMAIN z.f.values : z.f.values[v].alias = NoId
      /\ DOMAIN o.f.values \subseteq DOMAIN z.f.values
      /\ Range(Ids(written)) \subseteq DOMAIN z.f.values
      /\ z.values = o.values \cup Range(Ids(written))
      /\ z.func = o.func /\ z.blocks = o.blocks /\ z.valueRefs = o.valueRefs \cup refs
      /\ z.blockRefs = o.blockRefs /\ z.current = c
  <2>1. /\ DOMAIN made = OpenFields /\ DOMAIN made.f = BodyFields /\ IsTable(made.f.values)
        /\ \A v \in DOMAIN made.f.values : made.f.values[v].alias = NoId
    BY <1>2, <1>7, <1>8
  <2>2. /\ DOMAIN z = OpenFields /\ DOMAIN z.f = BodyFields
        /\ z.f.slots = made.f.slots /\ z.f.blocks = made.f.blocks /\ z.f.insts = made.f.insts
        /\ IsTable(z.f.values) /\ \A v \in DOMAIN z.f.values : z.f.values[v].alias = NoId
        /\ DOMAIN made.f.values \subseteq DOMAIN z.f.values
        /\ Range(Ids(written)) \subseteq DOMAIN z.f.values
        /\ z.values = made.values \cup Range(Ids(written))
        /\ z.func = made.func /\ z.blocks = made.blocks /\ z.valueRefs = made.valueRefs
        /\ z.blockRefs = made.blockRefs /\ z.current = made.current
    BY <2>1, DefinedFacts
  <2> HIDE DEF z, bs
  <2> QED BY <1>7, <1>8, <2>2
<1> HIDE DEF z
<1>10. /\ DOMAIN bs = DOMAIN o.f.blocks /\ bs[c] = node
       /\ \A b \in DOMAIN bs : b # c => bs[b] = o.f.blocks[b]
  BY <1>3
<1>11. /\ DOMAIN o.f.blocks[c] = {"live", "params", "insts", "term"}
       /\ o.f.blocks[c].live \in BOOLEAN /\ o.f.blocks[c].params \in Seq(Nat)
       /\ o.f.blocks[c].insts \in Seq(DOMAIN o.f.insts)
       /\ o.f.blocks[c].term = <<>> \/ o.f.blocks[c].term = <<o.f.blocks[c].term[1]>>
  BY <1>1, <1>3 DEF BodyShape
<1>12. /\ DOMAIN node = {"live", "params", "insts", "term"}
       /\ node.live = o.f.blocks[c].live /\ node.params = o.f.blocks[c].params
       /\ node.term = o.f.blocks[c].term /\ node.insts = Append(o.f.blocks[c].insts, i)
  BY <1>11
<1> HIDE DEF bs, node
<1>13. \A b \in DOMAIN bs : bs[b].live = o.f.blocks[b].live /\ bs[b].params = o.f.blocks[b].params
                            /\ bs[b].term = o.f.blocks[b].term
  BY <1>10, <1>12
<1>14. DOMAIN o.f.insts \subseteq DOMAIN is /\ i \in DOMAIN is BY <1>4
<1>15. \A s \in Seq(DOMAIN o.f.insts) :
          /\ s \in Seq(DOMAIN is)
          /\ Append(s, i) \in Seq(DOMAIN is)
          /\ Range(s) \subseteq Range(Append(s, i)) /\ i \in Range(Append(s, i))
  <2> SUFFICES ASSUME NEW s \in Seq(DOMAIN o.f.insts)
               PROVE  /\ s \in Seq(DOMAIN is)
                      /\ Append(s, i) \in Seq(DOMAIN is)
                      /\ Range(s) \subseteq Range(Append(s, i)) /\ i \in Range(Append(s, i))
    OBVIOUS
  <2>1. Len(s) \in Nat /\ DOMAIN s = 1 .. Len(s) /\ \A k \in 1 .. Len(s) : s[k] \in DOMAIN o.f.insts
    BY LenProperties, ElementOfSeq
  <2>2. s \in [1 .. Len(s) -> DOMAIN is] BY <1>14, <2>1
  <2>3. s \in Seq(DOMAIN is) BY <2>1, <2>2, FunctionSeq
  <2>4. /\ Append(s, i) \in Seq(DOMAIN is) /\ DOMAIN Append(s, i) = 1 .. Len(s) + 1
        /\ \A k \in 1 .. Len(s) : Append(s, i)[k] = s[k]
        /\ Append(s, i)[Len(s) + 1] = i
    <3> HIDE DEF i
    <3>1. /\ Append(s, i) \in Seq(DOMAIN is) /\ Len(Append(s, i)) = Len(s) + 1
          /\ \A k \in 1 .. Len(s) : Append(s, i)[k] = s[k]
          /\ Append(s, i)[Len(s) + 1] = i
      BY <1>14, <2>3, AppendProperties
    <3> QED BY <3>1, LenProperties
  <2>5. \A k \in 1 .. Len(s) : k \in 1 .. Len(s) + 1 BY <2>1
  <2>6. Len(s) + 1 \in 1 .. Len(s) + 1 BY <2>1
  <2>7. Range(s) \subseteq Range(Append(s, i)) BY <2>1, <2>4, <2>5 DEF Range
  <2>8. i \in Range(Append(s, i))
    <3> HIDE DEF i
    <3> QED BY <2>4, <2>6 DEF Range
  <2> QED BY <2>3, <2>4, <2>7, <2>8
<1>16. BodyShape(z.f)
  <2>1. ASSUME NEW b \in DOMAIN bs
        PROVE  /\ DOMAIN bs[b] = {"live", "params", "insts", "term"}
               /\ bs[b].live \in BOOLEAN /\ bs[b].params \in Seq(Nat) /\ bs[b].insts \in Seq(DOMAIN is)
               /\ bs[b].term = <<>> \/ bs[b].term = <<bs[b].term[1]>>
    <3>1. CASE b = c
      <4>1. bs[b] = node BY <1>10, <3>1
      <4>2. node.insts \in Seq(DOMAIN is) BY <1>11, <1>12, <1>15
      <4> QED BY <1>11, <1>12, <4>1, <4>2
    <3>2. CASE b # c
      <4>1. bs[b] = o.f.blocks[b] /\ b \in DOMAIN o.f.blocks BY <1>10, <3>2
      <4> QED BY <1>1, <1>15, <4>1 DEF BodyShape
    <3> QED BY <3>1, <3>2
  <2>2. ASSUME NEW j \in DOMAIN is PROVE is[j].results \in Seq(Nat)
    <3>1. CASE j = i
      <4>1. Ids(written) \in Seq(Nat) BY IdsFacts
      <4> QED BY <1>4, <1>6, <3>1, <4>1
    <3>2. CASE j # i BY <1>1, <1>4, <3>2 DEF BodyShape
    <3> QED BY <3>1, <3>2
  <2>3. IsTable(bs) BY <1>2, <1>10 DEF IsTable
  <2> QED BY <1>1, <1>4, <1>9, <2>1, <2>2, <2>3 DEF BodyShape, BodyFields
<1>17. z.blocks = LiveBlocks(z.f) BY <1>1, <1>9, <1>10, <1>13 DEF LiveBlocks
<1>18. ASSUME NEW v \in z.values PROVE v \in DOMAIN z.f.values /\ DefinedBy(z, v)
  <2>1. CASE v \in o.values
    <3>1. v \in DOMAIN o.f.values /\ DefinedBy(o, v) BY <2>1 DEF OpenFits
    <3>2. PICK b \in o.blocks :
             \/ v \in Range(o.f.blocks[b].params)
             \/ \E j \in Range(o.f.blocks[b].insts) : v \in Range(o.f.insts[j].results)
      BY <3>1 DEF DefinedBy
    <3>3. b \in DOMAIN bs /\ b \in DOMAIN o.f.blocks BY <1>1, <1>10, <3>2 DEF LiveBlocks
    <3>4. CASE v \in Range(o.f.blocks[b].params) BY <1>9, <1>13, <3>1, <3>3, <3>4 DEF DefinedBy
    <3>5. CASE \E j \in Range(o.f.blocks[b].insts) : v \in Range(o.f.insts[j].results)
      <4>1. PICK j \in Range(o.f.blocks[b].insts) : v \in Range(o.f.insts[j].results) BY <3>5
      <4>2. o.f.blocks[b].insts \in Seq(DOMAIN o.f.insts) BY <1>1, <3>3 DEF BodyShape
      <4>3. j \in Range(bs[b].insts)
        <5>1. CASE b = c BY <1>10, <1>12, <1>15, <4>1, <4>2, <5>1
        <5>2. CASE b # c BY <1>10, <3>3, <4>1, <5>2
        <5> QED BY <5>1, <5>2
      <4>4. j \in DOMAIN o.f.insts
        <5>1. PICK k \in DOMAIN o.f.blocks[b].insts : j = o.f.blocks[b].insts[k] BY <4>1 DEF Range
        <5> QED BY <4>2, <5>1, LenProperties, ElementOfSeq
      <4>5. v \in Range(is[j].results) BY <1>4, <4>1, <4>4
      <4> QED BY <1>9, <3>1, <4>3, <4>5 DEF DefinedBy
    <3> QED BY <3>2, <3>4, <3>5
  <2>2. CASE v \in Range(Ids(written))
    <3>1. i \in Range(bs[c].insts) BY <1>10, <1>11, <1>12, <1>15
    <3>2. v \in Range(is[i].results) BY <1>4, <1>6, <2>2
    <3>3. c \in z.blocks BY <1>9
    <3>4. DefinedBy(z, v) BY <1>9, <3>1, <3>2, <3>3 DEF DefinedBy
    <3> QED BY <1>9, <2>2, <3>4
  <2> QED BY <1>9, <2>1, <2>2
<1>19. ASSUME NEW j \in DOMAIN z.f.insts PROVE OpFits(kn, z, z.f.insts[j].data)
  <2>1. CASE j = i BY <1>4, <1>6, <1>9, <2>1 DEF OpFits
  <2>2. CASE j # i
    <3>1. j \in DOMAIN o.f.insts /\ is[j] = o.f.insts[j] BY <1>4, <1>9, <2>2
    <3>2. OpFits(kn, o, is[j].data) BY <3>1 DEF OpenFits
    <3> QED BY <1>9, <3>2 DEF OpFits
  <2> QED BY <2>1, <2>2
<1>20. ASSUME NEW b \in z.blocks, z.f.blocks[b].term # <<>> PROVE TermFits(kn, z, z.f.blocks[b].term[1])
  <2>1. b \in o.blocks /\ bs[b].term = o.f.blocks[b].term
    BY <1>1, <1>9, <1>10, <1>13 DEF LiveBlocks
  <2>2. TermFits(kn, o, bs[b].term[1]) BY <1>9, <1>20, <2>1 DEF OpenFits
  <2> QED BY <1>9, <2>2 DEF TermFits, OpFits
<1>21. OpenFits(kn, z) BY <1>9, <1>16, <1>17, <1>18, <1>19, <1>20 DEF OpenFits, OpenFields
<1>22. z.current \in z.blocks BY <1>9
<1> QED BY <1>9, <1>21, <1>22 DEF z, made

Ended(o, t, refs, dests) ==
    [o EXCEPT !.f.blocks[o.current].term = <<t>>, !.valueRefs = @ \cup refs,
              !.blockRefs = @ \cup dests]

LEMMA TerminatorFits ==
  ASSUME NEW kn, NEW o, OpenFits(kn, o), o.current \in o.blocks,
         NEW t, NEW refs, NEW dests, Range(t.data.vals) \cup Range(t.data.gc) \subseteq refs,
         t.data.sym = NoSym \/ Bound(kn, t.data.sym),
         ArgRefs(t.edges) \subseteq refs, EdgeRefs(t.edges) \subseteq dests,
         NEW z, z = Ended(o, t, refs, dests)
  PROVE  OpenFits(kn, z) /\ z.func = o.func /\ z.current \in z.blocks
<1> DEFINE c == o.current
           node == [o.f.blocks[c] EXCEPT !.term = <<t>>]
           bs == [o.f.blocks EXCEPT ![c] = node]
<1>1. /\ DOMAIN o = OpenFields /\ BodyShape(o.f) /\ o.blocks = LiveBlocks(o.f)
      /\ DOMAIN o.f = BodyFields
  BY DEF OpenFits, BodyShape, OpenFields, BodyFields
<1>2. IsTable(o.f.blocks) BY <1>1 DEF BodyShape
<1>3. c \in DOMAIN o.f.blocks BY <1>1 DEF LiveBlocks
<1>4. z = [o EXCEPT !.f = [o.f EXCEPT !.blocks = bs], !.valueRefs = o.valueRefs \cup refs,
                    !.blockRefs = o.blockRefs \cup dests]
  BY <1>1 DEF OpenFields, BodyFields, Ended
<1> HIDE DEF bs
<1>5. /\ DOMAIN z = OpenFields /\ z.f = [o.f EXCEPT !.blocks = bs]
      /\ z.blocks = o.blocks /\ z.current = c /\ z.func = o.func /\ z.values = o.values
      /\ z.valueRefs = o.valueRefs \cup refs /\ z.blockRefs = o.blockRefs \cup dests
  BY <1>1, <1>4 DEF OpenFields
<1>6. /\ DOMAIN z.f = BodyFields /\ z.f.blocks = bs /\ z.f.values = o.f.values
      /\ z.f.insts = o.f.insts /\ z.f.slots = o.f.slots
  BY <1>1, <1>5 DEF BodyFields
<1>7. /\ DOMAIN bs = DOMAIN o.f.blocks /\ bs[c] = node
      /\ \A b \in DOMAIN bs : b # c => bs[b] = o.f.blocks[b]
  BY <1>3 DEF bs
<1>8. DOMAIN o.f.blocks[c] = {"live", "params", "insts", "term"} BY <1>1, <1>3 DEF BodyShape
<1>9. /\ DOMAIN node = {"live", "params", "insts", "term"}
      /\ node.live = o.f.blocks[c].live /\ node.params = o.f.blocks[c].params
      /\ node.insts = o.f.blocks[c].insts /\ node.term = <<t>>
  BY <1>8
<1>10. <<t>> # <<>> /\ <<t>>[1] = t OBVIOUS
<1> HIDE DEF node
<1>11. \A b \in DOMAIN bs : bs[b].live = o.f.blocks[b].live /\ bs[b].params = o.f.blocks[b].params
                            /\ bs[b].insts = o.f.blocks[b].insts
  BY <1>7, <1>9
<1>12. BodyShape(z.f)
  <2>1. ASSUME NEW b \in DOMAIN bs
        PROVE  /\ DOMAIN bs[b] = {"live", "params", "insts", "term"}
               /\ bs[b].live \in BOOLEAN /\ bs[b].params \in Seq(Nat) /\ bs[b].insts \in Seq(DOMAIN o.f.insts)
               /\ bs[b].term = <<>> \/ bs[b].term = <<bs[b].term[1]>>
    <3>1. b \in DOMAIN o.f.blocks BY <1>7
    <3>2. bs[b].live \in BOOLEAN /\ bs[b].params \in Seq(Nat) /\ bs[b].insts \in Seq(DOMAIN o.f.insts)
      BY <1>1, <1>11, <3>1 DEF BodyShape
    <3>3. DOMAIN bs[b] = {"live", "params", "insts", "term"}
      BY <1>1, <1>7, <1>9, <3>1 DEF BodyShape
    <3>4. bs[b].term = <<>> \/ bs[b].term = <<bs[b].term[1]>>
      <4>1. CASE b = c BY <1>7, <1>9, <1>10, <4>1
      <4>2. CASE b # c BY <1>1, <1>7, <3>1, <4>2 DEF BodyShape
      <4> QED BY <4>1, <4>2
    <3> QED BY <3>2, <3>3, <3>4
  <2>2. IsTable(bs) BY <1>2, <1>7 DEF IsTable
  <2> QED BY <1>1, <1>6, <2>1, <2>2 DEF BodyShape, BodyFields
<1>13. z.blocks = LiveBlocks(z.f) BY <1>1, <1>5, <1>6, <1>7, <1>11 DEF LiveBlocks
<1>14. \A b \in o.blocks : b \in DOMAIN bs BY <1>1, <1>7 DEF LiveBlocks
<1>15. ASSUME NEW v \in z.values PROVE v \in DOMAIN z.f.values /\ DefinedBy(z, v)
  <2>1. v \in DOMAIN o.f.values /\ DefinedBy(o, v) BY <1>5 DEF OpenFits
  <2>2. DefinedBy(z, v) BY <1>5, <1>6, <1>11, <1>14, <2>1 DEF DefinedBy
  <2> QED BY <1>6, <2>1, <2>2
<1>16. ASSUME NEW i \in DOMAIN z.f.insts PROVE OpFits(kn, z, z.f.insts[i].data)
  <2>1. OpFits(kn, o, o.f.insts[i].data) BY <1>6 DEF OpenFits
  <2> QED BY <1>5, <1>6, <2>1 DEF OpFits
<1>17. ASSUME NEW b \in z.blocks, z.f.blocks[b].term # <<>> PROVE TermFits(kn, z, z.f.blocks[b].term[1])
  <2>1. CASE b = c
    <3>1. z.f.blocks[b].term[1] = t BY <1>6, <1>7, <1>9, <1>10, <2>1
    <3>2. TermFits(kn, z, t) BY <1>5 DEF TermFits, OpFits
    <3> QED BY <3>1, <3>2
  <2>2. CASE b # c
    <3>1. b \in o.blocks /\ bs[b] = o.f.blocks[b] BY <1>5, <1>7, <1>14, <2>2
    <3>2. TermFits(kn, o, bs[b].term[1]) BY <1>6, <1>17, <3>1 DEF OpenFits
    <3> QED BY <1>5, <1>6, <3>2 DEF TermFits, OpFits
  <2> QED BY <2>1, <2>2
<1>18. OpenFits(kn, z) BY <1>5, <1>6, <1>12, <1>13, <1>15, <1>16, <1>17 DEF OpenFits, OpenFields
<1> QED BY <1>5, <1>18

------------------------------------------------------------------------------
(***************************************************************************)
(* What is printed is a text: every line of a module that fits is a line.  *)
(***************************************************************************)
LEMMA MembersInOrder ==
  ASSUME NEW n \in Nat, NEW K \in SUBSET (0 .. n - 1)
  PROVE  /\ Cardinality(K) \in Nat /\ DOMAIN Sorted(K) = 1 .. Cardinality(K)
         /\ \A j \in 1 .. Cardinality(K) : Sorted(K)[j] \in K
<1> DEFINE K1 == {k + 1 : k \in K}
           Low(i) == {k \in K : k <= i}
           Low1(i) == {k \in K1 : k <= i + 1}
<1>1. K1 \in SUBSET (1 .. n) BY DEF K1
<1>2. IsFiniteSet(0 .. n - 1) BY FS_Interval
<1>3. IsFiniteSet(K) /\ Cardinality(K) \in Nat BY <1>2, FS_Subset, FS_CardinalityType
<1>4. ASSUME NEW A \in SUBSET K
      PROVE  Cardinality({k + 1 : k \in A}) = Cardinality(A)
  <2> DEFINE B == {k + 1 : k \in A}  f == [k \in A |-> k + 1]
  <2>1. \A k \in A : k \in Int BY DEF B
  <2>2. f \in Bijection(A, B) BY <2>1 DEF Bijection, Injection, Surjection, IsInjective
  <2>3. ExistsBijection(A, B) BY <2>2 DEF ExistsBijection
  <2>4. IsFiniteSet(A) BY <1>3, FS_Subset
  <2> QED BY <2>3, <2>4, FS_Bijection
<1>5. Cardinality(K1) = Cardinality(K) BY <1>4
<1>6. ASSUME NEW j \in 1 .. Cardinality(K) PROVE Nth(K, j) \in K
  <2>1. Nth(K1, j) \in K1 /\ Rank(K1, Nth(K1, j)) = j
    <3> HIDE DEF K1
    <3> QED BY <1>1, <1>5, NthFacts
  <2>2. PICK i \in K : Nth(K1, j) = i + 1 BY <2>1
  <2>3. Cardinality(Low1(i)) = j BY <2>1, <2>2 DEF Rank
  <2>4. \A k \in K : k \in Int /\ i \in Int OBVIOUS
  <2>5. Low1(i) = {k + 1 : k \in Low(i)}
    <3>1. ASSUME NEW k \in Low1(i) PROVE k \in {h + 1 : h \in Low(i)}
      <4>1. PICK h \in K : k = h + 1 OBVIOUS
      <4>2. h <= i BY <2>4, <4>1
      <4> QED BY <4>1, <4>2
    <3>2. ASSUME NEW h \in Low(i) PROVE h + 1 \in Low1(i) BY <2>4
    <3> QED BY <3>1, <3>2
  <2>6. Cardinality(Low(i)) = j BY <1>4, <2>3, <2>5
  <2> QED BY <2>6 DEF Nth
<1> QED BY <1>3, <1>6 DEF Sorted

LEMMA TextMade ==
  ASSUME NEW n \in Nat, NEW d, d = [k \in 1 .. n |-> d[k]], \A k \in 1 .. n : IsLine(d[k])
  PROVE  IsText(d)
<1>1. DOMAIN d = 1 .. n OBVIOUS
<1>2. \A k \in 1 .. n : d[k] \in Range(d) BY <1>1 DEF Range
<1>3. d \in [1 .. n -> Range(d)] BY <1>2
<1>4. d \in Seq(Range(d)) BY <1>3, FunctionSeq
<1>5. ASSUME NEW line \in Range(d) PROVE IsLine(line)
  <2>1. PICK k \in 1 .. n : line = d[k] BY <1>1 DEF Range
  <2> QED BY <2>1
<1> QED BY <1>4, <1>5 DEF IsText

LEMMA TextIs ==
  ASSUME NEW d, IsText(d)
  PROVE  /\ Len(d) \in Nat /\ DOMAIN d = 1 .. Len(d) /\ \A k \in 1 .. Len(d) : IsLine(d[k])
         /\ \A T : Range(d) \subseteq T => d \in Seq(T)
         /\ \A x : Has(d, x) => IsLine(x)
<1>1. d \in Seq(Range(d)) /\ \A line \in Range(d) : IsLine(line) BY DEF IsText
<1>2. Len(d) \in Nat /\ DOMAIN d = 1 .. Len(d) BY <1>1, LenProperties
<1>3. \A k \in 1 .. Len(d) : IsLine(d[k]) BY <1>1, <1>2 DEF Range
<1>4. \A T : Range(d) \subseteq T => d \in Seq(T) BY <1>1, SeqMonotonic
<1> QED BY <1>2, <1>3, <1>4 DEF Has

LEMMA TextOf ==
  ASSUME NEW T, NEW d \in Seq(T), \A x : Has(d, x) => IsLine(x)
  PROVE  IsText(d)
<1>1. Len(d) \in Nat /\ DOMAIN d = 1 .. Len(d) BY LenProperties
<1>2. \A k \in 1 .. Len(d) : IsLine(d[k]) BY DEF Has
<1>3. d = [k \in 1 .. Len(d) |-> d[k]]
  <2>1. d \in [1 .. Len(d) -> T] BY <1>1, ElementOfSeq
  <2> QED BY <2>1
<1> QED BY <1>1, <1>2, <1>3, TextMade

LEMMA TextConcat ==
  ASSUME NEW s, NEW d, IsText(s), IsText(d)
  PROVE  IsText(s \o d)
<1> DEFINE T == Range(s) \cup Range(d)
<1>1. Range(s) \subseteq T /\ Range(d) \subseteq T OBVIOUS
<1> HIDE DEF T
<1>2. s \in Seq(T) /\ d \in Seq(T) BY <1>1, TextIs
<1>3. s \o d \in Seq(T) /\ \A x : Has(s \o d, x) <=> Has(s, x) \/ Has(d, x) BY <1>2, ConcatFacts
<1>4. \A x : Has(s \o d, x) => IsLine(x) BY <1>3, TextIs
<1> QED BY <1>3, <1>4, TextOf

LEMMA TextFlattened ==
  ASSUME NEW n \in Nat, NEW ss, ss = [k \in 1 .. n |-> ss[k]], \A k \in 1 .. n : IsText(ss[k])
  PROVE  IsText(FlattenSeq(ss))
<1> DEFINE T == UNION {Range(ss[k]) : k \in 1 .. n}
<1>1. \A k \in 1 .. n : ss[k] \in Seq(T)
  <2> SUFFICES ASSUME NEW k \in 1 .. n PROVE ss[k] \in Seq(T) OBVIOUS
  <2>1. Range(ss[k]) \subseteq T OBVIOUS
  <2> HIDE DEF T
  <2> QED BY <2>1, TextIs
<1> HIDE DEF T
<1>2. ss \in [1 .. n -> Seq(T)] BY <1>1
<1>3. ss \in Seq(Seq(T)) /\ Len(ss) = n BY <1>2, FunctionSeq
<1>4. /\ FlattenSeq(ss) \in Seq(T)
      /\ \A x : Has(FlattenSeq(ss), x) <=> \E k \in 1 .. n : Has(ss[k], x)
  BY <1>3, FlattenFacts
<1>5. \A x : Has(FlattenSeq(ss), x) => IsLine(x) BY <1>4, TextIs
<1> QED BY <1>4, <1>5, TextOf

LEMMA OneLine ==
  ASSUME NEW line, IsLine(line)
  PROVE  IsText(<<line>>)
<1>1. <<line>> = [k \in 1 .. 1 |-> <<line>>[k]] OBVIOUS
<1>2. \A k \in 1 .. 1 : IsLine(<<line>>[k]) OBVIOUS
<1> QED BY <1>1, <1>2, TextMade

LEMMA TypedFacts ==
  ASSUME NEW f, NEW vals \in Seq(Nat)
  PROVE  IsDefs(Typed(f, vals))
<1> DEFINE w == Typed(f, vals)
<1>1. Len(vals) \in Nat /\ DOMAIN vals = 1 .. Len(vals) /\ \A k \in 1 .. Len(vals) : vals[k] \in Nat
  BY LenProperties, ElementOfSeq
<1>2. w = [k \in 1 .. Len(vals) |-> [id |-> vals[k], ty |-> f.values[vals[k]].ty]] BY <1>1 DEF Typed
<1>3. DOMAIN w = 1 .. Len(vals) /\ \A k \in 1 .. Len(vals) : w[k].id = vals[k] BY <1>2
<1>4. w = [k \in 1 .. Len(vals) |-> w[k]] BY <1>2
<1> HIDE DEF w
<1>5. w \in [1 .. Len(vals) -> Range(w)] BY <1>3, <1>4 DEF Range
<1>6. w \in Seq(Range(w)) BY <1>1, <1>5, FunctionSeq
<1>7. \A d \in Range(w) : d.id \in Nat BY <1>1, <1>3 DEF Range
<1> QED BY <1>6, <1>7 DEF IsDefs, w

LEMMA BlockText ==
  ASSUME NEW md, NEW f, BodyShape(f), NEW b \in DOMAIN f.blocks
  PROVE  IsText(WriteBlock(md, f, b))
<1> DEFINE n == f.blocks[b]
           head == <<[kind |-> "block", id |-> b, params |-> Typed(f, n.params)]>>
           body == [k \in DOMAIN n.insts |-> WriteInst(md, f, n.insts[k])]
           end == [k \in DOMAIN n.term |-> WriteTerm(md, f, n.term[k])]
<1>1. n.params \in Seq(Nat) /\ n.insts \in Seq(DOMAIN f.insts) /\ (n.term = <<>> \/ n.term = <<n.term[1]>>)
  BY DEF BodyShape
<1>2. IsTable(f.blocks) BY DEF BodyShape
<1>3. b \in Nat BY <1>2, TableFacts
<1>4. WriteBlock(md, f, b) = (head \o body) \o end BY DEF WriteBlock
<1>5. IsText(head)
  <2> DEFINE p == Typed(f, n.params)
  <2>1. IsDefs(p) BY <1>1, TypedFacts
  <2> HIDE DEF p
  <2>2. IsLine([kind |-> "block", id |-> b, params |-> p]) BY <1>3, <2>1 DEF IsLine
  <2> QED BY <2>2, OneLine DEF p
<1>6. IsText(body)
  <2>1. Len(n.insts) \in Nat /\ DOMAIN n.insts = 1 .. Len(n.insts)
        /\ \A k \in 1 .. Len(n.insts) : n.insts[k] \in DOMAIN f.insts
    BY <1>1, LenProperties, ElementOfSeq
  <2>2. ASSUME NEW k \in 1 .. Len(n.insts) PROVE IsLine(WriteInst(md, f, n.insts[k]))
    <3> DEFINE i == n.insts[k]  p == Typed(f, f.insts[i].results)
               text == WriteOp(md, f, f.insts[i].data, FALSE)
    <3>1. f.insts[i].results \in Seq(Nat) BY <2>1 DEF BodyShape
    <3>2. IsDefs(p) BY <3>1, TypedFacts
    <3>3. WriteInst(md, f, i) = [kind |-> "inst", results |-> p, text |-> text] BY DEF WriteInst
    <3> HIDE DEF p, text, i
    <3>4. IsLine(WriteInst(md, f, i)) BY <3>2, <3>3 DEF IsLine
    <3> QED BY <3>4 DEF i
  <2>3. body = [k \in 1 .. Len(n.insts) |-> body[k]] BY <2>1
  <2>4. \A k \in 1 .. Len(n.insts) : IsLine(body[k]) BY <2>1, <2>2
  <2> HIDE DEF body
  <2> QED BY <2>1, <2>3, <2>4, TextMade
<1>7. IsText(end)
  <2>1. \A t : IsLine(WriteTerm(md, f, t)) BY DEF WriteTerm, IsLine
  <2>2. DOMAIN n.term = 1 .. 0 \/ DOMAIN n.term = 1 .. 1
    <3>1. DOMAIN <<>> = 1 .. 0 /\ DOMAIN <<n.term[1]>> = 1 .. 1 BY EmptySeq, LenProperties
    <3> QED BY <1>1, <3>1
  <2>3. PICK h \in Nat : DOMAIN n.term = 1 .. h BY <2>2
  <2>4. end = [k \in 1 .. h |-> end[k]] /\ \A k \in 1 .. h : IsLine(end[k]) BY <2>1, <2>3
  <2> HIDE DEF end
  <2> QED BY <2>4, TextMade
<1> HIDE DEF head, body, end
<1> QED BY <1>4, <1>5, <1>6, <1>7, TextConcat

LEMMA BodyText ==
  ASSUME NEW md, NEW f, BodyShape(f)
  PROVE  IsText(WriteBody(md, f))
<1> DEFINE slots == [k \in 1 .. f.slots |-> [kind |-> "slot", id |-> k - 1]]
           order == PrintOrder(f)
           parts == [k \in DOMAIN order |-> WriteBlock(md, f, order[k])]
           close == [kind |-> "close"]
<1>1. WriteBody(md, f) = (slots \o FlattenSeq(parts)) \o <<close>> BY DEF WriteBody
<1>2. IsText(slots)
  <2>1. f.slots \in Nat BY DEF BodyShape
  <2>2. slots = [k \in 1 .. f.slots |-> slots[k]] OBVIOUS
  <2>3. \A k \in 1 .. f.slots : IsLine(slots[k]) BY DEF IsLine
  <2> HIDE DEF slots
  <2> QED BY <2>1, <2>2, <2>3, TextMade
<1>3. \E n \in Nat : DOMAIN order = 1 .. n /\ \A k \in 1 .. n : order[k] \in DOMAIN f.blocks
  <2> DEFINE K == LiveBlocks(f) \ {f.entry}  rest == Sorted(K)  c == Cardinality(K)
  <2>1. PICK n \in Nat : DOMAIN f.blocks = 0 .. n - 1 BY DEF BodyShape, IsTable
  <2>2. K \in SUBSET (0 .. n - 1) BY <2>1 DEF LiveBlocks
  <2> HIDE DEF K
  <2>3. c \in Nat /\ DOMAIN rest = 1 .. c /\ \A j \in 1 .. c : rest[j] \in K
    BY <2>2, MembersInOrder
  <2>4. rest = [j \in 1 .. c |-> rest[j]] BY DEF Sorted
  <2> HIDE DEF rest, c
  <2>5. \A j \in 1 .. c : rest[j] \in DOMAIN f.blocks BY <2>1, <2>2, <2>3
  <2>6. rest \in [1 .. c -> DOMAIN f.blocks] BY <2>4, <2>5
  <2>7. rest \in Seq(DOMAIN f.blocks) /\ Len(rest) = c BY <2>3, <2>6, FunctionSeq
  <2>8. order = IF f.entry \in LiveBlocks(f) THEN <<f.entry>> \o rest ELSE rest
    BY DEF PrintOrder, rest, K
  <2>9. order \in Seq(DOMAIN f.blocks)
    <3>1. CASE f.entry \in LiveBlocks(f)
      <4>1. f.entry \in DOMAIN f.blocks BY <3>1 DEF LiveBlocks
      <4>2. <<f.entry>> \in Seq(DOMAIN f.blocks)
        <5> DEFINE D == DOMAIN f.blocks  x == f.entry
        <5>1. x \in D BY <4>1
        <5> HIDE DEF D, x
        <5>2. <<x>> \in Seq(D) BY <5>1
        <5> QED BY <5>2 DEF D, x
      <4> QED BY <2>7, <2>8, <3>1, <4>2, ConcatProperties
    <3>2. CASE f.entry \notin LiveBlocks(f) BY <2>7, <2>8, <3>2
    <3> QED BY <3>1, <3>2
  <2> HIDE DEF order
  <2>10. Len(order) \in Nat /\ DOMAIN order = 1 .. Len(order)
         /\ \A k \in 1 .. Len(order) : order[k] \in DOMAIN f.blocks
    BY <2>9, LenProperties, ElementOfSeq
  <2> QED BY <2>10
<1>4. IsText(FlattenSeq(parts))
  <2>1. PICK n \in Nat : DOMAIN order = 1 .. n /\ \A k \in 1 .. n : order[k] \in DOMAIN f.blocks BY <1>3
  <2> HIDE DEF order
  <2>2. parts = [k \in 1 .. n |-> parts[k]] BY <2>1
  <2>3. \A k \in 1 .. n : IsText(parts[k])
    <3>1. \A k \in 1 .. n : IsText(WriteBlock(md, f, order[k])) BY <2>1, BlockText
    <3> QED BY <2>1, <3>1
  <2> HIDE DEF parts
  <2> QED BY <2>2, <2>3, TextFlattened
<1>5. IsText(<<close>>)
  <2>1. IsLine(close) BY DEF IsLine
  <2> HIDE DEF close
  <2> QED BY <2>1, OneLine
<1> HIDE DEF slots, parts, close
<1> QED BY <1>1, <1>2, <1>4, <1>5, TextConcat

LEMMA FunctionText ==
  ASSUME NEW kn, NEW md, NEW i, FunctionFits(kn, md.funcs[i])
  PROVE  IsText(WriteFunction(md, i))
<1> DEFINE d == md.funcs[i]
           head == [kind |-> "func", name |-> d.name, id |-> d.sig, linkage |-> d.linkage,
                    body |-> d.body # NoBody]
           parts == [k \in DOMAIN d.body |-> WriteBody(md, d.body[k])]
<1>1. WriteFunction(md, i) = <<head>> \o FlattenSeq(parts) BY DEF WriteFunction
<1>2. IsText(<<head>>)
  <2>1. head.kind = "func" /\ head.body \in BOOLEAN OBVIOUS
  <2> HIDE DEF head
  <2>2. IsLine(head) BY <2>1 DEF IsLine
  <2> QED BY <2>2, OneLine
<1>3. \E n \in Nat : DOMAIN d.body = 1 .. n /\ \A k \in 1 .. n : BodyShape(d.body[k])
  <2> DEFINE g == d.body
  <2>1. g # <<>> => g = <<g[1]>> /\ BodyShape(g[1]) BY DEF FunctionFits, NoBody
  <2> HIDE DEF g
  <2>2. CASE g = <<>>
    <3>1. DOMAIN g = 1 .. 0 BY <2>2, EmptySeq, LenProperties
    <3> QED BY <3>1 DEF g
  <2>3. CASE g # <<>>
    <3>1. DOMAIN <<g[1]>> = 1 .. 1 OBVIOUS
    <3>2. DOMAIN g = 1 .. 1 /\ \A k \in 1 .. 1 : BodyShape(g[k]) BY <2>1, <2>3, <3>1
    <3> QED BY <3>2 DEF g
  <2> QED BY <2>2, <2>3
<1>4. IsText(FlattenSeq(parts))
  <2>1. PICK n \in Nat : DOMAIN d.body = 1 .. n /\ \A k \in 1 .. n : BodyShape(d.body[k]) BY <1>3
  <2>2. parts = [k \in 1 .. n |-> parts[k]] BY <2>1
  <2>3. \A k \in 1 .. n : IsText(parts[k])
    <3>1. \A k \in 1 .. n : IsText(WriteBody(md, d.body[k])) BY <2>1, BodyText
    <3> QED BY <2>1, <3>1
  <2> HIDE DEF parts
  <2> QED BY <2>2, <2>3, TextFlattened
<1> HIDE DEF head, parts
<1> QED BY <1>1, <1>2, <1>4, TextConcat

LEMMA PrintedText ==
  ASSUME NEW kn, NEW md, ModuleFits(kn, md)
  PROVE  IsText(Printed(md))
<1> DEFINE types == [k \in 1 .. Count(md.aggs) |->
                       [kind |-> "type", id |-> k - 1, agg |-> md.aggs[k - 1].agg]]
           sigs == [k \in 1 .. Count(md.sigs) |-> [kind |-> "sig", id |-> k - 1, sig |-> md.sigs[k - 1]]]
           globals == [k \in 1 .. Count(md.globals) |-> WriteGlobal(md, md.globals[k - 1])]
           funcs == [k \in 1 .. Count(md.funcs) |-> WriteFunction(md, k - 1)]
<1>1. Printed(md) = ((types \o sigs) \o globals) \o FlattenSeq(funcs) BY DEF Printed
<1>2. /\ Count(md.aggs) \in Nat /\ DOMAIN md.aggs = 0 .. Count(md.aggs) - 1
      /\ Count(md.sigs) \in Nat
      /\ Count(md.globals) \in Nat /\ DOMAIN md.globals = 0 .. Count(md.globals) - 1
      /\ Count(md.funcs) \in Nat /\ DOMAIN md.funcs = 0 .. Count(md.funcs) - 1
  BY TableFacts DEF ModuleFits, AggsFit
<1>3. IsText(types)
  <2>1. ASSUME NEW k \in 1 .. Count(md.aggs) PROVE IsLine(types[k])
    <3>1. k - 1 \in DOMAIN md.aggs BY <1>2
    <3>2. AggFits(md.aggs, k - 1) BY <3>1 DEF ModuleFits, AggsFit
    <3>3. IsAggregate(md.aggs[k - 1].agg) BY <3>2 DEF AggFits
    <3>4. types[k].kind = "type" /\ types[k].agg = md.aggs[k - 1].agg OBVIOUS
    <3> HIDE DEF types
    <3> QED BY <3>3, <3>4 DEF IsLine
  <2>2. types = [k \in 1 .. Count(md.aggs) |-> types[k]] OBVIOUS
  <2> HIDE DEF types
  <2> QED BY <1>2, <2>1, <2>2, TextMade
<1>4. IsText(sigs)
  <2>1. \A k \in 1 .. Count(md.sigs) : IsLine(sigs[k]) BY DEF IsLine
  <2>2. sigs = [k \in 1 .. Count(md.sigs) |-> sigs[k]] OBVIOUS
  <2> HIDE DEF sigs
  <2> QED BY <1>2, <2>1, <2>2, TextMade
<1>5. IsText(globals)
  <2>1. ASSUME NEW k \in 1 .. Count(md.globals) PROVE IsLine(globals[k])
    <3> DEFINE g == md.globals[k - 1]
               d == [g EXCEPT !.relocs = [h \in DOMAIN @ |->
                       [offset |-> @[h].offset, name |-> NameOf(md, @[h].target)]]]
    <3>1. k - 1 \in DOMAIN md.globals BY <1>2
    <3>2. IsGlobal(g) BY <3>1 DEF ModuleFits, GlobalFits
    <3>3. IsGlobal(d) BY <3>2 DEF IsGlobal
    <3>4. globals[k] = [kind |-> "global", decl |-> d] BY DEF WriteGlobal
    <3> HIDE DEF d, globals
    <3> QED BY <3>3, <3>4 DEF IsLine
  <2>2. globals = [k \in 1 .. Count(md.globals) |-> globals[k]] OBVIOUS
  <2> HIDE DEF globals
  <2> QED BY <1>2, <2>1, <2>2, TextMade
<1>6. IsText(FlattenSeq(funcs))
  <2>1. ASSUME NEW k \in 1 .. Count(md.funcs) PROVE IsText(funcs[k])
    <3>1. k - 1 \in DOMAIN md.funcs BY <1>2
    <3>2. FunctionFits(kn, md.funcs[k - 1]) BY <3>1 DEF ModuleFits
    <3>3. IsText(WriteFunction(md, k - 1)) BY <3>2, FunctionText
    <3> QED BY <3>3
  <2>2. funcs = [k \in 1 .. Count(md.funcs) |-> funcs[k]] OBVIOUS
  <2> HIDE DEF funcs
  <2> QED BY <1>2, <2>1, <2>2, TextFlattened
<1> HIDE DEF types, sigs, globals, funcs
<1> QED BY <1>1, <1>3, <1>4, <1>5, <1>6, TextConcat

------------------------------------------------------------------------------
(***************************************************************************)
(* The steps.                                                              *)
(***************************************************************************)
DepthStep(depth, line) ==
    IF line.kind = "func" THEN IF line.body THEN depth + 1 ELSE depth
    ELSE IF line.kind = "close" /\ depth > 0 THEN depth - 1
    ELSE depth

LEMMA DepthsFacts ==
  ASSUME Len(doc) \in Nat
  PROVE  Depths[0] = 0 /\ \A k \in 1 .. Len(doc) : Depths[k] = DepthStep(Depths[k - 1], doc[k])
<1> DEFINE N == Len(doc)
           Body(w, k) == IF k = 0 THEN 0 ELSE DepthStep(w[k - 1], doc[k])
           W == CHOOSE w : w = [k \in 0 .. N |-> Body(w, k)]
<1>1. Depths = W BY DEF Depths, DepthStep
<1>2. \E w : w = [k \in 0 .. N |-> Body(w, k)]
  <2> DEFINE T == {n \in Nat : \E w : w = [k \in 0 .. n |-> Body(w, k)]}
  <2>1. 0 \in T
    <3> DEFINE w == [k \in 0 .. 0 |-> 0]
    <3>1. \A k \in 0 .. 0 : Body(w, k) = 0 OBVIOUS
    <3>2. w = [k \in 0 .. 0 |-> Body(w, k)] BY <3>1
    <3> QED BY <3>2
  <2>2. ASSUME NEW n \in Nat, n \in T PROVE n + 1 \in T
    <3>1. PICK w : w = [k \in 0 .. n |-> Body(w, k)] BY <2>2
    <3> DEFINE z == [k \in 0 .. (n + 1) |-> IF k = n + 1 THEN Body(w, k) ELSE w[k]]
    <3>2. ASSUME NEW k \in 0 .. (n + 1) PROVE z[k] = Body(z, k)
      <4>1. k = 0 \/ (k - 1 \in 0 .. n /\ z[k - 1] = w[k - 1]) OBVIOUS
      <4>2. Body(z, k) = Body(w, k) BY <4>1
      <4>3. z[k] = Body(w, k)
        <5>1. CASE k = n + 1 BY <5>1
        <5>2. CASE k # n + 1
          <6>1. k \in 0 .. n BY <5>2
          <6>2. w[k] = Body(w, k)
            <7> HIDE DEF Body
            <7> QED BY <3>1, <6>1
          <6> QED BY <5>2, <6>2
        <5> QED BY <5>1, <5>2
      <4> QED BY <4>2, <4>3
    <3>3. z = [k \in 0 .. (n + 1) |-> z[k]] OBVIOUS
    <3> HIDE DEF z
    <3>4. z = [k \in 0 .. (n + 1) |-> Body(z, k)]
      <4> HIDE DEF Body
      <4> QED BY <3>2, <3>3
    <3> QED BY <3>4
  <2>3. Nat \subseteq T
    <3> HIDE DEF T
    <3> QED BY <2>1, <2>2, SetInduction
  <2> QED BY <2>3
<1>3. W = [k \in 0 .. N |-> Body(W, k)] BY <1>2
<1> HIDE DEF W
<1>4. \A k \in 0 .. N : W[k] = Body(W, k)
  <2> HIDE DEF Body
  <2> QED BY <1>3
<1>5. 0 \in 0 .. N /\ \A k \in 1 .. N : k \in 0 .. N /\ k # 0 OBVIOUS
<1> QED BY <1>1, <1>4, <1>5

LEMMA RankStep ==
  ASSUME NEW n \in Nat, NEW K \in SUBSET (1 .. n), NEW k, k - 1 \in Nat, (k - 1) + 1 = k
  PROVE  /\ Rank(K, k - 1) \in Nat
         /\ Rank(K, k) = IF k \in K THEN Rank(K, k - 1) + 1 ELSE Rank(K, k - 1)
<1>1. \A i \in Nat : Rank(K, i) \in Nat BY RankFacts
<1>2. ASSUME NEW i \in Nat PROVE Rank(K, i + 1) = IF i + 1 \in K THEN Rank(K, i) + 1 ELSE Rank(K, i)
  BY ONLY n \in Nat, K \in SUBSET (1 .. n), i \in Nat, RankFacts
<1>3. Rank(K, (k - 1) + 1) = IF (k - 1) + 1 \in K THEN Rank(K, k - 1) + 1 ELSE Rank(K, k - 1)
  BY <1>2
<1> QED BY <1>1, <1>3

\* What the next line does to the depth, and to the declarations passed.
LEMMA LineRead ==
  ASSUME IsText(doc), pos \in 1 .. Len(doc)
  PROVE  /\ DepthAt(pos + 1) = DepthStep(DepthAt(pos), Line)
         /\ Rank(FuncLines, pos) =
              IF Line.kind = "func" /\ DepthAt(pos) = 0 THEN Rank(FuncLines, pos - 1) + 1
              ELSE Rank(FuncLines, pos - 1)
         /\ Rank(GlobalLines, pos) =
              IF Line.kind = "global" /\ DepthAt(pos) = 0 THEN Rank(GlobalLines, pos - 1) + 1
              ELSE Rank(GlobalLines, pos - 1)
         /\ IsLine(Line)
<1>1. Len(doc) \in Nat /\ DOMAIN doc = 1 .. Len(doc) /\ IsLine(doc[pos]) BY TextIs
<1>2. DepthAt(pos + 1) = DepthStep(DepthAt(pos), Line)
  <2>1. Depths[pos] = DepthStep(Depths[pos - 1], doc[pos]) BY <1>1, DepthsFacts
  <2>2. (pos + 1) - 1 = pos BY <1>1
  <2> QED BY <2>1, <2>2 DEF DepthAt, Line
<1>3. pos - 1 \in Nat /\ (pos - 1) + 1 = pos BY <1>1
<1>4. FuncLines \in SUBSET (1 .. Len(doc)) /\ GlobalLines \in SUBSET (1 .. Len(doc))
  BY <1>1 DEF FuncLines, GlobalLines
<1>5. pos \in FuncLines <=> Line.kind = "func" /\ DepthAt(pos) = 0 BY <1>1 DEF FuncLines, Line
<1>6. pos \in GlobalLines <=> Line.kind = "global" /\ DepthAt(pos) = 0 BY <1>1 DEF GlobalLines, Line
<1>7. Rank(FuncLines, pos) = IF pos \in FuncLines THEN Rank(FuncLines, pos - 1) + 1 ELSE Rank(FuncLines, pos - 1)
  BY <1>1, <1>3, <1>4, RankStep
<1>8. Rank(GlobalLines, pos) =
        IF pos \in GlobalLines THEN Rank(GlobalLines, pos - 1) + 1 ELSE Rank(GlobalLines, pos - 1)
  BY <1>1, <1>3, <1>4, RankStep
<1> QED BY <1>1, <1>2, <1>5, <1>6, <1>7, <1>8 DEF Line

LEMMA SameDoc ==
  ASSUME doc' = doc
  PROVE  Depths' = Depths /\ FuncLines' = FuncLines /\ GlobalLines' = GlobalLines
<1>1. Depths' = Depths BY DEF Depths
<1>2. \A k : DepthAt(k)' = DepthAt(k) BY <1>1 DEF DepthAt
<1> QED BY <1>1, <1>2 DEF FuncLines, GlobalLines

\* A step to the next line.
LEMMA Moved ==
  ASSUME TextInv, phase \in {"module", "slots", "blocks"}, pos <= Len(doc), pos' = pos + 1,
         doc' = doc, known' = known, phase' \in {"module", "slots", "blocks"},
         ModuleFits(known, m'),
         Line.kind \in {"func", "global"} => phase = "module",
         Count(m'.funcs) = Count(m.funcs) + (IF Line.kind = "func" THEN 1 ELSE 0),
         Count(m'.globals) = Count(m.globals) + (IF Line.kind = "global" THEN 1 ELSE 0),
         IF Line.kind = "func" THEN phase' # "module" <=> Line.body
         ELSE IF Line.kind = "close" THEN phase # "module" /\ phase' = "module"
         ELSE phase' = "module" <=> phase = "module",
         phase' \in {"slots", "blocks"} => open'.func \in DOMAIN m'.funcs /\ OpenFits(known, open'),
         phase' = "blocks" => open'.current \in open'.blocks
  PROVE  TextInv'
<1>1. IsText(doc) /\ pos \in 1 .. Len(doc) /\ Len(doc) \in Nat
  <2>1. IsText(doc) /\ pos \in 1 .. Len(doc) + 1 BY DEF TextInv
  <2>2. Len(doc) \in Nat BY <2>1, TextIs
  <2> QED BY <2>1, <2>2
<1>2. pos' \in 1 .. Len(doc) + 1 /\ pos' - 1 = pos BY <1>1
<1>3. Depths' = Depths /\ FuncLines' = FuncLines /\ GlobalLines' = GlobalLines BY SameDoc
<1>4. /\ DepthAt(pos) = IF phase = "module" THEN 0 ELSE 1
      /\ Count(m.funcs) = Rank(FuncLines, pos - 1) /\ Count(m.globals) = Rank(GlobalLines, pos - 1)
      /\ Len(known.funcs) = Cardinality(FuncLines) /\ Len(known.globals) = Cardinality(GlobalLines)
  BY DEF TextInv, Progress
<1>5. DepthAt(pos)' = DepthAt(pos + 1) BY <1>3 DEF DepthAt
<1>6. DepthAt(pos)' = IF phase' = "module" THEN 0 ELSE 1
  <2>1. DepthAt(pos)' = DepthStep(DepthAt(pos), Line) BY <1>1, <1>5, LineRead
  <2>2. Line.kind = "func" => Line.body \in BOOLEAN BY <1>1, LineRead DEF IsLine
  <2>3. CASE Line.kind = "func"
    <3>1. DepthAt(pos) = 0 BY <1>4, <2>3
    <3> QED BY <2>1, <2>2, <2>3, <3>1 DEF DepthStep
  <2>4. CASE Line.kind = "close"
    <3>1. DepthAt(pos) = 1 /\ phase' = "module" BY <1>4, <2>4
    <3> QED BY <2>1, <2>4, <3>1 DEF DepthStep
  <2>5. CASE Line.kind \notin {"func", "close"}
    <3>1. DepthAt(pos)' = DepthAt(pos) BY <2>1, <2>5 DEF DepthStep
    <3> QED BY <1>4, <2>5, <3>1
  <2> QED BY <2>3, <2>4, <2>5
<1>7. Count(m'.funcs) = Rank(FuncLines, pos) /\ Count(m'.globals) = Rank(GlobalLines, pos)
  <2>1. FuncLines \in SUBSET (1 .. Len(doc)) /\ GlobalLines \in SUBSET (1 .. Len(doc))
    BY <1>1, TextIs DEF FuncLines, GlobalLines
  <2>2. Rank(FuncLines, pos - 1) \in Nat /\ Rank(GlobalLines, pos - 1) \in Nat
    <3>1. pos - 1 \in Nat /\ (pos - 1) + 1 = pos BY <1>1
    <3> QED BY <1>1, <2>1, <3>1, RankStep
  <2>3. Line.kind \in {"func", "global"} => DepthAt(pos) = 0 BY <1>4
  <2>4. /\ Rank(FuncLines, pos) = Rank(FuncLines, pos - 1) + (IF Line.kind = "func" THEN 1 ELSE 0)
        /\ Rank(GlobalLines, pos) = Rank(GlobalLines, pos - 1) + (IF Line.kind = "global" THEN 1 ELSE 0)
    BY <1>1, <2>2, <2>3, LineRead
  <2> QED BY <1>4, <2>4
<1>8. Progress'
  <2>1. /\ Len(known'.funcs) = Cardinality(FuncLines') /\ Len(known'.globals) = Cardinality(GlobalLines')
        /\ Count(m'.funcs) = Rank(FuncLines', pos' - 1) /\ Count(m'.globals) = Rank(GlobalLines', pos' - 1)
    BY <1>2, <1>3, <1>4, <1>7
  <2>2. phase' # "accepted" OBVIOUS
  <2> QED BY <1>6, <2>1, <2>2 DEF Progress
<1>9. IsText(doc)' BY <1>1
<1> QED BY <1>2, <1>8, <1>9 DEF TextInv

LEMMA Refused == ASSUME TextInv, NEW e, Refuse(e) PROVE TextInv'
<1>1. phase' = "refused" /\ doc' = doc /\ pos' = pos /\ known' = known /\ m' = m BY DEF Refuse
<1>2. Progress' BY <1>1 DEF Progress
<1>3. IsText(doc)' BY <1>1 DEF TextInv
<1> QED BY <1>1, <1>2, <1>3 DEF TextInv

LEMMA SymbolBound ==
  ASSUME TextInv, NEW kind \in {"func", "global"}, NEW name
  PROVE  Symbol(kind, name) = NoSym \/ Bound(known, Symbol(kind, name))
<1> DEFINE names == IF kind = "func" THEN known.funcs ELSE known.globals
           k == CHOOSE k \in DOMAIN names : names[k] = name
<1>1. Len(names) \in Nat /\ DOMAIN names = 1 .. Len(names) BY DEF TextInv
<1>2. CASE name \in Range(names)
  <2>1. \E h \in DOMAIN names : names[h] = name BY <1>2 DEF Range
  <2>2. k \in DOMAIN names BY <2>1
  <2>3. Symbol(kind, name) = [kind |-> kind, id |-> k - 1] BY <1>2 DEF Symbol
  <2>4. k - 1 \in 0 .. Len(names) - 1
    <3> HIDE DEF k, names
    <3> QED BY <1>1, <2>2
  <2> HIDE DEF k
  <2> QED BY <2>3, <2>4 DEF Bound
<1>3. CASE name \notin Range(names) BY <1>3 DEF Symbol
<1> QED BY <1>2, <1>3

LEMMA AggregateDeclStep == ASSUME TextInv, AggregateDecl PROVE TextInv'
<1>1. phase = "module" /\ pos <= Len(doc) /\ Line.kind = "type" BY DEF AggregateDecl, Reads
<1> DEFINE checks(d) == <<Check(Line.id <= IdCap, "id"), Check(Line.id = Count(m.aggs), "order"),
                       Check(\A t \in MemTypes(Line.agg) : t.agg <= IdCap, "id"), d.err>>
<1>2. PICK made \in {DeclareAggregate(m, Line.agg)} : Declare(Problem(checks(made)), made) BY DEF AggregateDecl
<1>5. made = DeclareAggregate(m, Line.agg) BY <1>2
<1>3. CASE Refuse(Problem(checks(made))) BY <1>3, Refused
<1>4. CASE Problem(checks(made)) = None /\ m' = made.m /\ UNCHANGED open /\ Advance("module")
  <2>1. made.err = None
    <3>1. 4 \in Nat /\ 4 \in 1 .. 4 /\ DOMAIN checks(made) = 1 .. 4 /\ checks(made)[4] = made.err OBVIOUS
    <3> HIDE DEF checks
    <3>2. \A k \in 1 .. 4 : checks(made)[k] = None BY <1>4, <3>1, NoProblem
    <3> QED BY <3>1, <3>2
  <2>2. IsAggregate(Line.agg)
    <3>1. IsText(doc) /\ pos \in 1 .. Len(doc) BY <1>1, TextIs DEF TextInv
    <3> QED BY <1>1, <3>1, LineRead DEF IsLine
  <2>3. ModuleFits(known, m') /\ m'.funcs = m.funcs /\ m'.globals = m.globals
    <3>1. ModuleFits(known, m) BY DEF TextInv
    <3> HIDE DEF checks
    <3>2. ModuleFits(known, made.m) /\ made.m.globals = m.globals /\ made.m.funcs = m.funcs
      BY <1>5, <2>1, <2>2, <3>1, AggregateDeclared
    <3> QED BY <1>4, <3>2
  <2>4. pos' = pos + 1 /\ phase' = "module" /\ doc' = doc /\ known' = known BY <1>4 DEF Advance
  <2>5. Count(m.funcs) \in Nat /\ Count(m.globals) \in Nat BY TableFacts DEF TextInv, ModuleFits
  <2> HIDE DEF checks
  <2> QED BY <1>1, <2>3, <2>4, <2>5, Moved
<1> HIDE DEF checks
<1> QED BY <1>2, <1>3, <1>4 DEF Declare

LEMMA SigDeclStep == ASSUME TextInv, SigDecl PROVE TextInv'
<1>1. phase = "module" /\ pos <= Len(doc) /\ Line.kind = "sig" BY DEF SigDecl, Reads
<1> DEFINE checks(d) == <<Check(Line.id <= IdCap, "id"), Check(Line.id = Count(m.sigs), "order"), d.err,
                       Check(SigId(d.m, Line.sig) = Line.id, "duplicate")>>
<1>2. PICK made \in {InternSignature(m, Line.sig)} : Declare(Problem(checks(made)), made) BY DEF SigDecl
<1>5. made = InternSignature(m, Line.sig) BY <1>2
<1>3. CASE Refuse(Problem(checks(made))) BY <1>3, Refused
<1>4. CASE Problem(checks(made)) = None /\ m' = made.m /\ UNCHANGED open /\ Advance("module")
  <2>1. made.err = None
    <3>1. 4 \in Nat /\ 3 \in 1 .. 4 /\ DOMAIN checks(made) = 1 .. 4 /\ checks(made)[3] = made.err OBVIOUS
    <3> HIDE DEF checks
    <3>2. \A k \in 1 .. 4 : checks(made)[k] = None BY <1>4, <3>1, NoProblem
    <3> QED BY <3>1, <3>2
  <2>2. ModuleFits(known, m') /\ m'.funcs = m.funcs /\ m'.globals = m.globals
    <3>1. ModuleFits(known, m) BY DEF TextInv
    <3> HIDE DEF checks
    <3>2. ModuleFits(known, made.m) /\ made.m.globals = m.globals /\ made.m.funcs = m.funcs
      BY <1>5, <2>1, <3>1, SignatureInterned
    <3> QED BY <1>4, <3>2
  <2>3. pos' = pos + 1 /\ phase' = "module" /\ doc' = doc /\ known' = known BY <1>4 DEF Advance
  <2>4. Count(m.funcs) \in Nat /\ Count(m.globals) \in Nat BY TableFacts DEF TextInv, ModuleFits
  <2> HIDE DEF checks
  <2> QED BY <1>1, <2>2, <2>3, <2>4, Moved
<1> HIDE DEF checks
<1> QED BY <1>2, <1>3, <1>4 DEF Declare

LEMMA GlobalDeclStep == ASSUME TextInv, GlobalDecl PROVE TextInv'
<1>1. phase = "module" /\ pos <= Len(doc) /\ Line.kind = "global" BY DEF GlobalDecl, Reads
<1> DEFINE named == [k \in DOMAIN Line.decl.relocs |-> Target(Line.decl.relocs[k].name)]
           global == [Line.decl EXCEPT !.relocs = [k \in DOMAIN @ |->
                         [offset |-> @[k].offset, target |-> named[k]]]]
           checks(d) == <<Check(NoSym \notin Range(named), "unknown symbol"), d.err>>
<1>2. PICK made \in {DeclareGlobal(m, global)} : Declare(Problem(checks(made)), made) BY DEF GlobalDecl
<1>5. made = DeclareGlobal(m, global) BY <1>2
<1>3. CASE Refuse(Problem(checks(made))) BY <1>3, Refused
<1>4. CASE Problem(checks(made)) = None /\ m' = made.m /\ UNCHANGED open /\ Advance("module")
  <2>1. made.err = None /\ NoSym \notin Range(named)
    <3>1. 2 \in Nat /\ 1 \in 1 .. 2 /\ 2 \in 1 .. 2 /\ DOMAIN checks(made) = 1 .. 2 /\ checks(made)[2] = made.err
          /\ checks(made)[1] = Check(NoSym \notin Range(named), "unknown symbol")
      OBVIOUS
    <3> HIDE DEF checks, named
    <3>2. \A k \in 1 .. 2 : checks(made)[k] = None BY <1>4, <3>1, NoProblem
    <3>3. checks(made)[1] = None /\ checks(made)[2] = None BY <3>1, <3>2
    <3> QED BY <3>1, <3>3 DEF Check, None
  <2>2. IsGlobal(Line.decl)
    <3>1. IsText(doc) /\ pos \in 1 .. Len(doc) BY <1>1, TextIs DEF TextInv
    <3> QED BY <1>1, <3>1, LineRead DEF IsLine
  <2>3. \A name : Target(name) = NoSym \/ Bound(known, Target(name)) BY SymbolBound DEF Target
  <2>4. \A k \in DOMAIN Line.decl.relocs : Bound(known, named[k])
    <3> SUFFICES ASSUME NEW k \in DOMAIN Line.decl.relocs PROVE Bound(known, named[k]) OBVIOUS
    <3>1. named[k] \in Range(named) BY DEF Range
    <3>2. named[k] = Target(Line.decl.relocs[k].name) OBVIOUS
    <3> HIDE DEF named
    <3> QED BY <2>1, <2>3, <3>1, <3>2
  <2> HIDE DEF named
  <2>5. IsGlobal(global) BY <2>2 DEF IsGlobal
  <2>6. global.relocs = [k \in DOMAIN Line.decl.relocs |->
                           [offset |-> Line.decl.relocs[k].offset, target |-> named[k]]]
    BY <2>2 DEF IsGlobal
  <2>7. \A r \in Range(global.relocs) : Bound(known, r.target)
    <3> HIDE DEF global
    <3> QED BY <2>4, <2>6 DEF Range
  <2> HIDE DEF global
  <2>8. ModuleFits(known, m') /\ m'.funcs = m.funcs /\ Count(m'.globals) = Count(m.globals) + 1
    <3>1. ModuleFits(known, m) BY DEF TextInv
    <3> HIDE DEF checks
    <3>2. /\ made.m.funcs = m.funcs /\ ModuleFits(known, made.m)
          /\ Count(made.m.globals) = Count(m.globals) + 1
      BY <1>5, <2>1, <2>5, <2>7, <3>1, GlobalDeclared
    <3> QED BY <1>4, <3>2
  <2>9. pos' = pos + 1 /\ phase' = "module" /\ doc' = doc /\ known' = known BY <1>4 DEF Advance
  <2>10. Count(m.funcs) \in Nat /\ Count(m.globals) \in Nat BY TableFacts DEF TextInv, ModuleFits
  <2> HIDE DEF checks
  <2> QED BY <1>1, <2>8, <2>9, <2>10, Moved
<1> HIDE DEF checks
<1> QED BY <1>2, <1>3, <1>4 DEF Declare

\* A body just opened.
LEMMA NewOpen ==
  ASSUME NEW kn, NEW fn, NEW z, z = [NotOpen EXCEPT !.func = fn]
  PROVE  OpenFits(kn, z) /\ z.func = fn
<1>1. /\ DOMAIN z = {"func", "f", "values", "blocks", "valueRefs", "blockRefs", "first", "current"}
      /\ z.func = fn /\ z.f = EmptyFunction /\ z.values = {} /\ z.blocks = {}
  BY DEF NotOpen
<1>2. DOMAIN Empty = {} BY DEF Empty
<1>3. /\ DOMAIN EmptyFunction = {"slots", "values", "blocks", "insts", "entry"}
      /\ EmptyFunction.slots = 0 /\ EmptyFunction.values = Empty /\ EmptyFunction.blocks = Empty
      /\ EmptyFunction.insts = Empty
  BY DEF EmptyFunction
<1>4. BodyShape(EmptyFunction) BY <1>2, <1>3, EmptyTable DEF BodyShape
<1>5. LiveBlocks(EmptyFunction) = {} BY <1>2, <1>3 DEF LiveBlocks
<1> QED BY <1>1, <1>2, <1>3, <1>4, <1>5 DEF OpenFits

LEMMA FuncDeclStep == ASSUME TextInv, FuncDecl PROVE TextInv'
<1>1. phase = "module" /\ pos <= Len(doc) /\ Line.kind = "func" BY DEF FuncDecl, Reads
<1> DEFINE sig == IF Line.id \in DOMAIN m.sigs THEN m.sigs[Line.id] ELSE None
           checks(d) == <<Check(Line.id <= IdCap, "id"),
                          Check(Line.id \in DOMAIN m.sigs, "undefined"), d.err>>
           opened == [NotOpen EXCEPT !.func = Count(m.funcs)]
           next == IF Line.body THEN "slots" ELSE "module"
<1>2. PICK made \in {DeclareFunction(m, Line.name, sig, Line.linkage)} :
        \/ Refuse(Problem(checks(made)))
        \/ /\ Problem(checks(made)) = None
           /\ m' = made.m
           /\ open' = IF Line.body THEN opened ELSE open
           /\ Advance(next)
  BY DEF FuncDecl
<1>3. made = DeclareFunction(m, Line.name, sig, Line.linkage) BY <1>2
<1>4. CASE Refuse(Problem(checks(made))) BY <1>4, Refused
<1>5. CASE /\ Problem(checks(made)) = None
           /\ m' = made.m
           /\ open' = IF Line.body THEN opened ELSE open
           /\ Advance(next)
  <2>1. made.err = None
    <3>1. 3 \in Nat /\ 3 \in 1 .. 3 /\ DOMAIN checks(made) = 1 .. 3 /\ checks(made)[3] = made.err OBVIOUS
    <3> HIDE DEF checks
    <3>2. \A k \in 1 .. 3 : checks(made)[k] = None BY <1>5, <3>1, NoProblem
    <3> QED BY <3>1, <3>2
  <2> HIDE DEF checks, sig
  <2>2. /\ ModuleFits(known, m') /\ m'.globals = m.globals
        /\ Count(m'.funcs) = Count(m.funcs) + 1 /\ Count(m.funcs) \in DOMAIN m'.funcs
    <3>1. ModuleFits(known, m) BY DEF TextInv
    <3>2. /\ ModuleFits(known, made.m) /\ made.m.globals = m.globals
          /\ Count(made.m.funcs) = Count(m.funcs) + 1 /\ Count(m.funcs) \in DOMAIN made.m.funcs
      BY <1>3, <2>1, <3>1, FunctionDeclared
    <3> QED BY <1>5, <3>2
  <2>3. Line.body \in BOOLEAN
    <3>1. IsText(doc) /\ pos \in 1 .. Len(doc) BY <1>1, TextIs DEF TextInv
    <3> QED BY <1>1, <3>1, LineRead DEF IsLine
  <2>4. pos' = pos + 1 /\ phase' = next /\ doc' = doc /\ known' = known BY <1>5 DEF Advance
  <2>5. OpenFits(known, opened) /\ opened.func = Count(m.funcs) BY NewOpen
  <2>6. Count(m.globals) \in Nat BY TableFacts DEF TextInv, ModuleFits
  <2> HIDE DEF opened
  <2>7. Line.body => open' = opened BY <1>5
  <2> QED BY <1>1, <2>2, <2>3, <2>4, <2>5, <2>6, <2>7, Moved
<1> HIDE DEF checks, sig, opened, next
<1> QED BY <1>2, <1>4, <1>5

LEMMA SlotFits ==
  ASSUME NEW kn, NEW o, OpenFits(kn, o), NEW z, z = [o EXCEPT !.f.slots = @ + 1]
  PROVE  OpenFits(kn, z) /\ z.func = o.func
<1> DEFINE g == [o.f EXCEPT !.slots = @ + 1]
<1>1. /\ DOMAIN o = {"func", "f", "values", "blocks", "valueRefs", "blockRefs", "first", "current"}
      /\ BodyShape(o.f)
  BY DEF OpenFits
<1>2. /\ DOMAIN z = DOMAIN o /\ z.f = g /\ z.func = o.func /\ z.values = o.values /\ z.blocks = o.blocks
      /\ z.valueRefs = o.valueRefs /\ z.blockRefs = o.blockRefs
  BY <1>1
<1>3. /\ DOMAIN g = {"slots", "values", "blocks", "insts", "entry"} /\ g.slots \in Nat
      /\ g.values = o.f.values /\ g.blocks = o.f.blocks /\ g.insts = o.f.insts
  BY <1>1 DEF BodyShape
<1> HIDE DEF g
<1>4. BodyShape(g) BY <1>1, <1>3 DEF BodyShape
<1>5. LiveBlocks(g) = LiveBlocks(o.f) BY <1>3 DEF LiveBlocks
<1>6. \A v \in z.values : v \in DOMAIN z.f.values /\ DefinedBy(z, v)
  BY <1>2, <1>3 DEF OpenFits, DefinedBy
<1>7. \A i \in DOMAIN z.f.insts : OpFits(kn, z, z.f.insts[i].data)
  BY <1>2, <1>3 DEF OpenFits, OpFits
<1>8. \A b \in z.blocks : z.f.blocks[b].term # <<>> => TermFits(kn, z, z.f.blocks[b].term[1])
  BY <1>2, <1>3 DEF OpenFits, TermFits, OpFits
<1> QED BY <1>1, <1>2, <1>4, <1>5, <1>6, <1>7, <1>8 DEF OpenFits

\* A step inside a body.
LEMMA MovedInside ==
  ASSUME TextInv, phase \in {"slots", "blocks"}, pos <= Len(doc),
         Line.kind \in {"slot", "block", "inst", "term"},
         NEW ph \in {"slots", "blocks"}, Advance(ph), m' = m,
         OpenFits(known, open'), open'.func = open.func,
         ph = "blocks" => open'.current \in open'.blocks
  PROVE  TextInv'
<1>1. pos' = pos + 1 /\ phase' = ph /\ doc' = doc /\ known' = known BY DEF Advance
<1>2. ModuleFits(known, m') /\ open'.func \in DOMAIN m'.funcs BY DEF TextInv
<1>3. Count(m.funcs) \in Nat /\ Count(m.globals) \in Nat BY TableFacts DEF TextInv, ModuleFits
<1>4. /\ Count(m'.funcs) = Count(m.funcs) + (IF Line.kind = "func" THEN 1 ELSE 0)
      /\ Count(m'.globals) = Count(m.globals) + (IF Line.kind = "global" THEN 1 ELSE 0)
  BY <1>3
<1>5. IF Line.kind = "func" THEN phase' # "module" <=> Line.body
      ELSE IF Line.kind = "close" THEN phase # "module" /\ phase' = "module"
      ELSE phase' = "module" <=> phase = "module"
  BY <1>1
<1> QED BY <1>1, <1>2, <1>4, <1>5, Moved

LEMMA SlotDeclStep == ASSUME TextInv, SlotDecl PROVE TextInv'
<1>1. phase = "slots" /\ pos <= Len(doc) /\ Line.kind = "slot" BY DEF SlotDecl, Reads
<1> DEFINE e == Problem(<<Check(Line.id <= IdCap, "id"), Check(Line.id = open.f.slots, "order")>>)
<1>2. Refuse(e) \/ (open' = [open EXCEPT !.f.slots = @ + 1] /\ UNCHANGED m /\ Advance("slots"))
  BY DEF SlotDecl
<1>3. CASE Refuse(e) BY <1>3, Refused
<1>4. CASE open' = [open EXCEPT !.f.slots = @ + 1] /\ UNCHANGED m /\ Advance("slots")
  <2>1. OpenFits(known, open) BY <1>1 DEF TextInv
  <2>2. OpenFits(known, open') /\ open'.func = open.func BY <1>4, <2>1, SlotFits
  <2> QED BY <1>1, <1>4, <2>2, MovedInside
<1> QED BY <1>2, <1>3, <1>4

LEMMA LineFits == ASSUME TextInv, pos <= Len(doc) PROVE IsLine(Line)
<1>1. IsText(doc) /\ pos \in 1 .. Len(doc) BY TextIs DEF TextInv
<1> QED BY <1>1, LineRead

LEMMA BlockHeaderStep == ASSUME TextInv, BlockHeader PROVE TextInv'
<1>1. phase \in {"slots", "blocks"} /\ pos <= Len(doc) /\ Line.kind = "block" BY DEF BlockHeader, Reads
<1> DEFINE b == Line.id
           params == Line.params
           defs == [k \in DOMAIN params |-> ParamOf(b, k - 1)]
           first == IF open.first = NoId THEN b ELSE open.first
           checks == <<Check(b <= IdCap, "id"), Check(b \notin open.blocks, "duplicate"),
                       Check(WithinCap(Range(Ids(Line.params))), "id"),
                       Check(Fresh(open, Line.params), "duplicate")>>
           headed == [open EXCEPT
                        !.f.blocks = Extended(@, [n \in {b} |->
                           [BlankBlock EXCEPT !.live = TRUE, !.params = Ids(params)]], BlankBlock),
                        !.blocks = @ \cup {b}, !.first = first, !.current = b]
           z == DefineValues(headed, params, defs)
<1>2. \/ Refuse(Problem(checks))
      \/ Problem(checks) = None /\ open' = z /\ UNCHANGED m /\ Advance("blocks")
  BY DEF BlockHeader
<1>3. CASE Refuse(Problem(checks)) BY <1>3, Refused
<1>4. CASE Problem(checks) = None /\ open' = z /\ UNCHANGED m /\ Advance("blocks")
  <2>1. b \notin open.blocks
    <3>1. 4 \in Nat /\ 2 \in 1 .. 4 /\ DOMAIN checks = 1 .. 4
          /\ checks[2] = Check(b \notin open.blocks, "duplicate")
      OBVIOUS
    <3> HIDE DEF checks, b
    <3>2. \A k \in 1 .. 4 : checks[k] = None BY <1>4, <3>1, NoProblem
    <3>3. checks[2] = None BY <3>1, <3>2
    <3> QED BY <3>1, <3>3 DEF Check, None
  <2>2. b \in Nat /\ IsDefs(params) BY <1>1, LineFits DEF IsLine
  <2>3. OpenFits(known, open) BY <1>1 DEF TextInv
  <2>4. OpenFits(known, z) /\ z.func = open.func /\ z.current \in z.blocks
    <3> HIDE DEF b, params, defs, first, checks
    <3> QED BY <2>1, <2>2, <2>3, HeaderFits
  <2> HIDE DEF z, checks
  <2> QED BY <1>1, <1>4, <2>4, MovedInside
<1> HIDE DEF checks, z
<1> QED BY <1>2, <1>3, <1>4

LEMMA ReadOpFits ==
  ASSUME TextInv, NEW text, NEW result, NEW inCheck
  PROVE  LET d == ReadOp(text, result, inCheck)
         IN  /\ Range(d.vals) \cup Range(d.gc) \subseteq Named(text)
             /\ d.sym = NoSym \/ Bound(known, d.sym)
<1> DEFINE d == ReadOp(text, result, inCheck)
<1>1. /\ d.vals = text.vals /\ d.gc = text.gc
      /\ d.sym = IF NamesSymbol(text.op) THEN Symbol(SymbolKind(text.op), text.name) ELSE NoSym
  BY DEF ReadOp
<1>2. SymbolKind(text.op) \in {"func", "global"} BY DEF SymbolKind
<1>3. Symbol(SymbolKind(text.op), text.name) = NoSym \/ Bound(known, Symbol(SymbolKind(text.op), text.name))
  BY <1>2, SymbolBound
<1> HIDE DEF d
<1>4. (Range(d.vals) \cup Range(d.gc) \subseteq Named(text)) /\ (d.sym = NoSym \/ Bound(known, d.sym))
  BY <1>1, <1>3 DEF Named
<1> QED BY <1>4 DEF d

LEMMA InstructionStep == ASSUME TextInv, Instruction PROVE TextInv'
<1>1. phase = "blocks" /\ pos <= Len(doc) /\ Line.kind = "inst" BY DEF Instruction, Reads
<1> DEFINE written == Line.results
           result == IF written = <<>> THEN NoType ELSE written[1].ty
           i == Count(open.f.insts)
           data == ReadOp(Line.text, result, FALSE)
           refs == Named(Line.text)
           defs == [k \in DOMAIN written |-> ResultOf(i, k - 1)]
           e == Problem(<<Check(~Terminated, "after the terminator"),
                          Check(WithinCap(Range(Ids(written))), "id"),
                          Check(Consecutive(Ids(written)), "not consecutive"),
                          OpProblem(Line.text, result, FALSE),
                          Check(HasRoom(open.f.insts), "id"),
                          Check(Fresh(open, written), "duplicate")>>)
           made == [open EXCEPT
                      !.f.insts = Push(@, [data |-> data, results |-> Ids(written)]),
                      !.f.blocks[open.current].insts = Append(@, Count(open.f.insts)),
                      !.valueRefs = @ \cup refs]
           z == DefineValues(made, written, defs)
<1>2. Refuse(e) \/ (open' = z /\ UNCHANGED m /\ Advance("blocks")) BY DEF Instruction
<1> HIDE DEF e
<1>3. CASE Refuse(e) BY <1>3, Refused
<1>4. CASE open' = z /\ UNCHANGED m /\ Advance("blocks")
  <2>1. IsDefs(written) BY <1>1, LineFits DEF IsLine
  <2>2. OpenFits(known, open) /\ open.current \in open.blocks BY <1>1 DEF TextInv
  <2>3. (Range(data.vals) \cup Range(data.gc) \subseteq refs) /\ (data.sym = NoSym \/ Bound(known, data.sym))
    BY ReadOpFits
  <2>4. OpenFits(known, z) /\ z.func = open.func /\ z.current \in z.blocks
    <3> HIDE DEF written, data, refs, defs
    <3> QED BY <2>1, <2>2, <2>3, InstructionFits
  <2> HIDE DEF z
  <2> QED BY <1>1, <1>4, <2>4, MovedInside
<1> HIDE DEF z
<1> QED BY <1>2, <1>3, <1>4

LEMMA TerminatorStep == ASSUME TextInv, Terminator PROVE TextInv'
<1>1. phase = "blocks" /\ pos <= Len(doc) /\ Line.kind = "term" BY DEF Terminator, Reads
<1> DEFINE inCheck == Line.op = "check"
           e == Problem(<<Check(~Terminated, "after the terminator"),
                          OpProblem(Line.text, NoType, inCheck),
                          Check(WithinCap(EdgeRefs(Line.edges) \cup ArgRefs(Line.edges)), "id")>>)
           data == ReadOp(Line.text, NoType, inCheck)
           t == [op |-> Line.op, data |-> data, edges |-> Line.edges]
           refs == Named(Line.text) \cup ArgRefs(Line.edges)
           dests == EdgeRefs(Line.edges)
           z == [open EXCEPT !.f.blocks[open.current].term = <<t>>,
                             !.valueRefs = (@ \cup Named(Line.text)) \cup ArgRefs(Line.edges),
                             !.blockRefs = @ \cup dests]
<1>2. Refuse(e) \/ (open' = z /\ UNCHANGED m /\ Advance("blocks")) BY DEF Terminator
<1> HIDE DEF e
<1>3. CASE Refuse(e) BY <1>3, Refused
<1>4. CASE open' = z /\ UNCHANGED m /\ Advance("blocks")
  <2>1. OpenFits(known, open) /\ open.current \in open.blocks BY <1>1 DEF TextInv
  <2>2. /\ Range(data.vals) \cup Range(data.gc) \subseteq Named(Line.text)
        /\ data.sym = NoSym \/ Bound(known, data.sym)
    BY ReadOpFits
  <2>3. t.data = data /\ t.edges = Line.edges OBVIOUS
  <2> HIDE DEF data
  <2>4. /\ Range(t.data.vals) \cup Range(t.data.gc) \subseteq refs
        /\ t.data.sym = NoSym \/ Bound(known, t.data.sym)
        /\ ArgRefs(t.edges) \subseteq refs /\ EdgeRefs(t.edges) \subseteq dests
    <3> HIDE DEF t
    <3> QED BY <2>2, <2>3
  <2>5. z = Ended(open, t, refs, dests)
    <3>1. (open.valueRefs \cup Named(Line.text)) \cup ArgRefs(Line.edges) = open.valueRefs \cup refs
      OBVIOUS
    <3> HIDE DEF t, refs, dests
    <3> QED BY <3>1 DEF Ended
  <2> HIDE DEF t, refs, dests, z
  <2>6. OpenFits(known, z) /\ z.func = open.func /\ z.current \in z.blocks
    BY <2>1, <2>4, <2>5, TerminatorFits
  <2> QED BY <1>1, <1>4, <2>6, MovedInside
<1> HIDE DEF z
<1> QED BY <1>2, <1>3, <1>4

LEMMA FinishBodyStep == ASSUME TextInv, FinishBody PROVE TextInv'
<1>1. phase \in {"slots", "blocks"} /\ pos <= Len(doc) /\ Line.kind = "close" BY DEF FinishBody, Reads
<1> DEFINE checks == <<Check(open.valueRefs \subseteq open.values, "undefined"),
                       Check(open.blockRefs \subseteq open.blocks, "undefined")>>
           entry == IF open.first = NoId THEN 0 ELSE open.first
           f == [open.f EXCEPT !.entry = entry]
<1>2. \/ Refuse(Problem(checks))
      \/ Problem(checks) = None /\ m' = SetBody(m, open.func, f) /\ Advance("module")
  BY DEF FinishBody
<1>3. CASE Refuse(Problem(checks)) BY <1>3, Refused
<1>4. CASE Problem(checks) = None /\ m' = SetBody(m, open.func, f) /\ Advance("module")
  <2>1. open.valueRefs \subseteq open.values /\ open.blockRefs \subseteq open.blocks
    <3>1. /\ 2 \in Nat /\ 1 \in 1 .. 2 /\ 2 \in 1 .. 2 /\ DOMAIN checks = 1 .. 2
          /\ checks[1] = Check(open.valueRefs \subseteq open.values, "undefined")
          /\ checks[2] = Check(open.blockRefs \subseteq open.blocks, "undefined")
      OBVIOUS
    <3> HIDE DEF checks
    <3>2. \A k \in 1 .. 2 : checks[k] = None BY <1>4, <3>1, NoProblem
    <3>3. checks[1] = None /\ checks[2] = None BY <3>1, <3>2
    <3> QED BY <3>1, <3>3 DEF Check, None
  <2>2. ModuleFits(known, m) /\ OpenFits(known, open) /\ open.func \in DOMAIN m.funcs
    BY <1>1 DEF TextInv
  <2>3. BodyShape(f) /\ BodyResolves(known, f)
    <3> HIDE DEF entry
    <3> QED BY <2>1, <2>2, BodyEnds
  <2> HIDE DEF f, checks
  <2>4. ModuleFits(known, m') /\ m'.globals = m.globals /\ DOMAIN m'.funcs = DOMAIN m.funcs
    BY <1>4, <2>2, <2>3, BodySet
  <2>5. Count(m'.funcs) = Count(m.funcs) BY <2>4 DEF Count
  <2>6. pos' = pos + 1 /\ phase' = "module" /\ doc' = doc /\ known' = known BY <1>4 DEF Advance
  <2>7. Count(m.funcs) \in Nat /\ Count(m.globals) \in Nat BY <2>2, TableFacts DEF ModuleFits
  <2> QED BY <1>1, <2>4, <2>5, <2>6, <2>7, Moved
<1> HIDE DEF checks, f
<1> QED BY <1>2, <1>3, <1>4

LEMMA NewModuleFits == ASSUME NEW kn PROVE ModuleFits(kn, NewModule)
<1>1. DOMAIN Empty = {} BY DEF Empty
<1>2. /\ DOMAIN NewModule = {"sigs", "aggs", "globals", "funcs"}
      /\ NewModule.sigs = Empty /\ NewModule.aggs = Empty
      /\ NewModule.globals = Empty /\ NewModule.funcs = Empty
  BY DEF NewModule
<1>3. NamesApart(NewModule) BY <1>1, <1>2 DEF NamesApart
<1> QED BY <1>1, <1>2, <1>3, EmptyTable DEF ModuleFits, AggsFit

\* The names prescan finds, as many as there are declarations outside the bodies.
LEMMA NamesFound ==
  ASSUME IsText(doc)
  PROVE  /\ Len(FuncNames) = Cardinality(FuncLines) /\ Len(FuncNames) \in Nat
         /\ DOMAIN FuncNames = 1 .. Len(FuncNames)
         /\ Len(GlobalNames) = Cardinality(GlobalLines) /\ Len(GlobalNames) \in Nat
         /\ DOMAIN GlobalNames = 1 .. Len(GlobalNames)
<1>1. Len(doc) \in Nat /\ DOMAIN doc = 1 .. Len(doc) BY TextIs
<1>2. ASSUME NEW K \in SUBSET DOMAIN doc, NEW w, DOMAIN w = DOMAIN Sorted(K), w = [k \in DOMAIN w |-> w[k]]
      PROVE  Len(w) = Cardinality(K) /\ Len(w) \in Nat /\ DOMAIN w = 1 .. Len(w)
  <2>1. Len(doc) + 1 \in Nat /\ K \in SUBSET (0 .. (Len(doc) + 1) - 1) BY <1>1
  <2>2. Cardinality(K) \in Nat /\ DOMAIN Sorted(K) = 1 .. Cardinality(K) BY <2>1, MembersInOrder
  <2>3. w \in [1 .. Cardinality(K) -> Range(w)] BY <1>2, <2>2 DEF Range
  <2> QED BY <2>2, <2>3, FunctionSeq
<1>3. Outside("func") = Sorted(FuncLines) /\ FuncLines \in SUBSET DOMAIN doc BY DEF Outside, FuncLines
<1>4. Outside("global") = Sorted(GlobalLines) /\ GlobalLines \in SUBSET DOMAIN doc
  BY DEF Outside, GlobalLines
<1>5. DOMAIN FuncNames = DOMAIN Outside("func") /\ FuncNames = [k \in DOMAIN FuncNames |-> FuncNames[k]]
  BY DEF FuncNames
<1>6. /\ DOMAIN GlobalNames = DOMAIN Outside("global")
      /\ GlobalNames = [k \in DOMAIN GlobalNames |-> GlobalNames[k]]
  BY DEF GlobalNames
<1>7. Len(FuncNames) = Cardinality(FuncLines) /\ Len(FuncNames) \in Nat /\ DOMAIN FuncNames = 1 .. Len(FuncNames)
  BY <1>2, <1>3, <1>5
<1>8. /\ Len(GlobalNames) = Cardinality(GlobalLines) /\ Len(GlobalNames) \in Nat
      /\ DOMAIN GlobalNames = 1 .. Len(GlobalNames)
  BY <1>2, <1>4, <1>6
<1> QED BY <1>7, <1>8

LEMMA ScanStep == ASSUME TextInv, Scan PROVE TextInv'
<1> DEFINE e == Problem(<<Check(Len(doc) <= MaxLines, "input too large"),
                          Check(\A k \in DOMAIN doc : doc[k].kind # "junk", "syntax"),
                          Check(IsInjective(FuncNames \o GlobalNames), "duplicate name")>>)
<1>1. phase = "scan" BY DEF Scan
<1>2. \/ Refuse(e)
      \/ /\ known' = [funcs |-> FuncNames, globals |-> GlobalNames]
         /\ phase' = "module"
         /\ UNCHANGED <<doc, pos, err, m, open, from>>
  BY DEF Scan
<1> HIDE DEF e
<1>3. CASE Refuse(e) BY <1>3, Refused
<1>4. CASE /\ known' = [funcs |-> FuncNames, globals |-> GlobalNames]
           /\ phase' = "module"
           /\ UNCHANGED <<doc, pos, err, m, open, from>>
  <2>1. IsText(doc) /\ m = NewModule /\ pos = 1 /\ pos \in 1 .. Len(doc) + 1 BY <1>1 DEF TextInv
  <2>2. /\ DOMAIN known' = {"funcs", "globals"} /\ known'.funcs = FuncNames /\ known'.globals = GlobalNames
        /\ doc' = doc /\ pos' = pos /\ m' = m
    BY <1>4
  <2>3. /\ Len(known'.funcs) \in Nat /\ DOMAIN known'.funcs = 1 .. Len(known'.funcs)
        /\ Len(known'.globals) \in Nat /\ DOMAIN known'.globals = 1 .. Len(known'.globals)
    BY <2>1, <2>2, NamesFound
  <2>4. ModuleFits(known', m') BY <2>1, <2>2, NewModuleFits
  <2>5. Depths' = Depths /\ FuncLines' = FuncLines /\ GlobalLines' = GlobalLines BY <2>2, SameDoc
  <2>6. DepthAt(pos)' = 0
    <3>1. Depths[0] = 0 BY <2>1, TextIs, DepthsFacts
    <3>2. DepthAt(pos)' = Depths[pos - 1] BY <2>2, <2>5 DEF DepthAt
    <3>3. pos - 1 = 0 BY <2>1
    <3> QED BY <3>1, <3>2, <3>3
  <2>7. Rank(FuncLines, pos - 1) = 0 /\ Rank(GlobalLines, pos - 1) = 0
    <3>1. Len(doc) \in Nat /\ FuncLines \in SUBSET (1 .. Len(doc)) /\ GlobalLines \in SUBSET (1 .. Len(doc))
      BY <2>1, TextIs DEF FuncLines, GlobalLines
    <3>2. Rank(FuncLines, 0) = 0 /\ Rank(GlobalLines, 0) = 0 BY <3>1, RankFacts
    <3>3. pos - 1 = 0 BY <2>1
    <3> QED BY <3>2, <3>3
  <2>8. Count(m.funcs) = 0 /\ Count(m.globals) = 0 BY <2>1, EmptyTable DEF NewModule
  <2>9. Progress'
    <3>1. Len(known'.funcs) = Cardinality(FuncLines') /\ Len(known'.globals) = Cardinality(GlobalLines')
      BY <2>1, <2>2, <2>5, NamesFound
    <3>2. Count(m'.funcs) = Rank(FuncLines', pos' - 1) /\ Count(m'.globals) = Rank(GlobalLines', pos' - 1)
      BY <2>2, <2>5, <2>7, <2>8
    <3> QED BY <1>4, <2>6, <3>1, <3>2 DEF Progress
  <2>10. IsText(doc)' BY <2>1, <2>2
  <2> QED BY <1>4, <2>1, <2>2, <2>3, <2>4, <2>9, <2>10 DEF TextInv
<1> QED BY <1>2, <1>3, <1>4

LEMMA AcceptStep == ASSUME TextInv, Accept PROVE TextInv'
<1>1. phase = "module" /\ pos > Len(doc) /\ phase' = "accepted"
      /\ doc' = doc /\ pos' = pos /\ known' = known /\ m' = m
  BY DEF Accept
<1>2. IsText(doc) /\ pos \in 1 .. Len(doc) + 1 BY DEF TextInv
<1>3. Len(doc) \in Nat /\ DOMAIN doc = 1 .. Len(doc) BY <1>2, TextIs
<1>4. pos - 1 = Len(doc) BY <1>1, <1>2, <1>3
<1>5. FuncLines \in SUBSET (1 .. Len(doc)) /\ GlobalLines \in SUBSET (1 .. Len(doc))
  BY <1>3 DEF FuncLines, GlobalLines
<1>6. Rank(FuncLines, Len(doc)) = Cardinality(FuncLines) /\ Rank(GlobalLines, Len(doc)) = Cardinality(GlobalLines)
  BY <1>3, <1>5, RankFacts
<1>7. Count(m.funcs) = Len(known.funcs) /\ Count(m.globals) = Len(known.globals)
  BY <1>1, <1>4, <1>6 DEF TextInv, Progress
<1>8. Progress' BY <1>1, <1>7 DEF Progress
<1>9. IsText(doc)' BY <1>1, <1>2
<1> QED BY <1>1, <1>8, <1>9 DEF TextInv

\* A text, and nothing read of it.
Unread ==
    /\ IsText(doc) /\ pos = 1 /\ phase = "scan" /\ m = NewModule
    /\ known = [funcs |-> <<>>, globals |-> <<>>]

LEMMA NothingRead == Unread => TextInv
<1> SUFFICES ASSUME Unread PROVE TextInv OBVIOUS
<1> USE DEF Unread
<1>1. pos \in 1 .. Len(doc) + 1
  <2>1. Len(doc) \in Nat BY TextIs
  <2> QED BY <2>1
<1>2. /\ DOMAIN known = {"funcs", "globals"} /\ known.funcs = <<>> /\ known.globals = <<>> OBVIOUS
<1>3. Len(<<>>) = 0 /\ DOMAIN <<>> = 1 .. 0 BY EmptySeq, LenProperties
<1>4. ModuleFits(known, m) BY NewModuleFits
<1>5. Progress BY DEF Progress
<1> QED BY <1>1, <1>2, <1>3, <1>4, <1>5 DEF TextInv

LEMMA ReprintStep == ASSUME TextInv, Reprint PROVE TextInv'
<1>1. doc' = Printed(m) /\ pos' = 1 /\ phase' = "scan" /\ m' = NewModule
      /\ known' = [funcs |-> <<>>, globals |-> <<>>]
  BY DEF Reprint
<1>2. IsText(Printed(m)) BY PrintedText DEF TextInv
<1>3. IsText(doc)' BY <1>1, <1>2
<1>4. Unread' BY <1>1, <1>3 DEF Unread
<1> QED BY <1>4, NothingRead, PTL

LEMMA InitStep == ASSUME Init PROVE TextInv
<1>1. PICK t \in Texts : doc = t.doc BY DEF Init
<1>2. IsText(doc) BY <1>1, TextsAssumption
<1>3. pos = 1 /\ phase = "scan" /\ m = NewModule /\ known = [funcs |-> <<>>, globals |-> <<>>] BY DEF Init
<1> QED BY <1>2, <1>3, NothingRead DEF Unread

LEMMA Stuttered == ASSUME TextInv, UNCHANGED vars PROVE TextInv'
<1>1. /\ doc' = doc /\ pos' = pos /\ phase' = phase /\ known' = known /\ m' = m /\ open' = open BY DEF vars
<1>2. Depths' = Depths /\ FuncLines' = FuncLines /\ GlobalLines' = GlobalLines BY <1>1, SameDoc
<1>3. DepthAt(pos)' = DepthAt(pos) BY <1>1, <1>2 DEF DepthAt
<1>4. Progress'
  <2>1. Progress BY DEF TextInv
  <2> QED BY <1>1, <1>2, <1>3, <2>1 DEF Progress
<1>5. IsText(doc)' BY <1>1 DEF TextInv
<1> QED BY <1>1, <1>4, <1>5 DEF TextInv

------------------------------------------------------------------------------
(***************************************************************************)
(* The theorems.                                                           *)
(***************************************************************************)

\* What holds of the reader after every line (Parser in parse.rs): the module as far as it is
\* read is one its own operations could have made, every id of the body being read is
\* remembered until its end, and prescan's handles are those the declarations get.
THEOREM TextKept == Spec => []TextInv
<1>1. Init => TextInv BY InitStep
<1>2. TextInv /\ [Next]_vars => TextInv'
  <2> SUFFICES ASSUME TextInv, [Next]_vars PROVE TextInv' OBVIOUS
  <2>1. CASE Scan BY <2>1, ScanStep
  <2>2. CASE AggregateDecl BY <2>2, AggregateDeclStep
  <2>3. CASE SigDecl BY <2>3, SigDeclStep
  <2>4. CASE GlobalDecl BY <2>4, GlobalDeclStep
  <2>5. CASE FuncDecl BY <2>5, FuncDeclStep
  <2>6. CASE SlotDecl BY <2>6, SlotDeclStep
  <2>7. CASE BlockHeader BY <2>7, BlockHeaderStep
  <2>8. CASE Instruction BY <2>8, InstructionStep
  <2>9. CASE Terminator BY <2>9, TerminatorStep
  <2>10. CASE FinishBody BY <2>10, FinishBodyStep
  <2>11. CASE Unexpected
    <3>1. Refuse("syntax") BY <2>11 DEF Unexpected
    <3> QED BY <3>1, Refused
  <2>12. CASE Accept BY <2>12, AcceptStep
  <2>13. CASE Reprint BY <2>13, ReprintStep
  <2>14. CASE UNCHANGED vars BY <2>14, Stuttered
  <2> QED
    BY <2>1, <2>2, <2>3, <2>4, <2>5, <2>6, <2>7, <2>8, <2>9, <2>10, <2>11, <2>12, <2>13, <2>14 DEF Next
<1> QED BY <1>1, <1>2, PTL DEF Spec

\* Decls::compute_layout (module.rs): the parts of every aggregate are aligned (unless it is packed),
\* in order, apart and inside it, and its size keeps an array of it aligned.
THEOREM LayoutsAreSound == Spec => []LayoutsSound
<1>1. TextInv => LayoutsSound
  <2> SUFFICES ASSUME TextInv, NEW i \in DOMAIN m.aggs PROVE LayoutSound(i) BY DEF LayoutsSound
  <2> DEFINE a == m.aggs[i]
             l == ComputeLayout(m.aggs, a.agg)
  <2>1. AggFits(m.aggs, i) BY DEF TextInv, ModuleFits, AggsFit
  <2>2. /\ l.size <= MaxAggregateSize
        /\ a = [agg |-> a.agg, offsets |-> l.offsets, layout |-> [size |-> l.size, align |-> l.align]]
        /\ SoundFor(m.aggs, a.agg, l)
    BY <2>1 DEF AggFits
  <2> HIDE DEF l
  <2>3. a.layout.size = l.size /\ a.layout.align = l.align /\ a.offsets = l.offsets BY <2>2
  <2> HIDE DEF a
  <2>4. a.layout.size <= MaxAggregateSize /\ a.layout.size % a.layout.align = 0
    BY <2>2, <2>3 DEF SoundFor, LayoutOk
  <2>5. a.agg.kind = "struct" =>
           \A k \in DOMAIN a.agg.fields :
             /\ ~a.agg.packed => a.offsets[k] % LayoutOf(m.aggs, a.agg.fields[k]).align = 0
             /\ ~a.agg.packed => a.layout.align % LayoutOf(m.aggs, a.agg.fields[k]).align = 0
             /\ a.offsets[k] + LayoutOf(m.aggs, a.agg.fields[k]).size <= a.layout.size
             /\ \A j \in 1 .. k - 1 :
                   a.offsets[j] + LayoutOf(m.aggs, a.agg.fields[j]).size <= a.offsets[k]
    BY <2>2, <2>3 DEF SoundFor
  <2> QED BY <2>4, <2>5 DEF LayoutSound, a
<1> QED BY <1>1, TextKept, PTL

\* Parser::finish_body and Parser::prescan: what is accepted defines every value it reads, has every
\* block it branches to, and declares every function and global it names, in a body or
\* in a relocation, wherever in the text the declaration stands.
THEOREM AcceptedIsResolved == Spec => []AcceptedResolves
<1>1. TextInv => AcceptedResolves
  <2> SUFFICES ASSUME TextInv, phase = "accepted"
               PROVE  /\ \A f \in Bodies(m) :
                            /\ ReadIn(f) \subseteq DefinedIn(f)
                            /\ \A e \in EdgesOf(f) : e.block \in LiveBlocks(f)
                            /\ \A d \in OpsOf(f) : d.sym.kind = "func" => d.sym.id \in DOMAIN m.funcs
                            /\ \A d \in OpsOf(f) : d.sym.kind = "global" => d.sym.id \in DOMAIN m.globals
                      /\ ValidDecls(m)
    BY DEF AcceptedResolves
  <2>1. ModuleFits(known, m) /\ Count(m.funcs) = Len(known.funcs) /\ Count(m.globals) = Len(known.globals)
    BY DEF TextInv, Progress
  <2>2. DOMAIN m.funcs = 0 .. Len(known.funcs) - 1 /\ DOMAIN m.globals = 0 .. Len(known.globals) - 1
    BY <2>1, TableFacts DEF ModuleFits
  <2>3. \A s : Bound(known, s) => IF s.kind = "func" THEN s.id \in DOMAIN m.funcs
                                  ELSE s.kind = "global" /\ s.id \in DOMAIN m.globals
    BY <2>2 DEF Bound
  <2>4. \A s : s = NoSym \/ Bound(known, s) =>
           (s.kind = "func" => s.id \in DOMAIN m.funcs) /\ (s.kind = "global" => s.id \in DOMAIN m.globals)
    <3>1. NoSym.kind # "func" /\ NoSym.kind # "global" BY DEF NoSym, None
    <3> QED BY <2>3, <3>1
  <2>5. ASSUME NEW f \in Bodies(m)
        PROVE  /\ ReadIn(f) \subseteq DefinedIn(f)
               /\ \A e \in EdgesOf(f) : e.block \in LiveBlocks(f)
               /\ \A d \in OpsOf(f) : d.sym.kind = "func" => d.sym.id \in DOMAIN m.funcs
               /\ \A d \in OpsOf(f) : d.sym.kind = "global" => d.sym.id \in DOMAIN m.globals
    <3>1. PICK i \in DOMAIN m.funcs : m.funcs[i].body # NoBody /\ f = m.funcs[i].body[1] BY DEF Bodies
    <3>2. BodyResolves(known, f) BY <2>1, <3>1 DEF ModuleFits, FunctionFits
    <3> QED BY <2>4, <3>2 DEF BodyResolves
  <2>6. ValidDecls(m)
    <3>1. /\ \A f, g \in DOMAIN m.funcs : f # g => m.funcs[f].name # m.funcs[g].name
          /\ \A f, g \in DOMAIN m.globals : f # g => m.globals[f].name # m.globals[g].name
          /\ \A f \in DOMAIN m.funcs, g \in DOMAIN m.globals : m.funcs[f].name # m.globals[g].name
      BY <2>1 DEF ModuleFits, NamesApart
    <3>2. ASSUME NEW i \in DOMAIN m.aggs
          PROVE  /\ \A t \in MemTypes(m.aggs[i].agg) : t.agg < i
                 /\ LET l == ComputeLayout(m.aggs, m.aggs[i].agg)
                    IN  /\ l.size <= MaxAggregateSize
                        /\ m.aggs[i] = [agg |-> m.aggs[i].agg, offsets |-> l.offsets,
                                        layout |-> [size |-> l.size, align |-> l.align]]
      <4>1. IsTable(m.aggs) /\ AggFits(m.aggs, i) BY <2>1 DEF ModuleFits, AggsFit
      <4>2. i \in Nat BY <4>1, TableFacts
      <4>3. \A t \in MemTypes(m.aggs[i].agg) : t.agg \in 0 .. i - 1 \cup {NoId} BY <4>1 DEF AggFits
      <4>4. \A t \in MemTypes(m.aggs[i].agg) : t.agg < i BY <4>2, <4>3 DEF NoId
      <4> QED BY <4>1, <4>4 DEF AggFits
    <3>3. ASSUME NEW i \in DOMAIN m.globals
          PROVE  /\ CheckGlobal(m.globals[i]) = None
                 /\ \A r \in Range(m.globals[i].relocs) :
                       IF r.target.kind = "func" THEN r.target.id \in DOMAIN m.funcs
                       ELSE r.target.id \in DOMAIN m.globals
      <4>1. GlobalFits(known, m.globals[i]) BY <2>1 DEF ModuleFits
      <4> QED BY <2>3, <4>1 DEF GlobalFits
    <3> QED BY <3>1, <3>2, <3>3 DEF ValidDecls
  <2> QED BY <2>5, <2>6
<1> QED BY <1>1, TextKept, PTL
=============================================================================
