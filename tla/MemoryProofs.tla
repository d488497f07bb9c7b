---------------------------- MODULE MemoryProofs ----------------------------
(***************************************************************************)
(* The two promises of the address space, for every size, alignment,       *)
(* module, host and program: areas never share a byte, and every live byte *)
(* is what the flat memory has at its address.                             *)
(*                                                                         *)
(* The invariant MemInv orders the areas (Ordered), backs them by the      *)
(* buffers (Backs), nests the frames' slots and the allocations (FramesIn, *)
(* AllocsIn), and equates both buffers with the flat memory (Mirrors),     *)
(* among it that the upper one is zero below the heap.  The recursive      *)
(* functions of the model (globals placed and filled one by one, slots,    *)
(* the rounding of an alignment) are unfolded by SetInduction, which is    *)
(* the pigeonhole principle applied to k |-> k + 1.                        *)
(***************************************************************************)
EXTENDS MemoryProps, CountingProofs

\* Rounding up and down to a multiple.
LEMMA UpFacts ==
  \A a \in Nat, align \in Nat \ {0} : Up(a, align) \in Nat /\ Up(a, align) >= a
<1> SUFFICES ASSUME NEW a \in Nat, NEW align \in Nat \ {0}
             PROVE Up(a, align) \in Nat /\ Up(a, align) >= a
  OBVIOUS
<1> DEFINE b == a + align - 1
<1>1. b \in Nat /\ b \div align \in Nat /\ b % align \in 0 .. align - 1 OBVIOUS
<1>2. b = align * (b \div align) + (b % align) OBVIOUS
<1> DEFINE q == b \div align
<1> DEFINE p == align * q
<1>3. p \in Nat /\ q * align = p  BY <1>1
<1>4. Up(a, align) = p BY <1>3 DEF Up
<1>5. b = p + (b % align) BY <1>2
<1> HIDE DEF p
<1> QED BY <1>1, <1>3, <1>4, <1>5

LEMMA DownFacts ==
  \A a \in Nat, align \in Nat \ {0} : Down(a, align) \in Nat /\ Down(a, align) <= a
<1> SUFFICES ASSUME NEW a \in Nat, NEW align \in Nat \ {0}
             PROVE Down(a, align) \in Nat /\ Down(a, align) <= a
  OBVIOUS
<1>1. a \div align \in Nat /\ a % align \in 0 .. align - 1 OBVIOUS
<1>2. a = align * (a \div align) + (a % align) OBVIOUS
<1> DEFINE p == align * (a \div align)
<1>3. p \in Nat /\ (a \div align) * align = p  BY <1>1
<1>4. Down(a, align) = p BY <1>3 DEF Down
<1>5. a = p + (a % align) BY <1>2
<1> HIDE DEF p
<1> QED BY <1>1, <1>3, <1>4, <1>5

------------------------------------------------------------------------------
(* Where with_limits puts the globals and the base of the stack. *)
GlobalCount == Len(Globals)
GlobalSize(k) == AtLeast(Globals[k].size, 1)
GlobalAlign(k) == AtLeast(Globals[k].align, 1)

LEMMA ConstantTypes ==
  /\ Size \in Nat \ {0} /\ Guard \in Nat \ {0} /\ StackAlign \in Nat \ {0}
  /\ ByteRange \in Nat \ {0} /\ MaxDepth \in Nat \ {0}
  /\ GlobalCount \in Nat /\ DOMAIN Globals = 1 .. GlobalCount
  /\ \A k \in 1 .. GlobalCount :
       /\ GlobalSize(k) \in Nat \ {0} /\ GlobalAlign(k) \in Nat \ {0}
       /\ Globals[k].init \in Seq(0 .. ByteRange - 1)
       /\ Len(Globals[k].init) = GlobalSize(k)
<1>1. Globals \in Seq([size : Nat, align : Nat, init : Seq(0 .. ByteRange - 1)])
  BY MemoryAssumption
<1>2. GlobalCount \in Nat /\ DOMAIN Globals = 1 .. GlobalCount
  BY <1>1, LenProperties DEF GlobalCount
<1>3. ASSUME NEW k \in 1 .. GlobalCount
      PROVE  /\ GlobalSize(k) \in Nat \ {0} /\ GlobalAlign(k) \in Nat \ {0}
             /\ Globals[k].init \in Seq(0 .. ByteRange - 1)
             /\ Len(Globals[k].init) = GlobalSize(k)
  <2>1. Globals[k] \in [size : Nat, align : Nat, init : Seq(0 .. ByteRange - 1)]
    BY <1>1, <1>2, ElementOfSeq DEF GlobalCount
  <2>2. Globals[k].size \in Nat /\ Globals[k].align \in Nat
        /\ Globals[k].init \in Seq(0 .. ByteRange - 1)
    BY <2>1
  <2>3. Len(Globals[k].init) = (IF Globals[k].size = 0 THEN 1 ELSE Globals[k].size)
    BY MemoryAssumption, <1>2
  <2> QED BY <2>2, <2>3 DEF GlobalSize, GlobalAlign, AtLeast
<1> QED BY <1>2, <1>3, MemoryAssumption

\* The recursion of GlobalAt defines a function.
LEMMA GlobalAtDef ==
  GlobalAt = [k \in 1 .. GlobalCount |->
                Up(IF k = 1 THEN Guard ELSE GlobalAt[k - 1] + GlobalSize(k - 1), GlobalAlign(k))]
<1> DEFINE Step(f, k) ==
             Up(IF k = 1 THEN Guard ELSE f[k - 1] + GlobalSize(k - 1), GlobalAlign(k))
           Defines(m) == \E f : f = [k \in 1 .. m |-> Step(f, k)]
           T == {m \in Nat : Defines(m)}
<1>1. 0 \in T
  <2> DEFINE f == [k \in 1 .. 0 |-> 0]
  <2>1. f = [k \in 1 .. 0 |-> Step(f, k)] OBVIOUS
  <2> QED BY <2>1
<1>2. ASSUME NEW m \in Nat, m \in T PROVE m + 1 \in T
  <2>1. PICK f : f = [k \in 1 .. m |-> Step(f, k)] BY <1>2
  <2> DEFINE g == [k \in 1 .. m + 1 |-> IF k <= m THEN f[k] ELSE Step(f, k)]
  <2>2. ASSUME NEW k \in 1 .. m + 1 PROVE g[k] = Step(g, k)
    <3>1. k # 1 => g[k - 1] = f[k - 1] OBVIOUS
    <3>2. Step(g, k) = Step(f, k) BY <3>1
    <3>3. k <= m => f[k] = Step(f, k) BY <2>1
    <3> HIDE DEF Step
    <3> QED BY <3>2, <3>3
  <2>3. g = [k \in 1 .. m + 1 |-> Step(g, k)]
    <3>1. g = [k \in 1 .. m + 1 |-> g[k]] OBVIOUS
    <3> HIDE DEF g, Step
    <3> QED BY <2>2, <3>1
  <2>4. Defines(m + 1)
    <3> HIDE DEF g, Step
    <3> QED BY <2>3
  <2> QED BY <2>4
<1>3. GlobalCount \in T
  <2> HIDE DEF T
  <2> QED BY <1>1, <1>2, SetInduction, ConstantTypes
<1>4. PICK f : f = [k \in 1 .. GlobalCount |-> Step(f, k)] BY <1>3
<1> QED BY <1>4 DEF GlobalAt, GlobalCount, GlobalSize, GlobalAlign

\* Globals follow one another above the guard.
LEMMA GlobalsLaid ==
  \A k \in 1 .. GlobalCount :
     /\ GlobalAt[k] \in Nat /\ GlobalAt[k] >= Guard
     /\ \A j \in 1 .. k - 1 : GlobalAt[j] + GlobalSize(j) <= GlobalAt[k]
<1> DEFINE Laid(k) == /\ GlobalAt[k] \in Nat /\ GlobalAt[k] >= Guard
                      /\ \A j \in 1 .. k - 1 : GlobalAt[j] + GlobalSize(j) <= GlobalAt[k]
           T == {m \in Nat : \A k \in 1 .. GlobalCount : k <= m => Laid(k)}
<1>1. 0 \in T
  BY ConstantTypes
<1>2. ASSUME NEW m \in Nat, m \in T PROVE m + 1 \in T
  <2>1. ASSUME NEW k \in 1 .. GlobalCount, k = m + 1 PROVE Laid(k)
    <3> DEFINE end == IF k = 1 THEN Guard ELSE GlobalAt[m] + GlobalSize(m)
    <3>1. k # 1 => m \in 1 .. GlobalCount /\ Laid(m)
      BY <1>2, <2>1, ConstantTypes
    <3>2. end \in Nat /\ end >= Guard
      BY SMTT(30), <3>1, ConstantTypes
    <3>3. GlobalAt[k] = Up(end, GlobalAlign(k))
      BY <2>1, GlobalAtDef, ConstantTypes
    <3>4. GlobalAt[k] \in Nat /\ GlobalAt[k] >= end
      <4> HIDE DEF end
      <4> QED BY <3>2, <3>3, UpFacts, ConstantTypes
    <3>6. k # 1 => GlobalAt[m] + GlobalSize(m) <= GlobalAt[k]
      BY <3>4
    <3>5. ASSUME NEW j \in 1 .. k - 1 PROVE GlobalAt[j] + GlobalSize(j) <= GlobalAt[k]
      <4>1. CASE j = m
        <5>1. k # 1 BY <2>1, <4>1, ConstantTypes
        <5> HIDE DEF end
        <5> QED BY <5>1, <4>1, <3>6
      <4>2. CASE j # m
        <5>1. GlobalAt[j] + GlobalSize(j) <= GlobalAt[m] BY <4>2, <3>1, <2>1
        <5>2. j \in 1 .. GlobalCount /\ GlobalAt[j] \in Nat
          BY <1>2, <2>1, <4>2, ConstantTypes
        <5>3. m \in 1 .. GlobalCount /\ GlobalAt[m] \in Nat
          BY <4>2, <3>1, <2>1
        <5>4. GlobalAt[m] <= GlobalAt[k] BY SMTT(30), <5>3, <3>4, <3>6, <4>2, <2>1, ConstantTypes
        <5>5. GlobalSize(j) \in Nat BY <5>2, ConstantTypes
        <5>6. GlobalAt[k] \in Nat BY <3>4
        <5> HIDE DEF end
        <5> QED BY <5>1, <5>2, <5>3, <5>4, <5>5, <5>6
      <4> QED BY <4>1, <4>2
    <3> QED BY <3>2, <3>4, <3>5, ConstantTypes
  <2> HIDE DEF Laid
  <2> QED BY <1>2, <2>1, ConstantTypes
<1>3. GlobalCount \in T
  <2> HIDE DEF T
  <2> QED BY <1>1, <1>2, SetInduction, ConstantTypes
<1> QED BY <1>3

\* The order of the areas: guard, globals, stack, end of the address space.
LEMMA Bases ==
  /\ GlobalsEnd \in Nat /\ StackBase \in Nat
  /\ Guard <= GlobalsEnd /\ GlobalsEnd <= StackBase /\ StackBase <= Size
  /\ \A k \in 1 .. GlobalCount : GlobalAt[k] + GlobalSize(k) <= GlobalsEnd
<1>1. CASE Globals = <<>>
  <2>1. GlobalsEnd = Guard /\ GlobalCount = 0 BY <1>1 DEF GlobalsEnd, GlobalCount
  <2> QED BY <2>1, ConstantTypes, UpFacts, FitsAssumption DEF StackBase
<1>2. CASE Globals # <<>>
  <2>1. GlobalCount \in 1 .. GlobalCount
    BY <1>2, MemoryAssumption, EmptySeq, ConstantTypes DEF GlobalCount
  <2>2. GlobalsEnd = GlobalAt[GlobalCount] + GlobalSize(GlobalCount)
    BY <1>2 DEF GlobalsEnd, GlobalCount, GlobalSize
  <2>3. GlobalsEnd \in Nat /\ Guard <= GlobalsEnd
    BY <2>1, <2>2, GlobalsLaid, ConstantTypes
  <2>4. ASSUME NEW k \in 1 .. GlobalCount PROVE GlobalAt[k] + GlobalSize(k) <= GlobalsEnd
    <3>1. CASE k = GlobalCount BY <3>1, <2>2, <2>3
    <3>2. CASE k # GlobalCount
      <4>1. GlobalAt[k] + GlobalSize(k) <= GlobalAt[GlobalCount]
        BY <3>2, <2>1, GlobalsLaid, ConstantTypes
      <4>2. /\ GlobalAt[k] \in Nat /\ GlobalAt[GlobalCount] \in Nat
            /\ GlobalSize(k) \in Nat /\ GlobalSize(GlobalCount) \in Nat
        <5>1. GlobalAt[k] \in Nat /\ GlobalAt[GlobalCount] \in Nat BY <2>1, GlobalsLaid
        <5>2. GlobalSize(k) \in Nat /\ GlobalSize(GlobalCount) \in Nat BY <2>1, ConstantTypes
        <5> QED BY <5>1, <5>2
      <4> QED BY <4>1, <4>2, <2>2
    <3> QED BY <3>1, <3>2
  <2>5. StackBase \in Nat /\ GlobalsEnd <= StackBase
    BY <2>3, UpFacts, ConstantTypes DEF StackBase
  <2> QED BY <2>3, <2>4, <2>5, FitsAssumption
<1> QED BY <1>1, <1>2

------------------------------------------------------------------------------
(* Buffers are sequences of anything: no lemma depends on what a byte is. *)
IsBuffer(b) == \E S : b \in Seq(S)

LEMMA BufferLen ==
  ASSUME NEW b, IsBuffer(b)
  PROVE  Len(b) \in Nat /\ DOMAIN b = 1 .. Len(b)
BY LenProperties DEF IsBuffer

LEMMA ZerosFacts ==
  ASSUME NEW n \in Nat
  PROVE  Zeros(n) \in Seq({0}) /\ Len(Zeros(n)) = n /\ \A k \in 1 .. n : Zeros(n)[k] = 0
<1>1. Zeros(n) \in [1 .. n -> {0}] BY DEF Zeros
<1> QED BY <1>1, FunctionSeq DEF Zeros

LEMMA ByteConcat ==
  ASSUME NEW a, NEW b, IsBuffer(a), IsBuffer(b)
  PROVE  /\ IsBuffer(a \o b)
         /\ Len(a \o b) = Len(a) + Len(b)
         /\ \A i \in 1 .. Len(a) + Len(b) :
              (a \o b)[i] = IF i <= Len(a) THEN a[i] ELSE b[i - Len(a)]
<1>1. PICK S : a \in Seq(S) BY DEF IsBuffer
<1>2. PICK R : b \in Seq(R) BY DEF IsBuffer
<1>3. a \in Seq(S \cup R) /\ b \in Seq(S \cup R) BY <1>1, <1>2, SeqMonotonic
<1>4. IsBuffer(a \o b) BY <1>3, ConcatProperties DEF IsBuffer
<1> QED BY <1>3, <1>4, ConcatProperties

LEMMA GrowLowFacts ==
  ASSUME NEW l, IsBuffer(l), Len(l) <= Size, NEW end \in 0 .. Size
  PROVE  LET g == GrowLow(l, end)
         IN  /\ IsBuffer(g) /\ Len(g) \in end .. Size /\ Len(l) <= Len(g)
             /\ \A x \in 1 .. Len(g) : g[x] = IF x <= Len(l) THEN l[x] ELSE 0
<1> DEFINE g == GrowLow(l, end)
<1>1. Len(l) \in Nat /\ Size \in Nat BY BufferLen, ConstantTypes
<1>2. CASE end <= Len(l) BY <1>1, <1>2 DEF GrowLow
<1>3. CASE ~(end <= Len(l))
  <2> DEFINE n == AtMost(AtLeast(end, 2 * Len(l)), Size) - Len(l)
  <2>1. n \in Nat /\ Len(l) + n \in end .. Size BY <1>1, <1>3 DEF AtMost, AtLeast
  <2>2. g = l \o Zeros(n) BY <1>3 DEF GrowLow
  <2> HIDE DEF n, g
  <2>3. IsBuffer(Zeros(n)) /\ Len(Zeros(n)) = n /\ \A k \in 1 .. n : Zeros(n)[k] = 0
    BY <2>1, ZerosFacts DEF IsBuffer
  <2> HIDE DEF IsBuffer
  <2>4. /\ IsBuffer(g) /\ Len(g) = Len(l) + n
        /\ \A i \in 1 .. Len(l) + n : g[i] = IF i <= Len(l) THEN l[i] ELSE Zeros(n)[i - Len(l)]
    BY <2>2, <2>3, ByteConcat
  <2>5. ASSUME NEW x \in 1 .. Len(g) PROVE g[x] = IF x <= Len(l) THEN l[x] ELSE 0
    <3>1. ~(x <= Len(l)) => x - Len(l) \in 1 .. n BY <2>4, <2>1, <1>1
    <3> QED BY <3>1, <2>4, <2>3
  <2>6. Len(g) \in end .. Size /\ Len(l) <= Len(g) BY <2>1, <2>4, <1>1
  <2> QED BY <2>4, <2>5, <2>6 DEF g
<1> QED BY <1>2, <1>3

LEMMA GrowHighFacts ==
  ASSUME NEW h, IsBuffer(h), Len(h) <= Size, NEW at \in 0 .. Size
  PROVE  LET g == GrowHigh(h, at)
         IN  /\ IsBuffer(g) /\ Len(g) \in Size - at .. Size /\ Len(h) <= Len(g)
             /\ \A x \in 1 .. Len(g) :
                  g[x] = IF x <= Len(g) - Len(h) THEN 0 ELSE h[x - (Len(g) - Len(h))]
<1> DEFINE g == GrowHigh(h, at)
<1>1. Len(h) \in Nat /\ Size \in Nat BY BufferLen, ConstantTypes
<1>2. CASE Size - at <= Len(h) BY <1>1, <1>2 DEF GrowHigh
<1>3. CASE ~(Size - at <= Len(h))
  <2> DEFINE n == AtMost(AtLeast(Size - at, 2 * Len(h)), Size) - Len(h)
  <2>1. n \in Nat /\ n + Len(h) \in Size - at .. Size BY <1>1, <1>3 DEF AtMost, AtLeast
  <2>2. g = Zeros(n) \o h BY <1>3 DEF GrowHigh
  <2> HIDE DEF n, g
  <2>3. IsBuffer(Zeros(n)) /\ Len(Zeros(n)) = n /\ \A k \in 1 .. n : Zeros(n)[k] = 0
    BY <2>1, ZerosFacts DEF IsBuffer
  <2> HIDE DEF IsBuffer
  <2>4. /\ IsBuffer(g) /\ Len(g) = n + Len(h)
        /\ \A i \in 1 .. n + Len(h) : g[i] = IF i <= n THEN Zeros(n)[i] ELSE h[i - n]
    BY ZenonT(40), <2>2, <2>3, ByteConcat
  <2>5. Len(g) - Len(h) = n BY <2>4, <2>1, <1>1
  <2>6. ASSUME NEW x \in 1 .. Len(g)
        PROVE g[x] = IF x <= Len(g) - Len(h) THEN 0 ELSE h[x - (Len(g) - Len(h))]
    <3>1. x <= n => x \in 1 .. n BY <2>4, <2>1, <1>1
    <3> QED BY <3>1, <2>5, <2>4, <2>3
  <2>7. Len(g) \in Size - at .. Size /\ Len(h) <= Len(g) BY <2>1, <2>4, <1>1
  <2> QED BY <2>4, <2>6, <2>7 DEF g
<1> QED BY <1>2, <1>3

LEMMA PutFacts ==
  ASSUME NEW b, IsBuffer(b), NEW at \in Nat, NEW bytes, IsBuffer(bytes)
  PROVE  /\ IsBuffer(Put(b, at, bytes)) /\ Len(Put(b, at, bytes)) = Len(b)
         /\ \A x \in 1 .. Len(b) :
              Put(b, at, bytes)[x] =
                IF at < x /\ x <= at + Len(bytes) THEN bytes[x - at] ELSE b[x]
<1>1. Len(b) \in Nat /\ DOMAIN b = 1 .. Len(b) BY BufferLen
<1>2. Len(bytes) \in Nat BY BufferLen
<1> DEFINE p == Put(b, at, bytes)
           R == {p[x] : x \in 1 .. Len(b)}
<1>3. p = [x \in 1 .. Len(b) |-> p[x]] BY <1>1 DEF Put
<1>4. p \in [1 .. Len(b) -> R]
  <2> HIDE DEF p
  <2> QED BY <1>3
<1>5. p \in Seq(R) /\ Len(p) = Len(b)
  <2> HIDE DEF p, R
  <2> QED BY <1>1, <1>4, FunctionSeq
<1>6. ASSUME NEW x \in 1 .. Len(b)
      PROVE p[x] = IF at < x /\ x <= at + Len(bytes) THEN bytes[x - at] ELSE b[x]
  BY <1>1, <1>2 DEF Put, Zone
<1> QED BY <1>5, <1>6 DEF IsBuffer

\* A claimed slot is zero, and so is what the buffer gained.
LEMMA ClaimFacts ==
  ASSUME NEW l, IsBuffer(l), Len(l) <= Size, NEW end \in 0 .. Size, NEW addr \in 0 .. end
  PROVE  LET g == ClaimStack(l, addr, end)
         IN  /\ IsBuffer(g) /\ Len(g) \in end .. Size /\ Len(l) <= Len(g)
             /\ \A x \in 1 .. Len(g) :
                  g[x] = IF addr < x /\ x <= end THEN 0
                         ELSE IF x <= Len(l) THEN l[x] ELSE 0
<1> DEFINE grown == GrowLow(l, end)
           zeros == Zeros(end - addr)
<1>1. end \in Nat /\ addr \in Nat /\ end - addr \in Nat BY ConstantTypes
<1>2. /\ IsBuffer(grown) /\ Len(grown) \in end .. Size /\ Len(l) <= Len(grown)
      /\ \A x \in 1 .. Len(grown) : grown[x] = IF x <= Len(l) THEN l[x] ELSE 0
  BY GrowLowFacts
<1>3. IsBuffer(zeros) /\ Len(zeros) = end - addr /\ \A k \in 1 .. end - addr : zeros[k] = 0
  BY <1>1, ZerosFacts DEF IsBuffer
<1> HIDE DEF grown, zeros
<1> DEFINE g == Put(grown, addr, zeros)
<1>4. ClaimStack(l, addr, end) = g BY DEF ClaimStack, grown, zeros
<1>5. /\ IsBuffer(g) /\ Len(g) = Len(grown)
      /\ \A x \in 1 .. Len(grown) :
           g[x] = IF addr < x /\ x <= addr + Len(zeros) THEN zeros[x - addr] ELSE grown[x]
  BY <1>1, <1>2, <1>3, PutFacts
<1> HIDE DEF g
<1>6. ASSUME NEW x \in 1 .. Len(g)
      PROVE g[x] = IF addr < x /\ x <= end THEN 0 ELSE IF x <= Len(l) THEN l[x] ELSE 0
  <2>1. addr + Len(zeros) = end BY <1>1, <1>3
  <2>2. x \in Nat BY <1>5, <1>2, ConstantTypes
  <2>3. addr < x /\ x <= end => x - addr \in 1 .. end - addr BY <1>1, <2>2
  <2> QED BY <2>1, <2>3, <1>5, <1>3, <1>2
<1> QED BY <1>2, <1>4, <1>5, <1>6

------------------------------------------------------------------------------
\* Slots one after the other between two addresses, and the bytes they take.
SlotsIn(slots, from, to) ==
  /\ slots \in Seq([addr : Nat, size : Nat \ {0}])
  /\ \A i \in 1 .. Len(slots) :
       from <= slots[i].addr /\ slots[i].addr + slots[i].size <= to
  /\ \A i \in 1 .. Len(slots) : \A j \in 1 .. i - 1 :
       slots[j].addr + slots[j].size <= slots[i].addr
Covered(slots) == UNION {Zone(a.addr, a.size) : a \in ToSet(slots)}

LEMMA NoSlots ==
  ASSUME NEW from, NEW to
  PROVE  SlotsIn(<<>>, from, to) /\ Covered(<<>>) = {}
<1>1. Len(<<>>) = 0 /\ <<>> \in Seq([addr : Nat, size : Nat \ {0}]) BY EmptySeq
<1>2. DOMAIN <<>> = {} BY <1>1, LenProperties
<1> QED BY <1>1, <1>2 DEF SlotsIn, Covered, ToSet

\* One more slot behind the others.
LEMMA AppendSlot ==
  ASSUME NEW slots, NEW from \in Nat, NEW to \in Nat, SlotsIn(slots, from, to),
         NEW a \in [addr : Nat, size : Nat \ {0}], from <= to, to <= a.addr
  PROVE  /\ SlotsIn(Append(slots, a), from, a.addr + a.size)
         /\ Covered(Append(slots, a)) = Covered(slots) \cup Zone(a.addr, a.size)
<1> DEFINE S == [addr : Nat, size : Nat \ {0}]
           new == Append(slots, a)
           end == a.addr + a.size
<1>1. slots \in Seq(S) BY DEF SlotsIn
<1>2. Len(slots) \in Nat /\ DOMAIN slots = 1 .. Len(slots) BY <1>1, LenProperties
<1>3. a \in S /\ a.addr \in Nat /\ a.size \in Nat \ {0} OBVIOUS
<1> HIDE DEF S
<1>4. /\ new \in Seq(S) /\ Len(new) = Len(slots) + 1
      /\ \A i \in 1 .. Len(slots) : new[i] = slots[i]
      /\ new[Len(slots) + 1] = a
  BY <1>1, <1>3, AppendProperties
<1>5. DOMAIN new = 1 .. Len(slots) + 1 BY <1>4, <1>2, LenProperties
<1> HIDE DEF new
<1>6. \A i \in 1 .. Len(slots) : slots[i].addr \in Nat /\ slots[i].size \in Nat \ {0}
  <2>1. \A i \in 1 .. Len(slots) : slots[i] \in S BY <1>1, ElementOfSeq
  <2> QED BY <2>1 DEF S
<1>7. SlotsIn(new, from, end)
  <2>1. ASSUME NEW i \in 1 .. Len(new)
        PROVE from <= new[i].addr /\ new[i].addr + new[i].size <= end
    <3>1. CASE i = Len(slots) + 1 BY <3>1, <1>4, <1>3
    <3>2. CASE i # Len(slots) + 1
      <4>1. i \in 1 .. Len(slots) BY <3>2, <1>4, <1>2
      <4>2. from <= slots[i].addr /\ slots[i].addr + slots[i].size <= to BY <4>1 DEF SlotsIn
      <4> QED BY <4>1, <4>2, <1>4, <1>6
    <3> QED BY <3>1, <3>2
  <2>2. ASSUME NEW i \in 1 .. Len(new), NEW j \in 1 .. i - 1
        PROVE new[j].addr + new[j].size <= new[i].addr
    <3>1. j \in 1 .. Len(slots) BY <1>4, <1>2
    <3>2. CASE i = Len(slots) + 1
      <4>1. slots[j].addr + slots[j].size <= to BY <3>1 DEF SlotsIn
      <4> QED BY <4>1, <3>1, <3>2, <1>4, <1>3, <1>6
    <3>3. CASE i # Len(slots) + 1
      <4>1. i \in 1 .. Len(slots) BY <3>3, <1>4, <1>2
      <4> QED BY <4>1, <3>1, <1>4 DEF SlotsIn
    <3> QED BY <3>2, <3>3
  <2> QED BY <2>1, <2>2, <1>4 DEF SlotsIn, S
<1>8. Covered(new) = Covered(slots) \cup Zone(a.addr, a.size)
  <2>1. ToSet(new) = ToSet(slots) \cup {a}
    <3>1. \A x : x \in ToSet(new) <=> \E i \in 1 .. Len(slots) + 1 : x = new[i]
      BY <1>5 DEF ToSet
    <3>2. \A x : x \in ToSet(slots) <=> \E i \in 1 .. Len(slots) : x = slots[i]
      BY <1>2 DEF ToSet
    <3>3. \A x : x \in ToSet(new) => x \in ToSet(slots) \cup {a}
      BY <3>1, <3>2, <1>2, <1>4
    <3>4. \A x : x \in ToSet(slots) \cup {a} => x \in ToSet(new)
      BY <3>1, <3>2, <1>2, <1>4
    <3> QED BY <3>3, <3>4
  <2> QED BY <2>1 DEF Covered
<1> QED BY <1>7, <1>8 DEF new

\* The recursion of Placed defines a function.
LEMMA PlacedDef ==
  ASSUME NEW slots, Len(slots) \in Nat
  PROVE  Placed(slots) =
           [k \in 0 .. Len(slots) |->
              IF k = 0 THEN [ok |-> TRUE, sp |-> sp, low |-> low, slots |-> <<>>]
              ELSE PlaceSlot(Placed(slots)[k - 1], slots[k])]
<1> DEFINE Step(f, k) == IF k = 0 THEN [ok |-> TRUE, sp |-> sp, low |-> low, slots |-> <<>>]
                         ELSE PlaceSlot(f[k - 1], slots[k])
           Defines(m) == \E f : f = [k \in 0 .. m |-> Step(f, k)]
           T == {m \in Nat : Defines(m)}
<1>1. 0 \in T
  <2> DEFINE f == [k \in 0 .. 0 |-> [ok |-> TRUE, sp |-> sp, low |-> low, slots |-> <<>>]]
  <2>1. f = [k \in 0 .. 0 |-> Step(f, k)] OBVIOUS
  <2> QED BY <2>1
<1>2. ASSUME NEW m \in Nat, m \in T PROVE m + 1 \in T
  <2>1. PICK f : f = [k \in 0 .. m |-> Step(f, k)] BY <1>2
  <2> DEFINE g == [k \in 0 .. m + 1 |-> IF k <= m THEN f[k] ELSE Step(f, k)]
  <2>2. ASSUME NEW k \in 0 .. m + 1 PROVE g[k] = Step(g, k)
    <3>1. k # 0 => g[k - 1] = f[k - 1] OBVIOUS
    <3>2. Step(g, k) = Step(f, k) BY <3>1
    <3> HIDE DEF Step
    <3>3. k <= m => f[k] = Step(f, k) BY <2>1
    <3> QED BY <3>2, <3>3
  <2>3. g = [k \in 0 .. m + 1 |-> Step(g, k)]
    <3>1. g = [k \in 0 .. m + 1 |-> g[k]] OBVIOUS
    <3> HIDE DEF g, Step
    <3> QED BY <2>2, <3>1
  <2>4. Defines(m + 1)
    <3> HIDE DEF g, Step
    <3> QED BY <2>3
  <2> QED BY <2>4
<1>3. Len(slots) \in T
  <2> HIDE DEF T
  <2> QED BY <1>1, <1>2, SetInduction
<1>4. PICK f : f = [k \in 0 .. Len(slots) |-> Step(f, k)] BY <1>3
<1> QED BY <1>4 DEF Placed

\* What push_frame has done after some of the slots.
IsPlaced(s) ==
  /\ s.sp \in sp .. floor
  /\ IsBuffer(s.low) /\ Len(s.low) \in Len(low) .. Size
  /\ s.sp = sp \/ s.sp <= Len(s.low)
  /\ SlotsIn(s.slots, sp, s.sp)
  /\ \A x \in 1 .. Len(s.low) :
       s.low[x] = IF x - 1 \in Covered(s.slots) THEN 0
                  ELSE IF x <= Len(low) THEN low[x] ELSE 0

LEMMA PlaceSlotKeeps ==
  ASSUME sp \in Nat, floor \in 0 .. Size, IsBuffer(low), Len(low) <= Size,
         NEW s, IsPlaced(s), NEW slot \in [size : Nat, align : Nat]
  PROVE  IsPlaced(PlaceSlot(s, slot))
<1> DEFINE addr == Up(s.sp, AtLeast(slot.align, 1))
           end == addr + AtLeast(slot.size, 1)
           new == ClaimStack(s.low, addr, end)
<1>1. s.sp \in Nat /\ sp <= s.sp /\ s.sp <= floor /\ floor \in Nat /\ floor <= Size /\ Size \in Nat
  BY ConstantTypes DEF IsPlaced
<1>2. AtLeast(slot.align, 1) \in Nat \ {0} /\ AtLeast(slot.size, 1) \in Nat \ {0}
  BY DEF AtLeast
<1>3. addr \in Nat /\ s.sp <= addr /\ end \in Nat /\ addr < end
  <2>1. addr \in Nat /\ s.sp <= addr BY <1>1, <1>2, UpFacts
  <2> HIDE DEF addr
  <2> QED BY <2>1, <1>2
<1>4. CASE ~s.ok \/ end > floor
  <2>1. PlaceSlot(s, slot) = [ok |-> FALSE, sp |-> s.sp, low |-> s.low, slots |-> s.slots]
    BY <1>4 DEF PlaceSlot
  <2> QED BY <2>1 DEF IsPlaced
<1>5. CASE ~(~s.ok \/ end > floor)
  <2> DEFINE p == PlaceSlot(s, slot)
  <2>1. p = [ok |-> TRUE, sp |-> end, low |-> new,
             slots |-> Append(s.slots, Area(addr, end - addr))]
    BY <1>5 DEF PlaceSlot
  <2> HIDE DEF addr, end, new, p
  <2>2. p.sp = end /\ p.low = new /\ p.slots = Append(s.slots, Area(addr, end - addr))
    BY <2>1
  <2>3. end <= floor BY <1>5, <1>1, <1>3
  <2>4. IsBuffer(s.low) /\ Len(s.low) \in Nat /\ Len(s.low) <= Size
    BY <1>1, BufferLen DEF IsPlaced
  <2>5. end \in 0 .. Size /\ addr \in 0 .. end BY <1>1, <1>3, <2>3
  <2>6. /\ IsBuffer(new) /\ Len(new) \in end .. Size /\ Len(s.low) <= Len(new)
        /\ \A x \in 1 .. Len(new) :
             new[x] = IF addr < x /\ x <= end THEN 0 ELSE IF x <= Len(s.low) THEN s.low[x] ELSE 0
    BY <2>4, <2>5, ClaimFacts DEF new
  <2>7. /\ SlotsIn(p.slots, sp, end)
        /\ Covered(p.slots) = Covered(s.slots) \cup (addr .. end - 1)
    <3>1. SlotsIn(s.slots, sp, s.sp) BY DEF IsPlaced
    <3> DEFINE a == Area(addr, end - addr)
    <3>2. a \in [addr : Nat, size : Nat \ {0}] /\ a.addr = addr /\ a.size = end - addr
      BY <1>3 DEF Area
    <3>3. p.slots = Append(s.slots, a) BY <2>2
    <3> HIDE DEF a
    <3> DEFINE was == s.slots
               top == s.sp
    <3>6. SlotsIn(was, sp, top) /\ top \in Nat /\ sp <= top /\ top <= a.addr
      BY <3>1, <3>2, <1>1, <1>3
    <3>7. SlotsIn(Append(was, a), sp, a.addr + a.size)
      <4> HIDE DEF was, top
      <4> QED BY <3>2, <3>6, AppendSlot
    <3>8. Covered(Append(was, a)) = Covered(was) \cup Zone(a.addr, a.size)
      <4> HIDE DEF was, top
      <4> QED BY <3>2, <3>6, AppendSlot
    <3>4. SlotsIn(p.slots, sp, a.addr + a.size)
          /\ Covered(p.slots) = Covered(s.slots) \cup Zone(a.addr, a.size)
      BY <3>3, <3>7, <3>8
    <3>5. a.addr + a.size = end /\ Zone(a.addr, a.size) = addr .. end - 1
      BY <3>2, <1>3 DEF Zone
    <3> QED BY <3>4, <3>5
  <2>8. Len(low) \in Nat /\ Len(low) <= Len(s.low) BY <2>4, BufferLen DEF IsPlaced
  <2>9. ASSUME NEW x \in 1 .. Len(new)
        PROVE new[x] = IF x - 1 \in Covered(p.slots) THEN 0
                       ELSE IF x <= Len(low) THEN low[x] ELSE 0
    <3>1. x \in Nat /\ x >= 1 BY <2>6, <1>3
    <3>2. x - 1 \in addr .. end - 1 <=> addr < x /\ x <= end BY <3>1, <1>3
    <3>3. CASE addr < x /\ x <= end BY <3>2, <3>3, <2>6, <2>7
    <3>4. CASE ~(addr < x /\ x <= end) /\ x <= Len(s.low)
      <4>1. x \in 1 .. Len(s.low) BY <3>1, <3>4, <2>4
      <4>2. new[x] = s.low[x] BY <3>4, <2>6
      <4>3. s.low[x] = IF x - 1 \in Covered(s.slots) THEN 0
                       ELSE IF x <= Len(low) THEN low[x] ELSE 0
        BY <4>1 DEF IsPlaced
      <4> QED BY <4>2, <4>3, <3>2, <3>4, <2>7
    <3>5. CASE ~(addr < x /\ x <= end) /\ ~(x <= Len(s.low))
      <4>1. new[x] = 0 BY <3>5, <2>6
      <4>2. ~(x <= Len(low)) BY <3>1, <3>5, <2>8, <2>4
      <4> QED BY <4>1, <4>2
    <3> QED BY <3>3, <3>4, <3>5
  <2>10. end \in sp .. floor BY <1>1, <1>3, <2>3
  <2>11. Len(new) \in Len(low) .. Size /\ end <= Len(new)
    BY <2>6, <2>8, <2>4, <1>1, <1>3
  <2> QED BY <2>2, <2>6, <2>7, <2>9, <2>10, <2>11 DEF IsPlaced, p
<1> QED BY <1>4, <1>5

LEMMA PlacedFacts ==
  ASSUME sp \in Nat, floor \in 0 .. Size, sp <= floor, IsBuffer(low), Len(low) <= Size,
         NEW slots \in FrameSlots
  PROVE  IsPlaced(PlaceSlots(slots))
<1> DEFINE S == [size : Nat, align : Nat]
<1>1. slots \in Seq(S) BY MemoryAssumption
<1>2. Len(slots) \in Nat BY <1>1, LenProperties
<1>3. \A k \in 1 .. Len(slots) : slots[k] \in S BY <1>1, ElementOfSeq
<1> DEFINE P == Placed(slots)
           T == {m \in Nat : m <= Len(slots) => IsPlaced(P[m])}
<1>4. P = [k \in 0 .. Len(slots) |->
              IF k = 0 THEN [ok |-> TRUE, sp |-> sp, low |-> low, slots |-> <<>>]
              ELSE PlaceSlot(P[k - 1], slots[k])]
  BY <1>2, PlacedDef
<1> HIDE DEF P, S
<1>5. 0 \in T
  <2>1. P[0] = [ok |-> TRUE, sp |-> sp, low |-> low, slots |-> <<>>] BY <1>2, <1>4
  <2>2. P[0].sp = sp /\ P[0].low = low /\ P[0].slots = <<>> BY <2>1
  <2>3. SlotsIn(<<>>, sp, sp) /\ Covered(<<>>) = {} BY NoSlots
  <2>4. Len(low) \in Len(low) .. Size /\ sp \in sp .. floor BY BufferLen, ConstantTypes
  <2>5. \A x \in 1 .. Len(low) : x <= Len(low) BY BufferLen
  <2>6. IsPlaced(P[0]) BY <2>2, <2>3, <2>4, <2>5 DEF IsPlaced
  <2> QED BY <2>6
<1>6. ASSUME NEW m \in Nat, m \in T PROVE m + 1 \in T
  <2>1. SUFFICES ASSUME m + 1 <= Len(slots) PROVE IsPlaced(P[m + 1])
    OBVIOUS
  <2>2. IsPlaced(P[m]) BY <1>6, <2>1, <1>2
  <2>3. P[m + 1] = PlaceSlot(P[m], slots[m + 1])
    <3>1. m + 1 \in 0 .. Len(slots) /\ m + 1 # 0 /\ (m + 1) - 1 = m BY <2>1, <1>2
    <3> QED BY <3>1, <1>4
  <2>4. slots[m + 1] \in S BY <2>1, <1>2, <1>3
  <2> QED BY <2>2, <2>3, <2>4, PlaceSlotKeeps DEF S
<1>7. Len(slots) \in T
  <2> HIDE DEF T
  <2> QED BY <1>5, <1>6, SetInduction, <1>2
<1> QED BY <1>7, <1>2 DEF PlaceSlots, P

------------------------------------------------------------------------------
(* The invariant: of the buffers l and h, the end s of the stack, the start f of *)
(* the heap, the frames fs, the allocations as and the memory fl they stand for.  *)

Ordered(s, f) ==
  s \in Nat /\ f \in Nat /\ StackBase <= s /\ s <= f /\ f <= Size
\* An empty stack may begin past the end of the buffer, where the base was rounded up.
Backs(l, h, s, f) ==
  /\ IsBuffer(l) /\ GlobalsEnd <= Len(l) /\ Len(l) <= Size
  /\ s = StackBase \/ s <= Len(l)
  /\ IsBuffer(h) /\ Size - f <= Len(h) /\ Len(h) <= Size
FrameAreas == [mark : Nat, slots : Seq([addr : Nat, size : Nat \ {0}])]
FramesIn(fs, s) ==
  /\ fs \in Seq(FrameAreas)
  /\ \A k \in 1 .. Len(fs) :
       StackBase <= fs[k].mark /\ fs[k].mark <= s /\ SlotsIn(fs[k].slots, fs[k].mark, s)
  /\ \A k \in 1 .. Len(fs) : \A j \in 1 .. k - 1 :
       fs[j].mark <= fs[k].mark /\ SlotsIn(fs[j].slots, fs[j].mark, fs[k].mark)
AllocsIn(as, f) ==
  /\ as \subseteq [addr : Nat, size : Nat]
  /\ \A a \in as : f <= a.addr /\ a.addr + a.size <= Size
  /\ \A a, b \in as : a # b => a.addr + a.size <= b.addr \/ b.addr + b.size <= a.addr
\* The upper buffer has nothing but zeros below the heap: the next allocation's bytes.
Mirrors(l, h, f, fl) ==
  /\ fl = [x \in 0 .. Size - 1 |-> fl[x]]
  /\ \A x \in 0 .. f - 1 : fl[x] = IF x < Len(l) THEN l[x + 1] ELSE 0
  /\ \A x \in f .. Size - 1 : fl[x] = h[x + 1 - (Size - Len(h))]
  /\ \A x \in Size - Len(h) .. f - 1 : h[x + 1 - (Size - Len(h))] = 0

MemInv ==
  /\ Ordered(sp, floor) /\ Backs(low, high, sp, floor)
  /\ FramesIn(frames, sp) /\ AllocsIn(allocs, floor)
  /\ Mirrors(low, high, floor, flat) /\ reg = flatReg

LEMMA SlotsInWider ==
  ASSUME NEW slots, NEW from, NEW to \in Nat, NEW end \in Nat, to <= end,
         SlotsIn(slots, from, to)
  PROVE  SlotsIn(slots, from, end)
<1>1. ASSUME NEW i \in 1 .. Len(slots)
      PROVE from <= slots[i].addr /\ slots[i].addr + slots[i].size <= end
  <2>1. slots[i] \in [addr : Nat, size : Nat \ {0}] BY ElementOfSeq DEF SlotsIn
  <2>2. slots[i].addr \in Nat /\ slots[i].size \in Nat BY <2>1
  <2> QED BY <2>2 DEF SlotsIn
<1> QED BY <1>1 DEF SlotsIn

\* The recursion of InitGlobals defines a function.
LEMMA InitGlobalsDef ==
  InitGlobals = [k \in 0 .. GlobalCount |->
                   IF k = 0 THEN GrowLow(<<>>, GlobalsEnd)
                   ELSE Put(InitGlobals[k - 1], GlobalAt[k], Globals[k].init)]
<1> DEFINE Step(f, k) == IF k = 0 THEN GrowLow(<<>>, GlobalsEnd)
                         ELSE Put(f[k - 1], GlobalAt[k], Globals[k].init)
           Defines(m) == \E f : f = [k \in 0 .. m |-> Step(f, k)]
           T == {m \in Nat : Defines(m)}
<1>1. 0 \in T
  <2> DEFINE f == [k \in 0 .. 0 |-> GrowLow(<<>>, GlobalsEnd)]
  <2>1. f = [k \in 0 .. 0 |-> Step(f, k)] OBVIOUS
  <2> QED BY <2>1
<1>2. ASSUME NEW m \in Nat, m \in T PROVE m + 1 \in T
  <2>1. PICK f : f = [k \in 0 .. m |-> Step(f, k)] BY <1>2
  <2> DEFINE g == [k \in 0 .. m + 1 |-> IF k <= m THEN f[k] ELSE Step(f, k)]
  <2>2. ASSUME NEW k \in 0 .. m + 1 PROVE g[k] = Step(g, k)
    <3>1. k # 0 => g[k - 1] = f[k - 1] OBVIOUS
    <3>2. Step(g, k) = Step(f, k) BY <3>1
    <3> HIDE DEF Step
    <3>3. k <= m => f[k] = Step(f, k) BY <2>1
    <3> QED BY <3>2, <3>3
  <2>3. g = [k \in 0 .. m + 1 |-> Step(g, k)]
    <3>1. g = [k \in 0 .. m + 1 |-> g[k]] OBVIOUS
    <3> HIDE DEF g, Step
    <3> QED BY <2>2, <3>1
  <2>4. Defines(m + 1)
    <3> HIDE DEF g, Step
    <3> QED BY <2>3
  <2> QED BY <2>4
<1>3. GlobalCount \in T
  <2> HIDE DEF T
  <2> QED BY <1>1, <1>2, SetInduction, ConstantTypes
<1>4. PICK f : f = [k \in 0 .. GlobalCount |-> Step(f, k)] BY <1>3
<1> QED BY <1>4 DEF InitGlobals, GlobalCount

LEMMA InitBuffer ==
  /\ IsBuffer(InitGlobals[GlobalCount])
  /\ Len(InitGlobals[GlobalCount]) \in GlobalsEnd .. Size
<1> DEFINE Good(k) == IsBuffer(InitGlobals[k]) /\ Len(InitGlobals[k]) \in GlobalsEnd .. Size
           T == {m \in Nat : m <= GlobalCount => Good(m)}
<1>1. 0 \in T
  <2>1. InitGlobals[0] = GrowLow(<<>>, GlobalsEnd) BY InitGlobalsDef, ConstantTypes
  <2>2. IsBuffer(<<>>) /\ Len(<<>>) = 0 BY EmptySeq DEF IsBuffer
  <2>3. GlobalsEnd \in 0 .. Size /\ Len(<<>>) <= Size BY <2>2, Bases, ConstantTypes
  <2> HIDE DEF IsBuffer
  <2>4. IsBuffer(GrowLow(<<>>, GlobalsEnd)) /\ Len(GrowLow(<<>>, GlobalsEnd)) \in GlobalsEnd .. Size
    BY <2>2, <2>3, GrowLowFacts
  <2> QED BY <2>1, <2>4
<1>2. ASSUME NEW m \in Nat, m \in T PROVE m + 1 \in T
  <2>1. SUFFICES ASSUME m + 1 <= GlobalCount PROVE Good(m + 1)
    OBVIOUS
  <2>2. Good(m) BY <1>2, <2>1, ConstantTypes
  <2>3. m + 1 \in 1 .. GlobalCount /\ m + 1 # 0 /\ (m + 1) - 1 = m BY <2>1, ConstantTypes
  <2>4. InitGlobals[m + 1] = Put(InitGlobals[m], GlobalAt[m + 1], Globals[m + 1].init)
    BY <2>3, InitGlobalsDef, ConstantTypes
  <2>5. GlobalAt[m + 1] \in Nat BY <2>3, GlobalsLaid
  <2>6. IsBuffer(Globals[m + 1].init) BY <2>3, ConstantTypes DEF IsBuffer
  <2> DEFINE b == InitGlobals[m]
             at == GlobalAt[m + 1]
             bytes == Globals[m + 1].init
  <2> HIDE DEF b, at, bytes, IsBuffer
  <2>7. IsBuffer(Put(b, at, bytes)) /\ Len(Put(b, at, bytes)) = Len(b)
    BY <2>2, <2>5, <2>6, PutFacts DEF b, at, bytes
  <2> QED BY <2>2, <2>4, <2>7 DEF b, at, bytes
<1>3. GlobalCount \in T
  <2> HIDE DEF T
  <2> QED BY <1>1, <1>2, SetInduction, ConstantTypes
<1> QED BY <1>3, ConstantTypes

LEMMA InitInv == Init => MemInv
<1> SUFFICES ASSUME Init PROVE MemInv OBVIOUS
<1>1. /\ reg = flatReg /\ frames = <<>> /\ allocs = {} /\ sp = StackBase /\ floor = Size
      /\ high = <<>> /\ low = InitGlobals[GlobalCount]
      /\ flat = [x \in 0 .. Size - 1 |-> IF x < Len(low) THEN low[x + 1] ELSE 0]
  BY DEF Init, GlobalCount
<1>2. IsBuffer(<<>>) /\ Len(<<>>) = 0 BY EmptySeq DEF IsBuffer
<1>3. Ordered(sp, floor) BY <1>1, Bases, ConstantTypes DEF Ordered
<1>4. Backs(low, high, sp, floor)
  BY <1>1, <1>2, InitBuffer, Bases, ConstantTypes DEF Backs
<1>5. FramesIn(frames, sp)
  <2>1. <<>> \in Seq(FrameAreas) BY EmptySeq
  <2> QED BY <1>1, <1>2, <2>1 DEF FramesIn
<1>6. AllocsIn(allocs, floor) BY <1>1 DEF AllocsIn
<1>7. Mirrors(low, high, floor, flat)
  BY <1>1, <1>2, ConstantTypes DEF Mirrors
<1> QED BY <1>1, <1>3, <1>4, <1>5, <1>6, <1>7 DEF MemInv

------------------------------------------------------------------------------
LEMMA PowerPositive ==
  ASSUME NEW n \in Nat
  PROVE  PowerOfTwo(n) \in Nat \ {0}
<1> DEFINE Step(f, k) == IF k = 0 THEN 1
                         ELSE IF f[k - 1] < n THEN 2 * f[k - 1] ELSE f[k - 1]
           Good(m) == \E f \in [0 .. m -> Nat \ {0}] : f = [k \in 0 .. m |-> Step(f, k)]
           T == {m \in Nat : Good(m)}
<1>1. 0 \in T
  <2> DEFINE f == [k \in 0 .. 0 |-> 1]
  <2>1. f \in [0 .. 0 -> Nat \ {0}] /\ f = [k \in 0 .. 0 |-> Step(f, k)] OBVIOUS
  <2> QED BY <2>1
<1>2. ASSUME NEW m \in Nat, m \in T PROVE m + 1 \in T
  <2>1. PICK f \in [0 .. m -> Nat \ {0}] : f = [k \in 0 .. m |-> Step(f, k)] BY <1>2
  <2> DEFINE g == [k \in 0 .. m + 1 |-> IF k <= m THEN f[k] ELSE Step(f, k)]
  <2>2. ASSUME NEW k \in 0 .. m + 1 PROVE g[k] = Step(g, k)
    <3>1. k # 0 => g[k - 1] = f[k - 1] OBVIOUS
    <3>2. Step(g, k) = Step(f, k) BY <3>1
    <3> HIDE DEF Step
    <3>3. k <= m => f[k] = Step(f, k) BY <2>1
    <3> QED BY <3>2, <3>3
  <2>3. g = [k \in 0 .. m + 1 |-> Step(g, k)]
    <3>1. g = [k \in 0 .. m + 1 |-> g[k]] OBVIOUS
    <3> HIDE DEF g, Step
    <3> QED BY <2>2, <3>1
  <2>4. g \in [0 .. m + 1 -> Nat \ {0}]
    <3>1. ASSUME NEW k \in 0 .. m + 1 PROVE g[k] \in Nat \ {0} OBVIOUS
    <3> QED BY <3>1
  <2>5. Good(m + 1)
    <3> HIDE DEF g, Step
    <3> QED BY <2>3, <2>4
  <2> HIDE DEF Good
  <2> QED BY <2>5
<1>3. n \in T
  <2> HIDE DEF T
  <2> QED BY <1>1, <1>2, SetInduction
<1> DEFINE D == CHOOSE f : f = [k \in 0 .. n |-> Step(f, k)]
<1>4. PICK f \in [0 .. n -> Nat \ {0}] : f = [k \in 0 .. n |-> Step(f, k)] BY <1>3
<1>5. D = [k \in 0 .. n |-> Step(D, k)]
  <2> HIDE DEF Step
  <2> QED BY <1>4
<1>6. PowerOfTwo(n) = D[n] BY DEF PowerOfTwo
<1> HIDE DEF D
<1> DEFINE U == {m \in Nat : m <= n => D[m] \in Nat \ {0}}
<1>7. 0 \in U BY <1>5
<1>8. ASSUME NEW m \in Nat, m \in U PROVE m + 1 \in U
  <2>1. SUFFICES ASSUME m + 1 <= n PROVE D[m + 1] \in Nat \ {0} OBVIOUS
  <2>2. D[m] \in Nat \ {0} BY <1>8, <2>1
  <2>3. m + 1 \in 0 .. n /\ m + 1 # 0 /\ (m + 1) - 1 = m BY <2>1
  <2>4. D[m + 1] = IF D[m] < n THEN 2 * D[m] ELSE D[m] BY <2>3, <1>5
  <2> QED BY <2>2, <2>4
<1>9. n \in U
  <2> HIDE DEF U
  <2> QED BY <1>7, <1>8, SetInduction
<1> QED BY <1>6, <1>9

LEMMA AllocInv == MemInv /\ Alloc => MemInv'
<1> SUFFICES ASSUME MemInv, Alloc PROVE MemInv' OBVIOUS
<1>1. PICK ask \in Asks :
        /\ HeapFits(ask)
        /\ high' = GrowHigh(high, NewFloor(ask))
        /\ floor' = NewFloor(ask)
        /\ allocs' = allocs \cup {Area(NewFloor(ask), ask.size)}
        /\ flat' = FlatFill(flat, NewFloor(ask) .. floor - 1, 0)
        /\ UNCHANGED <<low, sp, frames, reg, flatReg>>
  BY DEF Alloc
<1>2. /\ Ordered(sp, floor) /\ Backs(low, high, sp, floor) /\ FramesIn(frames, sp)
      /\ AllocsIn(allocs, floor) /\ Mirrors(low, high, floor, flat) /\ reg = flatReg
  BY DEF MemInv
<1>3. ask.size \in Nat /\ ask.align \in Nat BY MemoryAssumption
<1>4. /\ sp \in Nat /\ floor \in Nat /\ StackBase <= sp /\ floor <= Size
      /\ Size \in Nat /\ StackBase \in Nat /\ GlobalsEnd \in Nat
  BY <1>2, Bases, ConstantTypes DEF Ordered
<1> DEFINE nf == NewFloor(ask)
           new == GrowHigh(high, nf)
           a == Area(nf, ask.size)
<1>5. nf \in Nat /\ sp <= nf /\ nf + ask.size <= floor
  <2>1. ask.size <= floor BY <1>1 DEF HeapFits
  <2>2. PowerOfTwo(AtLeast(ask.align, 1)) \in Nat \ {0}
    <3>1. AtLeast(ask.align, 1) \in Nat BY <1>3 DEF AtLeast
    <3> QED BY <3>1, PowerPositive
  <2>3. floor - ask.size \in Nat BY <2>1, <1>3, <1>4
  <2>4. nf \in Nat /\ nf <= floor - ask.size BY <2>2, <2>3, DownFacts DEF NewFloor
  <2>5. nf >= AtLeast(sp, GlobalsEnd) BY <1>1 DEF HeapFits
  <2>6. nf >= sp
    <3> HIDE DEF nf
    <3> QED BY <2>4, <2>5, <1>4 DEF AtLeast
  <2> HIDE DEF nf
  <2> QED BY <2>4, <2>6, <1>3, <1>4
<1>6. a.addr = nf /\ a.size = ask.size /\ a \in [addr : Nat, size : Nat]
  BY <1>3, <1>5 DEF Area
<1> HIDE DEF nf, a
<1>7. /\ IsBuffer(new) /\ Len(new) \in Size - nf .. Size /\ Len(high) <= Len(new)
      /\ \A x \in 1 .. Len(new) :
           new[x] = IF x <= Len(new) - Len(high) THEN 0 ELSE high[x - (Len(new) - Len(high))]
  <2>1. nf \in 0 .. Size BY <1>3, <1>4, <1>5
  <2> QED BY <2>1, <1>2, GrowHighFacts DEF Backs
<1> HIDE DEF new
<1>8. high' = new /\ floor' = nf /\ allocs' = allocs \cup {a}
      /\ flat' = FlatFill(flat, nf .. floor - 1, 0)
      /\ low' = low /\ sp' = sp /\ frames' = frames /\ reg' = reg /\ flatReg' = flatReg
  BY <1>1 DEF nf, new, a
<1>9. Ordered(sp, nf) BY <1>3, <1>4, <1>5 DEF Ordered
<1>10. Backs(low, new, sp, nf) BY <1>2, <1>4, <1>5, <1>7 DEF Backs
<1>11. AllocsIn(allocs \cup {a}, nf)
  <2>1. \A b \in allocs : b.addr \in Nat /\ b.size \in Nat /\ floor <= b.addr
                          /\ b.addr + b.size <= Size
    BY <1>2 DEF AllocsIn
  <2>2. a.addr + a.size <= Size /\ \A b \in allocs : a.addr + a.size <= b.addr /\ nf <= b.addr
    BY <2>1, <1>3, <1>4, <1>5, <1>6
  <2>3. \A b \in allocs \cup {a} : nf <= b.addr /\ b.addr + b.size <= Size
    BY <2>1, <2>2, <1>5, <1>6
  <2>4. \A b, c \in allocs \cup {a} :
           b # c => b.addr + b.size <= c.addr \/ c.addr + c.size <= b.addr
    BY <2>2, <1>2 DEF AllocsIn
  <2>5. allocs \cup {a} \subseteq [addr : Nat, size : Nat] BY <1>2, <1>6 DEF AllocsIn
  <2> QED BY <2>3, <2>4, <2>5 DEF AllocsIn
<1>12. Mirrors(low, new, nf, FlatFill(flat, nf .. floor - 1, 0))
  <2> DEFINE fl == FlatFill(flat, nf .. floor - 1, 0)
  <2>1. Len(high) \in Nat /\ Len(new) \in Nat /\ Size - floor <= Len(high) /\ Len(new) <= Size
    BY <1>2, <1>7, BufferLen DEF Backs
  <2>2. DOMAIN flat = 0 .. Size - 1 BY <1>2 DEF Mirrors
  <2>3. fl = [x \in 0 .. Size - 1 |-> IF x \in nf .. floor - 1 THEN 0 ELSE flat[x]]
    BY <2>2 DEF FlatFill
  <2> HIDE DEF fl
  <2>4. ASSUME NEW x \in Int, x >= Size - Len(new), x < floor
        PROVE new[x + 1 - (Size - Len(new))] = 0
    <3> DEFINE i == x + 1 - (Size - Len(new))
    <3>1. i \in 1 .. Len(new) BY <2>1, <2>4, <1>4
    <3>2. new[i] = IF i <= Len(new) - Len(high) THEN 0 ELSE high[i - (Len(new) - Len(high))]
      <4> HIDE DEF i
      <4> QED BY <3>1, <1>7
    <3>3. CASE i <= Len(new) - Len(high) BY <3>2, <3>3
    <3>4. CASE ~(i <= Len(new) - Len(high))
      <4>1. i - (Len(new) - Len(high)) = x + 1 - (Size - Len(high)) BY <2>1, <1>4
      <4>2. x \in Size - Len(high) .. floor - 1 BY <2>4, <3>4, <2>1, <1>4
      <4>3. high[x + 1 - (Size - Len(high))] = 0 BY <4>2, <1>2 DEF Mirrors
      <4> QED BY <3>2, <3>4, <4>1, <4>3
    <3> QED BY <3>3, <3>4
  <2>5. ASSUME NEW x \in 0 .. nf - 1 PROVE fl[x] = IF x < Len(low) THEN low[x + 1] ELSE 0
    <3>1. x \in 0 .. floor - 1 /\ x \in 0 .. Size - 1 /\ x \notin nf .. floor - 1
      BY <1>3, <1>4, <1>5
    <3> QED BY <3>1, <2>3, <1>2 DEF Mirrors
  <2>6. ASSUME NEW x \in nf .. Size - 1 PROVE fl[x] = new[x + 1 - (Size - Len(new))]
    <3>1. x \in Int /\ x \in 0 .. Size - 1 /\ x >= Size - Len(new) BY <1>4, <1>5, <1>7, <2>1
    <3>2. CASE x < floor
      <4>1. x \in nf .. floor - 1 BY <3>2, <1>4, <1>5
      <4> QED BY <4>1, <3>1, <3>2, <2>3, <2>4
    <3>3. CASE ~(x < floor)
      <4>1. x \in floor .. Size - 1 /\ x \notin nf .. floor - 1 BY <3>3, <1>4, <1>5
      <4>2. fl[x] = high[x + 1 - (Size - Len(high))] BY <4>1, <3>1, <2>3, <1>2 DEF Mirrors
      <4> DEFINE i == x + 1 - (Size - Len(new))
      <4>3. i \in 1 .. Len(new) /\ ~(i <= Len(new) - Len(high))
            /\ i - (Len(new) - Len(high)) = x + 1 - (Size - Len(high))
        BY <3>1, <4>1, <2>1, <1>4
      <4> HIDE DEF i
      <4>4. new[i] = high[x + 1 - (Size - Len(high))] BY <4>3, <1>7
      <4> QED BY <4>2, <4>4 DEF i
    <3> QED BY <3>2, <3>3
  <2>7. ASSUME NEW x \in Size - Len(new) .. nf - 1 PROVE new[x + 1 - (Size - Len(new))] = 0
    <3>1. x \in Int /\ x >= Size - Len(new) /\ x < floor BY <1>3, <1>4, <1>5, <2>1
    <3> QED BY <3>1, <2>4
  <2>8. fl = [x \in 0 .. Size - 1 |-> fl[x]] BY <2>3
  <2> QED BY <2>5, <2>6, <2>7, <2>8 DEF Mirrors, fl
<1> QED BY <1>2, <1>8, <1>9, <1>10, <1>11, <1>12 DEF MemInv

\* push_frame, also when a slot does not fit: the bytes it took are zero in both.
LEMMA PushInv == MemInv /\ Push => MemInv'
<1> SUFFICES ASSUME MemInv, Push PROVE MemInv' OBVIOUS
<1>1. PICK slots \in FrameSlots :
        /\ low' = PlaceSlots(slots).low
        /\ IF PlaceSlots(slots).ok
           THEN /\ sp' = PlaceSlots(slots).sp
                /\ frames' = Append(frames, [mark |-> sp, slots |-> PlaceSlots(slots).slots])
           ELSE UNCHANGED <<sp, frames>>
        /\ flat' = FlatFill(flat, Covered(PlaceSlots(slots).slots), 0)
        /\ UNCHANGED <<high, floor, allocs, reg, flatReg>>
  BY DEF Push, Covered
<1>2. /\ Ordered(sp, floor) /\ Backs(low, high, sp, floor) /\ FramesIn(frames, sp)
      /\ AllocsIn(allocs, floor) /\ Mirrors(low, high, floor, flat) /\ reg = flatReg
  BY DEF MemInv
<1>3. /\ sp \in Nat /\ floor \in Nat /\ StackBase <= sp /\ sp <= floor /\ floor <= Size
      /\ Size \in Nat /\ StackBase \in Nat /\ GlobalsEnd \in Nat
  BY <1>2, Bases, ConstantTypes DEF Ordered
<1> DEFINE s == PlaceSlots(slots)
           new == s.low
           top == s.sp
           sl == s.slots
           fr == [mark |-> sp, slots |-> sl]
           fl == FlatFill(flat, Covered(sl), 0)
<1>4. IsPlaced(s)
  <2>1. floor \in 0 .. Size /\ IsBuffer(low) /\ Len(low) <= Size BY <1>2, <1>3 DEF Backs
  <2> QED BY <2>1, <1>3, PlacedFacts
<1>5. /\ top \in sp .. floor /\ IsBuffer(new) /\ Len(new) \in Len(low) .. Size
      /\ top = sp \/ top <= Len(new)
      /\ SlotsIn(sl, sp, top)
      /\ \A x \in 1 .. Len(new) : new[x] = IF x - 1 \in Covered(sl) THEN 0
                                         ELSE IF x <= Len(low) THEN low[x] ELSE 0
  BY <1>4 DEF IsPlaced
<1>6. /\ low' = new /\ flat' = fl /\ high' = high /\ floor' = floor /\ allocs' = allocs
      /\ reg' = reg /\ flatReg' = flatReg
      /\ \/ sp' = top /\ frames' = Append(frames, fr)
         \/ sp' = sp /\ frames' = frames
  BY <1>1
<1> HIDE DEF s, new, top, sl
<1>7. Len(low) \in Nat /\ Len(new) \in Nat /\ Len(low) <= Len(new) /\ Len(new) <= Size
      /\ top \in Nat /\ sp <= top /\ top <= floor
  BY <1>2, <1>3, <1>5, BufferLen DEF Backs
<1>8. Ordered(top, floor) BY <1>3, <1>7 DEF Ordered
<1>9. Backs(new, high, sp, floor) /\ Backs(new, high, top, floor)
  BY <1>2, <1>3, <1>5, <1>7 DEF Backs
<1>10. Mirrors(new, high, floor, fl)
  <2>1. \A x \in Covered(sl) : x \in Int /\ x < floor
    <3>1. sl \in Seq([addr : Nat, size : Nat \ {0}]) BY <1>5 DEF SlotsIn
    <3>2. DOMAIN sl = 1 .. Len(sl) BY <3>1, LenProperties
    <3>3. ASSUME NEW i \in 1 .. Len(sl), NEW x \in Zone(sl[i].addr, sl[i].size)
          PROVE x \in Int /\ x < floor
      <4>1. sl[i] \in [addr : Nat, size : Nat \ {0}] BY <3>1, ElementOfSeq
      <4>2. sl[i].addr \in Nat /\ sl[i].size \in Nat BY <4>1
      <4>3. sl[i].addr + sl[i].size <= top BY <1>5 DEF SlotsIn
      <4> QED BY <4>2, <4>3, <3>3, <1>3, <1>7 DEF Zone
    <3> QED BY <3>2, <3>3 DEF Covered, ToSet
  <2>2. fl = [x \in 0 .. Size - 1 |-> IF x \in Covered(sl) THEN 0 ELSE flat[x]]
    BY <1>2 DEF Mirrors, FlatFill
  <2> HIDE DEF fl
  <2>3. ASSUME NEW x \in 0 .. floor - 1 PROVE fl[x] = IF x < Len(new) THEN new[x + 1] ELSE 0
    <3>1. x \in Nat /\ x \in 0 .. Size - 1 BY <1>3
    <3>2. flat[x] = IF x < Len(low) THEN low[x + 1] ELSE 0 BY <1>2 DEF Mirrors
    <3>3. CASE x < Len(new)
      <4>1. x + 1 \in 1 .. Len(new) /\ (x + 1) - 1 = x /\ (x + 1 <= Len(low) <=> x < Len(low))
        BY <3>1, <3>3, <1>7
      <4>2. new[x + 1] = IF x \in Covered(sl) THEN 0
                         ELSE IF x < Len(low) THEN low[x + 1] ELSE 0
        BY <4>1, <1>5
      <4> QED BY <3>1, <3>2, <3>3, <4>2, <2>2
    <3>4. CASE ~(x < Len(new))
      <4>1. ~(x < Len(low)) BY <3>1, <3>4, <1>7
      <4> QED BY <3>1, <3>2, <3>4, <4>1, <2>2
    <3> QED BY <3>3, <3>4
  <2>4. ASSUME NEW x \in floor .. Size - 1 PROVE fl[x] = high[x + 1 - (Size - Len(high))]
    <3>1. x \in 0 .. Size - 1 /\ x \notin Covered(sl) BY <2>1, <1>3
    <3> QED BY <3>1, <2>2, <1>2 DEF Mirrors
  <2>5. fl = [x \in 0 .. Size - 1 |-> fl[x]] BY <2>2
  <2> QED BY <2>3, <2>4, <2>5, <1>2 DEF Mirrors
<1>11. FramesIn(Append(frames, fr), top)
  <2>1. frames \in Seq(FrameAreas) BY <1>2 DEF FramesIn
  <2>2. fr \in FrameAreas /\ fr.mark = sp /\ fr.slots = sl
    BY <1>3, <1>5 DEF FrameAreas, SlotsIn
  <2> HIDE DEF fr
  <2> DEFINE fs == Append(frames, fr)
             n == Len(frames)
  <2>3. /\ fs \in Seq(FrameAreas) /\ Len(fs) = n + 1 /\ n \in Nat
        /\ \A i \in 1 .. n : fs[i] = frames[i]
        /\ fs[n + 1] = fr
    BY <2>1, <2>2, AppendProperties, LenProperties
  <2> HIDE DEF fs, n
  <2>4. \A k \in 1 .. n :
          StackBase <= frames[k].mark /\ frames[k].mark <= sp
          /\ SlotsIn(frames[k].slots, frames[k].mark, sp)
    BY <1>2 DEF FramesIn, n
  <2>5. ASSUME NEW k \in 1 .. n + 1
        PROVE StackBase <= fs[k].mark /\ fs[k].mark <= top /\ SlotsIn(fs[k].slots, fs[k].mark, top)
    <3>1. CASE k = n + 1 BY <3>1, <2>2, <2>3, <1>3, <1>5, <1>7
    <3>2. CASE k # n + 1
      <4>1. k \in 1 .. n BY <3>2, <2>3
      <4>2. frames[k].mark \in Nat
        <5>1. frames[k] \in FrameAreas BY <4>1, <2>1, ElementOfSeq DEF n
        <5> QED BY <5>1 DEF FrameAreas
      <4>3. SlotsIn(frames[k].slots, frames[k].mark, top)
        <5> DEFINE was == frames[k].slots
                   from == frames[k].mark
        <5>1. SlotsIn(was, from, sp) BY <4>1, <2>4
        <5> HIDE DEF was, from
        <5>2. SlotsIn(was, from, top) BY <5>1, <1>3, <1>7, SlotsInWider
        <5> QED BY <5>2 DEF was, from
      <4> QED BY <4>1, <4>2, <4>3, <2>3, <2>4, <1>3, <1>7
    <3> QED BY <3>1, <3>2
  <2>6. ASSUME NEW k \in 1 .. n + 1, NEW j \in 1 .. k - 1
        PROVE fs[j].mark <= fs[k].mark /\ SlotsIn(fs[j].slots, fs[j].mark, fs[k].mark)
    <3>1. j \in 1 .. n BY <2>3
    <3>2. CASE k = n + 1 BY <3>1, <3>2, <2>2, <2>3, <2>4
    <3>3. CASE k # n + 1
      <4>1. k \in 1 .. n BY <3>3, <2>3
      <4> QED BY <4>1, <3>1, <2>3, <1>2 DEF FramesIn, n
    <3> QED BY <3>2, <3>3
  <2> QED BY <2>3, <2>5, <2>6 DEF FramesIn, fs
<1>12. CASE sp' = top /\ frames' = Append(frames, fr)
  BY <1>2, <1>6, <1>8, <1>9, <1>10, <1>11, <1>12 DEF MemInv
<1>13. CASE sp' = sp /\ frames' = frames
  BY <1>2, <1>6, <1>9, <1>10, <1>13 DEF MemInv
<1> QED BY <1>6, <1>12, <1>13

LEMMA PopInv == MemInv /\ Pop => MemInv'
<1> SUFFICES ASSUME MemInv, Pop PROVE MemInv' OBVIOUS
<1> DEFINE n == Len(frames)
           mark == frames[n].mark
           fs == SubSeq(frames, 1, n - 1)
<1>1. /\ frames # <<>> /\ sp' = mark /\ frames' = fs
      /\ low' = low /\ high' = high /\ floor' = floor /\ allocs' = allocs
      /\ reg' = reg /\ flat' = flat /\ flatReg' = flatReg
  BY DEF Pop, Last, Front
<1>2. /\ Ordered(sp, floor) /\ Backs(low, high, sp, floor) /\ FramesIn(frames, sp)
      /\ AllocsIn(allocs, floor) /\ Mirrors(low, high, floor, flat) /\ reg = flatReg
  BY DEF MemInv
<1>3. frames \in Seq(FrameAreas) BY <1>2 DEF FramesIn
<1>4. n \in Nat /\ n \in 1 .. n BY <1>1, <1>3, EmptySeq, LenProperties
<1>5. mark \in Nat
  <2>1. frames[n] \in FrameAreas BY <1>3, <1>4, ElementOfSeq
  <2> QED BY <2>1 DEF FrameAreas
<1>6. StackBase <= mark /\ mark <= sp BY <1>2, <1>4 DEF FramesIn
<1>7. fs \in Seq(FrameAreas) /\ Len(fs) = n - 1 /\ \A i \in 1 .. n - 1 : fs[i] = frames[i]
  <2>1. \A i \in 1 .. n - 1 : frames[i] \in FrameAreas BY <1>3, <1>4, ElementOfSeq
  <2>2. 1 \in Int /\ n - 1 \in Int BY <1>4
  <2>3. /\ fs \in Seq(FrameAreas) /\ Len(fs) = (IF 1 <= n - 1 THEN (n - 1) - 1 + 1 ELSE 0)
        /\ \A i \in 1 .. (n - 1) - 1 + 1 : fs[i] = frames[1 + i - 1]
    BY <2>1, <2>2, SubSeqProperties
  <2> HIDE DEF fs, n
  <2> QED BY <2>3, <1>4
<1> HIDE DEF fs
<1>8. FramesIn(fs, mark)
  <2>1. \A k \in 1 .. n - 1 : k \in 1 .. n /\ k \in 1 .. (n - 1) BY <1>4
  <2>2. \A k \in 1 .. n - 1 : StackBase <= frames[k].mark BY <2>1, <1>2 DEF FramesIn
  <2>3. \A k \in 1 .. n - 1 :
          frames[k].mark <= mark /\ SlotsIn(frames[k].slots, frames[k].mark, mark)
    BY <1>4, <1>2 DEF FramesIn
  <2>4. \A k \in 1 .. n - 1 : \A j \in 1 .. k - 1 :
          /\ j \in 1 .. n - 1 /\ frames[j].mark <= frames[k].mark
          /\ SlotsIn(frames[j].slots, frames[j].mark, frames[k].mark)
    BY <2>1, <1>4, <1>2 DEF FramesIn
  <2> HIDE DEF n, mark
  <2> QED BY <2>2, <2>3, <2>4, <1>7 DEF FramesIn
<1>9. Ordered(mark, floor)
  <2> HIDE DEF mark
  <2> QED BY <1>2, <1>5, <1>6, Bases, ConstantTypes DEF Ordered
<1>10. Backs(low, high, mark, floor)
  <2>1. Len(low) \in Nat /\ sp \in Nat /\ StackBase \in Nat
    BY <1>2, BufferLen, Bases DEF Backs, Ordered
  <2> HIDE DEF mark
  <2> QED BY <2>1, <1>2, <1>5, <1>6 DEF Backs
<1> HIDE DEF mark
<1> QED BY <1>1, <1>2, <1>8, <1>9, <1>10 DEF MemInv

------------------------------------------------------------------------------
(* Instructions: what is read is what the flat memory has, and writing to both *)
(* leaves them equal.                                                          *)

LEMMA InvFacts ==
  ASSUME MemInv
  PROVE  /\ sp \in Nat /\ floor \in Nat /\ Size \in Nat /\ StackBase \in Nat
         /\ GlobalsEnd \in Nat /\ Guard \in Nat
         /\ GlobalsEnd <= StackBase /\ StackBase <= sp /\ sp <= floor /\ floor <= Size
         /\ Len(low) \in Nat /\ GlobalsEnd <= Len(low) /\ Len(low) <= Size
         /\ sp = StackBase \/ sp <= Len(low)
         /\ Len(high) \in Nat /\ Size - floor <= Len(high) /\ Len(high) <= Size
         /\ DOMAIN flat = 0 .. Size - 1
<1>1. IsBuffer(low) /\ IsBuffer(high) BY DEF MemInv, Backs
<1>2. DOMAIN flat = 0 .. Size - 1 BY DEF MemInv, Mirrors
<1>3. Len(low) \in Nat /\ Len(high) \in Nat BY <1>1, BufferLen
<1> QED BY <1>2, <1>3, Bases, ConstantTypes DEF MemInv, Ordered, Backs

LEMMA Access ==
  ASSUME MemInv, NEW addr \in Nat, NEW n \in Nat, CanAccess(addr, n)
  PROVE  \/ addr < floor /\ addr + n <= floor /\ addr + n <= Len(low)
         \/ ~(addr < floor) /\ addr + n <= Size
BY InvFacts DEF CanAccess, Live, Backed, InLow

\* What is live is backed.
LEMMA LiveBacked ==
  ASSUME MemInv, NEW addr \in Nat, NEW n \in Nat \ {0}, Live(addr, n)
  PROVE  CanAccess(addr, n)
BY SMTT(30), InvFacts DEF CanAccess, Live, Backed, InLow, HighAt

LEMMA ReadFacts ==
  ASSUME NEW fl, NEW addr, NEW n \in Nat
  PROVE  /\ IsBuffer(FlatRead(fl, addr, n)) /\ Len(FlatRead(fl, addr, n)) = n
         /\ \A k \in 1 .. n : FlatRead(fl, addr, n)[k] = fl[addr + k - 1]
<1> DEFINE r == FlatRead(fl, addr, n)
           R == {r[k] : k \in 1 .. n}
<1>1. r = [k \in 1 .. n |-> fl[addr + k - 1]] BY DEF FlatRead
<1>2. r = [k \in 1 .. n |-> r[k]] BY <1>1
<1> HIDE DEF r
<1>3. r \in [1 .. n -> R] BY <1>2
<1>4. r \in Seq(R) /\ Len(r) = n
  <2> HIDE DEF R
  <2> QED BY <1>3, FunctionSeq
<1> QED BY <1>1, <1>4 DEF IsBuffer, r

LEMMA SubSeqIsRead ==
  ASSUME NEW b, IsBuffer(b), NEW at \in Nat, NEW n \in Nat, at + n <= Len(b)
  PROVE  /\ IsBuffer(SubSeq(b, at + 1, at + n)) /\ Len(SubSeq(b, at + 1, at + n)) = n
         /\ \A k \in 1 .. n : SubSeq(b, at + 1, at + n)[k] = b[at + k]
<1>1. PICK S : b \in Seq(S) BY DEF IsBuffer
<1>2. Len(b) \in Nat BY <1>1, LenProperties
<1> DEFINE from == at + 1
           to == at + n
           r == SubSeq(b, from, to)
<1>3. from \in Int /\ to \in Int /\ \A i \in from .. to : b[i] \in S
  <2>1. \A i \in from .. to : i \in 1 .. Len(b) BY <1>2
  <2> QED BY <2>1, <1>1, ElementOfSeq
<1>4. /\ r \in Seq(S) /\ Len(r) = (IF from <= to THEN to - from + 1 ELSE 0)
      /\ \A i \in 1 .. to - from + 1 : r[i] = b[from + i - 1]
  <2> HIDE DEF from, to
  <2> QED BY <1>3, SubSeqProperties
<1>5. Len(r) = n
  <2> HIDE DEF r
  <2> QED BY <1>4
<1>6. ASSUME NEW k \in 1 .. n PROVE r[k] = b[at + k]
  <2>1. to - from + 1 = n /\ from + k - 1 = at + k OBVIOUS
  <2> HIDE DEF r, from, to
  <2> QED BY <2>1, <1>4
<1> QED BY <1>4, <1>5, <1>6 DEF IsBuffer

LEMMA SameElements ==
  ASSUME NEW a, NEW b, IsBuffer(a), IsBuffer(b), Len(a) = Len(b),
         \A k \in 1 .. Len(a) : a[k] = b[k]
  PROVE  a = b
<1>1. PICK S : a \in Seq(S) BY DEF IsBuffer
<1>2. PICK R : b \in Seq(R) BY DEF IsBuffer
<1>3. a \in Seq(S \cup R) /\ b \in Seq(S \cup R) BY <1>1, <1>2, SeqMonotonic
<1> QED BY <1>3, SeqEqual

LEMMA BytesAreFlat ==
  ASSUME MemInv, NEW addr \in Nat, NEW n \in Nat, CanAccess(addr, n)
  PROVE  Bytes(addr, n) = FlatRead(flat, addr, n)
<1> DEFINE r == FlatRead(flat, addr, n)
<1>1. /\ IsBuffer(r) /\ Len(r) = n
      /\ \A k \in 1 .. n : r[k] = flat[addr + k - 1]
  BY ReadFacts
<1> HIDE DEF r
<1>2. IsBuffer(low) /\ IsBuffer(high) /\ Mirrors(low, high, floor, flat)
  BY DEF MemInv, Backs
<1>3. CASE addr < floor
  <2>1. addr + n <= floor /\ addr + n <= Len(low) BY <1>3, Access
  <2> DEFINE b == SubSeq(low, addr + 1, addr + n)
  <2>2. Bytes(addr, n) = b BY <1>3 DEF Bytes, InLow
  <2>3. IsBuffer(b) /\ Len(b) = n /\ \A k \in 1 .. n : b[k] = low[addr + k]
    BY <2>1, <1>2, SubSeqIsRead
  <2> HIDE DEF b
  <2>4. ASSUME NEW k \in 1 .. n PROVE b[k] = r[k]
    <3> DEFINE x == addr + k - 1
    <3>1. x \in 0 .. floor - 1 /\ x < Len(low) /\ x + 1 = addr + k
      <4>1. floor \in Nat /\ Len(low) \in Nat BY InvFacts
      <4>2. x \in Nat /\ x + 1 = addr + k OBVIOUS
      <4>3. x + 1 <= addr + n BY <4>2
      <4> HIDE DEF x
      <4> QED BY <4>1, <4>2, <4>3, <2>1
    <3>2. r[k] = flat[x] /\ b[k] = low[addr + k] BY <1>1, <2>3
    <3> HIDE DEF x
    <3>3. flat[x] = low[x + 1] BY <3>1, <1>2 DEF Mirrors
    <3> QED BY <3>1, <3>2, <3>3
  <2>5. b = r BY <1>1, <2>3, <2>4, SameElements
  <2> QED BY <2>2, <2>5 DEF r
<1>4. CASE ~(addr < floor)
  <2>1. addr + n <= Size BY <1>4, Access
  <2> DEFINE at == HighAt(addr)
             b == SubSeq(high, at + 1, at + n)
  <2>2. Bytes(addr, n) = b BY <1>4 DEF Bytes, InLow
  <2>3. at \in Nat /\ at + n <= Len(high) /\ at = addr - (Size - Len(high))
    BY <1>4, <2>1, InvFacts DEF HighAt
  <2> HIDE DEF at
  <2>4. IsBuffer(b) /\ Len(b) = n /\ \A k \in 1 .. n : b[k] = high[at + k]
    BY ZenonT(40), <2>3, <1>2, SubSeqIsRead
  <2> HIDE DEF b
  <2>5. ASSUME NEW k \in 1 .. n PROVE b[k] = r[k]
    <3> DEFINE x == addr + k - 1
    <3>1. x \in floor .. Size - 1 /\ x + 1 - (Size - Len(high)) = at + k
      <4>1. floor \in Nat /\ Size \in Nat /\ Len(high) \in Nat BY InvFacts
      <4>2. x \in floor .. Size - 1 BY <4>1, <1>4, <2>1
      <4>3. x + 1 - (Size - Len(high)) = at + k BY <4>1, <2>3
      <4> QED BY <4>2, <4>3
    <3>2. r[k] = flat[x] /\ b[k] = high[at + k] BY <1>1, <2>4
    <3> HIDE DEF x
    <3>3. flat[x] = high[x + 1 - (Size - Len(high))] BY <3>1, <1>2 DEF Mirrors
    <3> QED BY <3>1, <3>2, <3>3
  <2>6. b = r BY <1>1, <2>4, <2>5, SameElements
  <2> QED BY <2>2, <2>6 DEF r
<1> QED BY <1>3, <1>4

\* A write to one of the buffers, and the same write to the flat memory.
LEMMA WriteInv ==
  ASSUME MemInv, NEW addr \in Nat, NEW b, IsBuffer(b), CanAccess(addr, Len(b)),
         Write(addr, b), flat' = FlatWrite(flat, addr, b)
  PROVE  /\ IsBuffer(low') /\ Len(low') = Len(low)
         /\ IsBuffer(high') /\ Len(high') = Len(high)
         /\ Mirrors(low', high', floor, flat')
<1> DEFINE n == Len(b)
<1>1. n \in Nat BY BufferLen
<1>2. IsBuffer(low) /\ IsBuffer(high) /\ Mirrors(low, high, floor, flat)
  BY DEF MemInv, Backs
<1> DEFINE fl == FlatWrite(flat, addr, b)
<1>3. fl = [x \in 0 .. Size - 1 |->
              IF x \in addr .. addr + n - 1 THEN b[x - addr + 1] ELSE flat[x]]
  BY InvFacts DEF FlatWrite, Zone
<1> HIDE DEF fl, n
<1>4. fl = [x \in 0 .. Size - 1 |-> fl[x]] BY <1>3
<1>5. CASE addr < floor
  <2>1. addr + n <= floor /\ addr + n <= Len(low) BY <1>1, <1>5, Access DEF n
  <2> DEFINE new == Put(low, addr, b)
  <2>2. low' = new /\ high' = high BY <1>5 DEF Write, InLow
  <2>3. /\ IsBuffer(new) /\ Len(new) = Len(low)
        /\ \A x \in 1 .. Len(low) :
             new[x] = IF addr < x /\ x <= addr + n THEN b[x - addr] ELSE low[x]
    BY <1>2, PutFacts DEF n
  <2> HIDE DEF new
  <2>4. ASSUME NEW x \in 0 .. floor - 1 PROVE fl[x] = IF x < Len(new) THEN new[x + 1] ELSE 0
    <3>1. x \in Nat /\ x \in 0 .. Size - 1 BY InvFacts
    <3>2. flat[x] = IF x < Len(low) THEN low[x + 1] ELSE 0 BY <1>2 DEF Mirrors
    <3>3. fl[x] = IF x \in addr .. addr + n - 1 THEN b[x - addr + 1] ELSE flat[x]
      BY <3>1, <1>3
    <3>4. CASE x < Len(low)
      <4>1. x + 1 \in 1 .. Len(low) /\ (x + 1) - addr = x - addr + 1
            /\ (addr < x + 1 /\ x + 1 <= addr + n <=> x \in addr .. addr + n - 1)
        BY <3>1, <3>4, <1>1, InvFacts
      <4>2. new[x + 1] = IF addr < x + 1 /\ x + 1 <= addr + n THEN b[(x + 1) - addr] ELSE low[x + 1]
        BY <4>1, <2>3
      <4> QED BY <3>2, <3>3, <3>4, <4>1, <4>2, <2>3
    <3>5. CASE ~(x < Len(low))
      <4>1. x \notin addr .. addr + n - 1 BY <2>1, <3>1, <3>5, <1>1, InvFacts
      <4> QED BY <3>2, <3>3, <3>5, <4>1, <2>3
    <3> QED BY <3>4, <3>5
  <2>5. ASSUME NEW x \in floor .. Size - 1 PROVE fl[x] = high[x + 1 - (Size - Len(high))]
    <3>1. x \in 0 .. Size - 1 /\ x \notin addr .. addr + n - 1 BY <2>1, <1>1, InvFacts
    <3> QED BY <3>1, <1>2, <1>3 DEF Mirrors
  <2>6. Mirrors(new, high, floor, fl) BY <2>4, <2>5, <1>2, <1>4 DEF Mirrors
  <2> QED BY <2>2, <2>3, <2>6, <1>2 DEF fl
<1>6. CASE ~(addr < floor)
  <2>1. addr + n <= Size BY <1>1, <1>6, Access DEF n
  <2> DEFINE at == HighAt(addr)
             new == Put(high, at, b)
  <2>2. low' = low /\ high' = new BY <1>6 DEF Write, InLow
  <2>3. at \in Nat /\ at = addr - (Size - Len(high)) BY <1>6, InvFacts DEF HighAt
  <2> HIDE DEF at
  <2>4. /\ IsBuffer(new) /\ Len(new) = Len(high)
        /\ \A x \in 1 .. Len(high) :
             new[x] = IF at < x /\ x <= at + n THEN b[x - at] ELSE high[x]
    BY <2>3, <1>2, PutFacts DEF n
  <2> HIDE DEF new
  <2>5. ASSUME NEW x \in 0 .. floor - 1 PROVE fl[x] = IF x < Len(low) THEN low[x + 1] ELSE 0
    <3>1. x \in 0 .. Size - 1 /\ x \notin addr .. addr + n - 1 BY <1>1, <1>6, InvFacts
    <3> QED BY <3>1, <1>2, <1>3 DEF Mirrors
  <2>6. ASSUME NEW x \in floor .. Size - 1 PROVE fl[x] = new[x + 1 - (Size - Len(new))]
    <3> DEFINE i == x + 1 - (Size - Len(high))
    <3>1. x \in 0 .. Size - 1 /\ i \in 1 .. Len(high) /\ i - at = x - addr + 1
          /\ (at < i /\ i <= at + n <=> x \in addr .. addr + n - 1)
      <4>1. floor \in Nat /\ Size \in Nat /\ Len(high) \in Nat /\ floor <= Size
            /\ Size - floor <= Len(high) /\ Len(high) <= Size
        BY InvFacts
      <4>2. x \in 0 .. Size - 1 /\ i \in 1 .. Len(high) BY <4>1
      <4>3. i - at = x - addr + 1 /\ at \in Int /\ i \in Int /\ x \in Int BY <4>1, <2>3
      <4> HIDE DEF i
      <4>4. at < i /\ i <= at + n <=> x \in addr .. addr + n - 1 BY <4>3, <1>1
      <4> QED BY <4>2, <4>3, <4>4
    <3>2. flat[x] = high[i] BY <1>2 DEF Mirrors
    <3> HIDE DEF i
    <3>3. new[i] = IF at < i /\ i <= at + n THEN b[i - at] ELSE high[i] BY <3>1, <2>4
    <3>4. fl[x] = IF x \in addr .. addr + n - 1 THEN b[x - addr + 1] ELSE flat[x]
      BY <3>1, <1>3
    <3>5. fl[x] = new[i] BY <3>1, <3>2, <3>3, <3>4
    <3> QED BY <3>5, <2>4 DEF i
  <2>7. ASSUME NEW x \in Size - Len(new) .. floor - 1 PROVE new[x + 1 - (Size - Len(new))] = 0
    <3> DEFINE i == x + 1 - (Size - Len(high))
    <3>1. i \in 1 .. Len(high) /\ ~(at < i) /\ x \in Size - Len(high) .. floor - 1
      BY SMTT(30), <2>3, <2>4, <1>6, InvFacts
    <3>2. high[i] = 0 BY <3>1, <1>2 DEF Mirrors
    <3> HIDE DEF i
    <3>3. new[i] = 0 BY <3>1, <3>2, <2>4
    <3> QED BY <3>3, <2>4 DEF i
  <2>8. Mirrors(low, new, floor, fl) BY <2>5, <2>6, <2>7, <1>4 DEF Mirrors
  <2> QED BY <2>2, <2>4, <2>8, <1>2 DEF fl
<1> QED BY <1>5, <1>6

\* Both registers and the flat memory follow; areas stay.
LEMMA InstInv ==
  ASSUME MemInv, Kept, reg' = flatReg',
         \/ low' = low /\ high' = high /\ flat' = flat
         \/ /\ IsBuffer(low') /\ Len(low') = Len(low)
            /\ IsBuffer(high') /\ Len(high') = Len(high)
            /\ Mirrors(low', high', floor, flat')
  PROVE  MemInv'
<1>1. sp' = sp /\ floor' = floor /\ frames' = frames /\ allocs' = allocs BY DEF Kept
<1>2. Backs(low', high', sp, floor) /\ Mirrors(low', high', floor, flat')
  BY DEF MemInv, Backs
<1> QED BY <1>1, <1>2 DEF MemInv

LEMMA ToBytesFacts ==
  ASSUME NEW bits, NEW n \in Nat
  PROVE  IsBuffer(ToBytes(bits, n)) /\ Len(ToBytes(bits, n)) = n
<1> DEFINE r == ToBytes(bits, n)
           R == {r[k] : k \in 1 .. n}
<1>1. r = [k \in 1 .. n |-> r[k]] BY DEF ToBytes
<1> HIDE DEF r
<1>2. r \in [1 .. n -> R] BY <1>1
<1>3. r \in Seq(R) /\ Len(r) = n
  <2> HIDE DEF R
  <2> QED BY <1>2, FunctionSeq
<1> QED BY <1>3 DEF IsBuffer, r

LEMMA InputTypes ==
  /\ \A addr \in Ptrs : addr \in Nat
  /\ \A n \in Lens : n \in Nat
  /\ \A size \in Sizes : size \in Nat
BY MemoryAssumption DEF Sizes

LEMMA ConstInv == MemInv /\ Const => MemInv'
<1> SUFFICES ASSUME MemInv, Const PROVE MemInv' OBVIOUS
<1>1. Kept /\ reg' = flatReg' /\ low' = low /\ high' = high /\ flat' = flat
  BY DEF Const, Kept
<1> QED BY <1>1, InstInv

LEMMA LoadInv == MemInv /\ Load => MemInv'
<1> SUFFICES ASSUME MemInv, Load PROVE MemInv' OBVIOUS
<1>1. PICK addr \in Ptrs, size \in Sizes :
        /\ CanAccess(addr, size)
        /\ reg' = Bits(Bytes(addr, size)) /\ flatReg' = Bits(FlatRead(flat, addr, size))
        /\ UNCHANGED <<low, high, sp, floor, frames, allocs, flat>>
  BY DEF Load
<1>2. Bytes(addr, size) = FlatRead(flat, addr, size) BY <1>1, InputTypes, BytesAreFlat
<1>3. Kept /\ reg' = flatReg' /\ low' = low /\ high' = high /\ flat' = flat
  BY <1>1, <1>2 DEF Kept
<1> QED BY <1>3, InstInv

LEMMA StoreInv == MemInv /\ Store => MemInv'
<1> SUFFICES ASSUME MemInv, Store PROVE MemInv' OBVIOUS
<1>1. PICK addr \in Ptrs, size \in Sizes :
        /\ CanAccess(addr, size)
        /\ Write(addr, ToBytes(reg, size))
        /\ flat' = FlatWrite(flat, addr, ToBytes(flatReg, size))
        /\ Kept /\ UNCHANGED <<reg, flatReg>>
  BY DEF Store
<1> DEFINE b == ToBytes(reg, size)
<1>2. reg = flatReg BY DEF MemInv
<1>3. IsBuffer(b) /\ Len(b) = size BY InputTypes, ToBytesFacts
<1>4. Write(addr, b) /\ flat' = FlatWrite(flat, addr, b) /\ CanAccess(addr, Len(b))
  BY <1>1, <1>2, <1>3
<1>5. reg' = flatReg' BY <1>1, <1>2
<1> HIDE DEF b
<1>6. addr \in Nat BY InputTypes
<1> QED BY <1>1, <1>3, <1>4, <1>5, <1>6, WriteInv, InstInv

LEMMA AtomicRmwInv == MemInv /\ AtomicRmw => MemInv'
<1> SUFFICES ASSUME MemInv, AtomicRmw PROVE MemInv' OBVIOUS
<1>1. PICK addr \in Ptrs, size \in Sizes, op \in {"xchg", "add", "sub", "max", "min"} :
        LET m == ByteRange ^ size
            old == Bits(Bytes(addr, size))
            was == Bits(FlatRead(flat, addr, size))
        IN  /\ CanAccess(addr, size)
            /\ reg' = old /\ flatReg' = was
            /\ Write(addr, ToBytes(Rmw(op, old, reg % m, m), size))
            /\ flat' = FlatWrite(flat, addr, ToBytes(Rmw(op, was, flatReg % m, m), size))
            /\ Kept
  BY DEF AtomicRmw
<1> DEFINE m == ByteRange ^ size
           old == Bits(Bytes(addr, size))
           b == ToBytes(Rmw(op, old, reg % m, m), size)
<1>2. Bytes(addr, size) = FlatRead(flat, addr, size) BY <1>1, InputTypes, BytesAreFlat
<1>3. reg = flatReg BY DEF MemInv
<1>4. IsBuffer(b) /\ Len(b) = size BY InputTypes, ToBytesFacts
<1>5. Write(addr, b) /\ flat' = FlatWrite(flat, addr, b) BY <1>1, <1>2, <1>3
<1>6. reg' = flatReg' /\ Kept BY <1>1, <1>2
<1>7. CanAccess(addr, Len(b)) BY <1>1, <1>4
<1> HIDE DEF b
<1>8. addr \in Nat BY InputTypes
<1> QED BY <1>4, <1>5, <1>6, <1>7, <1>8, WriteInv, InstInv

LEMMA CmpXchgInv == MemInv /\ CmpXchg => MemInv'
<1> SUFFICES ASSUME MemInv, CmpXchg PROVE MemInv' OBVIOUS
<1>1. PICK addr \in Ptrs, size \in Sizes : \E new \in 0 .. ByteRange ^ size - 1 :
        /\ CanAccess(addr, size)
        /\ reg' = Bits(Bytes(addr, size))
        /\ flatReg' = Bits(FlatRead(flat, addr, size))
        /\ IF reg = reg' THEN Write(addr, ToBytes(new, size)) ELSE UNCHANGED <<low, high>>
        /\ flat' = IF flatReg = flatReg' THEN FlatWrite(flat, addr, ToBytes(new, size)) ELSE flat
        /\ Kept
  BY DEF CmpXchg
<1>2. PICK new :
        /\ CanAccess(addr, size)
        /\ reg' = Bits(Bytes(addr, size))
        /\ flatReg' = Bits(FlatRead(flat, addr, size))
        /\ IF reg = reg' THEN Write(addr, ToBytes(new, size)) ELSE UNCHANGED <<low, high>>
        /\ flat' = IF flatReg = flatReg' THEN FlatWrite(flat, addr, ToBytes(new, size)) ELSE flat
        /\ Kept
  BY <1>1
<1> DEFINE b == ToBytes(new, size)
<1>3. Bytes(addr, size) = FlatRead(flat, addr, size) BY <1>2, InputTypes, BytesAreFlat
<1>4. reg = flatReg BY DEF MemInv
<1>5. reg' = flatReg' BY <1>2, <1>3
<1>6. CASE reg = reg'
  <2>1. IsBuffer(b) /\ Len(b) = size BY InputTypes, ToBytesFacts
  <2>2. Write(addr, b) /\ flat' = FlatWrite(flat, addr, b) BY <1>2, <1>4, <1>5, <1>6
  <2>3. CanAccess(addr, Len(b)) BY <1>2, <2>1
  <2> HIDE DEF b
  <2>4. addr \in Nat BY InputTypes
  <2> QED BY <1>2, <1>5, <2>1, <2>2, <2>3, <2>4, WriteInv, InstInv
<1>7. CASE reg # reg'
  <2>1. low' = low /\ high' = high /\ flat' = flat BY <1>2, <1>4, <1>5, <1>7
  <2> QED BY <1>2, <1>5, <2>1, InstInv
<1> QED BY <1>6, <1>7

\* The source is taken out before the first byte is written, so an overlap does no harm.
LEMMA MemCopyInv == MemInv /\ MemCopy => MemInv'
<1> SUFFICES ASSUME MemInv, MemCopy PROVE MemInv' OBVIOUS
<1>1. PICK d \in Ptrs, s \in Ptrs, n \in Lens :
        /\ CanAccess(s, n) /\ CanAccess(d, n)
        /\ Write(d, Bytes(s, n))
        /\ flat' = FlatCopy(flat, d, s, n)
        /\ Kept /\ UNCHANGED <<reg, flatReg>>
  BY DEF MemCopy, Moved
<1>2. d \in Nat /\ s \in Nat /\ n \in Nat BY InputTypes
<1> DEFINE b == FlatRead(flat, s, n)
<1>3. Bytes(s, n) = b BY <1>1, <1>2, BytesAreFlat
<1>4. IsBuffer(b) /\ Len(b) = n /\ \A k \in 1 .. n : b[k] = flat[s + k - 1]
  BY <1>2, ReadFacts
<1> HIDE DEF b
<1>5. FlatCopy(flat, d, s, n) = FlatWrite(flat, d, b)
  <2>1. ASSUME NEW x \in DOMAIN flat
        PROVE (IF x \in Zone(d, n) THEN flat[s + (x - d)] ELSE flat[x])
              = (IF x \in Zone(d, Len(b)) THEN b[x - d + 1] ELSE flat[x])
    <3>1. CASE x \in Zone(d, n)
      <4> DEFINE k == x - d + 1
      <4>1. k \in 1 .. n /\ s + k - 1 = s + (x - d) BY SMTT(30), <3>1, <1>2, InvFacts DEF Zone
      <4> HIDE DEF k
      <4>2. b[k] = flat[s + (x - d)] BY <4>1, <1>4
      <4> QED BY <3>1, <4>2, <1>4 DEF k
    <3>2. CASE x \notin Zone(d, n) BY <3>2, <1>4
    <3> QED BY <3>1, <3>2
  <2> QED BY <2>1 DEF FlatCopy, FlatWrite
<1>6. Write(d, b) /\ flat' = FlatWrite(flat, d, b) /\ CanAccess(d, Len(b))
  BY <1>1, <1>3, <1>4, <1>5
<1>7. reg' = flatReg' BY <1>1 DEF MemInv
<1> QED BY <1>1, <1>2, <1>4, <1>6, <1>7, WriteInv, InstInv

LEMMA MemSetInv == MemInv /\ MemSet => MemInv'
<1> SUFFICES ASSUME MemInv, MemSet PROVE MemInv' OBVIOUS
<1>1. PICK d \in Ptrs, n \in Lens :
        /\ CanAccess(d, n)
        /\ Write(d, [k \in 1 .. n |-> reg % ByteRange])
        /\ flat' = FlatFill(flat, Zone(d, n), flatReg % ByteRange)
        /\ Kept /\ UNCHANGED <<reg, flatReg>>
  BY DEF MemSet
<1>2. d \in Nat /\ n \in Nat /\ reg = flatReg BY InputTypes DEF MemInv
<1> DEFINE v == reg % ByteRange
           b == [k \in 1 .. n |-> v]
<1>3. b \in [1 .. n -> {v}] /\ \A k \in 1 .. n : b[k] = v
  <2> HIDE DEF v
  <2> QED OBVIOUS
<1> HIDE DEF b
<1>4. b \in Seq({v}) /\ Len(b) = n BY <1>2, <1>3, FunctionSeq
<1>5. IsBuffer(b) BY <1>4 DEF IsBuffer
<1>6. Write(d, b) /\ flat' = FlatFill(flat, Zone(d, n), v) BY <1>1, <1>2 DEF b
<1> HIDE DEF v
<1>7. FlatFill(flat, Zone(d, n), v) = FlatWrite(flat, d, b)
  <2>1. ASSUME NEW x \in DOMAIN flat
        PROVE (IF x \in Zone(d, n) THEN v ELSE flat[x])
              = (IF x \in Zone(d, Len(b)) THEN b[x - d + 1] ELSE flat[x])
    <3>1. CASE x \in Zone(d, n)
      <4>1. x - d + 1 \in 1 .. n BY <3>1, <1>2, InvFacts DEF Zone
      <4> QED BY <3>1, <4>1, <1>3, <1>4
    <3>2. CASE x \notin Zone(d, n) BY <3>2, <1>4
    <3> QED BY <3>1, <3>2
  <2> QED BY <2>1 DEF FlatFill, FlatWrite
<1>8. flat' = FlatWrite(flat, d, b) /\ CanAccess(d, Len(b)) BY <1>1, <1>4, <1>6, <1>7
<1>9. reg' = flatReg' BY <1>1, <1>2
<1> QED BY <1>1, <1>2, <1>5, <1>6, <1>8, <1>9, WriteInv, InstInv

------------------------------------------------------------------------------
LEMMA StutterInv == MemInv /\ UNCHANGED vars => MemInv'
BY DEF vars, MemInv, Ordered, Backs, FramesIn, AllocsIn, Mirrors

\* The invariant above, of every reachable state: for any globals that fit, any
\* frames, any requests of the host and any program.
THEOREM MemInvHolds == Spec => []MemInv
<1>1. MemInv /\ [Next]_vars => MemInv'
  BY AllocInv, PushInv, PopInv, ConstInv, LoadInv, StoreInv, AtomicRmwInv, CmpXchgInv,
     MemCopyInv, MemSetInv, StutterInv DEF Next
<1> QED BY <1>1, InitInv, PTL DEF Spec

LEMMA InvImpliesFlat == MemInv => BytesFlat
<1> SUFFICES ASSUME MemInv PROVE BytesFlat OBVIOUS
<1>1. ASSUME NEW x \in 0 .. Size - 1, Live(x, 1)
      PROVE CanAccess(x, 1) /\ Bytes(x, 1) = <<flat[x]>>
  <2>1. x \in Nat BY InvFacts
  <2>2. CanAccess(x, 1) BY <1>1, <2>1, LiveBacked
  <2> DEFINE r == FlatRead(flat, x, 1)
             one == <<flat[x]>>
  <2>3. Bytes(x, 1) = r BY <2>1, <2>2, BytesAreFlat
  <2>4. IsBuffer(r) /\ Len(r) = 1 /\ r[1] = flat[x]
    <3>1. PICK n \in Nat : n = 1 OBVIOUS
    <3>2. /\ IsBuffer(FlatRead(flat, x, n)) /\ Len(FlatRead(flat, x, n)) = n
          /\ \A k \in 1 .. n : FlatRead(flat, x, n)[k] = flat[x + k - 1]
      <4> HIDE DEF r, one
      <4> QED BY <2>1, ReadFacts
    <3>3. 1 \in 1 .. 1 /\ x + 1 - 1 = x BY <2>1
    <3>4. r = FlatRead(flat, x, n) BY <3>1
    <3> HIDE DEF r, one
    <3> QED BY <3>1, <3>2, <3>3, <3>4
  <2>5. IsBuffer(one) /\ Len(one) = 1 /\ one[1] = flat[x]
    <3> DEFINE v == flat[x]
    <3> HIDE DEF v
    <3>1. <<v>> \in Seq({v}) /\ Len(<<v>>) = 1 /\ <<v>>[1] = v OBVIOUS
    <3> QED BY <3>1 DEF v, IsBuffer
  <2> HIDE DEF r, one
  <2>6. r = one BY <2>4, <2>5, SameElements
  <2> QED BY <2>2, <2>3, <2>6 DEF one
<1> QED BY <1>1 DEF MemInv, BytesFlat

\* Every live byte is the one last written to its address, whichever buffer it is in,
\* however both have grown and whatever frames were there before (grow_low, grow_high,
\* claim_stack, read, write, and the instructions): for all sizes, globals, frames,
\* requests and programs.
THEOREM LiveBytesFlat == Spec => []BytesFlat
BY MemInvHolds, InvImpliesFlat, PTL

\* Where globals, slots and allocations are.
LEMMA GlobalPlace ==
  ASSUME MemInv, NEW g \in GlobalAreas
  PROVE  /\ g.addr \in Nat /\ g.size \in Nat \ {0}
         /\ Guard <= g.addr /\ g.addr + g.size <= GlobalsEnd
         /\ CanAccess(g.addr, g.size)
<1>1. PICK k \in 1 .. GlobalCount : g = Area(GlobalAt[k], GlobalSize(k))
  BY ConstantTypes DEF GlobalAreas, GlobalSize
<1>2. g.addr = GlobalAt[k] /\ g.size = GlobalSize(k) BY <1>1 DEF Area
<1>3. g.addr \in Nat /\ g.size \in Nat \ {0} /\ Guard <= g.addr /\ g.addr + g.size <= GlobalsEnd
  BY <1>2, GlobalsLaid, Bases, ConstantTypes
<1>4. Live(g.addr, g.size) BY <1>3, ConstantTypes DEF Live
<1> QED BY <1>3, <1>4, LiveBacked

LEMMA SlotPlace ==
  ASSUME MemInv, NEW k \in 1 .. Len(frames), NEW i \in 1 .. Len(frames[k].slots)
  PROVE  LET a == frames[k].slots[i]
         IN  /\ a.addr \in Nat /\ a.size \in Nat \ {0}
             /\ StackBase <= a.addr /\ a.addr + a.size <= sp
             /\ frames[k].mark \in Nat /\ frames[k].mark <= a.addr
             /\ CanAccess(a.addr, a.size)
<1> DEFINE a == frames[k].slots[i]
<1>1. /\ frames \in Seq(FrameAreas)
      /\ StackBase <= frames[k].mark /\ frames[k].mark <= sp
      /\ SlotsIn(frames[k].slots, frames[k].mark, sp)
  BY DEF MemInv, FramesIn
<1>2. frames[k] \in FrameAreas BY <1>1, ElementOfSeq
<1>3. frames[k].mark \in Nat BY <1>2 DEF FrameAreas
<1>4. frames[k].mark <= a.addr /\ a.addr + a.size <= sp BY <1>1 DEF SlotsIn
<1>5. a \in [addr : Nat, size : Nat \ {0}]
  <2>1. frames[k].slots \in Seq([addr : Nat, size : Nat \ {0}]) BY <1>1 DEF SlotsIn
  <2> QED BY <2>1, ElementOfSeq
<1>6. a.addr \in Nat /\ a.size \in Nat \ {0} BY <1>5
<1> HIDE DEF a
<1>7. StackBase <= a.addr BY <1>1, <1>3, <1>4, <1>6, Bases
<1>8. Live(a.addr, a.size) BY <1>4, <1>7, <1>6 DEF Live
<1>9. CanAccess(a.addr, a.size) BY <1>6, <1>8, LiveBacked
<1> QED BY <1>3, <1>4, <1>6, <1>7, <1>9 DEF a

LEMMA SlotOf ==
  ASSUME MemInv, NEW a \in SlotAreas
  PROVE  \E k \in 1 .. Len(frames) : \E i \in 1 .. Len(frames[k].slots) : a = frames[k].slots[i]
<1>1. frames \in Seq(FrameAreas) BY DEF MemInv, FramesIn
<1>2. DOMAIN frames = 1 .. Len(frames) BY <1>1, LenProperties
<1>3. PICK k \in 1 .. Len(frames) : a \in ToSet(frames[k].slots) BY <1>2 DEF SlotAreas
<1>4. frames[k].slots \in Seq([addr : Nat, size : Nat \ {0}])
  BY DEF MemInv, FramesIn, SlotsIn
<1>5. DOMAIN frames[k].slots = 1 .. Len(frames[k].slots) BY <1>4, LenProperties
<1>6. PICK i \in 1 .. Len(frames[k].slots) : a = frames[k].slots[i] BY <1>3, <1>5 DEF ToSet
<1> QED BY <1>6

LEMMA AllocPlace ==
  ASSUME MemInv, NEW a \in allocs
  PROVE  /\ a.addr \in Nat /\ a.size \in Nat
         /\ floor <= a.addr /\ a.addr + a.size <= Size
         /\ CanAccess(a.addr, a.size)
<1>1. a.addr \in Nat /\ a.size \in Nat /\ floor <= a.addr /\ a.addr + a.size <= Size
  BY DEF MemInv, AllocsIn
<1> QED BY <1>1, InvFacts DEF CanAccess, Live, Backed, InLow, HighAt

\* One area ends before the other begins.
Apart(a, b) == a.addr + a.size <= b.addr \/ b.addr + b.size <= a.addr

LEMMA SlotsApart ==
  ASSUME MemInv, NEW a \in SlotAreas, NEW b \in SlotAreas, a # b
  PROVE  Apart(a, b)
<1>1. PICK k \in 1 .. Len(frames) : \E i \in 1 .. Len(frames[k].slots) : a = frames[k].slots[i]
  BY SlotOf
<1>2. PICK i \in 1 .. Len(frames[k].slots) : a = frames[k].slots[i] BY <1>1
<1>3. PICK l \in 1 .. Len(frames) : \E j \in 1 .. Len(frames[l].slots) : b = frames[l].slots[j]
  BY SlotOf
<1>4. PICK j \in 1 .. Len(frames[l].slots) : b = frames[l].slots[j] BY <1>3
<1>5. Len(frames) \in Nat
  <2>1. frames \in Seq(FrameAreas) BY DEF MemInv, FramesIn
  <2> QED BY <2>1, LenProperties
<1>6. Len(frames[k].slots) \in Nat /\ Len(frames[l].slots) \in Nat
  <2>1. frames[k].slots \in Seq([addr : Nat, size : Nat \ {0}])
        /\ frames[l].slots \in Seq([addr : Nat, size : Nat \ {0}])
    BY DEF MemInv, FramesIn, SlotsIn
  <2> QED BY <2>1, LenProperties
<1>7. /\ a.addr \in Nat /\ a.size \in Nat /\ b.addr \in Nat /\ b.size \in Nat
      /\ frames[k].mark \in Nat /\ frames[k].mark <= a.addr
      /\ frames[l].mark \in Nat /\ frames[l].mark <= b.addr
  BY <1>2, <1>4, SlotPlace
<1>8. CASE k < l
  <2>1. k \in 1 .. l - 1 BY <1>5, <1>8
  <2>2. SlotsIn(frames[k].slots, frames[k].mark, frames[l].mark) BY <2>1 DEF MemInv, FramesIn
  <2>3. a.addr + a.size <= frames[l].mark BY <2>2, <1>2 DEF SlotsIn
  <2> QED BY <2>3, <1>7 DEF Apart
<1>9. CASE l < k
  <2>1. l \in 1 .. k - 1 BY <1>5, <1>9
  <2>2. SlotsIn(frames[l].slots, frames[l].mark, frames[k].mark) BY <2>1 DEF MemInv, FramesIn
  <2>3. b.addr + b.size <= frames[k].mark BY <2>2, <1>4 DEF SlotsIn
  <2> QED BY <2>3, <1>7 DEF Apart
<1>10. CASE k = l
  <2>1. i # j BY <1>2, <1>4, <1>10
  <2>2. SlotsIn(frames[k].slots, frames[k].mark, sp) BY DEF MemInv, FramesIn
  <2>3. CASE i < j
    <3>1. i \in 1 .. j - 1 BY <2>3, <1>6
    <3> QED BY <3>1, <2>2, <1>2, <1>4, <1>10 DEF SlotsIn, Apart
  <2>4. CASE j < i
    <3>1. j \in 1 .. i - 1 /\ j \in 1 .. Len(frames[k].slots) BY <2>4, <1>6, <1>10
    <3> QED BY <3>1, <2>2, <1>2, <1>4, <1>10 DEF SlotsIn, Apart
  <2> QED BY <2>1, <2>3, <2>4, <1>6, <1>10
<1> QED BY <1>5, <1>8, <1>9, <1>10

LEMMA GlobalsApart ==
  ASSUME NEW a \in GlobalAreas, NEW b \in GlobalAreas, a # b
  PROVE  Apart(a, b)
<1>1. PICK k \in 1 .. GlobalCount : a = Area(GlobalAt[k], GlobalSize(k))
  BY ConstantTypes DEF GlobalAreas, GlobalSize
<1>2. PICK l \in 1 .. GlobalCount : b = Area(GlobalAt[l], GlobalSize(l))
  BY ConstantTypes DEF GlobalAreas, GlobalSize
<1>3. /\ a.addr = GlobalAt[k] /\ a.size = GlobalSize(k)
      /\ b.addr = GlobalAt[l] /\ b.size = GlobalSize(l)
  BY <1>1, <1>2 DEF Area
<1>4. k # l BY <1>1, <1>2
<1>5. CASE k < l
  <2>1. k \in 1 .. l - 1 BY <1>5, ConstantTypes
  <2> QED BY <2>1, <1>3, GlobalsLaid DEF Apart
<1>6. CASE l < k
  <2>1. l \in 1 .. k - 1 BY <1>6, ConstantTypes
  <2> QED BY <2>1, <1>3, GlobalsLaid DEF Apart
<1> QED BY <1>4, <1>5, <1>6, ConstantTypes

LEMMA InvImpliesApart == MemInv => AreasApart
<1> SUFFICES ASSUME MemInv PROVE AreasApart OBVIOUS
<1>1. \A a \in SlotAreas :
        /\ a.addr \in Nat /\ a.size \in Nat \ {0}
        /\ StackBase <= a.addr /\ a.addr + a.size <= sp /\ CanAccess(a.addr, a.size)
  BY SlotOf, SlotPlace
<1>2. \A a \in Places :
        a.addr \in Nat /\ a.size \in Nat /\ a.addr >= Guard /\ CanAccess(a.addr, a.size)
  <2>1. ASSUME NEW a \in GlobalAreas
        PROVE a.addr \in Nat /\ a.size \in Nat /\ a.addr >= Guard /\ CanAccess(a.addr, a.size)
    BY GlobalPlace, ConstantTypes
  <2>2. ASSUME NEW a \in SlotAreas
        PROVE a.addr \in Nat /\ a.size \in Nat /\ a.addr >= Guard /\ CanAccess(a.addr, a.size)
    <3>1. Guard \in Nat /\ StackBase \in Nat /\ Guard <= StackBase BY Bases, ConstantTypes
    <3>2. a.addr \in Nat /\ StackBase <= a.addr BY <1>1
    <3> QED BY <1>1, <3>1, <3>2
  <2>3. ASSUME NEW a \in allocs
        PROVE a.addr \in Nat /\ a.size \in Nat /\ a.addr >= Guard /\ CanAccess(a.addr, a.size)
    <3>1. Guard \in Nat /\ floor \in Nat /\ Guard <= floor
      BY InvFacts, Bases, ConstantTypes
    <3>2. a.addr \in Nat /\ floor <= a.addr BY AllocPlace
    <3> QED BY <3>1, <3>2, AllocPlace
  <2> QED BY <2>1, <2>2, <2>3 DEF Places
<1>3. ASSUME NEW a \in Places, NEW b \in Places, a # b PROVE Apart(a, b)
  <2>1. ASSUME NEW g \in GlobalAreas, NEW c \in SlotAreas \cup allocs
        PROVE g.addr + g.size <= c.addr
    <3>1. g.addr \in Nat /\ g.size \in Nat /\ g.addr + g.size <= GlobalsEnd BY GlobalPlace
    <3>2. c.addr \in Nat /\ GlobalsEnd <= c.addr
      <4>1. CASE c \in SlotAreas
        <5>1. c.addr \in Nat /\ StackBase <= c.addr BY <1>1, <4>1
        <5> QED BY <5>1, InvFacts
      <4>2. CASE c \in allocs
        <5>1. c.addr \in Nat /\ floor <= c.addr BY <4>2, AllocPlace
        <5> QED BY <5>1, InvFacts
      <4> QED BY <4>1, <4>2
    <3> QED BY <3>1, <3>2, InvFacts
  <2>2. ASSUME NEW c \in SlotAreas, NEW d \in allocs
        PROVE c.addr + c.size <= d.addr
    <3>1. c.addr \in Nat /\ c.size \in Nat /\ c.addr + c.size <= sp BY <1>1
    <3>2. d.addr \in Nat /\ floor <= d.addr BY AllocPlace
    <3> QED BY <3>1, <3>2, InvFacts
  <2>3. \A c, d \in allocs : c # d => Apart(c, d) BY DEF MemInv, AllocsIn, Apart
  <2> QED BY <1>3, <2>1, <2>2, <2>3, SlotsApart, GlobalsApart DEF Places, Apart
<1>4. ASSUME NEW a \in Places, NEW b \in Places, a # b
      PROVE Zone(a.addr, a.size) \cap Zone(b.addr, b.size) = {}
  <2>1. Apart(a, b) BY <1>3, <1>4
  <2>2. a.addr \in Nat /\ a.size \in Nat /\ b.addr \in Nat /\ b.size \in Nat BY <1>2
  <2> QED BY <2>1, <2>2 DEF Zone, Apart
<1> QED BY <1>2, <1>4, InvFacts DEF AreasApart

\* Globals, slots of all frames and allocations never share a byte, lie outside the
\* guard and are accessible as a whole (with_limits, push_frame, pop_frame, alloc), for
\* any sizes, alignments and order of calls that fit.
THEOREM AreasStayApart == Spec => []AreasApart
BY MemInvHolds, InvImpliesApart, PTL
=============================================================================
