----------------------------- MODULE ValuesProofs -----------------------------
(***************************************************************************)
(* For every width of the integer types, every range of floats and every   *)
(* program: registers hold bit patterns of their types, what the type      *)
(* rules let stand outside a check raises no error, and edges read all     *)
(* their arguments first.                                                  *)
(*                                                                         *)
(* The invariant is that the bits of a register are a pattern of its type. *)
(* It is what bounds the operands of the next operation: an unsigned       *)
(* amount or exponent is never negative, so only a signed type can err in  *)
(* a shift that saturates or in a power (Policy and can_error of ops.rs).  *)
(***************************************************************************)
EXTENDS ValuesProps, CountingProofs

Types == IntTypes \cup {Bool, Float}

\* The bit patterns of a type, and what an operation with a result of that type may
\* give: a pattern, or one of the codes of OpError.
Patterns(ty) == IF IsFloat(ty) THEN Nat ELSE 0 .. 2 ^ ty.w - 1
Outcome(ty) == [kind : {"ok"}, v : Patterns(ty)] \cup [kind : {"error", "trap"}, v : 1 .. 6]

\* Powers of two grow from one.
LEMMA Powers2 ==
  /\ Word \in Nat
  /\ \A k \in 0 .. Word : 2 ^ k \in Nat \ {0}
  /\ \A k \in 0 .. Word : \A j \in 0 .. k : 2 ^ j <= 2 ^ k
<1>0. Word \in Nat BY ValuesAssumption
<1> DEFINE T == {k \in Nat : k <= Word => /\ 2 ^ k \in Nat \ {0}
                                        /\ \A j \in 0 .. k : 2 ^ j <= 2 ^ k}
<1>1. 0 \in T
  <2>1. 2 ^ 0 \in Nat \ {0} BY PowersAssumption
  <2>2. \A j \in 0 .. 0 : 2 ^ j <= 2 ^ 0
    <3>1. \A j \in 0 .. 0 : j = 0 OBVIOUS
    <3>2. 2 ^ 0 <= 2 ^ 0 BY <2>1
    <3> QED BY <3>1, <3>2
  <2> QED BY <2>1, <2>2
<1>2. ASSUME NEW k \in Nat, k \in T PROVE k + 1 \in T
  <2>1. ASSUME k + 1 <= Word
        PROVE  /\ 2 ^ (k + 1) \in Nat \ {0}
               /\ \A j \in 0 .. k + 1 : 2 ^ j <= 2 ^ (k + 1)
    <3> DEFINE p == 2 ^ k
               q == 2 ^ (k + 1)
    <3>1. p \in Nat \ {0} /\ \A j \in 0 .. k : 2 ^ j <= p BY <1>2, <2>1, <1>0
    <3>2. q = 2 * p BY <2>1, <1>0, PowersAssumption
    <3> HIDE DEF p, q
    <3>3. q \in Nat \ {0} /\ p <= q BY <3>1, <3>2
    <3>4. ASSUME NEW j \in 0 .. k + 1 PROVE 2 ^ j <= q
      <4>1. CASE j = k + 1 BY <4>1, <3>3 DEF q
      <4>2. CASE j # k + 1
        <5>1. j \in 0 .. k /\ j \in Nat BY <4>2
        <5>2. 2 ^ j <= p BY <5>1, <3>1
        <5>3. 2 ^ j \in Int BY <5>1
        <5> QED BY <5>2, <5>3, <3>3, <3>1
      <4> QED BY <4>1, <4>2
    <3> QED BY <3>3, <3>4 DEF q
  <2> QED BY <2>1
<1>3. Nat \subseteq T
  <2> HIDE DEF T
  <2> QED BY <1>1, <1>2, SetInduction
<1>4. \A k \in 0 .. Word : k \in T
  <2> HIDE DEF T
  <2> QED BY <1>3, <1>0
<1> QED BY <1>0, <1>4

\* A width is positive and no wider than a word; so is the width of every type.
LEMMA WidthFacts ==
  /\ Word \in Nat \ {0} /\ \A w \in Widths : w \in 1 .. Word
<1>1. ASSUME NEW w \in Widths PROVE w \in Nat \ {0} /\ w <= Word
  <2>1. PICK k \in 0 .. Word : w = 2 ^ k BY ValuesAssumption
  <2> QED BY <2>1, Powers2, ValuesAssumption
<1> QED BY <1>1, ValuesAssumption

LEMMA TypeFacts ==
  ASSUME NEW ty \in Types
  PROVE  /\ ty.w \in 1 .. Word /\ ty.signed \in BOOLEAN
         /\ ty.kind \in {"int", "bool", "float"}
         /\ 2 ^ ty.w \in Nat \ {0} /\ 2 ^ (ty.w - 1) \in Nat \ {0}
         /\ ~IsInt(ty) => ty.kind \in {"bool", "float"}
<1>1. /\ ty.w \in 1 .. Word /\ ty.signed \in BOOLEAN
      /\ ty.kind \in {"int", "bool", "float"}
  <2>1. CASE ty \in IntTypes
    <3>1. PICK w \in Widths, s \in BOOLEAN : ty = [kind |-> "int", w |-> w, signed |-> s]
      BY <2>1 DEF IntTypes, IntTy
    <3>2. ty.w = w /\ ty.signed = s /\ ty.kind = "int" BY <3>1
    <3> QED BY <3>2, WidthFacts
  <2>2. CASE ty \in {Bool, Float} 
    <3>1. /\ Bool.w = 1 /\ Bool.kind = "bool" /\ Bool.signed \in BOOLEAN
          /\ Float.w = 1 /\ Float.kind = "float" /\ Float.signed \in BOOLEAN
      BY DEF Bool, Float
    <3>2. ty = Bool \/ ty = Float BY <2>2
    <3>3. ty.w = 1 /\ ty.signed \in BOOLEAN /\ ty.kind \in {"bool", "float"} BY <3>1, <3>2
    <3> QED BY <3>3, WidthFacts
  <2> QED BY <2>1, <2>2 DEF Types
<1>2. ty.w \in 0 .. Word /\ ty.w - 1 \in 0 .. Word BY <1>1, WidthFacts
<1> QED BY <1>1, <1>2, Powers2 DEF IsInt

LEMMA IntIsType == \A w \in Widths, s \in BOOLEAN : IntTy(w, s) \in Types
BY DEF Types, IntTypes

LEMMA U32IsType == U32 \in Types
BY ValuesAssumption, IntIsType DEF U32

\* The narrowest width exists.
LEMMA I8IsType == I8 \in Types
<1> SUFFICES Min(Widths) \in Widths BY IntIsType DEF I8
<1> DEFINE Least(w) == \A x \in Widths : w <= x
           T == {m \in Nat : (\A w \in Widths : m <= w) \/ (\E w \in Widths : Least(w))}
<1>1. 0 \in T BY WidthFacts
<1>2. ASSUME NEW m \in Nat, m \in T PROVE m + 1 \in T
  <2>1. CASE \E w \in Widths : Least(w) BY <2>1
  <2>2. CASE \A w \in Widths : m <= w
    <3>1. CASE m \in Widths
      <4>1. Least(m) BY <2>2
      <4> QED BY <4>1, <3>1
    <3>2. CASE m \notin Widths BY <3>2, <2>2, WidthFacts
    <3> QED BY <3>1, <3>2
  <2> QED BY <1>2, <2>1, <2>2
<1>3. Word + 1 \in T
  <2> HIDE DEF T
  <2> QED BY <1>1, <1>2, SetInduction, WidthFacts
<1>4. ~(\A w \in Widths : Word + 1 <= w) BY WidthFacts, ValuesAssumption
<1>5. \E w \in Widths : Least(w) BY <1>3, <1>4
<1> QED BY <1>5 DEF Min

LEMMA IntTypeFacts ==
  ASSUME NEW ty \in IntTypes
  PROVE  /\ ty \in Types /\ IsInt(ty) /\ ~IsFloat(ty) /\ Patterns(ty) = 0 .. 2 ^ ty.w - 1
         /\ Patterns(ty) \subseteq Nat
<1>1. PICK w \in Widths, s \in BOOLEAN : ty = [kind |-> "int", w |-> w, signed |-> s]
  BY DEF IntTypes, IntTy
<1>2. ty.kind = "int" BY <1>1
<1>3. IsInt(ty) /\ ~IsFloat(ty) BY <1>2 DEF IsInt, IsFloat
<1>4. ty \in Types BY DEF Types
<1>5. 2 ^ ty.w \in Nat \ {0} BY <1>4, TypeFacts
<1> QED BY <1>3, <1>4, <1>5 DEF Patterns

\* A remainder modulo the size of a type is one of its patterns.
LEMMA ModFacts ==
  ASSUME NEW ty \in Types, NEW v \in Int
  PROVE  v % 2 ^ ty.w \in Patterns(ty) /\ Wrap(ty, v) \in Patterns(ty)
<1> DEFINE m == 2 ^ ty.w
<1>1. m \in Nat \ {0} BY TypeFacts
<1>2. Patterns(ty) = IF IsFloat(ty) THEN Nat ELSE 0 .. m - 1 BY DEF Patterns
<1>3. Wrap(ty, v) = v % m BY DEF Wrap
<1> HIDE DEF m
<1>4. v % m \in 0 .. m - 1 /\ 0 .. m - 1 \subseteq Nat BY <1>1
<1>5. v % m \in Patterns(ty) BY <1>2, <1>4
<1> QED BY <1>3, <1>5 DEF m

LEMMA SvalFacts ==
  ASSUME NEW ty \in Types, NEW bits \in Nat
  PROVE  Sval(ty, bits) \in Int /\ (~ty.signed => Sval(ty, bits) = bits)
BY TypeFacts DEF Sval

LEMMA RangeFacts ==
  ASSUME NEW ty \in Types
  PROVE  Lo(ty) \in Int /\ Hi(ty) \in Int
BY TypeFacts DEF Lo, Hi

Checkeds == {<<>>} \cup {<<i>> : i \in Int}

LEMMA CheckedFacts ==
  /\ \A v \in Int : Checked(v) \in Checkeds
  /\ \A p, q \in Checkeds : CheckedMul(p, q) \in Checkeds
<1>1. \A v \in Int : Checked(v) \in Checkeds BY DEF Checked, Checkeds
<1>2. ASSUME NEW p \in Checkeds, NEW q \in Checkeds PROVE CheckedMul(p, q) \in Checkeds
  <2>1. CASE p = <<>> \/ q = <<>> BY <2>1 DEF CheckedMul, Checkeds
  <2>2. CASE ~(p = <<>> \/ q = <<>>)
    <3>1. p[1] \in Int /\ q[1] \in Int BY <2>2 DEF Checkeds
    <3>2. p[1] * q[1] \in Int BY <3>1
    <3> QED BY <2>2, <3>2, <1>1 DEF CheckedMul
  <2> QED BY <2>1, <2>2
<1> QED BY <1>1, <1>2

LEMMA OutcomeFacts ==
  ASSUME NEW ty
  PROVE  /\ \A v \in Patterns(ty) : Ok(v) \in Outcome(ty) /\ Ok(v).kind = "ok"
         /\ \A v \in 1 .. 6 : Error(v) \in Outcome(ty) /\ Trap(v) \in Outcome(ty)
         /\ \A v : Error(v).kind = "error" /\ Trap(v).kind = "trap"
BY DEF Ok, Error, Trap, Outcome

LEMMA OverflowFacts ==
  ASSUME NEW ty, NEW policy, NEW wrapped \in Patterns(ty)
  PROVE  /\ Overflow(policy, wrapped) \in Outcome(ty)
         /\ Overflow(policy, wrapped).kind = "error" => policy.overflow = "error"
<1>1. ArithOverflow \in 1 .. 6 BY DEF ArithOverflow
<1> QED BY <1>1, OutcomeFacts DEF Overflow

LEMMA ExactFacts ==
  ASSUME NEW ty \in Types, NEW policy, NEW v \in Checkeds, NEW wrapped \in Patterns(ty)
  PROVE  /\ Exact(ty, policy, v, wrapped) \in Outcome(ty)
         /\ Exact(ty, policy, v, wrapped).kind = "error" => policy.overflow = "error"
<1>1. CASE v # <<>> /\ v[1] >= Lo(ty) /\ v[1] <= Hi(ty)
  <2>1. v[1] \in Int BY <1>1 DEF Checkeds
  <2>2. Wrap(ty, v[1]) \in Patterns(ty) BY <2>1, ModFacts
  <2>3. Exact(ty, policy, v, wrapped) = Ok(Wrap(ty, v[1])) BY <1>1 DEF Exact
  <2> QED BY <2>2, <2>3, OutcomeFacts
<1>2. CASE ~(v # <<>> /\ v[1] >= Lo(ty) /\ v[1] <= Hi(ty))
  <2>1. Exact(ty, policy, v, wrapped) = Overflow(policy, wrapped) BY <1>2 DEF Exact
  <2> QED BY <2>1, OverflowFacts
<1> QED BY <1>1, <1>2

\* The recursion of FromBits defines a function; the bits below w add up to less
\* than 2 ^ w.
LEMMA FromBitsFacts ==
  ASSUME NEW w \in 0 .. Word, NEW ones, ones \subseteq 0 .. w - 1
  PROVE  FromBits(ones) \in 0 .. 2 ^ w - 1
<1> DEFINE Add(k) == IF k - 1 \in ones THEN 2 ^ (k - 1) ELSE 0
           Val(f, k) == IF k = 0 THEN 0 ELSE f[k - 1] + Add(k)
           Sums(m) == \E f \in [0 .. m -> Nat] : \A k \in 0 .. m : f[k] = Val(f, k)
           T == {m \in Nat : m <= Word => Sums(m)}
<1>0. ASSUME NEW k \in 1 .. Word PROVE Add(k) \in Nat
  BY Powers2, WidthFacts
<1> HIDE DEF Add
<1>1. 0 \in T
  <2> DEFINE f == [k \in 0 .. 0 |-> 0]
  <2>1. f \in [0 .. 0 -> Nat] /\ \A k \in 0 .. 0 : f[k] = Val(f, k) OBVIOUS
  <2> HIDE DEF f
  <2> QED BY <2>1
<1>2. ASSUME NEW m \in Nat, m \in T PROVE m + 1 \in T
  <2>0. ASSUME m + 1 <= Word PROVE Sums(m + 1)
    <3>1. PICK f \in [0 .. m -> Nat] : \A k \in 0 .. m : f[k] = Val(f, k) BY <1>2, <2>0, WidthFacts
    <3> DEFINE g == [k \in 0 .. m + 1 |-> IF k <= m THEN f[k] ELSE f[m] + Add(m + 1)]
    <3>2. g \in [0 .. m + 1 -> Nat]
      <4>1. m + 1 \in 1 .. Word BY <2>0, WidthFacts
      <4>2. f[m] \in Nat /\ Add(m + 1) \in Nat BY <4>1, <1>0
      <4>3. f[m] + Add(m + 1) \in Nat BY <4>2
      <4> QED BY <4>3
    <3>3. ASSUME NEW k \in 0 .. m + 1 PROVE g[k] = Val(g, k)
      <4>1. CASE k = m + 1 BY <4>1
      <4>2. CASE k \in 0 .. m
        <5>1. g[k] = f[k] /\ (k # 0 => g[k - 1] = f[k - 1]) BY <4>2
        <5>2. f[k] = Val(f, k) BY <4>2, <3>1
        <5> HIDE DEF g
        <5> QED BY <5>1, <5>2
      <4> QED BY <4>1, <4>2
    <3> HIDE DEF g
    <3> QED BY <3>2, <3>3
  <2> HIDE DEF Sums
  <2> QED BY <1>2, <2>0
<1>3. Word \in T
  <2> HIDE DEF T
  <2> QED BY <1>1, <1>2, SetInduction, WidthFacts
<1>4. PICK f \in [0 .. Word -> Nat] : \A k \in 0 .. Word : f[k] = Val(f, k)
  <2>1. Sums(Word)
    <3> HIDE DEF Sums
    <3> QED BY <1>3, WidthFacts
  <2> HIDE DEF Val
  <2> QED BY <2>1
<1>5. f = [k \in 0 .. Word |-> Val(f, k)] BY <1>4
<1> DEFINE n == CHOOSE n : n = [k \in 0 .. Word |-> Val(n, k)]
<1>6. n = [k \in 0 .. Word |-> Val(n, k)]
  <2> HIDE DEF Val
  <2> QED BY <1>5
<1>7. FromBits(ones) = n[Word] BY DEF FromBits, Add
<1> HIDE DEF n
<1>w. 2 ^ w \in Nat \ {0} BY Powers2
<1> DEFINE U == {k \in Nat : k <= Word => n[k] \in Nat /\ n[k] < 2 ^ k /\ n[k] < 2 ^ w}
<1>8. 0 \in U
  <2>1. n[0] = 0 BY <1>6, WidthFacts
  <2>2. 2 ^ 0 \in Nat \ {0} BY PowersAssumption
  <2> QED BY <2>1, <2>2, <1>w
<1>9. ASSUME NEW k \in Nat, k \in U PROVE k + 1 \in U
  <2>0. ASSUME k + 1 <= Word
        PROVE  n[k + 1] \in Nat /\ n[k + 1] < 2 ^ (k + 1) /\ n[k + 1] < 2 ^ w
    <3>1. k + 1 \in 0 .. Word /\ k + 1 # 0 /\ k + 1 - 1 = k /\ k \in 0 .. Word BY <2>0, WidthFacts
    <3>2. n[k + 1] = Val(n, k + 1)
      <4> HIDE DEF Val
      <4> QED BY <1>6, <3>1
    <3>3. n[k + 1] = n[k] + (IF k \in ones THEN 2 ^ k ELSE 0) BY <3>1, <3>2 DEF Add
    <3>4. n[k] \in Nat /\ n[k] < 2 ^ k /\ n[k] < 2 ^ w BY <1>9, <2>0, WidthFacts
    <3>5. 2 ^ k \in Nat \ {0} /\ 2 ^ (k + 1) = 2 * 2 ^ k BY <3>1, Powers2, PowersAssumption
    <3> DEFINE p == 2 ^ k
               q == 2 ^ (k + 1)
               top == 2 ^ w
    <3>6. CASE k \in ones
      <4>1. k + 1 \in 0 .. w BY <3>6
      <4>2. q <= top BY <4>1, Powers2
      <4> HIDE DEF p, q, top
      <4>3. n[k + 1] = n[k] + p BY <3>3, <3>6 DEF p
      <4>4. n[k] \in Nat /\ n[k] < p BY <3>4 DEF p
      <4>5. p \in Nat /\ q = 2 * p BY <3>5 DEF p, q
      <4>6. top \in Nat BY <1>w DEF top
      <4>7. n[k + 1] \in Nat /\ n[k + 1] < q /\ n[k + 1] < top BY <4>2, <4>3, <4>4, <4>5, <4>6
      <4> QED BY <4>7 DEF q, top
    <3>7. CASE k \notin ones
      <4>1. n[k + 1] = n[k] BY <3>3, <3>4, <3>7
      <4> HIDE DEF p, q, top
      <4>2. n[k] \in Nat /\ n[k] < p BY <3>4 DEF p
      <4>3. p \in Nat /\ q = 2 * p BY <3>5 DEF p, q
      <4>4. n[k + 1] < q BY <4>1, <4>2, <4>3
      <4> QED BY <4>1, <4>4, <3>4 DEF q
    <3> QED BY <3>6, <3>7
  <2> QED BY <2>0
<1> QED
  <2> HIDE DEF U
  <2>1. Word \in U BY <1>8, <1>9, SetInduction, WidthFacts
  <2>2. n[Word] \in Nat /\ n[Word] < 2 ^ w BY <2>1, WidthFacts DEF U
  <2> QED BY <2>2, <1>7, <1>w

\* A pattern of w bits has no other.
LEMMA BitFacts ==
  ASSUME NEW w \in 0 .. Word, NEW a \in 0 .. 2 ^ w - 1, NEW k \in Bits, Bit(a, k)
  PROVE  k \in 0 .. w - 1
<1> SUFFICES ASSUME k >= w PROVE FALSE
  BY Powers2 DEF Bits
<1>1. w \in 0 .. k /\ k \in 0 .. Word BY Powers2 DEF Bits
<1>2. 2 ^ w <= 2 ^ k /\ 2 ^ w \in Nat /\ 2 ^ k \in Nat \ {0} BY <1>1, Powers2
<1> DEFINE p == 2 ^ k
<1>3. a \in Nat /\ a < p /\ p \in Nat \ {0} BY <1>2
<1>4. (a \div p) % 2 = 1 BY DEF Bit
<1> HIDE DEF p
<1>5. a \div p = 0 BY <1>3
<1> QED BY <1>4, <1>5

\* The loop of int_pow keeps its registers in range: u64 wraps, i128 is checked.
PowState == [e : Int, wrapped : Nat, wbase : Nat, power : Checkeds, base : Checkeds]
PowStep(s) == IF s.e <= 1 THEN s ELSE Multiplied(Squared(s))

LEMMA PowStepFacts ==
  /\ \A s \in PowState : Multiplied(s) \in PowState
  /\ \A s \in PowState : PowStep(s) \in PowState
<1>0. 2 ^ Word \in Nat \ {0} BY WidthFacts, Powers2
<1> DEFINE m == 2 ^ Word
<1>m. ASSUME NEW v \in Nat, NEW w \in Nat PROVE (v * w) % m \in Nat
  <2>1. v * w \in Nat OBVIOUS
  <2> HIDE DEF m
  <2> QED BY <2>1, <1>0 DEF m
<1>1. ASSUME NEW s \in PowState PROVE Multiplied(s) \in PowState
  <2> DEFINE w == (s.wrapped * s.wbase) % m
             p == CheckedMul(s.power, s.base)
  <2>1. s = [e |-> s.e, wrapped |-> s.wrapped, wbase |-> s.wbase, power |-> s.power, base |-> s.base]
        /\ s.e \in Int /\ s.wrapped \in Nat /\ s.wbase \in Nat /\ s.power \in Checkeds
        /\ s.base \in Checkeds
    BY DEF PowState
  <2>2. w \in Nat /\ p \in Checkeds
    <3>1. w \in Nat BY <2>1, <1>m
    <3>2. p \in Checkeds BY <2>1, CheckedFacts
    <3> QED BY <3>1, <3>2
  <2>3. Multiplied(s) = IF s.e % 2 = 0 THEN s ELSE [s EXCEPT !.wrapped = w, !.power = p]
    BY DEF Multiplied
  <2> HIDE DEF w, p, m
  <2>4. [s EXCEPT !.wrapped = w, !.power = p] \in PowState BY <2>2 DEF PowState
  <2> QED BY <2>3, <2>4
<1>2. ASSUME NEW s \in PowState PROVE Squared(s) \in PowState
  <2> DEFINE w == (s.wbase * s.wbase) % m
             p == CheckedMul(s.base, s.base)
             h == s.e \div 2
  <2>1. s.e \in Int /\ s.wbase \in Nat /\ s.base \in Checkeds BY DEF PowState
  <2>2. w \in Nat BY <2>1, <1>m
  <2>3. p \in Checkeds BY <2>1, CheckedFacts
  <2>4. h \in Int BY <2>1
  <2>5. Squared(s) = [s EXCEPT !.e = h, !.wbase = w, !.base = p] BY DEF Squared
  <2> HIDE DEF w, p, h, m
  <2> QED BY <2>2, <2>3, <2>4, <2>5 DEF PowState
<1> QED BY <1>1, <1>2 DEF PowStep

LEMMA IntPowFacts ==
  ASSUME NEW ty \in Types, NEW policy, NEW x \in Int, NEW e \in Int, NEW a \in Nat
  PROVE  /\ IntPow(ty, policy, x, e, a) \in Outcome(ty)
         /\ IntPow(ty, policy, x, e, a).kind = "error" => e < 0 \/ policy.overflow = "error"
<1> DEFINE start == Multiplied([e |-> e, wrapped |-> 1, wbase |-> a, power |-> <<1>>, base |-> <<x>>])
           Val(f, k) == IF k = 0 THEN start
                        ELSE IF f[k - 1].e <= 1 THEN f[k - 1] ELSE Multiplied(Squared(f[k - 1]))
           loop == CHOOSE loop : loop = [k \in 0 .. Word |-> Val(loop, k)]
<1>1. start \in PowState
  <2>1. [e |-> e, wrapped |-> 1, wbase |-> a, power |-> <<1>>, base |-> <<x>>] \in PowState
    BY DEF PowState, Checkeds
  <2> QED BY <2>1, PowStepFacts
<1>2. IntPow(ty, policy, x, e, a) =
        IF e < 0 THEN Error(NegativeExponent)
        ELSE Exact(ty, policy, loop[Word].power, loop[Word].wrapped % 2 ^ ty.w)
  BY DEF IntPow
<1> HIDE DEF start
<1>3. \E f : f = [k \in 0 .. Word |-> Val(f, k)]
  <2> DEFINE G == [s \in PowState |-> PowStep(s)]
  <2>1. G \in [PowState -> PowState] BY PowStepFacts
  <2>2. PICK g \in [Nat -> PowState] : g[0] = start /\ \A n \in Nat : g[n + 1] = G[g[n]]
    <3> HIDE DEF G
    <3> QED BY <1>1, <2>1, Iteration
  <2> DEFINE f == [k \in 0 .. Word |-> g[k]]
  <2>3. ASSUME NEW k \in 0 .. Word PROVE f[k] = Val(f, k)
    <3>1. CASE k = 0 BY <3>1, <2>2
    <3>2. CASE k # 0
      <4>1. k - 1 \in Nat /\ k - 1 \in 0 .. Word /\ k - 1 + 1 = k BY <3>2, WidthFacts
      <4>2. g[k] = G[g[k - 1]] BY <2>2, <4>1
      <4>3. g[k - 1] \in PowState BY <4>1
      <4>4. f[k] = g[k] /\ f[k - 1] = g[k - 1] BY <4>1
      <4> HIDE DEF f
      <4> QED BY <3>2, <4>2, <4>3, <4>4 DEF PowStep
    <3> QED BY <3>1, <3>2
  <2>4. f = [k \in 0 .. Word |-> f[k]] OBVIOUS
  <2> HIDE DEF f, Val
  <2> QED BY <2>3, <2>4
<1>4. loop = [k \in 0 .. Word |-> Val(loop, k)]
  <2> HIDE DEF Val
  <2> QED BY <1>3
<1> HIDE DEF loop
<1> DEFINE U == {k \in Nat : k <= Word => loop[k] \in PowState}
<1>5. 0 \in U
  <2>1. loop[0] = Val(loop, 0)
    <3> HIDE DEF Val
    <3> QED BY <1>4, WidthFacts
  <2> QED BY <2>1, <1>1
<1>6. ASSUME NEW k \in Nat, k \in U PROVE k + 1 \in U
  <2>1. ASSUME k + 1 <= Word PROVE loop[k + 1] \in PowState
    <3>1. k + 1 \in 0 .. Word /\ k + 1 # 0 /\ k + 1 - 1 = k BY <2>1, WidthFacts
    <3>2. loop[k + 1] = Val(loop, k + 1)
      <4> HIDE DEF Val
      <4> QED BY <1>4, <3>1
    <3>3. loop[k] \in PowState BY <1>6, <2>1, WidthFacts
    <3>4. loop[k + 1] = PowStep(loop[k]) BY <3>1, <3>2 DEF PowStep
    <3> QED BY <3>3, <3>4, PowStepFacts
  <2> QED BY <2>1
<1>7. loop[Word] \in PowState
  <2> HIDE DEF U
  <2>1. Word \in U BY <1>5, <1>6, SetInduction, WidthFacts
  <2> QED BY <2>1, WidthFacts DEF U
<1>8. loop[Word].power \in Checkeds /\ loop[Word].wrapped \in Nat BY <1>7 DEF PowState
<1>9. loop[Word].wrapped % 2 ^ ty.w \in Patterns(ty) BY <1>8, ModFacts
<1>10. Error(NegativeExponent) \in Outcome(ty) BY OutcomeFacts DEF NegativeExponent
<1> QED BY <1>2, <1>8, <1>9, <1>10, ExactFacts

LEMMA QuotFacts ==
  ASSUME NEW x \in Int, NEW y \in Int \ {0}
  PROVE  Quot(x, y) \in Int /\ Rem(x, y) \in Int /\ FloorQuot(x, y) \in Int /\ FloorRem(x, y) \in Int
<1>1. Abs(x) \in Nat /\ Abs(y) \in Nat \ {0} BY DEF Abs
<1> DEFINE d == Abs(x) \div Abs(y)
<1>2. d \in Int BY <1>1
<1>3. Quot(x, y) = IF (x < 0) = (y < 0) THEN d ELSE -d BY DEF Quot
<1> HIDE DEF d
<1>4. Quot(x, y) \in Int BY <1>2, <1>3
<1> DEFINE p == y * Quot(x, y)
<1>5. p \in Int BY <1>4
<1>6. Rem(x, y) = x - p BY DEF Rem
<1> HIDE DEF p
<1>7. Rem(x, y) \in Int BY <1>5, <1>6
<1>8. FloorQuot(x, y) \in Int BY <1>4 DEF FloorQuot
<1>9. FloorRem(x, y) \in Int BY <1>7 DEF FloorRem
<1> QED BY <1>4, <1>7, <1>8, <1>9

LEMMA PowerFacts ==
  ASSUME NEW ty \in Types, NEW n \in 0 .. ty.w - 1
  PROVE  2 ^ n \in Nat \ {0}
BY TypeFacts, Powers2, WidthFacts

LEMMA ShiftByFacts ==
  ASSUME NEW op, NEW ty \in Types, NEW a \in Nat, NEW n \in 0 .. ty.w - 1
  PROVE  ShiftBy(op, ty, a, n) \in Outcome(ty) /\ ShiftBy(op, ty, a, n).kind = "ok"
<1> DEFINE p == 2 ^ n
           l == a * p
           r == Sval(ty, a) \div p
<1>1. p \in Nat \ {0} BY PowerFacts
<1>2. l \in Int /\ r \in Int
  <2>1. Sval(ty, a) \in Int BY SvalFacts
  <2> HIDE DEF p
  <2> QED BY <1>1, <2>1
<1>3. ShiftBy(op, ty, a, n) = IF op = "shl" THEN Ok(l % 2 ^ ty.w) ELSE Ok(Wrap(ty, r))
  BY DEF ShiftBy
<1> HIDE DEF l, r
<1>4. l % 2 ^ ty.w \in Patterns(ty) /\ Wrap(ty, r) \in Patterns(ty) BY <1>2, ModFacts
<1> QED BY <1>3, <1>4, OutcomeFacts

\* Only an amount outside of the width errs, and not under mask; under saturate a
\* negative one, which only a signed type has.
LEMMA IntShiftFacts ==
  ASSUME NEW op, NEW policy, NEW ty \in IntTypes, NEW a \in Nat, NEW b \in Nat
  PROVE  /\ IntShift(op, policy, ty, a, b) \in Outcome(ty)
         /\ IntShift(op, policy, ty, a, b).kind = "error" =>
               policy.shift # "mask" /\ (policy.shift = "saturate" => ty.signed)
<1> DEFINE y == Sval(ty, b)
           out == IntShift(op, policy, ty, a, b)
           full == IF op = "shr" /\ Sval(ty, a) < 0 THEN 2 ^ ty.w - 1 ELSE 0
<1>t. ty \in Types BY IntTypeFacts
<1>0. y \in Int /\ (~ty.signed => y = b) BY <1>t, SvalFacts
<1>p. full \in Patterns(ty) BY <1>t, TypeFacts, IntTypeFacts
<1> HIDE DEF y, full
<1>1. CASE y \in 0 .. ty.w - 1
  <2>1. out = ShiftBy(op, ty, a, y) BY <1>1 DEF IntShift, y
  <2> QED BY <1>1, <1>t, <2>1, ShiftByFacts
<1>2. CASE y \notin 0 .. ty.w - 1 /\ policy.shift = "mask"
  <2> DEFINE n == b % ty.w
  <2>1. out = ShiftBy(op, ty, a, n) BY <1>2 DEF IntShift, y
  <2>2. n \in 0 .. ty.w - 1 BY <1>t, TypeFacts
  <2> HIDE DEF n
  <2> QED BY <1>t, <2>1, <2>2, ShiftByFacts
<1>3. CASE y \notin 0 .. ty.w - 1 /\ policy.shift # "mask" /\ policy.shift = "saturate" /\ y >= 0
  <2>1. out = Ok(full) BY <1>3 DEF IntShift, y, full
  <2> QED BY <2>1, <1>p, OutcomeFacts
<1>4. CASE y \notin 0 .. ty.w - 1 /\ policy.shift # "mask" /\ ~(policy.shift = "saturate" /\ y >= 0)
  <2>1. out = Error(ShiftOutOfRange) BY <1>4 DEF IntShift, y
  <2>2. out \in Outcome(ty) BY <2>1, OutcomeFacts DEF ShiftOutOfRange
  <2>3. policy.shift = "saturate" => ty.signed BY <1>4, <1>0
  <2> QED BY <1>4, <2>2, <2>3
<1> QED BY <1>1, <1>2, <1>3, <1>4

LEMMA DivZeroFacts ==
  ASSUME NEW ty, NEW policy
  PROVE  /\ DivZero(policy) \in Outcome(ty)
         /\ DivZero(policy).kind = "error" => policy.div_zero # "trap"
<1>1. DivByZero \in 1 .. 6 BY DEF DivByZero
<1> QED BY <1>1, OutcomeFacts DEF DivZero

\* Where an operation on integers errs.
IntErrs(op, policy, ty) ==
    \/ policy.overflow = "error"
    \/ op \in {"div", "floor_div", "rem", "floor_mod"} /\ policy.div_zero # "trap"
    \/ op \in {"shl", "shr"} /\ policy.shift # "mask" /\ (policy.shift = "saturate" => ty.signed)
    \/ op = "pow" /\ ty.signed

LEMMA IntBinaryFacts ==
  ASSUME NEW op \in BinaryOps \ {"ieee_rem", "total_cmp"}, NEW policy, NEW ty \in IntTypes,
         NEW a \in Patterns(ty), NEW b \in Patterns(ty)
  PROVE  /\ IntBinary(op, policy, ty, a, b) \in Outcome(ty)
         /\ IntBinary(op, policy, ty, a, b).kind = "error" => IntErrs(op, policy, ty)
<1> DEFINE x == Sval(ty, a)
           y == Sval(ty, b)
           m == 2 ^ ty.w
           out == IntBinary(op, policy, ty, a, b)
           Good == out \in Outcome(ty) /\ (out.kind = "error" => IntErrs(op, policy, ty))
           zero == op \in {"div", "floor_div", "rem", "floor_mod"} /\ y = 0
<1> SUFFICES Good OBVIOUS
<1>t. ty \in Types /\ a \in Nat /\ b \in Nat BY IntTypeFacts
<1>0. x \in Int /\ y \in Int /\ (~ty.signed => y = b) BY <1>t, SvalFacts
<1>1. CASE op = "add"
  <2> DEFINE v == Checked(x + y)
             w == (a + b) % m
  <2>1. out = Exact(ty, policy, v, w) BY <1>1 DEF IntBinary
  <2>2. v \in Checkeds /\ w \in Patterns(ty) BY <1>t, <1>0, CheckedFacts, ModFacts
  <2> HIDE DEF v, w, out, Good
  <2> QED BY <2>1, <2>2, <1>t, ExactFacts DEF Good, IntErrs
<1>2. CASE op = "sub"
  <2> DEFINE v == Checked(x - y)
             w == (a - b) % m
  <2>1. out = Exact(ty, policy, v, w) BY <1>2 DEF IntBinary
  <2>2. v \in Checkeds /\ w \in Patterns(ty) BY <1>t, <1>0, CheckedFacts, ModFacts
  <2> HIDE DEF v, w, out, Good
  <2> QED BY <2>1, <2>2, <1>t, ExactFacts DEF Good, IntErrs
<1>3. CASE op = "mul"
  <2> DEFINE v == Checked(x * y)
             w == (a * b) % m
  <2>1. out = Exact(ty, policy, v, w) BY <1>3 DEF IntBinary
  <2>2. x * y \in Int /\ a * b \in Int BY <1>0, <1>t
  <2>3. v \in Checkeds /\ w \in Patterns(ty) BY <1>t, <2>2, CheckedFacts, ModFacts
  <2> HIDE DEF v, w, out, Good
  <2> QED BY <2>1, <2>3, <1>t, ExactFacts DEF Good, IntErrs
<1>4. CASE zero
  <2>1. out = DivZero(policy)
    <3>1. op = "div" => out = DivZero(policy) BY <1>4 DEF IntBinary
    <3>2. op = "floor_div" => out = DivZero(policy) BY <1>4 DEF IntBinary
    <3>3. op = "rem" => out = DivZero(policy) BY <1>4 DEF IntBinary
    <3>4. op = "floor_mod" => out = DivZero(policy) BY <1>4 DEF IntBinary
    <3> HIDE DEF out
    <3> QED BY <1>4, <3>1, <3>2, <3>3, <3>4
  <2> HIDE DEF out, Good
  <2> QED BY <2>1, <1>4, DivZeroFacts DEF Good, IntErrs
<1>5. CASE op = "div" /\ ~zero
  <2> DEFINE q == Quot(x, y)
             w == Wrap(ty, q)
  <2>1. out = Exact(ty, policy, <<q>>, w) BY <1>5 DEF IntBinary
  <2>2. q \in Int BY <1>0, <1>5, QuotFacts
  <2>3. <<q>> \in Checkeds /\ w \in Patterns(ty) BY <1>t, <2>2, ModFacts DEF Checkeds
  <2> HIDE DEF q, w, out, Good
  <2> QED BY <2>1, <2>3, <1>t, ExactFacts DEF Good, IntErrs
<1>6. CASE op = "floor_div" /\ ~zero
  <2> DEFINE q == FloorQuot(x, y)
             w == Wrap(ty, q)
  <2>1. out = Exact(ty, policy, <<q>>, w) BY <1>6 DEF IntBinary
  <2>2. q \in Int BY <1>0, <1>6, QuotFacts
  <2>3. <<q>> \in Checkeds /\ w \in Patterns(ty) BY <1>t, <2>2, ModFacts DEF Checkeds
  <2> HIDE DEF q, w, out, Good
  <2> QED BY <2>1, <2>3, <1>t, ExactFacts DEF Good, IntErrs
<1>7. CASE op = "rem" /\ ~zero
  <2> DEFINE w == Wrap(ty, Rem(x, y))
  <2>1. out = Ok(w) BY <1>7 DEF IntBinary
  <2>2. Rem(x, y) \in Int BY <1>0, <1>7, QuotFacts
  <2>3. w \in Patterns(ty) BY <1>t, <2>2, ModFacts
  <2> HIDE DEF w, out, Good
  <2> QED BY <2>1, <2>3, OutcomeFacts DEF Good
<1>8. CASE op = "floor_mod" /\ ~zero
  <2> DEFINE w == Wrap(ty, FloorRem(x, y))
  <2>1. out = Ok(w) BY <1>8 DEF IntBinary
  <2>2. FloorRem(x, y) \in Int BY <1>0, <1>8, QuotFacts
  <2>3. w \in Patterns(ty) BY <1>t, <2>2, ModFacts
  <2> HIDE DEF w, out, Good
  <2> QED BY <2>1, <2>3, OutcomeFacts DEF Good
<1>9. CASE op \in {"and", "or", "xor"}
  <2> DEFINE both == {k \in Bits : Bit(a, k) /\ Bit(b, k)}
             any == {k \in Bits : Bit(a, k) \/ Bit(b, k)}
             one == {k \in Bits : Bit(a, k) # Bit(b, k)}
  <2>1. out = Ok(FromBits(both)) \/ out = Ok(FromBits(any)) \/ out = Ok(FromBits(one))
    <3>1. op = "and" => out = Ok(FromBits(both)) BY DEF IntBinary
    <3>2. op = "or" => out = Ok(FromBits(any)) BY DEF IntBinary
    <3>3. op = "xor" => out = Ok(FromBits(one)) BY DEF IntBinary
    <3> HIDE DEF out, both, any, one
    <3> QED BY <1>9, <3>1, <3>2, <3>3
  <2>2. ty.w \in 0 .. Word /\ a \in 0 .. 2 ^ ty.w - 1 /\ b \in 0 .. 2 ^ ty.w - 1
    BY <1>t, TypeFacts, IntTypeFacts
  <2>3. \A k \in Bits : Bit(a, k) \/ Bit(b, k) => k \in 0 .. ty.w - 1
    <3> HIDE DEF out, Good
    <3> QED BY <2>2, BitFacts
  <2>4. both \subseteq 0 .. ty.w - 1 /\ any \subseteq 0 .. ty.w - 1 /\ one \subseteq 0 .. ty.w - 1
    <3>1. \A k \in both \cup any \cup one : k \in Bits /\ (Bit(a, k) \/ Bit(b, k)) BY DEF Bit
    <3> HIDE DEF both, any, one, out, Good
    <3> QED BY <2>3, <3>1
  <2> HIDE DEF out, Good, both, any, one
  <2>5. /\ FromBits(both) \in Patterns(ty) /\ FromBits(any) \in Patterns(ty)
        /\ FromBits(one) \in Patterns(ty)
    BY <2>2, <2>4, FromBitsFacts, IntTypeFacts
  <2> QED BY <2>1, <2>5, OutcomeFacts DEF Good
<1>10. CASE op \in {"shl", "shr"}
  <2>1. out = IntShift(op, policy, ty, a, b) BY <1>10 DEF IntBinary
  <2> HIDE DEF out, Good
  <2> QED BY <2>1, <1>10, <1>t, IntShiftFacts DEF Good, IntErrs
<1>11. CASE op \in {"min", "max"}
  <2>1. out = Ok(a) \/ out = Ok(b) BY <1>11 DEF IntBinary
  <2> HIDE DEF out, Good
  <2> QED BY <2>1, OutcomeFacts DEF Good
<1>12. CASE op = "pow"
  <2>1. out = IntPow(ty, policy, x, y, a) BY <1>12 DEF IntBinary
  <2> HIDE DEF out, Good, x, y
  <2>2. y < 0 => ty.signed BY <1>0, <1>t
  <2> QED BY <2>1, <2>2, <1>0, <1>12, <1>t, IntPowFacts DEF Good, IntErrs
<1> QED
  <2>1. \/ op \in {"add", "sub", "mul", "and", "or", "xor", "shl", "shr", "min", "max", "pow"}
        \/ op \in {"div", "floor_div", "rem", "floor_mod"}
    BY DEF BinaryOps
  <2> HIDE DEF out, y, Good
  <2> QED BY <2>1, <1>1, <1>2, <1>3, <1>4, <1>5, <1>6, <1>7, <1>8, <1>9, <1>10, <1>11, <1>12

------------------------------------------------------------------------------
(* Floats: any number is a pattern of one. *)
LEMMA MagFacts ==
  ASSUME NEW f \in Nat
  PROVE  Mag(f) \in Nat
<1>1. SignBit \in Nat \ {0} BY ValuesAssumption
<1> QED BY <1>1 DEF Mag

LEMMA SignedFacts ==
  ASSUME NEW neg, NEW mag \in Nat
  PROVE  Signed(neg, mag) \in Nat
BY ValuesAssumption DEF Signed

LEMMA IeeeRemFacts ==
  ASSUME NEW a \in Nat, NEW b \in Nat
  PROVE  IeeeRem(a, b) \in Nat
<1>1. Nan \in Nat /\ MaxMag \in Nat /\ TinyMag \in Nat BY ValuesAssumption DEF Nan
<1>2. CASE Mag(b) = 0 \/ IsInf(a) \/ IsNan(a) \/ IsNan(b) \/ IsInf(b) BY <1>1, <1>2 DEF IeeeRem
<1>3. CASE ~(Mag(b) = 0 \/ IsInf(a) \/ IsNan(a) \/ IsNan(b) \/ IsInf(b))
  <2> DEFINE p == Mag(b)
             x == Mag(a)
             start == IF 2 * p <= MaxMag THEN x % (p + p) ELSE x
             r == Reduced(start, p)
             neg == (r < 0) # IsNeg(a)
  <2>1. IeeeRem(a, b) = Signed(neg, Abs(r)) BY <1>3 DEF IeeeRem
  <2>2. p \in Nat \ {0} /\ x \in Nat BY <1>3, MagFacts
  <2> HIDE DEF neg, p, x
  <2>3. start \in Int BY <2>2
  <2> HIDE DEF start
  <2>4. r \in Int BY <1>1, <2>2, <2>3 DEF Reduced
  <2> HIDE DEF r
  <2>5. Abs(r) \in Nat BY <2>4 DEF Abs
  <2> QED BY <2>1, <2>5, SignedFacts
<1> QED BY <1>2, <1>3

LEMMA FloatBinaryFacts ==
  ASSUME NEW op \in FloatModelled, NEW ty \in Types, IsFloat(ty), NEW a \in Nat, NEW b \in Nat
  PROVE  FloatBinary(op, a, b) \in Outcome(IF op = "total_cmp" THEN I8 ELSE ty)
         /\ FloatBinary(op, a, b).kind = "ok"
<1> DEFINE to == IF op = "total_cmp" THEN I8 ELSE ty
           out == FloatBinary(op, a, b)
<1> SUFFICES out \in Outcome(to) /\ out.kind = "ok" OBVIOUS
<1>0. Patterns(ty) = Nat BY DEF Patterns
<1>1. CASE op = "ieee_rem"
  <2>1. out = Ok(IeeeRem(a, b)) /\ to = ty BY <1>1 DEF FloatBinary
  <2> HIDE DEF out, to
  <2> QED BY <2>1, <1>0, IeeeRemFacts, OutcomeFacts
<1>2. CASE op \in {"min", "max"}
  <2>1. Nan \in Nat BY ValuesAssumption DEF Nan
  <2>2. Fmin(a, b) \in Nat BY <2>1 DEF Fmin
  <2>3. Fmax(a, b) \in Nat BY <2>1 DEF Fmax
  <2>4. (out = Ok(Fmin(a, b)) \/ out = Ok(Fmax(a, b))) /\ to = ty BY <1>2 DEF FloatBinary
  <2> HIDE DEF out, to
  <2> QED BY <2>2, <2>3, <2>4, <1>0, OutcomeFacts
<1>3. CASE op = "total_cmp"
  <2>1. out = Ok(Wrap(I8, TotalCmp(a, b))) /\ to = I8 BY <1>3 DEF FloatBinary
  <2>2. TotalCmp(a, b) \in Int BY DEF TotalCmp
  <2>3. Wrap(I8, TotalCmp(a, b)) \in Patterns(I8) BY <2>2, I8IsType, ModFacts
  <2> HIDE DEF out, to
  <2> QED BY <2>1, <2>3, OutcomeFacts
<1> QED BY <1>1, <1>2, <1>3 DEF FloatModelled

LEMMA FloatToIntFacts ==
  ASSUME NEW policy, NEW to \in IntTypes, NEW f \in Nat
  PROVE  /\ FloatToInt(policy, to, f) \in Outcome(to)
         /\ FloatToInt(policy, to, f).kind = "error" => policy.float_to_int # "saturate"
<1> DEFINE t == IF IsNeg(f) THEN -(Mag(f) \div 2) ELSE Mag(f) \div 2
           full == IF IsNan(f) THEN 0 ELSE IF IsNeg(f) THEN Wrap(to, Lo(to)) ELSE Wrap(to, Hi(to))
           inside == ~IsNan(f) /\ ~IsInf(f) /\ t >= Lo(to) /\ t < Hi(to) + 1
           out == FloatToInt(policy, to, f)
<1>0. to \in Types BY IntTypeFacts
<1>1. t \in Int BY MagFacts
<1>2. out = IF inside THEN Ok(Wrap(to, t))
            ELSE IF policy.float_to_int # "saturate" THEN Error(InvalidConversion) ELSE Ok(full)
  BY DEF FloatToInt
<1> HIDE DEF t, out
<1>3. Wrap(to, t) \in Patterns(to) BY <1>0, <1>1, ModFacts
<1>4. full \in Patterns(to)
  <2>1. 0 \in Patterns(to) BY <1>0, TypeFacts, IntTypeFacts
  <2>2. Wrap(to, Lo(to)) \in Patterns(to) /\ Wrap(to, Hi(to)) \in Patterns(to)
    BY <1>0, RangeFacts, ModFacts
  <2> QED BY <2>1, <2>2
<1>5. InvalidConversion \in 1 .. 6 BY DEF InvalidConversion
<1> HIDE DEF inside, full
<1>6. out \in Outcome(to) /\ (out.kind = "error" => policy.float_to_int # "saturate")
  BY <1>2, <1>3, <1>4, <1>5, OutcomeFacts
<1> QED BY <1>6 DEF out

------------------------------------------------------------------------------
(* eval_unary, eval_binary, eval_convert on values of accepted types. *)
LEMMA EvalUnaryFacts ==
  ASSUME NEW op \in UnaryOps, NEW policy, NEW ty \in Types, UnaryOk(op, ty), NEW a \in Patterns(ty)
  PROVE  /\ EvalUnary(op, policy, ty, a) \in Outcome(ty)
         /\ EvalUnary(op, policy, ty, a).kind = "error" => IsInt(ty) /\ policy.overflow = "error"
<1> DEFINE x == Sval(ty, a)
           out == EvalUnary(op, policy, ty, a)
           Good == out \in Outcome(ty) /\ (out.kind = "error" => IsInt(ty) /\ policy.overflow = "error")
<1> SUFFICES Good OBVIOUS
<1>0. a \in Nat /\ 2 ^ ty.w \in Nat \ {0} BY TypeFacts DEF Patterns
<1>1. CASE IsInt(ty) /\ op = "neg"
  <2> DEFINE w == Wrap(ty, 0 - x)
  <2>1. out = Exact(ty, policy, <<-x>>, w) BY <1>1 DEF EvalUnary, IsInt, IsFloat
  <2>2. x \in Int BY <1>0, SvalFacts
  <2>3. <<-x>> \in Checkeds BY <2>2 DEF Checkeds
  <2>4. w \in Patterns(ty) BY <2>2, ModFacts
  <2> HIDE DEF out, Good, w, x
  <2> QED BY <1>1, <2>1, <2>3, <2>4, ExactFacts DEF Good
<1>2. CASE IsInt(ty) /\ op = "abs"
  <2> DEFINE w == Wrap(ty, Abs(x))
  <2>1. out = Exact(ty, policy, <<Abs(x)>>, w) BY <1>2 DEF EvalUnary, IsInt, IsFloat
  <2>2. Abs(x) \in Int BY <1>0, SvalFacts DEF Abs
  <2>3. <<Abs(x)>> \in Checkeds BY <2>2 DEF Checkeds
  <2>4. w \in Patterns(ty) BY <2>2, ModFacts
  <2> HIDE DEF out, Good, w, x
  <2> QED BY <1>2, <2>1, <2>3, <2>4, ExactFacts DEF Good
<1>3. CASE IsFloat(ty)
  <2>1. op \in {"neg", "abs"} BY <1>3 DEF UnaryOk, UnaryOps
  <2>2. out = Ok(Signed(~IsNeg(a), Mag(a))) \/ out = Ok(Mag(a))
    BY <1>3, <2>1 DEF EvalUnary, IsInt, IsFloat
  <2>3. Signed(~IsNeg(a), Mag(a)) \in Nat /\ Mag(a) \in Nat BY <1>0, MagFacts, SignedFacts
  <2>4. Patterns(ty) = Nat BY <1>3 DEF Patterns
  <2> HIDE DEF out, Good
  <2> QED BY <2>2, <2>3, <2>4, OutcomeFacts DEF Good
<1>4. CASE ~IsFloat(ty) /\ ~(IsInt(ty) /\ op \in {"neg", "abs"})
  <2> DEFINE w == 2 ^ ty.w - 1 - a
  <2>1. out = Ok(w) BY <1>4 DEF EvalUnary
  <2>2. Patterns(ty) = 0 .. 2 ^ ty.w - 1 BY <1>4 DEF Patterns
  <2>3. w \in Patterns(ty)
    <3> DEFINE m == 2 ^ ty.w
    <3>1. a \in 0 .. m - 1 /\ m \in Nat BY <1>0, <2>2
    <3>2. w = m - 1 - a OBVIOUS
    <3> HIDE DEF m, w
    <3>3. w \in 0 .. m - 1 BY <3>1, <3>2
    <3> QED BY <3>3, <2>2 DEF m
  <2> HIDE DEF out, Good, w
  <2> QED BY <2>1, <2>3, OutcomeFacts DEF Good
<1> QED
  <2> HIDE DEF Good
  <2> QED BY <1>1, <1>2, <1>3, <1>4

LEMMA EvalConvertFacts ==
  ASSUME NEW op \in ConvOps, NEW policy, NEW from \in Types, NEW to \in IntTypes \cup {Float},
         ConversionOk(op, from, to), NEW a \in Patterns(from)
  PROVE  /\ EvalConvert(op, policy, from, to, a) \in Outcome(to)
         /\ EvalConvert(op, policy, from, to, a).kind = "error" =>
               \/ op = "int_cast" /\ policy.overflow = "error"
               \/ op = "float_to_int" /\ policy.float_to_int # "saturate"
               \/ op = "char_from_u32"
<1> DEFINE out == EvalConvert(op, policy, from, to, a)
           Good == /\ out \in Outcome(to)
                   /\ out.kind = "error" =>
                        \/ op = "int_cast" /\ policy.overflow = "error"
                        \/ op = "float_to_int" /\ policy.float_to_int # "saturate"
                        \/ op = "char_from_u32"
<1> SUFFICES Good OBVIOUS
<1>0. a \in Nat /\ to \in Types BY TypeFacts DEF Patterns, Types
<1>1. CASE op = "int_cast"
  <2> DEFINE x == Sval(from, a)
             w == Wrap(to, x)
  <2>1. out = Exact(to, policy, <<x>>, w) BY <1>1 DEF EvalConvert
  <2>2. x \in Int BY <1>0, SvalFacts
  <2>3. <<x>> \in Checkeds BY <2>2 DEF Checkeds
  <2>4. w \in Patterns(to) BY <2>2, <1>0, ModFacts
  <2> HIDE DEF out, Good, w, x
  <2> QED BY <1>0, <1>1, <2>1, <2>3, <2>4, ExactFacts DEF Good
<1>2. CASE op \in {"zext", "narrow", "bitcast", "bool_to_int"}
  <2> DEFINE w == a % 2 ^ to.w
  <2>1. out = Ok(w) BY <1>2 DEF EvalConvert
  <2>2. w \in Patterns(to) BY <1>0, ModFacts
  <2> HIDE DEF out, Good, w
  <2> QED BY <2>1, <2>2, OutcomeFacts DEF Good
<1>3. CASE op = "sext"
  <2> DEFINE x == Sval(IntTy(from.w, TRUE), a)
             w == Wrap(to, x)
  <2>1. out = Ok(w) BY <1>3 DEF EvalConvert
  <2>2. from \in IntTypes
    <3>1. IsInt(from) BY <1>3 DEF ConversionOk
    <3>2. ~IsInt(Bool) /\ ~IsInt(Float) BY DEF IsInt, Bool, Float
    <3> QED BY <3>1, <3>2 DEF Types
  <2>3. from.w \in Widths
    <3>1. PICK v \in Widths, s \in BOOLEAN : from = [kind |-> "int", w |-> v, signed |-> s]
      BY <2>2 DEF IntTypes, IntTy
    <3> QED BY <3>1
  <2>4. IntTy(from.w, TRUE) \in Types BY <2>3, IntIsType
  <2>5. x \in Int BY <2>4, <1>0, SvalFacts
  <2>6. w \in Patterns(to) BY <2>5, <1>0, ModFacts
  <2> HIDE DEF out, Good, w
  <2> QED BY <2>1, <2>6, OutcomeFacts DEF Good
<1>4. CASE op = "int_to_float"
  <2> DEFINE m == 2 * Abs(Sval(from, a))
             w == Signed(Sval(from, a) < 0, m)
  <2>1. out = Ok(w) BY <1>4 DEF EvalConvert
  <2>2. Sval(from, a) \in Int BY <1>0, SvalFacts
  <2>3. m \in Nat BY <2>2 DEF Abs
  <2> HIDE DEF m
  <2>4. w \in Nat BY <2>3, SignedFacts
  <2>5. IsFloat(to) BY <1>4 DEF ConversionOk
  <2> HIDE DEF out, Good, w
  <2> QED BY <2>1, <2>4, <2>5, OutcomeFacts DEF Good, Patterns
<1>5. CASE op = "float_to_int"
  <2>1. out = FloatToInt(policy, to, a) BY <1>5 DEF EvalConvert
  <2>2. to \in IntTypes
    <3>1. IsInt(to) BY <1>5 DEF ConversionOk
    <3>2. ~IsInt(Float) BY DEF IsInt, Float
    <3> QED BY <3>1, <3>2
  <2> HIDE DEF out, Good
  <2> QED BY <1>0, <1>5, <2>1, <2>2, FloatToIntFacts DEF Good
<1>6. CASE op = "char_from_u32"
  <2>1. out = Ok(a) \/ out = Error(InvalidChar) BY <1>6 DEF EvalConvert
  <2>2. InvalidChar \in 1 .. 6 BY DEF InvalidChar
  <2>3. to = from BY <1>6 DEF ConversionOk
  <2> HIDE DEF out, Good
  <2> QED BY <1>6, <2>1, <2>2, <2>3, OutcomeFacts DEF Good
<1> QED
  <2> HIDE DEF Good
  <2> QED BY <1>1, <1>2, <1>3, <1>4, <1>5, <1>6 DEF ConvOps

\* A policy has something for each field its operation needs, and an error there
\* makes it a policy that can err.
LEMMA PolicyFacts ==
  ASSUME NEW fields \in SUBSET Fields, NEW p \in PoliciesFor[fields], ~PolicyCanError(p)
  PROVE  /\ p.overflow # "error"
         /\ "div_zero" \in fields => p.div_zero = "trap"
         /\ "shift" \in fields => p.shift \in {"mask", "saturate"}
         /\ "float_to_int" \in fields => p.float_to_int = "saturate"
<1>1. p \in Policies /\ Matches(fields, p) BY DEF PoliciesFor
<1>2. \A f \in Fields : p[f] # "error" BY DEF PolicyCanError
<1>3. \A f \in fields : f \in Fields /\ p[f] # "none" BY <1>1 DEF Matches
<1>4. /\ p["div_zero"] \in {"none", "error", "trap"}
      /\ p["shift"] \in {"none", "error", "mask", "saturate"}
      /\ p["float_to_int"] \in {"none", "error", "saturate"}
  BY <1>1 DEF Policies
<1>5. {"overflow", "div_zero", "shift", "float_to_int"} \subseteq Fields BY DEF Fields
<1>6. p["overflow"] # "error" BY <1>2, <1>5
<1>7. "div_zero" \in fields => p["div_zero"] = "trap" BY <1>2, <1>3, <1>4
<1>8. "shift" \in fields => p["shift"] \in {"mask", "saturate"} BY <1>2, <1>3, <1>4
<1>9. "float_to_int" \in fields => p["float_to_int"] = "saturate" BY <1>2, <1>3, <1>4
<1> QED BY <1>6, <1>7, <1>8, <1>9

------------------------------------------------------------------------------
(* The operations the type rules accept, in and out of a check. *)
RegsOK(rs) == rs \in [1 .. 2 -> [ty : Types, bits : Nat]]
              /\ \A i \in 1 .. 2 : rs[i].bits \in Patterns(rs[i].ty)

\* What an accepted operation d gives, and that it raises an error in a check only.
Accepted(d, inCheck) ==
    /\ d[1] \in {"unary", "binary", "convert"} /\ d[4] \in Types
    /\ Eval(d[1], d[2], d[3], d[4]) \in Outcome(d[4])
    /\ Eval(d[1], d[2], d[3], d[4]).kind = "error" => inCheck

LEMMA UnaryAccepted ==
  ASSUME RegsOK(regs), NEW inCheck \in BOOLEAN, NEW d \in UnaryOf(regs[1].ty, inCheck)
  PROVE  Accepted(d, inCheck)
<1> DEFINE ty == regs[1].ty
           a == regs[1].bits
<1>1. ty \in Types /\ a \in Patterns(ty) BY DEF RegsOK
<1>2. PICK op \in {o \in UnaryOps : UnaryOk(o, ty)} :
        \E p \in {q \in PoliciesFor[RequiredUnary(op, ty)] : PolicyCanError(q) = inCheck} :
          d = <<"unary", op, p, ty>>
  BY DEF UnaryOf
<1>3. PICK p \in PoliciesFor[RequiredUnary(op, ty)] :
        PolicyCanError(p) = inCheck /\ d = <<"unary", op, p, ty>>
  BY <1>2
<1> DEFINE out == Eval(d[1], d[2], d[3], d[4])
<1>4. d[1] = "unary" /\ d[2] = op /\ d[3] = p /\ d[4] = ty BY <1>3
<1> HIDE DEF ty, a
<1>5. out = EvalUnary(op, p, ty, a) BY <1>4 DEF Eval, ty, a
<1>6. out \in Outcome(ty) /\ (out.kind = "error" => p.overflow = "error")
  <2> HIDE DEF out
  <2> QED BY <1>1, <1>2, <1>5, EvalUnaryFacts
<1>7. RequiredUnary(op, ty) \in SUBSET Fields BY DEF RequiredUnary, Fields
<1>8. out.kind = "error" => inCheck
  <2> HIDE DEF out
  <2>1. SUFFICES ASSUME out.kind = "error", ~PolicyCanError(p) PROVE FALSE BY <1>3
  <2> QED BY <2>1, <1>3, <1>6, <1>7, PolicyFacts
<1> HIDE DEF out
<1> QED BY <1>1, <1>4, <1>6, <1>8 DEF Accepted, out

LEMMA ConvertAccepted ==
  ASSUME RegsOK(regs), NEW inCheck \in BOOLEAN, NEW d \in ConvertOf(regs[1].ty, inCheck)
  PROVE  Accepted(d, inCheck)
<1> DEFINE ty == regs[1].ty
           a == regs[1].bits
<1>1. ty \in Types /\ a \in Patterns(ty) BY DEF RegsOK
<1>2. PICK op \in ConvOps :
        \E to \in {t \in IntTypes \cup {Float} : ConversionOk(op, ty, t)},
           p \in {q \in PoliciesFor[RequiredConversion(op)] : ConvCanError(op, q) = inCheck} :
          d = <<"convert", op, p, to>>
  BY DEF ConvertOf
<1>3. PICK to \in IntTypes \cup {Float}, p \in PoliciesFor[RequiredConversion(op)] :
        /\ ConversionOk(op, ty, to) /\ ConvCanError(op, p) = inCheck
        /\ d = <<"convert", op, p, to>>
  BY <1>2
<1> DEFINE out == Eval(d[1], d[2], d[3], d[4])
<1>4. d[1] = "convert" /\ d[2] = op /\ d[3] = p /\ d[4] = to /\ to \in Types BY <1>3 DEF Types
<1> HIDE DEF ty, a
<1>5. out = EvalConvert(op, p, ty, to, a) BY <1>4 DEF Eval, ty, a
<1>6. /\ out \in Outcome(to)
      /\ out.kind = "error" =>
           \/ op = "int_cast" /\ p.overflow = "error"
           \/ op = "float_to_int" /\ p.float_to_int # "saturate"
           \/ op = "char_from_u32"
  <2> HIDE DEF out
  <2> QED BY <1>1, <1>3, <1>5, EvalConvertFacts
<1>7. /\ RequiredConversion(op) \in SUBSET Fields
      /\ op = "float_to_int" => "float_to_int" \in RequiredConversion(op)
  BY DEF RequiredConversion, Fields
<1>8. out.kind = "error" => ConvCanError(op, p)
  <2> HIDE DEF out
  <2>1. SUFFICES ASSUME out.kind = "error", ~PolicyCanError(p), op # "char_from_u32" PROVE FALSE
    BY DEF ConvCanError
  <2> QED BY <2>1, <1>6, <1>7, PolicyFacts
<1> HIDE DEF out
<1>9. out.kind = "error" => inCheck BY <1>3, <1>8
<1> QED BY <1>4, <1>6, <1>9 DEF Accepted, out

LEMMA BinaryAccepted ==
  ASSUME RegsOK(regs), NEW inCheck \in BOOLEAN, regs[2].ty = regs[1].ty,
         NEW d \in BinaryOf(regs[1].ty, inCheck)
  PROVE  Accepted(d, inCheck)
<1> DEFINE ty == regs[1].ty
           a == regs[1].bits
           b == regs[2].bits
<1>1. ty \in Types /\ a \in Patterns(ty) /\ b \in Patterns(ty) BY DEF RegsOK
<1>2. PICK op \in {o \in BinaryOps : BinaryOk(o, ty) /\ (IsFloat(ty) => o \in FloatModelled)} :
        \E p \in {q \in PoliciesFor[RequiredBinary(op, ty)] : BinaryCanError(op, q, ty) = inCheck} :
          d = <<"binary", op, p, IF op = "total_cmp" THEN I8 ELSE ty>>
  BY DEF BinaryOf
<1> DEFINE to == IF op = "total_cmp" THEN I8 ELSE ty
<1>3. PICK p \in PoliciesFor[RequiredBinary(op, ty)] :
        BinaryCanError(op, p, ty) = inCheck /\ d = <<"binary", op, p, to>>
  BY <1>2
<1> DEFINE out == Eval(d[1], d[2], d[3], d[4])
<1>4. d[1] = "binary" /\ d[2] = op /\ d[3] = p /\ d[4] = to BY <1>3
<1>t. to \in Types BY <1>1, I8IsType
<1> HIDE DEF ty, a, b
<1>5. out = EvalBinary(op, p, ty, a, b) BY <1>4 DEF Eval, ty, a, b
<1>6. CASE IsFloat(ty)
  <2>1. Patterns(ty) = Nat /\ op \in FloatModelled BY <1>2, <1>6 DEF Patterns
  <2>2. out = FloatBinary(op, a, b) BY <1>5, <1>6 DEF EvalBinary
  <2> HIDE DEF out
  <2>3. out \in Outcome(to) /\ out.kind = "ok" BY <1>1, <1>6, <2>1, <2>2, FloatBinaryFacts
  <2> HIDE DEF to
  <2> QED BY <2>3, <1>4, <1>t DEF Accepted, out
<1>7. CASE ~IsFloat(ty) /\ ~IsInt(ty)
  <2>1. ty = Bool
    <3>1. \A t \in IntTypes : IsInt(t) BY IntTypeFacts
    <3>2. IsFloat(Float) BY DEF IsFloat, Float
    <3> QED BY <1>1, <1>7, <3>1, <3>2 DEF Types
  <2>2. ~IsNumeric(ty) BY <2>1 DEF IsNumeric, Bool
  <2>3. op \in {"and", "or", "xor"} BY <1>2, <1>7, <2>2 DEF BinaryOk, BinaryOps
  <2> DEFINE both == {k \in Bits : Bit(a, k) /\ Bit(b, k)}
             any == {k \in Bits : Bit(a, k) \/ Bit(b, k)}
             one == {k \in Bits : Bit(a, k) # Bit(b, k)}
  <2>4. out = Ok(FromBits(both)) \/ out = Ok(FromBits(any)) \/ out = Ok(FromBits(one))
    <3>0. out = IntBinary(op, p, ty, a, b) BY <1>5, <1>7 DEF EvalBinary
    <3> HIDE DEF out
    <3>1. op = "and" => out = Ok(FromBits(both)) BY <3>0 DEF IntBinary
    <3>2. op = "or" => out = Ok(FromBits(any)) BY <3>0 DEF IntBinary
    <3>3. op = "xor" => out = Ok(FromBits(one)) BY <3>0 DEF IntBinary
    <3> HIDE DEF both, any, one
    <3> QED BY <2>3, <3>1, <3>2, <3>3
  <2>5. ty.w \in 0 .. Word /\ Patterns(ty) = 0 .. 2 ^ ty.w - 1
    BY <1>1, <1>7, TypeFacts DEF Patterns
  <2> HIDE DEF out, to
  <2>6. \A k \in Bits : Bit(a, k) \/ Bit(b, k) => k \in 0 .. ty.w - 1
    BY <1>1, <2>5, BitFacts
  <2>7. both \subseteq 0 .. ty.w - 1 /\ any \subseteq 0 .. ty.w - 1 /\ one \subseteq 0 .. ty.w - 1
    <3>1. \A k \in both \cup any \cup one : k \in Bits /\ (Bit(a, k) \/ Bit(b, k)) BY DEF Bit
    <3> HIDE DEF both, any, one
    <3> QED BY <2>6, <3>1
  <2> HIDE DEF both, any, one
  <2>8. /\ FromBits(both) \in Patterns(ty) /\ FromBits(any) \in Patterns(ty)
        /\ FromBits(one) \in Patterns(ty)
    BY <2>5, <2>7, FromBitsFacts
  <2>9. to = ty BY <2>3 DEF to
  <2>10. out \in Outcome(ty) /\ out.kind = "ok" BY <2>4, <2>8, OutcomeFacts
  <2> QED BY <2>9, <2>10, <1>4, <1>t DEF Accepted, out
<1>8. CASE IsInt(ty)
  <2>0. ty \in IntTypes
    <3>1. ~IsInt(Bool) /\ ~IsInt(Float) BY DEF IsInt, Bool, Float
    <3> QED BY <1>1, <1>8, <3>1 DEF Types
  <2>1. op \notin {"ieee_rem", "total_cmp"} /\ ~IsFloat(ty)
    BY <1>2, <2>0, IntTypeFacts DEF BinaryOk
  <2>2. out = IntBinary(op, p, ty, a, b) BY <1>5, <2>1 DEF EvalBinary
  <2>3. to = ty BY <2>1
  <2> HIDE DEF out, to
  <2>4. op \in BinaryOps \ {"ieee_rem", "total_cmp"} BY <1>2, <2>1
  <2>5. out \in Outcome(ty) /\ (out.kind = "error" => IntErrs(op, p, ty))
    BY <1>1, <2>0, <2>2, <2>4, IntBinaryFacts
  <2>6. /\ RequiredBinary(op, ty) \in SUBSET Fields
        /\ op \in {"div", "rem", "floor_div", "floor_mod"} => "div_zero" \in RequiredBinary(op, ty)
        /\ op \in {"shl", "shr"} => "shift" \in RequiredBinary(op, ty)
    BY <1>8 DEF RequiredBinary, Fields
  <2>7. out.kind = "error" => BinaryCanError(op, p, ty)
    <3> SUFFICES ASSUME IntErrs(op, p, ty), ~BinaryCanError(op, p, ty) PROVE FALSE BY <2>5
    <3>1. ~PolicyCanError(p) BY DEF BinaryCanError
    <3>2. /\ p.overflow # "error"
          /\ op \in {"div", "rem", "floor_div", "floor_mod"} => p.div_zero = "trap"
          /\ op \in {"shl", "shr"} => p.shift \in {"mask", "saturate"}
      BY <3>1, <1>3, <2>6, PolicyFacts
    <3>3. ty.kind = "int" BY <1>8 DEF IsInt
    <3>4. ~(ty.signed /\ op = "pow") /\ ~(ty.signed /\ op \in {"shl", "shr"} /\ p.shift = "saturate")
      BY <3>3 DEF BinaryCanError
    <3> QED BY <3>2, <3>4 DEF IntErrs
  <2>8. out.kind = "error" => inCheck BY <1>3, <2>7
  <2> QED BY <1>4, <1>t, <2>3, <2>5, <2>8 DEF Accepted, out
<1> QED BY <1>6, <1>7, <1>8

LEMMA OperationsAccepted ==
  ASSUME RegsOK(regs), NEW inCheck \in BOOLEAN, NEW d \in Operations(inCheck)
  PROVE  Accepted(d, inCheck)
<1>1. \/ d \in UnaryOf(regs[1].ty, inCheck) \/ d \in ConvertOf(regs[1].ty, inCheck)
      \/ regs[2].ty = regs[1].ty /\ d \in BinaryOf(regs[1].ty, inCheck)
  BY DEF Operations
<1> QED BY <1>1, UnaryAccepted, ConvertAccepted, BinaryAccepted

------------------------------------------------------------------------------
(* Steps. *)
LEMMA CellFacts ==
  ASSUME NEW ty \in Types, NEW v \in Patterns(ty)
  PROVE  Value(ty, v).ty = ty /\ Value(ty, v).bits = v /\ Value(ty, v) \in [ty : Types, bits : Nat]
<1>1. v \in Nat BY TypeFacts DEF Patterns
<1> QED BY <1>1 DEF Value

LEMMA PutFacts ==
  ASSUME RegsOK(regs), NEW ty \in Types, NEW v \in Patterns(ty)
  PROVE  RegsOK([regs EXCEPT ![1] = Value(ty, v)])
<1> DEFINE c == Value(ty, v)
<1>1. c.ty = ty /\ c.bits = v /\ c \in [ty : Types, bits : Nat] BY CellFacts
<1> HIDE DEF c
<1> DEFINE r == [regs EXCEPT ![1] = c]
<1>2. r \in [1 .. 2 -> [ty : Types, bits : Nat]] BY <1>1 DEF RegsOK
<1>3. r[1] = c /\ r[2] = regs[2] BY DEF RegsOK
<1>4. r[1].bits \in Patterns(r[1].ty) /\ r[2].bits \in Patterns(r[2].ty)
  <2> HIDE DEF r
  <2> QED BY <1>1, <1>3 DEF RegsOK
<1>5. \A i \in 1 .. 2 : i = 1 \/ i = 2 OBVIOUS
<1> HIDE DEF r
<1>6. RegsOK(r) BY <1>2, <1>4, <1>5 DEF RegsOK
<1> QED BY <1>6 DEF c, r

\* The recursion of AssignAll defines a function: both registers are assigned.
LEMMA AssignFacts ==
  ASSUME NEW S, NEW rs \in [1 .. 2 -> S], NEW vals \in [1 .. 2 -> S]
  PROVE  AssignAll(rs, vals) = vals
<1>1. Len(vals) = 2 BY FunctionSeq
<1> DEFINE one == [rs EXCEPT ![1] = vals[1]]
           two == [one EXCEPT ![2] = vals[2]]
           Val(f, k) == IF k = 0 THEN rs ELSE [f[k - 1] EXCEPT ![k] = vals[k]]
           g == [k \in 0 .. 2 |-> IF k = 0 THEN rs ELSE IF k = 1 THEN one ELSE two]
           done == CHOOSE f : f = [k \in 0 .. 2 |-> Val(f, k)]
<1>2. AssignAll(rs, vals) = done[2] BY <1>1 DEF AssignAll
<1>3. \E f : f = [k \in 0 .. 2 |-> Val(f, k)]
  <2>0. g[0] = rs /\ g[1] = one /\ g[2] = two OBVIOUS
  <2>1. g[0] = Val(g, 0)
    <3> HIDE DEF g
    <3> QED BY <2>0
  <2>2. g[1] = Val(g, 1)
    <3> HIDE DEF g
    <3>1. g[1 - 1] = rs
      <4>1. 1 - 1 = 0 OBVIOUS
      <4> QED BY <4>1, <2>0
    <3>2. one = [g[1 - 1] EXCEPT ![1] = vals[1]] BY <3>1
    <3> HIDE DEF one
    <3> QED BY <2>0, <3>2
  <2>3. g[2] = Val(g, 2)
    <3> HIDE DEF g, one
    <3> QED BY <2>0
  <2>4. g = [k \in 0 .. 2 |-> g[k]] OBVIOUS
  <2>5. \A k \in 0 .. 2 : k = 0 \/ k = 1 \/ k = 2 OBVIOUS
  <2> HIDE DEF g, Val
  <2>6. \A k \in 0 .. 2 : g[k] = Val(g, k) BY <2>1, <2>2, <2>3, <2>5
  <2> QED BY <2>4, <2>6
<1>4. done = [k \in 0 .. 2 |-> Val(done, k)]
  <2> HIDE DEF Val
  <2> QED BY <1>3
<1> HIDE DEF done
<1>5. done[0] = rs BY <1>4
<1>u. 0 \in 0 .. 2 /\ 1 \in 0 .. 2 /\ 2 \in 0 .. 2 /\ 1 - 1 = 0 /\ 2 - 1 = 1 OBVIOUS
<1>v. done[1] = Val(done, 1) /\ done[2] = Val(done, 2)
  <2> HIDE DEF Val
  <2> QED BY <1>4, <1>u
<1>6. done[1] = [done[0] EXCEPT ![1] = vals[1]]
  <2>1. done[1] = [done[1 - 1] EXCEPT ![1] = vals[1]] BY <1>v
  <2> HIDE DEF Val
  <2> QED BY <2>1, <1>u
<1>7. done[2] = [done[1] EXCEPT ![2] = vals[2]]
  <2>1. done[2] = [done[2 - 1] EXCEPT ![2] = vals[2]] BY <1>v
  <2> HIDE DEF Val
  <2> QED BY <2>1, <1>u
<1>8. done[2] = two BY <1>5, <1>6, <1>7
<1>9. two \in [1 .. 2 -> S] /\ two[1] = vals[1] /\ two[2] = vals[2] OBVIOUS
<1> HIDE DEF two
<1>10. \A k \in 1 .. 2 : two[k] = vals[k]
  <2>1. \A k \in 1 .. 2 : k = 1 \/ k = 2 OBVIOUS
  <2> QED BY <2>1, <1>9
<1> QED BY <1>2, <1>8, <1>9, <1>10

LEMMA PairFacts ==
  ASSUME NEW S, NEW a \in S, NEW b \in S
  PROVE  <<a, b>> \in Seq(S) /\ Len(<<a, b>>) = 2 /\ <<a, b>>[1] = a /\ <<a, b>>[2] = b
OBVIOUS

\* An edge reads its arguments first, and its parameters hold what they were.
LEMMA EdgeFacts ==
  ASSUME RegsOK(regs), NEW args, args \in Seq([kind : {"value", "res", "err"}, n : 0 .. 2]),
         Len(args) = 2, \A k \in 1 .. 2 : args[k].kind = "value" => args[k].n \in 1 .. 2,
         NEW res, NEW code,
         (\E k \in 1 .. 2 : args[k].kind = "res") =>
            \E ty \in Types : \E v \in Patterns(ty) : res = Value(ty, v),
         (\E k \in 1 .. 2 : args[k].kind = "err") =>
            \E ty \in Types : \E v \in Patterns(ty) : code = Value(ty, v)
  PROVE  /\ RegsOK(TakeEdge(regs, args, res, code))
         /\ \A k \in DOMAIN args : args[k].kind = "value" =>
               TakeEdge(regs, args, res, code)[k] = regs[args[k].n]
<1> DEFINE C == [ty : Types, bits : Nat]
           vals == [k \in DOMAIN args |-> Read(regs, args[k], res, code)]
<1>1. DOMAIN args = 1 .. 2 /\ \A k \in 1 .. 2 : args[k].kind \in {"value", "res", "err"}
  <2> DEFINE S == [kind : {"value", "res", "err"}, n : 0 .. 2]
  <2>1. args \in Seq(S) OBVIOUS
  <2> HIDE DEF S
  <2>2. DOMAIN args = 1 .. Len(args) BY <2>1, LenProperties
  <2>3. \A k \in 1 .. Len(args) : args[k] \in S BY <2>1, ElementOfSeq
  <2> QED BY <2>2, <2>3 DEF S
<1>2. ASSUME NEW k \in 1 .. 2
      PROVE  vals[k] \in C /\ vals[k].bits \in Patterns(vals[k].ty)
             /\ (args[k].kind = "value" => vals[k] = regs[args[k].n])
  <2>0. vals[k] = Read(regs, args[k], res, code) BY <1>1
  <2> HIDE DEF vals
  <2>1. CASE args[k].kind = "value" BY <2>0, <2>1 DEF Read, RegsOK
  <2>2. CASE args[k].kind = "res"
    <3>1. vals[k] = res BY <2>0, <2>2 DEF Read
    <3>2. PICK ty \in Types : \E v \in Patterns(ty) : res = Value(ty, v) BY <2>2
    <3>3. PICK v \in Patterns(ty) : res = Value(ty, v) BY <3>2
    <3> QED BY <2>2, <3>1, <3>3, CellFacts
  <2>3. CASE args[k].kind = "err"
    <3>1. vals[k] = code BY <2>0, <2>3 DEF Read
    <3>2. PICK ty \in Types : \E v \in Patterns(ty) : code = Value(ty, v) BY <2>3
    <3>3. PICK v \in Patterns(ty) : code = Value(ty, v) BY <3>2
    <3> QED BY <2>3, <3>1, <3>3, CellFacts
  <2> QED BY <1>1, <2>1, <2>2, <2>3
<1>3. vals = [k \in 1 .. 2 |-> vals[k]] BY <1>1
<1>4. TakeEdge(regs, args, res, code) = AssignAll(regs, vals) BY DEF TakeEdge
<1> HIDE DEF vals
<1>5. vals \in [1 .. 2 -> C] BY <1>2, <1>3
<1>6. regs \in [1 .. 2 -> C] BY DEF RegsOK
<1> HIDE DEF C
<1>7. TakeEdge(regs, args, res, code) = vals BY <1>4, <1>5, <1>6, AssignFacts
<1> QED BY <1>1, <1>2, <1>5, <1>7 DEF RegsOK, C

------------------------------------------------------------------------------
\* Registers hold patterns of their types, nothing but a check has raised an error,
\* and the last edge gave parameters what their arguments were.
IInv ==
    /\ RegsOK(regs)
    /\ Running => event = NoEvent
    /\ ErrorsOnlyInCheck
    /\ EdgesReadFirst

LEMMA InitEstablishes == Init => IInv
<1> SUFFICES ASSUME Init PROVE IInv OBVIOUS
<1>1. event = NoEvent BY DEF Init
<1>2. event.kind = "none" /\ event.args = <<>> /\ event.out.kind = "ok"
  BY <1>1 DEF NoEvent, Ok
<1>3. ASSUME NEW c \in Inputs
      PROVE  c \in [ty : Types, bits : Nat] /\ c.bits \in Patterns(c.ty)
  <2>1. CASE \E ty \in IntTypes \cup {Bool} : \E bits \in 0 .. 2 ^ ty.w - 1 : c = Value(ty, bits)
    <3>0. PICK ty \in IntTypes \cup {Bool} : \E bits \in 0 .. 2 ^ ty.w - 1 : c = Value(ty, bits)
      BY <2>1
    <3>1. PICK bits \in 0 .. 2 ^ ty.w - 1 : c = Value(ty, bits) BY <3>0
    <3>2. ty \in Types BY DEF Types
    <3>3. ~IsFloat(ty)
      <4>1. ~IsFloat(Bool) BY DEF IsFloat, Bool
      <4> QED BY <4>1, IntTypeFacts
    <3>4. bits \in Patterns(ty) BY <3>3 DEF Patterns
    <3> QED BY <3>1, <3>2, <3>4, CellFacts
  <2>2. CASE \E neg \in BOOLEAN, mag \in Mags \cup {Inf, Nan} : c = Value(Float, Signed(neg, mag))
    <3>1. PICK neg \in BOOLEAN, mag \in Mags \cup {Inf, Nan} : c = Value(Float, Signed(neg, mag))
      BY <2>2
    <3>2. mag \in Nat BY ValuesAssumption DEF Inf, Nan
    <3>3. Signed(neg, mag) \in Nat BY <3>2, SignedFacts
    <3>4. Float \in Types /\ IsFloat(Float) BY DEF Types, IsFloat, Float
    <3>5. Signed(neg, mag) \in Patterns(Float) BY <3>3, <3>4 DEF Patterns
    <3> QED BY <3>1, <3>4, <3>5, CellFacts
  <2>3. \/ c \in UNION {{Value(ty, bits) : bits \in 0 .. 2 ^ ty.w - 1} : ty \in IntTypes \cup {Bool}}
        \/ c \in {Value(Float, Signed(neg, mag)) : neg \in BOOLEAN, mag \in Mags \cup {Inf, Nan}}
    BY DEF Inputs
  <2> HIDE DEF Inputs
  <2>4. CASE c \in UNION {{Value(ty, bits) : bits \in 0 .. 2 ^ ty.w - 1} : ty \in IntTypes \cup {Bool}}
    <3>1. PICK s \in {{Value(ty, bits) : bits \in 0 .. 2 ^ ty.w - 1} : ty \in IntTypes \cup {Bool}} : c \in s
      BY <2>4, Zenon
    <3>2. PICK ty \in IntTypes \cup {Bool} : s = {Value(ty, bits) : bits \in 0 .. 2 ^ ty.w - 1}
      BY <3>1, Zenon
    <3> QED BY <2>1, <3>1, <3>2, Zenon
  <2>5. CASE c \in {Value(Float, Signed(neg, mag)) : neg \in BOOLEAN, mag \in Mags \cup {Inf, Nan}}
    <3>1. \E neg \in BOOLEAN, mag \in Mags \cup {Inf, Nan} : c = Value(Float, Signed(neg, mag))
      BY <2>5
    <3> QED BY <2>2, <3>1
  <2> QED BY <2>3, <2>4, <2>5
<1>4. regs \in [1 .. 2 -> Inputs] BY DEF Init
<1>5. RegsOK(regs) BY <1>3, <1>4 DEF RegsOK
<1> QED BY <1>1, <1>2, <1>5 DEF IInv, ErrorsOnlyInCheck, EdgesReadFirst

LEMMA StepPreserves == IInv /\ [Next]_vars => IInv'
<1> SUFFICES ASSUME IInv, [Next]_vars PROVE IInv' OBVIOUS
<1>0. RegsOK(regs) BY DEF IInv
<1>1. CASE Const
  <2>1. event' = event /\ event = NoEvent BY <1>1 DEF Const, IInv
  <2>2. PICK ty \in IntTypes \cup {Bool}, bits \in 0 .. 2 ^ Word - 1 :
          ConstOk(ty, bits) /\ regs' = [regs EXCEPT ![1] = Value(ty, bits)]
    BY <1>1 DEF Const
  <2>3. ty \in Types BY DEF Types
  <2>4. ~IsFloat(ty)
    <3>1. ~IsFloat(Bool) BY DEF IsFloat, Bool
    <3> QED BY <3>1, IntTypeFacts
  <2>5. bits \in Patterns(ty)
    <3>1. bits \in Nat /\ bits < 2 ^ ty.w /\ 2 ^ ty.w \in Nat
      BY <2>2, <2>3, <2>4, TypeFacts, Powers2 DEF ConstOk
    <3> QED BY <3>1, <2>4 DEF Patterns
  <2>6. RegsOK(regs') BY <2>2, <2>3, <2>5, <1>0, PutFacts
  <2>7. event.kind = "none" /\ event.args = <<>> /\ event.out.kind = "ok"
    BY <2>1 DEF NoEvent, Ok
  <2> QED BY <2>1, <2>6, <2>7 DEF IInv, RegsOK, ErrorsOnlyInCheck, EdgesReadFirst, Running
<1>2. CASE Execute
  <2>1. PICK d \in Operations(FALSE) :
          /\ Happened(d[1], d, <<>>, Eval(d[1], d[2], d[3], d[4]))
          /\ regs' = IF Eval(d[1], d[2], d[3], d[4]).kind = "ok"
                     THEN [regs EXCEPT ![1] = Value(d[4], Eval(d[1], d[2], d[3], d[4]).v)] ELSE regs
    BY <1>2 DEF Execute
  <2> DEFINE out == Eval(d[1], d[2], d[3], d[4])
  <2>2. Accepted(d, FALSE) BY <1>0, OperationsAccepted
  <2>3. /\ d[1] \in {"unary", "binary", "convert"} /\ d[4] \in Types
        /\ out \in Outcome(d[4]) /\ out.kind # "error"
    BY <2>2 DEF Accepted
  <2>4. /\ event'.kind = d[1] /\ event'.args = <<>> /\ event'.out = out
        /\ regs' = IF out.kind = "ok" THEN [regs EXCEPT ![1] = Value(d[4], out.v)] ELSE regs
    BY <2>1 DEF Happened
  <2> HIDE DEF out
  <2>5. out.kind = "ok" => out.v \in Patterns(d[4]) BY <2>3 DEF Outcome
  <2>6. RegsOK(regs') BY <1>0, <2>3, <2>4, <2>5, PutFacts
  <2> QED BY <2>3, <2>4, <2>6 DEF IInv, RegsOK, ErrorsOnlyInCheck, EdgesReadFirst, Running
<1>3. CASE Compare
  <2>1. PICK r \in {0, 1} : \E op : /\ Happened("compare", <<"compare", op, NoPolicy, Bool>>, <<>>, Ok(r))
                                     /\ regs' = [regs EXCEPT ![1] = Value(Bool, r)]
    BY <1>3 DEF Compare
  <2>2. event'.kind = "compare" /\ event'.args = <<>> /\ event'.out.kind = "ok"
    BY <2>1 DEF Happened, Ok
  <2>3. Bool \in Types /\ ~IsFloat(Bool) /\ Bool.w = 1 BY DEF Types, IsFloat, Bool
  <2>4. 2 ^ 1 = 2 OBVIOUS
  <2>5. r \in Patterns(Bool) BY <2>1, <2>3, <2>4 DEF Patterns
  <2>6. RegsOK(regs') BY <1>0, <2>1, <2>3, <2>5, PutFacts
  <2> QED BY <2>2, <2>6 DEF IInv, RegsOK, ErrorsOnlyInCheck, EdgesReadFirst, Running
<1>4. CASE Check
  <2>1. PICK d \in Operations(TRUE) :
          IF Eval(d[1], d[2], d[3], d[4]).kind = "trap"
          THEN Happened("check", d, <<>>, Eval(d[1], d[2], d[3], d[4])) /\ UNCHANGED regs
          ELSE \E args \in Edges(Arg(IF Eval(d[1], d[2], d[3], d[4]).kind = "ok" THEN "res" ELSE "err", 0)) :
                 /\ Happened("check", d, args, Eval(d[1], d[2], d[3], d[4]))
                 /\ regs' = TakeEdge(regs, args, Value(d[4], Eval(d[1], d[2], d[3], d[4]).v),
                                     Value(U32, Eval(d[1], d[2], d[3], d[4]).v))
    BY <1>4 DEF Check
  <2> DEFINE out == Eval(d[1], d[2], d[3], d[4])
             kind == IF out.kind = "ok" THEN "res" ELSE "err"
             own == Arg(kind, 0)
             res == Value(d[4], out.v)
             code == Value(U32, out.v)
  <2>2. d[4] \in Types /\ out \in Outcome(d[4])
    <3>1. Accepted(d, TRUE) BY <1>0, OperationsAccepted
    <3> QED BY <3>1 DEF Accepted
  <2>3. CASE out.kind = "trap"
    <3>1. event'.kind = "check" /\ event'.args = <<>> /\ regs' = regs BY <2>1, <2>3 DEF Happened
    <3> HIDE DEF out
    <3> QED BY <1>0, <3>1 DEF IInv, RegsOK, ErrorsOnlyInCheck, EdgesReadFirst, Running
  <2>4. CASE out.kind # "trap"
    <3>1. PICK args \in Edges(own) :
            Happened("check", d, args, out) /\ regs' = TakeEdge(regs, args, res, code)
      BY <2>1, <2>4
    <3>2. event'.kind = "check" /\ event'.args = args /\ event'.before = regs BY <3>1 DEF Happened
    <3> HIDE DEF out
    <3>3. out.kind = "ok" => out.v \in Patterns(d[4]) BY <2>2 DEF Outcome
    <3>4. out.kind # "ok" => out.v \in Patterns(U32)
      <4>1. out.kind # "ok" => out.v \in 1 .. 6 BY <2>2 DEF Outcome
      <4>2. U32 \in IntTypes
        <5>1. Word \in Widths /\ FALSE \in BOOLEAN BY ValuesAssumption
        <5>2. \A w \in Widths, s \in BOOLEAN : IntTy(w, s) \in IntTypes BY DEF IntTypes
        <5> QED BY <5>1, <5>2 DEF U32
      <4>3. U32.w = Word BY DEF U32, IntTy
      <4>4. 2 ^ Word \in Nat /\ 2 ^ Word > 6 BY Powers2, ValuesAssumption
      <4>5. 1 .. 6 \subseteq Patterns(U32) BY <4>2, <4>3, <4>4, IntTypeFacts
      <4> QED BY <4>1, <4>5
    <3>5. kind \in {"res", "err"} /\ (kind = "res" <=> out.kind = "ok") OBVIOUS
    <3> HIDE DEF kind
    <3>6. \A n \in 1 .. 2 : Arg("value", n) \in [kind : {"value", "res", "err"}, n : 0 .. 2]
                            /\ Arg("value", n).kind = "value" /\ Arg("value", n).n = n
      BY DEF Arg
    <3>7. own \in [kind : {"value", "res", "err"}, n : 0 .. 2] /\ own.kind = kind
      BY <3>5 DEF Arg
    <3> HIDE DEF own
    <3>8. \/ args = <<Arg("value", 2), Arg("value", 1)>> \/ args = <<own, Arg("value", 1)>>
          \/ args = <<Arg("value", 2), own>>
      BY <3>1 DEF Edges
    <3>9. /\ args \in Seq([kind : {"value", "res", "err"}, n : 0 .. 2]) /\ Len(args) = 2
          /\ args[1] \in {Arg("value", 2), own} /\ args[2] \in {Arg("value", 1), own}
      <4> DEFINE S == [kind : {"value", "res", "err"}, n : 0 .. 2]
      <4>1. Arg("value", 1) \in S /\ Arg("value", 2) \in S /\ own \in S BY <3>6, <3>7
      <4> HIDE DEF S
      <4>2. PICK a \in {Arg("value", 2), own}, b \in {Arg("value", 1), own} : args = <<a, b>>
        BY <3>8
      <4>3. a \in S /\ b \in S BY <4>1
      <4>4. args \in Seq(S) /\ Len(args) = 2 /\ args[1] = a /\ args[2] = b BY <4>2, <4>3, PairFacts
      <4>5. /\ args \in Seq(S) /\ Len(args) = 2
            /\ args[1] \in {Arg("value", 2), own} /\ args[2] \in {Arg("value", 1), own}
        BY <4>4
      <4> QED BY <4>5 DEF S
    <3>10. /\ \A k \in 1 .. 2 : args[k].kind = "value" => args[k].n \in 1 .. 2
           /\ \A k \in 1 .. 2 : args[k].kind \in {"value", kind}
      BY <3>5, <3>6, <3>7, <3>9
    <3>11. (\E k \in 1 .. 2 : args[k].kind = "res") =>
              \E ty \in Types : \E v \in Patterns(ty) : res = Value(ty, v)
      BY <2>2, <3>3, <3>5, <3>10
    <3>12. (\E k \in 1 .. 2 : args[k].kind = "err") =>
              \E ty \in Types : \E v \in Patterns(ty) : code = Value(ty, v)
      BY <3>4, <3>5, <3>10, U32IsType
    <3> HIDE DEF res, code
    <3>13. /\ RegsOK(regs')
           /\ \A k \in DOMAIN args : args[k].kind = "value" => regs'[k] = regs[args[k].n]
      BY <1>0, <3>1, <3>9, <3>10, <3>11, <3>12, EdgeFacts
    <3> QED BY <3>2, <3>13 DEF IInv, RegsOK, ErrorsOnlyInCheck, EdgesReadFirst, Running
  <2> QED BY <2>3, <2>4
<1>5. CASE Jump
  <2>1. PICK i \in 1 .. 2, j \in 1 .. 2 :
          /\ Happened("jump", <<"jump", "jump", NoPolicy, Bool>>,
                      <<Arg("value", i), Arg("value", j)>>, Ok(0))
          /\ regs' = TakeEdge(regs, <<Arg("value", i), Arg("value", j)>>, NoVal, NoVal)
    BY <1>5 DEF Jump
  <2> DEFINE args == <<Arg("value", i), Arg("value", j)>>
  <2>2. /\ event'.kind = "jump" /\ event'.args = args /\ event'.before = regs
        /\ event'.out.kind = "ok"
    BY <2>1 DEF Happened, Ok
  <2>3. regs' = TakeEdge(regs, args, NoVal, NoVal) BY <2>1
  <2>4. \A n \in 1 .. 2 : Arg("value", n) \in [kind : {"value", "res", "err"}, n : 0 .. 2]
                          /\ Arg("value", n).kind = "value" /\ Arg("value", n).n = n
    BY DEF Arg
  <2>5. /\ args \in Seq([kind : {"value", "res", "err"}, n : 0 .. 2]) /\ Len(args) = 2
        /\ args[1] = Arg("value", i) /\ args[2] = Arg("value", j)
    BY <2>4
  <2>6. \A k \in 1 .. 2 : args[k].kind = "value" /\ args[k].n \in 1 .. 2 BY <2>4, <2>5
  <2> HIDE DEF args
  <2>7. /\ RegsOK(regs')
        /\ \A k \in DOMAIN args : args[k].kind = "value" => regs'[k] = regs[args[k].n]
    BY <1>0, <2>3, <2>5, <2>6, EdgeFacts
  <2> QED BY <2>2, <2>7 DEF IInv, RegsOK, ErrorsOnlyInCheck, EdgesReadFirst, Running
<1>6. CASE Step
  <2>1. event' = NoEvent /\ regs' = regs BY <1>6 DEF Step
  <2>2. event'.kind = "none" /\ event'.args = <<>> /\ event'.out.kind = "ok"
    BY <2>1 DEF NoEvent, Ok
  <2> QED BY <1>0, <2>1, <2>2 DEF IInv, RegsOK, ErrorsOnlyInCheck, EdgesReadFirst, Running
<1>7. CASE UNCHANGED vars
  BY <1>7 DEF vars, IInv, RegsOK, ErrorsOnlyInCheck, EdgesReadFirst, Running
<1> QED BY <1>1, <1>2, <1>3, <1>4, <1>5, <1>6, <1>7 DEF Next

------------------------------------------------------------------------------
\* In every reachable state the bits of a register are a pattern of its type: no
\* operation, and no edge, leaves bits above the width (exec.rs stores the result as
\* it comes; every arm of the evaluation has to wrap it first).
THEOREM BitsCanonical == Spec => []RegsOK(regs)
<1>1. IInv => RegsOK(regs) BY DEF IInv
<1> QED BY <1>1, InitEstablishes, StepPreserves, PTL DEF Spec

\* What the type rules let stand outside a check raises no error, whatever the widths,
\* the policies and the operands (can_error against the arms of the evaluation).
THEOREM ErrorsInChecks == Spec => []ErrorsOnlyInCheck
<1>1. IInv => ErrorsOnlyInCheck BY DEF IInv
<1> QED BY <1>1, InitEstablishes, StepPreserves, PTL DEF Spec

\* An edge gives every parameter what its argument was before the edge (take_edge).
THEOREM EdgesRead == Spec => []EdgesReadFirst
<1>1. IInv => EdgesReadFirst BY DEF IInv
<1> QED BY <1>1, InitEstablishes, StepPreserves, PTL DEF Spec
=============================================================================
