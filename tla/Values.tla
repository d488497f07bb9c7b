------------------------------- MODULE Values -------------------------------
(***************************************************************************)
(* Operations on scalar values: which of them the type rules accept        *)
(* (src/src/typing.rs, src/src/ops.rs), what they evaluate to              *)
(* (src/src/interp/mod.rs) and what the interpreter makes of it            *)
(* (src/src/interp/exec.rs), for a function of two registers.              *)
(*                                                                         *)
(* Widths are small: Word stands for the 64 bits of u64 and of the widest  *)
(* integer type, Wide for the 128 bits the exact results are computed in.  *)
(* A float is a sign bit and a magnitude, 2 * |x| for a finite x, so that  *)
(* halves exist; the magnitudes above MaxMag are infinity and NaN.  One    *)
(* float type stands for both, so a cast between them is left out, and so  *)
(* are the operations that are one call of the standard library or its     *)
(* arithmetic (add to div, sqrt, floor, ceil, trunc, round) or a routine   *)
(* of approximations (pow).                                                *)
(***************************************************************************)
EXTENDS Integers, Sequences, FiniteSetsExt

CONSTANTS Widths,      \* bits of the integer types, powers of two
          Word, Wide,  \* bits of u64 and of i128
          Mags,        \* the magnitudes of the floats a program starts from
          MaxMag,      \* twice the largest finite float
          TinyMag,     \* below it ieee_remainder doubles instead of halving
          SignBit,     \* of a float
          MaxChar, Surrogates

ASSUME ValuesAssumption ==
    /\ Widths \subseteq {2 ^ k : k \in 0 .. Word} /\ \A w \in Widths : w <= Word
    /\ Word \in Widths /\ 2 ^ Word > 6 /\ Wide >= 2 * Word /\ {Word, Wide} \subseteq Nat
    /\ Mags \subseteq Nat /\ {MaxMag, TinyMag, SignBit} \subseteq Nat
    /\ SignBit > MaxMag + 2

\* What ^ means, of which the provers know little.
ASSUME PowersAssumption == 2 ^ 0 = 1 /\ \A k \in 0 .. Word : 2 ^ (k + 1) = 2 * 2 ^ k

VARIABLES
    regs,   \* the two registers: a type and the bits
    event   \* what was executed last, and how it ended

vars == <<regs, event>>

IntTy(w, signed) == [kind |-> "int", w |-> w, signed |-> signed]
Bool == [kind |-> "bool", w |-> 1, signed |-> FALSE]
Float == [kind |-> "float", w |-> 1, signed |-> TRUE]
U32 == IntTy(Word, FALSE)
I8 == IntTy(Min(Widths), TRUE)
IntTypes == {IntTy(w, s) : w \in Widths, s \in BOOLEAN}
IsInt(ty) == ty.kind = "int"
IsFloat(ty) == ty.kind = "float"
IsNumeric(ty) == ty.kind # "bool"

------------------------------------------------------------------------------
(* Policies: what an operation does where its result does not exist. *)
Policies ==
    [overflow : {"none", "error", "wrap", "trap"}, div_zero : {"none", "error", "trap"},
     shift : {"none", "error", "mask", "saturate"}, float_to_int : {"none", "error", "saturate"}]
Fields == {"overflow", "div_zero", "shift", "float_to_int"}

\* Policy::required_unary, required_binary and required_conversion: the fields the
\* operation needs, and may not go beyond (PolicyFields::matches).
RequiredUnary(op, ty) == IF IsInt(ty) /\ op \in {"neg", "abs"} THEN {"overflow"} ELSE {}
RequiredBinary(op, ty) ==
    IF ~IsInt(ty) THEN {}
    ELSE (IF op \in {"add", "sub", "mul", "div", "floor_div", "pow"} THEN {"overflow"} ELSE {})
    \cup (IF op \in {"div", "rem", "floor_div", "floor_mod"} THEN {"div_zero"} ELSE {})
    \cup (IF op \in {"shl", "shr"} THEN {"shift"} ELSE {})
RequiredConversion(op) ==
    IF op = "int_cast" THEN {"overflow"} ELSE IF op = "float_to_int" THEN {"float_to_int"} ELSE {}
Matches(fields, policy) == \A f \in Fields : policy[f] # "none" <=> f \in fields
PoliciesFor == [fields \in SUBSET Fields |-> {p \in Policies : Matches(fields, p)}]

\* can_error: of the policy, of a binary operation and of a conversion.
PolicyCanError(policy) == \E f \in Fields : policy[f] = "error"
BinaryByPolicy(op, policy, ty) == PolicyCanError(policy)
BinaryCanError(op, policy, ty) ==
    \/ PolicyCanError(policy)
    \/ ty.kind = "int" /\ ty.signed /\ op = "pow"
    \/ ty.kind = "int" /\ ty.signed /\ op \in {"shl", "shr"} /\ policy.shift = "saturate"
ConvCanError(op, policy) == PolicyCanError(policy) \/ op = "char_from_u32"

\* typing::unary_types, binary_types and conversion_ok.  An operation that can raise
\* an error is accepted in a check only, and a check of no other
\* (check_error_placement).
UnaryOps == {"neg", "abs", "not"}
UnaryOk(op, ty) == IF op = "not" THEN ~IsFloat(ty) ELSE IsNumeric(ty)
BinaryOps == {"add", "sub", "mul", "div", "rem", "min", "max", "pow", "floor_div", "floor_mod",
              "shl", "shr", "ieee_rem", "total_cmp", "and", "or", "xor"}
BinaryOk(op, ty) ==
    CASE op \in {"floor_div", "floor_mod", "shl", "shr"} -> IsInt(ty)
      [] op \in {"ieee_rem", "total_cmp"} -> IsFloat(ty)
      [] op \in {"and", "or", "xor"} -> ~IsFloat(ty)
      [] OTHER -> IsNumeric(ty)
ConvOps == {"int_cast", "zext", "sext", "narrow", "int_to_float", "float_to_int", "bitcast",
            "char_from_u32", "bool_to_int"}
ConversionOk(op, from, to) ==
    CASE op = "int_cast" -> IsInt(from) /\ IsInt(to) /\ from # to
      [] op \in {"zext", "sext"} -> IsInt(from) /\ IsInt(to) /\ to.w > from.w
      [] op = "narrow" -> IsInt(from) /\ IsInt(to) /\ to.w < from.w
      [] op = "int_to_float" -> IsInt(from) /\ IsFloat(to)
      [] op = "float_to_int" -> IsFloat(from) /\ IsInt(to)
      [] op = "bitcast" -> IsInt(from) /\ IsInt(to) /\ from # to /\ from.w = to.w
      [] op = "char_from_u32" -> from = U32 /\ to = U32
      [] op = "bool_to_int" -> from = Bool /\ IsInt(to)
CompareOk(op, ty) == op \in {"eq", "ne"} \/ IsNumeric(ty)
ConstOk(ty, bits) == IF IsFloat(ty) THEN TRUE ELSE bits < 2 ^ ty.w

------------------------------------------------------------------------------
(* Integers: sval, int_range, wrap. *)
Sval(ty, bits) == IF ty.signed /\ bits >= 2 ^ (ty.w - 1) THEN bits - 2 ^ ty.w ELSE bits
Lo(ty) == IF ty.signed THEN -(2 ^ (ty.w - 1)) ELSE 0
Hi(ty) == IF ty.signed THEN 2 ^ (ty.w - 1) - 1 ELSE 2 ^ ty.w - 1
Wrap(ty, v) == v % 2 ^ ty.w

Ok(v) == [kind |-> "ok", v |-> v]
Error(code) == [kind |-> "error", v |-> code]
Trap(code) == [kind |-> "trap", v |-> code]
\* OpError::code
ArithOverflow == 1
DivByZero == 2
ShiftOutOfRange == 3
InvalidConversion == 4
InvalidChar == 5
NegativeExponent == 6

Overflow(policy, wrapped) ==
    CASE policy.overflow = "trap" -> Trap(ArithOverflow)
      [] policy.overflow = "error" -> Error(ArithOverflow)
      [] OTHER -> Ok(wrapped)
DivZero(policy) == IF policy.div_zero = "trap" THEN Trap(DivByZero) ELSE Error(DivByZero)

\* checked arithmetic in i128, with no result when it does not fit; exact() then
\* takes the exact result if the type has it.
Checked(v) == IF v >= -(2 ^ (Wide - 1)) /\ v < 2 ^ (Wide - 1) THEN <<v>> ELSE <<>>
CheckedMul(p, q) == IF p = <<>> \/ q = <<>> THEN <<>> ELSE Checked(p[1] * q[1])
Exact(ty, policy, v, wrapped) ==
    IF v # <<>> /\ v[1] >= Lo(ty) /\ v[1] <= Hi(ty) THEN Ok(Wrap(ty, v[1]))
    ELSE Overflow(policy, wrapped)

\* Bits, and the division of Rust, which truncates.
Bit(n, k) == (n \div 2 ^ k) % 2 = 1
Bits == 0 .. Word - 1
FromBits(ones) ==
    LET n[k \in 0 .. Word] == IF k = 0 THEN 0 ELSE n[k - 1] + (IF k - 1 \in ones THEN 2 ^ (k - 1) ELSE 0)
    IN  n[Word]
Abs(x) == IF x < 0 THEN -x ELSE x
Quot(x, y) == IF (x < 0) = (y < 0) THEN Abs(x) \div Abs(y) ELSE -(Abs(x) \div Abs(y))
Rem(x, y) == x - y * Quot(x, y)

\* int_pow: repeated squaring, wrapping in u64 and checked in i128.
Multiplied(s) ==
    IF s.e % 2 = 0 THEN s
    ELSE [s EXCEPT !.wrapped = (@ * s.wbase) % 2 ^ Word, !.power = CheckedMul(@, s.base)]
Squared(s) ==
    [s EXCEPT !.e = @ \div 2, !.wbase = (@ * @) % 2 ^ Word, !.base = CheckedMul(@, @)]
IntPow(ty, policy, x, e, a) ==
    IF e < 0 THEN Error(NegativeExponent)
    ELSE LET loop[k \in 0 .. Word] ==
                 IF k = 0
                 THEN Multiplied([e |-> e, wrapped |-> 1, wbase |-> a, power |-> <<1>>, base |-> <<x>>])
                 ELSE IF loop[k - 1].e <= 1 THEN loop[k - 1]
                 ELSE Multiplied(Squared(loop[k - 1]))
         IN  Exact(ty, policy, loop[Word].power, loop[Word].wrapped % 2 ^ ty.w)

\* Shifts by an amount outside 0 .. w - 1 go by the policy; a negative amount does
\* not saturate.
ShiftBy(op, ty, a, n) ==
    IF op = "shl" THEN Ok((a * 2 ^ n) % 2 ^ ty.w)
    ELSE Ok(Wrap(ty, Sval(ty, a) \div 2 ^ n))
IntShift(op, policy, ty, a, b) ==
    LET y == Sval(ty, b)
    IN  IF y \in 0 .. ty.w - 1 THEN ShiftBy(op, ty, a, y)
        ELSE IF policy.shift = "mask" THEN ShiftBy(op, ty, a, b % ty.w)
        ELSE IF policy.shift = "saturate" /\ y >= 0
        THEN Ok(IF op = "shr" /\ Sval(ty, a) < 0 THEN 2 ^ ty.w - 1 ELSE 0)
        ELSE Error(ShiftOutOfRange)

\* int_binary
FloorQuotDividend(x, y) ==
    IF Rem(x, y) # 0 /\ x < 0 THEN Quot(x, y) - 1 ELSE Quot(x, y)
FloorQuot(x, y) ==
    IF Rem(x, y) # 0 /\ (x < 0) # (y < 0) THEN Quot(x, y) - 1 ELSE Quot(x, y)
FloorRem(x, y) ==
    IF Rem(x, y) # 0 /\ (Rem(x, y) < 0) # (y < 0) THEN Rem(x, y) + y ELSE Rem(x, y)
IntBinary(op, policy, ty, a, b) ==
    LET x == Sval(ty, a)
        y == Sval(ty, b)
        m == 2 ^ ty.w
    IN  IF op \in {"div", "floor_div", "rem", "floor_mod"} /\ y = 0 THEN DivZero(policy) ELSE
        CASE op = "add" -> Exact(ty, policy, Checked(x + y), (a + b) % m)
          [] op = "sub" -> Exact(ty, policy, Checked(x - y), (a - b) % m)
          [] op = "mul" -> Exact(ty, policy, Checked(x * y), (a * b) % m)
          [] op = "div" -> Exact(ty, policy, <<Quot(x, y)>>, Wrap(ty, Quot(x, y)))
          [] op = "floor_div" -> Exact(ty, policy, <<FloorQuot(x, y)>>, Wrap(ty, FloorQuot(x, y)))
          [] op = "rem" -> Ok(Wrap(ty, Rem(x, y)))
          [] op = "floor_mod" -> Ok(Wrap(ty, FloorRem(x, y)))
          [] op = "and" -> Ok(FromBits({k \in Bits : Bit(a, k) /\ Bit(b, k)}))
          [] op = "or" -> Ok(FromBits({k \in Bits : Bit(a, k) \/ Bit(b, k)}))
          [] op = "xor" -> Ok(FromBits({k \in Bits : Bit(a, k) # Bit(b, k)}))
          [] op \in {"shl", "shr"} -> IntShift(op, policy, ty, a, b)
          [] op = "min" -> Ok(IF x <= y THEN a ELSE b)
          [] op = "max" -> Ok(IF x >= y THEN a ELSE b)
          [] op = "pow" -> IntPow(ty, policy, x, y, a)

------------------------------------------------------------------------------
(* Floats. *)
Mag(f) == f % SignBit
IsNeg(f) == f >= SignBit
Inf == MaxMag + 1
Nan == MaxMag + 2
IsNan(f) == Mag(f) >= Nan
IsInf(f) == Mag(f) = Inf
Twice(f) == IF IsNeg(f) THEN -Mag(f) ELSE Mag(f)
Signed(neg, mag) == IF neg THEN SignBit + mag ELSE mag

\* ieee_remainder: the residue modulo 2y is reduced by y at most twice.
Reduced(r, p) ==
    IF p < TinyMag
    THEN IF r + r > p THEN IF (r - p) + (r - p) >= p THEN r - p - p ELSE r - p ELSE r
    ELSE IF 2 * r > p THEN IF 2 * (r - p) >= p THEN r - p - p ELSE r - p ELSE r
IeeeRem(a, b) ==
    IF Mag(b) = 0 \/ IsInf(a) \/ IsNan(a) \/ IsNan(b) THEN Nan
    ELSE IF IsInf(b) THEN a
    ELSE LET p == Mag(b)
             start == IF 2 * p <= MaxMag THEN Mag(a) % (p + p) ELSE Mag(a)
             r == Reduced(start, p)
         IN  Signed((r < 0) # IsNeg(a), Abs(r))

\* fmin and fmax: a NaN wins, and minus zero is below zero.
Fmin(a, b) ==
    IF IsNan(a) \/ IsNan(b) THEN Nan
    ELSE IF Twice(a) < Twice(b) THEN a
    ELSE IF Twice(b) < Twice(a) THEN b
    ELSE IF IsNeg(a) THEN a ELSE b
Fmax(a, b) ==
    IF IsNan(a) \/ IsNan(b) THEN Nan
    ELSE IF Twice(a) > Twice(b) \/ (Twice(a) = Twice(b) /\ IsNeg(b)) THEN a ELSE b
TotalKey(f) == IF IsNeg(f) THEN -Mag(f) - 1 ELSE Mag(f)
TotalCmp(a, b) ==
    IF TotalKey(a) < TotalKey(b) THEN -1 ELSE IF TotalKey(a) = TotalKey(b) THEN 0 ELSE 1
FloatBinary(op, a, b) ==
    CASE op = "ieee_rem" -> Ok(IeeeRem(a, b))
      [] op = "min" -> Ok(Fmin(a, b))
      [] op = "max" -> Ok(Fmax(a, b))
      [] op = "total_cmp" -> Ok(Wrap(I8, TotalCmp(a, b)))
FloatModelled == {"ieee_rem", "min", "max", "total_cmp"}

\* The float_to_int arm of eval_convert: truncate, then compare with the range.
FloatToInt(policy, to, f) ==
    LET t == IF IsNeg(f) THEN -(Mag(f) \div 2) ELSE Mag(f) \div 2
        inside == ~IsNan(f) /\ ~IsInf(f) /\ t >= Lo(to) /\ t < Hi(to) + 1
    IN  IF inside THEN Ok(Wrap(to, t))
        ELSE IF policy.float_to_int # "saturate" THEN Error(InvalidConversion)
        ELSE Ok(IF IsNan(f) THEN 0 ELSE IF IsNeg(f) THEN Wrap(to, Lo(to)) ELSE Wrap(to, Hi(to)))

------------------------------------------------------------------------------
(* eval_unary, eval_binary, eval_compare, eval_convert. *)
EvalUnary(op, policy, ty, a) ==
    LET x == Sval(ty, a) IN
    CASE IsInt(ty) /\ op = "neg" -> Exact(ty, policy, <<-x>>, Wrap(ty, 0 - x))
      [] IsInt(ty) /\ op = "abs" -> Exact(ty, policy, <<Abs(x)>>, Wrap(ty, Abs(x)))
      [] IsFloat(ty) /\ op = "neg" -> Ok(Signed(~IsNeg(a), Mag(a)))
      [] IsFloat(ty) /\ op = "abs" -> Ok(Mag(a))
      [] OTHER -> Ok(2 ^ ty.w - 1 - a)
EvalBinary(op, policy, ty, a, b) ==
    IF IsFloat(ty) THEN FloatBinary(op, a, b) ELSE IntBinary(op, policy, ty, a, b)
Holds(op, x, y) ==
    CASE op = "eq" -> x = y  [] op = "ne" -> x # y  [] op = "lt" -> x < y
      [] op = "le" -> x <= y [] op = "gt" -> x > y  [] op = "ge" -> x >= y
EvalCompare(op, ty, a, b) ==
    IF ~IsFloat(ty) THEN Holds(op, Sval(ty, a), Sval(ty, b))
    ELSE IF IsNan(a) \/ IsNan(b) THEN op = "ne"
    ELSE Holds(op, Twice(a), Twice(b))
EvalConvert(op, policy, from, to, a) ==
    CASE op = "int_cast" -> Exact(to, policy, <<Sval(from, a)>>, Wrap(to, Sval(from, a)))
      [] op \in {"zext", "narrow", "bitcast", "bool_to_int"} -> Ok(a % 2 ^ to.w)
      [] op = "sext" -> Ok(Wrap(to, Sval(IntTy(from.w, TRUE), a)))
      [] op = "int_to_float" -> Ok(Signed(Sval(from, a) < 0, 2 * Abs(Sval(from, a))))
      [] op = "float_to_int" -> FloatToInt(policy, to, a)
      [] op = "char_from_u32" ->
            IF a <= MaxChar /\ a \notin Surrogates THEN Ok(a) ELSE Error(InvalidChar)

------------------------------------------------------------------------------
(***************************************************************************)
(* Execution.  An operation is [form, op, policy, to]; it reads the        *)
(* registers in order, and its result goes to the first.                   *)
(***************************************************************************)
NoPolicy == [f \in Fields |-> "none"]
NoEvent == [kind |-> "none", op |-> "none", policy |-> NoPolicy, to |-> Bool,
            before |-> <<>>, args |-> <<>>, out |-> Ok(0)]

Eval(form, op, policy, to) ==
    LET r == regs[1] IN
    CASE form = "unary" -> EvalUnary(op, policy, r.ty, r.bits)
      [] form = "binary" -> EvalBinary(op, policy, r.ty, r.bits, regs[2].bits)
      [] form = "convert" -> EvalConvert(op, policy, r.ty, to, r.bits)

\* inst_types: the operations the type rules let stand in, or out of, a check
\* (check_policy, check_error_placement).
UnaryOf(ty, inCheck) ==
    UNION {{<<"unary", op, p, ty>> :
              p \in {q \in PoliciesFor[RequiredUnary(op, ty)] : PolicyCanError(q) = inCheck}} :
                op \in {o \in UnaryOps : UnaryOk(o, ty)}}
BinaryOf(ty, inCheck) ==
    UNION {{<<"binary", op, p, IF op = "total_cmp" THEN I8 ELSE ty>> :
              p \in {q \in PoliciesFor[RequiredBinary(op, ty)] : BinaryCanError(op, q, ty) = inCheck}} :
                op \in {o \in BinaryOps : BinaryOk(o, ty) /\ (IsFloat(ty) => o \in FloatModelled)}}
ConvertOf(from, inCheck) ==
    UNION {{<<"convert", op, p, to>> :
              to \in {t \in IntTypes \cup {Float} : ConversionOk(op, from, t)},
              p \in {q \in PoliciesFor[RequiredConversion(op)] : ConvCanError(op, q) = inCheck}} :
                op \in ConvOps}
Operations(inCheck) ==
    UnaryOf(regs[1].ty, inCheck) \cup ConvertOf(regs[1].ty, inCheck)
        \cup (IF regs[2].ty = regs[1].ty THEN BinaryOf(regs[1].ty, inCheck) ELSE {})

Value(ty, bits) == [ty |-> ty, bits |-> bits]
Happened(kind, d, args, out) ==
    event' = [kind |-> kind, op |-> d[2], policy |-> d[3], to |-> d[4],
              before |-> regs, args |-> args, out |-> out]

\* take_edge: the arguments are read before a parameter is assigned.  The block the
\* edge leads to has two parameters, in the two registers.
Arg(kind, n) == [kind |-> kind, n |-> n]
Read(rs, arg, res, code) ==
    CASE arg.kind = "value" -> rs[arg.n] [] arg.kind = "res" -> res [] arg.kind = "err" -> code
AssignAll(rs, vals) ==
    LET done[k \in 0 .. Len(vals)] ==
            IF k = 0 THEN rs ELSE [done[k - 1] EXCEPT ![k] = vals[k]]
    IN  done[Len(vals)]
TakeEdgeInTurn(rs, args, res, code) ==
    LET done[k \in 0 .. Len(args)] ==
            IF k = 0 THEN rs
            ELSE [done[k - 1] EXCEPT ![k] = Read(done[k - 1], args[k], res, code)]
    IN  done[Len(args)]
TakeEdge(rs, args, res, code) ==
    AssignAll(rs, [k \in DOMAIN args |-> Read(rs, args[k], res, code)])

Edges(own) == {<<Arg("value", 2), Arg("value", 1)>>, <<own, Arg("value", 1)>>, <<Arg("value", 2), own>>}
NoVal == Value(Bool, 0)
Running == event.kind = "none"

\* The registers hold the arguments of the call.
Inputs ==
    (UNION {{Value(ty, bits) : bits \in 0 .. 2 ^ ty.w - 1} : ty \in IntTypes \cup {Bool}})
        \cup {Value(Float, Signed(neg, mag)) : neg \in BOOLEAN, mag \in Mags \cup {Inf, Nan}}
Init == regs \in [1 .. 2 -> Inputs] /\ event = NoEvent

Const ==
    /\ Running
    /\ \E ty \in IntTypes \cup {Bool}, bits \in 0 .. 2 ^ Word - 1 :
          /\ ConstOk(ty, bits)
          /\ regs' = [regs EXCEPT ![1] = Value(ty, bits)]
    /\ UNCHANGED event

\* exec_inst of an operation: an error outside a check is the interpreter's own.
Execute ==
    /\ Running
    /\ \E d \in Operations(FALSE) : \E out \in {Eval(d[1], d[2], d[3], d[4])} :
          /\ Happened(d[1], d, <<>>, out)
          /\ regs' = IF out.kind = "ok" THEN [regs EXCEPT ![1] = Value(d[4], out.v)] ELSE regs

Compare ==
    /\ Running
    /\ regs[1].ty = regs[2].ty
    /\ \E op \in {"eq", "ne", "lt", "le", "gt", "ge"} :
          /\ CompareOk(op, regs[1].ty)
          /\ \E r \in {IF EvalCompare(op, regs[1].ty, regs[1].bits, regs[2].bits) THEN 1 ELSE 0} :
                /\ Happened("compare", <<"compare", op, NoPolicy, Bool>>, <<>>, Ok(r))
                /\ regs' = [regs EXCEPT ![1] = Value(Bool, r)]

\* The check terminator: the result on the normal edge, the code on the error edge.
Check ==
    /\ Running
    /\ \E d \in Operations(TRUE) : \E out \in {Eval(d[1], d[2], d[3], d[4])} :
          IF out.kind = "trap"
          THEN Happened("check", d, <<>>, out) /\ UNCHANGED regs
          ELSE \E args \in Edges(Arg(IF out.kind = "ok" THEN "res" ELSE "err", 0)) :
                 /\ Happened("check", d, args, out)
                 /\ regs' = TakeEdge(regs, args, Value(d[4], out.v), Value(U32, out.v))

Jump ==
    /\ Running
    /\ \E i, j \in 1 .. 2 : LET args == <<Arg("value", i), Arg("value", j)>> IN
          /\ Happened("jump", <<"jump", "jump", NoPolicy, Bool>>, args, Ok(0))
          /\ regs' = TakeEdge(regs, args, NoVal, NoVal)

\* The next instruction, unless the program ended.
Ended == event.out.kind = "trap" \/ (event.kind # "check" /\ event.out.kind = "error")
Step ==
    /\ ~Running
    /\ ~Ended
    /\ event' = NoEvent
    /\ UNCHANGED regs

Next == Const \/ Execute \/ Compare \/ Check \/ Jump \/ Step
Spec == Init /\ [][Next]_vars
=============================================================================
