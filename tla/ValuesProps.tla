----------------------------- MODULE ValuesProps -----------------------------
(***************************************************************************)
(* What operations on scalar values promise.  The reference for a result   *)
(* is what the operation means on numbers: sums and products of integers,  *)
(* quotients and remainders by the division equation, powers by repeated   *)
(* multiplication, the nearest multiple for the IEEE remainder.            *)
(***************************************************************************)
EXTENDS Values

\* Every number the reference may need lies within Far; a power beyond it stays there.
Far == 2 ^ Wide
Capped(v) == IF v > Far THEN Far ELSE IF v < -Far THEN -Far ELSE v

SameSign(r, x) == r = 0 \/ (r < 0) = (x < 0)
\* The quotient q of x by y whose remainder takes the sign of side.
QuotientOf(x, y, side) ==
    CHOOSE q \in -Far .. Far : Abs(x - q * y) < Abs(y) /\ SameSign(x - q * y, side)

Powers(x, e, F(_)) ==
    LET p[k \in 0 .. e] == IF k = 0 THEN 1 ELSE F(p[k - 1] * x) IN p[e]

\* The number an integer operation stands for, and the same modulo 2^w, which differ
\* only for a power too large to write down.
Meant(op, x, y) ==
    CASE op = "add" -> x + y
      [] op = "sub" -> x - y
      [] op = "mul" -> x * y
      [] op = "div" -> QuotientOf(x, y, x)
      [] op = "floor_div" -> QuotientOf(x, y, y)
      [] op = "rem" -> x - y * QuotientOf(x, y, x)
      [] op = "floor_mod" -> x - y * QuotientOf(x, y, y)
      [] op = "min" -> CHOOSE m \in {x, y} : m <= x /\ m <= y
      [] op = "max" -> CHOOSE m \in {x, y} : m >= x /\ m >= y
      [] op = "pow" -> Powers(x, y, Capped)
Low(op, ty, x, y) ==
    IF op = "pow" THEN Powers(x, y, LAMBDA v : v % 2 ^ ty.w) % 2 ^ ty.w
    ELSE Meant(op, x, y) % 2 ^ ty.w

Fits(ty, v) == v >= Lo(ty) /\ v <= Hi(ty)
Fallback(choice, code, wrapped) ==
    CASE choice = "trap" -> Trap(code)
      [] choice = "error" -> Error(code)
      [] choice = "wrap" -> Ok(wrapped)

\* A shift is a product with, or a floored quotient by, a power of two.  An amount out
\* of range is an error, is reduced modulo the width, or is as large as the width.
Shifted(op, ty, x, n) ==
    IF op = "shl" THEN (x * 2 ^ n) % 2 ^ ty.w ELSE QuotientOf(x, 2 ^ n, 1) % 2 ^ ty.w
ShiftMeant(op, policy, ty, x, y) ==
    CASE Fits(ty, y) /\ y >= 0 /\ y < ty.w -> Ok(Shifted(op, ty, x, y))
      [] policy.shift = "mask" /\ ~(y >= 0 /\ y < ty.w) -> Ok(Shifted(op, ty, x, y % ty.w))
      [] policy.shift = "saturate" /\ y >= ty.w -> Ok(Shifted(op, ty, x, ty.w))
      [] OTHER -> Error(ShiftOutOfRange)

Logic == {"and", "or", "xor"}
LogicMeant(op, ty, a, b) ==
    CHOOSE n \in 0 .. 2 ^ ty.w - 1 : \A k \in 0 .. ty.w - 1 :
        Bit(n, k) <=> CASE op = "and" -> Bit(a, k) /\ Bit(b, k)
                        [] op = "or" -> Bit(a, k) \/ Bit(b, k)
                        [] op = "xor" -> Bit(a, k) # Bit(b, k)

IntMeant(op, policy, ty, a, b) ==
    LET x == Sval(ty, a)
        y == Sval(ty, b)
    IN  CASE op \in Logic -> Ok(LogicMeant(op, ty, a, b))
          [] op \in {"shl", "shr"} -> ShiftMeant(op, policy, ty, x, y)
          [] op \in {"div", "rem", "floor_div", "floor_mod"} /\ y = 0 ->
                Fallback(policy.div_zero, DivByZero, 0)
          [] op = "pow" /\ y < 0 -> Error(NegativeExponent)
          [] OTHER -> IF Fits(ty, Meant(op, x, y)) THEN Ok(Meant(op, x, y) % 2 ^ ty.w)
                      ELSE Fallback(policy.overflow, ArithOverflow, Low(op, ty, x, y))

\* r = a - n * b for the integer n nearest a / b, the even one of two; a zero has the
\* sign of a.
Nearest(x, y, n) ==
    /\ 2 * Abs(x - n * y) <= Abs(y)
    /\ 2 * Abs(x - n * y) = Abs(y) => n % 2 = 0
IeeeRemMeant(a, b) ==
    IF IsNan(a) \/ IsNan(b) \/ IsInf(a) \/ Mag(b) = 0 THEN Nan
    ELSE IF IsInf(b) THEN a
    ELSE LET x == Twice(a)
             y == Twice(b)
             r == x - y * (CHOOSE n \in -MaxMag .. MaxMag : Nearest(x, y, n))
         IN  IF r = 0 THEN Signed(IsNeg(a), 0) ELSE Signed(r < 0, Abs(r))

\* The IEEE total order, as the order of a sequence of classes.
Below(a, b) ==
    \/ IsNeg(a) /\ ~IsNeg(b)
    \/ IsNeg(a) /\ IsNeg(b) /\ Mag(a) > Mag(b)
    \/ ~IsNeg(a) /\ ~IsNeg(b) /\ Mag(a) < Mag(b)
FloatMeant(op, a, b) ==
    CASE op = "ieee_rem" -> IeeeRemMeant(a, b)
      [] op = "total_cmp" -> (IF Below(a, b) THEN -1 ELSE IF a = b THEN 0 ELSE 1) % 2 ^ I8.w
      [] op \in {"min", "max"} ->
            IF IsNan(a) \/ IsNan(b) THEN Nan ELSE IF (op = "min") = Below(a, b) THEN a ELSE b

\* The integer of to nearest the float, from the side of zero; or, saturating, at all.
ToIntMeant(policy, to, f) ==
    LET all == Lo(to) .. Hi(to)
        trunc == {v \in all : /\ Abs(2 * v) <= Mag(f) /\ Mag(f) < Abs(2 * v) + 2
                              /\ v = 0 \/ (v < 0) = IsNeg(f)}
    IN  IF ~IsNan(f) /\ ~IsInf(f) /\ trunc # {} THEN Ok((CHOOSE v \in trunc : TRUE) % 2 ^ to.w)
        ELSE IF policy.float_to_int = "error" THEN Error(InvalidConversion)
        ELSE IF IsNan(f) THEN Ok(0)
        ELSE Ok((IF IsNeg(f) THEN Lo(to) ELSE Hi(to)) % 2 ^ to.w)
ConvertMeant(op, policy, from, to, a) ==
    LET v == Sval(from, a) IN
    CASE op = "int_cast" -> IF Fits(to, v) THEN Ok(v % 2 ^ to.w)
                            ELSE Fallback(policy.overflow, ArithOverflow, v % 2 ^ to.w)
      [] op = "float_to_int" -> ToIntMeant(policy, to, a)
      [] op = "sext" -> Ok((IF Bit(a, from.w - 1) THEN a - 2 ^ from.w ELSE a) % 2 ^ to.w)
      [] op \in {"zext", "bool_to_int", "bitcast"} -> Ok(a)
      [] op = "narrow" -> Ok(a % 2 ^ to.w)
      [] op = "int_to_float" -> Ok(Signed(v < 0, Abs(2 * v)))
      [] op = "char_from_u32" ->
            IF a > MaxChar \/ a \in Surrogates THEN Error(InvalidChar) ELSE Ok(a)

\* -x, |x| and the complement.
UnaryMeant(op, policy, ty, a) ==
    LET x == Sval(ty, a)
        v == IF op = "neg" \/ x < 0 THEN -x ELSE x
    IN  IF op = "not" THEN Ok(LogicMeant("xor", ty, a, 2 ^ ty.w - 1))
        ELSE IF IsFloat(ty) THEN Ok(Signed(op = "neg" /\ ~IsNeg(a), Mag(a)))
        ELSE IF Fits(ty, v) THEN Ok(v % 2 ^ ty.w)
        ELSE Fallback(policy.overflow, ArithOverflow, v % 2 ^ ty.w)

OutcomeMeant(e) ==
    LET ty == e.before[1].ty
        a == e.before[1].bits
        b == e.before[2].bits
    IN  CASE e.op \in UnaryOps -> UnaryMeant(e.op, e.policy, ty, a)
          [] e.op \in ConvOps -> ConvertMeant(e.op, e.policy, ty, e.to, a)
          [] e.op \in BinaryOps /\ IsFloat(ty) -> Ok(FloatMeant(e.op, a, b))
          [] e.op \in BinaryOps /\ ~IsFloat(ty) -> IntMeant(e.op, e.policy, ty, a, b)

------------------------------------------------------------------------------
\* An accepted operation gives the number it means, or what its policy asks for where
\* its type has no such number.  (eval_unary, eval_binary, eval_convert: floored
\* against truncated division, the square taken once too often, the amount of a
\* shift that is negative or as large as the width, the ends of float_to_int.)
ResultsExact ==
    event.op \in UnaryOps \cup BinaryOps \cup ConvOps => event.out = OutcomeMeant(event)

\* An operation that the type rules let stand outside a check never raises an error,
\* which would end a validated program with UncheckedError: can_error, written from
\* the policies, covers every arm of the evaluation that returns one.
ErrorsOnlyInCheck ==
    event.kind # "check" => event.out.kind # "error"

\* A block parameter gets what its argument was before the edge, also when the argument
\* is another parameter of the same block.  (take_edge reads them all first.)
EdgesReadFirst ==
    event.args # <<>> =>
        \A k \in DOMAIN event.args : event.args[k].kind = "value" =>
            regs[k] = event.before[event.args[k].n]
=============================================================================
