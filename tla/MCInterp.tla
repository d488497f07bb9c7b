------------------------------ MODULE MCInterp ------------------------------
(***************************************************************************)
(* Small instances of the interpreter.                                     *)
(***************************************************************************)
EXTENDS InterpProps, TLC

CONSTANTS r1, r2
OneReg == {r1}
TwoRegs == {r1, r2}
Symmetry == Permutations(TwoRegs)
=============================================================================
