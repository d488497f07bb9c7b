------------------------------ MODULE MCValues ------------------------------
(* Integers of 2 and 4 bits, and floats around the ends of their ranges. *)
EXTENDS ValuesProps

\* 0, 1/2, 1, 3/2, 2, 4, 15/2, 8, 17/2, 9, 31/2, 16
Magnitudes == {0, 1, 2, 3, 4, 8, 15, 16, 17, 18, 31, 32}
NoScalars == 6 .. 7
=============================================================================
