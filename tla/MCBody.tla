------------------------------- MODULE MCBody -------------------------------
EXTENDS BodyProps

\* Lists of three instructions over two blocks, and three blocks with lists of
\* up to two.
LongLists == {[blocks |-> 2, insts |-> 3, values |-> 3],
              [blocks |-> 3, insts |-> 2, values |-> 2]}
=============================================================================
