------------------------------- MODULE MCSsa -------------------------------
(***************************************************************************)
(* Small programs for SsaConstruct: shapes of control flow, where the      *)
(* variables are assigned and read, and what the front end takes off.      *)
(***************************************************************************)
EXTENDS SsaConstructProps, TLC

\* Three blocks: a conditional entry into a loop of two blocks, one of which
\* can also branch to itself (an irreducible graph, and a self loop).
Loop ==
    [shape    |-> 0 :> {<<1>>, <<1, 2>>} @@ 1 :> {<<2>>, <<1, 2>>} @@ 2 :> {<<1>>, <<>>},
     assigns  |-> {1} \X (0..2), uses |-> {1} \X (0..2), editable |-> {2}, room |-> 4]

\* Four blocks: two arms that meet again, one of them with both edges of a
\* branch into the meeting point, and a way back.  One arm assigns.
Diamond ==
    [shape    |-> 0 :> {<<1, 2>>} @@ 1 :> {<<3>>} @@ 2 :> {<<3, 3>>} @@ 3 :> {<<>>, <<2>>},
     assigns  |-> {<<1, 0>>, <<1, 1>>}, uses |-> {<<1, 2>>, <<1, 3>>}, editable |-> {}, room |-> 5]

\* Two variables that a loop assigns to, also from each other.
Swap ==
    [shape    |-> 0 :> {<<1>>} @@ 1 :> {<<1, 2>>} @@ 2 :> {<<>>},
     assigns  |-> {<<1, 0>>, <<1, 1>>, <<2, 1>>}, uses |-> {<<1, 1>>, <<2, 1>>},
     editable |-> {}, room |-> 5]

\* A loop whose front end rewrites values while variables are still read.  Without
\* an edge from the entry the loop is unreachable: a cycle of two blocks that are
\* each other's only predecessor, or a block that is its own.
Rewrite ==
    [shape    |-> 0 :> {<<>>, <<1, 2>>} @@ 1 :> {<<2>>, <<1, 2>>} @@ 2 :> {<<1>>},
     assigns  |-> {<<1, 0>>, <<1, 2>>}, uses |-> {<<1, 1>>}, editable |-> {}, room |-> 3]

Builds == {Loop, Diamond, Swap}
Rewrites == {Rewrite}
LoopsKept == {[Loop EXCEPT !.editable = {}]}
=============================================================================
