---------------------------- MODULE MCStatepoints ----------------------------
(***************************************************************************)
(* Small functions for statepoint insertion: shapes of control flow, and   *)
(* what their blocks hold.  A shape lists for each block how many          *)
(* parameters it has and its terminator; operands are symbols:             *)
(*                                                                         *)
(*   "r"   the function's parameter        "h"   the block's parameter     *)
(*   "c"   the block's latest reference    "g"   block 2's parameter       *)
(*   "p"   the block's derived pointer                                     *)
(***************************************************************************)
EXTENDS StatepointProps, TLC

RECURSIVE EmitAll(_, _), AddParams(_, _, _, _)

Sym(s, b, x) ==
    CASE x = "r" -> 1
      [] x = "h" -> s.blk[b].params[1]
      [] x = "g" -> s.blk[2].params[1]
      [] x = "p" -> s.ptr[b]
      [] x = "c" -> s.cur[b]
Syms(s, b, xs) == [j \in DOMAIN xs |-> Sym(s, b, xs[j])]

\* One instruction.
Item(op, args, gc, rets, attrs) ==
    [op |-> op, args |-> args, gc |-> gc, rets |-> rets, attrs |-> attrs]
Poll == Item("safepoint", <<>>, <<>>, <<>>, {})
PollR == Item("safepoint", <<>>, <<"r">>, <<>>, {})
Alloc == Item("call", <<>>, <<>>, <<"ref">>, {})
AllocC == Item("call", <<"c">>, <<>>, <<"ref">>, {})
Leaf == Item("call", <<"c">>, <<>>, <<"ref">>, {"nogc"})
UseR == Item("use", <<"r">>, <<>>, <<>>, {})
UseH == Item("use", <<"h">>, <<>>, <<>>, {})
UseC == Item("use", <<"c">>, <<>>, <<>>, {})
ToPtr == Item("toptr", <<"c">>, <<>>, <<"raw">>, {})
Index == Item("derive", <<"p">>, <<>>, <<"raw">>, {})
UseP == Item("use", <<"p">>, <<>>, <<>>, {})
StoreP == Item("store", <<"p", "p">>, <<>>, <<>>, {})

Emit(s, b, item) ==
    LET i == Len(s.inst) + 1
        gc == Syms(s, b, item.gc)
        tys == item.rets \o [j \in DOMAIN gc |-> "ref"]
        res == [j \in DOMAIN tys |-> Len(s.val) + j]
    IN  [s EXCEPT
          !.inst = Append(@, [op |-> item.op, args |-> Syms(s, b, item.args), gc |-> gc,
                              attrs |-> item.attrs, rets |-> Len(item.rets), res |-> res]),
          !.val = @ \o [j \in DOMAIN tys |-> [ty |-> tys[j], alias |-> NONE,
                          def |-> [kind |-> "result", at |-> i, index |-> j]]],
          !.blk[b].insts = Append(@, i),
          !.cur[b] = IF item.rets = <<"ref">> THEN res[1] ELSE @,
          !.ptr[b] = IF item.rets = <<"raw">> THEN res[1] ELSE @]

EmitAll(s, todo) ==
    IF todo = <<>> THEN s ELSE EmitAll(Emit(s, todo[1][1], todo[1][2]), Tail(todo))

AddParams(s, b, n, ty) ==
    IF n = 0 THEN s
    ELSE LET v == Len(s.val) + 1
         IN  AddParams([s EXCEPT !.val = Append(@, [ty |-> ty, alias |-> NONE,
                          def |-> [kind |-> "param", at |-> b, index |-> Len(s.blk[b].params) + 1]]),
                                 !.blk[b].params = Append(@, v), !.cur[b] = v], b, n - 1, ty)

\* Terminators of a shape: edges are <<block, argument symbols>>.
Out(op, args, edges) == [op |-> op, args |-> args, edges |-> edges]
Jump(b, xs) == Out("jump", <<>>, <<<<b, xs>>>>)
Branch(b, xs, d, ys) == Out("branch", <<>>, <<<<b, xs>>, <<d, ys>>>>)
Invoke(b, xs, d, ys) == Out("invoke", <<>>, <<<<b, xs>>, <<d, ys>>>>)
Return(x) == Out("return", <<x>>, <<>>)
Check(b, d) == Out("check", <<"p">>, <<<<b, <<"res">>>>, <<d, <<>>>>>>)
Edge(s, b, e) ==
    [block |-> e[1], args |-> [j \in DOMAIN e[2] |->
        IF e[2][j] = "res" THEN Res(0) ELSE Val(Sym(s, b, e[2][j]))]]

\* The function of a shape with contents fill[b].
Skeleton(shape) ==
    [blk |-> [b \in DOMAIN shape |-> [params |-> <<>>, insts |-> <<>>, term |-> NONE]],
     inst |-> <<>>, val |-> <<>>, live |-> DOMAIN shape, params |-> <<"ref">>,
     returns |-> <<"ref">>, attrs |-> {},
     cur |-> [b \in DOMAIN shape |-> 1], ptr |-> [b \in DOMAIN shape |-> NONE]]
WithParams(shape) ==
    LET upto[b \in 0..Len(shape)] ==
          IF b = 0 THEN Skeleton(shape) ELSE AddParams(upto[b - 1], b, shape[b].params, shape[b].ty)
    IN  upto[Len(shape)]
Program(shape, fill) ==
    LET todo[b \in 0..Len(shape)] ==
          IF b = 0 THEN <<>> ELSE todo[b - 1] \o [j \in DOMAIN fill[b] |-> <<b, fill[b][j]>>]
        s == EmitAll(WithParams(shape), todo[Len(shape)])
    IN  [blk |-> [b \in DOMAIN shape |-> [params |-> s.blk[b].params, insts |-> s.blk[b].insts,
                   term |-> [op |-> shape[b].out.op, args |-> Syms(s, b, shape[b].out.args),
                             gc |-> <<>>, attrs |-> {},
                             rets |-> IF shape[b].out.op = "invoke" THEN 1 ELSE 0,
                             edges |-> [j \in DOMAIN shape[b].out.edges |->
                                          Edge(s, b, shape[b].out.edges[j])]]]],
         inst |-> s.inst, val |-> s.val, live |-> s.live, params |-> s.params,
         returns |-> s.returns, attrs |-> s.attrs]

Blk(n, out) == [params |-> n, ty |-> "ref", out |-> out]
RawBlk(n, out) == [params |-> n, ty |-> "raw", out |-> out]

\* A loop whose header is a parameter's only definition in it.
Loop == <<Blk(1, Jump(2, <<"r">>)), Blk(1, Branch(2, <<"c">>, 3, <<>>)), Blk(0, Return("g"))>>
\* A loop of two blocks, entered in the middle too.
Irreducible == <<Blk(1, Branch(2, <<>>, 3, <<>>)), Blk(0, Jump(3, <<>>)),
                 Blk(0, Branch(2, <<>>, 4, <<>>)), Blk(0, Return("r"))>>
\* Both edges of a branch into one block, and a block nothing leads to.
Diamond == <<Blk(1, Branch(2, <<>>, 3, <<"c">>)), Blk(0, Branch(3, <<"c">>, 3, <<"r">>)),
             Blk(1, Return("h")), Blk(0, Jump(2, <<>>))>>
\* An invoke in a loop, whose unwind edge leaves it.
Unwind == <<Blk(1, Jump(2, <<"c">>)), Blk(1, Invoke(3, <<"res", "h">>, 4, <<>>)),
            Blk(2, Branch(2, <<"c">>, 5, <<>>)), Blk(0, Return("r")), Blk(0, Return("g"))>>

Fill(shape, S) == {Program(shape, c) : c \in [DOMAIN shape -> S]}
Bodied(shape, menu) == {Program(shape, c) : c \in {d \in [DOMAIN shape -> UNION Range(menu)] :
                            \A b \in DOMAIN shape : d[b] \in menu[b]}}

Bodies ==
    Bodied(Loop, <<{<<>>, <<Alloc>>}, {<<Poll>>, <<UseC, Alloc>>, <<AllocC, Leaf>>, <<PollR, UseR>>},
                 {<<>>, <<Poll, UseR>>}>>)
    \cup Bodied(Irreducible, <<{<<>>, <<Poll>>}, {<<>>, <<Poll>>, <<UseR>>}, {<<>>, <<Poll>>, <<PollR>>}, {<<>>}>>)
    \cup Bodied(Diamond, <<{<<>>, <<Alloc>>}, {<<Poll>>, <<UseC, Alloc>>}, {<<>>, <<UseR>>}, {<<>>, <<Poll>>}>>)
    \cup Bodied(Unwind, <<{<<>>, <<Alloc>>}, {<<>>, <<Poll>>}, {<<>>, <<UseR>>}, {<<UseR>>}, {<<>>}>>)
    \cup Bodied(Loop, <<{<<ToPtr, Index, UseP, Poll>>, <<ToPtr, Poll, Index>>, <<ToPtr, StoreP>>}, {<<Poll>>}, {<<>>}>>)

\* Control flow alone: four blocks of up to two edges each.
Exits == {<<>>} \cup {<<b>> : b \in 2..4} \cup {<<b, d>> : b \in 2..4, d \in 2..4}
Graph(succ) ==
    Program([b \in 1..4 |-> Blk(IF b = 1 THEN 1 ELSE 0,
        CASE Len(succ[b]) = 0 -> Return("r")
          [] Len(succ[b]) = 1 -> Jump(succ[b][1], <<>>)
          [] OTHER -> Branch(succ[b][1], <<>>, succ[b][2], <<>>))], [b \in 1..4 |-> <<>>])
Graphs == {Graph(<<a, b, c, d>>) : a \in {<<2>>, <<2, 3>>, <<4, 2>>}, b \in Exits, c \in Exits,
                                   d \in {e \in Exits : Len(e) < 2}}
BodiesAndGraphs == Bodies \cup Graphs

\* A derived pointer that the result of a check is computed from.
Checked ==
    {Program(<<Blk(1, Check(2, 3)), RawBlk(1, Return("r")), Blk(0, Return("r"))>>,
             <<<<ToPtr>>, <<Poll, UseH>>, <<>>>>)}
=============================================================================
