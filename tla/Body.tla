-------------------------------- MODULE Body --------------------------------
(***************************************************************************)
(* How a function body is stored and edited (src/src/function.rs, the      *)
(* editing calls of src/src/builder.rs and src/src/ssa.rs, and             *)
(* src/src/compact.rs): arenas of blocks, instructions and values, the     *)
(* instructions of a block as a doubly linked list through the arena, and  *)
(* an insertion point.                                                     *)
(*                                                                         *)
(* Abstractions.  Entities are numbered from 1 in creation order, with 0   *)
(* for the code's NONE.  Every instruction has one result and no operands. *)
(* The function's signature is empty.  Types, forwarding and variable      *)
(* construction (see SsaConstruct) are left out; calls that are refused    *)
(* change nothing and are not actions.  A                                  *)
(* terminator passes to each parameter of its target that parameter's own  *)
(* value, which the builder accepts: the value then shows which parameter  *)
(* an argument was meant for.                                              *)
(***************************************************************************)
EXTENDS Naturals, Sequences, FiniteSets, SequencesExt, Counting

CONSTANTS
    MaxBlocks,  \* bounds on the three arenas, each
    MaxInsts,
    MaxValues,
    Sizes,      \* and together: no arena outgrows all members of Sizes
    MaxEdges,   \* bound on the edges of a terminator
    Careful     \* the front end lets the edges into a block pass all arguments
                \* before it removes several parameters at once

ASSUME BoundsAssumption ==
    /\ MaxBlocks \in Nat \ {0}
    /\ {MaxInsts, MaxValues, MaxEdges} \subseteq Nat
    /\ Sizes \subseteq [blocks : 1..MaxBlocks, insts : 0..MaxInsts, values : 0..MaxValues]
    /\ Careful \in BOOLEAN

NONE == 0
Entry == 1
Block == 1..MaxBlocks
Inst == 1..MaxInsts
Value == 1..MaxValues

VARIABLES
    arena,   \* how many blocks, insts and values there are
    list,    \* first and last of each block; prev, next and block of each instruction
    live,    \* blocks not removed
    params,  \* params[b]: the parameters of b
    ended,   \* blocks that have their terminator
    edges,   \* edges[b]: the edges of its terminator, each a target and arguments
    result,  \* result[i]: the value instruction i defines
    def,     \* def[v]: what defines v
    pos      \* the insertion point

flow == <<params, ended, edges>>
vars == <<arena, list, live, params, ended, edges, result, def, pos>>

Detached == [kind |-> "detached", of |-> NONE, index |-> 0]
ParamOf(b, k) == [kind |-> "param", of |-> b, index |-> k]
ResultOf(i) == [kind |-> "result", of |-> i, index |-> 1]

End(b) == [where |-> "end", of |-> b]
Before(i) == [where |-> "before", of |-> i]
After(i) == [where |-> "after", of |-> i]

\* push_block, push_inst and push_value: so many more of each, if they fit.
Grow(blocks, insts, values) ==
    /\ arena' = [blocks |-> arena.blocks + blocks, insts |-> arena.insts + insts,
                 values |-> arena.values + values]
    /\ \E s \in Sizes : \A a \in DOMAIN arena : arena'[a] <= s[a]

------------------------------------------------------------------------------
(***************************************************************************)
(* Instruction lists.                                                      *)
(***************************************************************************)
\* f with v at k, or f if k is NONE.
Put(f, k, v) == IF k = NONE THEN f ELSE [f EXCEPT ![k] = v]

\* Function::insts: the instructions met from the first of b on.
Walk(b) ==
    LET met[n \in 1..(MaxInsts + 1)] ==
          IF n = 1 THEN list.first[b]
          ELSE IF met[n - 1] = NONE THEN NONE ELSE list.next[met[n - 1]]
    IN  [n \in 1..Cardinality({n \in 1..MaxInsts : met[n] # NONE}) |-> met[n]]

\* link_between: i goes into block b after p and before n.
LinkBetween(l, i, b, p, n) ==
    [first |-> IF p = NONE THEN Put(l.first, b, i) ELSE l.first,
     last  |-> IF n = NONE THEN Put(l.last, b, i) ELSE l.last,
     prev  |-> Put(Put(l.prev, i, p), n, i),
     next  |-> Put(Put(l.next, i, n), p, i),
     block |-> Put(l.block, i, b)]

\* link_at_end, link_before, link_after.
LinkAt(l, i, to) ==
    CASE to.where = "end" -> LinkBetween(l, i, to.of, l.last[to.of], NONE)
      [] to.where = "before" -> LinkBetween(l, i, l.block[to.of], l.prev[to.of], to.of)
      [] to.where = "after" -> LinkBetween(l, i, l.block[to.of], to.of, l.next[to.of])

UnlinkForward(l, i) ==
    LET b == l.block[i]  p == l.prev[i]  n == l.next[i] IN
    [first |-> IF p = NONE THEN Put(l.first, b, n) ELSE l.first,
     last  |-> IF n = NONE THEN Put(l.last, b, p) ELSE l.last,
     prev  |-> Put(l.prev, i, NONE),
     next  |-> Put(Put(l.next, p, n), i, NONE),
     block |-> Put(l.block, i, NONE)]
Unlink(l, i) ==
    LET b == l.block[i]  p == l.prev[i]  n == l.next[i] IN
    [first |-> IF p = NONE THEN Put(l.first, b, n) ELSE l.first,
     last  |-> IF n = NONE THEN Put(l.last, b, p) ELSE l.last,
     prev  |-> Put(Put(l.prev, n, p), i, NONE),
     next  |-> Put(Put(l.next, p, n), i, NONE),
     block |-> Put(l.block, i, NONE)]

\* What step makes of l for one member of w after the other.
InTurn(step(_, _), l, w) ==
    LET done[n \in 0..Len(w)] == IF n = 0 THEN l ELSE step(done[n - 1], w[n])
    IN  done[Len(w)]

Linked == {i \in Inst : list.block[i] # NONE}

\* Builder::current_block, NONE for a stale position.
CurrentBlock ==
    IF pos.where # "end" THEN list.block[pos.of]
    ELSE IF pos.of \in live THEN pos.of ELSE NONE

------------------------------------------------------------------------------
(***************************************************************************)
(* Positions and instructions.                                             *)
(***************************************************************************)
\* Positions set_position and move_inst accept.
Positions == {End(b) : b \in live} \cup UNION {{Before(i), After(i)} : i \in Linked}

SetPosition ==
    /\ pos' \in Positions
    /\ UNCHANGED <<arena, list, live, flow, result, def>>

\* An After position moves behind the new instruction, so that the next one
\* follows it.
StaysPut(i) == pos
Advanced(i) == IF pos.where = "after" THEN After(i) ELSE pos

Insert ==
    LET i == arena.insts + 1
        v == arena.values + 1
    IN
    /\ CurrentBlock # NONE
    /\ Grow(0, 1, 1)
    /\ result' = [result EXCEPT ![i] = v]
    /\ def' = [def EXCEPT ![v] = ResultOf(i)]
    /\ list' = LinkAt(list, i, pos)
    /\ pos' = Advanced(i)
    /\ UNCHANGED <<live, flow>>

\* remove_inst: a position at the instruction moves to a neighbour of it.
RemoveInst(i) ==
    LET p == list.prev[i]
        n == list.next[i]
        beside == IF n # NONE THEN Before(n) ELSE End(list.block[i])
    IN
    /\ i \in Linked
    /\ list' = Unlink(list, i)
    /\ def' = [def EXCEPT ![result[i]] = Detached]
    /\ pos' = CASE pos = Before(i) -> beside
                [] pos = After(i) -> IF p # NONE THEN After(p) ELSE beside
                [] OTHER -> pos
    /\ UNCHANGED <<arena, live, flow, result>>

\* move_inst: a position that names the instruction goes with it.
MoveInst(i, to) ==
    /\ i \in Linked
    /\ to \in Positions \ {Before(i), After(i)}
    /\ list' = LinkAt(Unlink(list, i), i, to)
    /\ UNCHANGED <<arena, live, flow, result, def, pos>>

------------------------------------------------------------------------------
(***************************************************************************)
(* Blocks and their parameters.                                            *)
(***************************************************************************)
\* create_block, with k parameters.
CreateBlock(k) ==
    LET b == arena.blocks + 1
        n == arena.values
    IN
    /\ Grow(1, 0, k)
    /\ live' = live \cup {b}
    /\ params' = [params EXCEPT ![b] = [j \in 1..k |-> n + j]]
    /\ def' = [v \in Value |-> IF v \in (n + 1)..(n + k) THEN ParamOf(b, v - n) ELSE def[v]]
    /\ UNCHANGED <<list, ended, edges, result, pos>>

AddBlockParam(b) ==
    LET v == arena.values + 1 IN
    /\ b \in live
    /\ Grow(0, 0, 1)
    /\ params' = [params EXCEPT ![b] = Append(@, v)]
    /\ def' = [def EXCEPT ![v] = ParamOf(b, Len(params[b]) + 1)]
    /\ UNCHANGED <<list, live, ended, edges, result, pos>>

\* The edges with the arguments to each block b changed to Args(b, arguments).
EdgesWith(Args(_, _)) ==
    [c \in Block |-> [e \in DOMAIN edges[c] |->
        [edges[c][e] EXCEPT !.args = Args(edges[c][e].to, @)]]]

\* remove_block_param: the parameters behind the k-th move up, and an edge that
\* has a k-th argument loses it.
NotLowered(b, k) == [def EXCEPT ![params[b][k]] = Detached]
Lowered(b, k) ==
    [v \in Value |-> IF v = params[b][k] THEN Detached
                     ELSE IF def[v].kind = "param" /\ def[v].of = b /\ def[v].index > k
                     THEN ParamOf(b, def[v].index - 1) ELSE def[v]]
WithoutLast(args, k) == IF k <= Len(args) THEN Front(args) ELSE args
WithoutArg(args, k) == IF k <= Len(args) THEN RemoveAt(args, k) ELSE args

RemoveBlockParam(b, k) ==
    /\ b \in live
    /\ k \in DOMAIN params[b]
    /\ params' = [params EXCEPT ![b] = RemoveAt(@, k)]
    /\ def' = Lowered(b, k)
    /\ edges' = EdgesWith(LAMBDA to, args : IF to = b THEN WithoutArg(args, k) ELSE args)
    /\ UNCHANGED <<arena, list, live, ended, result, pos>>

\* remove_block_params, in one pass.  An edge that does not pass one argument
\* for each old parameter keeps the ones it has.
Without(s, R) == Pick(s, DOMAIN s \ R)

RemoveBlockParams(vs) ==
    LET gone(b) == {k \in DOMAIN params[b] : params[b][k] \in vs}
        full(b, args) == Len(args) = Len(params[b])
    IN
    /\ vs \subseteq {v \in Value : def[v].kind = "param"}
    /\ Careful => \A c \in live : \A e \in DOMAIN edges[c] :
           LET b == edges[c][e].to IN gone(b) # {} => full(b, edges[c][e].args)
    /\ params' = [b \in Block |-> Without(params[b], gone(b))]
    /\ def' = [v \in Value |->
           IF v \in vs THEN Detached
           ELSE IF def[v].kind # "param" THEN def[v]
           ELSE ParamOf(def[v].of,
                        def[v].index - Cardinality(gone(def[v].of) \cap 1..def[v].index))]
    /\ edges' = EdgesWith(LAMBDA b, args : IF full(b, args) THEN Without(args, gone(b)) ELSE args)
    /\ UNCHANGED <<arena, list, live, ended, result, pos>>

\* remove_block.  Edges into it stay, for the validator to report.
PosKept(b) == pos
PosAfterRemove(b) == IF CurrentBlock \in {b, NONE} THEN End(Entry) ELSE pos
EndedWithout(b) == ended \ {b}

RemoveBlock(b) ==
    LET inside == ToSet(Walk(b)) IN
    /\ b \in live \ {Entry}
    /\ list' = InTurn(Unlink, list, Walk(b))
    /\ live' = live \ {b}
    /\ ended' = EndedWithout(b)
    /\ edges' = [edges EXCEPT ![b] = <<>>]
    /\ params' = [params EXCEPT ![b] = <<>>]
    /\ def' = [v \in Value |->
           IF v \in {result[i] : i \in inside} \cup ToSet(params[b]) THEN Detached ELSE def[v]]
    /\ pos' = PosAfterRemove(b)
    /\ UNCHANGED <<arena, result>>

\* split_block: i and what follows it move to a new block, which b then jumps to.
From(i) == LET w == Walk(list.block[i]) IN SubSeq(w, CHOOSE n \in DOMAIN w : w[n] = i, Len(w))

SplitBlock(i) ==
    LET b == list.block[i]
        new == arena.blocks + 1
    IN
    /\ i \in Linked
    /\ Grow(1, 0, 0)
    /\ live' = live \cup {new}
    /\ list' = InTurn(LAMBDA l, j : LinkAt(Unlink(l, j), j, End(new)), list, From(i))
    /\ ended' = ended \cup {b} \cup (IF b \in ended THEN {new} ELSE {})
    /\ edges' = [edges EXCEPT ![new] = edges[b], ![b] = <<[to |-> new, args |-> <<>>]>>]
    /\ UNCHANGED <<params, result, def, pos>>

\* set_terminator: the type check wants live targets, not the entry block, and
\* an argument for every parameter.
SetTerminator(dests) ==
    LET b == CurrentBlock IN
    /\ b \in live \ ended
    /\ ToSet(dests) \subseteq live \ {Entry}
    /\ ended' = ended \cup {b}
    /\ edges' = [edges EXCEPT ![b] =
           [k \in DOMAIN dests |-> [to |-> dests[k], args |-> params[dests[k]]]]]
    /\ UNCHANGED <<arena, list, live, params, result, def, pos>>

RemoveTerminator(b) ==
    /\ b \in ended
    /\ ended' = EndedWithout(b)
    /\ edges' = [edges EXCEPT ![b] = <<>>]
    /\ UNCHANGED <<arena, list, live, params, result, def, pos>>

------------------------------------------------------------------------------
(***************************************************************************)
(* compact: everything is renumbered in layout order.  A value that is     *)
(* used and not defined any more, and a target that is not live, get       *)
(* numbers of their own above the others, so that they stay invalid.       *)
(***************************************************************************)
BlockOrder == <<Entry>> \o Sorted(live \ {Entry})

\* What f gives for each block, one after the other.
InOrder(f(_)) == FlattenSeq([n \in DOMAIN BlockOrder |-> f(BlockOrder[n])])

InstOrder == InOrder(Walk)
ValueOrder ==
    InOrder(LAMBDA b : params[b] \o [k \in DOMAIN Walk(b) |-> result[Walk(b)[k]]])
EdgeOrder == InOrder(LAMBDA b : edges[b])

\* The members of s outside K, each where it comes first.
FirstUses(s, K) ==
    Without(s, {i \in DOMAIN s : s[i] \in K \/ \E j \in 1..(i - 1) : s[j] = s[i]})

DeadTargets == FirstUses([e \in DOMAIN EdgeOrder |-> EdgeOrder[e].to], live)
Dangling == FirstUses(FlattenSeq([e \in DOMAIN EdgeOrder |-> EdgeOrder[e].args]),
                      ToSet(ValueOrder))

Compact ==
    LET bs == BlockOrder \o DeadTargets
        is == InstOrder
        vs == ValueOrder \o Dangling
        No(s, x) == IF x = NONE THEN NONE ELSE CHOOSE n \in DOMAIN s : s[n] = x
        \* What an arena A holds that has the members of s, each with f of it.
        Arena(A, s, f(_), none) == [n \in A |-> IF n \in DOMAIN s THEN f(s[n]) ELSE none]
    IN
    /\ arena' = [blocks |-> Len(bs), insts |-> Len(is), values |-> Len(vs)]
    /\ live' = DOMAIN BlockOrder
    /\ list' = [first |-> Arena(Block, bs, LAMBDA b : No(is, list.first[b]), NONE),
                last  |-> Arena(Block, bs, LAMBDA b : No(is, list.last[b]), NONE),
                prev  |-> Arena(Inst, is, LAMBDA i : No(is, list.prev[i]), NONE),
                next  |-> Arena(Inst, is, LAMBDA i : No(is, list.next[i]), NONE),
                block |-> Arena(Inst, is, LAMBDA i : No(bs, list.block[i]), NONE)]
    /\ params' = Arena(Block, bs,
           LAMBDA b : [k \in DOMAIN params[b] |-> No(vs, params[b][k])], <<>>)
    /\ ended' = {n \in live' : bs[n] \in ended}
    /\ edges' = Arena(Block, bs, LAMBDA b :
           [e \in DOMAIN edges[b] |->
               [to |-> No(bs, edges[b][e].to),
                args |-> [k \in DOMAIN edges[b][e].args |-> No(vs, edges[b][e].args[k])]]], <<>>)
    /\ result' = Arena(Inst, is, LAMBDA i : No(vs, result[i]), NONE)
    /\ def' = Arena(Value, vs, LAMBDA v :
           CASE def[v].kind = "param" -> ParamOf(No(bs, def[v].of), def[v].index)
             [] def[v].kind = "result" -> ResultOf(No(is, def[v].of))
             [] def[v].kind = "detached" -> Detached, Detached)
    /\ pos' = End(Entry)

------------------------------------------------------------------------------
Init ==
    LET noInst == [i \in Inst |-> NONE]
        noEnds == [b \in Block |-> NONE]
    IN
    /\ arena = [blocks |-> 1, insts |-> 0, values |-> 0]
    /\ list = [first |-> noEnds, last |-> noEnds,
               prev |-> noInst, next |-> noInst, block |-> noInst]
    /\ live = {Entry}
    /\ params = [b \in Block |-> <<>>]
    /\ ended = {}
    /\ edges = [b \in Block |-> <<>>]
    /\ result = noInst
    /\ def = [v \in Value |-> Detached]
    /\ pos = End(Entry)

Next ==
    \/ SetPosition
    \/ Insert
    \/ \E i \in Linked :
          \/ RemoveInst(i) \/ SplitBlock(i)
          \/ \E to \in Positions : MoveInst(i, to)
    \/ \E k \in 0..MaxValues : CreateBlock(k)
    \/ \E b \in live :
          \/ AddBlockParam(b) \/ RemoveBlock(b) \/ RemoveTerminator(b)
          \/ \E k \in DOMAIN params[b] : RemoveBlockParam(b, k)
    \/ \E vs \in SUBSET Value : RemoveBlockParams(vs)
    \/ \E n \in 0..MaxEdges : \E dests \in [1..n -> live] : SetTerminator(dests)
    \/ Compact

Spec == Init /\ [][Next]_vars
=============================================================================
