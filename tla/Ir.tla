--------------------------------- MODULE Ir ---------------------------------
(***************************************************************************)
(* A function body as the validator and statepoint insertion read it       *)
(* (src/src/function.rs, src/src/inst.rs): a record                        *)
(*                                                                         *)
(*   blk[b]   the block's params, its instructions in order, its term      *)
(*   inst[i]  [op, args, gc, attrs, rets, res]                             *)
(*   val[v]   [ty, alias, def]                                             *)
(*   live     the blocks not removed                                       *)
(*   params, returns, attrs   the declaration the body belongs to          *)
(*                                                                         *)
(* and the entry is block 1.  A terminator is [op, args, gc, attrs, rets,  *)
(* edges].  Types are "ref", or "raw" for every other type.  Operations    *)
(* are kept apart as far as the safepoint rules tell them apart:           *)
(*                                                                         *)
(*   make   makes a value of its own (const, load, an allocating address)  *)
(*   toptr  ref_to_ptr                                                     *)
(*   derive arithmetic, conversions, select, address arithmetic            *)
(*   use    reads its operands only (compare, a load through an address)   *)
(*   store  leaves its first operand in memory                             *)
(*   call, safepoint                                                       *)
(*                                                                         *)
(* attrs of a call is the union of the callee's attributes and the call    *)
(* site's (typing::call_attrs), rets the number of its returns, which come *)
(* before its relocated references.                                        *)
(***************************************************************************)
EXTENDS Naturals, SequencesExt, Counting

NONE == 0
Entry == 1

\* F of x, where TLC evaluates x once.
With(x, F(_)) == CHOOSE y \in {F(v) : v \in {x}} : TRUE

Blocks(f) == DOMAIN f.blk
Values(f) == DOMAIN f.val
Insts(f, b) == f.blk[b].insts
Term(f, b) == f.blk[b].term
HasTerm(f, b) == Term(f, b).op # "none"

\* Function::resolve: the end of v's forwarding chain.
Resolve(f, v) ==
    LET end[u \in Values(f)] == IF f.val[u].alias = NONE THEN u ELSE end[f.val[u].alias]
    IN  end[v]
TypeOf(f, v) == f.val[Resolve(f, v)].ty

------------------------------------------------------------------------------
(* Operands. *)

\* BlockArg: a value, or what only the edge has.
Val(v) == [kind |-> "value", n |-> v]
Res(i) == [kind |-> "res", n |-> i]
Exn == [kind |-> "exn", n |-> 0]
Err == [kind |-> "err", n |-> 0]

\* InstData::for_each_operand and Terminator::for_each_own_operand: the GC list of
\* a call comes after its arguments.
Operands(data) == data.args \o data.gc

MapSeq(s, m) == [k \in DOMAIN s |-> m[s[k]]]
MapOperands(data, m) == [data EXCEPT !.args = MapSeq(@, m), !.gc = MapSeq(@, m)]
MapArg(arg, m) == IF arg.kind = "value" THEN Val(m[arg.n]) ELSE arg
MapEdges(edges, m) ==
    [k \in DOMAIN edges |-> [edges[k] EXCEPT !.args = [i \in DOMAIN @ |-> MapArg(@[i], m)]]]
MapTerm(t, m) == [MapOperands(t, m) EXCEPT !.edges = MapEdges(@, m)]

\* Builder::resolve_aliases: every operand becomes what it forwards to.
ResolveAliases(f) ==
    LET m == [v \in Values(f) |-> Resolve(f, v)]
    IN  [f EXCEPT !.inst = [i \in DOMAIN @ |-> MapOperands(@[i], m)],
                  !.blk = [b \in DOMAIN @ |-> [@[b] EXCEPT !.term = MapTerm(@, m)]]]

------------------------------------------------------------------------------
(* Control flow. *)

\* Cfg::of: removed blocks have no edges.
Succs(f, b) ==
    IF b \notin f.live THEN <<>>
    ELSE [k \in DOMAIN Term(f, b).edges |-> Term(f, b).edges[k].block]
SuccsOf(f) == [b \in Blocks(f) |-> Succs(f, b)]

\* Cfg::reversed, as a set: the order and the repetitions are told apart nowhere
\* but in the order of a worklist.
PredSet(f, b) == {p \in f.live : b \in Range(Succs(f, p))}

\* ssa::distinct_preds: each predecessor once, in arena order.
DistinctPreds(f, b) == Sorted(PredSet(f, b))

\* A body as the arenas hold it: removed blocks are blocks, and a block lists
\* instructions, parameters and edges.
BlockArgs == [kind : {"value", "res", "exn", "err"}, n : Nat]
IsBody(f) ==
    /\ f.live \subseteq Blocks(f)
    /\ \A b \in f.live : /\ Insts(f, b) \in Seq(DOMAIN f.inst)
                         /\ f.blk[b].params \in Seq(Nat)
                         /\ \A e \in Range(Term(f, b).edges) : e.args \in Seq(BlockArgs)

Nogc(data) == "nogc" \in data.attrs
\* gc::is_safepoint_inst and is_safepoint_term.
IsSafepointInst(data) == data.op = "safepoint" \/ (data.op = "call" /\ ~Nogc(data))
IsSafepointTerm(t) == t.op = "invoke" /\ ~Nogc(t)

------------------------------------------------------------------------------
(***************************************************************************)
(* Positions inside a block: its parameters are defined at 0, the k-th     *)
(* instruction is at k, a terminator reads its own operands at Len + 1,    *)
(* where an invoke is also a safepoint, and its edges' arguments after it. *)
(***************************************************************************)
OwnPos(f, b) == Len(Insts(f, b)) + 1
EdgePos(f, b) == Len(Insts(f, b)) + 2

\* Where the (resolved) value v is defined, <<NONE, 0>> when it is detached.
IndexIn(s, x) == CHOOSE k \in DOMAIN s : s[k] = x
InstSite(f, i) ==
    LET home == {b \in f.live : i \in Range(Insts(f, b))}
    IN  IF home = {} THEN <<NONE, 0>>
        ELSE LET b == CHOOSE b \in home : TRUE IN <<b, IndexIn(Insts(f, b), i)>>
DefSite(f, v) ==
    LET d == f.val[v].def
    IN  IF d.kind = "result" THEN InstSite(f, d.at)
        ELSE IF d.at \in f.live /\ v \in Range(f.blk[d.at].params) THEN <<d.at, 0>>
        ELSE <<NONE, 0>>

\* The (resolved) values read at position k of b.
EdgeValues(f, b) ==
    UNION {{Resolve(f, a.n) : a \in {x \in Range(e.args) : x.kind = "value"}} :
             e \in Range(Term(f, b).edges)}
ReadsAt(f, b, k) ==
    IF k = 0 THEN {}
    ELSE IF k = EdgePos(f, b) THEN EdgeValues(f, b)
    ELSE LET data == IF k = OwnPos(f, b) THEN Term(f, b) ELSE f.inst[Insts(f, b)[k]]
         IN  {Resolve(f, v) : v \in Range(Operands(data))}

\* The safepoints of b, by position.
SafepointsOf(f, b) ==
    {k \in DOMAIN Insts(f, b) : IsSafepointInst(f.inst[Insts(f, b)[k]])}
        \cup (IF IsSafepointTerm(Term(f, b)) THEN {OwnPos(f, b)} ELSE {})
=============================================================================
