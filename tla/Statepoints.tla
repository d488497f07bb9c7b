----------------------------- MODULE Statepoints -----------------------------
(***************************************************************************)
(* Statepoint insertion (src/src/statepoint.rs): insert_statepoints fills  *)
(* the GC lists of the safepoints of a function from the liveness of its   *)
(* references, and repairs SSA so that every use after a safepoint reads   *)
(* the relocated reference.                                                *)
(*                                                                         *)
(* A call is a sequence of internal steps: liveness, one step for each     *)
(* safepoint something lives across, one for each instruction or           *)
(* terminator rewritten and each value looked up on the way (Reach), one   *)
(* for each argument an edge lacks, elimination of trivial parameters, and *)
(* the validator's verdict; a failure puts the function back.              *)
(*                                                                         *)
(* The variables of the repair are the references that live across some    *)
(* safepoint, named by their value; rep maps each to its current defining  *)
(* value.  Variable construction, which the call completes first, is       *)
(* SsaConstruct's; elimination is the fixpoint SsaConstruct shows its      *)
(* worklist to reach.                                                      *)
(***************************************************************************)
EXTENDS Validate

CONSTANTS
    Programs,    \* the functions given
    Budgets,     \* the budgets given
    Capacity     \* MAX_ENTITIES: no function has more values

ASSUME LimitAssumption == Budgets \subseteq Nat /\ Capacity \in Nat
\* The arenas: blocks list what the function has. Function::new: block 1 is there;
\* Cfg::of: a listed edge leads to one of the blocks.
ASSUME ProgramsAssumption == \A g \in Programs : IsBody(g) /\ IsGraph(SuccsOf(g))

VARIABLES
    backup,   \* the function, position and budget given: [f, pos, budget]
    f,        \* the function
    pos,      \* the builder's position: before or after an instruction, or at an end
    pc,
    budget,   \* what of it is left
    sps,      \* the safepoints, in reverse postorder: <<block, position>>
    pairs,    \* <<s, v>>: v lives across the s-th safepoint
    varOf,    \* the variable a value belongs to, or NONE
    rep,      \* the value that stands for the variable where it is defined
    reloc,    \* <<i, x>> -> x as relocated by instruction i
    invReloc, \* <<x, b>> -> which result of b's invoke is x relocated
    rc,       \* struct Repair, and where rewrite and complete are
    stats,    \* StatepointStats
    result    \* what the call returned, "none" while it has not

lists == <<sps, pairs, varOf, rep, reloc, invReloc>>
vars == <<backup, f, pos, pc, budget, lists, rc, stats, result>>

NoStats == [safepoints |-> 0, relocations |-> 0, params |-> 0]
NoRepair == [todo |-> <<>>, k |-> 0, cur |-> <<>>, endDef |-> <<>>, entryDef |-> <<>>,
             created |-> <<>>, paramVar |-> <<>>, stack |-> <<>>, at |-> NONE, i |-> 0,
             preds |-> <<>>, first |-> <<>>]

\* The positions a builder may be at that insertion can make stale.
Positions(g) ==
    {[at |-> "end", inst |-> NONE]} \cup
    [at : {"before", "after"},
     inst : UNION {{Insts(g, b)[k] : k \in SafepointsOf(g, b) \ {OwnPos(g, b)}} : b \in Blocks(g)}]

Init ==
    /\ \E g \in Programs : \E p \in Positions(g) : \E n \in Budgets :
          backup = [f |-> g, pos |-> p, budget |-> n]
    /\ f = backup.f
    /\ pos = backup.pos
    /\ pc = "idle"
    /\ budget = backup.budget
    /\ sps = <<>> /\ pairs = {} /\ varOf = <<>> /\ rep = <<>> /\ reloc = <<>> /\ invReloc = <<>>
    /\ rc = NoRepair
    /\ stats = NoStats
    /\ result = "none"

------------------------------------------------------------------------------
(* The end of a call: insert_statepoints_within puts back what a failed run *)
(* changed.                                                                *)
Finish(verdict) ==
    /\ result' = verdict
    /\ pc' = "done"
    /\ UNCHANGED <<backup, budget, lists, rc>>
Succeed(g) == f' = g /\ UNCHANGED pos /\ Finish("ok")
FailInPlace(error) == UNCHANGED <<f, pos, stats>> /\ Finish(error)
Fail(error) == f' = backup.f /\ pos' = backup.pos /\ UNCHANGED stats /\ Finish(error)

------------------------------------------------------------------------------
(***************************************************************************)
(* Liveness: every safepoint and reference that lives across it.           *)
(***************************************************************************)
Insert ==
    /\ pc = "idle"
    /\ IF ValidateStructure(f) # "ok" THEN Fail("invalid")
       ELSE /\ f' = ResolveAliases(f)
            /\ pc' = "live"
            /\ UNCHANGED <<backup, pos, budget, lists, rc, stats, result>>

Rpo(g) == ReversePostorder(SuccsOf(g))

\* The safepoints block by block, as the order lists the blocks.
SafepointSeq(g) ==
    LET rpo == Rpo(g)
        At(b) == LET ks == Sorted(SafepointsOf(g, b)) IN [j \in DOMAIN ks |-> <<b, ks[j]>>]
        upto[n \in 0..Len(rpo)] == IF n = 0 THEN <<>> ELSE upto[n - 1] \o At(rpo[n])
    IN  upto[Len(rpo)]

\* The references read somewhere in the reached blocks, and the last position of
\* b that reads v.
ReadRefs(g) ==
    LET reached == Range(Rpo(g))
    IN  {v \in UNION {UNION {ReadsAt(g, b, k) : k \in 1..EdgePos(g, b)} : b \in reached} :
           g.val[v].ty = "ref"}
LastRead(g, b, v) ==
    LET ks == {k \in 1..EdgePos(g, b) : v \in ReadsAt(g, b, k)}
    IN  IF ks = {} THEN 0 ELSE CHOOSE k \in ks : \A j \in ks : j <= k

\* The safepoints between definition and last use, where the range leaves the
\* block and where it does not.
LivePairs(g, s) ==
    With(Range(Rpo(g)), LAMBDA reached : UNION {
      With(LiveOut(g, reached, v), LAMBDA outs :
        {<<j, v>> : j \in {i \in DOMAIN s : LET b == s[i][1]
                                                hi == IF b \in outs THEN EdgePos(g, b) ELSE LastRead(g, b, v)
                                            IN  From(g, b, v) < s[i][2] /\ s[i][2] < hi}})
      : v \in ReadRefs(g)})

Affordable(ps) == Cardinality(ps) <= budget

Liveness ==
    /\ pc = "live"
    /\ \E s \in {SafepointSeq(f)} : \E ps \in {LivePairs(f, s)} :
       IF ~Affordable(ps) THEN Fail("budget")
       ELSE IF ps = {}
       THEN IF ValidateBody(f) = "ok" THEN Succeed(f) /\ UNCHANGED stats ELSE Fail("invalid")
       ELSE /\ sps' = s
            /\ pairs' = ps
            /\ varOf' = [v \in Values(f) |-> IF \E p \in ps : p[2] = v THEN v ELSE NONE]
            /\ rep' = [x \in {p[2] : p \in ps} |-> x]
            /\ budget' = budget - Cardinality(ps)
            /\ rc' = [rc EXCEPT !.i = 1]
            /\ pc' = "lists"
            /\ UNCHANGED <<backup, f, pos, reloc, invReloc, stats, result>>

------------------------------------------------------------------------------
(***************************************************************************)
(* Lists: a call or safepoint whose list grows is replaced by one with the *)
(* longer list, to which its results forward; an invoke's grows in place.  *)
(***************************************************************************)
Holds(g, gc, v) == \E e \in Range(gc) : Resolve(g, e) = Resolve(g, v)
LastPlace(g, gc, v) == Len(gc)
PlaceOf(g, gc, v) ==
    CHOOSE e \in DOMAIN gc : /\ Resolve(g, gc[e]) = Resolve(g, v)
                             /\ \A d \in 1..e - 1 : Resolve(g, gc[d]) # Resolve(g, v)
Merged(g, gc, lv) ==
    LET to[i \in 0..Len(lv)] ==
          IF i = 0 THEN gc
          ELSE IF Holds(g, to[i - 1], lv[i]) THEN to[i - 1] ELSE Append(to[i - 1], lv[i])
    IN  to[Len(lv)]

LiveAcross(s) == Sorted({v \in Values(f) : <<s, v>> \in pairs})
RelocOf(m, new) == [e \in DOMAIN m \cup DOMAIN new |-> IF e \in DOMAIN new THEN new[e] ELSE m[e]]

\* insert_before, replace_all_uses and remove_inst: data takes the place of the
\* k-th instruction of b, and has one result for each return and each reference.
Replaced(g, b, k, data) ==
    LET i == Len(g.inst) + 1
        n == data.rets + Len(data.gc)
        old == g.inst[Insts(g, b)[k]].res
        made == [j \in 1..n |-> Len(g.val) + j]
        NewValue(j) == [ty |-> IF j > data.rets THEN "ref" ELSE g.val[old[j]].ty,
                        alias |-> NONE, def |-> [kind |-> "result", at |-> i, index |-> j]]
        Forwarded(v) == IF v \notin Range(old) THEN g.val[v]
                        ELSE [g.val[v] EXCEPT !.alias = made[IndexIn(old, v)], !.def.kind = "detached"]
    IN  [g EXCEPT !.inst = Append(@, [data EXCEPT !.res = made]),
                  !.val = [v \in 1..Len(g.val) |-> Forwarded(v)] \o [j \in 1..n |-> NewValue(j)],
                  !.blk[b].insts[k] = i]

\* What remove_inst makes of a position at the k-th instruction of b, once its
\* successor stands before it: after it is after the successor, before it is
\* before the next instruction.
Retargeted(g, b, k, old, new) ==
    IF pos.inst # old THEN pos
    ELSE IF pos.at = "after" THEN [pos EXCEPT !.inst = new]
    ELSE IF k < Len(Insts(g, b)) THEN [pos EXCEPT !.inst = Insts(g, b)[k + 1]]
    ELSE [at |-> "end", inst |-> NONE]

Counted(grown) == [stats EXCEPT !.safepoints = @ + (IF grown > 0 THEN 1 ELSE 0),
                                !.relocations = @ + grown]

GrowInst ==
    LET s == rc.i
        b == sps[s][1]
        k == sps[s][2]
        lv == LiveAcross(s)
        i == Insts(f, b)[k]
        data == f.inst[i]
        gc == Merged(f, data.gc, lv)
        grown == Len(gc) - Len(data.gc)
        g == Replaced(f, b, k, [data EXCEPT !.gc = gc])
        target == IF grown = 0 THEN i ELSE Len(g.inst)
        at == IF grown = 0 THEN f ELSE g
        Result(v) == at.inst[target].res[data.rets + PlaceOf(f, gc, v)]
    IN
    /\ pc = "lists"
    /\ s \in DOMAIN sps
    /\ k # OwnPos(f, b)
    /\ IF lv # <<>> /\ grown > 0 /\ Len(g.val) > Capacity
       THEN Fail("capacity")
       ELSE /\ f' = at
            /\ IF grown = 0 THEN UNCHANGED <<pos, varOf, rep>>
               ELSE /\ pos' = Retargeted(f, b, k, i, target)
                    /\ varOf' = [v \in Values(g) |->
                         IF v \in DOMAIN varOf THEN varOf[v]
                         ELSE LET j == v - Len(f.val)
                              IN  IF j \in DOMAIN data.res THEN varOf[data.res[j]] ELSE NONE]
                    /\ rep' = [x \in DOMAIN rep |->
                         IF rep[x] \in Range(data.res)
                         THEN Len(f.val) + IndexIn(data.res, rep[x]) ELSE rep[x]]
            /\ reloc' = RelocOf(reloc, [e \in {<<target, varOf[v]>> : v \in Range(lv)} |->
                                          Result(CHOOSE v \in Range(lv) : varOf[v] = e[2])])
            /\ stats' = Counted(grown)
            /\ rc' = [rc EXCEPT !.i = @ + 1]
            /\ UNCHANGED <<backup, pc, budget, sps, pairs, invReloc, result>>

GrowInvoke ==
    LET s == rc.i
        b == sps[s][1]
        lv == LiveAcross(s)
        t == Term(f, b)
        gc == Merged(f, t.gc, lv)
    IN
    /\ pc = "lists"
    /\ s \in DOMAIN sps
    /\ sps[s][2] = OwnPos(f, b)
    /\ f' = [f EXCEPT !.blk[b].term.gc = gc]
    /\ invReloc' = RelocOf(invReloc, [e \in {<<varOf[v], b>> : v \in Range(lv)} |->
          t.rets + PlaceOf(f, gc, CHOOSE v \in Range(lv) : varOf[v] = e[1]) - 1])
    /\ stats' = Counted(Len(gc) - Len(t.gc))
    /\ rc' = [rc EXCEPT !.i = @ + 1]
    /\ UNCHANGED <<backup, pos, pc, budget, sps, pairs, varOf, rep, reloc, result>>

------------------------------------------------------------------------------
(***************************************************************************)
(* Repair::new and prescan: what each variable is at the end of each block *)
(* that defines or relocates it.                                           *)
(***************************************************************************)
VarOf(v) == IF v \in DOMAIN varOf THEN varOf[v] ELSE NONE

\* relocs: <<x, v>> for what instruction i of g relocates.
Relocs(g, i) ==
    {<<VarOf(e), reloc[<<i, VarOf(e)>>]>> :
       e \in {u \in Range(g.inst[i].gc) : <<i, VarOf(u)>> \in DOMAIN reloc}}

\* What instruction i makes of x, NONE if nothing: a relocation comes after the
\* results.
DefinedBy(g, i, x) ==
    LET rel == {r \in Relocs(g, i) : r[1] = x}
        res == {v \in Range(g.inst[i].res) : VarOf(v) = x}
    IN  IF rel # {} THEN (CHOOSE r \in rel : TRUE)[2]
        ELSE IF res # {} THEN CHOOSE v \in res : TRUE
        ELSE NONE

\* What parameter of b is x, of the first n.
ParamOf(g, b, n, x) ==
    LET own == {v \in Range(SubSeq(g.blk[b].params, 1, n)) : VarOf(v) = x}
    IN  IF own = {} THEN NONE ELSE CHOOSE v \in own : TRUE

\* x at the end of b, NONE if nothing in b defines it.
EndOf(g, b, x) ==
    LET ks == {k \in DOMAIN Insts(g, b) : DefinedBy(g, Insts(g, b)[k], x) # NONE}
    IN  IF ks = {} THEN ParamOf(g, b, Len(g.blk[b].params), x)
        ELSE DefinedBy(g, Insts(g, b)[CHOOSE k \in ks : \A j \in ks : j <= k], x)

Prescan ==
    LET g == ResolveAliases(f)
        rpo == Rpo(g)
    IN
    /\ pc = "lists"
    /\ rc.i > Len(sps)
    /\ f' = g
    /\ rc' = [NoRepair EXCEPT
         !.todo = rpo, !.k = 1,
         !.endDef = [e \in (DOMAIN rep) \X Blocks(g) |->
              IF e[2] \in Range(rpo) THEN EndOf(g, e[2], e[1]) ELSE NONE],
         !.entryDef = [e \in (DOMAIN rep) \X Blocks(g) |-> NONE],
         !.paramVar = [v \in {} |-> NONE],
         !.preds = [b \in Blocks(g) |-> DistinctPreds(g, b)],
         !.first = [b \in Blocks(g) |-> Len(g.blk[b].params)]]
    /\ pc' = "rewrite"
    /\ UNCHANGED <<backup, pos, budget, lists, stats, result>>

------------------------------------------------------------------------------
(***************************************************************************)
(* Repair::entry: what x is on entry to b.  Walk is its way up a chain of  *)
(* single predecessors, to a block where x is known (hit), or to one that  *)
(* needs a parameter.  Known: the answer is at hand and changes nothing.   *)
(***************************************************************************)
Home(x) == DefSite(f, rep[x])[1]
EntryOf(x, b) == IF rc.entryDef[<<x, b>>] # NONE THEN rc.entryDef[<<x, b>>] ELSE rep[x]
Known(x, b) == rc.entryDef[<<x, b>>] # NONE \/ Home(x) = b \/ rc.preds[b] = <<>>

Walk(x, b0) ==
    LET from[w \in [chain : SUBSET Blocks(f), at : Blocks(f), hit : Nat]] ==
          LET p == rc.preds[w.at][1]
              on == w.chain \cup {w.at}
          IN  IF Known(x, w.at) THEN [w EXCEPT !.hit = EntryOf(x, w.at)]
              ELSE IF Len(rc.preds[w.at]) # 1 \/ w.at \in w.chain \/ <<x, p>> \in DOMAIN invReloc
              THEN w
              ELSE IF rc.endDef[<<x, p>>] # NONE
              THEN [w EXCEPT !.chain = on, !.hit = rc.endDef[<<x, p>>]]
              ELSE from[[w EXCEPT !.chain = on, !.at = p]]
    IN  from[[chain |-> {}, at |-> b0, hit |-> NONE]]

Noted(x, bs, v) ==
    [e \in DOMAIN rc.entryDef |-> IF e[1] = x /\ e[2] \in bs THEN v ELSE rc.entryDef[e]]

\* entry and new_param, when the answer is not at hand.
Reach(x, b) ==
    LET w == Walk(x, b)
        v == Len(f.val) + 1
    IN  IF w.hit # NONE
        THEN /\ rc' = [rc EXCEPT !.entryDef = Noted(x, w.chain, w.hit)]
             /\ UNCHANGED <<backup, f, pos, pc, budget, lists, stats, result>>
        ELSE IF budget = 0 THEN Fail("budget")
        ELSE IF Len(f.val) = Capacity THEN Fail("capacity")
        ELSE /\ f' = [f EXCEPT
                  !.val = Append(@, [ty |-> "ref", alias |-> NONE,
                      def |-> [kind |-> "param", at |-> w.at, index |-> Len(f.blk[w.at].params) + 1]]),
                  !.blk[w.at].params = Append(@, v)]
             /\ budget' = budget - 1
             /\ rc' = [rc EXCEPT !.entryDef = Noted(x, w.chain \cup {w.at}, v),
                                 !.created = Append(@, v),
                                 !.paramVar = RelocOf(@, [u \in {v} |-> x]),
                                 !.stack = Append(@, w.at)]
             /\ UNCHANGED <<backup, pos, pc, lists, stats, result>>

------------------------------------------------------------------------------
(***************************************************************************)
(* rewrite: block by block in reverse postorder, every operand becomes the *)
(* definition that reaches it.                                             *)
(***************************************************************************)
\* reaching: the last definition in the block's scan, else the value on entry.
Settled(x, b) == rc.cur[x] # NONE \/ Known(x, b)
Reaching(x, b) == IF rc.cur[x] # NONE THEN rc.cur[x] ELSE EntryOf(x, b)
Current(b) == [v \in Values(f) |-> IF VarOf(v) = NONE THEN v ELSE Reaching(VarOf(v), b)]

\* The variables a point of the block reads, in the order they are looked up.
VarsOf(vs) == LET xs == [k \in DOMAIN vs |-> VarOf(vs[k])] IN SelectSeq(xs, LAMBDA x : x # NONE)
Unsettled(xs, b) == SelectSeq(xs, LAMBDA x : ~Settled(x, b))

\* An edge argument for an original parameter that names a variable.
NamesVar(e, i) ==
    i <= rc.first[e.block] /\ e.args[i].kind = "value" /\ VarOf(e.args[i].n) # NONE
Relocated(t, x, b) == t.op = "invoke" /\ <<x, b>> \in DOMAIN invReloc

EdgeVars(t, b) ==
    LET named(e) == SelectSeq([i \in DOMAIN e.args |-> i], LAMBDA i : NamesVar(e, i))
        read(e) == SelectSeq([j \in DOMAIN named(e) |-> VarOf(e.args[named(e)[j]].n)],
                             LAMBDA x : ~Relocated(t, x, b))
        upto[k \in 0..Len(t.edges)] == IF k = 0 THEN <<>> ELSE upto[k - 1] \o read(t.edges[k])
    IN  upto[Len(t.edges)]

EnterBlock ==
    /\ pc = "rewrite"
    /\ rc.i = 0
    /\ IF rc.k > Len(rc.todo)
       THEN pc' = "complete" /\ rc' = [rc EXCEPT !.at = NONE]
       ELSE /\ rc' = [rc EXCEPT !.i = 1, !.cur = [x \in DOMAIN rep |->
                 ParamOf(f, rc.todo[rc.k], rc.first[rc.todo[rc.k]], x)]]
            /\ UNCHANGED pc
    /\ UNCHANGED <<backup, f, pos, budget, lists, stats, result>>

RewriteInst ==
    LET b == rc.todo[rc.k]
        i == Insts(f, b)[rc.i]
        xs == Unsettled(VarsOf(Operands(f.inst[i])), b)
    IN
    /\ pc = "rewrite"
    /\ rc.i > 0
    /\ rc.i <= Len(Insts(f, b))
    /\ IF xs # <<>> THEN Reach(xs[1], b)
       ELSE /\ f' = [f EXCEPT !.inst[i] = MapOperands(@, Current(b))]
            /\ rc' = [rc EXCEPT !.i = @ + 1, !.cur = [x \in DOMAIN @ |->
                 IF DefinedBy(f, i, x) # NONE THEN DefinedBy(f, i, x) ELSE @[x]]]
            /\ UNCHANGED <<backup, pos, pc, budget, lists, stats, result>>

RewriteTerm ==
    LET b == rc.todo[rc.k]
        t == Term(f, b)
        xs == Unsettled(VarsOf(Operands(t)) \o EdgeVars(t, b), b)
        Arg(e, i) ==
          LET x == VarOf(e.args[i].n)
          IN  IF ~NamesVar(e, i) THEN e.args[i]
              ELSE IF Relocated(t, x, b) THEN Res(invReloc[<<x, b>>])
              ELSE Val(Reaching(x, b))
    IN
    /\ pc = "rewrite"
    /\ rc.i > 0
    /\ rc.i = OwnPos(f, b)
    /\ IF xs # <<>> THEN Reach(xs[1], b)
       ELSE /\ f' = [f EXCEPT !.blk[b].term = [MapOperands(@, Current(b)) EXCEPT
                       !.edges = [k \in DOMAIN @ |->
                          [@[k] EXCEPT !.args = [i \in DOMAIN @ |-> Arg(t.edges[k], i)]]]]]
            /\ rc' = [rc EXCEPT !.k = @ + 1, !.i = 0]
            /\ UNCHANGED <<backup, pos, pc, budget, lists, stats, result>>

------------------------------------------------------------------------------
(***************************************************************************)
(* complete: the new parameters of a block get an argument on every edge.  *)
(***************************************************************************)
CompletePop ==
    /\ pc = "complete"
    /\ rc.at = NONE
    /\ IF rc.stack = <<>> THEN pc' = "eliminate" /\ UNCHANGED rc
       ELSE /\ rc' = [rc EXCEPT !.stack = SubSeq(@, 1, Len(@) - 1),
                                !.at = rc.stack[Len(rc.stack)], !.i = 1]
            /\ UNCHANGED pc
    /\ UNCHANGED <<backup, f, pos, budget, lists, stats, result>>

\* The shortest argument list p passes b.
Shortest(p, b) ==
    LET lens == {Len(e.args) : e \in {d \in Range(Term(f, p).edges) : d.block = b}}
    IN  CHOOSE n \in lens : \A m \in lens : n <= m
Short(p, b) == Shortest(p, b) \in rc.first[b]..Len(f.blk[b].params) - 1

\* The argument edge_value gives, once x on entry to p is known.
EdgeValueAtEnd(x, p) ==
    Val(IF rc.endDef[<<x, p>>] # NONE THEN rc.endDef[<<x, p>>] ELSE EntryOf(x, p))
EdgeValue(x, p) ==
    CASE Relocated(Term(f, p), x, p) -> Res(invReloc[<<x, p>>])
      [] OTHER -> Val(IF rc.endDef[<<x, p>>] # NONE THEN rc.endDef[<<x, p>>] ELSE EntryOf(x, p))
EdgeKnown(x, p) ==
    Relocated(Term(f, p), x, p) \/ rc.endDef[<<x, p>>] # NONE \/ Known(x, p)

ExtendFirst(edges, b, n, arg) ==
    [edges EXCEPT ![1].args = IF edges[1].block = b /\ Len(@) = n THEN Append(@, arg) ELSE @]
Extend(edges, b, n, arg) ==
    [j \in DOMAIN edges |->
       IF edges[j].block = b /\ Len(edges[j].args) = n
       THEN [edges[j] EXCEPT !.args = Append(@, arg)] ELSE edges[j]]

CompleteEdge ==
    LET b == rc.at
        p == rc.preds[b][rc.i]
        n == Shortest(p, b)
        x == rc.paramVar[f.blk[b].params[n + 1]]
    IN
    /\ pc = "complete"
    /\ rc.at # NONE
    /\ IF rc.i > Len(rc.preds[b])
       THEN rc' = [rc EXCEPT !.at = NONE] /\ UNCHANGED <<backup, f, pos, pc, budget, lists, stats, result>>
       ELSE IF ~Short(p, b)
       THEN rc' = [rc EXCEPT !.i = @ + 1] /\ UNCHANGED <<backup, f, pos, pc, budget, lists, stats, result>>
       ELSE IF ~EdgeKnown(x, p) THEN Reach(x, p)
       ELSE /\ f' = [f EXCEPT !.blk[p].term.edges = Extend(@, b, n, EdgeValue(x, p))]
            /\ UNCHANGED <<backup, pos, pc, budget, lists, rc, stats, result>>

------------------------------------------------------------------------------
(***************************************************************************)
(* eliminate_trivial and remove_params: a new parameter that every edge    *)
(* passes one other value (or itself) forwards to it, in any order.        *)
(***************************************************************************)
ParamOperands(g, v) ==
    LET d == g.val[v].def
    IN  UNION {{IF e.args[d.index].kind = "value" THEN Resolve(g, e.args[d.index].n) ELSE NONE :
                  e \in {x \in Range(Term(g, p).edges) : x.block = d.at}} :
                 p \in Range(rc.preds[d.at])}
Trivial(g, v) ==
    LET others == ParamOperands(g, v) \ {v}
    IN  g.val[v].alias = NONE /\ NONE \notin others /\ Cardinality(others) = 1
TrivialParams(g) == {v \in Range(rc.created) : Trivial(g, v)}

Eliminate ==
    /\ pc = "eliminate"
    /\ \E v \in TrivialParams(f) :
          f' = [f EXCEPT !.val[v].alias = CHOOSE u \in ParamOperands(f, v) \ {v} : TRUE]
    /\ UNCHANGED <<backup, pos, pc, budget, lists, rc, stats, result>>

\* The function without the parameters that forward, and the edges without their
\* arguments.
Without(g, gone) ==
    LET kept(b) == {i \in DOMAIN g.blk[b].params : g.blk[b].params[i] \notin gone}
        Moved(v) == LET d == g.val[v].def
                    IN  IF v \in gone THEN [d EXCEPT !.kind = "detached"]
                        ELSE [d EXCEPT !.index = IndexIn(Pick(g.blk[d.at].params, kept(d.at)), v)]
        IsParam(v) == g.val[v].def.kind = "param"
    IN  [g EXCEPT
          !.val = [v \in DOMAIN @ |-> IF IsParam(v) THEN [@[v] EXCEPT !.def = Moved(v)] ELSE @[v]],
          !.blk = [b \in DOMAIN @ |-> [@[b] EXCEPT
             !.params = Pick(@, kept(b)),
             !.term.edges = [k \in DOMAIN @ |->
                LET e == g.blk[b].term.edges[k] IN [e EXCEPT !.args = Pick(e.args, kept(e.block))]]]]]

Conclude ==
    LET gone == {v \in Range(rc.created) : f.val[v].alias # NONE}
        g == ResolveAliases(Without(f, gone))
    IN
    /\ pc = "eliminate"
    /\ TrivialParams(f) = {}
    /\ IF ValidateBody(g) = "ok"
       THEN /\ stats' = [stats EXCEPT !.params = Len(rc.created) - Cardinality(gone)]
            /\ Succeed(g)
       ELSE Fail("invalid")

Next ==
    \/ Insert \/ Liveness \/ GrowInst \/ GrowInvoke \/ Prescan
    \/ EnterBlock \/ RewriteInst \/ RewriteTerm \/ CompletePop \/ CompleteEdge
    \/ Eliminate \/ Conclude
=============================================================================
