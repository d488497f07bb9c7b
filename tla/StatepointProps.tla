--------------------------- MODULE StatepointProps ---------------------------
(***************************************************************************)
(* What statepoint insertion and the validator promise.  Insertion keeps   *)
(* the number of instructions of every block, so a function that it        *)
(* accepted is run side by side with the function given: the same block,   *)
(* the same position, the same edge taken.  The run follows references as  *)
(* the objects they name.  A safepoint moves every object: what was a      *)
(* reference, or computed from one, is stale from then on, and only the    *)
(* relocated results name the objects where they are now.                  *)
(***************************************************************************)
EXTENDS Statepoints

VARIABLES
    at,    \* the block the two runs are in, NONE before they start and after they end
    k,     \* the position in it
    old,   \* the values of the function given: [of, fresh]
    new    \* the values of the function as rewritten
run == <<at, k, old, new>>

\* What a value holds: the objects it names or was computed from, and whether it
\* has outlived a safepoint.
Plain == [of |-> {}, fresh |-> TRUE]
Object(n) == [of |-> {n}, fresh |-> TRUE]
Computed(xs) == [of |-> UNION {x.of : x \in xs}, fresh |-> \A x \in xs : x.fresh]
Aged(env) == [v \in DOMAIN env |-> [env[v] EXCEPT !.fresh = @ /\ env[v].of = {}]]

\* The smallest object no value names.
Unused ==
    LET used == UNION {x.of : x \in Range(old) \cup Range(new)}
    IN  CHOOSE n \in 1..Cardinality(used) + 1 :
           n \notin used /\ \A m \in 1..n - 1 : m \in used

Read(g, env, v) == env[Resolve(g, v)]
\* What the results of an instruction or invoke hold; relocated references are
\* fresh.
Made(g, env, data, ty, n) ==
    LET own == Computed({Read(g, env, v) : v \in Range(data.args)})
    IN  IF data.op \in {"toptr", "derive", "check"} THEN own
        ELSE IF ty = "ref" THEN Object(n) ELSE Plain
Moved(g, env, data, j) == [Read(g, env, data.gc[j - data.rets]) EXCEPT !.fresh = TRUE]

After(g, env, i, n) ==
    LET data == g.inst[i]
        base == IF IsSafepointInst(data) THEN Aged(env) ELSE env
        Result(v) ==
          LET j == IndexIn(data.res, v)
          IN  IF data.gc # <<>> /\ j > data.rets THEN Moved(g, env, data, j)
              ELSE Made(g, env, data, g.val[v].ty, n)
    IN  [v \in DOMAIN env \cup Range(data.res) |->
           IF v \in Range(data.res) THEN Result(v) ELSE base[v]]

\* An edge: all arguments are read before a parameter is assigned.
Passed(g, env, t, arg, n) ==
    CASE arg.kind = "value" -> Read(g, IF IsSafepointTerm(t) THEN Aged(env) ELSE env, arg.n)
      [] arg.kind = "res" /\ t.op = "invoke" ->
            IF arg.n < t.rets THEN Object(n) ELSE Moved(g, env, t, arg.n + 1)
      [] arg.kind = "res" /\ t.op # "invoke" -> Made(g, env, t, "raw", n)
      [] OTHER -> Plain
Entered(g, env, b, e, n) ==
    LET t == Term(g, b)
        ps == g.blk[t.edges[e].block].params
        base == IF IsSafepointTerm(t) THEN Aged(env) ELSE env
    IN  [v \in DOMAIN env \cup Range(ps) |->
           IF v \in Range(ps) THEN Passed(g, env, t, t.edges[e].args[IndexIn(ps, v)], n)
           ELSE base[v]]

------------------------------------------------------------------------------
RunInit == Init /\ at = NONE /\ k = 0 /\ old = <<>> /\ new = <<>>

RunStart ==
    /\ pc = "done"
    /\ result = "ok"
    /\ at = NONE /\ k = 0
    /\ at' = Entry
    /\ k' = 1
    /\ LET ps == backup.f.blk[Entry].params
           given == [v \in Range(ps) |->
              IF backup.f.val[v].ty = "ref" THEN Object(IndexIn(ps, v)) ELSE Plain]
       IN  old' = given /\ new' = given
    /\ UNCHANGED vars

RunInst ==
    /\ at # NONE
    /\ k <= Len(Insts(f, at))
    /\ old' = After(backup.f, old, Insts(backup.f, at)[k], Unused)
    /\ new' = After(f, new, Insts(f, at)[k], Unused)
    /\ k' = k + 1
    /\ UNCHANGED <<vars, at>>

RunTerm ==
    /\ at # NONE
    /\ k = OwnPos(f, at)
    /\ IF Term(f, at).edges = <<>> THEN at' = NONE /\ UNCHANGED <<k, old, new>>
       ELSE \E e \in DOMAIN Term(f, at).edges :
              /\ at' = Term(f, at).edges[e].block
              /\ k' = 1
              /\ old' = Entered(backup.f, old, at, e, Unused)
              /\ new' = Entered(f, new, at, e, Unused)
    /\ UNCHANGED vars

RunNext == (Next /\ UNCHANGED run) \/ RunStart \/ RunInst \/ RunTerm
RunSpec == RunInit /\ [][RunNext]_<<vars, run>>
\* A call is run by its caller to its end.
FairSpec == RunSpec /\ WF_<<vars, run>>(Next /\ UNCHANGED run)

------------------------------------------------------------------------------
(* Properties. *)

Same(x, y) == x.of = y.of /\ y.fresh
SameValues(vs, ws) ==
    /\ \A j \in DOMAIN vs : Resolve(f, ws[j]) \in DOMAIN new
    /\ \A j \in DOMAIN vs : Same(Read(backup.f, old, vs[j]), Read(f, new, ws[j]))
SameData(d, e) ==
    /\ SameValues(d.args, e.args)
    /\ \A v \in Range(e.gc) : Resolve(f, v) \in DOMAIN new /\ Read(f, new, v).fresh
SameEdge(d, e) ==
    LET t == Term(backup.f, at)
        u == Term(f, at)
    IN  /\ \A a \in Range(e.args) : a.kind = "value" => Resolve(f, a.n) \in DOMAIN new
        /\ \A a \in Range(e.args) : Passed(f, new, u, a, 0).fresh
        /\ \A j \in DOMAIN d.args :
              Passed(backup.f, old, t, d.args[j], 0).of = Passed(f, new, u, e.args[j], 0).of

\* statepoint.rs:1-19: after insertion every instruction, terminator and edge reads
\* the object the function given reads there, through a reference that no
\* safepoint has been crossed with.
UsesReadCurrent ==
    at # NONE =>
        IF k <= Len(Insts(f, at))
        THEN SameData(backup.f.inst[Insts(backup.f, at)[k]], f.inst[Insts(f, at)[k]])
        ELSE /\ SameData(Term(backup.f, at), Term(f, at))
             /\ \A e \in DOMAIN Term(f, at).edges :
                   SameEdge(Term(backup.f, at).edges[e], Term(f, at).edges[e])

\* insert_statepoints_within: a call that fails, at whichever step, leaves the
\* function and the position as they were.
RestoredOnFailure == result \notin {"none", "ok"} => f = backup.f /\ pos = backup.pos

\* The reference for liveness: s does not define v, and v is read at a point some
\* path leads to from just after s without passing v's definition.
PointsOf(g) == UNION {{b} \X (0..EdgePos(g, b)) : b \in g.live}
NextPoints(g, p) ==
    IF p[2] < EdgePos(g, p[1]) THEN {<<p[1], p[2] + 1>>} ELSE Range(Succs(g, p[1])) \X {0}
CrossedByPath(g, s, v) ==
    LET onward[S \in SUBSET PointsOf(g)] ==
          LET next == S \cup ((UNION {NextPoints(g, p) : p \in S}) \ {DefSite(g, v)})
          IN  IF next = S THEN S ELSE onward[next]
    IN  DefSite(g, v) # s /\ \E p \in onward[NextPoints(g, s) \ {DefSite(g, v)}] : v \in ReadsAt(g, p[1], p[2])
CrossingPairs(g, vs) ==
    LET s == SafepointSeq(g)
    IN  {q \in (DOMAIN s) \X vs : CrossedByPath(g, s[q[1]], q[2])}

\* gc.rs:254 and statepoint.rs:192: the walk back from uses, with positions inside
\* blocks, finds exactly the references some path takes through a safepoint to a use.
LivenessByPaths ==
    pc = "idle" /\ ValidateStructure(f) = "ok" =>
        LivePairs(f, SafepointSeq(f)) = CrossingPairs(f, {v \in Values(f) : f.val[v].ty = "ref"})

\* Insertion refuses only what it is documented to refuse: a function that was not
\* valid, or a derived pointer that escapes or lives across a safepoint; what it
\* rewrote is never rejected for anything else.
OnlyDerivedRefused ==
    result = "invalid" =>
        \/ ValidateStructure(backup.f) # "ok"
        \/ LET reached == Reached(TreeOf(backup.f))
               derived == DerivedValues(backup.f, reached)
           IN  \/ CheckEscapes(backup.f, reached, derived) # "ok"
               \/ CrossingPairs(backup.f, derived) # {}

\* dom.rs: the tree the iteration ends with holds, for every pair of blocks, whether
\* all paths to one lead through the other; the climb of intersect is never cut short.
TreeIsDominance ==
    pc = "idle" =>
        LET succ == SuccsOf(f)
            idom == Idoms(succ)
        IN  \A b \in Blocks(f) :
              /\ (idom[b] # NONE) = (b \in ReachAvoiding(succ, {}))
              /\ idom[b] # NONE => Ancestors(idom, b) = {a \in Blocks(f) : PathDominates(succ, a, b)}

\* insert_statepoints returns: the climb of entry and the completion of parameters
\* come to an end on every control-flow graph.
InsertReturns == <>(pc = "done")
=============================================================================
