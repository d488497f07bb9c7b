------------------------------ MODULE Validate ------------------------------
(***************************************************************************)
(* The validator of one function body (src/src/validate, and the checks of *)
(* edges and calls in src/src/typing.rs).  Each check gives "ok" or names  *)
(* the error it reports; the first that fails decides.  Which of several   *)
(* blocks at fault in one check is reported is abstracted.                 *)
(***************************************************************************)
EXTENDS Dominators

FirstError(verdicts) ==
    LET bad == {k \in DOMAIN verdicts : verdicts[k] # "ok"}
    IN  IF bad = {} THEN "ok"
        ELSE verdicts[CHOOSE k \in bad : \A j \in bad : k <= j]
Require(holds, error) == IF holds THEN "ok" ELSE error

------------------------------------------------------------------------------
(* Structure. *)

\* check_entry: the entry takes the declared parameters.
CheckEntry(f) ==
    LET ps == f.blk[Entry].params
    IN  Require(/\ Entry \in f.live
                /\ Len(ps) = Len(f.params)
                /\ \A i \in DOMAIN ps : f.val[ps[i]].ty = f.params[i], "Entry")

\* check_aliases: every chain of forwarding ends, within one type.
CheckAliases(f) ==
    LET moves == {v \in Values(f) : f.val[v].alias # NONE}
    IN  Require(/\ \A v \in moves : /\ f.val[v].alias \in Values(f)
                                    /\ f.val[f.val[v].alias].ty = f.val[v].ty
                /\ \A S \in (SUBSET moves) \ {{}} : \E v \in S : f.val[v].alias \notin S,
                "BadAlias")

\* check_definitions: a listed value is listed once, where it says it is.
CheckDefinitions(f) ==
    LET owned == {s \in f.live \X (DOMAIN f.val) : s[2] \in DOMAIN f.blk[s[1]].params}
        made == {s \in f.live \X (DOMAIN f.inst) : s[2] \in DOMAIN Insts(f, s[1])}
    IN  Require(/\ \A s \in owned : f.val[f.blk[s[1]].params[s[2]]].def =
                       [kind |-> "param", at |-> s[1], index |-> s[2]]
                /\ \A s \in made :
                     LET i == Insts(f, s[1])[s[2]]
                     IN  \A k \in DOMAIN f.inst[i].res : f.val[f.inst[i].res[k]].def =
                           [kind |-> "result", at |-> i, index |-> k], "InconsistentDefinition")

------------------------------------------------------------------------------
(* Types. *)

\* call_types and the Safepoint arm of inst_types: a list only at a safepoint, and
\* of references; one more result for each.
GcListOk(f, data) ==
    /\ data.gc # <<>> /\ data.op # "safepoint" => ~Nogc(data)
    /\ \A k \in DOMAIN data.gc : TypeOf(f, data.gc[k]) = "ref"

\* inst_types: the types of the results, and what the operands must be; value_ty
\* refuses an operand the function does not have.
OperandsExist(f, data) == Range(Operands(data)) \subseteq Values(f)
ArgTypes(f, data) == [k \in DOMAIN data.args |-> TypeOf(f, data.args[k])]
InstTypesOk(f, i) ==
    LET data == f.inst[i]
        ts == ArgTypes(f, data)
        out == [k \in DOMAIN data.res |-> f.val[data.res[k]].ty]
    IN  /\ OperandsExist(f, data)
        /\ GcListOk(f, data)
        /\ CASE data.op = "toptr" -> ts = <<"ref">> /\ out = <<"raw">>
             [] data.op = "derive" -> Range(ts) = {"raw"} /\ out = <<"raw">>
             [] data.op = "store" -> Len(ts) = 2 /\ ts[2] = "raw" /\ out = <<>>
             [] data.op = "use" -> out = <<>>
             [] data.op = "make" -> ts = <<>> /\ Len(out) = 1
             [] OTHER -> /\ Len(data.res) = data.rets + Len(data.gc)
                         /\ \A k \in DOMAIN out : k > data.rets => out[k] = "ref"

\* check_edge: one argument per parameter, of its type.  resN of an invoke: its
\* returns on the normal edge only, its relocated references on both.
EdgeArgOk(f, t, k, arg, want) ==
    CASE arg.kind = "value" -> arg.n \in Values(f) /\ TypeOf(f, arg.n) = want
      [] arg.kind = "res" /\ t.op = "invoke" ->
            /\ arg.n < t.rets + Len(t.gc)
            /\ k = 2 => arg.n >= t.rets
            /\ arg.n >= t.rets => want = "ref"
      [] arg.kind = "res" /\ t.op = "check" -> k = 1 /\ arg.n = 0 /\ want = "raw"
      [] arg.kind = "exn" -> t.op = "invoke" /\ k = 2 /\ want = "raw"
      [] arg.kind = "err" -> t.op = "check" /\ k = 2 /\ want = "raw"
      [] OTHER -> FALSE
EdgeOk(f, t, k) ==
    LET e == t.edges[k]
        ps == f.blk[e.block].params
    IN  /\ e.block \in f.live \ {Entry}
        /\ Len(e.args) = Len(ps)
        /\ \A i \in DOMAIN ps : EdgeArgOk(f, t, k, e.args[i], f.val[ps[i]].ty)

\* check_terminator.
TerminatorOk(f, t) ==
    LET ts == ArgTypes(f, t) IN
    /\ OperandsExist(f, t)
    /\ GcListOk(f, t)
    /\ CASE t.op = "return" -> ts = f.returns
         [] t.op = "resume" -> ts = <<"raw">>
         [] t.op = "tailcall" -> t.gc = <<>> /\ t.rets = Len(f.returns)
         [] t.op = "invoke" -> t.edges[1].block # t.edges[2].block
         [] t.op = "check" -> Range(ts) = {"raw"}
         [] OTHER -> TRUE
    /\ \A k \in DOMAIN t.edges : EdgeOk(f, t, k)

CheckTypes(f) ==
    IF \E b \in f.live : ~HasTerm(f, b) THEN "MissingTerminator"
    ELSE Require(\A b \in f.live : /\ \A i \in Range(Insts(f, b)) : InstTypesOk(f, i)
                                   /\ TerminatorOk(f, Term(f, b)), "Types")

------------------------------------------------------------------------------
(* Exceptions and attributes: check_eh_and_attrs. *)

Pads(f) == {Term(f, b).edges[2].block : b \in {p \in f.live : Term(f, p).op = "invoke"}}

\* Edges that must not lead to a landing pad: all but the unwind edge.
OrdinarySuccs(f, b) ==
    IF Term(f, b).op = "invoke" THEN {Term(f, b).edges[1].block} ELSE Range(Succs(f, b))

TermAttrsOk(f, t) ==
    LET Lacks(a) == a \in f.attrs /\ a \notin t.attrs IN
    CASE t.op = "resume" -> "nounwind" \notin f.attrs
      [] t.op = "return" -> "noreturn" \notin f.attrs
      [] t.op = "tailcall" -> ~Lacks("nounwind") /\ ~Lacks("noreturn") /\ ~Lacks("nogc")
      [] t.op = "invoke" -> ~Lacks("nogc")
      [] OTHER -> TRUE
InstAttrsOk(f, data) ==
    CASE data.op = "call" -> \A a \in {"nounwind", "nogc"} : a \in f.attrs => a \in data.attrs
      [] data.op = "safepoint" -> "nogc" \notin f.attrs
      [] OTHER -> TRUE

CheckEhAndAttrs(f) ==
    IF \E b \in f.live : OrdinarySuccs(f, b) \cap Pads(f) # {} THEN "LandingPadPredecessor"
    ELSE Require(\A b \in f.live :
                   /\ TermAttrsOk(f, Term(f, b))
                   /\ \A i \in Range(Insts(f, b)) : InstAttrsOk(f, f.inst[i]), "Attrs")

------------------------------------------------------------------------------
(***************************************************************************)
(* check_dominance: walking the dominator tree, a value is available in    *)
(* the blocks below the one that defines it, and in that block after its   *)
(* definition.  Blocks that are not reachable are not on the tree.         *)
(***************************************************************************)
TreeOf(f) == Idoms(SuccsOf(f))
Reached(idom) == {b \in DOMAIN idom : idom[b] # NONE}

Available(f, idom, b, k, v) ==
    LET d == DefSite(f, v) IN d[1] \in Ancestors(idom, b) /\ (d[1] = b => d[2] < k)

CheckDominance(f) ==
    With(TreeOf(f), LAMBDA idom :
        Require(\A b \in Reached(idom) : \A k \in 1..EdgePos(f, b) :
                   \A v \in ReadsAt(f, b, k) : Available(f, idom, b, k, v), "Dominance"))

------------------------------------------------------------------------------
(***************************************************************************)
(* The safepoint rules (gc.rs), on the blocks the tree reaches.            *)
(***************************************************************************)
\* propagates: check is a terminator and not among them.
Propagates(data) == data.op \in {"derive", "toptr"}

\* derived_values: ref_to_ptr makes a derived value, and whatever is computed from
\* one, or is a parameter that receives one, is derived too.
Derivations(f, reached) ==
    UNION {{<<Resolve(f, u), r>> : u \in Range(Operands(f.inst[i])), r \in Range(f.inst[i].res)} :
             i \in {j \in UNION {Range(Insts(f, b)) : b \in reached} : Propagates(f.inst[j])}}
    \cup
    UNION {UNION {{<<Resolve(f, e.args[k].n), f.blk[e.block].params[k]>> :
                     k \in {j \in DOMAIN e.args : e.args[j].kind = "value"}} :
                    e \in Range(Term(f, b).edges)} : b \in reached}

DerivedValues(f, reached) ==
    With(Derivations(f, reached), LAMBDA edges :
    LET seeds == UNION {Range(f.inst[i].res) :
                   i \in {j \in UNION {Range(Insts(f, b)) : b \in reached} : f.inst[j].op = "toptr"}}
        closed[S \in SUBSET Values(f)] ==
          LET next == S \cup {e[2] : e \in {d \in edges : d[1] \in S}}
          IN  IF next = S THEN S ELSE closed[next]
    IN  closed[seeds])

\* check_escapes: the derived values an instruction or terminator lets out.
Escaping(data) ==
    CASE data.op = "store" -> {data.args[1]}
      [] data.op \in {"call", "invoke"} -> IF Nogc(data) THEN {} ELSE Range(data.args)
      [] data.op \in {"return", "resume", "tailcall"} -> Range(data.args)
      [] OTHER -> {}
CheckEscapes(f, reached, derived) ==
    Require(\A b \in reached : \A data \in {f.inst[i] : i \in Range(Insts(f, b))} \cup {Term(f, b)} :
               \A v \in Escaping(data) : Resolve(f, v) \notin derived, "DerivedPointerEscapes")

\* Positions::crosses: a safepoint strictly between the two positions.
Crosses(f, b, lo, hi) == \E s \in SafepointsOf(f, b) : lo < s /\ s < hi

\* The walk of check_safepoints: the blocks v is live into, from the blocks that
\* read it and do not define it, backwards, up to the block that does.
LiveInto(f, reached, v) ==
    With(DefSite(f, v)[1], LAMBDA home :
      LET users == {b \in reached : \E k \in 1..EdgePos(f, b) : v \in ReadsAt(f, b, k)}
          back[S \in SUBSET reached] ==
            With(S \cup (((UNION {PredSet(f, b) : b \in S}) \cap reached) \ {home}),
                 LAMBDA next : IF next = S THEN S ELSE back[next])
      IN  back[users \ {home}])
LiveOut(f, reached, v) == (UNION {PredSet(f, b) : b \in LiveInto(f, reached, v)}) \cap reached

\* The first position of b at which v's live range can be crossed.
FromStart(f, b, v) == 0
From(f, b, v) == IF DefSite(f, v)[1] = b THEN DefSite(f, v)[2] ELSE 0

CheckLiveness(f, reached, derived) ==
    Require(\A v \in Values(f) : f.val[v].ty = "ref" \/ v \in derived =>
        /\ \A b \in reached : \A k \in 1..EdgePos(f, b) :
              v \in ReadsAt(f, b, k) => ~Crosses(f, b, From(f, b, v), k)
        /\ \A b \in LiveOut(f, reached, v) : ~Crosses(f, b, From(f, b, v), EdgePos(f, b)),
        "LiveAcrossSafepoint")

CheckSafepoints(f) ==
    With(Reached(TreeOf(f)), LAMBDA reached :
    With(DerivedValues(f, reached), LAMBDA derived :
        FirstError(<<CheckEscapes(f, reached, derived), CheckLiveness(f, reached, derived)>>)))

------------------------------------------------------------------------------
\* validate_structure and validate_body: later checks rely on what earlier ones
\* established, so they run only when those pass.
ValidateStructure(f) ==
    LET shape == FirstError(<<CheckEntry(f), CheckAliases(f), CheckDefinitions(f)>>)
        types == IF shape = "ok" THEN CheckTypes(f) ELSE shape
        eh == IF types = "ok" THEN CheckEhAndAttrs(f) ELSE types
    IN  IF eh = "ok" THEN CheckDominance(f) ELSE eh
ValidateBody(f) ==
    With(ValidateStructure(f), LAMBDA s : IF s = "ok" THEN CheckSafepoints(f) ELSE s)
=============================================================================
