-------------------------------- MODULE Text --------------------------------
(***************************************************************************)
(* The textual form of a module: the printer (src/src/print.rs), and the   *)
(* parser (src/src/parse.rs) as a machine that reads one line of it in     *)
(* each step.                                                              *)
(*                                                                         *)
(* A text is a sequence of lines, each a record of what the line says: the *)
(* words, the punctuation and the layout inside a line are left out, and   *)
(* with them every operand that names no entity (policies, flags,          *)
(* orderings, attributes).  A line the lexer or the grammar rejects is of  *)
(* kind "junk".  Ids are the numbers of the entities, as in the text.      *)
(*                                                                         *)
(* A body in memory (src/src/function.rs) is                               *)
(*   slots       how many stack slots there are                            *)
(*   values[v]   [ty, def, alias], def is [kind, at, index]                *)
(*   blocks[b]   [live, params, insts, term], term is <<>> or <<t>>        *)
(*   insts[i]    [data, results]                                           *)
(*   entry                                                                 *)
(* data is [op, vals, gc, ty, bits, sym, id], with the parts the operation *)
(* has not got at their default, and t is [op, data, edges]: the data of a *)
(* check is the operation it guards.                                       *)
(***************************************************************************)
EXTENDS Decls, Counting

CONSTANTS Texts,      \* what is read: [doc, printed, source]
          MaxLines,   \* ParseLimits::max_bytes
          MaxId,      \* ParseLimits::max_id
          IdsPerLine, IdSlack   \* the ids a text of n lines may use

ASSUME TextAssumption == {MaxLines, MaxId, IdsPerLine, IdSlack} \subseteq Nat

\* What the lexer and the grammar make of a line: ids are numbers, lists are vectors.
IsDefs(written) == written \in Seq(Range(written)) /\ \A d \in Range(written) : d.id \in Nat
IsLine(line) ==
    /\ line.kind = "type" => IsAggregate(line.agg)
    /\ line.kind = "global" => IsGlobal(line.decl)
    /\ line.kind = "func" => line.body \in BOOLEAN
    /\ line.kind = "block" => line.id \in Nat /\ IsDefs(line.params)
    /\ line.kind = "inst" => IsDefs(line.results)
IsText(d) == d \in Seq(Range(d)) /\ \A line \in Range(d) : IsLine(line)
ASSUME TextsAssumption == \A t \in Texts : IsText(t.doc)

Check(ok, err) == IF ok THEN None ELSE err
\* The first error of a sequence of checks, made in order.
Problem(checks) ==
    IF \E k \in DOMAIN checks : checks[k] # None
    THEN checks[CHOOSE k \in DOMAIN checks :
                   checks[k] # None /\ \A j \in 1 .. k - 1 : checks[j] = None]
    ELSE None

NoType == "none"
NoSym == [kind |-> None, id |-> NoId]
NoLit == [form |-> None, n |-> 0]
Detached == [kind |-> "detached", at |-> NoId, index |-> 0]
ParamOf(b, k) == [kind |-> "param", at |-> b, index |-> k]
ResultOf(i, k) == [kind |-> "result", at |-> i, index |-> k]

------------------------------------------------------------------------------
(***************************************************************************)
(* Constants, at small widths: words of WordBits bits hold every constant, *)
(* and the narrow types use their low NarrowBits bits.  A float has a sign *)
(* bit, one bit of mantissa, and the exponent between them.                *)
(***************************************************************************)
WordBits == 4
NarrowBits == 3
Words == 0 .. 2 ^ WordBits - 1
Signed == {"i_narrow", "i_word"}
Unsigned == {"u_narrow", "u_word"}
Floats == {"f_narrow", "f_word"}
Width(ty) == IF ty \in {"i_narrow", "u_narrow", "f_narrow"} THEN NarrowBits ELSE WordBits
AsSigned(n, w) == IF n < 2 ^ (w - 1) THEN n ELSE n - 2 ^ w

Infinity(ty) == 2 ^ (Width(ty) - 1) - 2
NegInfinity(ty) == Infinity(ty) + 2 ^ (Width(ty) - 1)

\* print::write_const, write_f64 and write_f32.  The decimal text of a finite float
\* is read back as the same float.
WriteConst(ty, bits) ==
    LET fits == bits < 2 ^ Width(ty)
        lit(form) == [form |-> form, n |-> 0]
    IN  IF ty = "bool" /\ bits <= 1 THEN lit(IF bits = 1 THEN "true" ELSE "false")
        ELSE IF ty = "ptr" /\ bits = 0 THEN lit("null")
        ELSE IF ty \in Floats /\ fits
             THEN IF bits = Infinity(ty) THEN lit("inf")
                  ELSE IF bits = NegInfinity(ty) THEN lit("-inf")
                  ELSE IF bits \in {Infinity(ty) + 1, NegInfinity(ty) + 1}
                       THEN [form |-> "nan", n |-> bits]
                  ELSE [form |-> ty, n |-> bits]
        ELSE IF ty \in Signed /\ fits THEN [form |-> "dec", n |-> AsSigned(bits, Width(ty))]
        ELSE IF ty \in Unsigned /\ fits THEN [form |-> "dec", n |-> bits]
        ELSE [form |-> "hex", n |-> bits]

\* Parser::const_bits, int_bits and float_bits: the bits, or NoId when the literal is
\* not one of the type's.  The decimal text of a float has the type it was printed for
\* as its form; no text gives it, or an integer, to another float type.
IntBits(ty, n) ==
    LET w == Width(ty)
        range == IF ty \in Signed THEN -(2 ^ (w - 1)) .. 2 ^ (w - 1) - 1 ELSE 0 .. 2 ^ w - 1
    IN  IF n \in range THEN n % 2 ^ w ELSE NoId
ConstBits(ty, lit) ==
    CASE lit.form = "true" -> 1
      [] lit.form \in {"false", "null"} -> 0
      [] lit.form = "inf" -> IF ty \in Floats THEN Infinity(ty) ELSE NoId
      [] lit.form = "-inf" -> IF ty \in Floats THEN NegInfinity(ty) ELSE NoId
      [] lit.form \in {"nan", "hex"} -> lit.n
      [] lit.form = "dec" -> IF ty \in Signed \cup Unsigned THEN IntBits(ty, lit.n)
                             ELSE IF lit.n \in Words THEN lit.n ELSE NoId
      [] OTHER -> IF lit.form = ty THEN lit.n ELSE NoId

------------------------------------------------------------------------------
(* The printer. *)

\* Function::resolve
Resolve(f, v) ==
    LET end[u \in DOMAIN f.values] ==
            IF f.values[u].alias = NoId THEN u ELSE end[f.values[u].alias]
    IN  end[v]
Resolved(f, vals) == [k \in DOMAIN vals |-> Resolve(f, vals[k])]
Typed(f, vals) == [k \in DOMAIN vals |-> [id |-> vals[k], ty |-> f.values[vals[k]].ty]]

NameOf(m, sym) ==
    IF sym.kind = "func" THEN m.funcs[sym.id].name
    ELSE IF sym.kind = "global" THEN m.globals[sym.id].name
    ELSE ""

\* print::write_op and write_call.  The type an operation makes is printed with its
\* result, except in a check, where a conversion names its own.
WriteOp(m, f, data, inCheck) ==
    [op |-> data.op, vals |-> Resolved(f, data.vals), gc |-> Resolved(f, data.gc),
     lit |-> IF data.op = "const" THEN WriteConst(data.ty, data.bits) ELSE NoLit,
     name |-> NameOf(m, data.sym), id |-> data.id,
     to |-> IF inCheck /\ data.op = "convert" THEN data.ty ELSE NoType]

\* print::write_dest
WriteDest(f, edge) ==
    [edge EXCEPT !.args = [k \in DOMAIN @ |->
        IF @[k].kind = "value" THEN [@[k] EXCEPT !.n = Resolve(f, @)] ELSE @[k]]]

\* print::write_terminator
WriteTerm(m, f, t) ==
    [kind |-> "term", op |-> t.op, text |-> WriteOp(m, f, t.data, t.op = "check"),
     edges |-> [k \in DOMAIN t.edges |-> WriteDest(f, t.edges[k])]]

\* print::write_results
WriteInst(m, f, i) ==
    [kind |-> "inst", results |-> Typed(f, f.insts[i].results),
     text |-> WriteOp(m, f, f.insts[i].data, FALSE)]

WriteBlock(m, f, b) ==
    LET n == f.blocks[b]
    IN  <<[kind |-> "block", id |-> b, params |-> Typed(f, n.params)]>>
          \o [k \in DOMAIN n.insts |-> WriteInst(m, f, n.insts[k])]
          \o [k \in DOMAIN n.term |-> WriteTerm(m, f, n.term[k])]

\* The live blocks in the order they are printed: the entry first, then by id.
LiveBlocks(f) == {b \in DOMAIN f.blocks : f.blocks[b].live}
PrintOrderById(f) == Sorted(LiveBlocks(f))
PrintOrder(f) ==
    LET rest == Sorted(LiveBlocks(f) \ {f.entry})
    IN  IF f.entry \in LiveBlocks(f) THEN <<f.entry>> \o rest ELSE rest

\* print::write_body
WriteBody(m, f) ==
    [k \in 1 .. f.slots |-> [kind |-> "slot", id |-> k - 1]]
      \o FlattenSeq([k \in DOMAIN PrintOrder(f) |-> WriteBlock(m, f, PrintOrder(f)[k])])
      \o <<[kind |-> "close"]>>

\* print::write_function
WriteFunction(m, i) ==
    LET d == m.funcs[i]
    IN  <<[kind |-> "func", name |-> d.name, id |-> d.sig, linkage |-> d.linkage,
           body |-> d.body # NoBody]>>
          \o FlattenSeq([k \in DOMAIN d.body |-> WriteBody(m, d.body[k])])

\* impl Display for Module
WriteGlobal(m, g) ==
    [kind |-> "global",
     decl |-> [g EXCEPT !.relocs = [k \in DOMAIN @ |->
                  [offset |-> @[k].offset, name |-> NameOf(m, @[k].target)]]]]
Printed(m) ==
    [k \in 1 .. Count(m.aggs) |-> [kind |-> "type", id |-> k - 1, agg |-> m.aggs[k - 1].agg]]
      \o [k \in 1 .. Count(m.sigs) |-> [kind |-> "sig", id |-> k - 1, sig |-> m.sigs[k - 1]]]
      \o [k \in 1 .. Count(m.globals) |-> WriteGlobal(m, m.globals[k - 1])]
      \o FlattenSeq([k \in 1 .. Count(m.funcs) |-> WriteFunction(m, k - 1)])

------------------------------------------------------------------------------
(***************************************************************************)
(* The parser.                                                             *)
(*   known   the names of the functions and of the globals, in the order   *)
(*           of the text (Parser::funcs, Parser::globals)                  *)
(*   m       the module as far as it is read                               *)
(*   open    the body being read (struct Body): the function's handle, the *)
(*           body, the ids defined, the ids named, the first block and the *)
(*           current one                                                   *)
(***************************************************************************)
VARIABLES doc, pos, phase, err, known, m, open, from

vars == <<doc, pos, phase, err, known, m, open, from>>

BlankValue == [ty |-> "bool", def |-> Detached, alias |-> NoId]
BlankBlock == [live |-> FALSE, params |-> <<>>, insts |-> <<>>, term |-> <<>>]
EmptyFunction ==
    [slots |-> 0, values |-> Empty, blocks |-> Empty, insts |-> Empty, entry |-> 0]
NotOpen ==
    [func |-> NoId, f |-> EmptyFunction, values |-> {}, blocks |-> {},
     valueRefs |-> {}, blockRefs |-> {}, first |-> NoId, current |-> NoId]

IdCap == Min({MaxId, IdsPerLine * Len(doc) + IdSlack, MaxEntities - 1})

Init ==
    \E t \in Texts :
        /\ doc = t.doc
        /\ from = [printed |-> t.printed, source |-> t.source, again |-> FALSE]
        /\ pos = 1
        /\ phase = "scan"
        /\ err = None
        /\ known = [funcs |-> <<>>, globals |-> <<>>]
        /\ m = NewModule
        /\ open = NotOpen

Line == doc[pos]
Reads(ph, kinds) == phase \in ph /\ pos <= Len(doc) /\ Line.kind \in kinds

Refuse(e) ==
    /\ phase' = "refused"
    /\ err' = e
    /\ UNCHANGED <<doc, pos, known, m, open, from>>

Advance(ph) ==
    /\ pos' = pos + 1
    /\ phase' = ph
    /\ UNCHANGED <<doc, err, known, from>>

\* How many bodies are open after each line: Parser::prescan counts the braces.
Depths ==
    LET depth[j \in 0 .. Len(doc)] ==
            IF j = 0 THEN 0
            ELSE IF doc[j].kind = "func" THEN IF doc[j].body THEN depth[j - 1] + 1 ELSE depth[j - 1]
            ELSE IF doc[j].kind = "close" /\ depth[j - 1] > 0 THEN depth[j - 1] - 1
            ELSE depth[j - 1]
    IN  depth
DepthAt(k) == Depths[k - 1]

\* The names declared outside every body, in order.
Outside(kind) == Sorted({k \in DOMAIN doc : doc[k].kind = kind /\ DepthAt(k) = 0})
FuncNames == LET lines == Outside("func") IN [k \in DOMAIN lines |-> doc[lines[k]].name]
GlobalNames == LET lines == Outside("global") IN [k \in DOMAIN lines |-> doc[lines[k]].decl.name]

\* parse_with: the size, the lexer over the whole text, and Parser::prescan.
Scan ==
    /\ phase = "scan"
    /\ \E funcs \in {FuncNames}, globals \in {GlobalNames} :
         LET e == Problem(<<Check(Len(doc) <= MaxLines, "input too large"),
                            Check(\A k \in DOMAIN doc : doc[k].kind # "junk", "syntax"),
                            Check(IsInjective(funcs \o globals), "duplicate name")>>)
         IN  \/ e # None /\ Refuse(e)
             \/ /\ e = None
                /\ known' = [funcs |-> funcs, globals |-> globals]
                /\ phase' = "module"
                /\ UNCHANGED <<doc, pos, err, m, open, from>>

\* The handle a name was given by prescan, NoSym for a name it did not see.
Symbol(kind, name) ==
    LET names == IF kind = "func" THEN known.funcs ELSE known.globals
    IN  IF name \in Range(names)
        THEN [kind |-> kind, id |-> (CHOOSE k \in DOMAIN names : names[k] = name) - 1]
        ELSE NoSym
\* A relocation's target may be either.
Target(name) == IF Symbol("func", name) # NoSym THEN Symbol("func", name) ELSE Symbol("global", name)

------------------------------------------------------------------------------
(* Declarations. *)

\* A declaration whose checks are e and which leaves d.m when it is accepted.
Declare(e, d) ==
    \/ e # None /\ Refuse(e)
    \/ e = None /\ m' = d.m /\ UNCHANGED open /\ Advance("module")

\* Parser::aggregate_decl
AggregateDecl ==
    /\ Reads({"module"}, {"type"})
    /\ \E d \in {DeclareAggregate(m, Line.agg)} :
         Declare(Problem(<<Check(Line.id <= IdCap, "id"),
                           Check(Line.id = Count(m.aggs), "order"),
                           Check(\A t \in MemTypes(Line.agg) : t.agg <= IdCap, "id"),
                           d.err>>), d)

\* Parser::sig_decl: a signature that is interned already is refused.
SigDecl ==
    /\ Reads({"module"}, {"sig"})
    /\ \E d \in {InternSignature(m, Line.sig)} :
         Declare(Problem(<<Check(Line.id <= IdCap, "id"),
                           Check(Line.id = Count(m.sigs), "order"),
                           d.err,
                           Check(SigId(d.m, Line.sig) = Line.id, "duplicate")>>), d)

\* Parser::global_decl
GlobalDecl ==
    /\ Reads({"module"}, {"global"})
    /\ LET named == [k \in DOMAIN Line.decl.relocs |-> Target(Line.decl.relocs[k].name)]
           global == [Line.decl EXCEPT !.relocs = [k \in DOMAIN @ |->
                         [offset |-> @[k].offset, target |-> named[k]]]]
       IN  \E d \in {DeclareGlobal(m, global)} :
             Declare(Problem(<<Check(NoSym \notin Range(named), "unknown symbol"), d.err>>), d)

\* Parser::func_decl: the handle is the place among the declarations.
FuncDecl ==
    /\ Reads({"module"}, {"func"})
    /\ LET sig == IF Line.id \in DOMAIN m.sigs THEN m.sigs[Line.id] ELSE None
       IN  \E d \in {DeclareFunction(m, Line.name, sig, Line.linkage)} :
             LET e == Problem(<<Check(Line.id <= IdCap, "id"),
                                Check(Line.id \in DOMAIN m.sigs, "undefined"), d.err>>)
             IN  \/ e # None /\ Refuse(e)
                 \/ /\ e = None
                    /\ m' = d.m
                    /\ open' = IF Line.body THEN [NotOpen EXCEPT !.func = Count(m.funcs)] ELSE open
                    /\ Advance(IF Line.body THEN "slots" ELSE "module")

------------------------------------------------------------------------------
(* Bodies. *)

\* Parser::body, the slots at its start.
SlotDecl ==
    /\ Reads({"slots"}, {"slot"})
    /\ LET e == Problem(<<Check(Line.id <= IdCap, "id"), Check(Line.id = open.f.slots, "order")>>)
       IN  \/ e # None /\ Refuse(e)
           \/ /\ e = None
              /\ open' = [open EXCEPT !.f.slots = @ + 1]
              /\ UNCHANGED m
              /\ Advance("slots")

\* A table t with the entries e in it, and blanks as far as they need them.
Extended(t, e, blank) ==
    [n \in 0 .. Max(DOMAIN e \cup {Count(t) - 1}) |->
        IF n \in DOMAIN e THEN e[n] ELSE IF n \in DOMAIN t THEN t[n] ELSE blank]

Ids(written) == [k \in DOMAIN written |-> written[k].id]
\* Parser::define_value for each of the ids and types written, defined by defs[1], ...
DefineValues(o, written, defs) ==
    LET place(v) == CHOOSE k \in DOMAIN written : written[k].id = v
        nodes == [v \in Range(Ids(written)) |->
                    [ty |-> written[place(v)].ty, def |-> defs[place(v)], alias |-> NoId]]
    IN  [o EXCEPT !.f.values = Extended(@, nodes, BlankValue),
                  !.values = @ \cup Range(Ids(written))]
\* None of them is defined already, or twice.
FreshHere(o, written) == IsInjective(Ids(written))
Fresh(o, written) == IsInjective(Ids(written)) /\ Range(Ids(written)) \cap o.values = {}
WithinCap(ids) == \A id \in ids : id <= IdCap

\* Parser::block, up to the colon.
BlockHeader ==
    /\ Reads({"slots", "blocks"}, {"block"})
    /\ LET b == Line.id
           e == Problem(<<Check(b <= IdCap, "id"), Check(b \notin open.blocks, "duplicate"),
                          Check(WithinCap(Range(Ids(Line.params))), "id"),
                          Check(Fresh(open, Line.params), "duplicate")>>)
           params == Line.params
           defs == [k \in DOMAIN params |-> ParamOf(b, k - 1)]
           node == [BlankBlock EXCEPT !.live = TRUE, !.params = Ids(params)]
           headed == [open EXCEPT
                        !.f.blocks = Extended(@, [n \in {b} |-> node], BlankBlock),
                        !.blocks = @ \cup {b},
                        !.first = IF @ = NoId THEN b ELSE @,
                        !.current = b]
       IN  \/ e # None /\ Refuse(e)
           \/ /\ e = None
              /\ open' = DefineValues(headed, params, defs)
              /\ UNCHANGED m
              /\ Advance("blocks")

Terminated == open.f.blocks[open.current].term # <<>>

NeedsResult(op) == op \in {"const", "load"}
SymbolKind(op) == IF op = "global_addr" THEN "global" ELSE "func"
NamesSymbol(op) == op \in {"call", "func_addr", "global_addr"}

\* Parser::op and Parser::call: what the line's operation is, with the type of its
\* result, and what is wrong with it.
TypeMade(text, result, inCheck) ==
    IF text.op = "convert" /\ inCheck THEN text.to
    ELSE IF text.op \in {"const", "load", "convert"} THEN result
    ELSE NoType
ReadOp(text, result, inCheck) ==
    [op |-> text.op, vals |-> text.vals, gc |-> text.gc, ty |-> TypeMade(text, result, inCheck),
     bits |-> IF text.op = "const" THEN ConstBits(result, text.lit) ELSE 0,
     sym |-> IF NamesSymbol(text.op) THEN Symbol(SymbolKind(text.op), text.name) ELSE NoSym,
     id |-> text.id]
OpProblem(text, result, inCheck) ==
    Problem(<<Check(WithinCap(Range(text.vals) \cup Range(text.gc) \cup {text.id}), "id"),
              Check(NeedsResult(text.op) \/ (text.op = "convert" /\ ~inCheck)
                        => result # NoType, "missing result"),
              Check(NamesSymbol(text.op)
                        => Symbol(SymbolKind(text.op), text.name) # NoSym, "unknown symbol"),
              Check(text.op = "const" => ConstBits(result, text.lit) # NoId, "number")>>)
Named(text) == Range(text.vals) \cup Range(text.gc)

\* Parser::instruction
Consecutive(ids) == \A k \in 1 .. Len(ids) - 1 : ids[k + 1] = ids[k] + 1
Instruction ==
    /\ Reads({"blocks"}, {"inst"})
    /\ LET written == Line.results
           result == IF written = <<>> THEN NoType ELSE written[1].ty
           i == Count(open.f.insts)
           e == Problem(<<Check(~Terminated, "after the terminator"),
                          Check(WithinCap(Range(Ids(written))), "id"),
                          Check(Consecutive(Ids(written)), "not consecutive"),
                          OpProblem(Line.text, result, FALSE),
                          Check(HasRoom(open.f.insts), "id"),
                          Check(Fresh(open, written), "duplicate")>>)
       IN  \/ e # None /\ Refuse(e)
           \/ /\ e = None
              /\ \E o \in {[open EXCEPT
                     !.f.insts = Push(@, [data |-> ReadOp(Line.text, result, FALSE),
                                          results |-> Ids(written)]),
                     !.f.blocks[open.current].insts = Append(@, i),
                     !.valueRefs = @ \cup Named(Line.text)]} :
                    open' = DefineValues(o, written, [k \in DOMAIN written |-> ResultOf(i, k - 1)])
              /\ UNCHANGED m
              /\ Advance("blocks")

\* Parser::try_terminator and Parser::dest
EdgeRefsAfterFirst(edges) == {e.block : e \in Range(IF edges = <<>> THEN <<>> ELSE Tail(edges))}
EdgeRefs(edges) == {e.block : e \in Range(edges)}
ArgRefs(edges) ==
    UNION {{a.n : a \in {x \in Range(e.args) : x.kind = "value"}} : e \in Range(edges)}
Terminator ==
    /\ Reads({"blocks"}, {"term"})
    /\ LET inCheck == Line.op = "check"
           e == Problem(<<Check(~Terminated, "after the terminator"),
                          OpProblem(Line.text, NoType, inCheck),
                          Check(WithinCap(EdgeRefs(Line.edges) \cup ArgRefs(Line.edges)), "id")>>)
           t == [op |-> Line.op, data |-> ReadOp(Line.text, NoType, inCheck), edges |-> Line.edges]
       IN  \/ e # None /\ Refuse(e)
           \/ /\ e = None
              /\ open' = [open EXCEPT !.f.blocks[open.current].term = <<t>>,
                                      !.valueRefs = @ \cup Named(Line.text) \cup ArgRefs(Line.edges),
                                      !.blockRefs = @ \cup EdgeRefs(Line.edges)]
              /\ UNCHANGED m
              /\ Advance("blocks")

\* Parser::finish_body and the end of Parser::func_decl: only here is it known which of
\* the ids named are defined.
FinishBody ==
    /\ Reads({"slots", "blocks"}, {"close"})
    /\ LET e == Problem(<<Check(open.valueRefs \subseteq open.values, "undefined"),
                          Check(open.blockRefs \subseteq open.blocks, "undefined")>>)
           f == [open.f EXCEPT !.entry = IF open.first = NoId THEN 0 ELSE open.first]
       IN  \/ e # None /\ Refuse(e)
           \/ /\ e = None
              /\ m' = SetBody(m, open.func, f)
              /\ open' = NotOpen
              /\ Advance("module")

\* A line that cannot stand where it does, or a text that ends inside a body.
Expected(ph) ==
    CASE ph = "module" -> {"type", "sig", "global", "func"}
      [] ph = "slots" -> {"slot", "block", "close"}
      [] ph = "blocks" -> {"block", "inst", "term", "close"}
Unexpected ==
    /\ phase \in {"module", "slots", "blocks"}
    /\ IF pos > Len(doc) THEN phase # "module" ELSE Line.kind \notin Expected(phase)
    /\ Refuse("syntax")

Accept ==
    /\ phase = "module"
    /\ pos > Len(doc)
    /\ phase' = "accepted"
    /\ UNCHANGED <<doc, pos, err, known, m, open, from>>

\* The caller prints what it got and reads that.
Reprint ==
    /\ phase = "accepted"
    /\ ~from.again
    /\ doc' = Printed(m)
    /\ from' = [printed |-> TRUE, source |-> m, again |-> TRUE]
    /\ pos' = 1
    /\ phase' = "scan"
    /\ m' = NewModule
    /\ known' = [funcs |-> <<>>, globals |-> <<>>]
    /\ UNCHANGED <<err, open>>

Next ==
    \/ Scan \/ AggregateDecl \/ SigDecl \/ GlobalDecl \/ FuncDecl
    \/ SlotDecl \/ BlockHeader \/ Instruction \/ Terminator \/ FinishBody
    \/ Unexpected \/ Accept \/ Reprint

Spec == Init /\ [][Next]_vars
=============================================================================
