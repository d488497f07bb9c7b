------------------------------ MODULE TextProps ------------------------------
(***************************************************************************)
(* What printing and parsing a module promise (src/src/parse.rs,           *)
(* src/src/print.rs, src/src/module.rs).                                   *)
(***************************************************************************)
EXTENDS Text

Bodies(mod) == {mod.funcs[i].body[1] : i \in {j \in DOMAIN mod.funcs : mod.funcs[j].body # NoBody}}
TermsOf(f) == {f.blocks[b].term[1] : b \in {c \in LiveBlocks(f) : f.blocks[c].term # <<>>}}
InstsOf(f) == UNION {Range(f.blocks[b].insts) : b \in LiveBlocks(f)}
OpsOf(f) == {f.insts[i].data : i \in InstsOf(f)} \cup {t.data : t \in TermsOf(f)}
EdgesOf(f) == UNION {Range(t.edges) : t \in TermsOf(f)}

\* The ids defined in a body, and those its operands resolve to.
DefinedIn(f) ==
    (UNION {Range(f.blocks[b].params) : b \in LiveBlocks(f)})
      \cup UNION {Range(f.insts[i].results) : i \in InstsOf(f)}
ReadIn(f) ==
    {Resolve(f, v) : v \in (UNION {ArgRefs(t.edges) : t \in TermsOf(f)})
                             \cup UNION {Range(d.vals) \cup Range(d.gc) : d \in OpsOf(f)}}

------------------------------------------------------------------------------
(***************************************************************************)
(* What reading a printed body back gives, said without the parser: the    *)
(* instructions that are placed, numbered in the order they are printed,   *)
(* operands resolved, and the values and blocks that are defined under     *)
(* their own ids.                                                          *)
(***************************************************************************)
PrintedInsts(f) == FlattenSeq([k \in DOMAIN PrintOrder(f) |-> f.blocks[PrintOrder(f)[k]].insts])
ReadBackData(f, data) ==
    [data EXCEPT !.vals = Resolved(f, @), !.gc = Resolved(f, @)]
ReadBackTerm(f, t) ==
    [t EXCEPT !.data = ReadBackData(f, @), !.edges = [k \in DOMAIN @ |-> WriteDest(f, @[k])]]

ReadBack(f) ==
    LET order == PrintedInsts(f)
        new(i) == CHOOSE k \in DOMAIN order : order[k] = i
        insts == [k \in 0 .. Len(order) - 1 |->
                    [data |-> ReadBackData(f, f.insts[order[k + 1]].data),
                     results |-> f.insts[order[k + 1]].results]]
        live == LiveBlocks(f)
        block(b) == IF b \notin live THEN BlankBlock
                    ELSE [f.blocks[b] EXCEPT
                            !.insts = [k \in DOMAIN @ |-> new(@[k]) - 1],
                            !.term = [k \in DOMAIN @ |-> ReadBackTerm(f, @[k])]]
        def(v) == LET d == f.values[v].def
                  IN  IF d.kind = "result" THEN ResultOf(new(d.at) - 1, d.index) ELSE d
        value(v) == IF v \notin DefinedIn(f) THEN BlankValue
                    ELSE [ty |-> f.values[v].ty, def |-> def(v), alias |-> NoId]
    IN  [slots |-> f.slots, insts |-> insts,
         values |-> [v \in 0 .. Max(DefinedIn(f) \cup {-1}) |-> value(v)],
         blocks |-> [b \in 0 .. Max(live \cup {-1}) |-> block(b)],
         entry |-> IF f.entry \in live THEN f.entry ELSE Min(live \cup {Max(live \cup {0})})]
ReadBackModule(mod) ==
    [mod EXCEPT !.funcs = [i \in DOMAIN @ |->
        [@[i] EXCEPT !.body = [k \in DOMAIN @ |-> ReadBack(@[k])]]]]

\* The ids a body's text names.
IdsIn(f) ==
    DefinedIn(f) \cup ReadIn(f) \cup LiveBlocks(f) \cup 0 .. f.slots - 1
      \cup {e.block : e \in EdgesOf(f)} \cup {d.id : d \in OpsOf(f)}
IdsOf(mod) ==
    (UNION {IdsIn(f) : f \in Bodies(mod)}) \cup DOMAIN mod.sigs \cup DOMAIN mod.aggs

\* Nothing that is removed is named, and the ids stay below what a text of that length
\* may use: what the parser asks of a text.
Readable(mod) ==
    /\ \A f \in Bodies(mod) : ReadIn(f) \subseteq DefinedIn(f)
                              /\ {e.block : e \in EdgesOf(f)} \subseteq LiveBlocks(f)
    /\ WithinCap(IdsOf(mod))
    /\ Len(doc) <= MaxLines

(***************************************************************************)
(* A module that is printed reads back as the same module: "the printer's  *)
(* output parses back to the same module" (docs/API.md), under the ids it  *)
(* had but for the instructions', which the text does not carry.  It must  *)
(* hold whatever the module went through before: removed blocks and        *)
(* values, forwarded operands, an entry that is not the first block,       *)
(* symbols used before they are declared, constants wider than their type. *)
(* A module with an operand that is not defined, or ids too large for its  *)
(* length, is refused.                                                     *)
(***************************************************************************)
RoundTrips ==
    from.printed =>
        /\ phase = "accepted" => Readable(from.source) /\ m = ReadBackModule(from.source)
        /\ phase = "refused" => ~Readable(from.source)

(***************************************************************************)
(* Whatever the text, what is accepted says what was written, no line of   *)
(* it less or more: printed again it has the same declarations, and every  *)
(* block, in the function it was written in, the same lines in the same    *)
(* order, but that a constant may be written in another form.  Forward     *)
(* references, the two passes over the symbols and the second pass over    *)
(* the ids (Parser::prescan, Parser::finish_body) could each bind a name   *)
(* to something else.                                                      *)
(***************************************************************************)
Normal(line) ==
    IF line.kind # "inst" \/ line.text.op # "const" THEN line
    ELSE LET ty == line.results[1].ty
         IN  [line EXCEPT !.text.lit = WriteConst(ty, ConstBits(ty, @))]

\* A line that opens something with the instructions and the terminator under
\* it, and the function it is in.
Opening(d) == {k \in DOMAIN d : k = 1 \/ d[k].kind \notin {"inst", "term"}}
Section(d, k) ==
    LET end == Min({j \in Opening(d) : j > k} \cup {Len(d) + 1}) - 1
        funcs == {j \in 1 .. k : d[j].kind = "func"}
    IN  [func |-> IF d[k].kind \in {"block", "slot"} THEN <<d[Max(funcs)]>> ELSE <<>>,
         lines |-> SubSeq(d, k, end)]
Sections(d) == [k \in Opening(d) |-> Section(d, k)]
Occurrences(d) == [l \in Range(d) |-> Cardinality({k \in DOMAIN d : d[k] = l})]
AcceptedAsWritten ==
    phase = "accepted" =>
        Occurrences(Sections(Printed(m)))
          = Occurrences(Sections([k \in DOMAIN doc |-> Normal(doc[k])]))

(***************************************************************************)
(* Every operand of an accepted body is defined in it and every edge goes  *)
(* to a block of it (Parser::finish_body), and relocations and calls name  *)
(* what is declared: Parser::prescan gives a name the handle its           *)
(* declaration gets later.                                                 *)
(***************************************************************************)
AcceptedResolves ==
    phase = "accepted" =>
        /\ \A f \in Bodies(m) :
              /\ ReadIn(f) \subseteq DefinedIn(f)
              /\ \A e \in EdgesOf(f) : e.block \in LiveBlocks(f)
              /\ \A d \in OpsOf(f) : d.sym.kind = "func" => d.sym.id \in DOMAIN m.funcs
              /\ \A d \in OpsOf(f) : d.sym.kind = "global" => d.sym.id \in DOMAIN m.globals
        /\ ValidDecls(m)

(***************************************************************************)
(* The layout of every aggregate: its parts are where their alignment      *)
(* wants them (unless it is packed), in order, apart, inside it, and its   *)
(* size keeps an array of it aligned (Decls::compute_layout).              *)
(***************************************************************************)
LayoutSound(i) ==
    LET a == m.aggs[i]
        part(k) == LayoutOf(m.aggs, a.agg.fields[k])
    IN  /\ a.layout.size <= MaxAggregateSize
        /\ a.layout.size % a.layout.align = 0
        /\ a.agg.kind = "struct" =>
              \A k \in DOMAIN a.agg.fields :
                 /\ ~a.agg.packed => a.offsets[k] % part(k).align = 0
                 /\ ~a.agg.packed => a.layout.align % part(k).align = 0
                 /\ a.offsets[k] + part(k).size <= a.layout.size
                 /\ \A j \in 1 .. k - 1 : a.offsets[j] + part(j).size <= a.offsets[k]
LayoutsSound == \A i \in DOMAIN m.aggs : LayoutSound(i)

(***************************************************************************)
(* What src/src/parse.rs says of parse: "`parse(&m.to_string())`           *)
(* reproduces `m` with the same handles".                                  *)
(***************************************************************************)
HandlesKept ==
    from.printed /\ phase = "accepted" =>
        \A i \in DOMAIN m.funcs : m.funcs[i].body # NoBody =>
            LET f == m.funcs[i].body[1]
                g == from.source.funcs[i].body[1]
            IN  \A b \in LiveBlocks(f) : f.blocks[b].insts = g.blocks[b].insts
=============================================================================
