------------------------------- MODULE MCText -------------------------------
(***************************************************************************)
(* The texts of the runs: modules made by the declarations of Decls, with  *)
(* bodies as a builder leaves them, printed, and texts one edit away from  *)
(* those.                                                                  *)
(***************************************************************************)
EXTENDS TextProps

Data(op, vals) ==
    [op |-> op, vals |-> vals, gc |-> <<>>, ty |-> NoType, bits |-> 0, sym |-> NoSym, id |-> NoId]
Made(op, ty, vals) == [Data(op, vals) EXCEPT !.ty = ty]
Constant(ty, bits) == [Made("const", ty, <<>>) EXCEPT !.bits = bits]
Naming(op, sym, vals) == [Data(op, vals) EXCEPT !.sym = sym]
Inst(data, results) == [data |-> data, results |-> results]

Value(n) == [kind |-> "value", n |-> n]
Edge(b, args) == [block |-> b, args |-> args]
Ends(op, vals, edges) == <<[op |-> op, data |-> Data(op, vals), edges |-> edges]>>
Block(params, insts, term) == [live |-> TRUE, params |-> params, insts |-> insts, term |-> term]
From0(s) == [k \in 0 .. Len(s) - 1 |-> s[k + 1]]
Param(ty, b, k) == [ty |-> ty, def |-> ParamOf(b, k), alias |-> NoId]
Result(ty, i, k) == [ty |-> ty, def |-> ResultOf(i, k), alias |-> NoId]

Body(slots, values, blocks, insts, entry) ==
    [slots |-> slots, values |-> From0(values), blocks |-> From0(blocks),
     insts |-> From0(insts), entry |-> entry]

\* A loop around a call, with an address of each kind, a check and an invoke.
Loop ==
    Body(1,
      <<Param("i_word", 0, 0), Result("u_narrow", 0, 0), Param("u_narrow", 1, 0),
        Result("bool", 1, 0), Result("ptr", 1, 1), Param("i_word", 2, 0)>>,
      <<Block(<<0>>, <<0>>, Ends("jump", <<>>, <<Edge(1, <<Value(1)>>)>>)),
        Block(<<2>>, <<1>>, Ends("br", <<3>>, <<Edge(1, <<Value(2)>>), Edge(2, <<Value(0)>>)>>)),
        Block(<<5>>, <<2>>, Ends("ret", <<5>>, <<>>))>>,
      <<Inst(Constant("u_narrow", 5), <<1>>),
        Inst([Naming("call", FuncRef(1), <<2>>) EXCEPT !.gc = <<4>>], <<3, 4>>),
        Inst(Data("store", <<0, 5>>), <<>>)>>,
      0)

\* A block is gone and so is the value that is forwarded; the instructions are not in
\* the order they were made; the operation of a check names its type.
Rewritten ==
    Body(0,
      <<Param("i_word", 0, 0), [Result("i_word", 0, 0) EXCEPT !.alias = 0],
        Result("i_narrow", 2, 0), Param("i_narrow", 2, 0), Result("ptr", 3, 0),
        [BlankValue EXCEPT !.alias = 1]>>,
      <<Block(<<0>>, <<3, 2>>,
              <<[op |-> "check", data |-> Made("convert", "i_narrow", <<5>>),
                 edges |-> <<Edge(2, <<[kind |-> "res", n |-> 0]>>),
                             Edge(3, <<[kind |-> "err", n |-> 0]>>)>>]>>),
        BlankBlock,
        Block(<<3>>, <<1>>, <<>>),
        Block(<<>>, <<>>, <<[op |-> "invoke", data |-> Naming("call", FuncRef(0), <<2>>),
                             edges |-> <<Edge(2, <<Value(2)>>), Edge(2, <<Value(3)>>)>>]>>)>>,
      <<Inst(Data("plain", <<0>>), <<1>>), Inst(Data("plain", <<1, 3>>), <<>>),
        Inst(Made("convert", "i_narrow", <<5>>), <<2>>),
        Inst(Naming("global_addr", GlobalRef(1), <<>>), <<4>>)>>,
      0)

\* As a parsed text can leave it: the entry is not the first block, and there are ids
\* nothing defines.
Sparse ==
    Body(0,
      <<BlankValue, BlankValue, Param("ptr", 2, 0), Result("ptr", 0, 0)>>,
      <<Block(<<>>, <<>>, Ends("jump", <<>>, <<Edge(2, <<Value(3)>>)>>)),
        BlankBlock,
        Block(<<2>>, <<0>>, Ends("jump", <<>>, <<Edge(0, <<>>)>>))>>,
      <<Inst([Made("load", "ptr", <<2>>) EXCEPT !.id = NoId], <<3>>)>>,
      2)

\* An operand whose definition was removed, an edge to a removed block, no block at all.
Dangling == [Sparse EXCEPT !.blocks[0] = BlankBlock]
Undefined == [Sparse EXCEPT !.blocks[2].insts = <<>>]
Bare == [Sparse EXCEPT !.blocks = Empty, !.insts = Empty]
\* One instruction late in the life of a function.
Late(n) ==
    [Bare EXCEPT !.blocks = From0(<<Block(<<>>, <<0>>, <<>>)>>),
                 !.values = [v \in 0 .. n |-> IF v = n THEN Result("ptr", 0, 0) ELSE BlankValue],
                 !.insts = From0(<<Inst(Constant("ptr", 1), <<n>>)>>)]
Only(ty, bits) ==
    [Late(0) EXCEPT !.values[0].ty = ty, !.insts[0].data = Constant(ty, bits)]

------------------------------------------------------------------------------
Then(d, Declaration(_)) == IF d.err = None THEN Declaration(d.m) ELSE d

Global(name, size, relocs) ==
    [name |-> name, linkage |-> "export", size |-> size, align |-> 2, init |-> Zeroed,
     relocs |-> relocs]
Reloc(offset, target) == [offset |-> offset, target |-> target]

\* Two globals that point at each other and at a function declared after them.
Symbols ==
    Then(Then(Then(Then(Then(
      DeclareGlobal(NewModule, Global("g", 4, <<Reloc(0, GlobalRef(1)), Reloc(2, FuncRef(1))>>)),
      LAMBDA x : DeclareGlobal(x, Global("k", 2, <<Reloc(0, GlobalRef(0))>>))),
      LAMBDA x : InternSignature(x, "unused")),
      LAMBDA x : DeclareFunction(x, "main", "s", "export")),
      LAMBDA x : DeclareFunction(x, "ext", "t", "import")),
      LAMBDA x : DeclareFunction(x, "last", "s", "local")).m
With(body, f) == Build(Symbols, f, body).m

\* Structs and arrays of one another.
Aggregates ==
    Then(Then(Then(
      DeclareAggregate(NewModule, Struct(<<Scalar(1), Scalar(4), Scalar(2)>>, FALSE)),
      LAMBDA x : DeclareAggregate(x, Struct(<<Scalar(1), AggType(0), Scalar(2)>>, TRUE))),
      LAMBDA x : DeclareAggregate(x, Array(AggType(1), 2))),
      LAMBDA x : DeclareAggregate(x, Struct(<<AggType(2), Scalar(1), AggType(0)>>, FALSE))).m

Everything == DeclareAggregate(Build(With(Rewritten, 2), 0, Loop).m, Array(Scalar(4), 3)).m
WithBodies == {Build(With(Rewritten, 2), 0, Loop).m, With(Sparse, 0)}
Modules ==
    WithBodies \cup {NewModule, Symbols, Aggregates}
      \cup {Everything} \cup {With(f, 0) : f \in {Bare, Dangling, Undefined} \cup {Late(n) : n \in {1, MaxId, MaxId + 1}}}
      \cup {Build(DeclareFunction(NewModule, "f", "s", "local").m, 0, Late(MaxId)).m}
      \cup {Build(DeclareFunction(NewModule, "f", "s", "local").m, 0, Only(ty, bits)).m :
               ty \in {"bool", "ptr"} \cup Signed \cup Unsigned \cup Floats, bits \in Words}

------------------------------------------------------------------------------
Dropped(d) == {RemoveAt(d, k) : k \in DOMAIN d}
Repeated(d) == {InsertAt(d, k, d[k]) : k \in DOMAIN d}
Swapped(d) == {[d EXCEPT ![k] = d[k + 1], ![k + 1] = d[k]] : k \in 1 .. Len(d) - 1}
Spoilt(d) == {Append(d, [kind |-> "junk"])}

Kinds(d, kinds) == {k \in DOMAIN d : d[k].kind \in kinds}
SomeIds == {0, 1, 2, MaxId, MaxId + 1}
Renumbered(d) ==
    {[d EXCEPT ![k].id = n] : k \in Kinds(d, {"type", "sig", "slot", "block", "func"}), n \in SomeIds}
      \cup {[d EXCEPT ![k].results[1].id = n] :
              k \in {j \in Kinds(d, {"inst"}) : d[j].results # <<>>}, n \in SomeIds}
      \cup {[d EXCEPT ![k].text.vals[1] = n] :
              k \in {j \in Kinds(d, {"inst", "term"}) : d[j].text.vals # <<>>}, n \in SomeIds}
      \cup {[d EXCEPT ![k].edges[1].block = n] :
              k \in {j \in Kinds(d, {"term"}) : d[j].edges # <<>>}, n \in SomeIds}
Renamed(d) ==
    {[d EXCEPT ![k].name = n] : k \in Kinds(d, {"func"}), n \in {"g", "ext", "other", ""}}
      \cup {[d EXCEPT ![k].text.name = n] :
              k \in {j \in Kinds(d, {"inst", "term"}) : NamesSymbol(d[j].text.op)},
              n \in {"g", "k", "last", "other"}}
      \cup {[d EXCEPT ![k].decl.relocs[1].name = n] :
              k \in {j \in Kinds(d, {"global"}) : d[j].decl.relocs # <<>>}, n \in {"k", "last", "other"}}
Untyped(d) ==
    {[d EXCEPT ![k].results = <<>>] : k \in {j \in Kinds(d, {"inst"}) : d[j].results # <<>>}}
Retyped(d) ==
    {[d EXCEPT ![k].results[1].ty = ty] :
       k \in {j \in Kinds(d, {"inst"}) : d[j].results # <<>>}, ty \in {"ptr", "i_narrow"}}
Misplaced(d) ==
    {[d EXCEPT ![k].results[2].id = n] :
       k \in {j \in Kinds(d, {"inst"}) : Len(d[j].results) > 1}, n \in SomeIds}
Resized(d) ==
    {[d EXCEPT ![k].decl.size = n] : k \in Kinds(d, {"global"}), n \in {0, 3}}
      \cup {[d EXCEPT ![k].decl.align = n] : k \in Kinds(d, {"global"}), n \in {0, 3, 4, 8}}
      \cup {[d EXCEPT ![k].decl.init = n] : k \in Kinds(d, {"global"}), n \in {2, 4}}
      \cup {[d EXCEPT ![k].agg = Array(AggType(t), n)] :
              k \in {j \in Kinds(d, {"type"}) : d[j].agg.kind = "array"}, t \in 0 .. 3, n \in {0, 2, 9}}
Emptied(d) == {[d EXCEPT ![k].body = ~@] : k \in Kinds(d, {"func"})}

Edited(d) ==
    Dropped(d) \cup Repeated(d) \cup Swapped(d) \cup Spoilt(d) \cup Renumbered(d)
      \cup Renamed(d) \cup Untyped(d) \cup Retyped(d) \cup Misplaced(d) \cup Resized(d) \cup Emptied(d)

PrintedTexts == {[doc |-> Printed(x), printed |-> TRUE, source |-> x] : x \in Modules}
EditedTexts ==
    UNION {{[doc |-> d, printed |-> FALSE, source |-> NewModule] : d \in Edited(Printed(x))} :
             x \in WithBodies \cup {Symbols, Aggregates, Everything}}
AllTexts == PrintedTexts \cup EditedTexts
=============================================================================
