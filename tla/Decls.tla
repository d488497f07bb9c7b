-------------------------------- MODULE Decls --------------------------------
(***************************************************************************)
(* The declarations of a module (src/src/module.rs, src/src/types.rs):     *)
(* signatures, which are interned; aggregates, whose layout is computed    *)
(* when they are declared and may name earlier aggregates only; globals    *)
(* and functions, which share one name space.  Handles are positions, from *)
(* 0 as in the code: a table is a function on 0 .. n - 1.                  *)
(*                                                                         *)
(* A declaration either returns the module with the new entry or leaves    *)
(* the module alone and returns an error: [err, m], where err is None when *)
(* it succeeded.                                                           *)
(***************************************************************************)
EXTENDS Integers, FiniteSets, SequencesExt

CONSTANTS MaxAggregateSize,  \* MAX_AGGREGATE_SIZE
          MaxEntities,       \* MAX_ENTITIES, for every kind of declaration
          MaxAlign,          \* Global::MAX_ALIGN
          PtrBytes           \* the size of a pointer, and so of a relocation

ASSUME DeclsAssumption ==
    {MaxAggregateSize, MaxEntities, MaxAlign, PtrBytes} \subseteq Nat \ {0}

None == "none"
NoId == -1
Empty == [i \in {} |-> 0]

\* Tables, and the place of an entry.
Count(t) == Cardinality(DOMAIN t)
Push(t, x) == [i \in 0 .. Count(t) |-> IF i = Count(t) THEN x ELSE t[i]]
IdOf(t, Test(_)) == IF \E i \in DOMAIN t : Test(t[i]) THEN CHOOSE i \in DOMAIN t : Test(t[i]) ELSE NoId

\* Module::with_pointer_width: funcs[i] is [name, sig, linkage, body], where body is
\* NoBody or a sequence of the one body.
NewModule == [sigs |-> Empty, aggs |-> Empty, globals |-> Empty, funcs |-> Empty]

Done(m) == [err |-> None, m |-> m]
Fault(err, m) == [err |-> err, m |-> m]

\* next_index: whether table t takes one more entry.
HasRoom(t) == Count(t) < MaxEntities

------------------------------------------------------------------------------
(* Signatures. *)

\* Module::intern_signature: an equal one is found again.
SigId(m, sig) == IdOf(m.sigs, LAMBDA s : s = sig)
InternSignature(m, sig) ==
    IF SigId(m, sig) # NoId THEN Done(m)
    ELSE IF HasRoom(m.sigs) THEN Done([m EXCEPT !.sigs = Push(@, sig)])
    ELSE Fault("capacity", m)

------------------------------------------------------------------------------
(***************************************************************************)
(* Aggregates.  A memory type is [agg |-> NoId, size |-> s] for a scalar   *)
(* of s bytes, or [agg |-> t, size |-> 0].  An aggregate is                *)
(* [kind |-> "struct", fields, packed] or [kind |-> "array", elem, len].   *)
(***************************************************************************)
Scalar(size) == [agg |-> NoId, size |-> size]
AggType(t) == [agg |-> t, size |-> 0]
Struct(fields, packed) == [kind |-> "struct", fields |-> fields, packed |-> packed]
Array(elem, len) == [kind |-> "array", elem |-> elem, len |-> len]
\* Type::size
ScalarSizes == {1, 2, 4, 8}
IsMemType(t) == t.agg \in Nat \/ (t.agg = NoId /\ t.size \in ScalarSizes)
MemTypes(agg) == IF agg.kind = "struct" THEN Range(agg.fields) ELSE {agg.elem}

IsAggregate(agg) ==
    /\ \/ agg.kind = "struct" /\ agg.fields \in Seq(Range(agg.fields)) /\ agg.packed \in BOOLEAN
       \/ agg.kind = "array" /\ agg.len \in Nat
    /\ \A t \in MemTypes(agg) : IsMemType(t)

RoundUp(value, align) ==
    IF value % align = 0 THEN value ELSE value + (align - (value % align))

\* Decls::layout: a scalar is aligned to its size.
LayoutOf(aggs, t) ==
    IF t.agg = NoId THEN [size |-> t.size, align |-> t.size] ELSE aggs[t.agg].layout

\* One field of a struct: where it starts, and the size and alignment so far.
PlaceFieldLastAlign(packed, s, l) ==
    LET start == IF packed THEN s.size ELSE RoundUp(s.size, l.align)
    IN  [size |-> start + l.size, align |-> IF packed THEN 1 ELSE l.align,
         offsets |-> Append(s.offsets, start)]
PlaceField(packed, s, l) ==
    LET start == IF packed THEN s.size ELSE RoundUp(s.size, l.align)
        align == IF packed \/ l.align < s.align THEN s.align ELSE l.align
    IN  [size |-> start + l.size, align |-> align, offsets |-> Append(s.offsets, start)]

\* The fields one after the other, from their layouts.
Placed(packed, layouts) ==
    LET place[k \in 0 .. Len(layouts)] ==
            IF k = 0 THEN [size |-> 0, align |-> 1, offsets |-> <<>>]
            ELSE PlaceField(packed, place[k - 1], layouts[k])
    IN  place[Len(layouts)]
StructLayout(aggs, agg) ==
    LET end == Placed(agg.packed, [k \in DOMAIN agg.fields |-> LayoutOf(aggs, agg.fields[k])])
    IN  IF agg.packed THEN end ELSE [end EXCEPT !.size = RoundUp(@, end.align)]

\* Decls::compute_layout, when every aggregate named is known.
ComputeLayout(aggs, agg) ==
    IF agg.kind = "struct" THEN StructLayout(aggs, agg)
    ELSE LET l == LayoutOf(aggs, agg.elem)
         IN  [size |-> l.size * agg.len, align |-> l.align, offsets |-> <<>>]

\* Module::declare_aggregate: only aggregates declared before are known to it.
DeclareAggregate(m, agg) ==
    IF ~HasRoom(m.aggs) THEN Fault("capacity", m)
    ELSE IF \E t \in MemTypes(agg) : t.agg \notin DOMAIN m.aggs \cup {NoId}
         THEN Fault("unknown aggregate", m)
    ELSE LET l == ComputeLayout(m.aggs, agg)
         IN  IF l.size > MaxAggregateSize THEN Fault("too large", m)
             ELSE Done([m EXCEPT !.aggs =
                     Push(@, [agg |-> agg, offsets |-> l.offsets,
                              layout |-> [size |-> l.size, align |-> l.align]])])

------------------------------------------------------------------------------
(***************************************************************************)
(* Symbols.  A global is [name, linkage, size, align, init, relocs], where *)
(* init is Zeroed or a number of bytes and a relocation is                *)
(* [offset, target]; a target is [kind |-> "func" or "global", id].        *)
(***************************************************************************)
Zeroed == -1
FuncRef(id) == [kind |-> "func", id |-> id]
GlobalRef(id) == [kind |-> "global", id |-> id]
IsGlobal(g) == DOMAIN g = {"name", "linkage", "size", "align", "init", "relocs"}

\* Module::claim_name: None when the name is free.
ClaimName(m, name) ==
    IF name = "" THEN "empty name"
    ELSE IF \E f \in DOMAIN m.funcs : m.funcs[f].name = name THEN "duplicate name"
    ELSE IF \E g \in DOMAIN m.globals : m.globals[g].name = name THEN "duplicate name"
    ELSE None

\* module::valid_align
ValidAlign(align) == align # 0 /\ align <= MaxAlign /\ \E k \in 0 .. align : 2 ^ k = align

\* module::check_global
CheckGlobal(g) ==
    IF ~ValidAlign(g.align) THEN "bad alignment"
    ELSE IF g.linkage = "import" /\ (g.init # Zeroed \/ g.relocs # <<>>) THEN "import with data"
    ELSE IF g.init \notin {Zeroed, g.size} THEN "size mismatch"
    ELSE IF \E r \in Range(g.relocs) : r.offset + PtrBytes > g.size THEN "reloc out of range"
    ELSE None

\* Module::declare_global: a relocation's target need not be declared yet.
DeclareGlobal(m, g) ==
    IF ClaimName(m, g.name) # None THEN Fault(ClaimName(m, g.name), m)
    ELSE IF CheckGlobal(g) # None THEN Fault(CheckGlobal(g), m)
    ELSE IF ~HasRoom(m.globals) THEN Fault("capacity", m)
    ELSE Done([m EXCEPT !.globals = Push(@, g)])

\* Module::declare_function: with no body yet.
NoBody == <<>>
DeclareFunction(m, name, sig, linkage) ==
    IF ClaimName(m, name) # None THEN Fault(ClaimName(m, name), m)
    ELSE IF ~HasRoom(m.funcs) THEN Fault("capacity", m)
    ELSE LET interned == InternSignature(m, sig)
         IN  IF interned.err # None THEN interned
             ELSE Done([interned.m EXCEPT !.funcs =
                     Push(@, [name |-> name, sig |-> SigId(interned.m, sig),
                              linkage |-> linkage, body |-> NoBody])])

\* Module::set_body, and what Module::build asks before it puts an empty body there.
SetBody(m, f, body) == IF f \in DOMAIN m.funcs THEN [m EXCEPT !.funcs[f].body = <<body>>] ELSE m
Build(m, f, body) ==
    IF f \notin DOMAIN m.funcs THEN Fault("unknown function", m)
    ELSE IF m.funcs[f].linkage = "import" THEN Fault("import", m)
    ELSE IF m.funcs[f].body # NoBody THEN Fault("already defined", m)
    ELSE Done(SetBody(m, f, body))

------------------------------------------------------------------------------
(* validate::validate_decls, for a module of entries put in by hand or by text. *)
ValidDecls(m) ==
    /\ \A f, g \in DOMAIN m.funcs : f # g => m.funcs[f].name # m.funcs[g].name
    /\ \A f, g \in DOMAIN m.globals : f # g => m.globals[f].name # m.globals[g].name
    /\ \A f \in DOMAIN m.funcs, g \in DOMAIN m.globals : m.funcs[f].name # m.globals[g].name
    /\ \A i \in DOMAIN m.aggs :
          /\ \A t \in MemTypes(m.aggs[i].agg) : t.agg < i
          /\ LET l == ComputeLayout(m.aggs, m.aggs[i].agg)
             IN  /\ l.size <= MaxAggregateSize
                 /\ m.aggs[i] = [agg |-> m.aggs[i].agg, offsets |-> l.offsets,
                                 layout |-> [size |-> l.size, align |-> l.align]]
    /\ \A i \in DOMAIN m.globals :
          /\ CheckGlobal(m.globals[i]) = None
          /\ \A r \in Range(m.globals[i].relocs) :
                IF r.target.kind = "func" THEN r.target.id \in DOMAIN m.funcs
                ELSE r.target.id \in DOMAIN m.globals
=============================================================================
