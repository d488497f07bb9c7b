------------------------------ MODULE BodyProps ------------------------------
(***************************************************************************)
(* What the stored body keeps, in the terms of the validator's checks, and *)
(* that it behaves as the sequences of Layout.                             *)
(***************************************************************************)
EXTENDS Body

Def == [kind : {"param", "result", "detached"}, of : Nat, index : Nat]

\* Type correctness of the arenas: links, parameters, arguments and targets
\* are of entities handed out, and only live blocks have a terminator
\* (BlockNode, InstNode, ValueNode, Position).
TypeOK ==
    LET handed == 1..arena.values IN
    /\ arena \in [blocks : Block, insts : 0..MaxInsts, values : 0..MaxValues]
    /\ list \in [first : [Block -> 0..arena.insts], last : [Block -> 0..arena.insts],
                 prev : [Inst -> 0..arena.insts], next : [Inst -> 0..arena.insts],
                 block : [Inst -> 0..arena.blocks]]
    /\ live \subseteq 1..arena.blocks
    /\ params \in [Block -> Seq(handed)]
    /\ ended \subseteq live
    /\ edges \in [Block -> Seq([to : 1..arena.blocks, args : Seq(handed)])]
    /\ result \in [Inst -> 0..arena.values]
    /\ def \in [Value -> Def]
    /\ pos \in [where : {"end", "before", "after"}, of : Nat]

\* The validator's check_layout never finds a corrupt list, whatever the order
\* of insertions, moves, removals, splits and compactions: each list is linked
\* both ways, ends at last, holds only what says it is in the block, and
\* nothing that says so is missing (function.rs link_between, unlink; "it never
\* is" corrupt "through the public API", function.rs:169).
ListAccepted(b) ==
    LET w == Walk(b) IN
    /\ \A n \in DOMAIN w :
          /\ list.block[w[n]] = b
          /\ list.prev[w[n]] = IF n = 1 THEN NONE ELSE w[n - 1]
    /\ IsInjective(w)
    /\ list.last[b] = IF w = <<>> THEN NONE ELSE Last(w)
    /\ w # <<>> => list.next[Last(w)] = NONE
LayoutAccepted ==
    /\ \A b \in live : ListAccepted(b)
    /\ Linked = UNION {ToSet(Walk(b)) : b \in live}

\* The validator's check_definitions never finds a definition that disagrees
\* with where the value is listed, and every value that is listed nowhere says
\* that it is detached (builder.rs remove_block_param, detach_inst; ssa.rs
\* remove_params; compact.rs).
Places(v) ==
    {ParamOf(b, k) : b \in {c \in live : v \in ToSet(params[c])},
                     k \in {k \in 1..MaxValues : \E b \in live :
                               k \in DOMAIN params[b] /\ params[b][k] = v}}
    \cup {ResultOf(i) : i \in {j \in Linked : result[j] = v}}
DefinitionsAgree ==
    \A v \in Value : IF Places(v) = {} THEN def[v] = Detached ELSE Places(v) = {def[v]}

\* Each argument of an edge stays with the parameter it was passed for while
\* parameters of the target come and go, blocks are split and the body is
\* renumbered (builder.rs remove_block_param, compact.rs).
EdgesPairUp ==
    \A b, c \in live : \A e \in DOMAIN edges[b] :
        edges[b][e].to = c => IsPrefix(edges[b][e].args, params[c])

\* The insertion point is never stale: what it names is still in the body, so
\* no insertion fails for an earlier removal (builder.rs remove_inst,
\* remove_block, compact; ssa.rs move_inst).
PositionValid == CurrentBlock # NONE

------------------------------------------------------------------------------
\* The refinement: a list is the sequence met walking it, and a position is the
\* gap it inserts into.
PositionIn(w) ==
    CASE pos.where = "end" -> Len(w)
      [] pos.where = "before" -> (CHOOSE n \in DOMAIN w : w[n] = pos.of) - 1
      [] pos.where = "after" -> CHOOSE n \in DOMAIN w : w[n] = pos.of
TargetsOf(b) == [e \in DOMAIN edges[b] |-> edges[b][e].to]


Order == [b \in live |-> Walk(b)]
Goes == [b \in live |-> [ended |-> b \in ended, to |-> TargetsOf(b)]]
Cursor == [block |-> CurrentBlock,
           at |-> IF PositionValid THEN PositionIn(Walk(CurrentBlock)) ELSE 0]

Lists == INSTANCE Layout WITH
    order <- Order, goes <- Goes, cursor <- Cursor,
    insts <- arena.insts, blocks <- arena.blocks

\* A front end cannot tell the linked lists and the three kinds of position
\* from sequences with a gap that insertions fill from the front, nor a
\* compaction from numbering anew in layout order (builder.rs set_position,
\* insert, remove_inst, split_block, compact; ssa.rs move_inst).
ImplementsLayout == Lists!Spec
=============================================================================
