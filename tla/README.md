# ir-lang in TLA+

ir-lang is a Rust library for a typed SSA intermediate representation: a module of
declarations and function bodies, a builder with on-the-fly SSA construction, a validator,
statepoint insertion for precise garbage collection, compaction, a reference interpreter, and
a text format. It is single threaded throughout. What is hard in it is therefore not
concurrency but *order*: a front end may make the builder's calls in any order the API allows
(blocks filled, terminated and sealed, edges taken off, values rewritten, while variables are
still being read), and an interpreted program may nest calls, tail calls, exceptions and
safepoints to any depth. The specifications here explore those orders.

Source references are to `src/src/`, the crate's Rust source.

## 1. Inventory

| Component | Source | State | Operations | What makes it correct |
|---|---|---|---|---|
| SSA construction | `ssa.rs`, driven from `builder.rs` | variable definitions per block, predecessor lists, sealed blocks, pending parameters, completion stack | `declare_var`, `def_var`, `use_var`, `seal_block`, `seal_all_blocks`; hooks in `set_terminator`, `remove_terminator`, `remove_block` | every edge passes the predecessor's value of the variable; what a block reads is what all its predecessors end with; no parameter is trivial at the end; every call returns |
| Function body store | `function.rs`, `entity.rs` | arenas of blocks, values and instructions; linked instruction lists; forwarding (`resolve`) | append, link, unlink, forward, walk | lists and arenas agree; forwarding is acyclic |
| Builder | `builder.rs` | current position; the body under construction | insertion at a position, terminators, removal, replacement, `split_block`, `replace_all_uses` | a refused call changes nothing; positions stay valid |
| Compaction | `compact.rs` | a renumbering | `compact` | the result is the same function |
| Statepoint insertion | `statepoint.rs` | liveness sets, per-value repair state, a backup of the function | `insert_statepoints` | every reference used after a safepoint is the relocated one; on failure the function is as it was; the call returns |
| Validator | `validate/mod.rs`, `dom.rs`, `gc.rs`, `typing.rs` | dominator tree, liveness of references | `validate` | accepts exactly what the rules say; dominators and liveness are those of the path definitions |
| Interpreter: frames | `interp/exec.rs` | frame stack, what each frame waits for, stack pointer, fuel | `call`, the instruction loop, `deliver` | results reach the frame that waits; the stack nests; every call ends |
| Interpreter: references | `interp/mod.rs` | object table, epoch | `alloc_object`, encode, decode, new epoch | a reference that is current decodes to its object; an old one is refused |
| Interpreter: memory | `interp/mod.rs`, `interp/exec.rs` | two growing buffers, end of the stack, start of the heap | `with_limits`, `alloc`, `push_frame`, loads, stores, atomics, copies | it is one flat array of bytes; what is given out never overlaps |
| Operations on scalars | `interp/mod.rs`, `ops.rs`, `typing.rs` | registers of a frame | unary, binary, comparison, conversion; the check terminator | the documented results; errors only where a check is |
| Declarations | `module.rs`, `types.rs` | symbol, signature and aggregate tables | declare, define, look up, lay out | names are unique; layouts do not overlap |
| Text format | `parse.rs`, `print.rs` | the parser's tables of names and ids, the body being read | parse, print | round trip; an accepted text is the module it says |

**Interactions.** A `Builder` borrows one `Function` and, while construction is on, owns an
`SsaState`. `set_terminator` first lets the construction complete the new edges (which can
read variables, add parameters to *other* blocks and complete *their* edges), then type checks,
then installs the terminator and registers its edges. `seal_all_blocks` and statepoint
insertion rewrite arguments and parameters of the whole function; statepoint insertion asks the
validator before it starts and once it is done, and puts the function back when either says no.
The interpreter trusts the validator: what a program may read after a safepoint is decided by
`validate/gc.rs` before it runs, and checked again by `decode_ref` when it does. The host of the
interpreter is a callback that runs inside a call. The parser builds a module by the same
declarations a front end calls, but fills bodies in by hand, ids and all.

**Hard to test.** Listed with their lines in `PROJECT.json` under `hazards`; in short: orders of
construction calls, loops completed while they are read, forwarding followed twice or not far
enough, edits at both sides of an insertion point and on edges that are short, failures in the
middle of a completion or a rewriting, relocated references that meet at joins and loop heads,
liveness at the edges of an invoke, captured-then-minted references across nested
safepoints, tail calls that give a frame's obligations to another frame, errors that leave
frames behind, field widths in a reference, names and ids used before they are declared,
rounding at the ends of integer types and of the address space.

## 2. Modules

| Module | What it is |
|---|---|
| `SsaConstruct`, `SsaConstructProps`, `MCSsa` | SSA construction and the builder calls that feed it; what it promises; control-flow shapes and programs for TLC |
| `Counting`, `CountingProofs` | numbers in ascending order and parts of a sequence; lemmas about them, induction over finite sets and over numbers, loops |
| `SsaProofs` | types, forwarding, predecessor lists and justified equalities; what edges and parameters stand for, strictness, minimality |
| `Layout` | abstract: a body as sequences of instructions with an insertion gap |
| `Body`, `BodyProps`, `MCBody` | the stored body, insertion position, editing calls, compaction; what is kept, and that it implements `Layout`; arena sizes |
| `BodyProofs` | the inductive invariant of the stored body, the properties from it, and that it implements `Layout` |
| `Ir` | a function body as the analyses read it: operands, edges, successors, safepoints |
| `Dominators` | the dominator tree of `validate/dom.rs` |
| `Validate` | the validator of one body, in the order of its checks |
| `Statepoints`, `StatepointProps`, `MCStatepoints` | statepoint insertion; the two functions run side by side, path definitions; functions and graphs for TLC |
| `StatepointProofs` | insertion is all or nothing; the tree of `compute_idoms` is dominance by paths; liveness is what paths take across safepoints |
| `Interp`, `InterpProps`, `MCInterp` | frames, calls, references and epochs of the interpreter; what they keep; register sets |
| `InterpProofs` | frames and nogc under any host; the inductive invariant of references under a host that hands in current ones; types and old references under any host |
| `FlatMemory` | abstract: one byte for each address |
| `Memory`, `MemoryProps`, `MCMemory` | the interpreter's address space and the instructions on it; that it is flat and its areas apart; sizes |
| `MemoryProofs` | the inductive invariant of the address space and both properties from it |
| `Values`, `ValuesProps`, `MCValues` | operations on scalars with their typing rules; what they mean on numbers; widths and floats |
| `ValuesProofs` | bit patterns fit their types; errors come in checks only; edges read first |
| `Decls` | declarations of a module, aggregate layout |
| `Text`, `TextProps`, `MCText` | printer and parser; round trips; modules and edited texts |
| `TextProofs` | the inductive invariant of the reader; layouts are sound; what is accepted is resolved |

`Validate` composes `Dominators` over `Ir`; `Statepoints` composes `Validate`; `Text` composes
`Decls`. `StatepointProps` adds to `Statepoints` an execution of the function given beside the
function made, and `Memory` carries a `FlatMemory` along as history.

### SsaConstruct

A call of the front end (`DefVar`, `UseVar`, `SetTerminator`, `RemoveTerminator`, `RemoveBlock`,
`SealBlock`, `SealAllBlocks`, `ReplaceAllUses`) is enabled when `pc = "idle"`; the steps of
the call (`Internal`) follow at other values of `pc` until it returns:

| Code | Actions |
|---|---|
| `SsaState::read` | `ReadHit`, `ReadThrough`, `ReadNewParam`, `ReadZero`, `ReadFails` (one block of the walk per step) |
| `drain`, `complete` | `DrainPop`, `CompleteRead`, `CompleteNext` |
| `complete_new`, the rest of `set_terminator` | `NewTermWant`, `NewTermRead`, `NewTermPush`, `NewTermInstall`, `NewTermRefuse` |
| `forward_trivial` | `ForwardParam`, `ForwardSkip`, `ForwardDone` |
| `eliminate_trivial`, `remove_params`, `resolve_aliases` | `ElimForward`, `ElimSkip`, `ElimRemove`, `ElimNone` |

`func` is the function as stored, `ssa` the fields of `SsaState`, `job` the locals of the call
in progress, `hist` history for the properties: `incoming` (what a variable was found to be on
entry to a block), `rewrites` (the front end's `replace_all_uses` in force), `failed` (a call
returned `CapacityExceeded`).

Abstractions: one type, so one zero constant; the parameters a block had before construction,
which come first, are left out with their arguments; blocks exist from the start; calls that
are refused outright change nothing and are not actions; the walk's epoch stamps are the set
`rd.chain`; the worklist of `eliminate_trivial` is a set, any member of which may be next (the
code takes one end), so what is shown holds for every order.

### Body and Layout

`Body` has the arenas of `Function` and the builder's position as variables, and one action per
editing call: `SetPosition`, `Insert`, `RemoveInst`, `MoveInst`, `CreateBlock`, `AddBlockParam`,
`RemoveBlockParam`, `RemoveBlockParams`, `RemoveBlock`, `SplitBlock`, `SetTerminator`,
`RemoveTerminator`, `Compact`. `list` holds the links of the instruction lists; `LinkAt`
and `Unlink` are `link_at_end`, `link_before`, `link_after` and `unlink` as functions of it, and an
action composes them as the call does (`SplitBlock` moves one instruction at a time). Nothing runs
between the steps of such a call, so each is one step. `Compact` renumbers everything, keeping
slots for removed blocks that are still led to and detached values that are still passed.

`Layout` knows no handles but instruction and block numbers: a block is a sequence, the insertion
point a gap. `BodyProps` maps a list to the sequence `Walk` meets and a position to the
gap it inserts into. What may legitimately depend on how a gap was named (the
three kinds of position) is a choice in `Layout`: where the gap goes when a block is split just
there, or when the instruction beside it is moved.

Abstractions: every instruction has one result and no operands; the function has no parameters;
a terminator passes each target parameter's own value, so that a value tells which parameter an
argument was meant for (values have one type, so the builder accepts it); edge arguments that are not
values (`res0`, `exn`, `err`), slots, types, forwarding and variable construction are left out.
`Careful` restricts the front end: it calls `remove_block_params` only when the edges
concerned pass all their arguments; section 6 says what happens when it does not.

### Interp

The body of a function is not data. The top frame may execute any instruction or terminator
that the safepoint rules of `validate/gc.rs` allow at that point, so a run of the model is a
run of *some* validated module. `fresh`, in a frame, is the set of registers those rules still
let the code read: a safepoint empties it but for the relocated ones. Each `Machine` action is
an arm of `exec_inst` or `exec_term`, or a step of `deliver` (`Deliver`, `Unwind`, `Finish`);
`Embedder` actions are the calls of the program that owns the interpreter. A host import
(`HostRuns`) returns a new object, its argument or a reference the embedder kept, unwinds, or
fails. Every instruction burns one unit of fuel first (`Burn`), as `step` does.

A reference is a record of its two fields, `hi` (epoch) and `lo` (object number), with two
history fields, the object it was made for and the epoch it was made in; nothing in the code's
part of the model reads those. `Encode` models `encode_ref` with both field widths, the
unmasked object number included.

Memory holds words. `StoreRef` puts an object number into the heap cell, `StoreWord` an integer of
the program's choice (`Words`), and `LoadRef` mints a reference to the object the word numbers or
fails because there is none. `InterpError::StaleRef` stands for two things
(`interp/mod.rs:988-990`), and the model keeps them apart: the outcome `StaleRef` is `decode_ref`
refusing a reference that is used, `NoObject` is `Memory::load` refusing such a word. Any
validated program that stores an integer and loads a `ref` can end in the second.

A call site may say nogc of a callee that is not declared so: `call_attrs` joins the two
(`typing.rs:103-119`), and nothing checks that the callee keeps it. `SiteNogc` says which sites a
program has. Two history variables follow such claims: `claimed`, in a frame, says that the
site that called the function made one (a tail call hands it on, since the callee now answers to
the same caller), and `broken` becomes true when an epoch begins while a claimed frame is on the
stack.

Abstractions: functions take one reference and return one; memory is one heap cell plus the boundary between stack and heap (bytes, growth and addresses are in
`Memory`); an object takes one unit; a frame's slots are one area; an SSA value and its relocated copy share a register; other value types,
arithmetic (`Values`) and indirect targets are left out (a call that is direct and one that is indirect
differ in whose attributes decide the safepoint, which is modelled).

### Ir, Dominators, Validate and Statepoints

A function is one record: blocks with parameters, instructions and terminator, values with type,
definition and forwarding. Operations are kept apart only as far as the safepoint rules tell them
apart. `Dominators` is Cooper, Harvey and Kennedy's iteration as in `dom.rs`, with the depth-first
numbering, the order of meets, the sweeps and the step bound of `intersect`. `Validate` gives a
verdict for each check, in the code's order: entry, forwarding, definitions, types with edges and
GC lists, exception edges and attributes, dominance, derived pointers, escapes, liveness.

`Statepoints` is one call of `insert_statepoints` with a budget, step by step:

| Code | Actions |
|---|---|
| the validator's first verdict, `resolve_aliases` | `Insert` |
| `run`: positions, liveness, the budget | `Liveness` |
| `run`: lists of calls and safepoints, of invokes | `GrowInst`, `GrowInvoke` |
| `Repair::new`, `prescan` | `Prescan` |
| `rewrite`, `rewrite_terminator`, with `entry` and `new_param` inside | `EnterBlock`, `RewriteInst`, `RewriteTerm` |
| `complete`, `edge_value` | `CompletePop`, `CompleteEdge` |
| `eliminate_trivial` | `Eliminate` |
| `remove_params`, the last verdict | `Conclude` |

Every way out but success goes through `Fail`, which restores what
`insert_statepoints_within` restores. `GrowInst` is `insert_before`, `replace_all_uses` and
`remove_inst` together, with what they do to the builder's position: nothing can come between
them. Variable construction, which the call finishes first, is `SsaConstruct`'s; the trivial
parameters are forwarded in any order, the fixpoint of the worklist that `SsaConstruct` models.

`StatepointProps` says what the result is worth without a word about liveness or dominance: it
runs the function given and the function made in lock step over every path. A value holds the
objects it names or was computed from; a safepoint makes everything stale but what it
relocates. `UsesReadCurrent` says that wherever the old function reads an object, the new one
reads the same object, fresh.

Abstractions: types are references and all others; the budget of the model counts what the code's
does (a pair, a parameter), two values of it are tried; a check's guarded operation has one
operand.

### Decls and Text

`Decls` are the declarations as functions from a module to a module and an error: interned
signatures, aggregates that may name earlier ones, layouts computed field by field, globals with
relocations, functions, bodies. `Text` is the printer as a function (`Printed`) and the parser as a
machine that reads a line in each step: `Scan` is `parse_with`'s limits, the lexer and `prescan`;
then `AggregateDecl`, `SigDecl`, `GlobalDecl`, `FuncDecl`, and inside a body `SlotDecl`,
`BlockHeader`, `Instruction`, `Terminator` and `FinishBody`; `Unexpected` refuses a line out of
place, `Accept` ends, and `Reprint` is the caller who prints what it got and reads it again.

A line is a record of what it says. Words, punctuation, spacing, positions in error messages and
operands that name no entity (policies, memory flags, orderings, attributes) are left out; a line
the lexer or the grammar refuses is "junk". Constants keep their width and their forms (decimal,
signed, hexadecimal patterns, named float values), since the parser goes by the type to read them.
A check's conversion keeps its own type; other operations are told apart as far as the parser
tells them apart.

### Memory

`low` and `high` are the two buffers, `sp` and `floor` the ends of stack and heap. `Alloc` is
`Memory::alloc`, `Push` the slots of `push_frame` (which has zeroed some when it fails), `Pop` the
return of a frame, and `Load`, `Store`, `AtomicRmw`, `CmpXchg`, `MemCopy`, `MemSet` the arms of
`exec_inst`, each with its checks of alignment and of `live` and with the choice of the buffer in
`range`. Bytes are bits; a value has one or two of them.

### Values

One step is one operation of a program of two registers: `Execute` and `Compare` the arms of
`exec_inst`, `Check` the check terminator with its two edges, `Jump` an edge that passes
registers to each other. Which operation may come, with which policy and inside or outside a check,
is decided by the typing rules (`UnaryOf`, `BinaryOf`, `ConvertOf`). `ValuesProps` gives the
meaning of each operation on integers, without the algorithms: quotients by the division
equation, powers by repeated multiplication, the IEEE remainder by the nearest even multiple.

Widths are small (`Widths`), the 64 and 128 bits of the code are `Word` and `Wide`, and their
ratios are kept: an exact product fits `Wide`, a power need not. A float is a sign and a
magnitude in halves, with infinity and NaN above them.

## 3. Runs

| Run | Question |
|---|---|
| `ssa_build` | Three programs: a two-block loop with an irreducible entry and a self loop, where a block can lose its terminator or be removed; two arms that meet, one with both edges of a branch into the meeting block, and a way back; two variables assigned from each other in a loop. In every order of calls, do predecessor lists follow the terminators, are sealed edges complete, do they pass final values, are entry values a solution of the graph's equations, are reads dominated, are equalities and assignments kept, and does elimination reach its fixpoint? |
| `ssa_rewrite` | Construction interleaved with `replace_all_uses`, with a cycle no path from the entry reaches. Is forwarding acyclic, are rewrites kept outside elimination, and does every call return? |
| `body_edits` | Every order of edits of a small body. Is the stored body one the validator's structural checks accept, do arguments stay with their parameters, is the position never stale, and do lists and positions implement sequences with a gap? |
| `statepoints` | Loops, an irreducible loop, a diamond with doubled edges and an unreachable block, an invoke in a loop, derived pointers; each with several fillings, all positions of the builder that differ, a budget that suffices and one that does not; and 2 028 control-flow graphs of four blocks. Does every use read the current reference, is failure without trace, is only what must be refused refused, do liveness and dominators agree with paths, and does the call return? |
| `interp_frames` | Three frames deep. Do results reach waiting frames, do stack areas nest, do calls end? The host here hands in references it kept: are old ones refused, and does each safepoint leave current references only? |
| `interp_refs` | Two registers, GC lists, a stored integer, and call sites that claim nogc of any callee. Until such a claim is broken, does what may be read decode to its object, and is no stale reference used? Does an epoch begin under a nogc function only below such a claim? |
| `memory` | Is an address space of twelve bytes, in every order of frames, allocations and three instructions, one flat array, with areas apart? |
| `values` | Are all results those of the mathematics, and do errors come only where a check is? |
| `text` | Modules printed and read back, and texts one edit away from a printed one: every line dropped, doubled or exchanged with the next, ids, names, types and sizes changed. Is an accepted text the module it says? |

Three more runs each show one disagreement between the code and what the repository says of
it; see section 6.

**Bounds.** In `SsaConstruct` the shapes bound the edges, `Capacity` the values: one input, the
zero constant and two parameters (three in the programs with more to read) fill it, so
that `CapacityExceeded` occurs too, at every point where a value is created; the properties
that a failed call voids say so with `failed`. Three blocks are the least that give a loop with two
entries, four a join with a loop back. The `editable` field and the `MaxReplace` bound keep the runs
small: one block to edit, and one rewrite, already meet every pair of a rewrite with
each construction step. In `Interp`, three frames are the least in which an exception passes
a frame that only calls between one that catches and one that throws, and `EpochRange` (2 in
`interp_refs`, 3 in `interp_frames`) is small enough that the epoch field wraps within the fuel of
a run. `FuelLimit` bounds the steps
of *all* calls, as in the code, where fuel is not reset by `call`. `interp_refs` is two frames deep,
enough for a reference to wait below a safepoint; its 3 units of fuel are enough
for a claim to be broken (a claimed call, then a safepoint in it) and for `NoObject` (store an
integer, load it), not for a stale reference to be used after a broken claim, which takes 4;
`NoStaleUseUntilBroken` (section 4) has no such bound. `Words = {2}` is an object number that is not there yet, or is,
as objects are allocated.

In `Body`, `Sizes` bounds the three arenas together: two blocks with three instructions, so that
one is linked in between two others, and three blocks with two instructions, so that a removed
block that is still led to can be followed by a new one. Compaction makes room again, so edits
go on without end within these sizes. One edge per terminator and up to three
parameters on a block already give short edges, edges to the block itself and edges to removed
blocks; the order of several edges in one terminator is not exercised.

In `Statepoints`, `Capacity = 10` leaves room for the parameters of most functions and not of all;
a budget of 2 runs out in liveness or in the repair, one of 20 never. The graphs have four blocks,
which is enough for `intersect` to climb on both sides and for a second sweep to change a
dominator. In `Memory`, `Size = 12` with a guard of 2 and a stack alignment of 2 puts globals, two
frames and an allocation against one another, `Ptrs` has addresses in each area and at
their ends, `Lens = {3}` overlaps, and both buffers grow more than once; three instructions
(`MaxInsts`) are a store, what disturbs it and a load. Misaligned accesses come about in the
atomics. In `Values`, 2 and 4 bits with both signs have all the corner cases of the operations, and
every operand pair is tried. In `Text`, `MaxId` and the cap by length (`IdsPerLine`, `IdSlack`)
are reached from both sides, `MaxLines` and `MaxAggregateSize` too; `MaxEntities` is not.

**Fairness.** `FairSpec` of `SsaConstruct`, `Interp` and `StatepointProps` is weak fairness of the
steps of a call in progress: the library is single threaded and no step waits for anything, so a call
that has begun takes its next step. Nothing is assumed of the front end or the embedder.

**Deadlock** is checked where the front end or the embedder can always go on (`ssa_*`, `body_edits`,
`interp_*`, `memory`). `statepoints`, `text` and `values` model one call, or one program, that comes
to its end, and switch it off.

## 4. What is proved

Every theorem is about `Spec` for every value of the constants that the modules' `ASSUME`s allow;
a hypothesis beyond these is part of the statement.

### Interpreter: `InterpProofs`

Everything here holds for every set of registers, every limit, every field width and any number of
steps.

Part one has no hypothesis: any program the validator accepts, whatever its call sites claim, on any
host. `FramesNest` (`StackNests`): the areas of the frames lie end to end. `FramesAwait`
(`ResultsAreAwaited`): a result, an exception or a running callee finds the frames below waiting.
`NogcCollectsUnderClaimsOnly` (`NogcKeepsEpochUnlessClaimed`): while a function declared nogc is on the stack an epoch begins
only if a frame above it is claimed. Its invariant is `Quiet`: above a frame that waits at a call that is
no safepoint, every function is declared nogc up to the first that a call site claims so. A tail call
replaces a frame, so the new one must be declared nogc or claimed whenever the old one had to be
(`Vouched`), which is where the validator's rule for tail calls is used.

Part two is about references, under `Honest`: the host hands in none from before a safepoint, and
memory holds fewer objects than the object field numbers.

- `InvariantHolds`: `broken \/ IInv`, the invariant until a call site's claim is broken;
- `FreshRefs`: until then, what the safepoint rules let a frame read, at any depth, decodes to the
  object it was made for (`FreshRefsName`);
- `NoStaleUseUntilBroken`: until then, no validated program uses a stale reference (`NoStaleUse`).

Each hypothesis is needed. `interp_frames` has a host that keeps old references, and with it
some calls do end in `StaleRef` (`StaleRefused` is what holds instead). A broken claim lets a
caller read, after a call that was no safepoint for it, a reference from an earlier epoch (section 6).
An object number that outgrows its field spills into the epoch field, since `encode_ref`
(`interp/mod.rs`) masks the epoch but not the number.

`IInv` is stronger than the properties. A frame that waits has captured object numbers, not
references, so it says of a waiting frame that its captured numbers are those of the references in
its list and that what it may read past the call is current *if the call is no safepoint*. That is kept
by a safepoint further up only because none happens further up of a frame that waits at none: by
`Quiet`, one that did would begin an epoch above a claimed frame, and `broken` would be true.
`objects + floor = MemSize` bounds object numbers by the object field. One lemma per action
shows that it keeps `IInv`; `NextOK` combines them.

Part three allows any host and any claims again and assumes only `Fits`, that object numbers fit
their field: a reference then carries the epoch it was made in, modulo the field, wherever it came
from. `AnyHostTyping` (`TypeOK`), `OldRefsRefused` (`StaleRefused`, which is about references fewer
epochs old than the field tells apart, not past its wrap) and `EpochRefreshes`
(`SafepointRefreshes`) follow.

### Memory: `MemoryProofs`

`LiveBytesFlat` (`BytesFlat`) and `AreasStayApart` (`AreasApart`) hold for any sizes, globals, guards,
frames, requests and programs. The invariant `MemInv` orders the areas (guard, globals, stack, heap;
`Ordered`), says that the buffers back them (`Backs`), that the slots of a frame lie between its mark
and the next frame's and allocations apart above the floor (`FramesIn`, `AllocsIn`), and equates
both buffers with the flat memory (`Mirrors`). The properties alone are not inductive: a growing
buffer is right only because the upper one is zero below the heap, where the next allocation will
lie, and because the lower one is read as zero past its end.

### Statepoint insertion, dominators and liveness: `StatepointProofs`

`InsertionIsAllOrNothing` (`RestoredOnFailure`): whatever function it is called on, a call that fails
leaves function and position as they were. Every failing step restores; the invariant adds that
nothing moves once the call has returned.

`TreesHoldDominance` (`TreeIsDominance`): for a control-flow graph of any size and shape, `compute_idoms`
comes to an end, no climb of `intersect` runs out of its budget of steps, and the ancestors of a block
in the tree are the blocks every path to it leads through; a block has none exactly if no path
reaches it. The hypothesis is `ProgramsAssumption` of `Statepoints`: there is an entry block and every listed
edge leads to one of the blocks, which is what `Cfg::of` sees to. The argument, lemma by lemma
(`IdomsAreDominators` puts them together):

- *Numbering.* `SearchFinds`: the explicit stack of the depth-first search holds a path (`StackFits`), what
  has been left is closed but for the stack (`OrderFits`), and the order it leaves lists each
  reachable block once, the entry first, every other block behind some predecessor (`RunsOn`).
  `NumbersFit` turns this into numbers: every reachable block but the entry has a predecessor with a
  greater number. `PredecessorsFound`: `reversed` lists the predecessors.
- *The tree.* In a tree whose parents have greater numbers (`TreeFits`), `Above` is what `Ancestors`
  computes (`AncestorsAbove`), and of two ancestors of one block one is above the other (`AboveInLine`).
- *The climb.* `IntersectMeets`: the two fingers keep their common ancestors, and each step is paid from the
  budget, so they end at the nearest one. `MeetIsAboveAll` is the same for all known predecessors.
- *A pass.* `SweepFits` is the invariant of the iteration. `Keeps`: no dominator is ever lost, as what
  is above all known predecessors includes what dominates the block. `Stands`: the immediate
  dominator of a block is above one of its known predecessors with a greater number, so parents only
  move towards the entry; `Leads`: what is above all known predecessors of a block is above
  its immediate dominator. `Visited` says how far the first pass has come.
- *The end.* A pass that changes anything leaves fewer pairs of a block and a number its parent may still
  take (`Loose`, `Tighter`), so the passes end (`FixpointFound`). Where none changes anything, what is
  above a block is above all its predecessors, hence on every path to it (`SettledIsDominance`).

`LivenessIsByPaths` (`LivenessByPaths`): on every function that `validate_structure` accepts, the pairs of
a safepoint and a reference that the walk of `statepoint.rs` and `gc.rs` finds are those where some
path leads from just behind the safepoint to a use without passing the definition. The
hypothesis is `ProgramsAssumption` again, which also says that blocks list what the arenas hold (`IsBody`).

- *What is valid.* `AllChecksPass`, `TypesFacts`, `ReadsAreValues` and `StructureFits` turn the verdict into
  `ReadsFit`: edges of reachable blocks lead to reachable blocks, and what a reachable block reads is
  a value, defined further up where the block itself defines it. That comes from
  `check_dominance`, whose tree holds each reachable block by `IdomsAreDominators`.
- *Both walks.* The walk back over blocks and the walk onward over points are sets that grow until nothing
  comes to them; `GrowthEnds` (`CountingProofs`) makes each the least set its step does not leave
  (`LiveIntoFacts`, `CrossedFacts`), `PointsFit` keeps the walk onward within the points.
- *Back to onward.* `LiveReads`: the blocks whose beginning, once reached, leads to a use make a set that
  the walk back does not leave, so every block the value is live into is among them; `LiveGivesPath` adds
  the safepoint's own block. `WalkOn` carries a path through a block behind the definition,
  `HomeNotLive` says that nothing is live into the block that defines it.
- *Onward to back.* `PathGivesLive`: were the value not live across the safepoint, the points behind it in
  its block, those of blocks the value is not live into, and those before the definition would make a
  set that the walk onward does not leave, and none of them reads the value: `LastRead` and
  `UsersOf` would have seen it, and `ReadsFit` excludes a use before the definition.
- `SitesListed`, `LivePairsAre` and `LivenessFits` put this together over the safepoints listed.

### SSA construction: `SsaProofs`

Without a hypothesis, for any blocks, variables, programs and room for values:

- `TypesHold` (`TypeOK`), `ChainsEnd` (`ForwardingAcyclic`) and `PredecessorsCurrent` (`PredsCurrent`).
  The invariant is `Core`: `Base` (types, forwarding without cycles, and what the call in progress
  holds) and `Edges` (predecessor lists, each predecessor once, no edge without a terminator).
- `ReadsKeep` (`ReadsKeepAssignments`): a read writes only where it found nothing, which `Chain` says of the
  blocks behind the walk.
- `RewritesStay` (`RewritesKeptOutsideElimination`).
- `SealedEdgesPass` (`SealedEdgesComplete`). Between calls the property is simple; in the middle of
  one, a block can be sealed and an edge short. `Completed` says that such an edge is owed: its target
  is on the stack, or under the cursor at or before that predecessor. `Settled` adds that values are
  numbered in order, that a parameter is listed once, and what sealing a call relies on; `Wanted` and
  `CallWithin` speak of the terminator being completed, whose reads may seal nothing but may add
  parameters to its targets.

With `MaxReplace = 0`, that is for front ends that do not call `replace_all_uses` (a front
end that does can equate anything; finding 1 in section 6):

- `EqualitiesStay` (`EqualitiesKept`): values that resolve alike resolve alike for ever. `Justified` says that
  a parameter that forwards and may be looked at again receives, up to forwarding, only itself and
  what it forwards to.
- `EdgesPassFinal` (`EdgesPassFinalValues`) and `EntriesAgree` (`EntryValuesAgree`): the value equations of the
  control-flow graph. `FinalValues` is the first, for installed terminators and, as `CallFinal` and
  `GotFinal`, for the one being completed; `EntryAgree` says that what a variable was found to be on entry is
  the block's listed parameter or comes in by every edge, and `Discarded` that what the final pass
  takes out forwards.
- `ReadsAreDominated` (`ReadsDominated`): construction yields strict SSA. `Sourced` follows a value
  backwards: where a block got it on entry, the block lists it or every predecessor carries it;
  a path that avoids every block that lists it would carry it to the entry block, which gets nothing.
- `EliminationReachesFixpoint` (`NoTrivialCandidateLeft`): `Worked` says that what is off the worklist is not
  trivial and that users of a candidate are recorded with it, so forwarding one puts all it
  may make trivial back. The last step needs `SealedEdgesPass` again: `remove_params` shifts arguments only
  on edges that are complete.

A call that failed for lack of room leaves edges short for good, so what is said of edges is said
`~failed`.

### The stored body: `BodyProofs`

For arenas of any size, any order of edits and compactions, and whatever the front end does:

- `BodyTypesHold` (`TypeOK`);
- `ListsStayLinked` (`LayoutAccepted`): `check_layout` finds nothing;
- `PositionsStayValid` (`PositionValid`): the insertion point is never stale;
- `DefinitionsStayTrue` (`DefinitionsAgree`): a value says where it is listed and is listed where it says;
- `ArgumentsStayPaired` (`EdgesPairUp`), for front ends that are `Careful` (section 6 has the steps
  that break it otherwise).

`LayoutAccepted` speaks of walks, and no step of `link_between` or `unlink` is local to a walk. The
invariant speaks of links instead (`Sound`): each neighbour names its neighbour back and is in the same
block (`LinksFit`), the ends are ends (`EndsFit`), an instruction in no block has no links (`IdleClear`),
and no set of linked instructions is closed under `next` (`LeadsOn`), which is what rules out a cycle
beside the list and is stated without a path. One lemma for `link_between`, one for `unlink`
(`LinkKeeps`, `UnlinkKeeps`) then serve every action, also those that do either many times over
(`UnlinkAllKeeps`, `MoveAllKeeps`, by induction over the list). `WalkFacts` gets from `Sound` to the
walk: by `LeadsOn` it ends, and what it meets is all that says it is in the block.

`BodyInv` adds what ties the arenas together: only live blocks hold instructions and have a terminator,
the position names something linked or live, a listed value says where (`DefOK`), targets and arguments
were handed out. `DeadEdgesGone` (a removed block has no edges) is needed for compaction alone,
which numbers only what live blocks lead to; the other four actions that touch edges keep it.
Compaction is a renumbering: `RenumberedSound` shows that soundness survives any injective one, and
`NewNumbers` and `NewValueNumbers` that this one is injective and numbers everything a live
block mentions, dead targets and dangling arguments included.

`BodyIsSequences` (`ImplementsLayout`) is the refinement: what a front end sees of the body is the
sequences of `Layout`, with the insertion point as a gap between two instructions. Its invariant is
`Kept`, that is `BodyInv` and `DeadEdgesGone`. The mapping is by walks (`Order`), targets (`Goes`) and the
place of the position in a walk (`Cursor`); the argument has four parts.

- *A list is its walk.* `ListOf(l, b, w)` says of a sequence `w`, link by link and without recursion, that it
  is what the list of `b` holds; for sound lists there is one such sequence, the walk (`WalkNow`).
- *Edits of links are edits of sequences.* Linking in between two members is `InsertAt`, unlinking is
  `RemoveAt`; by induction over the list, unlinking all members empties it and moving the members
  from one on to a new block cuts it in two.
- *A position is a gap.* "Before", "after" and "at the end" name a gap in different ways
  (`Stands`). Inserting, removing and moving keep the gap although the name changes, or names another
  neighbour; where the names leave a choice, when an instruction next to the position
  is moved or split off, `Layout` allows either side and the code's choice is one of them.
- *Compaction renumbers by places.* The flattened walks hold the n-th instruction of a block at the length of the
  blocks before it plus n (`LayoutPlaces`, `CompactOrder`), and the numbers given to dead targets are a
  bijection onto those behind the live blocks (`DeadNumbers`, `CompactGoes`).

Each action has a lemma `...Seen`; `StepSeen` combines them. The three that only touch parameters and
arguments are stutters (`ParamsUnseen`).

### Scalar values: `ValuesProofs`

For all widths of the integer types, ranges of floats, policies and operands:

- `ErrorsInChecks` (`ErrorsOnlyInCheck`): the predicate the type rules use for which operations may
  stand outside a check (`can_error`, `ops.rs`) covers every arm of the evaluation (`interp/mod.rs`)
  that returns an error. The two are written independently in the source, one on policies and types
  and one on operands.
- `EdgesRead` (`EdgesReadFirst`), for the recursion that assigns one parameter after the other.
- `BitsCanonical`: the bits of a register are a pattern of its type. It is the invariant behind the first:
  that `pow` and a saturating `shl` can err for signed types only holds because an unsigned operand
  that fits its type is never negative.

One lemma per family of operations (`IntBinaryFacts`, `IntPowFacts`, `IntShiftFacts`, `FloatBinaryFacts`,
`EvalUnaryFacts`, `EvalConvertFacts`) says which outcomes it can have; `OperationsAccepted` puts them together
with the type rules. The provers know nothing of `2 ^ n` but that it is an integer: `PowersAssumption`
states its defining equations (arithmetic, not a claim about the code), and TLC evaluates it.

### Declarations and text: `TextProofs`

For every text, every aggregate and every limit. Of a text, `TextsAssumption` asks what the lexer and the
grammar make of any input: lines are lists of what `IsLine` says, ids are numbers. TLC evaluates it on
the texts it reads, and `PrintedText` proves it of what the printer writes, so it holds again of a
module that is printed and read back.

- `LayoutsAreSound` (`LayoutsSound`): parts are aligned unless packed, in order, apart and inside, and
  the size is a multiple of the alignment. Sizes of scalars are powers of two and so are all alignments,
  so the larger of two is a multiple of the smaller (`ScalarsDivide`); `FieldFits` is one turn of
  `compute_layout`'s loop, `PlacedFacts` all of them, and `ComputeStable` says that what is declared later
  does not change a layout.
- `AcceptedIsResolved` (`AcceptedResolves`): what is accepted reads no value it does not define, has every block
  it goes to, and declares every symbol it names; `validate_decls` accepts its declarations.

Both follow from `TextKept`. Its invariant `TextInv` has three parts.

- *The module so far* (`ModuleFits`): tables without gaps, layouts as computed, names apart,
  finished bodies resolved. A symbol in it is `Bound`: prescan saw its name. It need not be
  declared yet, so `AcceptedResolves` itself is not inductive.
- *The body being read* (`OpenFits`): all it names is in `valueRefs` and `blockRefs`, and every id
  marked as defined is a parameter or result of a live block. `FinishBody` compares the two
  (`BodyEnds`). The tables grow by whatever ids the text has (`ExtendedFacts`), so a filler must
  never count as defined.
- *The two passes agree* (`Progress`): prescan counts braces (`Depths`) and the reader follows the grammar; at every
  line the depth is 0 exactly outside bodies, and as many functions and globals are declared as the lines
  passed announce (`Rank`). At the end all are, which turns `Bound` into declared.

There is one lemma for each kind of line; `Moved` is what they share.

### How induction is done

The installed provers cannot use the library's induction theorems, whose parameter is an operator.
`SetInduction` (`CountingProofs`) is the principle for a *set* of numbers, proved from the pigeonhole
principle; from it follow `LeastNumber`, `ForwardInduction` (along acyclic forwarding), `Iteration` (a
function exists for a first value and a step) and the facts about the recursive functions of the
model (`RootDef`, `InitGlobalsDef`). A loop of the code is a recursive function of
what the loop changes; `LoopExists` says that its equation has a solution, and `LoopEnds` that a loop which
counts down a measure ends, in what each of its turns keeps; `GrowthEnds` is their use for a set that
grows. So recursive functions can be reasoned about; operators declared
`RECURSIVE` cannot, and the modules with theorems reach none.

### Only model-checked

- Liveness (`CallReturns`, `CallEnds`, `InsertReturns`): needs `ENABLED`.
- `UsesReadCurrent` and `OnlyDerivedRefused` of `StatepointProps`: the correctness of the whole rewriting,
  over every path through the old and the new function at once.
- `RoundTrips` and `AcceptedAsWritten` of `TextProps`: they compare a whole printed text with what reading it
  gave, line by line and id by id.
- `ResultsExact` of `ValuesProps`: the results of computations over bounded inputs, against a reference
  that chooses from bounded sets of numbers.
- `SsaConstructProps` under `replace_all_uses`, beyond the theorems without hypothesis.

## 5. What is not modelled

- Float operations that the interpreter hands to the standard library: `add` to `div`, `sqrt` and
  `fma`, whose rounding a model would have to implement a second time, and `floor`, `ceil`, `trunc`,
  `round` and `round_ties_even`, which round nothing away that the model's halves could not hold but
  are a single call each (`interp/mod.rs:570-592`), with nothing of this code to get wrong but the name.
  Casts between the two float types: the model has one. The approximations of `pow.rs`. Remainder,
  minimum, maximum, order and conversions from and to integers are modelled.
- In `Text`: a decimal literal of a float read at another type than it was printed for, or an integer
  numeral at a float type. `ConstBits` has no such literal among its inputs and does not say what
  `const_bits` makes of one.
- Lexing and spelling: how a token is cut, escaped strings, messages and offsets.
- Names, constructors and accessors of the data types, and equality of functions.
- In `SsaConstruct`: a block's own parameters, `add_block_param`, `remove_block_param(s)`,
  `split_block`, removing the zero constant, and re-installing a terminator taken off earlier
  (`Body` has the first four, without variables).
- In `Body`: several edges of one terminator, operands, stack slots, forwarding, the mapping
  `compact` returns.
- In `Interp`: indirect targets, several arguments and results.
- In `Validate`: stack slots, operand rules of memory and atomic instructions, the loop over a
  module's functions.
- In `Decls`: changing a declaration in place.
- In `Memory`: values of more than two bytes, orderings of atomics (the interpreter has one
  thread and ignores them).

## 6. What the checks found

1. **A rewrite is lost** (`ssa_rewrite_lost`). `eliminate_trivial` forwards every trivial
   parameter on its list (`ssa.rs:236`), also one the front end has meanwhile replaced with
   `replace_all_uses`; the forwarding the front end asked for is overwritten. `forward_trivial`
   guards against exactly this (`ssa.rs:621`). `builder.rs:2129` promises that every use reads
   the new value, later ones too.
2. **A derived pointer escapes notice** (`gc_check_derived`). `derived_values` (`validate/gc.rs:45`)
   follows instructions and the values passed along edges, but not `res0` of a check: a number that a
   checked operation computes from a derived pointer may live across a safepoint. The head
   of that file counts arithmetic on a tracked value as tracked.
3. **Instruction handles change** (`text_handles`). The parser numbers instructions in the order of
   the lines. `parse.rs:231` and `README.md:60` of the crate say that a printed module is read back
   with the same handles, which holds for every other kind of handle (`RoundTrips`).

Remarks on the source that no run is about.

- `seal_all_blocks` looks only at parameters created since it was last called (`ssa.rs:943`); one
  that becomes trivial later, because a block's edge was taken off, stays. `ssa.rs:920` says the
  call can be repeated. `NoTrivialCandidateLeft` is what holds.
- `remove_block_params` leaves an edge that lacks an argument as it is, "for the validator to
  report" (`ssa.rs:315`). But the removal lowers the number of parameters, and the edge
  then has the right count: create a block with a parameter, jump to it, add a second parameter,
  remove the first in bulk, and the argument of the first is passed to the second.
  `remove_block_param` leaves the edge short. `Careful` in `Body` keeps the front end from this.
- A call site's `nogc` is taken at its word: `call_attrs` (`typing.rs:103-119`) joins the site's
  attributes and the callee's, and nothing asks whether the callee keeps what the site says. So a
  function declared nogc may call, at a site that says nogc, a function that is not declared so and
  holds a safepoint: the validator accepts both, an epoch begins under the nogc function, and its
  callers, for which the call was no safepoint, go on with references that are stale then.
  `inst.rs:270` says that NOGC is checked by the validator and `inst.rs:295` that such a function
  "Never collects garbage". `interp_refs` has such programs; the unrestricted statement fails there
  after two instructions (the claimed call, the safepoint), and `NogcKeepsEpochUnlessClaimed`, `FreshRefsName` and `NoStaleUse` say
  what holds all the same.
- In `statepoint.rs:436-440` the arms that move the position to the new instruction never apply:
  `remove_inst` (`builder.rs:2193`) has moved it already.
- A result of a call that the front end had replaced by another value is forwarded to the new
  call's result when insertion replaces the call (`statepoint.rs:423`). The uses in the body were resolved
  before, so only a use added later through the old handle differs from what `builder.rs:2129` says.
- A module whose ids outgrow 64 for each byte and 4096 more, after many removals, prints to a text the
  parser refuses (`IdTooLarge`); compaction helps. `RoundTrips` says when.
- `Memory::read` is documented to refuse a range that is not "inside one live allocation"
  (`interp/mod.rs:1205`); `live` looks at the region only, globals, stack or heap.
- A cast to a wider type with `overflow = error` must stand in a check although it cannot fail.
- Epochs repeat: the field is 12 bits on a 32-bit target, so after 2^12 safepoints `decode_ref`
  accepts a reference `interp/mod.rs:24` calls `StaleRef`.
- After `CapacityExceeded` has interrupted a completion, a short edge can come to have as
  many arguments as its target has parameters, which the validator accepts; it takes 2^32 - 2
  values to get there.
- `interp/mod.rs:23` lists every invoke as a safepoint; the code exempts nogc invokes, and
  the model follows the code.

## 7. Plan

Done: all modules; the safety of `Interp`, `Memory`, `SsaConstruct` and `Body`, that `Body` implements
`Layout`, the all-or-nothing of statepoint insertion, the dominator tree, liveness across safepoints,
where scalar operations can err, layouts, and that accepted text is resolved, are proved. What is
left is to prove more, in this order:

1. `Statepoints`: that the rewritten function reads current references (`UsesReadCurrent`), on top of
   `LivenessIsByPaths`.
