---------------------------- MODULE SsaConstruct ----------------------------
(***************************************************************************)
(* SSA construction from mutable variables (src/src/ssa.rs), as driven by  *)
(* the calls of a front end on a Builder (src/src/builder.rs).             *)
(*                                                                         *)
(* The builder is single threaded: a call runs to completion before the    *)
(* next one starts, so a call is an action that sets pc and every further  *)
(* step of the call is an internal action enabled at that pc only.  What   *)
(* interleaves is the order in which a front end makes the calls (blocks   *)
(* filled, terminated and sealed in any order, edges taken off again).     *)
(*                                                                         *)
(* Abstractions.  All variables have one type, so there is one zero        *)
(* constant.  Values are numbered in creation order as in the code; the    *)
(* first Inputs of them are values the front end already has.  A block's   *)
(* own parameters, which always precede the construction's, and the        *)
(* arguments for them are left out: params and args are the suffixes the   *)
(* construction manages.  Blocks are created up front.                     *)
(***************************************************************************)
EXTENDS Naturals, Sequences, FiniteSets, Functions, Counting

CONSTANTS
    Block,       \* the blocks of the function, numbered as in the arena
    Entry,       \* the entry block
    Var,         \* the declared variables, numbered from 1
    Inputs,      \* number of values that exist before construction starts
    Capacity,    \* MAX_ENTITIES: no function has more values
    Programs,    \* the programs a front end lowers, and what it may do to them
    MaxReplace   \* bound on replace_all_uses calls that are remembered

ASSUME EntityAssumption ==
    /\ Block \subseteq Nat /\ IsFiniteSet(Block)
    /\ Entry \in Block
    /\ Var \subseteq Nat \ {0}
ASSUME CountAssumption ==
    /\ Inputs \in Nat
    /\ Capacity \in Nat
    /\ Inputs <= Capacity
    /\ MaxReplace \in Nat
\* A program: the successor lists a terminator of each block may have, where it
\* assigns to which variable and where it reads which, the blocks the front end may
\* remove or take the terminator off, and how many values there is room for.
ASSUME FrontEndAssumption ==
    \A g \in Programs :
        /\ DOMAIN g.shape \subseteq Block
        /\ Entry \in DOMAIN g.shape
        /\ \A b \in DOMAIN g.shape : g.shape[b] \subseteq Seq(DOMAIN g.shape)
        /\ g.assigns \subseteq Var \X DOMAIN g.shape
        /\ g.uses \subseteq Var \X DOMAIN g.shape
        /\ g.editable \subseteq DOMAIN g.shape
        /\ g.room \in Inputs..Capacity

NONE == 0
Value == 1..Capacity
Edge == [block : Block, args : Seq(Value)]

VARIABLES
    program,     \* the program lowered
    \* the function
    live,        \* blocks not removed
    terminated,  \* blocks that have their terminator
    term,        \* term[b]: the edges of b's terminator, in order
    params,      \* params[b]: b's construction parameters
    alias,       \* alias[v]: what v forwards to, or NONE
    nvals,       \* number of values created
    \* the construction state
    sealed,      \* blocks whose incoming edges all exist
    preds,       \* preds[b]: distinct predecessors, in order
    paramVar,    \* paramVar[v]: the variable v is a parameter for, or NONE
    defs,        \* defs[<<x, b>>]: value of x at the end of b, or NONE
    zero,        \* the zero constant, or NONE
    pending,     \* construction parameters not yet checked by seal_all_blocks
    stack,       \* blocks whose incoming edges may lack arguments
    \* the call in progress
    pc,          \* what the call does next
    call,        \* the call and its arguments
    rd,          \* the variable read in progress
    cursor,      \* the block and predecessor complete() is at
    todo,        \* parameters forward_trivial has still to look at
    elim,        \* the worklist of eliminate_trivial
    \* history
    incoming,    \* incoming[<<x, b>>]: what x was found to be on entry to b
    rewrites,    \* the front end's replace_all_uses calls in force
    failed       \* some call returned CapacityExceeded

func == <<live, terminated, term, params, alias, nvals>>
ssa  == <<sealed, preds, paramVar, defs, zero, pending, stack>>
job  == <<pc, call, rd, cursor, todo, elim>>
hist == <<incoming, rewrites, failed>>
vars == <<program, func, ssa, job, hist>>

------------------------------------------------------------------------------
(***************************************************************************)
(* Operators over the function.                                            *)
(***************************************************************************)
Existing == 1..nvals

\* Function::resolve: the end of v's forwarding chain.
Resolve(v) ==
    LET end[u \in Value] == IF alias[u] = NONE THEN u ELSE end[alias[u]]
    IN  end[v]

Dests(edges) == {edges[k].block : k \in DOMAIN edges}

\* The positions in p's terminator of its edges into b.
EdgesInto(p, b) == {k \in DOMAIN term[p] : term[p][k].block = b}

\* The least number of arguments on an edge from p into b.
MinArgs(p, b) ==
    CHOOSE n \in {Len(term[p][k].args) : k \in EdgesInto(p, b)} :
        \A k \in EdgesInto(p, b) : n <= Len(term[p][k].args)

\* param_site: p is still listed by a live block, at this block and index.
IsSite(p, b, i) == b \in live /\ i \in DOMAIN params[b] /\ params[b][i] = p
Sites(p) == {s \in {<<b, i>> : b \in Block, i \in 1..nvals} : IsSite(p, s[1], s[2])}

\* param_operands: what the i-th parameter of b receives, NONE for a missing
\* argument.
Operands(b, i) ==
    UNION {{ IF i \in DOMAIN term[p][k].args
             THEN Resolve(term[p][k].args[i]) ELSE NONE : k \in EdgesInto(p, b) }
           : p \in Range(preds[b])}

\* Every operand of p is v, or p itself.
TrivialAs(p, b, i, v) == v # NONE /\ Operands(b, i) \ {p} = {v}

------------------------------------------------------------------------------
NoCall == [op |-> "none", block |-> Entry, start |-> 0, term |-> <<>>,
           want |-> <<>>, got |-> <<>>]
NoRead == [var |-> NONE, at |-> Entry, chain |-> {}, for |-> "none"]
NoCursor == [block |-> Entry, i |-> 0]
NoElim == [work |-> {}, users |-> [p \in {} |-> {}], removed |-> {}]

Init ==
    /\ program \in Programs
    /\ live = DOMAIN program.shape
    /\ terminated = {}
    /\ term = [b \in Block |-> <<>>]
    /\ params = [b \in Block |-> <<>>]
    /\ alias = [v \in Value |-> NONE]
    /\ nvals = Inputs
    /\ sealed = {Entry}
    /\ preds = [b \in Block |-> <<>>]
    /\ paramVar = [v \in Value |-> NONE]
    /\ defs = [xb \in Var \X Block |-> NONE]
    /\ zero = NONE
    /\ pending = <<>>
    /\ stack = <<>>
    /\ pc = "idle"
    /\ call = NoCall
    /\ rd = NoRead
    /\ cursor = NoCursor
    /\ todo = <<>>
    /\ elim = NoElim
    /\ incoming = [xb \in Var \X Block |-> NONE]
    /\ rewrites = {}
    /\ failed = FALSE

\* The call returns: nothing of it is left but its effects.
Return ==
    /\ pc' = "idle"
    /\ call' = NoCall
    /\ rd' = NoRead
    /\ cursor' = NoCursor
    /\ todo' = <<>>
    /\ elim' = NoElim

------------------------------------------------------------------------------
(***************************************************************************)
(* Calls of the front end.  A call that is refused changes nothing and is  *)
(* not modelled.                                                           *)
(***************************************************************************)

\* A terminated block is refused: its successors may have read the old value.
MayAssignTerminated(b) == b \in live
MayAssign(b) == b \in live \ terminated

\* def_var(x, v) with b the current block.  The value is one the front end
\* has at hand in b: an input, or the variable y as it stands there (x = y).
DefVar(x, b, v) ==
    /\ pc = "idle"
    /\ MayAssign(b)
    /\ v \in 1..Inputs \/ \E y \in Var : v = defs[<<y, b>>] /\ v # NONE
    /\ defs' = [defs EXCEPT ![<<x, b>>] = v]
    /\ UNCHANGED <<func, sealed, preds, paramVar, zero, pending, stack, job, hist>>

UseVar(x, b) ==
    /\ pc = "idle"
    /\ b \in live
    /\ pc' = "read"
    /\ call' = [NoCall EXCEPT !.op = "use", !.block = b, !.start = Len(pending)]
    /\ rd' = [var |-> x, at |-> b, chain |-> {}, for |-> "use"]
    /\ UNCHANGED <<func, ssa, cursor, todo, elim, hist>>

\* An edge to a sealed block is refused.  One to the entry block, which counts
\* as sealed, is let through here and refused by the type check.
AcceptsAnyEdge(d) == d \in Block
AcceptsEdge(d) == d = Entry \/ d \notin sealed

\* set_terminator, up to the first read.
SetTerminator(b, dests) ==
    /\ pc = "idle"
    /\ b \in live \ terminated
    /\ \A k \in DOMAIN dests : AcceptsEdge(dests[k])
    /\ pc' = "newterm"
    /\ call' = [NoCall EXCEPT !.op = "term", !.block = b,
                  !.term = [k \in DOMAIN dests |-> [block |-> dests[k], args |-> <<>>]]]
    /\ UNCHANGED <<func, ssa, rd, cursor, todo, elim, hist>>

\* SsaState::remove_edges.
WithEdgesKept(b) == preds
WithoutEdgesFrom(b) ==
    [d \in Block |-> IF d \in Dests(term[b])
                     THEN Pick(preds[d], {i \in DOMAIN preds[d] : preds[d][i] # b})
                     ELSE preds[d]]

RemoveTerminator(b) ==
    /\ pc = "idle"
    /\ b \in live \cap terminated
    /\ preds' = WithoutEdgesFrom(b)
    /\ term' = [term EXCEPT ![b] = <<>>]
    /\ terminated' = terminated \ {b}
    /\ UNCHANGED <<live, params, alias, nvals, sealed, paramVar, defs, zero,
                   pending, stack, job, hist>>

RemoveBlock(b) ==
    /\ pc = "idle"
    /\ b \in live \ {Entry}
    /\ preds' = WithoutEdgesFrom(b)
    /\ live' = live \ {b}
    /\ term' = [term EXCEPT ![b] = <<>>]
    /\ terminated' = terminated \ {b}
    /\ params' = [params EXCEPT ![b] = <<>>]
    /\ UNCHANGED <<alias, nvals, sealed, paramVar, defs, zero, pending, stack,
                   job, hist>>

\* replace_all_uses(old, new).  rewrites remembers what was asked for.
ReplaceUnchecked(old, new) ==
    /\ pc = "idle"
    /\ Cardinality(rewrites) < MaxReplace
    /\ alias' = [alias EXCEPT ![old] = Resolve(new)]
    /\ rewrites' = rewrites \cup {<<old, new>>}
    /\ UNCHANGED <<live, terminated, term, params, nvals, ssa, job, incoming, failed>>

ReplaceAllUses(old, new) ==
    /\ pc = "idle"
    /\ Cardinality(rewrites) < MaxReplace
    /\ Resolve(old) # Resolve(new)
    /\ alias' = [alias EXCEPT ![old] = Resolve(new)]
    /\ rewrites' = {r \in rewrites : r[1] # old} \cup {<<old, Resolve(new)>>}
    /\ UNCHANGED <<live, terminated, term, params, nvals, ssa, job, incoming, failed>>

SealBlock(b) ==
    /\ pc = "idle"
    /\ b \in live \ sealed
    /\ sealed' = sealed \cup {b}
    /\ stack' = Append(stack, b)
    /\ pc' = "drain"
    /\ call' = [NoCall EXCEPT !.op = "seal", !.block = b, !.start = Len(pending)]
    /\ UNCHANGED <<func, preds, paramVar, defs, zero, pending,
                   rd, cursor, todo, elim, hist>>

\* The unsealed blocks are pushed in arena order.
Ascending(s) == \A i, j \in DOMAIN s : i < j => s[i] < s[j]
SealAllBlocks ==
    /\ pc = "idle"
    /\ sealed' = sealed \cup live
    /\ \E order \in [1..Cardinality(live \ sealed) -> live \ sealed] :
          Ascending(order) /\ stack' = stack \o order
    /\ pc' = "drain"
    /\ call' = [NoCall EXCEPT !.op = "sealall"]
    /\ UNCHANGED <<func, preds, paramVar, defs, zero, pending,
                   rd, cursor, todo, elim, hist>>

------------------------------------------------------------------------------
(***************************************************************************)
(* SsaState::read, one block of the walk per step.  The value found is     *)
(* recorded for the block the walk stopped at and every block it went      *)
(* through, and handed to whoever asked: use_var, complete (an argument    *)
(* for every edge of the predecessor that lacks the same one) or           *)
(* complete_new (the new terminator's edge rd.edge).                       *)
(***************************************************************************)
Read(x, b, for) == [var |-> x, at |-> b, chain |-> {}, for |-> for]

\* One more argument for every edge into b that has n.
Extended(edges, b, n, v) ==
    [k \in DOMAIN edges |-> IF edges[k].block = b /\ Len(edges[k].args) = n
                            THEN [edges[k] EXCEPT !.args = Append(@, v)] ELSE edges[k]]

Deliver(v) ==
    /\ rd' = NoRead
    /\ \/ /\ rd.for = "use"
          /\ pc' = "drain"
          /\ UNCHANGED <<term, call>>
       \/ /\ rd.for = "complete"
          /\ pc' = "complete"
          /\ LET b == cursor.block
                 p == preds[b][cursor.i]
                 n == MinArgs(p, b)
             IN  term' = [term EXCEPT ![p] = Extended(term[p], b, n, v)]
          /\ UNCHANGED call
       \/ /\ rd.for = "newterm"
          /\ pc' = "newterm"
          /\ call' = [call EXCEPT !.got = Append(@, v)]
          /\ UNCHANGED term

ReadBlocksAndPreds == rd.chain \cup {rd.at} \cup Range(preds[rd.at])
ReadBlocks == rd.chain \cup {rd.at}
Record(f, blocks, v) ==
    [xb \in Var \X Block |-> IF xb[1] = rd.var /\ xb[2] \in blocks THEN v ELSE f[xb]]

\* The variable has a value in rd.at.
ReadHit ==
    LET d == defs[<<rd.var, rd.at>>] IN
    /\ pc = "read"
    /\ d # NONE
    /\ defs' = Record(defs, ReadBlocks, Resolve(d))
    /\ incoming' = Record(incoming, rd.chain \ {rd.at}, Resolve(d))
    /\ Deliver(Resolve(d))
    /\ UNCHANGED <<live, terminated, params, alias, nvals, sealed, preds, paramVar,
                   zero, pending, stack, cursor, todo, elim, rewrites, failed>>

\* The walk goes on to the only predecessor, unless it came this way before.
LooksThroughAny == preds[rd.at] # <<>> /\ rd.at \notin rd.chain
LooksThroughAgain == Len(preds[rd.at]) = 1
LooksThrough == Len(preds[rd.at]) = 1 /\ rd.at \notin rd.chain

\* new_param: a parameter of rd.at stands for the variable.  In an unsealed
\* block it stays incomplete; in a sealed one its operands are left to drain.
NeedsParam == rd.at \notin sealed \/ (preds[rd.at] # <<>> /\ ~LooksThrough)

ReadNewParam ==
    LET p == nvals + 1 IN
    /\ pc = "read"
    /\ defs[<<rd.var, rd.at>>] = NONE
    /\ NeedsParam
    /\ p <= program.room
    /\ nvals' = p
    /\ params' = [params EXCEPT ![rd.at] = Append(@, p)]
    /\ paramVar' = [paramVar EXCEPT ![p] = rd.var]
    /\ pending' = Append(pending, p)
    /\ stack' = IF rd.at \in sealed THEN Append(stack, rd.at) ELSE stack
    /\ defs' = Record(defs, ReadBlocks, p)
    /\ incoming' = Record(incoming, ReadBlocks, p)
    /\ Deliver(p)
    /\ UNCHANGED <<live, terminated, alias, sealed, preds, zero,
                   cursor, todo, elim, rewrites, failed>>

\* No edge comes into rd.at: the variable was never assigned on the way, and
\* reads zero.  The constant is made once, at the start of the entry block.
ReadZero ==
    LET z == IF zero = NONE THEN nvals + 1 ELSE zero IN
    /\ pc = "read"
    /\ defs[<<rd.var, rd.at>>] = NONE
    /\ rd.at \in sealed
    /\ preds[rd.at] = <<>>
    /\ z <= program.room
    /\ zero' = z
    /\ nvals' = IF zero = NONE THEN z ELSE nvals
    /\ defs' = Record(defs, ReadBlocks, z)
    /\ incoming' = Record(incoming, ReadBlocks, z)
    /\ Deliver(z)
    /\ UNCHANGED <<live, terminated, params, alias, sealed, preds, paramVar,
                   pending, stack, cursor, todo, elim, rewrites, failed>>

ReadThrough ==
    /\ pc = "read"
    /\ defs[<<rd.var, rd.at>>] = NONE
    /\ rd.at \in sealed
    /\ LooksThrough
    /\ rd' = [rd EXCEPT !.chain = @ \cup {rd.at}, !.at = preds[rd.at][1]]
    /\ UNCHANGED <<func, ssa, pc, call, cursor, todo, elim, hist>>

\* CapacityExceeded: the call returns at once, whatever it was doing.
ReadFails ==
    /\ pc = "read"
    /\ defs[<<rd.var, rd.at>>] = NONE
    /\ NeedsParam \/ (preds[rd.at] = <<>> /\ zero = NONE)
    /\ nvals = program.room
    /\ failed' = TRUE
    /\ Return
    /\ UNCHANGED <<func, ssa, incoming, rewrites>>

------------------------------------------------------------------------------
(***************************************************************************)
(* drain and complete: every edge into a block on the stack gets the       *)
(* arguments it lacks, predecessor by predecessor.                         *)
(***************************************************************************)
DrainPop ==
    /\ pc = "drain"
    /\ stack # <<>>
    /\ LET b == stack[Len(stack)] IN
       /\ stack' = SubSeq(stack, 1, Len(stack) - 1)
       /\ cursor' = [block |-> b, i |-> 1]
    /\ pc' = "complete"
    /\ UNCHANGED <<func, sealed, preds, paramVar, defs, zero, pending,
                   call, rd, todo, elim, hist>>

\* The edges from the predecessor under the cursor lack an argument.
CursorPred == preds[cursor.block][cursor.i]
CursorLacks ==
    /\ cursor.i \in DOMAIN preds[cursor.block]
    /\ MinArgs(CursorPred, cursor.block) < Len(params[cursor.block])

CompleteRead ==
    /\ pc = "complete"
    /\ CursorLacks
    /\ LET b == cursor.block
           q == params[b][MinArgs(CursorPred, b) + 1]
       IN  rd' = Read(paramVar[q], CursorPred, "complete")
    /\ pc' = "read"
    /\ UNCHANGED <<func, ssa, call, cursor, todo, elim, hist>>

CursorAtLastButOne == cursor.i + 1 >= Len(preds[cursor.block])
CursorAtLast == cursor.i >= Len(preds[cursor.block])

CompleteNext ==
    /\ pc = "complete"
    /\ ~CursorLacks
    /\ IF CursorAtLast
       THEN cursor' = NoCursor /\ pc' = "drain"
       ELSE cursor' = [cursor EXCEPT !.i = @ + 1] /\ pc' = pc
    /\ UNCHANGED <<func, ssa, call, rd, todo, elim, hist>>

\* The stack is empty: what follows depends on the call.
DrainedUse ==
    /\ pc = "drain"
    /\ stack = <<>>
    /\ call.op = "use"
    /\ todo' = SubSeq(pending, call.start + 1, Len(pending))
    /\ pc' = "forward"
    /\ UNCHANGED <<func, ssa, call, rd, cursor, elim, hist>>

DrainedSeal ==
    /\ pc = "drain"
    /\ stack = <<>>
    /\ call.op = "seal"
    /\ todo' = params[call.block] \o SubSeq(pending, call.start + 1, Len(pending))
    /\ pc' = "forward"
    /\ UNCHANGED <<func, ssa, call, rd, cursor, elim, hist>>

DrainedTerm ==
    /\ pc = "drain"
    /\ stack = <<>>
    /\ call.op = "term"
    /\ pc' = "newterm"
    /\ UNCHANGED <<func, ssa, call, rd, cursor, todo, elim, hist>>

------------------------------------------------------------------------------
(***************************************************************************)
(* complete_new and the rest of set_terminator.  In each round every edge  *)
(* of the new terminator that lacks arguments gets one: the variables are  *)
(* read first, in edge order, then the arguments are pushed and the stack  *)
(* drained.  Reading can add parameters to the targets, so rounds repeat.  *)
(***************************************************************************)
Wanting == {k \in DOMAIN call.term :
              Len(call.term[k].args) < Len(params[call.term[k].block])}

NewTermWant ==
    LET ks == Pick([k \in DOMAIN call.term |-> k], Wanting)
        NextParam(e) == params[e.block][Len(e.args) + 1]
    IN
    /\ pc = "newterm"
    /\ call.want = <<>>
    /\ Wanting # {}
    /\ call' = [call EXCEPT !.want = [j \in DOMAIN ks |->
           [edge |-> ks[j], var |-> paramVar[NextParam(call.term[ks[j]])]]]]
    /\ UNCHANGED <<func, ssa, pc, rd, cursor, todo, elim, hist>>

NewTermRead ==
    /\ pc = "newterm"
    /\ Len(call.got) < Len(call.want)
    /\ rd' = Read(call.want[Len(call.got) + 1].var, call.block, "newterm")
    /\ pc' = "read"
    /\ UNCHANGED <<func, ssa, call, cursor, todo, elim, hist>>

NewTermPush ==
    LET At(k) == {j \in DOMAIN call.want : call.want[j].edge = k}
        Pushed(k) == IF At(k) = {} THEN call.term[k]
                     ELSE [call.term[k] EXCEPT !.args = Append(@, call.got[CHOOSE j \in At(k) : TRUE])]
    IN
    /\ pc = "newterm"
    /\ call.want # <<>>
    /\ Len(call.got) = Len(call.want)
    /\ call' = [call EXCEPT
           !.want = <<>>, !.got = <<>>, !.term = [k \in DOMAIN @ |-> Pushed(k)]]
    /\ pc' = "drain"
    /\ UNCHANGED <<func, ssa, rd, cursor, todo, elim, hist>>

\* The type check passes (the targets are live, and none is the entry block)
\* and the terminator is installed: add_edges.
NewTermInstall ==
    LET b == call.block IN
    /\ pc = "newterm"
    /\ call.want = <<>> /\ Wanting = {}
    /\ Dests(call.term) \subseteq live \ {Entry}
    /\ preds' = [d \in Block |-> IF d \in Dests(call.term)
                                 THEN Append(preds[d], b) ELSE preds[d]]
    /\ term' = [term EXCEPT ![b] = call.term]
    /\ terminated' = terminated \cup {b}
    /\ Return
    /\ UNCHANGED <<live, params, alias, nvals, sealed, paramVar, defs, zero,
                   pending, stack, hist>>

\* The type check fails, for these targets or for an operand's type: the
\* reads made to complete the edges stay.
NewTermRefuse ==
    /\ pc = "newterm"
    /\ call.want = <<>> /\ Wanting = {}
    /\ Return
    /\ UNCHANGED <<func, ssa, hist>>

------------------------------------------------------------------------------
(***************************************************************************)
(* forward_trivial, at the end of use_var and seal_block.                  *)
(***************************************************************************)
CanForwardAgain(p, v) ==
    \E s \in Sites(p) : s[1] \in sealed /\ TrivialAs(p, s[1], s[2], v)
CanForward(p, v) ==
    /\ alias[p] = NONE
    /\ \E s \in Sites(p) : s[1] \in sealed /\ TrivialAs(p, s[1], s[2], v)

ForwardParam ==
    LET p == Head(todo) IN
    /\ pc = "forward"
    /\ todo # <<>>
    /\ \E v \in Value :
          /\ CanForward(p, v)
          /\ alias' = [alias EXCEPT ![p] = v]
    /\ todo' = Tail(todo)
    /\ UNCHANGED <<live, terminated, term, params, nvals, ssa,
                   pc, call, rd, cursor, elim, hist>>

ForwardSkip ==
    /\ pc = "forward"
    /\ todo # <<>>
    /\ \A v \in Value : ~CanForward(Head(todo), v)
    /\ todo' = Tail(todo)
    /\ UNCHANGED <<func, ssa, pc, call, rd, cursor, elim, hist>>

ForwardDone ==
    /\ pc = "forward"
    /\ todo = <<>>
    /\ Return
    /\ UNCHANGED <<func, ssa, hist>>

------------------------------------------------------------------------------
(***************************************************************************)
(* seal_all_blocks: eliminate_trivial as a worklist over the pending       *)
(* parameters, then remove_params and resolve_aliases.  elim.users[q] are  *)
(* the candidates that received q when last looked at.  The code takes the *)
(* worklist from one end; here any member may be next.                     *)
(***************************************************************************)
Receives(c, q) == \E s \in Sites(c) : q \in Operands(s[1], s[2])

DrainedSealAll ==
    LET cands == Range(pending) IN
    /\ pc = "drain"
    /\ stack = <<>>
    /\ call.op = "sealall"
    /\ pending # <<>>
    /\ elim' = [work |-> cands,
                users |-> [q \in cands |-> {c \in cands \ {q} : Receives(c, q)}],
                removed |-> {}]
    /\ pending' = <<>>
    /\ pc' = "eliminate"
    /\ UNCHANGED <<func, sealed, preds, paramVar, defs, zero, stack,
                   call, rd, cursor, todo, hist>>

DrainedSealAllNone ==
    /\ pc = "drain"
    /\ stack = <<>>
    /\ call.op = "sealall"
    /\ pending = <<>>
    /\ Return
    /\ UNCHANGED <<func, ssa, hist>>

IsTrivial(p, v) == \E s \in Sites(p) : TrivialAs(p, s[1], s[2], v)

\* What is left to look at once p is forwarded: its users too.
RequeueNone(p) == elim.work \ {p}
Requeue(p) == (elim.work \ {p}) \cup elim.users[p]

ElimForward(p, v) ==
    LET removed == elim.removed \cup {p} IN
    /\ pc = "eliminate"
    /\ p \in elim.work \ elim.removed
    /\ IsTrivial(p, v)
    /\ alias' = [alias EXCEPT ![p] = v]
    /\ elim' = [work |-> Requeue(p),
                users |-> [q \in DOMAIN elim.users |->
                    IF q = p THEN {}
                    ELSE IF q = v /\ q \notin removed THEN elim.users[q] \cup elim.users[p]
                    ELSE elim.users[q]],
                removed |-> removed]
    /\ UNCHANGED <<live, terminated, term, params, nvals, ssa,
                   pc, call, rd, cursor, todo, hist>>

ElimSkip(p) ==
    /\ pc = "eliminate"
    /\ p \in elim.work
    /\ p \in elim.removed \/ \A v \in Value : ~IsTrivial(p, v)
    /\ elim' = [elim EXCEPT !.work = @ \ {p}]
    /\ UNCHANGED <<func, ssa, pc, call, rd, cursor, todo, hist>>

\* remove_params drops the forwarded parameters, and the argument of the same
\* index from every edge that passes one argument per parameter;
\* resolve_aliases then rewrites every argument to what it forwards to.
Kept(b) == {i \in DOMAIN params[b] : params[b][i] \notin elim.removed}
WithoutRemoved(p, e) ==
    LET args == IF p \in Range(preds[e.block]) /\ Len(e.args) = Len(params[e.block])
                THEN Pick(e.args, Kept(e.block)) ELSE e.args
    IN  [e EXCEPT !.args = [i \in DOMAIN args |-> Resolve(args[i])]]

\* The removed values keep their forwarding.
AliasesDropped == [v \in Value |-> IF v \in elim.removed THEN NONE ELSE alias[v]]
AliasesKept == alias

ElimRemove ==
    /\ pc = "eliminate"
    /\ elim.work = {}
    /\ elim.removed # {}
    /\ params' = [b \in Block |-> Pick(params[b], Kept(b))]
    /\ term' = [p \in Block |-> [k \in DOMAIN term[p] |-> WithoutRemoved(p, term[p][k])]]
    /\ alias' = AliasesKept
    /\ Return
    /\ UNCHANGED <<live, terminated, nvals, ssa, hist>>

ElimNone ==
    /\ pc = "eliminate"
    /\ elim.work = {}
    /\ elim.removed = {}
    /\ Return
    /\ UNCHANGED <<func, ssa, hist>>

------------------------------------------------------------------------------
FrontEnd ==
    \/ \E xb \in program.uses : UseVar(xb[1], xb[2])
    \/ \E xb \in program.assigns, v \in Existing : DefVar(xb[1], xb[2], v)
    \/ \E b \in DOMAIN program.shape : \E dests \in program.shape[b] : SetTerminator(b, dests)
    \/ \E b \in DOMAIN program.shape : SealBlock(b)
    \/ \E b \in program.editable : RemoveTerminator(b) \/ RemoveBlock(b)
    \/ \E old \in Existing, new \in Existing : ReplaceAllUses(old, new)
    \/ SealAllBlocks

Internal ==
    \/ ReadHit \/ ReadNewParam \/ ReadZero \/ ReadThrough \/ ReadFails
    \/ DrainPop \/ CompleteRead \/ CompleteNext
    \/ DrainedUse \/ DrainedSeal \/ DrainedTerm
    \/ NewTermWant \/ NewTermRead \/ NewTermPush \/ NewTermInstall \/ NewTermRefuse
    \/ ForwardParam \/ ForwardSkip \/ ForwardDone
    \/ DrainedSealAll \/ DrainedSealAllNone
    \/ \E p \in elim.work : ElimSkip(p)
    \/ \E p \in elim.work, v \in Value : ElimForward(p, v)
    \/ ElimRemove \/ ElimNone

Next == (FrontEnd \/ Internal) /\ UNCHANGED program

Spec == Init /\ [][Next]_vars

\* A call that has begun runs to its end: the builder is single threaded and
\* no step of it waits for anything.
FairSpec == Spec /\ WF_vars(Internal /\ UNCHANGED program)
=============================================================================
