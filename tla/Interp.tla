------------------------------- MODULE Interp -------------------------------
(***************************************************************************)
(* The reference interpreter's frames and GC references                    *)
(* (src/src/interp/exec.rs and the object part of src/src/interp/mod.rs),  *)
(* running any module the validator accepts.                               *)
(*                                                                         *)
(* Abstractions.  A function body is not data: the top frame may execute   *)
(* any instruction or terminator the safepoint rules of                    *)
(* src/src/validate/gc.rs allow at that point.  fresh, in a frame, is the  *)
(* set of registers those rules still let the code read: a safepoint takes *)
(* every register out but the ones it relocates.  Functions take one       *)
(* reference and return one, memory is one heap cell for a reference, the  *)
(* stack slots of a frame are one area of whole units, and a GC object     *)
(* takes one unit.  An SSA value and its relocated copies share a register.*)
(* InterpError::StaleRef is two outcomes: StaleRef is decode_ref refusing a *)
(* reference that is used, NoObject is Memory::load finding a word in memory*)
(* that numbers no object.                                                  *)
(*                                                                         *)
(* A reference is a word of two fields, hi (the epoch) and lo (the object  *)
(* number).  obj and born are history: the object it was made for and the  *)
(* epoch it was made in.  So are claimed, in a frame, and broken: nothing  *)
(* but a call site may vouch for a callee not declared nogc, and nobody    *)
(* checks that it keeps what the site claims.                              *)
(***************************************************************************)
EXTENDS Naturals, Sequences, FiniteSets

CONSTANTS
    Reg,         \* registers of a frame
    IdxRange,    \* 2^idx_bits: what the object field of a reference holds
    EpochRange,  \* 2^(width - idx_bits): what its epoch field holds
    MemSize,     \* units of memory for the stack and the heap
    FrameSize,   \* units the stack slots of a function may take
    Words,       \* integers a program may store where it loads a reference
    MaxDepth,    \* Limits::max_depth
    FuelLimit,   \* Limits::fuel
    SiteNogc,    \* what a call site may say of a callee not declared nogc
    HostKeeps    \* the host may hand in a reference from before a safepoint

ASSUME RangeAssumption ==
    /\ IdxRange \in Nat \ {0, 1}
    /\ EpochRange \in Nat \ {0}
ASSUME LimitAssumption ==
    /\ MemSize \in Nat
    /\ FrameSize \subseteq Nat
    /\ MaxDepth \in Nat
    /\ FuelLimit \in Nat
ASSUME ProgramAssumption ==
    /\ Reg # {}
    /\ Words \subseteq 0..(IdxRange * EpochRange - 1)
    /\ SiteNogc \subseteq BOOLEAN
    /\ HostKeeps \in BOOLEAN

VARIABLES
    frames,   \* the frame stack, the top frame last
    mode,     \* what the interpreter does next
    result,   \* the finished callee's result, in mode "deliver"
    outcome,  \* how the call of the embedder ended
    fuel,     \* fuel used so far
    epoch,    \* Memory::epoch
    objects,  \* number of GC objects
    cell,     \* the word the heap cell holds: an object number or an integer
    sp,       \* end of the stack
    floor,    \* heap_floor: start of the heap
    kept,     \* a reference the embedder holds on to
    broken    \* an epoch began below a claim of a call site that none would

memory == <<objects, cell, floor>>
vars == <<frames, mode, result, outcome, fuel, epoch, memory, sp, kept, broken>>

------------------------------------------------------------------------------
(***************************************************************************)
(* References.                                                             *)
(***************************************************************************)
\* The bitwise or of two naturals.
Bit(n, k) == (n \div 2^k) % 2 = 1
Or(a, b) ==
    IF b = 0 THEN a
    ELSE CHOOSE n \in 0..(a + b) :
           \A k \in 0..(a + b) : Bit(n, k) <=> Bit(a, k) \/ Bit(b, k)

Null == [hi |-> 0, lo |-> 0, obj |-> 0, born |-> 0]

\* encode_ref(index) in epoch e.  An index too large for its field runs into
\* the epoch's.
Encode(e, index, obj) ==
    IF index = 0 THEN Null
    ELSE IF index < IdxRange
    THEN [hi |-> e % EpochRange, lo |-> index, obj |-> obj, born |-> e]
    ELSE [hi |-> Or(e % EpochRange, index \div IdxRange), lo |-> index % IdxRange,
          obj |-> obj, born |-> e]

\* decode_ref: the reference is accepted, and then stands for object v.lo.
IsNull(v) == v.hi = 0 /\ v.lo = 0
AcceptsAnyEpoch(v) == IsNull(v) \/ v.lo \in 1..objects
Accepts(v) == IsNull(v) \/ (v.hi = epoch % EpochRange /\ v.lo \in 1..objects)

------------------------------------------------------------------------------
(***************************************************************************)
(* Frames.                                                                 *)
(***************************************************************************)
NoResult == [ok |-> TRUE, val |-> Null]
Thrown == [ok |-> FALSE, val |-> Null]
NoWait == [kind |-> "none", dst |-> {}, safepoint |-> FALSE, gc |-> {},
           idx |-> [r \in Reg |-> 0]]

Top == frames[Len(frames)]
Below == SubSeq(frames, 1, Len(frames) - 1)
WithTop(f) == [frames EXCEPT ![Len(frames)] = f]

\* waiting(): the object numbers of the GC list are taken when the call starts.
Captured(gc) == [r \in Reg |-> IF r \in gc THEN Top.regs[r].lo ELSE 0]
Wait(kind, d, safepoint, gc) ==
    [kind |-> kind, dst |-> {d}, safepoint |-> safepoint, gc |-> gc, idx |-> Captured(gc)]

Init ==
    /\ frames = <<>>
    /\ mode = "idle"
    /\ result = NoResult
    /\ outcome = "none"
    /\ fuel = 0
    /\ epoch = 0
    /\ objects = 0
    /\ cell = 0
    /\ sp = 0
    /\ floor = MemSize
    /\ kept = Null
    /\ broken = FALSE

\* The call of the embedder ends here; after an error the frames are left as
\* they are.
Fail(why) == mode' = "idle" /\ outcome' = why

\* push_frame onto the frames fs, with the stack ending at mark.
Push(fs, mark, nogc, claimed, size, arg) ==
    IF Len(fs) >= MaxDepth
    THEN /\ Fail("StackOverflow")
         /\ frames' = fs
         /\ sp' = mark
    ELSE IF mark + size > floor
    THEN /\ Fail("OutOfMemory")
         /\ frames' = fs
         /\ sp' = mark
    ELSE /\ \E p \in Reg :
              frames' = Append(fs, [nogc |-> nogc, claimed |-> claimed,
                  mark |-> mark, size |-> size, fresh |-> {p},
                  regs |-> [r \in Reg |-> IF r = p THEN arg ELSE Null],
                  pending |-> NoWait])
         /\ sp' = mark + size
         /\ mode' = "run"
         /\ outcome' = "none"

\* Every step of the loop burns a unit of fuel first.
BurnNothing == mode = "run" /\ fuel < FuelLimit /\ fuel' = fuel
Burn == mode = "run" /\ fuel < FuelLimit /\ fuel' = fuel + 1

OutOfFuel ==
    /\ mode = "run"
    /\ fuel >= FuelLimit
    /\ fuel' = FuelLimit + 1
    /\ Fail("FuelExhausted")
    /\ UNCHANGED <<frames, result, epoch, broken, memory, sp, kept>>

------------------------------------------------------------------------------
(***************************************************************************)
(* Instructions and terminators of the top frame.                          *)
(***************************************************************************)

\* Defining register d.
Define(f, d, v) == [f EXCEPT !.regs[d] = v, !.fresh = @ \cup {d}]

\* A load of the heap cell mints a reference to the object the cell numbers, in
\* the current epoch, or finds that no object has that number.
LoadRef(d) ==
    /\ Burn
    /\ IF cell <= objects
       THEN /\ frames' = WithTop(Define(Top, d, Encode(epoch, cell, cell)))
            /\ UNCHANGED <<mode, outcome>>
       ELSE Fail("NoObject") /\ UNCHANGED frames
    /\ UNCHANGED <<result, epoch, broken, memory, sp, kept>>

\* store of any other type than ref decodes nothing.
StoreWord(w) ==
    /\ Burn
    /\ cell' = w
    /\ UNCHANGED <<frames, mode, result, outcome, epoch, broken, objects, floor, sp, kept>>

\* store, and every other instruction that decodes its operand.
StoreRef(s) ==
    /\ Burn
    /\ s \in Top.fresh
    /\ IF Accepts(Top.regs[s])
       THEN cell' = Top.regs[s].lo /\ UNCHANGED <<mode, outcome>>
       ELSE Fail("StaleRef") /\ UNCHANGED cell
    /\ UNCHANGED <<frames, result, epoch, broken, objects, floor, sp, kept>>

\* take_edge: every block parameter is assigned at once, nothing is decoded.
TakeEdge(from) ==
    /\ Burn
    /\ frames' = WithTop([Top EXCEPT
           !.regs = [r \in Reg |-> Top.regs[from[r]]],
           !.fresh = {r \in Reg : from[r] \in Top.fresh}])
    /\ UNCHANGED <<mode, result, outcome, epoch, broken, memory, sp, kept>>

\* The registers of f with those of a GC list re-minted in epoch e from the
\* object numbers captured.
RelocatedNow(f, gc, idx, e) ==
    [r \in Reg |-> IF r \in gc THEN Encode(epoch, idx[r], f.regs[r].obj) ELSE f.regs[r]]
Relocated(f, gc, idx, e) ==
    [r \in Reg |-> IF r \in gc THEN Encode(e, idx[r], f.regs[r].obj) ELSE f.regs[r]]

\* An epoch begins, perhaps below a call site's claim that none would.
Collects ==
    /\ epoch' = epoch + 1
    /\ broken' = (broken \/ \E i \in DOMAIN frames : frames[i].claimed)

\* The safepoint instruction.
Safepoint(gc) ==
    /\ Burn
    /\ ~Top.nogc
    /\ gc \subseteq Top.fresh
    /\ IF \A r \in gc : Accepts(Top.regs[r])
       THEN /\ Collects
            /\ frames' = WithTop([Top EXCEPT
                   !.regs = Relocated(Top, gc, Captured(gc), epoch'),
                   !.fresh = gc])
            /\ UNCHANGED <<mode, outcome>>
       ELSE /\ Fail("StaleRef")
            /\ UNCHANGED <<frames, epoch, broken>>
    /\ UNCHANGED <<result, memory, sp, kept>>

\* A call is a safepoint unless its site says nogc or, for a direct call, the
\* callee's declaration does.  Safepoints are the cases a callee allows.
IsSafepoint(nogc, site) == ~site.nogc /\ ~(site.direct /\ nogc)
Safepoints(nogc) ==
    {IsSafepoint(nogc, site) :
        site \in [direct : BOOLEAN, nogc : IF nogc THEN BOOLEAN ELSE SiteNogc]}

\* The site claims nogc of a callee that is not declared so.
Claims(nogc, safepoint) == ~safepoint /\ ~nogc

\* The validator wants no safepoint in a nogc function, and no GC list on a
\* call that is none.
MayCallAny(arg, gc, safepoint) ==
    arg \in Top.fresh /\ gc \subseteq Top.fresh /\ (~safepoint => gc = {})
MayCall(arg, gc, safepoint) ==
    /\ arg \in Top.fresh
    /\ gc \subseteq Top.fresh
    /\ Top.nogc => ~safepoint
    /\ ~safepoint => gc = {}
    /\ \A r \in gc : Accepts(Top.regs[r])

\* The caller as it waits: past a safepoint it reads what is relocated only.
Waiter(kind, d, safepoint, gc) ==
    [Top EXCEPT !.pending = Wait(kind, d, safepoint, gc),
                !.fresh = IF safepoint THEN {} ELSE @]

\* waiting() refuses a GC list with a stale reference before anything starts.
CallRefused(gc) ==
    /\ Burn
    /\ gc \subseteq Top.fresh
    /\ \E r \in gc : ~Accepts(Top.regs[r])
    /\ Fail("StaleRef")
    /\ UNCHANGED <<frames, result, epoch, broken, memory, sp, kept>>

\* A call or an invoke of a function with a body.
Call(kind, nogc, safepoint, size, arg, gc, d) ==
    /\ Burn
    /\ MayCall(arg, gc, safepoint)
    /\ Push(WithTop(Waiter(kind, d, safepoint, gc)), sp, nogc, Claims(nogc, safepoint),
            size, Top.regs[arg])
    /\ UNCHANGED <<result, epoch, broken, memory, kept>>

\* The frame is popped before the callee is pushed; the callee's result goes to
\* whatever the frame below waits on, and what was claimed of the frame popped is
\* left to the callee to keep.
MayTailCallAny(safepoint, arg) == arg \in Top.fresh
MayTailCall(safepoint, arg) == arg \in Top.fresh /\ (Top.nogc => ~safepoint)
TailCallOnTop(nogc, safepoint, size, arg) ==
    /\ Burn
    /\ MayTailCall(safepoint, arg)
    /\ Push(frames, sp, nogc, Top.claimed \/ Claims(nogc, safepoint), size, Top.regs[arg])
    /\ UNCHANGED <<result, epoch, broken, memory, kept>>
TailCall(nogc, safepoint, size, arg) ==
    /\ Burn
    /\ MayTailCall(safepoint, arg)
    /\ Push(Below, Top.mark, nogc, Top.claimed \/ Claims(nogc, safepoint), size, Top.regs[arg])
    /\ UNCHANGED <<result, epoch, broken, memory, kept>>

\* alloc_object: a new object, from the heap that grows down to the stack.
AllocUnchecked(mark) == objects' = objects + 1 /\ floor' = floor - 1
Alloc(mark) ==
    /\ floor > mark
    /\ objects' = objects + 1
    /\ floor' = floor - 1
NewRef == Encode(epoch, objects + 1, objects + 1)

\* The references the embedder hands in: one it kept, as long as it is current
\* unless HostKeeps, or null.
HandedIn == {Null} \cup (IF HostKeeps \/ kept.born = epoch THEN {kept} ELSE {})

\* An import runs at once, with the stack ending at mark: the host returns a new
\* object, its argument or a reference of its own, unwinds, or fails.
HostRuns(mark, arg) ==
    \/ /\ Alloc(mark)
       /\ result' = [ok |-> TRUE, val |-> NewRef]
       /\ mode' = "deliver"
       /\ kept' \in {kept, NewRef}
       /\ outcome' = "none"
    \/ /\ \E v \in {arg} \cup HandedIn : result' = [ok |-> TRUE, val |-> v]
       /\ kept' \in {kept, arg}
       /\ mode' = "deliver"
       /\ outcome' = "none"
       /\ UNCHANGED <<objects, floor>>
    \/ /\ result' = Thrown
       /\ mode' = "deliver"
       /\ outcome' = "none"
       /\ UNCHANGED <<objects, floor, kept>>
    \/ /\ Fail("Host")
       /\ UNCHANGED <<result, objects, floor, kept>>

CallHost(kind, safepoint, arg, gc, d) ==
    /\ Burn
    /\ MayCall(arg, gc, safepoint)
    /\ frames' = WithTop(Waiter(kind, d, safepoint, gc))
    /\ HostRuns(sp, Top.regs[arg])
    /\ UNCHANGED <<epoch, broken, cell, sp>>

TailCallHost(safepoint, arg) ==
    /\ Burn
    /\ MayTailCall(safepoint, arg)
    /\ frames' = Below
    /\ sp' = Top.mark
    /\ HostRuns(Top.mark, Top.regs[arg])
    /\ UNCHANGED <<epoch, broken, cell>>

\* ret, and resume, which hands an exception to the frames below.
Leave(res) ==
    /\ Burn
    /\ result' = res
    /\ frames' = Below
    /\ sp' = Top.mark
    /\ mode' = "deliver"
    /\ UNCHANGED <<outcome, epoch, broken, memory, kept>>
Return(v) == mode = "run" /\ v \in Top.fresh /\ Leave([ok |-> TRUE, val |-> Top.regs[v]])
Resume == Leave(Thrown)

\* A trap pops every frame; unreachable and the other faults pop none.
Trap ==
    /\ Burn
    /\ \/ /\ frames' = <<>>
          /\ sp' = frames[1].mark
          /\ Fail("Trap")
       \/ /\ Fail("Fault")
          /\ UNCHANGED <<frames, sp>>
    /\ UNCHANGED <<result, epoch, broken, memory, kept>>

------------------------------------------------------------------------------
(***************************************************************************)
(* deliver(): the result of a finished callee reaches the frame that waits *)
(* for it.  A call and an invoke take a returned value the same way; the   *)
(* unwind edge of an invoke defines the relocated list and no result.      *)
(***************************************************************************)

\* relocate(): what was returned is checked in the callee's epoch, then a new
\* epoch starts, then everything is minted in that one.
MintedBefore == Encode(epoch, result.val.lo, result.val.obj)
Minted == Encode(epoch + 1, result.val.lo, result.val.obj)

Resumed(w) ==
    LET e == IF w.safepoint THEN epoch + 1 ELSE epoch
        val == IF w.safepoint THEN Minted ELSE result.val
        dst == IF result.ok THEN w.dst ELSE {}
        moved == Relocated(Top, w.gc, w.idx, e)
    IN  [Top EXCEPT !.regs = [r \in Reg |-> IF r \in dst THEN val ELSE moved[r]],
                    !.fresh = @ \cup w.gc \cup dst,
                    !.pending = NoWait]

\* The frame takes the result: a call a returned one, an invoke any.
Takes(w) == w.kind = "invoke" \/ (w.kind = "call" /\ result.ok)
Deliver ==
    LET w == Top.pending IN
    /\ mode = "deliver"
    /\ frames # <<>>
    /\ Takes(w)
    /\ IF w.safepoint /\ result.ok /\ ~Accepts(result.val)
       THEN /\ Fail("StaleRef")
            /\ frames' = WithTop([Top EXCEPT !.pending = NoWait])
            /\ UNCHANGED <<epoch, broken>>
       ELSE /\ IF w.safepoint THEN Collects ELSE UNCHANGED <<epoch, broken>>
            /\ frames' = WithTop(Resumed(w))
            /\ mode' = "run"
            /\ UNCHANGED outcome
    /\ result' = NoResult
    /\ UNCHANGED <<fuel, memory, sp, kept>>

\* An exception leaves a frame that does not wait with an invoke.
Unwinds == ~result.ok /\ Top.pending.kind # "invoke"
UnwindLeavingStack ==
    /\ mode = "deliver"
    /\ frames # <<>>
    /\ Unwinds
    /\ frames' = Below
    /\ UNCHANGED <<mode, result, outcome, fuel, epoch, broken, memory, sp, kept>>
Unwind ==
    /\ mode = "deliver"
    /\ frames # <<>>
    /\ Unwinds
    /\ frames' = Below
    /\ sp' = Top.mark
    /\ UNCHANGED <<mode, result, outcome, fuel, epoch, broken, memory, kept>>

\* No frame is left: the embedder gets the result.
Finish ==
    /\ mode = "deliver"
    /\ frames = <<>>
    /\ Fail(IF result.ok THEN "Return" ELSE "Unwind")
    /\ kept' \in {kept, result.val}
    /\ result' = NoResult
    /\ UNCHANGED <<frames, fuel, epoch, broken, memory, sp>>

------------------------------------------------------------------------------
(***************************************************************************)
(* The embedder: Interpreter::call drops the frames an error left behind   *)
(* and starts on an empty stack; in between it may allocate objects.       *)
(***************************************************************************)
RootCall(nogc, size, arg) ==
    /\ mode = "idle"
    /\ Push(<<>>, 0, nogc, FALSE, size, arg)
    /\ UNCHANGED <<result, fuel, epoch, broken, memory, kept>>

RootCallHost(arg) ==
    /\ mode = "idle"
    /\ frames' = <<>>
    /\ sp' = 0
    /\ HostRuns(0, arg)
    /\ UNCHANGED <<fuel, epoch, broken, cell>>

EmbedderAlloc ==
    /\ mode = "idle"
    /\ Alloc(sp)
    /\ kept' = NewRef
    /\ UNCHANGED <<frames, mode, result, outcome, fuel, epoch, broken, cell, sp>>

\* The edges taken: every parameter receives itself, or all the same value.
Copies == {[r \in Reg |-> r]} \cup {[r \in Reg |-> s] : s \in Reg}

Instruction ==
    \/ OutOfFuel
    \/ Trap
    \/ Resume
    \/ \E r \in Reg : LoadRef(r) \/ StoreRef(r) \/ Return(r)
    \/ \E w \in Words : StoreWord(w)
    \/ \E from \in Copies : TakeEdge(from)
    \/ \E gc \in SUBSET Reg : Safepoint(gc) \/ CallRefused(gc)
    \/ \E kind \in {"call", "invoke"}, arg, d \in Reg, gc \in SUBSET Reg,
          nogc \in BOOLEAN : \E safepoint \in Safepoints(nogc) :
          \/ CallHost(kind, safepoint, arg, gc, d)
          \/ \E size \in FrameSize : Call(kind, nogc, safepoint, size, arg, gc, d)
    \/ \E arg \in Reg, nogc \in BOOLEAN : \E safepoint \in Safepoints(nogc) :
          \/ TailCallHost(safepoint, arg)
          \/ \E size \in FrameSize : TailCall(nogc, safepoint, size, arg)

Machine == Instruction \/ Deliver \/ Unwind \/ Finish
Embedder ==
    \/ EmbedderAlloc
    \/ \E arg \in HandedIn :
          \/ RootCallHost(arg)
          \/ \E nogc \in BOOLEAN, size \in FrameSize : RootCall(nogc, size, arg)

Next == Machine \/ Embedder
Spec == Init /\ [][Next]_vars

\* Interpreter::call runs its loop until the call ends.
FairSpec == Spec /\ WF_vars(Machine)
=============================================================================
