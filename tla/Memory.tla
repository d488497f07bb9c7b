------------------------------- MODULE Memory -------------------------------
(***************************************************************************)
(* The interpreter's address space (Memory in src/src/interp/mod.rs) under *)
(* the instructions and frames of src/src/interp/exec.rs: globals and the  *)
(* stack in a buffer that grows from the bottom, the heap in another that  *)
(* grows from the top, and one register that the instructions load and     *)
(* store.                                                                  *)
(*                                                                         *)
(* Bytes are numbers below ByteRange.  An instruction that fails leaves    *)
(* memory as it is and ends the call; the error is not kept, and the       *)
(* embedder may call again.  References and the other types of a register  *)
(* are in Interp and Values.  flat and flatReg are history.                *)
(***************************************************************************)
EXTENDS Integers, FlatMemory, SequencesExt

CONSTANTS
    Size,        \* Limits::memory
    Guard,       \* NULL_GUARD
    StackAlign,  \* the stack's, 16 in the code
    ByteRange,
    Globals,     \* [size, align, init] of each global, in order
    FrameSlots,  \* the lists of slots [size, align] a function may have
    Asks,        \* the sizes and alignments the host asks for
    Ptrs,        \* addresses the program comes by
    Lens,        \* lengths of a bulk operation
    Aligns,      \* alignments an access may state
    MaxDepth,
    MaxInsts       \* bound: instructions in a run

ASSUME MemoryAssumption ==
    /\ {Size, Guard, StackAlign, ByteRange, MaxDepth} \subseteq Nat \ {0}
    /\ Globals \in Seq([size : Nat, align : Nat, init : Seq(0 .. ByteRange - 1)])
    /\ \A k \in DOMAIN Globals :
         Len(Globals[k].init) = (IF Globals[k].size = 0 THEN 1 ELSE Globals[k].size)
    /\ FrameSlots \subseteq Seq([size : Nat, align : Nat])
    /\ Asks \subseteq [size : Nat, align : Nat]
    /\ Ptrs \cup Lens \cup Aligns \subseteq Nat

VARIABLES low, high,  \* the two buffers
          sp, floor,  \* end of the stack, start of the heap
          frames,     \* the frames' stack areas: where each began, and its slots
          allocs,     \* what the host was given
          reg,
          insts,      \* instructions so far
          flat, flatReg

vars == <<low, high, sp, floor, frames, allocs, reg, insts, flat, flatReg>>

AtLeast(a, b) == IF a < b THEN b ELSE a
AtMost(a, b) == IF a < b THEN a ELSE b
Up(a, align) == ((a + align - 1) \div align) * align
Down(a, align) == (a \div align) * align
Zeros(n) == [k \in 1 .. n |-> 0]
Area(addr, size) == [addr |-> addr, size |-> size]

\* with_limits: globals one after the other above the guard, then the stack.
GlobalAt ==
    LET at[k \in 1 .. Len(Globals)] ==
            Up(IF k = 1 THEN Guard ELSE at[k - 1] + AtLeast(Globals[k - 1].size, 1),
               AtLeast(Globals[k].align, 1))
    IN  at
GlobalsEnd ==
    IF Globals = <<>> THEN Guard
    ELSE GlobalAt[Len(Globals)] + AtLeast(Globals[Len(Globals)].size, 1)
StackBase == Up(GlobalsEnd, StackAlign)
ASSUME FitsAssumption == StackBase <= Size

------------------------------------------------------------------------------
(* The two buffers. *)

\* grow_low and grow_high: at least doubled, and never beyond the address space.  The
\* bottom buffer grows at its end, the top one at its front.
GrowLow(l, end) ==
    IF end <= Len(l) THEN l
    ELSE l \o Zeros(AtMost(AtLeast(end, 2 * Len(l)), Size) - Len(l))
GrownBehind(h, at) ==
    IF Size - at <= Len(h) THEN h
    ELSE h \o Zeros(AtMost(AtLeast(Size - at, 2 * Len(h)), Size) - Len(h))
GrowHigh(h, at) ==
    IF Size - at <= Len(h) THEN h
    ELSE Zeros(AtMost(AtLeast(Size - at, 2 * Len(h)), Size) - Len(h)) \o h

Put(buffer, at, bytes) ==
    [k \in DOMAIN buffer |-> IF k \in Zone(at + 1, Len(bytes)) THEN bytes[k - at] ELSE buffer[k]]
\* claim_stack: a slot is zeroed, whatever an earlier frame left there.
ClaimStack(l, addr, end) == Put(GrowLow(l, end), addr, Zeros(end - addr))

\* live: the range lies in the globals, in the stack or in the heap.
Live(addr, len) ==
    \/ addr >= Guard /\ addr + len <= GlobalsEnd
    \/ addr >= StackBase /\ addr + len <= sp
    \/ addr >= floor /\ addr + len <= Size

\* range and range_mut: the buffer an address is in, and its place there.
InLow(addr) == addr < floor
HighAt(addr) == addr - (Size - Len(high))
Backed(addr, len) ==
    IF InLow(addr) THEN addr + len <= Len(low) ELSE HighAt(addr) + len <= Len(high)
CanAccess(addr, len) == Live(addr, len) /\ Backed(addr, len)
Bytes(addr, len) ==
    IF InLow(addr) THEN SubSeq(low, addr + 1, addr + len)
    ELSE SubSeq(high, HighAt(addr) + 1, HighAt(addr) + len)

\* Memory::write
Write(addr, bytes) ==
    IF InLow(addr) THEN low' = Put(low, addr, bytes) /\ UNCHANGED high
    ELSE high' = Put(high, HighAt(addr), bytes) /\ UNCHANGED low

\* init_globals: the lower buffer after the first k globals.
InitGlobals ==
    LET filled[k \in 0 .. Len(Globals)] ==
            IF k = 0 THEN GrowLow(<<>>, GlobalsEnd)
            ELSE Put(filled[k - 1], GlobalAt[k], Globals[k].init)
    IN  filled

Init ==
    /\ reg = 0 /\ flatReg = 0 /\ insts = 0
    /\ frames = <<>> /\ allocs = {}
    /\ sp = StackBase /\ floor = Size
    /\ high = <<>>
    /\ low = InitGlobals[Len(Globals)]
    /\ flat = [x \in 0 .. Size - 1 |-> IF x < Len(low) THEN low[x + 1] ELSE 0]

------------------------------------------------------------------------------
(* The heap and the stack. *)

\* Memory::alloc.  The floor is rounded down; the heap may touch the stack.
PowerOfTwo(n) ==
    LET doubled[k \in 0 .. n] ==
            IF k = 0 THEN 1
            ELSE IF doubled[k - 1] < n THEN 2 * doubled[k - 1] ELSE doubled[k - 1]
    IN  doubled[n]
NewFloor(ask) == Down(floor - ask.size, PowerOfTwo(AtLeast(ask.align, 1)))
FloorAboveSlots(ask) == ask.size <= floor /\ floor - ask.size >= AtLeast(sp, GlobalsEnd)
HeapFits(ask) == ask.size <= floor /\ NewFloor(ask) >= AtLeast(sp, GlobalsEnd)
Alloc ==
    \E ask \in Asks :
        /\ HeapFits(ask)
        /\ high' = GrowHigh(high, NewFloor(ask))
        /\ floor' = NewFloor(ask)
        /\ allocs' = allocs \cup {Area(NewFloor(ask), ask.size) }
        /\ flat' = FlatFill(flat, NewFloor(ask) .. floor - 1, 0)
        /\ UNCHANGED <<low, sp, frames, reg, insts, flatReg>>

\* push_frame: the slots in order.  When one does not fit the stack pointer goes back,
\* but the slots before it have been zeroed.
PlaceSlot(s, slot) ==
    LET addr == Up(s.sp, AtLeast(slot.align, 1))
        end == addr + AtLeast(slot.size, 1)
    IN  IF ~s.ok \/ end > floor THEN [ok |-> FALSE, sp |-> s.sp, low |-> s.low, slots |-> s.slots]
        ELSE [ok |-> TRUE, sp |-> end, low |-> ClaimStack(s.low, addr, end),
              slots |-> Append(s.slots, Area(addr, end - addr))]
Placed(slots) ==
    LET placed[k \in 0 .. Len(slots)] ==
            IF k = 0 THEN [ok |-> TRUE, sp |-> sp, low |-> low, slots |-> <<>>]
            ELSE PlaceSlot(placed[k - 1], slots[k])
    IN  placed
PlaceSlots(slots) == Placed(slots)[Len(slots)]
Push ==
    /\ Len(frames) < MaxDepth
    /\ \E slots \in FrameSlots : \E placed \in {PlaceSlots(slots)} :
          /\ low' = placed.low
          /\ IF placed.ok
             THEN /\ sp' = placed.sp
                  /\ frames' = Append(frames, [mark |-> sp, slots |-> placed.slots])
             ELSE UNCHANGED <<sp, frames>>
          /\ flat' = FlatFill(flat, UNION {Zone(a.addr, a.size) : a \in ToSet(placed.slots)}, 0)
    /\ UNCHANGED <<high, floor, allocs, reg, insts, flatReg>>
Pop ==
    /\ frames # <<>>
    /\ sp' = Last(frames).mark
    /\ frames' = Front(frames)
    /\ UNCHANGED <<low, high, floor, allocs, reg, insts, flat, flatReg>>

------------------------------------------------------------------------------
(* Instructions. *)

\* The value of bytes in little-endian order, and back.
Bits(bytes) == FoldRight(LAMBDA b, acc : b + ByteRange * acc, bytes, 0)
ToBytes(bits, size) == [k \in 1 .. size |-> (bits \div ByteRange ^ (k - 1)) % ByteRange]
Sizes == {1, 2}
Aligned(addr, align) == align <= 1 \/ addr % align = 0

Counted == insts < MaxInsts /\ insts' = insts + 1
Const ==
    /\ Counted
    /\ reg' \in 0 .. ByteRange ^ 2 - 1
    /\ flatReg' = reg'
    /\ UNCHANGED <<low, high, sp, floor, frames, allocs, flat>>

Load ==
    Counted /\ \E addr \in Ptrs, size \in Sizes, align \in Aligns :
        /\ Aligned(addr, align) /\ CanAccess(addr, size)
        /\ reg' = Bits(Bytes(addr, size))
        /\ flatReg' = Bits(FlatRead(flat, addr, size))
        /\ UNCHANGED <<low, high, sp, floor, frames, allocs, flat>>

Kept == UNCHANGED <<sp, floor, frames, allocs>>
Store ==
    Counted /\ \E addr \in Ptrs, size \in Sizes, align \in Aligns :
        /\ Aligned(addr, align) /\ CanAccess(addr, size)
        /\ Write(addr, ToBytes(reg, size))
        /\ flat' = FlatWrite(flat, addr, ToBytes(flatReg, size))
        /\ Kept /\ UNCHANGED <<reg, flatReg>>

\* An atomic access is aligned to its size.  The old value comes back; what it is
\* combined with is the register, cut to the type.
Rmw(op, old, v, m) ==
    CASE op = "xchg" -> v
      [] op = "add" -> (old + v) % m
      [] op = "sub" -> (old - v) % m
      [] op = "max" -> AtLeast(old, v)
      [] op = "min" -> AtMost(old, v)
AtomicRmw ==
    Counted /\ \E addr \in Ptrs, size \in Sizes, op \in {"xchg", "add", "sub", "max", "min"} :
        /\ Aligned(addr, size) /\ CanAccess(addr, size)
        /\ LET m == ByteRange ^ size
               old == Bits(Bytes(addr, size))
               was == Bits(FlatRead(flat, addr, size))
           IN  /\ reg' = old
               /\ flatReg' = was
               /\ Write(addr, ToBytes(Rmw(op, old, reg % m, m), size))
               /\ flat' = FlatWrite(flat, addr, ToBytes(Rmw(op, was, flatReg % m, m), size))
        /\ Kept

\* The register is what is expected; the new value is a constant.
CmpXchg ==
    Counted /\ \E addr \in Ptrs, size \in Sizes : \E new \in 0 .. ByteRange ^ size - 1 :
        /\ Aligned(addr, size) /\ CanAccess(addr, size)
        /\ reg < ByteRange ^ size
        /\ reg' = Bits(Bytes(addr, size))
        /\ flatReg' = Bits(FlatRead(flat, addr, size))
        /\ IF reg = reg' THEN Write(addr, ToBytes(new, size)) ELSE UNCHANGED <<low, high>>
        /\ flat' = IF flatReg = flatReg' THEN FlatWrite(flat, addr, ToBytes(new, size)) ELSE flat
        /\ Kept

\* mem_copy refuses an overlap, mem_move does not; both take the source out first.
Overlap(d, s, n) == n > 0 /\ d < s + n /\ s < d + n
Moved(d, s, n) == Bytes(s, n)
MemCopy ==
    Counted /\ \E d, s \in Ptrs, n \in Lens, align \in Aligns, move \in BOOLEAN :
        /\ Aligned(d, align) /\ Aligned(s, align)
        /\ ~move => ~Overlap(d, s, n)
        /\ CanAccess(s, n) /\ CanAccess(d, n)
        /\ Write(d, Moved(d, s, n))
        /\ flat' = FlatCopy(flat, d, s, n)
        /\ Kept /\ UNCHANGED <<reg, flatReg>>
MemSet ==
    Counted /\ \E d \in Ptrs, n \in Lens, align \in Aligns :
        /\ Aligned(d, align) /\ CanAccess(d, n)
        /\ Write(d, [k \in 1 .. n |-> reg % ByteRange])
        /\ flat' = FlatFill(flat, Zone(d, n), flatReg % ByteRange)
        /\ Kept /\ UNCHANGED <<reg, flatReg>>

Next ==
    \/ Alloc \/ Push \/ Pop
    \/ Const \/ Load \/ Store \/ AtomicRmw \/ CmpXchg \/ MemCopy \/ MemSet
Spec == Init /\ [][Next]_vars
=============================================================================
