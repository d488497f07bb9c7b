----------------------------- MODULE MemoryProps -----------------------------
(* What the address space promises. *)
EXTENDS Memory

\* Every live byte is the one last written to its address, or zero in a slot or an
\* allocation since it was made, and so is every value loaded: whatever buffer the
\* address is in, however the buffers have grown, and whatever frames were there
\* before.  (grow_high moves the heap's bytes; claim_stack zeroes; mem_move overlaps.)
BytesFlat ==
    /\ reg = flatReg
    /\ \A x \in 0 .. Size - 1 : Live(x, 1) => CanAccess(x, 1) /\ Bytes(x, 1) = <<flat[x]>>

\* Globals, the slots of all frames and the host's allocations: where they are.
GlobalAreas == {Area(GlobalAt[k], AtLeast(Globals[k].size, 1)) : k \in DOMAIN Globals}
SlotAreas == UNION {ToSet(frames[k].slots) : k \in DOMAIN frames}
Places == GlobalAreas \cup SlotAreas \cup allocs

\* No two of them share a byte, each is accessible as a whole, and none lies in the
\* guard at address zero.  (with_limits, push_frame and alloc round in different
\* directions and compare with one another's ends.)
AreasApart ==
    /\ \A a, b \in Places :
          a # b => Zone(a.addr, a.size) \cap Zone(b.addr, b.size) = {}
    /\ \A a \in Places : a.addr >= Guard /\ CanAccess(a.addr, a.size)
    /\ sp <= floor
=============================================================================
