----------------------------- MODULE FlatMemory -----------------------------
(***************************************************************************)
(* What the interpreter's memory promises: one byte for each address, of   *)
(* which an instruction changes those it names and no other.  Memory       *)
(* carries such a memory along and is compared with it.                    *)
(***************************************************************************)
EXTENDS Naturals, Sequences

Zone(addr, len) == addr .. addr + len - 1
FlatWrite(flat, addr, bytes) ==
    [x \in DOMAIN flat |-> IF x \in Zone(addr, Len(bytes)) THEN bytes[x - addr + 1] ELSE flat[x]]
FlatRead(flat, addr, len) == [k \in 1 .. len |-> flat[addr + k - 1]]
\* Every byte of the target is what its source was before the first was written.
FlatCopy(flat, dst, src, len) ==
    [x \in DOMAIN flat |-> IF x \in Zone(dst, len) THEN flat[src + (x - dst)] ELSE flat[x]]
FlatFill(flat, S, byte) == [x \in DOMAIN flat |-> IF x \in S THEN byte ELSE flat[x]]
=============================================================================
