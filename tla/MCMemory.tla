------------------------------ MODULE MCMemory ------------------------------
(* Twelve bytes: two globals, frames of one or two slots, allocations of one to three. *)
EXTENDS MemoryProps

Global(size, align, init) == [size |-> size, align |-> align, init |-> init]
TwoGlobals == <<Global(1, 1, <<1>>), Global(0, 2, <<0>>)>>
Slot(size, align) == [size |-> size, align |-> align]
Frames == {<<>>, <<Slot(1, 1), Slot(2, 2)>>, <<Slot(0, 4)>>}
SomeAsks == {[size |-> 1, align |-> 0], [size |-> 2, align |-> 3], [size |-> 3, align |-> 1]}
SomePtrs == {2, 6, 7, 9, 10}
=============================================================================
