---------------------------- MODULE InterpProps ----------------------------
(***************************************************************************)
(* What the interpreter's frames and references keep.                      *)
(***************************************************************************)
EXTENDS Interp

Ref == [hi : Nat, lo : Nat, obj : Nat, born : Nat]
Waiting == [kind : {"none", "call", "invoke"}, dst : SUBSET Reg, safepoint : BOOLEAN,
            gc : SUBSET Reg, idx : [Reg -> Nat]]
Frame == [nogc : BOOLEAN, claimed : BOOLEAN, mark : Nat, size : FrameSize,
          fresh : SUBSET Reg, regs : [Reg -> Ref], pending : Waiting]

\* The types of the variables: no reference is made for an object that was not
\* allocated or in an epoch that has not begun, and the heap stays inside memory.
TypeOK ==
    /\ frames \in Seq(Frame)
    /\ mode \in {"idle", "run", "deliver"}
    /\ result \in [ok : BOOLEAN, val : Ref]
    /\ outcome \in {"none", "Return", "Unwind", "Trap", "Fault", "Host", "StaleRef",
                    "NoObject", "StackOverflow", "OutOfMemory", "FuelExhausted"}
    /\ fuel \in 0..(FuelLimit + 1)
    /\ epoch \in Nat
    /\ objects \in Nat
    /\ cell \in Nat
    /\ sp \in Nat
    /\ floor \in 0..MemSize
    /\ kept \in Ref
    /\ kept.obj <= objects /\ kept.born <= epoch
    /\ broken \in BOOLEAN

\* A reference that decode_ref accepts as the object it was made for.
Names(v) == Accepts(v) /\ v.lo = v.obj

\* Every register the safepoint rules let a frame read, now or when its callee
\* is back, holds a reference that still decodes to the object it was made for:
\* a call that is no safepoint for its caller runs no safepoint further up, and
\* what a safepoint relocates or returns is minted in the new epoch
\* (exec.rs waiting, relocate, Safepoint).  Two promises the code cannot check
\* are presumed: the host hands in current references only, and no function has
\* collected that a call site claims nogc of without its being declared so
\* (typing.rs call_attrs takes the site's word).
FreshRefsName ==
    broken \/ \A i \in DOMAIN frames : \A r \in frames[i].fresh : Names(frames[i].regs[r])

\* No program the validator accepts uses a reference from before a safepoint
\* (InterpError::StaleRef in exec.rs relocate and waiting, mod.rs decode_ref),
\* on the same two promises: the host hands in current references only, and no
\* function has collected below an unfounded nogc of a call site.  The other
\* StaleRef, of a load of a word that numbers no object, is the outcome NoObject
\* and can befall any program that stores integers.
NoStaleUse == outcome = "StaleRef" => broken

\* While a function declared nogc is on the stack the epoch changes only inside
\* a call whose site claims nogc of a callee not declared so, or inside what that
\* callee tail calls (inst.rs NOGC: it never collects garbage; the validator,
\* typing.rs call_attrs, takes the word of a call site).
NogcKeepsEpochUnlessClaimed ==
    [][(\E i \in DOMAIN frames :
            /\ frames[i].nogc
            /\ \A j \in DOMAIN frames : j > i => ~frames[j].claimed)
         => epoch' = epoch]_vars

\* Every frame below the top waits for its callee, and the top frame waits
\* exactly while a result is on its way to it: no result finds a frame that
\* does not expect it (the BadArguments arms of exec.rs deliver), also after
\* tail calls and unwinding.
ResultsAreAwaited ==
    mode # "idle" => \A i \in DOMAIN frames :
        (frames[i].pending.kind = "none") <=> (i = Len(frames) /\ mode = "run")

\* The stack areas of the frames lie end to end from the base of the stack up
\* to sp, and the heap starts above: frames popped by returns, tail calls,
\* unwinding and failed pushes leave neither a gap nor an overlap (exec.rs
\* push_frame, pop_frame).
StackNests ==
    LET End(i) == IF i = 0 THEN 0 ELSE frames[i].mark + frames[i].size IN
    /\ \A i \in DOMAIN frames : frames[i].mark = End(i - 1)
    /\ sp = End(Len(frames))
    /\ sp <= floor

\* v is from an earlier epoch, and the epoch field still tells.
Older(v) == ~IsNull(v) /\ v.born < epoch /\ epoch < v.born + EpochRange

\* A reference from an earlier epoch is refused as long as fewer than
\* EpochRange epochs have begun since (mod.rs decode_ref).
StaleRefused ==
    \A v \in {kept} \cup {frames[i].regs[r] : i \in DOMAIN frames, r \in Reg} :
        Older(v) => ~Accepts(v)

\* When an epoch begins, every reference the top frame may read from then on is
\* current, even if the host handed in stale ones before (exec.rs relocate).
SafepointRefreshes ==
    [][epoch' # epoch =>
         (\A r \in Top.fresh : Accepts(Top.regs[r]))']_vars

\* Every call of the embedder ends: fuel bounds the steps, and unwinding pops
\* frames until one catches (exec.rs call, burn, deliver).
CallEnds == mode # "idle" ~> mode = "idle"
=============================================================================
