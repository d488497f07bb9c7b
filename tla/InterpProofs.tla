---------------------------- MODULE InterpProofs ----------------------------
(***************************************************************************)
(* Proofs about the interpreter, for every size of its limits, in three    *)
(* parts with an inductive invariant each.                                 *)
(*                                                                         *)
(* Part one, for any program the validator accepts and any host: the stack *)
(* areas nest, every result finds a frame that waits for it, and under a   *)
(* nogc function an epoch begins only where a call site claimed nogc of a  *)
(* callee that is not declared so.  Part two, on a host that hands in      *)
(* current references: until such a claim is broken no program meets a     *)
(* stale one, as long as memory has no room for more objects than the      *)
(* index field can number.  Part three, for any program and host under     *)
(* that last condition: types, old references are refused, and an epoch    *)
(* begins with current ones.                                               *)
(*                                                                         *)
(* The invariants are stated of a stack of frames fs (an epoch e, a number *)
(* of objects n), so that one lemma serves before and after a step.        *)
(***************************************************************************)
EXTENDS InterpProps, SequenceTheorems, TLAPS

------------------------------------------------------------------------------
(***************************************************************************)
(* Part one: the frames, whatever the program claims and the host hands in.*)
(***************************************************************************)
\* A frame has these fields, whatever its registers hold.
IsFrame(f) ==
    /\ f = [nogc |-> f.nogc, claimed |-> f.claimed, mark |-> f.mark,
            size |-> f.size, fresh |-> f.fresh,
            regs |-> f.regs, pending |-> f.pending]
    /\ f.mark \in Nat /\ f.size \in Nat

IsStack(fs) ==
    /\ \E S : fs \in Seq(S)
    /\ \A i \in 1..Len(fs) : IsFrame(fs[i])

\* The areas of the stack fs lie end to end and the last one ends at mark.
EndOf(fs, i) == IF i = 0 THEN 0 ELSE fs[i].mark + fs[i].size
Nests(fs, mark) ==
    /\ \A i \in 1..Len(fs) : fs[i].mark = EndOf(fs, i - 1)
    /\ mark = EndOf(fs, Len(fs))

\* Among the frames after the i-th up to the j-th there is a claimed one.
Claimed(fs, i, j) == \E k \in (i + 1)..j : fs[k].claimed

\* Above a frame that waits at no safepoint there are only functions declared
\* nogc, up to the first one that a call site claims nogc of.
Quiet(fs) ==
    /\ \A i \in 1..Len(fs) : fs[i].nogc => ~fs[i].pending.safepoint
    /\ \A i, j \in 1..Len(fs) :
         i < j /\ ~fs[i].pending.safepoint => fs[j].nogc \/ Claimed(fs, i, j)

\* A frame that goes on top of fs may be so.
Vouched(fs, nogc, claimed) ==
    \A i \in 1..Len(fs) :
        ~fs[i].pending.safepoint => nogc \/ claimed \/ Claimed(fs, i, Len(fs))

Waits(f) == f.pending.kind # "none"
AllWait(fs) == \A i \in 1..Len(fs) : Waits(fs[i])
Running(fs) ==
    /\ fs # <<>>
    /\ \A i \in 1..(Len(fs) - 1) : Waits(fs[i])
    /\ ~Waits(fs[Len(fs)])

FrameInv ==
    /\ IsStack(frames)
    /\ Nests(frames, sp)
    /\ Quiet(frames)
    /\ sp \in Nat /\ floor \in Nat /\ sp <= floor
    /\ mode \in {"idle", "run", "deliver"}
    /\ mode = "run" => Running(frames)
    /\ mode = "deliver" => AllWait(frames)

\* A frame is in the set of records with its own fields.
LEMMA FrameFields ==
    ASSUME NEW f, IsFrame(f)
    PROVE  f \in [nogc : {f.nogc}, claimed : {f.claimed}, mark : {f.mark},
                  size : {f.size}, fresh : {f.fresh},
                  regs : {f.regs}, pending : {f.pending}]
BY DEF IsFrame

\* The top frame and the stack below it.
LEMMA PopStack ==
    ASSUME IsStack(frames), frames # <<>>
    PROVE  /\ Len(frames) \in Nat \ {0}
           /\ IsFrame(Top)
           /\ IsStack(Below)
           /\ Len(Below) = Len(frames) - 1
           /\ \A i \in 1..Len(Below) : Below[i] = frames[i]
<1>1. PICK S : frames \in Seq(S)
  BY DEF IsStack
<1>2. Len(frames) \in Nat \ {0}
  BY <1>1
<1> DEFINE k == Len(frames) - 1
<1>3. k \in Nat /\ \A i \in 1..k : frames[i] \in S
  BY <1>1, <1>2
<1>4. Below = SubSeq(frames, 1, k)
  BY DEF Below
<1>5. /\ SubSeq(frames, 1, k) \in Seq(S)
      /\ Len(SubSeq(frames, 1, k)) = IF 1 <= k THEN k - 1 + 1 ELSE 0
      /\ \A i \in 1..(k - 1 + 1) : SubSeq(frames, 1, k)[i] = frames[1 + i - 1]
  <2> HIDE DEF k
  <2> QED  BY <1>1, <1>3, SubSeqProperties, 1 \in Int
<1>6. Below \in Seq(S) /\ Len(Below) = k /\ \A i \in 1..k : Below[i] = frames[i]
  <2> HIDE DEF k
  <2>1. k - 1 + 1 = k /\ (IF 1 <= k THEN k - 1 + 1 ELSE 0) = k /\ \A i \in 1..k : 1 + i - 1 = i
    BY <1>3
  <2> QED  BY <1>4, <1>5, <2>1
<1>7. \A i \in 1..Len(Below) : IsFrame(Below[i])
  BY <1>2, <1>6 DEF IsStack
<1> QED
  BY <1>2, <1>6, <1>7 DEF IsStack, Top

\* Popping the top frame gives its area back.
LEMMA PopNests ==
    ASSUME IsStack(frames), frames # <<>>, Nests(frames, sp), sp \in Nat
    PROVE  Nests(Below, Top.mark) /\ Top.mark \in Nat /\ Top.mark <= sp
<1>1. /\ Len(frames) \in Nat \ {0} /\ IsFrame(Top) /\ Len(Below) = Len(frames) - 1
      /\ \A i \in 1..Len(Below) : Below[i] = frames[i]
  BY PopStack
<1>2. Top = frames[Len(frames)] /\ Top.mark = EndOf(frames, Len(frames) - 1)
      /\ sp = Top.mark + Top.size
  BY <1>1 DEF Top, Nests, EndOf
<1>3. Nests(Below, Top.mark)
  BY SMTT(30), <1>1, <1>2 DEF Nests, EndOf
<1> QED
  BY <1>1, <1>2, <1>3 DEF IsFrame

\* A stack with another top frame in the same area.
LEMMA ReplaceStack ==
    ASSUME IsStack(frames), frames # <<>>, Nests(frames, sp),
           NEW f, IsFrame(f), f.mark = Top.mark, f.size = Top.size
    PROVE  /\ IsStack(WithTop(f)) /\ Nests(WithTop(f), sp)
           /\ Len(WithTop(f)) = Len(frames)
           /\ WithTop(f)[Len(frames)] = f
           /\ \A i \in 1..(Len(frames) - 1) : WithTop(f)[i] = frames[i]
<1>1. PICK S : frames \in Seq(S)
  BY DEF IsStack
<1>2. Len(frames) \in Nat \ {0} /\ frames \in Seq(S \cup {f})
  <2>1. frames \in [1..Len(frames) -> S] /\ Len(frames) \in Nat \ {0}
    BY <1>1
  <2>2. frames \in [1..Len(frames) -> S \cup {f}]
    BY <2>1
  <2> QED  BY <2>1, <2>2
<1>3. /\ WithTop(f) \in Seq(S \cup {f})
      /\ Len(WithTop(f)) = Len(frames)
      /\ WithTop(f)[Len(frames)] = f
      /\ \A i \in 1..(Len(frames) - 1) : WithTop(f)[i] = frames[i]
  BY <1>2 DEF WithTop
<1>4. IsStack(WithTop(f))
  BY <1>2, <1>3 DEF IsStack
<1>5. \A i \in 0..Len(frames) : EndOf(WithTop(f), i) = EndOf(frames, i)
  BY <1>2, <1>3 DEF EndOf, Top
<1>6. Nests(WithTop(f), sp)
  <2>1. \A i \in 1..Len(frames) : WithTop(f)[i].mark = frames[i].mark
    BY <1>2, <1>3 DEF Top
  <2>2. \A i \in 1..Len(frames) : i - 1 \in 0..Len(frames)
    BY <1>2
  <2> QED  BY <1>2, <1>3, <1>5, <2>1, <2>2 DEF Nests
<1> QED
  BY <1>3, <1>4, <1>6

\* A stack with one frame more, whose area begins where the last one ended.
LEMMA AppendStack ==
    ASSUME NEW fs, IsStack(fs), NEW mark, Nests(fs, mark), NEW g, IsFrame(g), g.mark = mark
    PROVE  /\ IsStack(Append(fs, g)) /\ Nests(Append(fs, g), mark + g.size)
           /\ Len(Append(fs, g)) = Len(fs) + 1 /\ Len(fs) \in Nat
           /\ Append(fs, g)[Len(fs) + 1] = g
           /\ \A i \in 1..Len(fs) : Append(fs, g)[i] = fs[i]
<1>1. PICK S : fs \in Seq(S)
  BY DEF IsStack
<1>2. Len(fs) \in Nat /\ fs \in Seq(S \cup {g})
  <2>1. fs \in [1..Len(fs) -> S] /\ Len(fs) \in Nat
    BY <1>1
  <2>2. fs \in [1..Len(fs) -> S \cup {g}]
    BY <2>1
  <2> QED  BY <2>1, <2>2
<1>3. /\ Append(fs, g) \in Seq(S \cup {g})
      /\ Len(Append(fs, g)) = Len(fs) + 1
      /\ Append(fs, g)[Len(fs) + 1] = g
      /\ \A i \in 1..Len(fs) : Append(fs, g)[i] = fs[i]
  BY <1>2
<1>4. IsStack(Append(fs, g))
  BY <1>2, <1>3 DEF IsStack
<1>5. \A i \in 0..Len(fs) : EndOf(Append(fs, g), i) = EndOf(fs, i)
  BY <1>2, <1>3 DEF EndOf
<1>6. Nests(Append(fs, g), mark + g.size)
  BY <1>2, <1>3, <1>5 DEF Nests, EndOf
<1> QED
  BY <1>2, <1>3, <1>4, <1>6

\* What is left under the top frame, and what may be put there.
LEMMA QuietPop ==
    ASSUME IsStack(frames), frames # <<>>, Quiet(frames)
    PROVE  Quiet(Below) /\ Vouched(Below, Top.nogc, Top.claimed)
<1>1. /\ Len(frames) \in Nat \ {0} /\ Len(Below) = Len(frames) - 1 /\ Len(Below) \in Nat
      /\ \A i \in 1..Len(Below) : Below[i] = frames[i]
  BY PopStack
<1>2. ASSUME NEW i \in 1..Len(Below), NEW j \in 1..Len(Below)
      PROVE  Claimed(Below, i, j) <=> Claimed(frames, i, j)
  BY <1>1 DEF Claimed
<1>3. Quiet(Below)
  BY <1>1, <1>2 DEF Quiet
<1>4. ASSUME NEW i \in 1..Len(Below), ~Below[i].pending.safepoint
      PROVE  Top.nogc \/ Top.claimed \/ Claimed(Below, i, Len(Below))
  <2>1. frames[Len(frames)].nogc \/ Claimed(frames, i, Len(frames))
    BY <1>1, <1>4 DEF Quiet
  <2>2. Claimed(frames, i, Len(frames))
        <=> frames[Len(frames)].claimed \/ Claimed(frames, i, Len(frames) - 1)
    BY <1>1 DEF Claimed
  <2>3. i \in Nat /\ Len(Below) \in 1..Len(Below)
    BY <1>1
  <2>4. Claimed(Below, i, Len(Below)) <=> Claimed(frames, i, Len(Below))
    BY <1>2, <2>3
  <2> QED  BY <1>1, <2>1, <2>2, <2>4 DEF Top
<1> QED
  BY <1>3, <1>4 DEF Vouched

\* The top frame replaced by one of the same function.
LEMMA QuietTop ==
    ASSUME IsStack(frames), frames # <<>>, Nests(frames, sp), Quiet(frames),
           NEW f, IsFrame(f), f.mark = Top.mark, f.size = Top.size,
           f.nogc = Top.nogc, f.claimed = Top.claimed, f.nogc => ~f.pending.safepoint
    PROVE  Quiet(WithTop(f))
<1> DEFINE gs == WithTop(f)
<1>1. /\ Len(frames) \in Nat \ {0} /\ Len(gs) = Len(frames) /\ gs[Len(frames)] = f
      /\ \A i \in 1..(Len(frames) - 1) : gs[i] = frames[i]
  BY PopStack, ReplaceStack
<1> HIDE DEF gs
<1>2. \A i \in 1..Len(frames) : gs[i].claimed = frames[i].claimed /\ gs[i].nogc = frames[i].nogc
  BY <1>1 DEF Top
<1>3. ASSUME NEW i \in 1..Len(frames), NEW j \in 1..Len(frames)
      PROVE  Claimed(gs, i, j) <=> Claimed(frames, i, j)
  BY <1>1, <1>2 DEF Claimed
<1>4. \A i \in 1..Len(frames) : gs[i].nogc => ~gs[i].pending.safepoint
  BY <1>1 DEF Quiet
<1>5. ASSUME NEW i \in 1..Len(frames), NEW j \in 1..Len(frames), i < j,
             ~gs[i].pending.safepoint
      PROVE  gs[j].nogc \/ Claimed(gs, i, j)
  <2>1. gs[i] = frames[i]
    BY <1>1, <1>5
  <2> QED  BY <1>2, <1>3, <1>5, <2>1 DEF Quiet
<1>6. Quiet(gs)
  BY <1>1, <1>4, <1>5 DEF Quiet
<1> QED
  BY <1>6 DEF gs

\* What a step leaves when it ends the call of the embedder, or goes on
\* delivering, with the frames fs and the stack ending at mark.
Left(fs, mark) ==
    /\ IsStack(fs) /\ Nests(fs, mark) /\ mark \in Nat /\ Quiet(fs)

\* push_frame: the new frame is vouched for.
LEMMA QuietPush ==
    ASSUME NEW fs, NEW mark, Left(fs, mark), Quiet(fs),
           NEW nogc, NEW claimed, NEW size \in FrameSize, NEW arg, Vouched(fs, nogc, claimed),
           Push(fs, mark, nogc, claimed, size, arg)
    PROVE  Quiet(frames')
<1>1. CASE frames' = fs
  BY <1>1
<1>2. CASE \E p \in Reg :
        frames' = Append(fs, [nogc |-> nogc, claimed |-> claimed, mark |-> mark,
                              size |-> size,
            fresh |-> {p}, regs |-> [r \in Reg |-> IF r = p THEN arg ELSE Null],
            pending |-> NoWait])
  <2>1. PICK p \in Reg :
        frames' = Append(fs, [nogc |-> nogc, claimed |-> claimed, mark |-> mark,
                              size |-> size,
            fresh |-> {p}, regs |-> [r \in Reg |-> IF r = p THEN arg ELSE Null],
            pending |-> NoWait])
    BY <1>2
  <2> DEFINE g == [nogc |-> nogc, claimed |-> claimed, mark |-> mark, size |-> size,
                   fresh |-> {p}, regs |-> [r \in Reg |-> IF r = p THEN arg ELSE Null],
                   pending |-> NoWait]
  <2>2. IsFrame(g) /\ g.mark = mark /\ g.nogc = nogc /\ g.claimed = claimed
        /\ ~g.pending.safepoint
    BY LimitAssumption DEF IsFrame, NoWait, Left
  <2>3. frames' = Append(fs, g)
    BY <2>1
  <2> HIDE DEF g
  <2> DEFINE n == Len(fs)
             gs == Append(fs, g)
  <2>4. /\ n \in Nat /\ Len(gs) = n + 1 /\ gs[n + 1] = g
        /\ \A i \in 1..n : gs[i] = fs[i]
    BY <2>2, AppendStack DEF Left
  <2> HIDE DEF gs, n
  <2>5. ASSUME NEW i \in 1..n, NEW j \in 1..n PROVE Claimed(gs, i, j) <=> Claimed(fs, i, j)
    BY <2>4 DEF Claimed
  <2>6. ASSUME NEW i \in 1..n, ~gs[i].pending.safepoint
        PROVE  gs[n + 1].nogc \/ Claimed(gs, i, n + 1)
    <3>1. nogc \/ claimed \/ Claimed(fs, i, n)
      BY <2>4, <2>6 DEF Vouched, n
    <3>2. gs[n + 1].claimed \/ Claimed(gs, i, n) => Claimed(gs, i, n + 1)
      BY <2>4 DEF Claimed
    <3>3. n \in 1..n
      BY <2>4
    <3> QED  BY <2>2, <2>4, <2>5, <3>1, <3>2, <3>3
  <2>7. Quiet(gs)
    <3>1. \A i \in 1..(n + 1) : gs[i].nogc => ~gs[i].pending.safepoint
      BY <2>2, <2>4 DEF Quiet, n
    <3>2. ASSUME NEW i \in 1..(n + 1), NEW j \in 1..(n + 1), i < j, ~gs[i].pending.safepoint
          PROVE  gs[j].nogc \/ Claimed(gs, i, j)
      <4>1. CASE j = n + 1
        BY <2>4, <2>6, <3>2, <4>1
      <4>2. CASE j \in 1..n
        <5>1. i \in 1..n /\ gs[i] = fs[i] /\ gs[j] = fs[j]
          BY <2>4, <3>2, <4>2
        <5> QED  BY <2>5, <3>2, <4>2, <5>1 DEF Quiet, n
      <4> QED  BY <2>4, <4>1, <4>2
    <3> QED  BY <2>4, <3>1, <3>2 DEF Quiet
  <2> QED  BY <2>3, <2>7 DEF gs
<1> QED
  BY <1>1, <1>2 DEF Push

\* push_frame, whether it pushes or fails.
LEMMA PushStack ==
    ASSUME NEW fs, NEW mark, Left(fs, mark), AllWait(fs), mark <= floor, floor \in Nat,
           NEW nogc, NEW claimed, NEW size \in FrameSize, NEW arg, Vouched(fs, nogc, claimed),
           Push(fs, mark, nogc, claimed, size, arg), floor' = floor
    PROVE  FrameInv'
<1>1. CASE Len(fs) >= MaxDepth \/ mark + size > floor
  <2>1. frames' = fs /\ sp' = mark /\ mode' = "idle"
    BY <1>1 DEF Push, Fail
  <2> QED  BY <2>1 DEF FrameInv, Left
<1>2. CASE ~(Len(fs) >= MaxDepth) /\ ~(mark + size > floor)
  <2>1. PICK p \in Reg :
          frames' = Append(fs, [nogc |-> nogc, claimed |-> claimed, mark |-> mark,
                                size |-> size, fresh |-> {p},
              regs |-> [r \in Reg |-> IF r = p THEN arg ELSE Null], pending |-> NoWait])
    BY <1>2 DEF Push
  <2> DEFINE g == [nogc |-> nogc, claimed |-> claimed, mark |-> mark,
                   size |-> size, fresh |-> {p},
              regs |-> [r \in Reg |-> IF r = p THEN arg ELSE Null], pending |-> NoWait]
  <2>2. sp' = mark + size /\ mode' = "run" /\ size \in Nat /\ mark \in Nat
    BY <1>2, LimitAssumption DEF Push, Left
  <2>3. IsFrame(g) /\ g.mark = mark /\ g.size = size /\ ~Waits(g)
    BY <2>2 DEF IsFrame, Waits, NoWait
  <2>4. frames' = Append(fs, g)
    BY <2>1
  <2> HIDE DEF g
  <2>5. /\ IsStack(frames') /\ Nests(frames', sp')
        /\ Len(frames') = Len(fs) + 1 /\ Len(fs) \in Nat
        /\ frames'[Len(fs) + 1] = g
        /\ \A i \in 1..Len(fs) : frames'[i] = fs[i]
    BY <2>2, <2>3, <2>4, AppendStack DEF Left
  <2>6. Running(frames')
    <3>1. frames' # <<>>
      BY <2>5
    <3> QED  BY <2>3, <2>5, <3>1 DEF Running, AllWait
  <2>7. sp' \in Nat /\ sp' <= floor
    BY <1>2, <2>2
  <2>8. Quiet(frames')
    BY QuietPush DEF Left
  <2> QED  BY <2>2, <2>5, <2>6, <2>7, <2>8 DEF FrameInv
<1> QED
  BY <1>1, <1>2

\* The top frame of a running stack, and what waits below.
LEMMA RunningTop ==
    ASSUME FrameInv, mode = "run"
    PROVE  /\ frames # <<>> /\ Len(frames) \in Nat \ {0} /\ IsFrame(Top)
           /\ ~Waits(Top)
           /\ AllWait(Below)
           /\ Left(Below, Top.mark) /\ Top.mark <= floor
           /\ Left(frames, sp) /\ sp <= floor /\ floor \in Nat
           /\ Vouched(Below, Top.nogc, Top.claimed)
           /\ Top.nogc => ~Top.pending.safepoint
<1>1. frames # <<>> /\ IsStack(frames) /\ Nests(frames, sp) /\ sp \in Nat
      /\ Quiet(frames)
  BY DEF FrameInv, Running
<1>2. /\ Len(frames) \in Nat \ {0} /\ IsFrame(Top) /\ IsStack(Below)
      /\ Len(Below) = Len(frames) - 1
      /\ \A i \in 1..Len(Below) : Below[i] = frames[i]
  BY <1>1, PopStack
<1>3. Nests(Below, Top.mark) /\ Top.mark \in Nat /\ Top.mark <= sp
  BY <1>1, PopNests
<1>4. ~Waits(Top) /\ AllWait(Below)
  BY <1>2 DEF FrameInv, Running, AllWait, Top
<1>5. Quiet(Below) /\ Vouched(Below, Top.nogc, Top.claimed)
      /\ (Top.nogc => ~Top.pending.safepoint)
  BY <1>1, <1>2, QuietPop DEF Quiet, Top
<1> QED
  BY <1>1, <1>2, <1>3, <1>4, <1>5 DEF FrameInv, Left

\* A running top frame that is replaced, and still runs.
LEMMA RunOnStack ==
    ASSUME FrameInv, mode = "run", UNCHANGED <<mode, sp, floor>>,
           NEW f, frames' = WithTop(f), IsFrame(f), f.mark = Top.mark, f.size = Top.size,
           f.nogc = Top.nogc, f.claimed = Top.claimed, f.pending = Top.pending
    PROVE  FrameInv'
<1>1. /\ frames # <<>> /\ IsStack(frames) /\ Nests(frames, sp) /\ Len(frames) \in Nat \ {0}
      /\ Quiet(frames) /\ ~Waits(f) /\ (f.nogc => ~f.pending.safepoint)
  BY RunningTop DEF Left, Waits
<1>2. /\ IsStack(frames') /\ Nests(frames', sp)
      /\ Len(frames') = Len(frames)
      /\ frames'[Len(frames)] = f
      /\ \A i \in 1..(Len(frames) - 1) : frames'[i] = frames[i]
  BY <1>1, ReplaceStack
<1>3. Running(frames')
  <2>1. frames' # <<>>
    BY <1>1, <1>2
  <2> QED  BY <1>1, <1>2, <2>1 DEF FrameInv, Running
<1>4. Quiet(frames')
  BY <1>1, QuietTop
<1> QED
  BY <1>2, <1>3, <1>4 DEF FrameInv

\* A caller that waits, and the frames below it.
LEMMA WaiterStack ==
    ASSUME FrameInv, mode = "run", NEW kind \in {"call", "invoke"},
           NEW arg, NEW d, NEW nogc, NEW safepoint, NEW gc, MayCall(arg, gc, safepoint)
    PROVE  LET fs == WithTop(Waiter(kind, d, safepoint, gc))
           IN  Left(fs, sp) /\ AllWait(fs) /\ Vouched(fs, nogc, Claims(nogc, safepoint))
<1> DEFINE f == Waiter(kind, d, safepoint, gc)
           fs == WithTop(f)
           w == Wait(kind, d, safepoint, gc)
<1>1. frames # <<>> /\ Left(frames, sp) /\ Len(frames) \in Nat \ {0} /\ IsFrame(Top)
  BY RunningTop
<1>2. /\ IsFrame(f) /\ f.mark = Top.mark /\ f.size = Top.size
      /\ f.nogc = Top.nogc /\ f.claimed = Top.claimed /\ f.pending = w
  <2> DEFINE F == IF safepoint THEN {} ELSE Top.fresh
  <2>1. f = [Top EXCEPT !.pending = w, !.fresh = F]
    BY <1>1 DEF Waiter, IsFrame
  <2> HIDE DEF f, w, F
  <2>2. Top \in [nogc : {Top.nogc}, claimed : {Top.claimed}, mark : {Top.mark},
                 size : {Top.size}, fresh : {Top.fresh}, regs : {Top.regs},
                 pending : {Top.pending}]
    BY <1>1, FrameFields
  <2>3. f \in [nogc : {Top.nogc}, claimed : {Top.claimed}, mark : {Top.mark},
               size : {Top.size}, fresh : {F}, regs : {Top.regs}, pending : {w}]
    BY <2>1, <2>2
  <2> QED  BY <1>1, <2>3 DEF IsFrame
<1>3. w.kind = kind /\ w.safepoint = safepoint
  BY DEF Wait
<1> HIDE DEF f, w
<1>4. Waits(f) /\ (f.nogc => ~f.pending.safepoint)
  BY <1>2, <1>3 DEF Waits, MayCall
<1>5. /\ IsStack(fs) /\ Nests(fs, sp)
      /\ Len(fs) = Len(frames)
      /\ fs[Len(frames)] = f
      /\ \A i \in 1..(Len(frames) - 1) : fs[i] = frames[i]
  BY <1>1, <1>2, ReplaceStack DEF Left
<1>6. AllWait(fs)
  BY <1>1, <1>4, <1>5 DEF AllWait, FrameInv, Running
<1>7. Quiet(fs)
  BY <1>1, <1>2, <1>4, QuietTop DEF Left
<1> HIDE DEF fs
<1>8. ASSUME NEW i \in 1..Len(fs), ~fs[i].pending.safepoint
      PROVE  nogc \/ Claims(nogc, safepoint) \/ Claimed(fs, i, Len(fs))
  <2>1. CASE i = Len(frames)
    BY <1>2, <1>3, <1>5, <1>8, <2>1 DEF Claims
  <2>2. CASE i < Len(frames)
    <3>1. f.nogc \/ Claimed(fs, i, Len(fs))
      BY <1>1, <1>5, <1>7, <1>8, <2>2 DEF Quiet
    <3> QED  BY <1>2, <3>1 DEF MayCall, Claims
  <2> QED  BY <1>1, <1>5, <2>1, <2>2
<1>9. Vouched(fs, nogc, Claims(nogc, safepoint))
  BY <1>8 DEF Vouched
<1> QED
  BY <1>1, <1>5, <1>6, <1>7, <1>9 DEF Left, fs, f

\* A host import, whatever it does.
LEMMA HostStack ==
    ASSUME NEW fs, NEW mark, Left(fs, mark), AllWait(fs), mark <= floor, floor \in Nat,
           NEW arg, HostRuns(mark, arg), frames' = fs, sp' = mark
    PROVE  FrameInv'
<1>1. floor' \in Nat /\ mark <= floor' /\ mode' \in {"idle", "deliver"} /\ mark \in Nat
  BY DEF HostRuns, Alloc, Fail, Left
<1> QED
  BY <1>1 DEF FrameInv, Left

\* Instructions that write registers and go on.
LEMMA RegistersStack ==
    ASSUME FrameInv,
           \/ \E d \in Reg : LoadRef(d)
           \/ \E from \in Copies : TakeEdge(from)
           \/ \E gc \in SUBSET Reg : Safepoint(gc)
    PROVE  FrameInv'
<1>1. mode = "run" /\ IsFrame(Top) /\ ~Waits(Top)
  <2>1. mode = "run"
    BY DEF LoadRef, TakeEdge, Safepoint, Burn
  <2> QED  BY <2>1, RunningTop
<1>2. Top \in [nogc : {Top.nogc}, claimed : {Top.claimed}, mark : {Top.mark},
               size : {Top.size}, fresh : {Top.fresh},
               regs : {Top.regs}, pending : {Top.pending}]
  BY <1>1, FrameFields
<1>3. CASE UNCHANGED <<frames, sp, floor>> /\ mode' = "idle"
  BY <1>3 DEF FrameInv
<1>4. CASE \E d \in Reg : LoadRef(d) /\ mode' = mode
  <2>1. PICK d \in Reg : LoadRef(d) /\ mode' = mode
    BY <1>4
  <2> DEFINE f == Define(Top, d, Encode(epoch, cell, cell))
             R == [Top.regs EXCEPT ![d] = Encode(epoch, cell, cell)]
             F == Top.fresh \cup {d}
  <2>2. f \in [nogc : {Top.nogc}, claimed : {Top.claimed}, mark : {Top.mark},
               size : {Top.size}, fresh : {F},
               regs : {R}, pending : {Top.pending}]
    BY <1>2 DEF Define
  <2>3. frames' = WithTop(f) /\ UNCHANGED <<mode, sp, floor>>
    BY <1>1, <2>1 DEF LoadRef, memory, Fail
  <2> HIDE DEF f, R, F
  <2>4. IsFrame(f) /\ f.mark = Top.mark /\ f.size = Top.size
        /\ f.nogc = Top.nogc /\ f.claimed = Top.claimed /\ f.pending = Top.pending
    BY <1>1, <2>2 DEF IsFrame
  <2> QED  BY <1>1, <2>3, <2>4, RunOnStack
<1>5. CASE \E from \in Copies : TakeEdge(from)
  <2>1. PICK from \in Copies : TakeEdge(from)
    BY <1>5
  <2> DEFINE R == [r \in Reg |-> Top.regs[from[r]]]
             F == {r \in Reg : from[r] \in Top.fresh}
             f == [Top EXCEPT !.regs = R, !.fresh = F]
  <2>2. f \in [nogc : {Top.nogc}, claimed : {Top.claimed}, mark : {Top.mark},
               size : {Top.size}, fresh : {F},
               regs : {R}, pending : {Top.pending}]
    <3> HIDE DEF R, F
    <3> QED  BY <1>2
  <2>3. frames' = WithTop(f) /\ UNCHANGED <<mode, sp, floor>>
    BY <2>1 DEF TakeEdge, memory
  <2> HIDE DEF f, R, F
  <2>4. IsFrame(f) /\ f.mark = Top.mark /\ f.size = Top.size
        /\ f.nogc = Top.nogc /\ f.claimed = Top.claimed /\ f.pending = Top.pending
    BY <1>1, <2>2 DEF IsFrame
  <2> QED  BY <1>1, <2>3, <2>4, RunOnStack
<1>6. CASE \E gc \in SUBSET Reg : Safepoint(gc) /\ mode' = mode
  <2>1. PICK gc \in SUBSET Reg : Safepoint(gc) /\ mode' = mode
    BY <1>6
  <2> DEFINE R == Relocated(Top, gc, Captured(gc), epoch')
             f == [Top EXCEPT !.regs = R, !.fresh = gc]
  <2>2. f \in [nogc : {Top.nogc}, claimed : {Top.claimed}, mark : {Top.mark},
               size : {Top.size}, fresh : {gc},
               regs : {R}, pending : {Top.pending}]
    <3> HIDE DEF R
    <3> QED  BY <1>2
  <2>3. frames' = WithTop(f) /\ UNCHANGED <<mode, sp, floor>>
    BY <1>1, <2>1 DEF Safepoint, memory, Fail
  <2> HIDE DEF f, R
  <2>4. IsFrame(f) /\ f.mark = Top.mark /\ f.size = Top.size
        /\ f.nogc = Top.nogc /\ f.claimed = Top.claimed /\ f.pending = Top.pending
    BY <1>1, <2>2 DEF IsFrame
  <2> QED  BY <1>1, <2>3, <2>4, RunOnStack
<1>7. ASSUME NEW gc \in SUBSET Reg, Safepoint(gc)
      PROVE  mode' = mode \/ (UNCHANGED <<frames, sp, floor>> /\ mode' = "idle")
  BY <1>7 DEF Safepoint, Fail, memory
<1>8. ASSUME NEW d \in Reg, LoadRef(d)
      PROVE  mode' = mode \/ (UNCHANGED <<frames, sp, floor>> /\ mode' = "idle")
  BY <1>8 DEF LoadRef, Fail, memory
<1> QED
  BY <1>3, <1>4, <1>5, <1>6, <1>7, <1>8

\* Instructions that leave the frames as they are, and traps.
LEMMA NoFrameStack ==
    ASSUME FrameInv, OutOfFuel \/ Trap \/ (\E s \in Reg : StoreRef(s))
                     \/ (\E w \in Words : StoreWord(w))
                     \/ (\E gc \in SUBSET Reg : CallRefused(gc))
    PROVE  FrameInv'
<1>1. CASE UNCHANGED <<frames, sp, floor>> /\ mode' \in {mode, "idle"}
  BY <1>1 DEF FrameInv
<1>2. CASE Trap /\ frames' = <<>>
  <2>1. /\ sp' = frames[1].mark /\ mode' = "idle" /\ floor' = floor
    BY <1>2 DEF Trap, Fail, memory, Burn, FrameInv, Running
  <2>2. frames[1].mark = 0
    BY <1>2, RunningTop DEF Trap, Burn, Left, Nests, EndOf
  <2>3. IsStack(<<>>) /\ Nests(<<>>, 0) /\ Quiet(<<>>)
    BY DEF IsStack, Nests, EndOf, Quiet
  <2> QED  BY <1>2, <2>1, <2>2, <2>3 DEF FrameInv
<1> QED
  BY <1>1, <1>2 DEF OutOfFuel, Trap, StoreRef, StoreWord, CallRefused, Fail, memory

\* Calls and tail calls.
LEMMA CallStack ==
    ASSUME FrameInv,
           NEW kind \in {"call", "invoke"}, NEW arg, NEW d, NEW gc, NEW nogc, NEW safepoint,
           \/ CallHost(kind, safepoint, arg, gc, d)
           \/ \E size \in FrameSize : Call(kind, nogc, safepoint, size, arg, gc, d)
           \/ TailCallHost(safepoint, arg)
           \/ \E size \in FrameSize : TailCall(nogc, safepoint, size, arg)
    PROVE  FrameInv'
<1>1. mode = "run"
  BY DEF CallHost, Call, TailCallHost, TailCall, Burn
<1>2. /\ AllWait(Below) /\ Left(Below, Top.mark) /\ Top.mark <= floor
      /\ sp <= floor /\ floor \in Nat
      /\ Vouched(Below, Top.nogc, Top.claimed)
  BY <1>1, RunningTop
<1> DEFINE fs == WithTop(Waiter(kind, d, safepoint, gc))
<1>3. MayCall(arg, gc, safepoint)
      => Left(fs, sp) /\ AllWait(fs) /\ Vouched(fs, nogc, Claims(nogc, safepoint))
  BY <1>1, WaiterStack
<1>4. MayTailCall(safepoint, arg)
      => Vouched(Below, nogc, Top.claimed \/ Claims(nogc, safepoint))
  BY <1>2 DEF MayTailCall, Claims, Vouched
<1>5. CASE CallHost(kind, safepoint, arg, gc, d)
  BY <1>2, <1>5, <1>3, HostStack DEF CallHost
<1>6. CASE \E size \in FrameSize : Call(kind, nogc, safepoint, size, arg, gc, d)
  BY <1>2, <1>6, <1>3, PushStack DEF Call, memory
<1>7. CASE TailCallHost(safepoint, arg)
  BY <1>2, <1>7, HostStack DEF TailCallHost
<1>8. CASE \E size \in FrameSize : TailCall(nogc, safepoint, size, arg)
  BY <1>2, <1>8, <1>4, PushStack DEF TailCall, memory
<1> QED
  BY <1>5, <1>6, <1>7, <1>8

\* ret and resume.
LEMMA LeaveStack ==
    ASSUME FrameInv, Resume \/ (\E r \in Reg : Return(r))
    PROVE  FrameInv'
<1>1. /\ mode = "run" /\ frames' = Below /\ sp' = Top.mark /\ mode' = "deliver"
      /\ floor' = floor
  BY DEF Resume, Return, Leave, Burn, memory
<1> QED
  BY <1>1, RunningTop DEF FrameInv, Left

\* deliver(): a frame takes the result, is left, or there is none.
LEMMA DeliverStack ==
    ASSUME FrameInv, Deliver
    PROVE  FrameInv'
<1>1. /\ mode = "deliver" /\ frames # <<>> /\ UNCHANGED <<sp, floor>>
      /\ IsStack(frames) /\ Nests(frames, sp) /\ AllWait(frames) /\ Quiet(frames)
  BY DEF Deliver, FrameInv, memory
<1>2. Len(frames) \in Nat \ {0} /\ IsFrame(Top)
  BY <1>1, PopStack
<1>3. Top \in [nogc : {Top.nogc}, claimed : {Top.claimed}, mark : {Top.mark},
               size : {Top.size}, fresh : {Top.fresh},
               regs : {Top.regs}, pending : {Top.pending}]
  BY <1>2, FrameFields
<1>4. \E f : /\ frames' = WithTop(f) /\ mode' \in {"idle", "run"}
             /\ IsFrame(f) /\ f.mark = Top.mark /\ f.size = Top.size /\ ~Waits(f)
             /\ f.nogc = Top.nogc /\ f.claimed = Top.claimed /\ ~f.pending.safepoint
  <2>1. CASE mode' = "idle" /\ frames' = WithTop([Top EXCEPT !.pending = NoWait])
    <3> DEFINE f == [Top EXCEPT !.pending = NoWait]
    <3>1. f \in [nogc : {Top.nogc}, claimed : {Top.claimed}, mark : {Top.mark},
                 size : {Top.size}, fresh : {Top.fresh},
                 regs : {Top.regs}, pending : {NoWait}]
      BY <1>3
    <3> HIDE DEF f
    <3>2. IsFrame(f) /\ f.mark = Top.mark /\ f.size = Top.size /\ ~Waits(f)
          /\ f.nogc = Top.nogc /\ f.claimed = Top.claimed /\ ~f.pending.safepoint
      BY <1>2, <3>1 DEF IsFrame, Waits, NoWait
    <3> QED  BY <2>1, <3>2 DEF f
  <2>2. CASE mode' = "run" /\ frames' = WithTop(Resumed(Top.pending))
    <3> DEFINE w == Top.pending
               dst == IF result.ok THEN w.dst ELSE {}
               val == IF w.safepoint THEN Minted ELSE result.val
               moved == Relocated(Top, w.gc, w.idx, IF w.safepoint THEN epoch + 1 ELSE epoch)
               R == [r \in Reg |-> IF r \in dst THEN val ELSE moved[r]]
               F == Top.fresh \cup w.gc \cup dst
               f == Resumed(w)
    <3>1. f = [Top EXCEPT !.regs = R, !.fresh = F, !.pending = NoWait]
      BY <1>3 DEF Resumed
    <3>2. f \in [nogc : {Top.nogc}, claimed : {Top.claimed}, mark : {Top.mark},
                 size : {Top.size}, fresh : {F},
                 regs : {R}, pending : {NoWait}]
      <4> HIDE DEF R, F, f
      <4> QED  BY <1>3, <3>1
    <3> HIDE DEF f, R, F
    <3>3. IsFrame(f) /\ f.mark = Top.mark /\ f.size = Top.size /\ ~Waits(f)
          /\ f.nogc = Top.nogc /\ f.claimed = Top.claimed /\ ~f.pending.safepoint
      BY <1>2, <3>2 DEF IsFrame, Waits, NoWait
    <3> QED  BY <2>2, <3>3 DEF f
  <2> QED  BY <2>1, <2>2 DEF Deliver, Fail
<1>5. PICK f : /\ frames' = WithTop(f) /\ mode' \in {"idle", "run"}
               /\ IsFrame(f) /\ f.mark = Top.mark /\ f.size = Top.size /\ ~Waits(f)
               /\ f.nogc = Top.nogc /\ f.claimed = Top.claimed /\ ~f.pending.safepoint
  BY <1>4
<1>6. /\ IsStack(frames') /\ Nests(frames', sp)
      /\ Len(frames') = Len(frames)
      /\ frames'[Len(frames)] = f
      /\ \A i \in 1..(Len(frames) - 1) : frames'[i] = frames[i]
  BY <1>1, <1>5, ReplaceStack
<1>7. Quiet(frames')
  BY <1>1, <1>5, QuietTop
<1>8. Running(frames')
  <2>1. frames' # <<>>
    BY <1>2, <1>6
  <2> QED  BY <1>1, <1>2, <1>5, <1>6, <2>1 DEF AllWait, Running
<1> QED
  BY <1>1, <1>5, <1>6, <1>8, <1>7 DEF FrameInv

LEMMA UnwindStack ==
    ASSUME FrameInv, Unwind \/ Finish
    PROVE  FrameInv'
<1>1. CASE Unwind
  <2>1. /\ frames # <<>> /\ mode = "deliver" /\ frames' = Below /\ sp' = Top.mark
        /\ mode' = mode /\ floor' = floor
    BY <1>1 DEF Unwind, memory
  <2>2. /\ IsStack(Below) /\ Len(frames) \in Nat \ {0} /\ Len(Below) = Len(frames) - 1
        /\ \A i \in 1..Len(Below) : Below[i] = frames[i]
    BY <2>1, PopStack DEF FrameInv
  <2>3. Nests(Below, Top.mark) /\ Top.mark \in Nat /\ Top.mark <= sp
    BY <2>1, PopNests DEF FrameInv
  <2>4. AllWait(Below)
    BY <2>1, <2>2 DEF FrameInv, AllWait
  <2>5. Quiet(Below)
    BY <2>1, QuietPop DEF FrameInv
  <2> QED  BY <2>1, <2>2, <2>3, <2>4, <2>5 DEF FrameInv
<1>2. CASE Finish
  BY <1>2 DEF Finish, Fail, memory, FrameInv
<1> QED
  BY <1>1, <1>2

\* The embedder starts on an empty stack.
LEMMA EmbedderStack ==
    ASSUME FrameInv, Embedder
    PROVE  FrameInv'
<1>1. Left(<<>>, 0) /\ AllWait(<<>>) /\ (\A nogc : Vouched(<<>>, nogc, FALSE))
      /\ floor \in Nat /\ 0 <= floor
  BY DEF Left, IsStack, Nests, EndOf, AllWait, FrameInv, Quiet, Vouched
<1>2. ASSUME EmbedderAlloc PROVE FrameInv'
  BY <1>2 DEF EmbedderAlloc, Alloc, FrameInv
<1>3. ASSUME NEW arg \in HandedIn, RootCallHost(arg) PROVE FrameInv'
  BY <1>1, <1>3, HostStack DEF RootCallHost
<1>4. ASSUME NEW arg \in HandedIn, NEW nogc \in BOOLEAN, NEW size \in FrameSize,
             RootCall(nogc, size, arg)
      PROVE  FrameInv'
  BY <1>1, <1>4, PushStack DEF RootCall, memory
<1> QED
  BY <1>2, <1>3, <1>4 DEF Embedder

LEMMA FrameInit == Init => FrameInv
BY LimitAssumption DEF Init, FrameInv, IsStack, Nests, EndOf, AllWait, Quiet

LEMMA FrameNext == FrameInv /\ [Next]_vars => FrameInv'
<1> SUFFICES ASSUME FrameInv, [Next]_vars PROVE FrameInv'
  OBVIOUS
<1>1. CASE Instruction
  BY <1>1, RegistersStack, NoFrameStack, CallStack, LeaveStack DEF Instruction
<1>2. CASE Deliver \/ Unwind \/ Finish
  BY <1>2, DeliverStack, UnwindStack
<1>3. CASE Embedder
  BY <1>3, EmbedderStack
<1>4. CASE UNCHANGED vars
  BY <1>4 DEF vars, memory, FrameInv
<1> QED
  BY <1>1, <1>2, <1>3, <1>4 DEF Next, Machine

LEMMA FramesHold == Spec => []FrameInv
BY FrameInit, FrameNext, PTL DEF Spec

\* The stack areas of the frames lie end to end below the heap in every run of
\* every program, at any depth, after any error (exec.rs push_frame, pop_frame).
THEOREM FramesNest == Spec => []StackNests
<1>1. FrameInv => StackNests
  BY DEF FrameInv, IsStack, Nests, EndOf, StackNests
<1> QED
  BY <1>1, FramesHold, PTL

\* Every result finds a frame that waits for it (exec.rs deliver).
THEOREM FramesAwait == Spec => []ResultsAreAwaited
<1>1. FrameInv => ResultsAreAwaited
  BY DEF FrameInv, IsStack, Running, AllWait, Waits, ResultsAreAwaited
<1> QED
  BY <1>1, FramesHold, PTL

\* While a nogc function is on the stack no epoch begins, at any depth of calls
\* and tail calls, but under a callee that a call site claims nogc of without its
\* being declared so (validate/mod.rs, typing.rs call_attrs, exec.rs relocate).
THEOREM NogcCollectsUnderClaimsOnly == Spec => NogcKeepsEpochUnlessClaimed
<1>1. ASSUME FrameInv, NEW i \in DOMAIN frames, frames[i].nogc,
             \A j \in DOMAIN frames : j > i => ~frames[j].claimed
      PROVE  Top.nogc /\ ~Top.pending.safepoint
  <2>1. Quiet(frames) /\ i \in 1..Len(frames) /\ DOMAIN frames = 1..Len(frames)
        /\ Len(frames) \in Nat
    BY <1>1 DEF FrameInv, IsStack
  <2>2. ~frames[i].pending.safepoint /\ ~Claimed(frames, i, Len(frames))
    BY <1>1, <2>1 DEF Quiet, Claimed
  <2>3. Top.nogc
    BY <1>1, <2>1, <2>2 DEF Quiet, Top
  <2> QED  BY <2>1, <2>3 DEF Quiet, Top
<1>2. ASSUME [Next]_vars, Top.nogc, ~Top.pending.safepoint PROVE epoch' = epoch
  <2>1. CASE Instruction
    BY ZenonT(40), <1>2, <2>1 DEF Instruction, OutOfFuel, Trap, Resume, LoadRef, StoreRef,
       StoreWord, Return, Leave, TakeEdge, Safepoint, CallRefused, CallHost, Call, TailCallHost,
       TailCall
  <2>2. CASE Deliver
    BY <1>2, <2>2 DEF Deliver
  <2>3. CASE Unwind \/ Finish
    BY <2>3 DEF Unwind, Finish
  <2>4. CASE Embedder
    BY <2>4 DEF Embedder, EmbedderAlloc, RootCallHost, RootCall
  <2>5. CASE UNCHANGED vars
    BY <2>5 DEF vars
  <2> QED
    BY <1>2, <2>1, <2>2, <2>3, <2>4, <2>5 DEF Next, Machine
<1>3. FrameInv /\ [Next]_vars
      => [(\E i \in DOMAIN frames :
              /\ frames[i].nogc
              /\ \A j \in DOMAIN frames : j > i => ~frames[j].claimed)
           => epoch' = epoch]_vars
  BY <1>1, <1>2
<1> QED
  BY <1>3, FramesHold, PTL DEF Spec, NogcKeepsEpochUnlessClaimed

------------------------------------------------------------------------------
(***************************************************************************)
(* Part two: a program the validator accepts, on a host that hands in      *)
(* current references, as long as no function collects below an unfounded  *)
(* claim of a call site.                                                   *)
(***************************************************************************)
Honest ==
    /\ HostKeeps = FALSE
    /\ MemSize < IdxRange

\* A reference made in an epoch up to e for one of n objects.
RefOK(v, e, n) == v \in Ref /\ v.obj <= n /\ v.born <= e

\* decode_ref in epoch e accepts v as the object it was made for.
NamesIn(v, e, n) ==
    /\ IsNull(v) \/ (v.hi = e % EpochRange /\ v.lo \in 1..n)
    /\ v.lo = v.obj

FrameOK(f, e, n) ==
    /\ f \in Frame
    /\ \A r \in Reg : RefOK(f.regs[r], e, n)
    /\ \A r \in f.fresh : NamesIn(f.regs[r], e, n)
    /\ f.pending.safepoint => f.fresh = {}
    /\ \A r \in f.pending.gc : f.pending.idx[r] = f.regs[r].obj

StackOK(fs, e, n) ==
    /\ fs \in Seq(Frame)
    /\ \A i \in 1..Len(fs) : FrameOK(fs[i], e, n)

\* The top frame waits for nothing.
TopRuns(fs) == fs # <<>> /\ fs[Len(fs)].pending = NoWait

IInv ==
    /\ TypeOK
    /\ mode = "run" => TopRuns(frames)
    /\ objects + floor = MemSize
    /\ StackOK(frames, epoch, objects)
    /\ RefOK(result.val, epoch, objects)
    /\ mode = "deliver" /\ result.ok => NamesIn(result.val, epoch, objects)
    /\ ~result.ok => result.val = Null
    /\ kept.born = epoch => NamesIn(kept, epoch, objects)
    /\ outcome # "StaleRef"

\* Encoding a number that fits its field makes a reference to that object.
LEMMA EncodeNames ==
    ASSUME NEW e \in Nat, NEW n \in Nat, NEW i \in 0..n, n < IdxRange
    PROVE  RefOK(Encode(e, i, i), e, n) /\ NamesIn(Encode(e, i, i), e, n)
BY RangeAssumption DEF RefOK, NamesIn, Encode, Null, IsNull, Ref

\* Null is no object, in every epoch.
LEMMA NullNames ==
    ASSUME NEW e \in Nat, NEW n \in Nat
    PROVE  RefOK(Null, e, n) /\ NamesIn(Null, e, n)
BY DEF RefOK, NamesIn, Null, IsNull, Ref

\* A stack without its top frame.
LEMMA PopOK ==
    ASSUME NEW e \in Nat, NEW n \in Nat, StackOK(frames, e, n), frames # <<>>
    PROVE  /\ Len(frames) \in Nat \ {0}
           /\ FrameOK(Top, e, n)
           /\ StackOK(Below, e, n)
           /\ Len(Below) = Len(frames) - 1
           /\ \A i \in 1..Len(Below) : Below[i] = frames[i]
<1>1. Len(frames) \in Nat \ {0} /\ frames \in Seq(Frame)
  BY DEF StackOK
<1>2. /\ Below \in Seq(Frame)
      /\ Len(Below) = Len(frames) - 1
      /\ \A i \in 1..Len(Below) : Below[i] = frames[i]
  <2>1. \A i \in 1..(Len(frames) - 1) : frames[i] \in Frame
    BY <1>1
  <2> DEFINE k == Len(frames) - 1
  <2>2. k \in Int /\ k \in Nat
    BY <1>1
  <2>3. /\ SubSeq(frames, 1, k) \in Seq(Frame)
        /\ Len(SubSeq(frames, 1, k)) = IF 1 <= k THEN k - 1 + 1 ELSE 0
        /\ \A i \in 1..(k - 1 + 1) : SubSeq(frames, 1, k)[i] = frames[1 + i - 1]
    <3> HIDE DEF k
    <3> QED  BY <2>1, <2>2, SubSeqProperties, 1 \in Int DEF k
  <2>5. Below = SubSeq(frames, 1, k)
    BY DEF Below
  <2> HIDE DEF k
  <2>4. k - 1 + 1 = k /\ (IF 1 <= k THEN k - 1 + 1 ELSE 0) = k /\ \A i \in 1..k : 1 + i - 1 = i
    BY <2>2
  <2>6. /\ Below \in Seq(Frame)
        /\ Len(Below) = k
        /\ \A i \in 1..k : Below[i] = frames[i]
    BY <2>3, <2>4, <2>5
  <2> QED
    BY <2>6 DEF k
<1>3. FrameOK(Top, e, n)
  BY <1>1 DEF StackOK, Top
<1>4. StackOK(Below, e, n)
  BY <1>1, <1>2 DEF StackOK
<1> QED
  BY <1>1, <1>2, <1>3, <1>4

\* What WithTop changes.
LEMMA TopReplaced ==
    ASSUME frames \in Seq(Frame), frames # <<>>, NEW f
    PROVE  /\ WithTop(f)[Len(frames)] = f
           /\ \A i \in 1..(Len(frames) - 1) : WithTop(f)[i] = frames[i]
<1>1. Len(frames) \in Nat \ {0}
  OBVIOUS
<1> QED
  BY <1>1 DEF WithTop

\* A stack with another top frame.
LEMMA ReplaceOK ==
    ASSUME NEW e \in Nat, NEW n \in Nat, StackOK(frames, e, n), frames # <<>>,
           NEW f, FrameOK(f, e, n)
    PROVE  /\ StackOK(WithTop(f), e, n)
           /\ Len(WithTop(f)) = Len(frames)
           /\ WithTop(f)[Len(frames)] = f
           /\ \A i \in 1..(Len(frames) - 1) : WithTop(f)[i] = frames[i]
<1>1. Len(frames) \in Nat \ {0} /\ f \in Frame
  BY DEF StackOK, FrameOK
<1>2. WithTop(f) \in Seq(Frame) /\ Len(WithTop(f)) = Len(frames)
  BY <1>1 DEF WithTop, StackOK
<1>3. /\ WithTop(f)[Len(frames)] = f
      /\ \A i \in 1..(Len(frames) - 1) : WithTop(f)[i] = frames[i]
  BY <1>1 DEF WithTop, StackOK
<1> QED
  BY SMTT(30), <1>1, <1>2, <1>3 DEF StackOK, Top

\* A stack with one frame more.
LEMMA AppendOK ==
    ASSUME NEW e \in Nat, NEW n \in Nat, NEW fs, StackOK(fs, e, n),
           NEW g, FrameOK(g, e, n)
    PROVE  StackOK(Append(fs, g), e, n)
<1>1. /\ Append(fs, g) \in Seq(Frame) 
      /\ Len(Append(fs, g)) = Len(fs) + 1
      /\ Append(fs, g)[Len(fs) + 1] = g
      /\ \A i \in 1..Len(fs) : Append(fs, g)[i] = fs[i]
  BY DEF StackOK, FrameOK
<1>2. Len(fs) \in Nat
  BY DEF StackOK
<1> QED
  BY SMTT(30), <1>1, <1>2 DEF StackOK

\* More objects leave a stack as good.
LEMMA MoreObjectsOK ==
    ASSUME NEW e \in Nat, NEW n \in Nat, NEW m \in Nat, n <= m, NEW fs, StackOK(fs, e, n)
    PROVE  StackOK(fs, e, m)
<1>1. ASSUME NEW i \in 1..Len(fs) PROVE FrameOK(fs[i], e, m)
  <2>1. FrameOK(fs[i], e, n)
    BY DEF StackOK
  <2> QED
    BY <2>1 DEF FrameOK, RefOK, NamesIn, Frame, Ref
<1> QED
  BY <1>1 DEF StackOK

\* A new epoch that the top frame begins: the frames below wait at safepoints.
LEMMA NewEpochOK ==
    ASSUME NEW e \in Nat, NEW n \in Nat, StackOK(frames, e, n), frames # <<>>,
           \A i \in 1..(Len(frames) - 1) : frames[i].pending.safepoint,
           NEW f, FrameOK(f, e + 1, n)
    PROVE  StackOK(WithTop(f), e + 1, n)
<1>1. Len(frames) \in Nat \ {0} /\ f \in Frame /\ WithTop(f) \in Seq(Frame)
      /\ Len(WithTop(f)) = Len(frames)
  BY DEF StackOK, FrameOK, WithTop
<1>2. /\ WithTop(f)[Len(frames)] = f
      /\ \A i \in 1..(Len(frames) - 1) : WithTop(f)[i] = frames[i]
  <2>1. frames \in Seq(Frame)
    BY DEF StackOK
  <2> QED
    BY <2>1, TopReplaced
<1>3. ASSUME NEW i \in 1..(Len(frames) - 1)
      PROVE  frames[i].pending.safepoint /\ FrameOK(frames[i], e + 1, n)
  <2>1. FrameOK(frames[i], e, n) /\ frames[i].pending.safepoint
    BY <1>1 DEF StackOK
  <2> QED
    BY SMTT(30), <2>1 DEF FrameOK, RefOK, Frame, Ref
<1>4. \A i \in 1..Len(WithTop(f)) : FrameOK(WithTop(f)[i], e + 1, n)
  BY <1>1, <1>2, <1>3
<1> QED
  BY <1>1, <1>4 DEF StackOK

\* Where an epoch begins and no claim is broken, every frame below the top waits
\* at a safepoint.
LEMMA BelowWaits ==
    ASSUME FrameInv, frames # <<>>, Len(frames) \in Nat, ~Top.nogc,
           \A i \in DOMAIN frames : ~frames[i].claimed, DOMAIN frames = 1..Len(frames)
    PROVE  \A i \in 1..(Len(frames) - 1) : frames[i].pending.safepoint
BY DEF FrameInv, Quiet, Claimed, Top

Failure == {"Trap", "Fault", "Host", "NoObject", "StackOverflow", "OutOfMemory",
            "FuelExhausted"}

\* push_frame, whether it pushes or fails.
LEMMA PushOK ==
    ASSUME NEW fs, StackOK(fs, epoch, objects), TypeOK,
           NEW mark \in Nat, NEW nogc \in BOOLEAN, NEW claimed \in BOOLEAN, NEW size \in FrameSize,
           NEW arg, RefOK(arg, epoch, objects), NamesIn(arg, epoch, objects),
           Push(fs, mark, nogc, claimed, size, arg)
    PROVE  /\ StackOK(frames', epoch, objects)
           /\ sp' \in Nat
           /\ mode' \in {"idle", "run"}
           /\ mode' = "run" => TopRuns(frames')
           /\ outcome' \in Failure \cup {"none"}
<1> SUFFICES ASSUME ~(Len(fs) >= MaxDepth), ~(mark + size > floor)
             PROVE  /\ StackOK(frames', epoch, objects)
                    /\ sp' \in Nat
                    /\ mode' \in {"idle", "run"}
                    /\ mode' = "run" => TopRuns(frames')
                    /\ outcome' \in Failure \cup {"none"}
  BY DEF Push, Fail, Failure
<1>1. PICK p \in Reg :
        frames' = Append(fs, [nogc |-> nogc, claimed |-> claimed, mark |-> mark,
                              size |-> size, fresh |-> {p},
            regs |-> [r \in Reg |-> IF r = p THEN arg ELSE Null], pending |-> NoWait])
  BY DEF Push
<1> DEFINE g == [nogc |-> nogc, claimed |-> claimed, mark |-> mark,
                 size |-> size, fresh |-> {p},
            regs |-> [r \in Reg |-> IF r = p THEN arg ELSE Null], pending |-> NoWait]
<1>2. NoWait \in Waiting
  BY DEF NoWait, Waiting
<1>3. epoch \in Nat /\ objects \in Nat
  BY DEF TypeOK
<1>4. [r \in Reg |-> IF r = p THEN arg ELSE Null] \in [Reg -> Ref]
  BY DEF RefOK, Ref, Null
<1>5. g \in Frame
  BY <1>2, <1>4 DEF Frame
<1>6. FrameOK(g, epoch, objects)
  <2>1. \A r \in Reg : RefOK(g.regs[r], epoch, objects)
    BY <1>3, NullNames
  <2>2. \A r \in g.fresh : NamesIn(g.regs[r], epoch, objects)
    OBVIOUS
  <2>3. g.pending.safepoint = FALSE /\ g.pending.gc = {}
    BY DEF NoWait
  <2> QED
    BY <1>5, <2>1, <2>2, <2>3 DEF FrameOK
<1>7. StackOK(frames', epoch, objects) /\ TopRuns(frames')
  <2>1. g.pending = NoWait
    OBVIOUS
  <2>2. fs \in Seq(Frame)
    BY DEF StackOK
  <2> HIDE DEF g
  <2> QED
    BY <1>1, <1>3, <1>5, <1>6, <2>1, <2>2, AppendOK, AppendProperties DEF g, TopRuns
<1> QED
  BY <1>7, LimitAssumption DEF Push

\* A reference that was right stays right when objects are added.
LEMMA MoreObjectsNames ==
    ASSUME NEW e \in Nat, NEW n \in Nat, NEW m \in Nat, n <= m, NEW v, RefOK(v, e, n)
    PROVE  RefOK(v, e, m) /\ (NamesIn(v, e, n) => NamesIn(v, e, m))
BY DEF RefOK, NamesIn, Ref

\* What the embedder hands in is current.
LEMMA HandedInOK ==
    ASSUME IInv, Honest, NEW v \in HandedIn
    PROVE  RefOK(v, epoch, objects) /\ NamesIn(v, epoch, objects)
<1>1. epoch \in Nat /\ objects \in Nat /\ RefOK(kept, epoch, objects)
  BY DEF IInv, TypeOK, RefOK
<1> QED
  BY <1>1, NullNames DEF HandedIn, IInv, Honest

\* alloc_object.
LEMMA AllocOK ==
    ASSUME IInv, Honest, NEW mark \in Nat, Alloc(mark)
    PROVE  /\ objects' = objects + 1
           /\ objects' \in Nat /\ objects' + floor' = MemSize
           /\ floor' \in 0..MemSize
           /\ RefOK(NewRef, epoch, objects') /\ NamesIn(NewRef, epoch, objects')
<1>1. epoch \in Nat /\ objects \in Nat /\ floor \in 0..MemSize /\ objects + floor = MemSize
  BY DEF IInv, TypeOK
<1>2. MemSize \in Nat /\ MemSize < IdxRange /\ floor > mark
      /\ objects' = objects + 1 /\ floor' = floor - 1
  BY LimitAssumption DEF Honest, Alloc
<1>3. objects' \in Nat /\ objects' < IdxRange /\ objects' \in 0..objects'
  BY <1>1, <1>2, RangeAssumption
<1>4. NewRef = Encode(epoch, objects', objects')
  BY <1>2 DEF NewRef
<1>5. RefOK(NewRef, epoch, objects') /\ NamesIn(NewRef, epoch, objects')
  BY <1>1, <1>3, <1>4, EncodeNames
<1> QED
  BY <1>1, <1>2, <1>5

\* A host call: what it returns is current.
LEMMA HostOK ==
    ASSUME IInv, Honest, NEW mark \in Nat,
           NEW arg, RefOK(arg, epoch, objects), NamesIn(arg, epoch, objects),
           HostRuns(mark, arg)
    PROVE  /\ objects' \in Nat /\ objects <= objects' /\ objects' + floor' = MemSize
           /\ floor' \in 0..MemSize
           /\ result' \in [ok : BOOLEAN, val : Ref]
           /\ RefOK(result'.val, epoch, objects')
           /\ mode' = "deliver" /\ result'.ok => NamesIn(result'.val, epoch, objects')
           /\ ~result'.ok => result'.val = Null
           /\ RefOK(kept', epoch, objects')
           /\ kept'.born = epoch => NamesIn(kept', epoch, objects')
           /\ mode' \in {"idle", "deliver"}
           /\ outcome' \in Failure \cup {"none"}
<1>1. /\ epoch \in Nat /\ objects \in Nat /\ objects + floor = MemSize /\ floor \in 0..MemSize
      /\ RefOK(kept, epoch, objects)
      /\ kept.born = epoch => NamesIn(kept, epoch, objects)
  BY DEF IInv, TypeOK, RefOK
<1>2. CASE /\ Alloc(mark)
           /\ result' = [ok |-> TRUE, val |-> NewRef]
           /\ mode' = "deliver"
           /\ kept' \in {kept, NewRef}
           /\ outcome' = "none"
  <2>1. /\ objects' = objects + 1 /\ objects' \in Nat /\ objects' + floor' = MemSize
        /\ floor' \in 0..MemSize
        /\ RefOK(NewRef, epoch, objects') /\ NamesIn(NewRef, epoch, objects')
    BY <1>2, AllocOK
  <2>2. RefOK(kept, epoch, objects')
        /\ (kept.born = epoch => NamesIn(kept, epoch, objects'))
    BY <1>1, <2>1, MoreObjectsNames
  <2> QED
    BY <1>1, <1>2, <2>1, <2>2 DEF RefOK, Failure
<1>3. CASE /\ \E v \in {arg} \cup HandedIn : result' = [ok |-> TRUE, val |-> v]
           /\ kept' \in {kept, arg}
           /\ mode' = "deliver"
           /\ outcome' = "none"
           /\ UNCHANGED <<objects, floor>>
  <2>1. PICK v \in {arg} \cup HandedIn : result' = [ok |-> TRUE, val |-> v]
    BY <1>3
  <2>2. RefOK(v, epoch, objects) /\ NamesIn(v, epoch, objects)
    BY HandedInOK
  <2> QED
    BY <1>1, <1>3, <2>1, <2>2 DEF RefOK, Failure
<1>4. CASE /\ result' = Thrown
           /\ mode' = "deliver"
           /\ outcome' = "none"
           /\ UNCHANGED <<objects, floor, kept>>
  BY <1>1, <1>4, NullNames DEF Thrown, RefOK, Failure
<1>5. CASE Fail("Host") /\ UNCHANGED <<result, objects, floor, kept>>
  BY <1>1, <1>5 DEF Fail, Failure, IInv, TypeOK
<1> QED
  BY <1>2, <1>3, <1>4, <1>5 DEF HostRuns

\* What an instruction finds: a top frame whose registers it may read are
\* current.
LEMMA TopFacts ==
    ASSUME IInv, frames # <<>>
    PROVE  /\ epoch \in Nat /\ objects \in Nat
           /\ StackOK(frames, epoch, objects)
           /\ FrameOK(Top, epoch, objects)
           /\ Top \in Frame /\ Top.mark \in Nat
           /\ StackOK(Below, epoch, objects)
           /\ \A r \in Reg : RefOK(Top.regs[r], epoch, objects)
           /\ \A r \in Top.fresh : NamesIn(Top.regs[r], epoch, objects)
           /\ \A r \in Top.fresh : Accepts(Top.regs[r])
<1>1. epoch \in Nat /\ objects \in Nat /\ StackOK(frames, epoch, objects)
  BY DEF IInv, TypeOK
<1>2. FrameOK(Top, epoch, objects) /\ StackOK(Below, epoch, objects)
  BY <1>1, PopOK
<1> QED
  BY <1>1, <1>2 DEF FrameOK, Frame, NamesIn, Accepts

\* A step of the instruction loop that burned fuel.
LEMMA BurnOK ==
    ASSUME IInv, Burn
    PROVE  /\ mode = "run" /\ frames # <<>> /\ Top.pending = NoWait
           /\ fuel' \in 0..(FuelLimit + 1)
BY LimitAssumption DEF IInv, TypeOK, Burn, TopRuns, Top

\* Steps of an instruction that stay in the epoch and add no object.
LEMMA SameEpochOK ==
    ASSUME IInv,
           UNCHANGED <<epoch, objects, floor, broken>>,
           StackOK(frames', epoch, objects),
           cell' \in Nat, sp' \in Nat, fuel' \in 0..(FuelLimit + 1),
           mode' \in {"idle", "run", "deliver"},
           mode' = "run" => TopRuns(frames'),
           outcome' \in Failure \cup {"none", "Return", "Unwind"},
           result' \in [ok : BOOLEAN, val : Ref],
           RefOK(result'.val, epoch, objects),
           mode' = "deliver" /\ result'.ok => NamesIn(result'.val, epoch, objects),
           ~result'.ok => result'.val = Null,
           RefOK(kept', epoch, objects),
           kept'.born = epoch => NamesIn(kept', epoch, objects)
    PROVE  IInv'
<1>1. TypeOK'
  BY DEF IInv, TypeOK, StackOK, RefOK, Failure
<1> QED
  BY <1>1 DEF IInv, Failure

\* The facts SameEpochOK asks for of what a step leaves alone.
LEMMA Unchanged ==
    ASSUME IInv
    PROVE  /\ StackOK(frames, epoch, objects)
           /\ cell \in Nat /\ sp \in Nat /\ fuel \in 0..(FuelLimit + 1)
           /\ mode \in {"idle", "run", "deliver"}
           /\ outcome \in Failure \cup {"none", "Return", "Unwind"}
           /\ result \in [ok : BOOLEAN, val : Ref]
           /\ RefOK(result.val, epoch, objects)
           /\ mode = "deliver" /\ result.ok => NamesIn(result.val, epoch, objects)
           /\ ~result.ok => result.val = Null
           /\ RefOK(kept, epoch, objects)
           /\ kept.born = epoch => NamesIn(kept, epoch, objects)
           /\ RefOK(NoResult.val, epoch, objects) /\ NoResult \in [ok : BOOLEAN, val : Ref]
           /\ NoResult.ok /\ NamesIn(NoResult.val, epoch, objects)
           /\ Thrown \in [ok : BOOLEAN, val : Ref] /\ ~Thrown.ok /\ Thrown.val = Null
           /\ RefOK(Thrown.val, epoch, objects)
           /\ StackOK(<<>>, epoch, objects)
<1>1. epoch \in Nat /\ objects \in Nat
  BY DEF IInv, TypeOK
<1>2. StackOK(<<>>, epoch, objects)
  BY DEF StackOK
<1>3. RefOK(Null, epoch, objects) /\ NamesIn(Null, epoch, objects) /\ Null \in Ref
  BY <1>1, NullNames DEF RefOK
<1> QED
  BY <1>1, <1>2, <1>3 DEF IInv, TypeOK, RefOK, Failure, NoResult, Thrown

\* A frame that runs, with other registers.
WithRegs(f, regs, fresh) == [f EXCEPT !.regs = regs, !.fresh = fresh]

\* A frame whose registers change to references that are right stays right.
LEMMA RegsOK ==
    ASSUME NEW e \in Nat, NEW n \in Nat, NEW f, FrameOK(f, e, n), f.pending = NoWait,
           NEW regs \in [Reg -> Ref], NEW fresh \in SUBSET Reg,
           \A r \in Reg : RefOK(regs[r], e, n),
           \A r \in fresh : NamesIn(regs[r], e, n)
    PROVE  /\ FrameOK(WithRegs(f, regs, fresh), e, n)
           /\ WithRegs(f, regs, fresh).pending = NoWait
<1> DEFINE g == WithRegs(f, regs, fresh)
<1>1. f \in Frame
  BY DEF FrameOK
<1>2. g \in Frame /\ g.regs = regs /\ g.fresh = fresh /\ g.pending = f.pending
  BY <1>1 DEF Frame, WithRegs
<1>3. NoWait.safepoint = FALSE /\ NoWait.gc = {}
  BY DEF NoWait
<1> HIDE DEF g
<1>4. FrameOK(g, e, n) /\ g.pending = NoWait
  BY <1>2, <1>3 DEF FrameOK
<1> QED
  BY <1>4 DEF g

\* A stack whose top frame runs, with that frame replaced by one that runs.
LEMMA RunOnOK ==
    ASSUME NEW e \in Nat, NEW n \in Nat, StackOK(frames, e, n), frames # <<>>,
           NEW f, FrameOK(f, e, n), f.pending = NoWait
    PROVE  StackOK(WithTop(f), e, n) /\ TopRuns(WithTop(f))
<1>1. Len(frames) \in Nat \ {0}
  BY DEF StackOK
<1> QED
  BY <1>1, ReplaceOK DEF TopRuns

\* Instructions and terminators that make no call.
LEMMA LoadRefOK == ASSUME IInv, Honest, NEW d \in Reg, LoadRef(d) PROVE IInv'
<1>1. /\ frames # <<>> /\ fuel' \in 0..(FuelLimit + 1) /\ Top.pending = NoWait
      /\ TopRuns(frames)
  BY BurnOK DEF LoadRef, IInv
<1>2. CASE cell <= objects
  <2> DEFINE v == Encode(epoch, cell, cell)
             regs == [Top.regs EXCEPT ![d] = v]
             fresh == Top.fresh \cup {d}
             f == Define(Top, d, v)
  <2>1. RefOK(v, epoch, objects) /\ NamesIn(v, epoch, objects)
    <3>1. epoch \in Nat /\ objects \in Nat /\ cell \in 0..objects /\ objects < IdxRange
      BY <1>2, LimitAssumption, RangeAssumption DEF IInv, TypeOK, Honest
    <3> QED
      BY <3>1, EncodeNames
  <2>2. FrameOK(f, epoch, objects) /\ f.pending = NoWait
    <3>1. Top \in Frame /\ FrameOK(Top, epoch, objects) /\ epoch \in Nat /\ objects \in Nat
      BY <1>1, TopFacts
    <3>2. /\ regs \in [Reg -> Ref] /\ fresh \in SUBSET Reg
          /\ \A r \in Reg : RefOK(regs[r], epoch, objects)
          /\ \A r \in fresh : NamesIn(regs[r], epoch, objects)
      <4> HIDE DEF v
      <4> QED  BY <1>1, <2>1, <3>1, TopFacts DEF Frame, RefOK
    <3>3. f = WithRegs(Top, regs, fresh)
      BY <3>1 DEF Define, Frame, WithRegs
    <3> HIDE DEF regs, fresh, f
    <3> QED
      BY <1>1, <3>1, <3>2, <3>3, RegsOK
  <2>3. StackOK(frames', epoch, objects) /\ TopRuns(frames')
    <3>1. frames' = WithTop(f)
      BY <1>2 DEF LoadRef
    <3> HIDE DEF f
    <3> QED
      BY <1>1, <2>2, <3>1, TopFacts, RunOnOK
  <2> QED
    BY <1>1, <1>2, <2>3, SameEpochOK, Unchanged DEF LoadRef, memory
<1>3. CASE ~(cell <= objects)
  BY <1>1, <1>3, SameEpochOK, Unchanged DEF LoadRef, memory, Fail, Failure
<1> QED
  BY <1>2, <1>3

\* A store of another type changes the heap cell only.
LEMMA StoreWordOK == ASSUME IInv, NEW w \in Words, StoreWord(w) PROVE IInv'
<1>1. /\ fuel' \in 0..(FuelLimit + 1) /\ TopRuns(frames)
      /\ UNCHANGED <<frames, mode, result, outcome, epoch, broken, objects, floor, sp, kept>>
  BY BurnOK DEF StoreWord, IInv
<1>2. cell' \in Nat
  BY ProgramAssumption DEF StoreWord
<1> QED
  BY <1>1, <1>2, SameEpochOK, Unchanged

\* A store decodes a reference the rules let it read, so it never fails.
LEMMA StoreRefOK == ASSUME IInv, NEW s \in Reg, StoreRef(s) PROVE IInv'
<1>1. /\ frames # <<>> /\ fuel' \in 0..(FuelLimit + 1)
      /\ mode = "run" /\ s \in Top.fresh
  BY BurnOK DEF StoreRef
<1>2. Accepts(Top.regs[s]) /\ RefOK(Top.regs[s], epoch, objects)
      /\ NamesIn(Top.regs[s], epoch, objects)
  BY <1>1, TopFacts
<1>3. Top.regs[s].lo \in Nat
  BY <1>1, <1>2, TopFacts DEF NamesIn, RefOK, Ref
<1>4. TopRuns(frames)
  BY <1>1 DEF IInv
<1> QED
  BY <1>1, <1>2, <1>3, <1>4, SameEpochOK, Unchanged DEF StoreRef

\* A parallel copy of registers carries their references along.
LEMMA TakeEdgeOK == ASSUME IInv, NEW from \in [Reg -> Reg], TakeEdge(from) PROVE IInv'
<1>1. /\ frames # <<>> /\ fuel' \in 0..(FuelLimit + 1) /\ Top.pending = NoWait
  BY BurnOK DEF TakeEdge
<1> DEFINE regs == [r \in Reg |-> Top.regs[from[r]]]
           fresh == {r \in Reg : from[r] \in Top.fresh}
<1>2. Top \in Frame /\ FrameOK(Top, epoch, objects) /\ epoch \in Nat /\ objects \in Nat
      /\ StackOK(frames, epoch, objects)
  BY <1>1, TopFacts
<1>3. /\ regs \in [Reg -> Ref] /\ fresh \in SUBSET Reg
      /\ \A r \in Reg : RefOK(regs[r], epoch, objects)
      /\ \A r \in fresh : NamesIn(regs[r], epoch, objects)
  BY <1>1, <1>2, TopFacts DEF Frame
<1>4. frames' = WithTop(WithRegs(Top, regs, fresh))
  BY DEF TakeEdge, WithRegs
<1> HIDE DEF regs, fresh
<1>5. StackOK(frames', epoch, objects) /\ TopRuns(frames')
  BY <1>1, <1>2, <1>3, <1>4, RegsOK, RunOnOK
<1> QED
  BY <1>1, <1>5, SameEpochOK, Unchanged DEF TakeEdge, memory

\* A frame that leaves the stack gives its stack area back.
LEMMA LeaveOK ==
    ASSUME IInv, NEW res, Leave(res), res \in [ok : BOOLEAN, val : Ref],
           RefOK(res.val, epoch, objects),
           res.ok => NamesIn(res.val, epoch, objects),
           ~res.ok => res.val = Null
    PROVE  IInv'
<1>1. frames # <<>> /\ fuel' \in 0..(FuelLimit + 1)
  BY BurnOK DEF Leave
<1>2. StackOK(Below, epoch, objects) /\ Top.mark \in Nat
  BY <1>1, TopFacts
<1> QED
  BY <1>1, <1>2, SameEpochOK, Unchanged DEF Leave, memory

\* ret of a register the rules let the frame read.
LEMMA ReturnOK == ASSUME IInv, NEW r \in Reg, Return(r) PROVE IInv'
<1>1. frames # <<>> /\ r \in Top.fresh
  BY DEF Return, IInv, TopRuns
<1>2. RefOK(Top.regs[r], epoch, objects) /\ NamesIn(Top.regs[r], epoch, objects)
  BY <1>1, TopFacts
<1> DEFINE res == [ok |-> TRUE, val |-> Top.regs[r]]
<1>3. res \in [ok : BOOLEAN, val : Ref] /\ res.ok /\ res.val = Top.regs[r] /\ Leave(res)
  BY <1>2 DEF RefOK, Return
<1> HIDE DEF res
<1> QED
  BY <1>2, <1>3, LeaveOK

\* resume hands no reference on.
LEMMA ResumeOK == ASSUME IInv, Resume PROVE IInv'
BY LeaveOK, Unchanged DEF Resume

\* A trap or another fault ends the call of the embedder.
LEMMA TrapOK == ASSUME IInv, Trap PROVE IInv'
<1>1. frames # <<>> /\ fuel' \in 0..(FuelLimit + 1)
  BY BurnOK DEF Trap
<1>2. frames[1].mark \in Nat
  <2>1. frames[1] \in Frame
    BY <1>1 DEF IInv, TypeOK
  <2> QED
    BY <2>1 DEF Frame
<1> QED
  BY <1>1, <1>2, SameEpochOK, Unchanged DEF Trap, Fail, Failure, memory

\* Running out of fuel ends the call of the embedder.
LEMMA OutOfFuelOK == ASSUME IInv, OutOfFuel PROVE IInv'
<1>1. fuel' \in 0..(FuelLimit + 1)
  BY LimitAssumption DEF OutOfFuel
<1> QED
  BY <1>1, SameEpochOK, Unchanged DEF OutOfFuel, Fail, Failure, memory

\* Minting a GC list again.
LEMMA RelocatedOK ==
    ASSUME Honest, NEW e \in Nat, NEW d \in Nat, e <= d, NEW n \in Nat, n < IdxRange,
           NEW f, FrameOK(f, e, n), NEW gc \in SUBSET Reg, NEW idx,
           \A r \in gc : idx[r] = f.regs[r].obj
    PROVE  /\ Relocated(f, gc, idx, d) \in [Reg -> Ref]
           /\ \A r \in Reg : RefOK(Relocated(f, gc, idx, d)[r], d, n)
           /\ \A r \in gc : NamesIn(Relocated(f, gc, idx, d)[r], d, n)
           /\ d = e => \A r \in f.fresh : NamesIn(Relocated(f, gc, idx, d)[r], d, n)
<1>1. ASSUME NEW r \in Reg PROVE RefOK(f.regs[r], d, n) /\ RefOK(f.regs[r], e, n)
  BY DEF FrameOK, RefOK, Ref
<1>2. ASSUME NEW r \in gc
      PROVE  LET v == Encode(d, idx[r], f.regs[r].obj)
             IN  RefOK(v, d, n) /\ NamesIn(v, d, n)
  <2>1. f.regs[r].obj \in 0..n /\ idx[r] = f.regs[r].obj
    BY <1>1 DEF RefOK, Ref
  <2> QED
    BY <2>1, EncodeNames
<1>3. f.fresh \subseteq Reg
  BY DEF FrameOK, Frame
<1> QED
  BY <1>1, <1>2, <1>3 DEF Relocated, RefOK, FrameOK

\* Steps of the machine that begin an epoch.
LEMMA NextEpochOK ==
    ASSUME IInv, epoch' = epoch + 1, broken' \in BOOLEAN, mode' = "run",
           UNCHANGED <<objects, floor, cell, sp, kept, outcome>>,
           fuel' \in 0..(FuelLimit + 1),
           result' \in {result, NoResult},
           StackOK(frames', epoch + 1, objects), TopRuns(frames')
    PROVE  IInv'
<1>1. epoch \in Nat /\ objects \in Nat /\ RefOK(result.val, epoch, objects)
      /\ RefOK(kept, epoch, objects)
  BY Unchanged DEF IInv, TypeOK
<1>2. RefOK(result'.val, epoch + 1, objects) /\ result' \in [ok : BOOLEAN, val : Ref]
      /\ (~result'.ok => result'.val = Null)
  <2>1. RefOK(result.val, epoch + 1, objects)
    BY <1>1 DEF RefOK, Ref
  <2>2. RefOK(NoResult.val, epoch + 1, objects)
    <3>1. epoch + 1 \in Nat
      BY <1>1
    <3> QED
      BY <1>1, <3>1, NullNames DEF NoResult
  <2> QED
    BY <2>1, <2>2, Unchanged
<1>3. TypeOK'
  <2>1. epoch' \in Nat /\ kept'.obj <= objects' /\ kept'.born <= epoch'
    BY <1>1 DEF RefOK, Ref
  <2>2. frames' \in Seq(Frame)
    BY DEF StackOK
  <2> QED
    BY <1>2, <2>1, <2>2 DEF IInv, TypeOK
<1>4. ~(kept.born = epoch + 1)
  BY <1>1 DEF RefOK, Ref
<1> QED
  BY <1>1, <1>2, <1>3, <1>4 DEF IInv

\* The safepoint instruction mints its GC list in the new epoch.
LEMMA SafepointOK ==
    ASSUME IInv, FrameInv, Honest, NEW gc \in SUBSET Reg, Safepoint(gc), ~broken'
    PROVE  IInv'
<1>1. /\ frames # <<>> /\ fuel' \in 0..(FuelLimit + 1) /\ Top.pending = NoWait
      /\ mode = "run" /\ gc \subseteq Top.fresh /\ ~Top.nogc
  BY BurnOK DEF Safepoint
<1>2. \A r \in gc : Accepts(Top.regs[r]) /\ Top.regs[r].lo = Top.regs[r].obj
  BY <1>1, TopFacts DEF NamesIn
<1> DEFINE regs == Relocated(Top, gc, Captured(gc), epoch + 1)
<1>3. /\ epoch' = epoch + 1 /\ broken' \in BOOLEAN /\ mode' = "run"
      /\ \A i \in DOMAIN frames : ~frames[i].claimed
      /\ UNCHANGED <<objects, floor, cell, sp, kept, outcome, result>>
      /\ frames' = WithTop(WithRegs(Top, regs, gc))
  BY <1>1, <1>2 DEF Safepoint, Collects, memory, WithRegs
<1>4. /\ epoch \in Nat /\ objects \in Nat /\ objects < IdxRange
      /\ StackOK(frames, epoch, objects) /\ FrameOK(Top, epoch, objects)
  BY <1>1, TopFacts, LimitAssumption, RangeAssumption DEF IInv, TypeOK, Honest
<1>5. /\ regs \in [Reg -> Ref]
      /\ \A r \in Reg : RefOK(regs[r], epoch + 1, objects)
      /\ \A r \in gc : NamesIn(regs[r], epoch + 1, objects)
  <2>1. \A r \in gc : Captured(gc)[r] = Top.regs[r].obj
    BY <1>2 DEF Captured
  <2>2. epoch + 1 \in Nat /\ epoch <= epoch + 1
    BY <1>4
  <2> QED
    BY <1>4, <2>1, <2>2, RelocatedOK
<1> HIDE DEF regs
<1>6. FrameOK(WithRegs(Top, regs, gc), epoch + 1, objects)
  <2>1. Top \in Frame
    BY <1>4 DEF FrameOK
  <2> DEFINE g == WithRegs(Top, regs, gc)
  <2>2. g \in Frame /\ g.regs = regs /\ g.fresh = gc /\ g.pending = NoWait
    BY <1>1, <1>5, <2>1 DEF WithRegs, Frame
  <2>3. NoWait.safepoint = FALSE /\ NoWait.gc = {}
    BY DEF NoWait
  <2> HIDE DEF g
  <2>4. FrameOK(g, epoch + 1, objects)
    BY <1>5, <2>2, <2>3 DEF FrameOK
  <2> QED
    BY <2>4 DEF g
<1>7. WithRegs(Top, regs, gc).pending = NoWait
  BY <1>1, <1>4 DEF WithRegs, FrameOK, Frame
<1>8. StackOK(frames', epoch + 1, objects)
  <2>1. Len(frames) \in Nat /\ DOMAIN frames = 1..Len(frames)
    BY <1>4 DEF StackOK
  <2>2. \A i \in 1..(Len(frames) - 1) : frames[i].pending.safepoint
    BY <1>1, <1>3, <2>1, BelowWaits
  <2> QED
    BY <1>1, <1>3, <1>4, <1>6, <2>2, NewEpochOK
<1>9. TopRuns(frames')
  BY <1>1, <1>3, <1>4, <1>7 DEF StackOK, TopRuns, WithTop
<1> QED
  BY <1>1, <1>3, <1>8, <1>9, NextEpochOK

\* A GC list of readable registers is never refused.
LEMMA CallRefusedOK == ASSUME IInv, NEW gc \in SUBSET Reg, CallRefused(gc) PROVE IInv'
<1>1. frames # <<>> /\ gc \subseteq Top.fresh
  BY BurnOK DEF CallRefused
<1> QED
  BY <1>1, TopFacts DEF CallRefused

\* The caller as it waits for its callee (exec.rs waiting, start_call).
LEMMA WaiterOK ==
    ASSUME IInv, Honest, frames # <<>>, Top.pending = NoWait,
           NEW kind \in {"call", "invoke"}, NEW nogc \in BOOLEAN,
           NEW safepoint \in Safepoints(nogc),
           NEW arg \in Reg, NEW d \in Reg, NEW gc \in SUBSET Reg,
           MayCall(arg, gc, safepoint)
    PROVE  LET fs == WithTop(Waiter(kind, d, safepoint, gc))
           IN  StackOK(fs, epoch, objects) /\ fs # <<>>
<1> DEFINE g == Waiter(kind, d, safepoint, gc)
           fs == WithTop(g)
<1>1. safepoint \in BOOLEAN
  BY ProgramAssumption DEF Safepoints, IsSafepoint
<1>2. /\ FrameOK(Top, epoch, objects) /\ StackOK(frames, epoch, objects)
      /\ epoch \in Nat /\ objects \in Nat /\ Top \in Frame
      /\ Len(frames) \in Nat \ {0}
  BY TopFacts, PopOK
<1>3. gc \subseteq Top.fresh
  BY DEF MayCall
<1>4. \A r \in gc : Captured(gc)[r] = Top.regs[r].obj
  BY <1>2, <1>3, TopFacts DEF Captured, NamesIn
<1>5. Captured(gc) \in [Reg -> Nat]
  BY <1>2 DEF Captured, Frame, Ref
<1>6. Wait(kind, d, safepoint, gc) \in Waiting
  BY <1>1, <1>5 DEF Wait, Waiting
<1>7. /\ g \in Frame /\ g.regs = Top.regs
      /\ g.fresh = (IF safepoint THEN {} ELSE Top.fresh)
      /\ g.pending = Wait(kind, d, safepoint, gc)
  BY <1>2, <1>6 DEF Waiter, Frame
<1>8. g.pending.safepoint = safepoint /\ g.pending.gc = gc /\ g.pending.idx = Captured(gc)
  BY <1>7 DEF Wait
<1> HIDE DEF g
<1>9. FrameOK(g, epoch, objects)
  BY <1>2, <1>3, <1>4, <1>7, <1>8 DEF FrameOK
<1>10. StackOK(fs, epoch, objects) /\ Len(fs) = Len(frames)
  BY <1>2, <1>9, ReplaceOK
<1>11. fs # <<>>
  BY <1>2, <1>10
<1> QED
  BY <1>10, <1>11 DEF g

\* A call or an invoke of a function with a body.
LEMMA CallOK ==
    ASSUME IInv, Honest,
           NEW kind \in {"call", "invoke"}, NEW nogc \in BOOLEAN,
           NEW safepoint \in Safepoints(nogc),
           NEW size \in FrameSize, NEW arg \in Reg, NEW d \in Reg, NEW gc \in SUBSET Reg,
           Call(kind, nogc, safepoint, size, arg, gc, d)
    PROVE  IInv'
<1> DEFINE fs == WithTop(Waiter(kind, d, safepoint, gc))
<1>1. /\ frames # <<>> /\ fuel' \in 0..(FuelLimit + 1) /\ Top.pending = NoWait
      /\ MayCall(arg, gc, safepoint)
      /\ Push(fs, sp, nogc, Claims(nogc, safepoint), size, Top.regs[arg])
      /\ UNCHANGED <<result, epoch, broken, memory, kept>>
  BY BurnOK DEF Call
<1>2. StackOK(fs, epoch, objects) /\ Claims(nogc, safepoint) \in BOOLEAN
  BY <1>1, WaiterOK DEF Claims
<1>3. RefOK(Top.regs[arg], epoch, objects) /\ NamesIn(Top.regs[arg], epoch, objects)
  BY <1>1, TopFacts DEF MayCall
<1> HIDE DEF fs
<1>4. /\ StackOK(frames', epoch, objects) /\ sp' \in Nat /\ mode' \in {"idle", "run"}
      /\ (mode' = "run" => TopRuns(frames')) /\ outcome' \in Failure \cup {"none"}
  BY <1>1, <1>2, <1>3, PushOK DEF IInv, TypeOK
<1> QED
  BY <1>1, <1>4, SameEpochOK, Unchanged DEF memory

\* A host import that runs on a stack that is right leaves it right.
LEMMA HostStepOK ==
    ASSUME IInv, Honest, NEW mark \in Nat,
           NEW arg, RefOK(arg, epoch, objects), NamesIn(arg, epoch, objects),
           HostRuns(mark, arg),
           StackOK(frames', epoch, objects), sp' \in Nat,
           fuel' \in 0..(FuelLimit + 1), UNCHANGED <<epoch, broken, cell>>
    PROVE  IInv'
<1>1. /\ objects' \in Nat /\ objects <= objects' /\ objects' + floor' = MemSize
      /\ floor' \in 0..MemSize
      /\ result' \in [ok : BOOLEAN, val : Ref]
      /\ RefOK(result'.val, epoch, objects')
      /\ mode' = "deliver" /\ result'.ok => NamesIn(result'.val, epoch, objects')
      /\ ~result'.ok => result'.val = Null
      /\ RefOK(kept', epoch, objects')
      /\ kept'.born = epoch => NamesIn(kept', epoch, objects')
      /\ mode' \in {"idle", "deliver"}
      /\ outcome' \in Failure \cup {"none"}
  BY HostOK
<1>2. epoch \in Nat /\ objects \in Nat /\ cell \in Nat /\ broken \in BOOLEAN
  BY DEF IInv, TypeOK
<1>3. StackOK(frames', epoch, objects')
  BY <1>1, <1>2, MoreObjectsOK
<1>4. cell' \in Nat
  BY <1>1, <1>2
<1>5. TypeOK'
  BY <1>1, <1>2, <1>3, <1>4 DEF TypeOK, StackOK, RefOK, Failure
<1> QED
  BY <1>1, <1>3, <1>5 DEF IInv, Failure

\* A call or an invoke of a host import.
LEMMA CallHostOK ==
    ASSUME IInv, Honest,
           NEW kind \in {"call", "invoke"}, NEW nogc \in BOOLEAN,
           NEW safepoint \in Safepoints(nogc),
           NEW arg \in Reg, NEW d \in Reg, NEW gc \in SUBSET Reg,
           CallHost(kind, safepoint, arg, gc, d)
    PROVE  IInv'
<1>1. /\ frames # <<>> /\ fuel' \in 0..(FuelLimit + 1) /\ Top.pending = NoWait
      /\ MayCall(arg, gc, safepoint)
      /\ frames' = WithTop(Waiter(kind, d, safepoint, gc))
      /\ HostRuns(sp, Top.regs[arg])
      /\ UNCHANGED <<epoch, broken, cell, sp>>
  BY BurnOK DEF CallHost
<1>2. StackOK(frames', epoch, objects)
  BY <1>1, WaiterOK
<1>3. RefOK(Top.regs[arg], epoch, objects) /\ NamesIn(Top.regs[arg], epoch, objects)
  BY <1>1, TopFacts DEF MayCall
<1>4. sp \in Nat /\ sp' \in Nat
  BY <1>1 DEF IInv, TypeOK
<1> QED
  BY <1>1, <1>2, <1>3, <1>4, HostStepOK

\* What a frame leaves that calls on its way out.
LEMMA TailOK ==
    ASSUME IInv, frames # <<>>, NEW safepoint, NEW arg \in Reg, MayTailCall(safepoint, arg)
    PROVE  /\ StackOK(Below, epoch, objects)
           /\ RefOK(Top.regs[arg], epoch, objects) /\ NamesIn(Top.regs[arg], epoch, objects)
           /\ Top.mark \in Nat /\ Top.claimed \in BOOLEAN
BY TopFacts DEF MayTailCall, Frame

\* A tail call of a function with a body.
LEMMA TailCallOK ==
    ASSUME IInv, Honest, NEW nogc \in BOOLEAN, NEW safepoint \in Safepoints(nogc),
           NEW size \in FrameSize, NEW arg \in Reg, TailCall(nogc, safepoint, size, arg)
    PROVE  IInv'
<1>1. /\ frames # <<>> /\ fuel' \in 0..(FuelLimit + 1)
      /\ MayTailCall(safepoint, arg)
      /\ Push(Below, Top.mark, nogc, Top.claimed \/ Claims(nogc, safepoint), size, Top.regs[arg])
      /\ UNCHANGED <<result, epoch, broken, memory, kept>>
  BY BurnOK DEF TailCall
<1>2. /\ StackOK(frames', epoch, objects) /\ sp' \in Nat /\ mode' \in {"idle", "run"}
      /\ (mode' = "run" => TopRuns(frames')) /\ outcome' \in Failure \cup {"none"}
  <2>1. (Top.claimed \/ Claims(nogc, safepoint)) \in BOOLEAN
    BY <1>1, TailOK DEF Claims
  <2> QED
    BY <1>1, <2>1, TailOK, PushOK DEF IInv
<1> QED
  BY <1>1, <1>2, SameEpochOK, Unchanged DEF memory

\* A tail call of a host import.
LEMMA TailCallHostOK ==
    ASSUME IInv, Honest, NEW nogc \in BOOLEAN,
    NEW safepoint \in Safepoints(nogc), NEW arg \in Reg,
           TailCallHost(safepoint, arg)
    PROVE  IInv'
<1>1. /\ frames # <<>> /\ fuel' \in 0..(FuelLimit + 1)
      /\ MayTailCall(safepoint, arg)
      /\ frames' = Below /\ sp' = Top.mark
      /\ HostRuns(Top.mark, Top.regs[arg])
      /\ UNCHANGED <<epoch, broken, cell>>
  BY BurnOK DEF TailCallHost
<1> QED
  BY <1>1, TailOK, HostStepOK

\* A result on its way down the stack.
LEMMA UnwindOK == ASSUME IInv, Unwind PROVE IInv'
<1>1. StackOK(Below, epoch, objects) /\ Top.mark \in Nat
  BY TopFacts DEF Unwind
<1> QED
  BY <1>1, SameEpochOK, Unchanged DEF Unwind, memory

\* The result of the outermost frame ends the call of the embedder.
LEMMA FinishOK == ASSUME IInv, Finish PROVE IInv'
<1>1. RefOK(result.val, epoch, objects) /\ NamesIn(result.val, epoch, objects)
  <2>1. epoch \in Nat /\ objects \in Nat
    BY DEF IInv, TypeOK
  <2> QED
    BY <2>1, Unchanged, NullNames DEF Finish
<1> QED
  BY <1>1, SameEpochOK, Unchanged DEF Finish, memory, Fail, Failure

\* The frame that takes a result: what it may read is current in the epoch the
\* call leaves it in.
LEMMA ResumedOK ==
    ASSUME IInv, Honest, mode = "deliver", frames # <<>>,
           NEW e \in Nat, e = (IF Top.pending.safepoint THEN epoch + 1 ELSE epoch)
    PROVE  /\ FrameOK(Resumed(Top.pending), e, objects)
           /\ Resumed(Top.pending).pending = NoWait
<1> DEFINE w == Top.pending
           dst == IF result.ok THEN w.dst ELSE {}
           val == IF w.safepoint THEN Minted ELSE result.val
           moved == Relocated(Top, w.gc, w.idx, e)
           regs == [r \in Reg |-> IF r \in dst THEN val ELSE moved[r]]
           fresh == Top.fresh \cup w.gc \cup dst
           g == Resumed(w)
<1>1. /\ epoch \in Nat /\ objects \in Nat /\ objects < IdxRange /\ epoch <= e
      /\ FrameOK(Top, epoch, objects) /\ Top \in Frame /\ w \in Waiting
  <2>1. /\ epoch \in Nat /\ objects \in Nat
        /\ FrameOK(Top, epoch, objects) /\ Top \in Frame
    BY TopFacts
  <2>2. w \in Waiting
    BY <2>1 DEF Frame
  <2>3. objects < IdxRange
    BY LimitAssumption, RangeAssumption DEF IInv, TypeOK, Honest
  <2>4. epoch <= e
    BY <2>1
  <2> QED
    BY <2>1, <2>2, <2>3, <2>4
<1>2. /\ \A r \in w.gc : w.idx[r] = Top.regs[r].obj
      /\ w.gc \in SUBSET Reg /\ dst \in SUBSET Reg /\ Top.fresh \in SUBSET Reg
      /\ w.safepoint => Top.fresh = {}
  BY <1>1 DEF FrameOK, Frame, Waiting
<1>3. /\ moved \in [Reg -> Ref]
      /\ \A r \in Reg : RefOK(moved[r], e, objects)
      /\ \A r \in w.gc : NamesIn(moved[r], e, objects)
      /\ e = epoch => \A r \in Top.fresh : NamesIn(moved[r], e, objects)
  BY <1>1, <1>2, RelocatedOK
<1>4. ASSUME result.ok PROVE RefOK(val, e, objects) /\ NamesIn(val, e, objects)
  <2>1. RefOK(result.val, epoch, objects) /\ NamesIn(result.val, epoch, objects)
    BY <1>4, Unchanged
  <2>2. result.val.lo = result.val.obj /\ result.val.lo \in 0..objects
    BY <1>1, <2>1 DEF RefOK, NamesIn, Ref
  <2>3. RefOK(Minted, epoch + 1, objects) /\ NamesIn(Minted, epoch + 1, objects)
    <3>1. epoch + 1 \in Nat
      BY <1>1
    <3> QED
      BY <1>1, <2>2, <3>1, EncodeNames DEF Minted
  <2> QED
    BY <2>1, <2>3
<1>5. /\ regs \in [Reg -> Ref] /\ fresh \in SUBSET Reg
      /\ \A r \in Reg : RefOK(regs[r], e, objects)
  <2> HIDE DEF moved, val
  <2> QED  BY <1>2, <1>3, <1>4 DEF RefOK
<1>6. ASSUME NEW r \in fresh PROVE NamesIn(regs[r], e, objects)
  <2> HIDE DEF moved, val
  <2>1. CASE r \in dst
    BY <1>2, <1>4, <2>1
  <2>2. CASE r \notin dst /\ r \in w.gc
    BY <1>2, <1>3, <2>2
  <2>3. CASE r \notin dst /\ r \in Top.fresh
    BY <1>2, <1>3, <2>3
  <2> QED
    BY <2>1, <2>2, <2>3
<1>7. g = [Top EXCEPT !.regs = regs, !.fresh = fresh, !.pending = NoWait]
  BY <1>1 DEF Resumed
<1>8. NoWait \in Waiting /\ NoWait.safepoint = FALSE /\ NoWait.gc = {}
  BY DEF NoWait, Waiting
<1> HIDE DEF regs, fresh, g, dst, val, moved, w
<1>9. g \in Frame /\ g.regs = regs /\ g.fresh = fresh /\ g.pending = NoWait
  BY <1>1, <1>5, <1>7, <1>8 DEF Frame
<1>10. FrameOK(g, e, objects)
  BY <1>5, <1>6, <1>8, <1>9 DEF FrameOK
<1> QED
  BY <1>9, <1>10 DEF g, w

\* deliver(): the waiting frame takes its result.
LEMMA DeliverOK == ASSUME IInv, FrameInv, Honest, Deliver, ~broken' PROVE IInv'
<1> DEFINE w == Top.pending
           g == Resumed(w)
<1>1. /\ epoch \in Nat /\ objects \in Nat /\ StackOK(frames, epoch, objects)
      /\ FrameOK(Top, epoch, objects)
      /\ Top \in Frame /\ w.safepoint \in BOOLEAN
      /\ mode = "deliver" /\ frames # <<>>
  BY TopFacts DEF Deliver, Frame, Waiting
<1>2. result.ok => Accepts(result.val)
  BY <1>1, Unchanged DEF NamesIn, Accepts
<1>3. /\ epoch' = (IF w.safepoint THEN epoch + 1 ELSE epoch)
      /\ IF w.safepoint THEN \A i \in DOMAIN frames : ~frames[i].claimed
                        ELSE broken' = broken
      /\ frames' = WithTop(g)
      /\ mode' = "run" /\ result' = NoResult
      /\ UNCHANGED <<outcome, fuel, objects, cell, floor, sp, kept>>
      /\ broken' = FALSE
  <2>1. broken \in BOOLEAN
    BY DEF IInv, TypeOK
  <2>2. /\ IF w.safepoint THEN Collects ELSE UNCHANGED <<epoch, broken>>
        /\ frames' = WithTop(g)
        /\ mode' = "run" /\ result' = NoResult
        /\ UNCHANGED <<outcome, fuel, objects, cell, floor, sp, kept>>
    BY <1>2 DEF Deliver, memory
  <2> HIDE DEF g
  <2>3. CASE w.safepoint
    BY <2>1, <2>2, <2>3 DEF Collects
  <2>4. CASE ~w.safepoint
    BY <2>1, <2>2, <2>4
  <2> QED
    BY <2>3, <2>4
<1>4. g.pending = NoWait /\ FrameOK(g, epoch', objects)
  <2>1. epoch' \in Nat
    BY <1>1, <1>3
  <2> QED
    BY <1>1, <1>3, <2>1, ResumedOK
<1> HIDE DEF g
<1>5. CASE w.safepoint
  <2>1. \A i \in 1..(Len(frames) - 1) : frames[i].pending.safepoint
    <3>1. Len(frames) \in Nat \ {0} /\ DOMAIN frames = 1..Len(frames)
      BY <1>1 DEF StackOK
    <3>2. ~Top.nogc
      BY <1>5, <3>1 DEF FrameInv, Quiet, Top
    <3> QED
      BY <1>1, <1>3, <1>5, <3>1, <3>2, BelowWaits
  <2>2. epoch' = epoch + 1 /\ FrameOK(g, epoch + 1, objects)
    BY <1>3, <1>4, <1>5
  <2>3. StackOK(frames', epoch + 1, objects)
    BY <1>1, <1>3, <1>4, <2>1, <2>2, NewEpochOK
  <2>4. TopRuns(frames')
    BY <1>1, <1>3, <1>4 DEF StackOK, TopRuns, WithTop
  <2> QED
    BY <1>3, <2>2, <2>3, <2>4, NextEpochOK, Unchanged
<1>6. CASE ~w.safepoint
  <2>1. epoch' = epoch /\ FrameOK(g, epoch, objects)
    BY <1>3, <1>4, <1>6
  <2>2. StackOK(frames', epoch, objects) /\ TopRuns(frames')
    BY <1>1, <1>3, <1>4, <2>1, RunOnOK
  <2> QED
    BY <1>3, <2>1, <2>2, SameEpochOK, Unchanged
<1> QED
  BY <1>5, <1>6

\* The embedder.
LEMMA RootCallOK ==
    ASSUME IInv, Honest, NEW nogc \in BOOLEAN, NEW size \in FrameSize, NEW arg \in HandedIn,
           RootCall(nogc, size, arg)
    PROVE  IInv'
<1>1. RefOK(arg, epoch, objects) /\ NamesIn(arg, epoch, objects)
  BY HandedInOK
<1>2. StackOK(<<>>, epoch, objects) /\ Len(<<>>) = 0 /\ 0 \in Nat /\ TypeOK
  BY Unchanged DEF IInv
<1>3. /\ Push(<<>>, 0, nogc, FALSE, size, arg)
      /\ UNCHANGED <<result, fuel, epoch, broken, memory, kept>>
  BY DEF RootCall
<1>4. /\ StackOK(frames', epoch, objects) /\ sp' \in Nat /\ mode' \in {"idle", "run"}
      /\ (mode' = "run" => TopRuns(frames')) /\ outcome' \in Failure \cup {"none"}
  BY <1>1, <1>2, <1>3, PushOK
<1> QED
  BY <1>3, <1>4, SameEpochOK, Unchanged DEF memory

\* The embedder calls a host import directly.
LEMMA RootCallHostOK ==
    ASSUME IInv, Honest, NEW arg \in HandedIn, RootCallHost(arg) PROVE IInv'
<1>1. RefOK(arg, epoch, objects) /\ NamesIn(arg, epoch, objects)
  BY HandedInOK
<1>2. /\ StackOK(frames', epoch, objects) /\ sp' \in Nat /\ fuel' \in 0..(FuelLimit + 1)
      /\ HostRuns(0, arg) /\ UNCHANGED <<epoch, broken, cell>> /\ 0 \in Nat
  BY Unchanged DEF RootCallHost
<1> QED
  BY <1>1, <1>2, HostStepOK

\* The embedder allocates an object between calls.
LEMMA EmbedderAllocOK == ASSUME IInv, Honest, EmbedderAlloc PROVE IInv'
<1>1. sp \in Nat /\ epoch \in Nat /\ objects \in Nat /\ mode = "idle" /\ cell \in Nat
      /\ Alloc(sp)
  BY DEF IInv, TypeOK, EmbedderAlloc
<1>2. /\ objects' = objects + 1 /\ objects' \in Nat /\ objects' + floor' = MemSize
      /\ floor' \in 0..MemSize
      /\ RefOK(NewRef, epoch, objects') /\ NamesIn(NewRef, epoch, objects')
  BY <1>1, AllocOK
<1>3. /\ kept' = NewRef
      /\ UNCHANGED <<frames, mode, result, outcome, fuel, epoch, broken, cell, sp>>
  BY DEF EmbedderAlloc
<1>4. StackOK(frames', epoch, objects') /\ RefOK(result'.val, epoch, objects')
  BY <1>1, <1>2, <1>3, Unchanged, MoreObjectsOK, MoreObjectsNames
<1>5. TypeOK'
  BY <1>1, <1>2, <1>3, <1>4 DEF IInv, TypeOK, RefOK
<1> QED
  BY <1>1, <1>2, <1>3, <1>4, <1>5 DEF IInv

\* The initial state satisfies the invariant.
LEMMA InitOK == Init /\ Honest => IInv
<1> SUFFICES ASSUME Init, Honest PROVE IInv
  OBVIOUS
<1>1. RefOK(Null, 0, 0) /\ NamesIn(Null, 0, 0) /\ Null \in Ref
  BY NullNames DEF RefOK
<1>2. StackOK(<<>>, 0, 0)
  BY DEF StackOK
<1>3. TypeOK
  <2>1. /\ kept \in Ref /\ kept.obj <= objects /\ kept.born <= epoch
        /\ result \in [ok : BOOLEAN, val : Ref]
    BY <1>1 DEF Init, NoResult, RefOK
  <2>2. frames \in Seq(Frame) /\ fuel \in 0..(FuelLimit + 1) /\ floor \in 0..MemSize
    BY LimitAssumption DEF Init
  <2> QED
    BY <2>1, <2>2 DEF Init, TypeOK
<1> QED
  BY <1>1, <1>2, <1>3, LimitAssumption DEF Init, IInv, NoResult

\* A step that changes nothing keeps the invariant.
LEMMA StutterOK == IInv /\ UNCHANGED vars => IInv'
BY DEF IInv, TypeOK, vars, memory, StackOK, FrameOK, RefOK, NamesIn, TopRuns

\* Every step of the interpreter and of its embedder keeps the invariant or breaks
\* a claim.
LEMMA NextOK == IInv /\ FrameInv /\ Honest /\ [Next]_vars => IInv' \/ broken'
<1> SUFFICES ASSUME IInv, FrameInv, Honest, [Next]_vars, ~broken' PROVE IInv'
  OBVIOUS
<1>1. CASE Instruction
  <2>1. ASSUME NEW from \in Copies, TakeEdge(from) PROVE IInv'
    <3>1. from \in [Reg -> Reg]
      BY DEF Copies
    <3> QED
      BY <2>1, <3>1, TakeEdgeOK
  <2> QED
    BY <1>1, <2>1, OutOfFuelOK, TrapOK, ResumeOK, LoadRefOK, StoreWordOK, StoreRefOK,
       ReturnOK, SafepointOK, CallRefusedOK, CallHostOK, CallOK, TailCallHostOK, TailCallOK
       DEF Instruction
<1>2. CASE Deliver \/ Unwind \/ Finish
  BY <1>2, DeliverOK, UnwindOK, FinishOK
<1>3. CASE Embedder
  BY <1>3, EmbedderAllocOK, RootCallHostOK, RootCallOK DEF Embedder
<1>4. CASE UNCHANGED vars
  BY <1>4, StutterOK
<1> QED
  BY <1>1, <1>2, <1>3, <1>4 DEF Next, Machine

\* A claim once broken stays so.
LEMMA BrokenStays == broken /\ [Next]_vars => broken'
<1> SUFFICES ASSUME broken, [Next]_vars PROVE broken'
  OBVIOUS
<1>1. CASE Instruction
  BY ZenonT(40), <1>1 DEF Instruction, OutOfFuel, Trap, Resume, LoadRef, StoreRef, StoreWord,
     Return, Leave, TakeEdge, Safepoint, Collects, CallRefused, CallHost, Call, TailCallHost,
     TailCall
<1>2. CASE Deliver
  BY <1>2 DEF Deliver, Collects
<1>3. CASE Unwind \/ Finish
  BY <1>3 DEF Unwind, Finish
<1>4. CASE Embedder
  BY <1>4 DEF Embedder, EmbedderAlloc, RootCallHost, RootCall
<1>5. CASE UNCHANGED vars
  BY <1>5 DEF vars
<1> QED
  BY <1>1, <1>2, <1>3, <1>4, <1>5 DEF Next, Machine

\* The invariant holds in every run of a program the validator accepts until a
\* claim of a call site is broken.
THEOREM InvariantHolds == ASSUME Honest PROVE Spec => [](broken \/ IInv)
<1>1. Honest
  OBVIOUS
<1> QED
  BY <1>1, InitOK, NextOK, BrokenStays, FramesHold, PTL DEF Spec

\* Until then every register the safepoint rules let a frame read decodes to its
\* object, in every frame of a stack of any depth (exec.rs waiting, relocate,
\* deliver).
THEOREM FreshRefs == ASSUME Honest PROVE Spec => []FreshRefsName
<1>1. broken \/ IInv => FreshRefsName
  <2> SUFFICES ASSUME IInv, NEW i \in DOMAIN frames, NEW r \in frames[i].fresh
               PROVE  Names(frames[i].regs[r])
    BY DEF FreshRefsName
  <2>1. frames \in Seq(Frame) /\ i \in 1..Len(frames)
    BY DEF IInv, TypeOK
  <2>2. FrameOK(frames[i], epoch, objects)
    BY <2>1 DEF IInv, StackOK
  <2>3. NamesIn(frames[i].regs[r], epoch, objects)
    BY <2>2 DEF FrameOK
  <2> QED
    BY <2>3 DEF NamesIn, Names, Accepts
<1> QED
  BY <1>1, InvariantHolds, PTL

\* Until then no program the validator accepts uses a reference from before a
\* safepoint (interp/mod.rs decode_ref, exec.rs relocate and waiting).
THEOREM NoStaleUseUntilBroken == ASSUME Honest PROVE Spec => []NoStaleUse
<1>1. broken \/ IInv => NoStaleUse
  BY DEF IInv, NoStaleUse
<1> QED
  BY <1>1, InvariantHolds, PTL

------------------------------------------------------------------------------
(***************************************************************************)
(* Part three: any program and any host.  As long as memory has no room    *)
(* for more objects than the index field can number, a reference carries   *)
(* the epoch it was made in.                                               *)
(***************************************************************************)
Fits == MemSize < IdxRange

\* A reference made in an epoch up to e for one of n objects, with that epoch
\* in its field unless it is null.
Made(v, e, n) ==
    /\ v \in Ref /\ v.obj <= n /\ v.born <= e
    /\ IsNull(v) \/ v.hi = v.born % EpochRange

\* A frame of such references; what it captured are numbers of objects, and at
\* a safepoint it keeps nothing.
FrameMade(f, e, n) ==
    /\ f \in Frame
    /\ \A r \in Reg : Made(f.regs[r], e, n)
    /\ Waits(f) /\ f.pending.safepoint => f.fresh = {}
    /\ \A r \in f.pending.gc : f.pending.idx[r] <= n

AllMade(fs, e, n) ==
    /\ fs \in Seq(Frame)
    /\ \A i \in 1..Len(fs) : FrameMade(fs[i], e, n)

RefInv ==
    /\ TypeOK
    /\ objects + floor = MemSize
    /\ AllMade(frames, epoch, objects)
    /\ Made(result.val, epoch, objects)
    /\ Made(kept, epoch, objects)

\* Numbers less than R apart leave different remainders.
LEMMA ModDiffers ==
    ASSUME NEW R \in Nat \ {0}, NEW b \in Nat, NEW e \in Nat, b < e, e < b + R
    PROVE  b % R # e % R
<1> DEFINE p == b \div R
           q == e \div R
<1>1. /\ p \in Int /\ b = R * p + (b % R)
      /\ q \in Int /\ e = R * q + (e % R)
  OBVIOUS
<1> HIDE DEF p, q
<1> SUFFICES ASSUME b % R = e % R PROVE FALSE
  OBVIOUS
<1>2. e - b = R * q - R * p /\ R * q - R * p = R * (q - p)
  BY <1>1
<1>3. CASE q - p >= 1
  <2>1. R * (q - p) >= R * 1
    BY <1>1, <1>3
  <2> QED  BY <1>1, <1>2, <2>1
<1>4. CASE q - p <= 0
  <2>1. R * (q - p) <= 0
    BY <1>1, <1>4
  <2> QED  BY <1>1, <1>2, <2>1
<1> QED
  BY <1>1, <1>3, <1>4

\* Encoding a number that fits its field.
LEMMA EncodeMade ==
    ASSUME NEW e \in Nat, NEW n \in Nat, n < IdxRange, NEW i \in 0..n, NEW o \in 0..n
    PROVE  /\ Made(Encode(e, i, o), e, n)
           /\ IsNull(Encode(e, i, o))
              \/ (Encode(e, i, o).hi = e % EpochRange /\ Encode(e, i, o).lo \in 1..n)
BY RangeAssumption DEF Made, Encode, Null, IsNull, Ref

LEMMA NullMade ==
    ASSUME NEW e \in Nat, NEW n \in Nat
    PROVE  Made(Null, e, n)
BY DEF Made, Null, IsNull, Ref

\* What was made stays so in later epochs, with more objects.
LEMMA LaterMade ==
    ASSUME NEW e \in Nat, NEW n \in Nat, NEW e2 \in Nat, NEW n2 \in Nat, e <= e2, n <= n2
    PROVE  /\ \A v : Made(v, e, n) => Made(v, e2, n2)
           /\ \A f : FrameMade(f, e, n) => FrameMade(f, e2, n2)
           /\ \A fs : AllMade(fs, e, n) => AllMade(fs, e2, n2)
<1>1. ASSUME NEW v, Made(v, e, n) PROVE Made(v, e2, n2)
  BY <1>1 DEF Made, Ref
<1>2. ASSUME NEW f, FrameMade(f, e, n) PROVE FrameMade(f, e2, n2)
  BY <1>1, <1>2 DEF FrameMade, Frame, Waiting
<1> QED
  BY <1>1, <1>2 DEF AllMade

\* The stack without its top frame, with another one, and with one more.
LEMMA MadeStacks ==
    ASSUME NEW e \in Nat, NEW n \in Nat
    PROVE  /\ AllMade(frames, e, n) /\ frames # <<>> =>
                FrameMade(Top, e, n) /\ AllMade(Below, e, n)
           /\ \A f : AllMade(frames, e, n) /\ frames # <<>> /\ FrameMade(f, e, n) =>
                AllMade(WithTop(f), e, n)
           /\ \A fs, g : AllMade(fs, e, n) /\ FrameMade(g, e, n) => AllMade(Append(fs, g), e, n)
<1>1. ASSUME AllMade(frames, e, n), frames # <<>> PROVE FrameMade(Top, e, n) /\ AllMade(Below, e, n)
  <2>1. frames \in Seq(Frame) /\ Len(frames) \in Nat \ {0}
    BY <1>1 DEF AllMade
  <2> DEFINE k == Len(frames) - 1
  <2>2. k \in Nat /\ \A i \in 1..k : frames[i] \in Frame
    BY <2>1
  <2>3. /\ SubSeq(frames, 1, k) \in Seq(Frame)
        /\ Len(SubSeq(frames, 1, k)) = IF 1 <= k THEN k - 1 + 1 ELSE 0
        /\ \A i \in 1..(k - 1 + 1) : SubSeq(frames, 1, k)[i] = frames[1 + i - 1]
    <3> HIDE DEF k
    <3> QED  BY <2>1, <2>2, SubSeqProperties, 1 \in Int
  <2>4. Below = SubSeq(frames, 1, k)
    BY DEF Below
  <2>5. Below \in Seq(Frame) /\ Len(Below) = k /\ \A i \in 1..k : Below[i] = frames[i]
    <3> HIDE DEF k
    <3>1. k - 1 + 1 = k /\ (IF 1 <= k THEN k - 1 + 1 ELSE 0) = k /\ \A i \in 1..k : 1 + i - 1 = i
      BY <2>2
    <3> QED  BY <2>3, <2>4, <3>1
  <2> QED  BY <1>1, <2>1, <2>5 DEF AllMade, Top
<1>2. ASSUME NEW f, AllMade(frames, e, n), frames # <<>>, FrameMade(f, e, n)
      PROVE  AllMade(WithTop(f), e, n)
  <2>1. frames \in Seq(Frame) /\ Len(frames) \in Nat \ {0} /\ f \in Frame
    BY <1>2 DEF AllMade, FrameMade
  <2>2. WithTop(f) \in Seq(Frame) /\ Len(WithTop(f)) = Len(frames)
    BY <2>1 DEF WithTop
  <2>3. \A i \in 1..Len(frames) : WithTop(f)[i] = IF i = Len(frames) THEN f ELSE frames[i]
    BY <2>1 DEF WithTop
  <2> QED  BY <1>2, <2>1, <2>2, <2>3 DEF AllMade
<1>3. ASSUME NEW fs, NEW g, AllMade(fs, e, n), FrameMade(g, e, n) PROVE AllMade(Append(fs, g), e, n)
  <2>1. fs \in Seq(Frame) /\ Len(fs) \in Nat /\ g \in Frame
    BY <1>3 DEF AllMade, FrameMade
  <2>2. /\ Append(fs, g) \in Seq(Frame) /\ Len(Append(fs, g)) = Len(fs) + 1
        /\ Append(fs, g)[Len(fs) + 1] = g
        /\ \A i \in 1..Len(fs) : Append(fs, g)[i] = fs[i]
    BY <2>1
  <2> QED  BY <1>3, <2>1, <2>2 DEF AllMade
<1> QED
  BY <1>1, <1>2, <1>3

Outcomes == {"none", "Return", "Unwind", "Trap", "Fault", "Host", "StaleRef",
             "NoObject", "StackOverflow", "OutOfMemory", "FuelExhausted"}

\* What the steps of the proof start from.
LEMMA RefFacts ==
    ASSUME RefInv, Fits
    PROVE  /\ epoch \in Nat /\ objects \in Nat /\ objects < IdxRange
           /\ AllMade(frames, epoch, objects)
           /\ Made(kept, epoch, objects) /\ Made(result.val, epoch, objects)
           /\ result \in [ok : BOOLEAN, val : Ref] /\ outcome \in Outcomes
           /\ cell \in Nat /\ fuel \in 0..(FuelLimit + 1) /\ broken \in BOOLEAN
           /\ frames # <<>> =>
                /\ FrameMade(Top, epoch, objects) /\ AllMade(Below, epoch, objects)
                /\ \A r \in Reg : /\ Made(Top.regs[r], epoch, objects)
                                  /\ Accepts(Top.regs[r]) => Top.regs[r].lo \in 0..objects
<1>1. epoch \in Nat /\ objects \in Nat /\ objects < IdxRange
  BY LimitAssumption, RangeAssumption DEF RefInv, TypeOK, Fits
<1>2. frames # <<>> => FrameMade(Top, epoch, objects) /\ AllMade(Below, epoch, objects)
  BY <1>1, MadeStacks DEF RefInv
<1>3. ASSUME NEW v, Accepts(v) PROVE v.lo \in 0..objects
  BY <1>1, <1>3 DEF Accepts, IsNull
<1> QED
  BY <1>1, <1>2, <1>3 DEF RefInv, TypeOK, Outcomes, FrameMade

\* A step that adds no object, in the same epoch or a new one.
LEMMA SameObjects ==
    ASSUME RefInv, FrameInv', Fits,
           UNCHANGED <<objects, floor>>, epoch' \in {epoch, epoch + 1},
           AllMade(frames', epoch', objects),
           cell' \in Nat, fuel' \in 0..(FuelLimit + 1), outcome' \in Outcomes,
           broken' \in BOOLEAN,
           result' \in [ok : BOOLEAN, val : Ref], Made(result'.val, epoch', objects),
           kept' = kept \/ Made(kept', epoch', objects)
    PROVE  RefInv'
<1>1. epoch \in Nat /\ objects \in Nat /\ Made(kept, epoch, objects) /\ epoch' \in Nat
      /\ epoch <= epoch'
  BY RefFacts
<1>2. Made(kept', epoch', objects)
  BY <1>1, LaterMade
<1>3. TypeOK'
  BY <1>1, <1>2 DEF RefInv, TypeOK, FrameInv, AllMade, Made, Outcomes
<1> QED
  BY <1>1, <1>2, <1>3 DEF RefInv

\* A host import in the same epoch.
LEMMA HostMade ==
    ASSUME RefInv, FrameInv', Fits, NEW mark \in Nat,
           NEW arg, Made(arg, epoch, objects), HostRuns(mark, arg),
           UNCHANGED <<epoch, broken, cell>>, AllMade(frames', epoch, objects),
           fuel' \in 0..(FuelLimit + 1)
    PROVE  RefInv'
<1>1. /\ epoch \in Nat /\ objects \in Nat /\ objects < IdxRange /\ outcome \in Outcomes
      /\ Made(kept, epoch, objects) /\ Made(result.val, epoch, objects)
      /\ result \in [ok : BOOLEAN, val : Ref] /\ cell \in Nat
      /\ broken' \in BOOLEAN
  BY RefFacts
<1>2. CASE /\ Alloc(mark)
           /\ result' = [ok |-> TRUE, val |-> NewRef]
           /\ mode' = "deliver"
           /\ kept' \in {kept, NewRef}
           /\ outcome' = "none"
  <2>1. /\ objects' = objects + 1 /\ floor' = floor - 1 /\ floor > mark
        /\ floor \in 0..MemSize /\ objects + floor = MemSize
    BY <1>2 DEF Alloc, RefInv, TypeOK
  <2>2. objects' \in Nat /\ objects' < IdxRange /\ objects' + floor' = MemSize
        /\ floor' \in 0..MemSize /\ objects <= objects' /\ objects' \in 0..objects'
    BY <1>1, <2>1, LimitAssumption, RangeAssumption DEF Fits
  <2>3. Made(NewRef, epoch, objects')
    <3>1. NewRef = Encode(epoch, objects', objects')
      BY <2>1 DEF NewRef
    <3> QED  BY <1>1, <2>2, <3>1, EncodeMade
  <2>4. Made(kept', epoch, objects') /\ Made(result'.val, epoch, objects')
        /\ AllMade(frames', epoch, objects')
    BY <1>1, <1>2, <2>2, <2>3, LaterMade
  <2>5. TypeOK'
    BY <1>1, <1>2, <2>2, <2>3, <2>4 DEF TypeOK, FrameInv, AllMade, Made, Outcomes
  <2> QED  BY <2>2, <2>4, <2>5 DEF RefInv
<1>3. CASE UNCHANGED <<objects, floor>>
  <2>1. /\ outcome' \in Outcomes
        /\ result' \in [ok : BOOLEAN, val : Ref] /\ Made(result'.val, epoch, objects)
        /\ kept' = kept \/ Made(kept', epoch, objects)
    <3>1. CASE /\ \E v \in {arg} \cup HandedIn : result' = [ok |-> TRUE, val |-> v]
               /\ kept' \in {kept, arg}
               /\ outcome' = "none"
      <4>1. PICK v \in {arg} \cup HandedIn : result' = [ok |-> TRUE, val |-> v]
        BY <3>1
      <4>2. Made(v, epoch, objects)
        BY <1>1, NullMade DEF HandedIn
      <4> QED  BY <3>1, <4>1, <4>2 DEF Outcomes, Made
    <3>2. CASE /\ result' = Thrown
               /\ outcome' = "none"
               /\ kept' = kept
      BY <1>1, <3>2, NullMade DEF Thrown, Outcomes, Made
    <3>3. CASE Fail("Host") /\ UNCHANGED <<result, kept>>
      BY <1>1, <3>3 DEF Fail, Outcomes
    <3>4. \/ objects' = objects + 1
          \/ /\ \E v \in {arg} \cup HandedIn : result' = [ok |-> TRUE, val |-> v]
             /\ kept' \in {kept, arg}
             /\ outcome' = "none"
          \/ result' = Thrown /\ outcome' = "none" /\ kept' = kept
          \/ Fail("Host") /\ UNCHANGED <<result, kept>>
      BY DEF HostRuns, Alloc
    <3> QED  BY <1>1, <1>3, <3>1, <3>2, <3>3, <3>4
  <2> QED  BY <1>1, <1>3, <2>1, SameObjects
<1> QED
  BY <1>2, <1>3 DEF HostRuns

\* A running top frame is replaced by another one that runs.
LEMMA RunOnMade ==
    ASSUME RefInv, FrameInv, FrameInv', Fits, Burn,
           epoch' \in {epoch, epoch + 1}, broken' \in BOOLEAN,
           UNCHANGED <<outcome, result, cell, objects, floor, kept>>,
           NEW R, NEW F, F \in SUBSET Reg,
           R \in [Reg -> Ref], \A r \in Reg : Made(R[r], epoch', objects),
           NEW f, f \in [nogc : {Top.nogc}, claimed : {Top.claimed}, mark : {Top.mark},
                         size : {Top.size}, fresh : {F},
                         regs : {R}, pending : {Top.pending}],
           frames' = WithTop(f)
    PROVE  RefInv'
<1>1. mode = "run" /\ frames # <<>> /\ ~Waits(Top)
  <2>1. mode = "run"
    BY DEF Burn
  <2> QED  BY <2>1, RunningTop
<1>2. /\ epoch \in Nat /\ objects \in Nat /\ epoch' \in Nat /\ epoch <= epoch'
      /\ AllMade(frames, epoch, objects) /\ FrameMade(Top, epoch, objects) /\ Top \in Frame
      /\ Made(result.val, epoch, objects) /\ result \in [ok : BOOLEAN, val : Ref]
      /\ outcome \in Outcomes /\ cell \in Nat
      /\ Top.pending \in Waiting
  BY <1>1, RefFacts DEF FrameMade, Frame
<1>3. fuel' \in 0..(FuelLimit + 1)
  BY LimitAssumption, RefFacts DEF Burn
<1>4. FrameMade(f, epoch', objects)
  <2>1. f \in Frame
    BY <1>2 DEF Frame
  <2>2. ~Waits(f)
    BY <1>1 DEF Waits
  <2>3. \A r \in f.pending.gc : f.pending.idx[r] <= objects
    BY <1>2 DEF FrameMade
  <2> QED  BY <2>1, <2>2, <2>3 DEF FrameMade
<1>5. AllMade(frames', epoch', objects) /\ Made(result.val, epoch', objects)
  <2>1. AllMade(frames, epoch', objects) /\ Made(result.val, epoch', objects)
    BY <1>2, LaterMade
  <2> QED  BY <1>1, <1>2, <1>4, <2>1, MadeStacks
<1> QED
  BY <1>2, <1>3, <1>5, SameObjects

\* Instructions that write registers of the top frame.
LEMMA LoadMade ==
    ASSUME RefInv, FrameInv, FrameInv', Fits, NEW d \in Reg, LoadRef(d)
    PROVE  RefInv'
<1>1. Burn /\ frames # <<>> /\ UNCHANGED <<epoch, broken, result, cell, objects, floor, kept>>
  BY DEF LoadRef, Burn, FrameInv, Running, memory
<1>2. /\ epoch \in Nat /\ objects \in Nat /\ objects < IdxRange /\ cell \in Nat
      /\ Top \in Frame /\ \A r \in Reg : Made(Top.regs[r], epoch, objects)
      /\ broken' \in BOOLEAN
      /\ fuel' \in 0..(FuelLimit + 1) /\ AllMade(frames, epoch, objects)
      /\ Made(result.val, epoch, objects) /\ result \in [ok : BOOLEAN, val : Ref]
  BY <1>1, RefFacts, LimitAssumption DEF FrameMade, Burn
<1>3. CASE cell <= objects
  <2> DEFINE v == Encode(epoch, cell, cell)
             f == Define(Top, d, v)
             R == [Top.regs EXCEPT ![d] = v]
             F == Top.fresh \cup {d}
  <2>1. frames' = WithTop(f) /\ outcome' = outcome
    BY <1>3 DEF LoadRef
  <2>2. Made(v, epoch, objects) /\ v \in Ref
    <3>1. cell \in 0..objects
      BY <1>2, <1>3
    <3> QED  BY <1>2, <3>1, EncodeMade DEF Made
  <2> HIDE DEF v
  <2>3. R \in [Reg -> Ref] /\ F \in SUBSET Reg /\ \A r \in Reg : Made(R[r], epoch, objects)
    BY <1>2, <2>2 DEF Frame
  <2>4. f \in [nogc : {Top.nogc}, claimed : {Top.claimed}, mark : {Top.mark},
               size : {Top.size}, fresh : {F}, regs : {R}, pending : {Top.pending}]
    BY <1>2 DEF Define, Frame
  <2> HIDE DEF f, R, F
  <2> QED
    BY <1>1, <1>2, <2>1, <2>3, <2>4, RunOnMade
<1>4. CASE ~(cell <= objects)
  <2>1. UNCHANGED frames /\ outcome' \in Outcomes
    BY <1>4 DEF LoadRef, Fail, Outcomes
  <2> QED
    BY <1>1, <1>2, <2>1, SameObjects
<1> QED
  BY <1>3, <1>4

LEMMA TakeEdgeMade ==
    ASSUME RefInv, FrameInv, FrameInv', Fits, NEW from \in Copies, TakeEdge(from)
    PROVE  RefInv'
<1>1. /\ Burn /\ frames # <<>>
      /\ UNCHANGED <<outcome, epoch, broken, result, cell, objects, floor, kept>>
  BY DEF TakeEdge, Burn, FrameInv, Running, memory
<1>2. /\ epoch \in Nat /\ objects \in Nat /\ broken' \in BOOLEAN
      /\ Top \in Frame /\ \A r \in Reg : Made(Top.regs[r], epoch, objects)
      /\ from \in [Reg -> Reg]
  BY <1>1, RefFacts DEF FrameMade, Copies
<1> DEFINE R == [r \in Reg |-> Top.regs[from[r]]]
           F == {r \in Reg : from[r] \in Top.fresh}
           f == [Top EXCEPT !.regs = R, !.fresh = F]
<1>3. R \in [Reg -> Ref] /\ F \in SUBSET Reg /\ \A r \in Reg : Made(R[r], epoch, objects)
  BY <1>2 DEF Frame
<1>4. frames' = WithTop(f)
  BY DEF TakeEdge
<1>5. f \in [nogc : {Top.nogc}, claimed : {Top.claimed}, mark : {Top.mark},
                         size : {Top.size}, fresh : {F},
             regs : {R}, pending : {Top.pending}]
  <2> HIDE DEF R, F
  <2> QED  BY <1>2 DEF Frame
<1> HIDE DEF f, R, F
<1> QED
  BY <1>1, <1>2, <1>3, <1>4, <1>5, RunOnMade

\* Re-minting a list from numbers of objects.
LEMMA RelocatedMade ==
    ASSUME NEW e \in Nat, epoch \in Nat, epoch <= e, NEW n \in Nat, n < IdxRange,
           NEW f, f \in Frame, \A r \in Reg : Made(f.regs[r], epoch, n),
           NEW gc \in SUBSET Reg, NEW idx, \A r \in gc : idx[r] \in 0..n
    PROVE  /\ Relocated(f, gc, idx, e) \in [Reg -> Ref]
           /\ \A r \in Reg : Made(Relocated(f, gc, idx, e)[r], e, n)
           /\ \A r \in gc : LET v == Relocated(f, gc, idx, e)[r] IN
                IsNull(v) \/ (v.hi = e % EpochRange /\ v.lo \in 1..n)
<1>1. ASSUME NEW r \in gc
      PROVE  /\ Made(Encode(e, idx[r], f.regs[r].obj), e, n)
             /\ LET v == Encode(e, idx[r], f.regs[r].obj) IN
                  IsNull(v) \/ (v.hi = e % EpochRange /\ v.lo \in 1..n)
  <2>1. f.regs[r].obj \in 0..n
    BY DEF Made, Ref
  <2> QED  BY <2>1, EncodeMade
<1>2. \A r \in Reg : Made(f.regs[r], e, n)
  BY LaterMade
<1>3. \A r \in Reg : Relocated(f, gc, idx, e)[r]
                      = IF r \in gc THEN Encode(e, idx[r], f.regs[r].obj) ELSE f.regs[r]
  BY DEF Relocated
<1>4. \A r \in Reg : Made(Relocated(f, gc, idx, e)[r], e, n)
  BY <1>1, <1>2, <1>3
<1>5. Relocated(f, gc, idx, e) \in [Reg -> Ref]
  BY <1>1, <1>2 DEF Relocated, Made
<1> QED
  BY <1>1, <1>3, <1>4, <1>5

LEMMA SafepointMade ==
    ASSUME RefInv, FrameInv, FrameInv', Fits, NEW gc \in SUBSET Reg, Safepoint(gc)
    PROVE  /\ RefInv'
           /\ epoch' # epoch => (\A r \in Top.fresh : Accepts(Top.regs[r]))'
<1>1. Burn /\ frames # <<>> /\ UNCHANGED <<result, cell, objects, floor, kept>>
      /\ Len(frames) \in Nat \ {0}
  <2>1. Burn /\ mode = "run" /\ UNCHANGED <<result, cell, objects, floor, kept>>
    BY DEF Safepoint, Burn, memory
  <2> QED  BY <2>1, RunningTop
<1>2. /\ epoch \in Nat /\ objects \in Nat /\ objects < IdxRange
      /\ Top \in Frame /\ \A r \in Reg : Made(Top.regs[r], epoch, objects)
      /\ \A r \in Reg : Accepts(Top.regs[r]) => Top.regs[r].lo \in 0..objects
      /\ AllMade(frames, epoch, objects) /\ Made(result.val, epoch, objects)
      /\ result \in [ok : BOOLEAN, val : Ref] /\ cell \in Nat
      /\ fuel \in 0..(FuelLimit + 1) /\ broken \in BOOLEAN
  BY <1>1, RefFacts DEF FrameMade
<1>3. CASE \A r \in gc : Accepts(Top.regs[r])
  <2>1. epoch' = epoch + 1 /\ broken' \in BOOLEAN /\ UNCHANGED <<mode, outcome>>
    BY <1>3 DEF Safepoint, Collects
  <2> DEFINE idx == Captured(gc)
             R == Relocated(Top, gc, idx, epoch')
             f == [Top EXCEPT !.regs = R, !.fresh = gc]
  <2>2. \A r \in gc : idx[r] \in 0..objects
    BY <1>2, <1>3 DEF Captured
  <2>3. frames' = WithTop(f)
    BY <1>3, <2>1 DEF Safepoint, Collects
  <2> HIDE DEF idx
  <2>4. /\ R \in [Reg -> Ref] /\ \A r \in Reg : Made(R[r], epoch', objects)
        /\ \A r \in gc : IsNull(R[r])
                                 \/ (R[r].hi = epoch' % EpochRange /\ R[r].lo \in 1..objects)
    <3>1. epoch' \in Nat /\ epoch <= epoch'
      BY <1>2, <2>1
    <3> QED  BY <1>2, <2>2, <3>1, RelocatedMade
  <2>5. f \in [nogc : {Top.nogc}, claimed : {Top.claimed}, mark : {Top.mark},
                         size : {Top.size}, fresh : {gc},
               regs : {R}, pending : {Top.pending}]
    <3> HIDE DEF R
    <3> QED  BY <1>2 DEF Frame
  <2> HIDE DEF f, R
  <2>6. RefInv'
    BY <1>1, <2>1, <2>3, <2>4, <2>5, RunOnMade
  <2>7. Top' = f /\ objects' = objects
    <3>1. frames \in Seq(Frame)
      BY <1>2 DEF AllMade
    <3>2. Len(frames') = Len(frames) /\ frames'[Len(frames)] = f
      BY <1>1, <2>3, <3>1 DEF WithTop
    <3> QED  BY <1>1, <3>2 DEF Top
  <2>8. f.fresh = gc /\ f.regs = R
    BY <2>5
  <2> QED
    BY <2>4, <2>6, <2>7, <2>8 DEF Accepts
<1>4. CASE ~(\A r \in gc : Accepts(Top.regs[r]))
  <2>1. /\ UNCHANGED <<frames, epoch, broken>> /\ outcome' = "StaleRef"
        /\ fuel' \in 0..(FuelLimit + 1)
    BY <1>2, <1>4, LimitAssumption DEF Safepoint, Fail, Burn
  <2>2. epoch' = epoch /\ outcome' \in Outcomes
    BY <2>1 DEF Outcomes
  <2> QED  BY <1>1, <1>2, <2>1, <2>2, SameObjects
<1> QED
  BY <1>3, <1>4

\* Instructions that write no frame, traps, ret, resume, and what deliver() does
\* when no frame takes the result.
LEMMA NoFrameMade ==
    ASSUME RefInv, FrameInv, FrameInv', Fits,
           \/ OutOfFuel \/ Trap \/ Resume \/ Unwind \/ Finish
           \/ \E r \in Reg : StoreRef(r) \/ Return(r)
           \/ \E w \in Words : StoreWord(w)
           \/ \E gc \in SUBSET Reg : CallRefused(gc)
    PROVE  RefInv'
<1>1. /\ epoch \in Nat /\ objects \in Nat /\ AllMade(frames, epoch, objects)
      /\ Made(kept, epoch, objects) /\ Made(result.val, epoch, objects)
      /\ result \in [ok : BOOLEAN, val : Ref] /\ outcome \in Outcomes
      /\ cell \in Nat /\ fuel \in 0..(FuelLimit + 1) /\ broken \in BOOLEAN
      /\ frames # <<>> =>
           /\ AllMade(Below, epoch, objects)
           /\ \A r \in Reg : /\ Made(Top.regs[r], epoch, objects)
                             /\ Accepts(Top.regs[r]) => Top.regs[r].lo \in 0..objects
  BY RefFacts
<1>2. mode = "run" => frames # <<>>
  BY DEF FrameInv, Running
<1>3. UNCHANGED <<epoch, broken, objects, floor>>
  BY DEF OutOfFuel, Trap, Resume, Unwind, Finish, StoreRef, StoreWord, Return, Leave, CallRefused,
         memory
<1>4. fuel' \in 0..(FuelLimit + 1)
  BY <1>1, LimitAssumption
     DEF OutOfFuel, Trap, Resume, Unwind, Finish, StoreRef, StoreWord, Return,
         Leave, CallRefused, Burn
<1>5. outcome' \in Outcomes
  BY <1>1 DEF OutOfFuel, Trap, Resume, Unwind, Finish, StoreRef, StoreWord, Return,
              Leave, CallRefused, Fail,
              Outcomes
<1>6. cell' \in Nat
  BY <1>1, <1>2, ProgramAssumption
     DEF OutOfFuel, Trap, Resume, Unwind, Finish, StoreRef, StoreWord, Return,
         Leave, CallRefused,
         memory, Burn, Fail
<1>7. AllMade(frames', epoch, objects)
  <2>1. AllMade(<<>>, epoch, objects)
    BY DEF AllMade
  <2> QED
    BY <1>1, <1>2, <2>1
       DEF OutOfFuel, Trap, Resume, Unwind, Finish, StoreRef, StoreWord, Return,
           Leave, CallRefused, Burn
<1>8. result' \in [ok : BOOLEAN, val : Ref] /\ Made(result'.val, epoch, objects)
  <2>1. Made(Null, epoch, objects) /\ Null \in Ref
    BY <1>1, NullMade DEF Made
  <2>2. CASE Resume \/ Finish
    <3>1. result' \in {Thrown, NoResult}
      BY <2>2 DEF Resume, Leave, Finish
    <3>2. Thrown \in [ok : BOOLEAN, val : Ref] /\ Thrown.val = Null
      BY <2>1 DEF Thrown
    <3>3. NoResult \in [ok : BOOLEAN, val : Ref] /\ NoResult.val = Null
      BY <2>1 DEF NoResult
    <3> QED  BY <2>1, <3>1, <3>2, <3>3
  <2>3. CASE \E r \in Reg : Return(r)
    <3>1. PICK r \in Reg : mode = "run" /\ result' = [ok |-> TRUE, val |-> Top.regs[r]]
      BY <2>3 DEF Return, Leave
    <3>2. Made(Top.regs[r], epoch, objects) /\ Top.regs[r] \in Ref
      BY <1>1, <1>2, <3>1 DEF Made
    <3>3. result'.val = Top.regs[r] /\ result' \in [ok : BOOLEAN, val : Ref]
      BY <3>1, <3>2
    <3> QED  BY <3>2, <3>3
  <2>4. CASE UNCHANGED result
    BY <1>1, <2>4
  <2> QED  BY <2>2, <2>3, <2>4 DEF OutOfFuel, Trap, Unwind, StoreRef, StoreWord, CallRefused
<1>9. kept' = kept \/ Made(kept', epoch, objects)
  BY <1>1 DEF OutOfFuel, Trap, Resume, Unwind, Finish, StoreRef, StoreWord, Return,
              Leave, CallRefused
<1> QED
  BY <1>1, <1>3, <1>4, <1>5, <1>6, <1>7, <1>8, <1>9, SameObjects

\* The caller that waits has captured numbers of objects.
LEMMA WaiterMade ==
    ASSUME RefInv, Fits, frames # <<>>,
           NEW kind \in {"call", "invoke"}, NEW arg, NEW d \in Reg, NEW safepoint \in BOOLEAN,
           NEW gc \in SUBSET Reg, MayCall(arg, gc, safepoint)
    PROVE  AllMade(WithTop(Waiter(kind, d, safepoint, gc)), epoch, objects)
<1> DEFINE w == Wait(kind, d, safepoint, gc)
           F == IF safepoint THEN {} ELSE Top.fresh
           f == Waiter(kind, d, safepoint, gc)
<1>1. /\ epoch \in Nat /\ objects \in Nat /\ AllMade(frames, epoch, objects)
      /\ Top \in Frame /\ \A r \in Reg : Made(Top.regs[r], epoch, objects)
      /\ \A r \in Reg : Accepts(Top.regs[r]) => Top.regs[r].lo \in 0..objects
  BY RefFacts DEF FrameMade
<1>2. Captured(gc) \in [Reg -> Nat] /\ \A r \in gc : Captured(gc)[r] <= objects
  BY SMTT(30), <1>1 DEF Captured, MayCall, Frame, Ref
<1>3. w \in Waiting /\ w.gc = gc /\ w.idx = Captured(gc) /\ w.safepoint = safepoint
  BY <1>2 DEF Wait, Waiting
<1>4. f = [Top EXCEPT !.pending = w, !.fresh = F]
  BY <1>1 DEF Waiter, Frame
<1> HIDE DEF w
<1>5. F \in SUBSET Reg /\ (safepoint => F = {})
  BY <1>1 DEF Frame
<1> HIDE DEF f, F
<1>6. /\ f \in Frame /\ f.regs = Top.regs /\ f.pending = w /\ f.fresh = F
  BY <1>1, <1>3, <1>4, <1>5 DEF Frame
<1>7. FrameMade(f, epoch, objects)
  BY <1>1, <1>2, <1>3, <1>5, <1>6 DEF FrameMade
<1> QED
  BY <1>1, <1>7, MadeStacks DEF f

\* push_frame.
LEMMA PushMade ==
    ASSUME RefInv, FrameInv', Fits, NEW fs, AllMade(fs, epoch, objects), NEW mark \in Nat,
           NEW nogc \in BOOLEAN, NEW claimed \in BOOLEAN, NEW size \in FrameSize,
           NEW arg, Made(arg, epoch, objects),
           Push(fs, mark, nogc, claimed, size, arg),
           UNCHANGED <<result, epoch, broken, memory, kept>>, fuel' \in 0..(FuelLimit + 1)
    PROVE  RefInv'
<1>1. /\ epoch \in Nat /\ objects \in Nat /\ Made(result.val, epoch, objects)
      /\ result \in [ok : BOOLEAN, val : Ref] /\ cell \in Nat /\ broken' \in BOOLEAN
  BY RefFacts
<1>2. outcome' \in Outcomes
  BY DEF Push, Fail, Outcomes
<1>3. AllMade(frames', epoch, objects)
  <2>1. CASE frames' = fs
    BY <2>1
  <2>2. CASE \E p \in Reg :
              frames' = Append(fs, [nogc |-> nogc, claimed |-> claimed,
                  mark |-> mark, size |-> size, fresh |-> {p},
                  regs |-> [r \in Reg |-> IF r = p THEN arg ELSE Null], pending |-> NoWait])
    <3>1. PICK p \in Reg :
              frames' = Append(fs, [nogc |-> nogc, claimed |-> claimed,
                  mark |-> mark, size |-> size, fresh |-> {p},
                  regs |-> [r \in Reg |-> IF r = p THEN arg ELSE Null], pending |-> NoWait])
      BY <2>2
    <3> DEFINE R == [r \in Reg |-> IF r = p THEN arg ELSE Null]
               g == [nogc |-> nogc, claimed |-> claimed, mark |-> mark, size |-> size,
                     fresh |-> {p}, regs |-> R, pending |-> NoWait]
    <3>2. NoWait \in Waiting /\ NoWait.kind = "none" /\ NoWait.gc = {}
      BY DEF NoWait, Waiting
    <3>3. R \in [Reg -> Ref] /\ \A r \in Reg : Made(R[r], epoch, objects)
      BY <1>1, NullMade DEF Made
    <3>4. frames' = Append(fs, g)
      BY <3>1
    <3> HIDE DEF R
    <3>5. FrameMade(g, epoch, objects)
      BY <3>2, <3>3 DEF FrameMade, Frame, Waits
    <3> HIDE DEF g
    <3> QED  BY <1>1, <3>4, <3>5, MadeStacks
  <2> QED  BY <2>1, <2>2 DEF Push
<1> QED
  BY <1>1, <1>2, <1>3, SameObjects DEF memory

LEMMA CallMade ==
    ASSUME RefInv, FrameInv, FrameInv', Fits,
           NEW kind \in {"call", "invoke"}, NEW arg \in Reg, NEW d \in Reg, NEW gc \in SUBSET Reg,
           NEW nogc \in BOOLEAN, NEW safepoint \in BOOLEAN,
           \/ CallHost(kind, safepoint, arg, gc, d)
           \/ \E size \in FrameSize : Call(kind, nogc, safepoint, size, arg, gc, d)
           \/ TailCallHost(safepoint, arg)
           \/ \E size \in FrameSize : TailCall(nogc, safepoint, size, arg)
    PROVE  RefInv'
<1>1. mode = "run" /\ fuel' = fuel + 1 /\ fuel < FuelLimit
  BY DEF CallHost, Call, TailCallHost, TailCall, Burn
<1>2. frames # <<>> /\ Top.mark \in Nat /\ sp \in Nat
  BY <1>1, RunningTop DEF Left
<1>3. /\ AllMade(Below, epoch, objects) /\ Made(Top.regs[arg], epoch, objects)
      /\ fuel' \in 0..(FuelLimit + 1)
      /\ Claims(nogc, safepoint) \in BOOLEAN
      /\ (Top.claimed \/ Claims(nogc, safepoint)) \in BOOLEAN
  BY <1>1, <1>2, RefFacts, LimitAssumption DEF Claims, FrameMade, Frame
<1>4. CASE CallHost(kind, safepoint, arg, gc, d)
  <2>1. AllMade(frames', epoch, objects)
    BY <1>2, <1>4, WaiterMade DEF CallHost
  <2> QED  BY <1>2, <1>3, <1>4, <2>1, HostMade DEF CallHost
<1>5. CASE \E size \in FrameSize : Call(kind, nogc, safepoint, size, arg, gc, d)
  <2>1. PICK size \in FrameSize : Call(kind, nogc, safepoint, size, arg, gc, d)
    BY <1>5
  <2>2. AllMade(WithTop(Waiter(kind, d, safepoint, gc)), epoch, objects)
    BY <1>2, <2>1, WaiterMade DEF Call
  <2> QED  BY <1>2, <1>3, <2>1, <2>2, PushMade DEF Call
<1>6. CASE TailCallHost(safepoint, arg)
  BY <1>2, <1>3, <1>6, HostMade DEF TailCallHost
<1>7. CASE \E size \in FrameSize : TailCall(nogc, safepoint, size, arg)
  <2>1. PICK size \in FrameSize : TailCall(nogc, safepoint, size, arg)
    BY <1>7
  <2> QED  BY <1>2, <1>3, <2>1, PushMade DEF TailCall
<1> QED
  BY <1>4, <1>5, <1>6, <1>7

\* deliver(): the frame that takes the result, and what it may read if an epoch
\* begins.
LEMMA DeliverMade ==
    ASSUME RefInv, FrameInv, FrameInv', Fits, Deliver
    PROVE  /\ RefInv'
           /\ epoch' # epoch => (\A r \in Top.fresh : Accepts(Top.regs[r]))'
<1> DEFINE w == Top.pending
<1>1. /\ frames # <<>> /\ Len(frames) \in Nat \ {0} /\ AllWait(frames)
      /\ UNCHANGED <<fuel, objects, cell, floor, kept>> /\ result' = NoResult
  BY PopStack DEF Deliver, FrameInv, memory
<1>2. /\ epoch \in Nat /\ objects \in Nat /\ objects < IdxRange
      /\ AllMade(frames, epoch, objects) /\ FrameMade(Top, epoch, objects) /\ Top \in Frame
      /\ Made(result.val, epoch, objects) /\ result \in [ok : BOOLEAN, val : Ref]
      /\ outcome \in Outcomes /\ cell \in Nat /\ fuel \in 0..(FuelLimit + 1)
      /\ broken \in BOOLEAN
      /\ \A r \in Reg : Made(Top.regs[r], epoch, objects)
  BY <1>1, RefFacts DEF FrameMade
<1>3. /\ w \in Waiting /\ Waits(Top) /\ (w.safepoint => Top.fresh = {})
      /\ \A r \in w.gc : w.idx[r] \in 0..objects
  <2>1. w \in Waiting
    BY <1>2 DEF Frame
  <2>2. Waits(Top)
    BY <1>1 DEF AllWait, Top
  <2> QED  BY <1>2, <2>1, <2>2 DEF FrameMade, Waiting
<1>4. Made(NoResult.val, epoch, objects) /\ Made(NoResult.val, epoch + 1, objects)
      /\ NoResult \in [ok : BOOLEAN, val : Ref]
  BY <1>2, NullMade DEF NoResult, Made
<1>5. NoWait \in Waiting /\ NoWait.kind = "none" /\ NoWait.gc = {}
  BY DEF NoWait, Waiting
<1>6. CASE w.safepoint /\ result.ok /\ ~Accepts(result.val)
  <2> DEFINE f == [Top EXCEPT !.pending = NoWait]
  <2>1. /\ frames' = WithTop(f) /\ UNCHANGED <<epoch, broken>>
        /\ outcome' = "StaleRef"
    BY <1>6 DEF Deliver, Fail
  <2>2. f \in Frame /\ f.regs = Top.regs /\ f.pending = NoWait
    BY <1>2, <1>5 DEF Frame
  <2> HIDE DEF f
  <2>3. FrameMade(f, epoch, objects)
    BY <1>2, <1>5, <2>2 DEF FrameMade, Waits
  <2>4. AllMade(frames', epoch, objects) /\ outcome' \in Outcomes
    BY <1>1, <1>2, <2>1, <2>3, MadeStacks DEF Outcomes
  <2> QED  BY <1>1, <1>2, <1>4, <2>1, <2>4, SameObjects
<1>7. CASE ~(w.safepoint /\ result.ok /\ ~Accepts(result.val))
  <2> DEFINE e == IF w.safepoint THEN epoch + 1 ELSE epoch
             dst == IF result.ok THEN w.dst ELSE {}
             val == IF w.safepoint THEN Minted ELSE result.val
             moved == Relocated(Top, w.gc, w.idx, e)
             R == [r \in Reg |-> IF r \in dst THEN val ELSE moved[r]]
             F == Top.fresh \cup w.gc \cup dst
             f == Resumed(w)
  <2>1. /\ frames' = WithTop(f) /\ epoch' = e /\ outcome' = outcome
        /\ broken' \in BOOLEAN
    BY <1>2, <1>7 DEF Deliver, Collects
  <2>2. e \in Nat /\ epoch <= e /\ e \in {epoch, epoch + 1} /\ (e # epoch => w.safepoint)
        /\ w.gc \in SUBSET Reg /\ dst \in SUBSET Reg /\ Top.fresh \in SUBSET Reg
    BY <1>2, <1>3 DEF Waiting, Frame
  <2>3. f = [Top EXCEPT !.regs = R, !.fresh = F, !.pending = NoWait]
    BY <1>2 DEF Resumed
  <2> HIDE DEF e, f
  <2>4. /\ moved \in [Reg -> Ref] /\ \A r \in Reg : Made(moved[r], e, objects)
        /\ \A r \in w.gc : IsNull(moved[r])
                            \/ (moved[r].hi = e % EpochRange /\ moved[r].lo \in 1..objects)
    BY <1>2, <1>3, <2>2, RelocatedMade
  <2>5. ASSUME result.ok
        PROVE  /\ Made(val, e, objects)
               /\ w.safepoint => IsNull(val) \/ (val.hi = e % EpochRange /\ val.lo \in 1..objects)
    <3>1. CASE w.safepoint
      <4>1. result.val.lo \in 0..objects /\ result.val.obj \in 0..objects
        BY <1>2, <1>7, <2>5, <3>1 DEF Accepts, IsNull, Made, Ref
      <4>2. e = epoch + 1
        BY <3>1 DEF e
      <4> QED  BY <1>2, <2>2, <3>1, <4>1, <4>2, EncodeMade DEF Minted
    <3>2. CASE ~w.safepoint
      BY <1>2, <2>2, <3>2, LaterMade
    <3> QED  BY <3>1, <3>2
  <2> HIDE DEF moved, val
  <2>6. R \in [Reg -> Ref] /\ F \in SUBSET Reg /\ \A r \in Reg : Made(R[r], e, objects)
    BY <2>2, <2>4, <2>5 DEF Made
  <2>7. w.safepoint => \A r \in F : IsNull(R[r])
                           \/ (R[r].hi = e % EpochRange /\ R[r].lo \in 1..objects)
    BY <1>3, <2>2, <2>4, <2>5
  <2> HIDE DEF R, F, dst, w
  <2>8. f \in Frame /\ f.regs = R /\ f.fresh = F /\ f.pending = NoWait
    BY <1>2, <1>5, <2>3, <2>6 DEF Frame
  <2>9. FrameMade(f, e, objects)
    BY <1>5, <2>6, <2>8 DEF FrameMade, Waits
  <2>10. AllMade(frames', e, objects)
    <3>1. AllMade(frames, e, objects)
      <4>1. e \in Nat /\ objects \in Nat /\ epoch \in Nat /\ epoch <= e /\ objects <= objects
            /\ AllMade(frames, epoch, objects)
        BY <1>2, <2>2
      <4> QED  BY <4>1, LaterMade
    <3> QED  BY <1>1, <1>2, <2>1, <2>2, <2>9, <3>1, MadeStacks
  <2>11. RefInv'
    BY <1>1, <1>2, <1>4, <2>1, <2>2, <2>10, SameObjects
  <2>12. Top' = f
    <3>1. frames \in Seq(Frame)
      BY <1>2 DEF AllMade
    <3> QED  BY <1>1, <2>1, <3>1 DEF Top, WithTop
  <2> QED
    BY <1>1, <2>1, <2>2, <2>7, <2>8, <2>11, <2>12 DEF Accepts
<1> QED
  BY <1>6, <1>7

LEMMA EmbedderMade ==
    ASSUME RefInv, FrameInv', Fits, Embedder
    PROVE  RefInv'
<1>1. /\ epoch \in Nat /\ objects \in Nat /\ objects < IdxRange
      /\ AllMade(frames, epoch, objects) /\ Made(result.val, epoch, objects)
      /\ result \in [ok : BOOLEAN, val : Ref] /\ cell \in Nat
      /\ fuel \in 0..(FuelLimit + 1) /\ sp \in Nat
  BY RefFacts DEF RefInv, TypeOK
<1>2. \A arg \in HandedIn : Made(arg, epoch, objects)
  BY <1>1, NullMade, RefFacts DEF HandedIn
<1>3. AllMade(<<>>, epoch, objects)
  BY DEF AllMade
<1>4. ASSUME EmbedderAlloc PROVE RefInv'
  <2>1. /\ objects' = objects + 1 /\ floor' = floor - 1 /\ floor > sp
        /\ floor \in 0..MemSize /\ objects + floor = MemSize
        /\ kept' = NewRef
        /\ UNCHANGED <<frames, mode, result, outcome, fuel, epoch, broken, cell, sp>>
    BY <1>4 DEF EmbedderAlloc, Alloc, RefInv, TypeOK
  <2>2. objects' \in Nat /\ objects' < IdxRange /\ objects' + floor' = MemSize
        /\ floor' \in 0..MemSize /\ objects <= objects' /\ objects' \in 0..objects'
    BY <1>1, <2>1, LimitAssumption, RangeAssumption DEF Fits
  <2>3. Made(NewRef, epoch, objects')
    <3>1. NewRef = Encode(epoch, objects', objects')
      BY <2>1 DEF NewRef
    <3> QED  BY <1>1, <2>2, <3>1, EncodeMade
  <2>4. Made(kept', epoch, objects') /\ Made(result'.val, epoch, objects')
        /\ AllMade(frames', epoch, objects')
    BY <1>1, <2>1, <2>2, <2>3, LaterMade
  <2>5. TypeOK'
    BY <1>1, <2>1, <2>2, <2>3, <2>4 DEF RefInv, TypeOK, AllMade, Made
  <2> QED  BY <2>1, <2>2, <2>4, <2>5 DEF RefInv
<1>5. ASSUME NEW arg \in HandedIn, RootCallHost(arg) PROVE RefInv'
  <2>1. /\ frames' = <<>> /\ HostRuns(0, arg) /\ UNCHANGED <<fuel, epoch, broken, cell>>
        /\ Made(arg, epoch, objects) /\ 0 \in Nat
    BY <1>2, <1>5 DEF RootCallHost
  <2> QED  BY <1>1, <1>3, <2>1, HostMade
<1>6. ASSUME NEW arg \in HandedIn, NEW nogc \in BOOLEAN, NEW size \in FrameSize,
             RootCall(nogc, size, arg)
      PROVE  RefInv'
  <2>1. /\ Push(<<>>, 0, nogc, FALSE, size, arg)
        /\ UNCHANGED <<result, fuel, epoch, broken, memory, kept>>
        /\ Made(arg, epoch, objects) /\ 0 \in Nat /\ FALSE \in BOOLEAN
    BY <1>2, <1>6 DEF RootCall
  <2> QED  BY <1>1, <1>3, <2>1, PushMade
<1> QED
  BY <1>4, <1>5, <1>6 DEF Embedder

LEMMA RefInit == Init => RefInv
<1> SUFFICES ASSUME Init PROVE RefInv
  OBVIOUS
<1>1. Made(Null, 0, 0) /\ Null \in Ref
  BY NullMade DEF Made
<1>2. TypeOK
  <2>1. /\ kept \in Ref /\ kept.obj <= objects /\ kept.born <= epoch
        /\ result \in [ok : BOOLEAN, val : Ref]
    BY <1>1 DEF Init, NoResult, Made
  <2>2. frames \in Seq(Frame) /\ fuel \in 0..(FuelLimit + 1) /\ floor \in 0..MemSize
    BY LimitAssumption DEF Init
  <2> QED  BY <2>1, <2>2 DEF Init, TypeOK
<1>3. AllMade(<<>>, 0, 0)
  BY DEF AllMade
<1> QED
  BY <1>1, <1>2, <1>3, LimitAssumption DEF Init, RefInv, NoResult

\* Every step keeps the invariant, and one that begins an epoch leaves the top
\* frame with current references.
LEMMA RefNext ==
    ASSUME RefInv, FrameInv, FrameInv', Fits, [Next]_vars
    PROVE  /\ RefInv'
           /\ epoch' # epoch => (\A r \in Top.fresh : Accepts(Top.regs[r]))'
<1>1. CASE Instruction
  <2>1. CASE \E gc \in SUBSET Reg : Safepoint(gc)
    BY <2>1, SafepointMade
  <2>2. CASE \/ OutOfFuel \/ Trap \/ Resume
             \/ \E r \in Reg : StoreRef(r) \/ Return(r)
             \/ \E w \in Words : StoreWord(w)
             \/ \E gc \in SUBSET Reg : CallRefused(gc)
    <3>1. epoch' = epoch
      BY <2>2 DEF OutOfFuel, Trap, Resume, StoreRef, StoreWord, Return, Leave, CallRefused
    <3> QED  BY <2>2, <3>1, NoFrameMade
  <2>3. CASE \/ \E r \in Reg : LoadRef(r)
             \/ \E from \in Copies : TakeEdge(from)
    <3>1. epoch' = epoch
      BY <2>3 DEF LoadRef, TakeEdge
    <3> QED  BY <2>3, <3>1, LoadMade, TakeEdgeMade
  <2>4. ASSUME NEW kind \in {"call", "invoke"}, NEW arg \in Reg, NEW d \in Reg,
               NEW gc \in SUBSET Reg, NEW nogc \in BOOLEAN,
               NEW safepoint \in Safepoints(nogc),
               \/ CallHost(kind, safepoint, arg, gc, d)
               \/ \E size \in FrameSize : Call(kind, nogc, safepoint, size, arg, gc, d)
        PROVE  RefInv' /\ epoch' = epoch
    <3>1. safepoint \in BOOLEAN
      BY ProgramAssumption DEF Safepoints, IsSafepoint
    <3>2. epoch' = epoch
      BY <2>4 DEF CallHost, Call
    <3> QED  BY <2>4, <3>1, <3>2, CallMade
  <2>5. ASSUME NEW arg \in Reg, NEW nogc \in BOOLEAN, NEW safepoint \in Safepoints(nogc),
               \/ TailCallHost(safepoint, arg)
               \/ \E size \in FrameSize : TailCall(nogc, safepoint, size, arg)
        PROVE  RefInv' /\ epoch' = epoch
    <3>1. safepoint \in BOOLEAN
      BY ProgramAssumption DEF Safepoints, IsSafepoint
    <3>2. epoch' = epoch
      BY <2>5 DEF TailCallHost, TailCall
    <3>3. "call" \in {"call", "invoke"} /\ {} \in SUBSET Reg
      OBVIOUS
    <3> QED  BY <2>5, <3>1, <3>2, <3>3, CallMade
  <2> QED
    BY <1>1, <2>1, <2>2, <2>3, <2>4, <2>5 DEF Instruction
<1>2. CASE Deliver
  BY <1>2, DeliverMade
<1>3. CASE Unwind \/ Finish
  <2>1. epoch' = epoch
    BY <1>3 DEF Unwind, Finish
  <2> QED  BY <1>3, <2>1, NoFrameMade
<1>4. CASE Embedder
  <2>1. epoch' = epoch
    BY <1>4 DEF Embedder, EmbedderAlloc, RootCallHost, RootCall
  <2> QED  BY <1>4, <2>1, EmbedderMade
<1>5. CASE UNCHANGED vars
  BY <1>5 DEF vars, memory, RefInv, TypeOK, AllMade, FrameMade, Made, Waits
<1> QED
  BY <1>1, <1>2, <1>3, <1>4, <1>5 DEF Next, Machine

LEMMA RefsHold == ASSUME Fits PROVE Spec => []RefInv
<1>1. Fits
  OBVIOUS
<1>2. RefInv /\ FrameInv /\ FrameInv' /\ [Next]_vars => RefInv'
  BY <1>1, RefNext
<1> QED
  BY <1>2, RefInit, FramesHold, PTL DEF Spec

\* The variables keep their types, whatever the host hands in and a call site
\* promises (exec.rs).
THEOREM AnyHostTyping == ASSUME Fits PROVE Spec => []TypeOK
<1>1. RefInv => TypeOK
  BY DEF RefInv
<1> QED
  BY <1>1, RefsHold, PTL

\* A reference from an earlier epoch is refused until the epoch field has wrapped,
\* wherever it is kept (interp/mod.rs decode_ref, encode_ref).
THEOREM OldRefsRefused == ASSUME Fits PROVE Spec => []StaleRefused
<1>1. ASSUME RefInv, NEW v, Made(v, epoch, objects), Older(v) PROVE ~Accepts(v)
  <2>1. epoch \in Nat /\ v.born \in Nat /\ EpochRange \in Nat \ {0}
    BY <1>1, RangeAssumption DEF RefInv, TypeOK, Made, Ref
  <2>2. v.hi = v.born % EpochRange /\ v.born % EpochRange # epoch % EpochRange
    BY <1>1, <2>1, ModDiffers DEF Made, Older
  <2> QED  BY <1>1, <2>2 DEF Accepts, Older
<1>2. RefInv => StaleRefused
  <2> SUFFICES ASSUME RefInv,
                      NEW v \in {kept} \cup {frames[i].regs[r] : i \in DOMAIN frames, r \in Reg},
                      Older(v)
               PROVE  ~Accepts(v)
    BY DEF StaleRefused
  <2>1. Made(v, epoch, objects)
    BY DEF RefInv, AllMade, FrameMade
  <2> QED  BY <1>1, <2>1
<1> QED
  BY <1>2, RefsHold, PTL

\* A step that begins an epoch leaves the top frame with current references only,
\* also on a host that hands in old ones (exec.rs relocate).
THEOREM EpochRefreshes == ASSUME Fits PROVE Spec => SafepointRefreshes
<1>1. Fits
  OBVIOUS
<1>2. RefInv /\ FrameInv /\ FrameInv' /\ [Next]_vars
      => [epoch' # epoch => (\A r \in Top.fresh : Accepts(Top.regs[r]))']_vars
  BY <1>1, RefNext
<1> QED
  BY <1>2, RefsHold, FramesHold, PTL DEF Spec, SafepointRefreshes
=============================================================================
