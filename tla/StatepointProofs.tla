-------------------------- MODULE StatepointProofs --------------------------
(***************************************************************************)
(* Statepoint insertion is all or nothing, for every function, position,   *)
(* budget and capacity.  Every failure goes through Fail, which restores;  *)
(* what makes this an invariant is that nothing moves after the call has   *)
(* returned, whatever step it returned from.                               *)
(***************************************************************************)
EXTENDS StatepointProps, CountingProofs

\* A call that has returned is over.
Returned == result # "none" => pc = "done"
RestoreInv == Returned /\ RestoredOnFailure

\* What a step does to the variables of the invariant: it starts before the call has
\* returned, and it goes on, succeeds, or fails with everything restored.
Settles ==
    /\ pc # "done"
    /\ backup' = backup
    /\ \/ result' = result
       \/ result' = "ok" /\ pc' = "done"
       \/ f' = backup.f /\ pos' = backup.pos /\ pc' = "done"

LEMMA SucceedSettles ==
    ASSUME pc # "done", NEW g, Succeed(g) PROVE Settles
BY DEF Succeed, Finish, Settles
LEMMA FailSettles ==
    ASSUME pc # "done", NEW error, Fail(error) PROVE Settles
BY DEF Fail, Finish, Settles
LEMMA ReachSettles ==
    ASSUME pc # "done", NEW x, NEW b, Reach(x, b) PROVE Settles
<1>1. CASE Fail("budget") BY <1>1, FailSettles
<1>2. CASE Fail("capacity") BY <1>2, FailSettles
<1>3. CASE ~Fail("budget") /\ ~Fail("capacity")
  <2>1. backup' = backup /\ result' = result
    BY <1>3 DEF Reach
  <2> QED BY <2>1 DEF Settles
<1> QED BY <1>1, <1>2, <1>3

LEMMA StepSettles == Next => Settles
<1> SUFFICES ASSUME Next PROVE Settles OBVIOUS
<1>1. CASE Insert
  <2>1. pc # "done" BY <1>1 DEF Insert
  <2>2. Fail("invalid") \/ (backup' = backup /\ result' = result) BY <1>1 DEF Insert
  <2> QED BY <2>1, <2>2, FailSettles DEF Settles
<1>2. CASE Liveness
  <2>1. pc # "done" BY <1>2 DEF Liveness
  <2>2. \/ Fail("budget") \/ Succeed(f) \/ Fail("invalid")
        \/ backup' = backup /\ result' = result
    BY <1>2 DEF Liveness
  <2> QED BY <2>1, <2>2, FailSettles, SucceedSettles DEF Settles
<1>3. CASE GrowInst
  <2>1. pc # "done" BY <1>3 DEF GrowInst
  <2>2. Fail("capacity") \/ (backup' = backup /\ result' = result) BY <1>3 DEF GrowInst
  <2> QED BY <2>1, <2>2, FailSettles DEF Settles
<1>4. CASE GrowInvoke BY <1>4 DEF GrowInvoke, Settles
<1>5. CASE Prescan BY <1>5 DEF Prescan, Settles
<1>6. CASE EnterBlock BY <1>6 DEF EnterBlock, Settles
<1>7. CASE RewriteInst
  <2>1. pc # "done" BY <1>7 DEF RewriteInst
  <2>2. (\E x, b : Reach(x, b)) \/ (backup' = backup /\ result' = result)
    BY <1>7 DEF RewriteInst
  <2> QED BY <2>1, <2>2, ReachSettles DEF Settles
<1>8. CASE RewriteTerm
  <2>1. pc # "done" BY <1>8 DEF RewriteTerm
  <2>2. (\E x, b : Reach(x, b)) \/ (backup' = backup /\ result' = result)
    BY <1>8 DEF RewriteTerm
  <2> QED BY <2>1, <2>2, ReachSettles DEF Settles
<1>9. CASE CompletePop BY <1>9 DEF CompletePop, Settles
<1>10. CASE CompleteEdge
  <2>1. pc # "done" BY <1>10 DEF CompleteEdge
  <2>2. (\E x, b : Reach(x, b)) \/ (backup' = backup /\ result' = result)
    BY <1>10 DEF CompleteEdge
  <2> QED BY <2>1, <2>2, ReachSettles DEF Settles
<1>11. CASE Eliminate BY <1>11 DEF Eliminate, Settles
<1>12. CASE Conclude
  <2>1. pc # "done" BY <1>12 DEF Conclude
  <2>2. (\E g : Succeed(g)) \/ Fail("invalid") BY <1>12 DEF Conclude
  <2> QED BY <2>1, <2>2, FailSettles, SucceedSettles
<1> QED BY <1>1, <1>2, <1>3, <1>4, <1>5, <1>6, <1>7, <1>8, <1>9, <1>10, <1>11, <1>12 DEF Next

LEMMA SettlesKeeps == RestoreInv /\ Settles => RestoreInv'
BY DEF RestoreInv, Returned, RestoredOnFailure, Settles

LEMMA RunKeeps == RestoreInv /\ [RunNext]_<<vars, run>> => RestoreInv'
<1> SUFFICES ASSUME RestoreInv, [RunNext]_<<vars, run>> PROVE RestoreInv' OBVIOUS
<1>1. CASE Next BY <1>1, StepSettles, SettlesKeeps
<1>2. CASE UNCHANGED vars
  BY <1>2 DEF vars, RestoreInv, Returned, RestoredOnFailure
<1>3. Next \/ UNCHANGED vars
  BY DEF RunNext, RunStart, RunInst, RunTerm
<1> QED BY <1>1, <1>2, <1>3

\* insert_statepoints_within: whichever step a call fails at, the function and the
\* position are what they were.
THEOREM InsertionIsAllOrNothing == RunSpec => []RestoredOnFailure
<1>1. RunInit => RestoreInv
  BY DEF RunInit, Init, RestoreInv, Returned, RestoredOnFailure
<1>2. RestoreInv => RestoredOnFailure BY DEF RestoreInv
<1> QED BY <1>1, <1>2, RunKeeps, PTL DEF RunSpec
------------------------------------------------------------------------------
(***************************************************************************)
(* Graphs, and the depth-first search.                                     *)
(***************************************************************************)
ClosedOver(succ, X) == \A b \in X : Range(succ[b]) \subseteq X
\* The blocks every closed set with the entry in it has.
ReachableIn(succ) ==
    {b \in DOMAIN succ : \A X \in SUBSET DOMAIN succ : Entry \in X /\ ClosedOver(succ, X) => b \in X}

LEMMA GraphFacts ==
  ASSUME NEW succ, IsGraph(succ)
  PROVE  /\ Entry \in DOMAIN succ /\ NONE \notin DOMAIN succ /\ IsFiniteSet(DOMAIN succ)
         /\ Cardinality(DOMAIN succ) \in Nat /\ DOMAIN succ = 1..Cardinality(DOMAIN succ)
         /\ \A b \in DOMAIN succ : /\ succ[b] \in Seq(DOMAIN succ) /\ Len(succ[b]) \in Nat
                                   /\ DOMAIN succ[b] = 1..Len(succ[b])
                                   /\ \A i \in DOMAIN succ[b] : succ[b][i] \in DOMAIN succ
                                   /\ Range(succ[b]) = {succ[b][i] : i \in DOMAIN succ[b]}
<1>1. PICK n \in Nat \ {0} : succ \in [1..n -> Seq(1..n)]
  BY DEF IsGraph
<1>2. DOMAIN succ = 1..n BY <1>1
<1>3. IsFiniteSet(1..n) /\ Cardinality(1..n) = n BY FS_Interval
<1>4. ASSUME NEW b \in DOMAIN succ
      PROVE /\ succ[b] \in Seq(DOMAIN succ) /\ Len(succ[b]) \in Nat
            /\ DOMAIN succ[b] = 1..Len(succ[b])
            /\ \A i \in DOMAIN succ[b] : succ[b][i] \in DOMAIN succ
            /\ Range(succ[b]) = {succ[b][i] : i \in DOMAIN succ[b]}
  <2>1. succ[b] \in Seq(DOMAIN succ) BY <1>1, <1>2
  <2>2. /\ Len(succ[b]) \in Nat /\ DOMAIN succ[b] = 1..Len(succ[b])
        /\ \A i \in DOMAIN succ[b] : succ[b][i] \in DOMAIN succ
    BY <2>1, LenProperties, ElementOfSeq
  <2> QED BY <2>1, <2>2 DEF Range
<1> QED BY <1>2, <1>3, <1>4 DEF Entry, NONE

\* The iteration of postorder.
Top(s) == s.stack[Len(s.stack)]
PassedTop(s) == [s.stack EXCEPT ![Len(s.stack)][2] = Top(s)[2] + 1]
SearchNext(succ, s) ==
    IF Top(s)[2] \notin DOMAIN succ[Top(s)[1]]
    THEN [s EXCEPT !.order = <<Top(s)[1]>> \o @, !.stack = SubSeq(@, 1, Len(s.stack) - 1)]
    ELSE IF succ[Top(s)[1]][Top(s)[2]] \in s.seen
    THEN [s EXCEPT !.stack = PassedTop(s)]
    ELSE [s EXCEPT !.seen = @ \cup {succ[Top(s)[1]][Top(s)[2]]},
                   !.stack = Append(PassedTop(s), <<succ[Top(s)[1]][Top(s)[2]], 1>>)]

\* What is on the stack is seen and not finished, each block once and below it one
\* that leads to it; what is finished leads to what is seen, and follows, or will
\* follow, a block that leads to it.
Stacked(s) == {s.stack[l][1] : l \in DOMAIN s.stack}
StackFits(succ, s) ==
    /\ \A l \in DOMAIN s.stack :
          /\ s.stack[l][1] \in s.seen \ Range(s.order)
          /\ s.stack[l][2] \in 1..(Len(succ[s.stack[l][1]]) + 1)
          /\ \A j \in 1..(s.stack[l][2] - 1) : succ[s.stack[l][1]][j] \in s.seen
          /\ l # 1 => s.stack[l][1] \in Range(succ[s.stack[l - 1][1]])
    /\ \A l, m \in DOMAIN s.stack : s.stack[l][1] = s.stack[m][1] => l = m
OrderFits(succ, s) ==
    /\ \A b \in Range(s.order) : Range(succ[b]) \subseteq s.seen
    /\ \A i, j \in DOMAIN s.order : s.order[i] = s.order[j] => i = j
    /\ \A i \in DOMAIN s.order : s.order[i] # Entry =>
          \/ \E j \in 1..(i - 1) : s.order[i] \in Range(succ[s.order[j]])
          \/ \E p \in Stacked(s) : s.order[i] \in Range(succ[p])
Searching(succ, s) ==
    /\ s \in Dfs(succ)
    /\ StackFits(succ, s)
    /\ OrderFits(succ, s)
    /\ Range(s.order) \subseteq s.seen /\ s.seen \subseteq Range(s.order) \cup Stacked(s)
    /\ s.seen \subseteq ReachableIn(succ) /\ Entry \in s.seen
    /\ IF s.stack = <<>> THEN s.order # <<>> /\ s.order[1] = Entry ELSE s.stack[1][1] = Entry

\* The successors the search has still to look at, and one more for each block
\* that it has still to finish.
Places(succ) == UNION {{b} \X (1..(Len(succ[b]) + 1)) : b \in DOMAIN succ}
Unsearched(succ, s) ==
    {q \in Places(succ) : /\ q[1] \notin Range(s.order)
                          /\ \A l \in DOMAIN s.stack : s.stack[l][1] = q[1] => s.stack[l][2] <= q[2]}

LEMMA PlacesFinite ==
  ASSUME NEW succ, IsGraph(succ) PROVE IsFiniteSet(Places(succ))
<1> DEFINE Of(b) == {b} \X (1..(Len(succ[b]) + 1))
           All == {Of(b) : b \in DOMAIN succ}
<1>1. ASSUME NEW b \in DOMAIN succ PROVE IsFiniteSet(Of(b))
  <2>1. Len(succ[b]) + 1 \in Int BY GraphFacts
  <2>2. IsFiniteSet({b}) BY FS_Singleton
  <2>3. IsFiniteSet(1..(Len(succ[b]) + 1)) BY <2>1, FS_Interval
  <2> QED BY <2>2, <2>3, FS_Product
<1>2. IsFiniteSet(All)
  <2> DEFINE g == [b \in DOMAIN succ |-> Of(b)]
  <2>1. g \in Surjection(DOMAIN succ, All) BY DEF Surjection
  <2> HIDE DEF g, All
  <2> QED BY <2>1, GraphFacts, FS_Surjection
<1>3. \A X \in All : IsFiniteSet(X) BY <1>1
<1>4. Places(succ) = UNION All BY DEF Places
<1> HIDE DEF All
<1> QED BY <1>2, <1>3, <1>4, FS_UNION

\* The top of the stack, and the stack without it and with its place moved on.
LEMMA TopFacts ==
  ASSUME NEW succ, IsGraph(succ), NEW s, Searching(succ, s), s.stack # <<>>
  PROVE  LET n == Len(s.stack)  b == Top(s)[1]  i == Top(s)[2]
         IN  /\ n \in Nat /\ n >= 1 /\ DOMAIN s.stack = 1..n /\ n \in DOMAIN s.stack
             /\ s.stack[n] = <<b, i>> /\ b \in DOMAIN succ /\ i \in 1..(Len(succ[b]) + 1)
             /\ b \in s.seen \ Range(s.order)
             /\ \A l \in DOMAIN s.stack : s.stack[l] \in (DOMAIN succ) \X Nat
             /\ s.stack \in Seq((DOMAIN succ) \X Nat)
             /\ PassedTop(s) \in Seq((DOMAIN succ) \X Nat) /\ Len(PassedTop(s)) = n
             /\ DOMAIN PassedTop(s) = 1..n
             /\ PassedTop(s)[n] = <<b, i + 1>>
             /\ \A l \in 1..(n - 1) : PassedTop(s)[l] = s.stack[l]
<1> DEFINE n == Len(s.stack)  b == Top(s)[1]  i == Top(s)[2]
<1>1. s.stack \in Seq((DOMAIN succ) \X Nat) BY DEF Searching, Dfs
<1>2. n \in Nat /\ n >= 1 /\ DOMAIN s.stack = 1..n /\ n \in DOMAIN s.stack
  <2>1. n \in Nat /\ DOMAIN s.stack = 1..n BY <1>1, LenProperties
  <2>2. n # 0 BY <1>1, EmptySeq, LenProperties
  <2> QED BY <2>1, <2>2
<1>3. \A l \in DOMAIN s.stack : s.stack[l] \in (DOMAIN succ) \X Nat BY <1>1, <1>2, ElementOfSeq
<1>4. s.stack[n] = <<b, i>> /\ b \in DOMAIN succ /\ i \in Nat BY <1>2, <1>3 DEF Top
<1>5. i \in 1..(Len(succ[b]) + 1) /\ b \in s.seen \ Range(s.order)
  BY <1>2 DEF Searching, StackFits, Top
<1>6. PassedTop(s) = [l \in 1..n |-> IF l = n THEN <<b, i + 1>> ELSE s.stack[l]]
  <2>1. [s.stack[n] EXCEPT ![2] = i + 1] = <<b, i + 1>> BY <1>4
  <2>2. PassedTop(s) = [s.stack EXCEPT ![n] = [@ EXCEPT ![2] = i + 1]] BY DEF PassedTop
  <2>3. PassedTop(s) = [l \in 1..n |-> IF l = n THEN [s.stack[n] EXCEPT ![2] = i + 1] ELSE s.stack[l]]
    BY <1>2, <2>2
  <2> QED BY <2>1, <2>3
<1>7. PassedTop(s) \in Seq((DOMAIN succ) \X Nat) /\ Len(PassedTop(s)) = n
  <2>1. PassedTop(s) \in [1..n -> (DOMAIN succ) \X Nat]
    <3>1. <<b, i + 1>> \in (DOMAIN succ) \X Nat BY <1>4
    <3> HIDE DEF n, b, i
    <3> QED BY <1>2, <1>3, <1>6, <3>1
  <2> QED BY <1>2, <2>1, FunctionSeq
<1>8. /\ DOMAIN PassedTop(s) = 1..n /\ PassedTop(s)[n] = <<b, i + 1>>
      /\ \A l \in 1..(n - 1) : PassedTop(s)[l] = s.stack[l]
  <2> HIDE DEF b, i, n
  <2> QED BY <1>2, <1>6
<1> HIDE DEF b, i, n
<1>9. /\ n \in Nat /\ n >= 1 /\ DOMAIN s.stack = 1..n /\ n \in DOMAIN s.stack
      /\ s.stack[n] = <<b, i>> /\ b \in DOMAIN succ /\ i \in 1..(Len(succ[b]) + 1)
      /\ b \in s.seen \ Range(s.order)
      /\ \A l \in DOMAIN s.stack : s.stack[l] \in (DOMAIN succ) \X Nat
      /\ s.stack \in Seq((DOMAIN succ) \X Nat)
      /\ PassedTop(s) \in Seq((DOMAIN succ) \X Nat) /\ Len(PassedTop(s)) = n
      /\ DOMAIN PassedTop(s) = 1..n
      /\ PassedTop(s)[n] = <<b, i + 1>>
      /\ \A l \in 1..(n - 1) : PassedTop(s)[l] = s.stack[l]
  BY <1>1, <1>2, <1>3, <1>4, <1>5, <1>7, <1>8
<1> QED BY <1>9 DEF n, b, i

\* The three ways the search goes on.
Popped(s, t) ==
    t = [s EXCEPT !.order = <<Top(s)[1]>> \o @, !.stack = SubSeq(@, 1, Len(s.stack) - 1)]

LEMMA SearchPops ==
  ASSUME NEW succ, IsGraph(succ), NEW s, Searching(succ, s), s.stack # <<>>,
         Top(s)[2] \notin DOMAIN succ[Top(s)[1]],
         NEW t, Popped(s, t)
  PROVE  /\ Searching(succ, t)
         /\ Unsearched(succ, t) \subseteq Unsearched(succ, s) \ {Top(s)}
         /\ Top(s) \in Unsearched(succ, s)
<1> DEFINE n == Len(s.stack)  b == Top(s)[1]  i == Top(s)[2]
<1>1. /\ n \in Nat /\ n >= 1 /\ DOMAIN s.stack = 1..n /\ n \in DOMAIN s.stack
      /\ s.stack[n] = <<b, i>> /\ b \in DOMAIN succ /\ i \in 1..(Len(succ[b]) + 1)
      /\ b \in s.seen \ Range(s.order)
      /\ \A l \in DOMAIN s.stack : s.stack[l] \in (DOMAIN succ) \X Nat
      /\ s.stack \in Seq((DOMAIN succ) \X Nat)
  BY TopFacts
<1>2. Top(s) = <<b, i>> BY <1>1 DEF Top
<1> HIDE DEF n
<1>3. i = Len(succ[b]) + 1 /\ DOMAIN succ[b] = 1..Len(succ[b]) /\ Len(succ[b]) \in Nat
  <2>1. DOMAIN succ[b] = 1..Len(succ[b]) /\ Len(succ[b]) \in Nat BY <1>1, GraphFacts
  <2>2. i \notin DOMAIN succ[b] OBVIOUS
  <2> HIDE DEF b, i
  <2> QED BY <1>1, <2>1, <2>2
<1> HIDE DEF b, i
<1>4. /\ s \in Dfs(succ) /\ StackFits(succ, s) /\ OrderFits(succ, s)
      /\ Range(s.order) \subseteq s.seen /\ s.seen \subseteq Range(s.order) \cup Stacked(s)
      /\ s.seen \subseteq ReachableIn(succ) /\ Entry \in s.seen /\ s.stack[1][1] = Entry
      /\ s.order \in Seq(DOMAIN succ) /\ s.seen \in SUBSET DOMAIN succ
  BY DEF Searching, Dfs
<1>5. /\ t.stack \in Seq((DOMAIN succ) \X Nat) /\ Len(t.stack) = n - 1 /\ DOMAIN t.stack = 1..(n - 1)
      /\ \A l \in 1..(n - 1) : t.stack[l] = s.stack[l]
  <2>1. t.stack = SubSeq(s.stack, 1, n - 1) BY <1>4 DEF Dfs, n, Popped
  <2>2. n - 1 \in 0..n /\ 1 \in 1..(n + 1) /\ \A l \in 1..(n - 1) : 1 + l - 1 = l
        /\ 1 <= n - 1 + 1 /\ n - 1 - 1 + 1 = n - 1
    BY <1>1
  <2>3. n = Len(s.stack) BY DEF n
  <2>4. Len(t.stack) = n - 1 /\ t.stack \in Seq((DOMAIN succ) \X Nat)
    BY <1>1, <2>1, <2>2, <2>3, SubSeqProperties
  <2>5. DOMAIN t.stack = 1..(n - 1) BY <2>4, LenProperties
  <2>6. \A l \in 1..(n - 1) : t.stack[l] = s.stack[l] BY <1>1, <2>1, <2>2, <2>3, SubSeqProperties
  <2> QED BY <2>4, <2>5, <2>6
<1>n. n \in Nat BY <1>1
<1>a. /\ \A l \in 1..(n - 1) : l \in 1..n /\ (l # 1 => l - 1 \in 1..(n - 1))
      /\ \A l \in 1..n : l # n => l \in 1..(n - 1)
  BY ONLY <1>n
<1>6. /\ t.order \in Seq(DOMAIN succ) /\ Len(s.order) \in Nat /\ DOMAIN s.order = 1..Len(s.order)
      /\ Len(t.order) = Len(s.order) + 1 /\ DOMAIN t.order = 1..(Len(s.order) + 1)
      /\ t.order[1] = b /\ \A j \in 1..Len(s.order) : t.order[j + 1] = s.order[j]
  <2>1. t.order = <<b>> \o s.order BY <1>4 DEF Dfs, b, Popped
  <2>2. <<b>> \in Seq(DOMAIN succ) /\ Len(<<b>>) = 1 /\ <<b>>[1] = b BY <1>1
  <2>3. Len(s.order) \in Nat /\ DOMAIN s.order = 1..Len(s.order) BY <1>4, LenProperties
  <2>4. t.order \in Seq(DOMAIN succ) /\ Len(t.order) = 1 + Len(s.order)
    BY <1>4, <2>1, <2>2, ConcatProperties
  <2>5. DOMAIN t.order = 1..(Len(s.order) + 1) BY <2>3, <2>4, LenProperties
  <2>6. t.order[1] = b BY <1>4, <2>1, <2>2, <2>3, ConcatProperties
  <2>7. ASSUME NEW j \in 1..Len(s.order) PROVE t.order[j + 1] = s.order[j]
    <3>1. j + 1 \in 1..(Len(<<b>>) + Len(s.order)) /\ ~(j + 1 <= Len(<<b>>)) /\ (j + 1) - Len(<<b>>) = j
      BY <2>2, <2>3
    <3> QED BY <1>4, <2>1, <2>2, <3>1, ConcatProperties
  <2> QED BY <2>3, <2>4, <2>5, <2>6, <2>7
<1>7. t.seen = s.seen BY <1>4 DEF Dfs, Popped
<1>8. Range(t.order) = Range(s.order) \cup {b}
  <2>1. ASSUME NEW j \in 1..(Len(s.order) + 1) PROVE t.order[j] \in Range(s.order) \cup {b}
    <3>1. CASE j = 1 BY <1>6, <3>1
    <3>2. CASE j # 1
      <4>1. j - 1 \in 1..Len(s.order) /\ (j - 1) + 1 = j BY <1>6, <3>2
      <4>2. t.order[j] = s.order[j - 1] BY <1>6, <4>1
      <4> QED BY <1>6, <4>1, <4>2 DEF Range
    <3> QED BY <3>1, <3>2
  <2>2. ASSUME NEW x \in Range(s.order) PROVE x \in Range(t.order)
    <3>1. PICK j \in 1..Len(s.order) : x = s.order[j] BY <1>6 DEF Range
    <3>2. j + 1 \in DOMAIN t.order /\ t.order[j + 1] = x BY <1>6, <3>1
    <3> QED BY <3>2 DEF Range
  <2>3. b \in Range(t.order)
    <3>1. 1 \in DOMAIN t.order BY <1>6
    <3> QED BY <1>6, <3>1 DEF Range
  <2>4. ASSUME NEW x \in Range(t.order) PROVE x \in Range(s.order) \cup {b}
    <3>1. PICK j \in 1..(Len(s.order) + 1) : x = t.order[j] BY <1>6 DEF Range
    <3> QED BY <2>1, <3>1
  <2> QED BY <2>2, <2>3, <2>4
<1>9. Stacked(s) = Stacked(t) \cup {b} /\ b \notin Stacked(t)
  <2>1. \A l \in 1..n : l = n \/ l \in 1..(n - 1) BY <1>1
  <2>2. \A l \in 1..(n - 1) : l \in 1..n /\ l # n BY <1>1
  <2>3. s.stack[n][1] = b BY <1>1
  <2>4. ASSUME NEW x \in Stacked(s) PROVE x \in Stacked(t) \cup {b}
    <3>1. PICK l \in 1..n : x = s.stack[l][1] BY <1>1 DEF Stacked
    <3> QED BY <1>5, <2>1, <2>3, <3>1 DEF Stacked
  <2>5. b \in Stacked(s) BY <1>1, <2>3 DEF Stacked
  <2>6. ASSUME NEW x \in Stacked(t) PROVE x \in Stacked(s) /\ x # b
    <3>1. PICK l \in 1..(n - 1) : x = t.stack[l][1] BY <1>5 DEF Stacked
    <3>2. l \in DOMAIN s.stack /\ l # n /\ x = s.stack[l][1] BY <1>1, <1>5, <2>2, <3>1
    <3> QED BY <1>1, <1>4, <2>3, <3>2 DEF Stacked, StackFits
  <2> QED BY <2>4, <2>5, <2>6
<1>10. t \in Dfs(succ)
  <2>1. t = [seen |-> t.seen, stack |-> t.stack, order |-> t.order] BY <1>4 DEF Dfs, Popped
  <2> QED BY <1>4, <1>5, <1>6, <1>7, <2>1 DEF Dfs
<1>11. StackFits(succ, t)
  <2>1. ASSUME NEW l \in DOMAIN t.stack
        PROVE /\ t.stack[l][1] \in t.seen \ Range(t.order)
              /\ t.stack[l][2] \in 1..(Len(succ[t.stack[l][1]]) + 1)
              /\ \A j \in 1..(t.stack[l][2] - 1) : succ[t.stack[l][1]][j] \in t.seen
              /\ l # 1 => t.stack[l][1] \in Range(succ[t.stack[l - 1][1]])
    <3>1. l \in 1..(n - 1) /\ l \in DOMAIN s.stack /\ (l # 1 => l - 1 \in 1..(n - 1))
      <4>1. l \in 1..(n - 1) BY <1>5
      <4> QED BY <1>1, <1>a, <4>1
    <3>2. t.stack[l] = s.stack[l] /\ (l # 1 => t.stack[l - 1] = s.stack[l - 1]) BY <1>5, <3>1
    <3>3. t.stack[l][1] \in Stacked(t) BY DEF Stacked
    <3> QED BY <1>4, <1>7, <1>8, <1>9, <3>1, <3>2, <3>3 DEF StackFits
  <2>2. ASSUME NEW l \in DOMAIN t.stack, NEW m \in DOMAIN t.stack, t.stack[l][1] = t.stack[m][1]
        PROVE  l = m
    <3>0. l \in 1..(n - 1) /\ m \in 1..(n - 1) BY <1>5
    <3>a. l \in 1..n /\ m \in 1..n BY ONLY <1>1, <3>0
    <3>b. l \in DOMAIN s.stack /\ m \in DOMAIN s.stack BY <1>1, <3>a
    <3>c. t.stack[l] = s.stack[l] /\ t.stack[m] = s.stack[m] BY <1>5, <3>0
    <3>1. l \in DOMAIN s.stack /\ m \in DOMAIN s.stack /\ t.stack[l] = s.stack[l] /\ t.stack[m] = s.stack[m]
      BY <3>b, <3>c
    <3> QED BY <1>4, <2>2, <3>1 DEF StackFits
  <2> QED BY <2>1, <2>2 DEF StackFits
<1>12. Range(succ[b]) \subseteq s.seen
  <2>1. \A j \in 1..(i - 1) : succ[b][j] \in s.seen
    <3>1. s.stack[n][1] = b /\ s.stack[n][2] = i BY <1>1
    <3> QED BY <1>1, <1>4, <3>1 DEF StackFits
  <2>2. i - 1 = Len(succ[b]) BY <1>3
  <2> QED BY <1>3, <2>1, <2>2 DEF Range
<1>13. OrderFits(succ, t)
  <2>1. \A c \in Range(t.order) : Range(succ[c]) \subseteq t.seen
    BY <1>4, <1>7, <1>8, <1>12 DEF OrderFits
  <2>2. \A j \in DOMAIN t.order : j = 1 \/ (/\ j - 1 \in DOMAIN s.order /\ t.order[j] = s.order[j - 1]
                                           /\ t.order[j] \in Range(s.order))
    <3> SUFFICES ASSUME NEW j \in DOMAIN t.order, j # 1
                 PROVE  /\ j - 1 \in DOMAIN s.order /\ t.order[j] = s.order[j - 1]
                        /\ t.order[j] \in Range(s.order)
      OBVIOUS
    <3>1. j - 1 \in 1..Len(s.order) /\ (j - 1) + 1 = j BY <1>6
    <3> QED BY <1>6, <3>1 DEF Range
  <2>3. \A j, m \in DOMAIN t.order : t.order[j] = t.order[m] => j = m
    <3> SUFFICES ASSUME NEW j \in DOMAIN t.order, NEW m \in DOMAIN t.order, t.order[j] = t.order[m]
                 PROVE  j = m
      OBVIOUS
    <3>1. b \notin Range(s.order) /\ t.order[1] = b BY <1>1, <1>6
    <3>2. CASE j = 1 \/ m = 1 BY <2>2, <2>3, <3>1, <3>2
    <3>3. CASE j # 1 /\ m # 1
      <4>1. j - 1 = m - 1 BY <1>4, <2>2, <3>3 DEF OrderFits
      <4> QED BY <1>6, <4>1
    <3> QED BY <3>2, <3>3
  <2>4. ASSUME NEW j \in DOMAIN t.order, t.order[j] # Entry
        PROVE  \/ \E m \in 1..(j - 1) : t.order[j] \in Range(succ[t.order[m]])
               \/ \E p \in Stacked(t) : t.order[j] \in Range(succ[p])
    <3>1. CASE j = 1
      <4>1. b # Entry BY <1>6, <2>4, <3>1
      <4>2. n # 1 /\ s.stack[n][1] = b
        <5>1. s.stack[n][1] = b BY <1>1
        <5> QED BY <1>4, <4>1, <5>1
      <4>3. n - 1 \in 1..(n - 1) /\ n - 1 \in DOMAIN t.stack BY <1>1, <1>5, <4>2
      <4>4. b \in Range(succ[s.stack[n - 1][1]])
        <5> QED BY <1>1, <1>4, <4>2 DEF StackFits
      <4>5. t.stack[n - 1][1] \in Stacked(t) /\ t.stack[n - 1] = s.stack[n - 1]
        BY <1>5, <4>3 DEF Stacked
      <4> QED BY <1>6, <3>1, <4>4, <4>5
    <3>2. CASE j # 1
      <4>1. j - 1 \in DOMAIN s.order /\ t.order[j] = s.order[j - 1] BY <2>2, <3>2
      <4>2. \/ \E m \in 1..((j - 1) - 1) : s.order[j - 1] \in Range(succ[s.order[m]])
            \/ \E p \in Stacked(s) : s.order[j - 1] \in Range(succ[p])
        BY <1>4, <2>4, <4>1 DEF OrderFits
      <4>3. ASSUME NEW m \in 1..((j - 1) - 1), s.order[j - 1] \in Range(succ[s.order[m]])
            PROVE  \E l \in 1..(j - 1) : t.order[j] \in Range(succ[t.order[l]])
        <5>1. Len(s.order) \in Nat /\ j - 1 \in 1..Len(s.order) BY <1>6, <4>1
        <5>2. j \in Int /\ m \in Int /\ 1 <= m /\ m <= (j - 1) - 1 BY <1>6, <2>4, <4>3
        <5>3. m + 1 \in 1..(j - 1) /\ m \in 1..Len(s.order) BY ONLY <5>1, <5>2
        <5> QED BY <1>6, <4>1, <4>3, <5>3
      <4>4. ASSUME NEW p \in Stacked(s), s.order[j - 1] \in Range(succ[p])
            PROVE  \/ \E l \in 1..(j - 1) : t.order[j] \in Range(succ[t.order[l]])
                   \/ p \in Stacked(t)
        <5>1. CASE p = b
          <6>1. 1 \in 1..(j - 1) BY <1>6, <3>2
          <6> QED BY <1>6, <4>1, <4>4, <5>1, <6>1
        <5> QED BY <1>9, <5>1
      <4> QED BY <4>1, <4>2, <4>3, <4>4
    <3> QED BY <3>1, <3>2
  <2> QED BY <2>1, <2>3, <2>4 DEF OrderFits
<1>14. IF t.stack = <<>> THEN t.order # <<>> /\ t.order[1] = Entry ELSE t.stack[1][1] = Entry
  <2>1. CASE n = 1
    <3>1. b = Entry BY <1>1, <1>4, <2>1
    <3>2. t.stack = <<>> /\ t.order # <<>>
      BY <1>5, <1>6, <2>1, EmptySeq, LenProperties
    <3> QED BY <1>6, <3>1, <3>2
  <2>2. CASE n # 1
    <3>1. 1 \in 1..(n - 1) BY <1>1, <2>2
    <3>2. t.stack # <<>>
      <4>1. Len(t.stack) # 0 BY <1>1, <1>5, <2>2
      <4> QED BY <4>1, EmptySeq
    <3> QED BY <1>4, <1>5, <3>1, <3>2
  <2> QED BY <2>1, <2>2
<1>15. Searching(succ, t)
  BY <1>4, <1>7, <1>8, <1>9, <1>10, <1>11, <1>13, <1>14, <1>1 DEF Searching
<1>16. Top(s) \in Unsearched(succ, s)
  <2>1. Top(s) \in Places(succ) BY <1>1, <1>2 DEF Places
  <2>2. \A l \in DOMAIN s.stack : s.stack[l][1] = b => s.stack[l][2] <= i
    <3>1. s.stack[n][1] = b /\ s.stack[n][2] = i BY <1>1
    <3>2. i <= i BY <1>1
    <3> QED BY <1>1, <1>4, <3>1, <3>2 DEF StackFits
  <2> QED BY <1>1, <1>2, <2>1, <2>2 DEF Unsearched
<1>17. Unsearched(succ, t) \subseteq Unsearched(succ, s) \ {Top(s)}
  <2> SUFFICES ASSUME NEW q \in Unsearched(succ, t) PROVE q \in Unsearched(succ, s) /\ q # Top(s)
    OBVIOUS
  <2>1. q \in Places(succ) /\ q[1] \notin Range(s.order) /\ q[1] # b BY <1>8 DEF Unsearched
  <2>2. q # Top(s) BY <1>2, <2>1
  <2>3. ASSUME NEW l \in DOMAIN s.stack, s.stack[l][1] = q[1] PROVE s.stack[l][2] <= q[2]
    <3>1. l # n BY <1>1, <2>1, <2>3
    <3>2. l \in DOMAIN t.stack /\ t.stack[l] = s.stack[l]
      <4>1. l \in 1..(n - 1) BY <1>1, <1>a, <3>1
      <4> QED BY <1>5, <4>1
    <3> QED BY <2>3, <3>2 DEF Unsearched
  <2> QED BY <2>1, <2>2, <2>3 DEF Unsearched
<1> QED BY <1>15, <1>16, <1>17

LEMMA SearchPasses ==
  ASSUME NEW succ, IsGraph(succ), NEW s, Searching(succ, s), s.stack # <<>>,
         Top(s)[2] \in DOMAIN succ[Top(s)[1]], succ[Top(s)[1]][Top(s)[2]] \in s.seen,
         NEW t, t = [s EXCEPT !.stack = PassedTop(s)]
  PROVE  /\ Searching(succ, t)
         /\ Unsearched(succ, t) \subseteq Unsearched(succ, s) \ {Top(s)}
         /\ Top(s) \in Unsearched(succ, s)
<1> DEFINE n == Len(s.stack)  b == Top(s)[1]  i == Top(s)[2]
<1>1. /\ n \in Nat /\ n >= 1 /\ DOMAIN s.stack = 1..n /\ n \in DOMAIN s.stack
      /\ s.stack[n] = <<b, i>> /\ b \in DOMAIN succ /\ i \in 1..(Len(succ[b]) + 1)
      /\ b \in s.seen \ Range(s.order)
      /\ \A l \in DOMAIN s.stack : s.stack[l] \in (DOMAIN succ) \X Nat
      /\ PassedTop(s) \in Seq((DOMAIN succ) \X Nat) /\ DOMAIN PassedTop(s) = 1..n
      /\ PassedTop(s)[n] = <<b, i + 1>> /\ \A l \in 1..(n - 1) : PassedTop(s)[l] = s.stack[l]
  BY TopFacts
<1>2. Top(s) = <<b, i>> BY <1>1 DEF Top
<1> HIDE DEF n
<1>3. i \in 1..Len(succ[b]) /\ Len(succ[b]) \in Nat /\ succ[b][i] \in s.seen
  <2>1. DOMAIN succ[b] = 1..Len(succ[b]) /\ Len(succ[b]) \in Nat BY <1>1, GraphFacts
  <2> QED BY <2>1
<1> HIDE DEF b, i
<1>4. /\ s \in Dfs(succ) /\ StackFits(succ, s) /\ OrderFits(succ, s)
      /\ Range(s.order) \subseteq s.seen /\ s.seen \subseteq Range(s.order) \cup Stacked(s)
      /\ s.seen \subseteq ReachableIn(succ) /\ Entry \in s.seen /\ s.stack[1][1] = Entry
  BY DEF Searching
<1>5. /\ t \in Dfs(succ) /\ t.seen = s.seen /\ t.order = s.order /\ t.stack = PassedTop(s)
  BY <1>1, <1>4 DEF Dfs
<1>6. /\ DOMAIN t.stack = 1..n /\ t.stack[n] = <<b, i + 1>>
      /\ \A l \in 1..n : l # n => t.stack[l] = s.stack[l]
      /\ \A l \in 1..n : t.stack[l][1] = s.stack[l][1]
      /\ s.stack[n][1] = b /\ s.stack[n][2] = i
  <2>1. \A l \in 1..n : l # n => l \in 1..(n - 1) BY <1>1
  <2>2. s.stack[n][1] = b /\ s.stack[n][2] = i BY <1>1
  <2>3. \A l \in 1..n : l # n => t.stack[l] = s.stack[l] BY <1>1, <1>5, <2>1
  <2>4. t.stack[n] = <<b, i + 1>> /\ DOMAIN t.stack = 1..n BY <1>1, <1>5
  <2>5. t.stack[n][1] = b BY <2>4
  <2>6. \A l \in 1..n : t.stack[l][1] = s.stack[l][1]
    <3> TAKE l \in 1..n
    <3>1. CASE l = n BY <2>2, <2>5, <3>1
    <3>2. CASE l # n BY <2>3, <3>2
    <3> QED BY <3>1, <3>2
  <2> QED BY <2>2, <2>3, <2>4, <2>6
<1>7. Stacked(t) = Stacked(s)
  <2>1. \A l \in 1..n : t.stack[l][1] = s.stack[l][1] BY <1>6
  <2>2. Stacked(s) = {s.stack[l][1] : l \in 1..n} BY <1>1 DEF Stacked
  <2>3. Stacked(t) = {t.stack[l][1] : l \in 1..n} BY <1>6 DEF Stacked
  <2> QED BY <2>1, <2>2, <2>3
<1>8. StackFits(succ, t)
  <2>1. ASSUME NEW l \in 1..n
        PROVE /\ t.stack[l][1] \in t.seen \ Range(t.order)
              /\ t.stack[l][2] \in 1..(Len(succ[t.stack[l][1]]) + 1)
              /\ \A j \in 1..(t.stack[l][2] - 1) : succ[t.stack[l][1]][j] \in t.seen
              /\ l # 1 => t.stack[l][1] \in Range(succ[t.stack[l - 1][1]])
    <3>1. l # 1 => l - 1 \in 1..n BY <1>1
    <3>2. CASE l # n BY <1>1, <1>4, <1>5, <1>6, <3>1, <3>2 DEF StackFits
    <3>3. CASE l = n
      <4>1. t.stack[n][1] = b /\ t.stack[n][2] = i + 1 BY <1>6
      <4>2. i + 1 \in 1..(Len(succ[b]) + 1) BY <1>3
      <4>3. \A j \in 1..((i + 1) - 1) : j = i \/ j \in 1..(i - 1) BY <1>3
      <4>4. \A j \in 1..(i - 1) : succ[b][j] \in s.seen BY <1>1, <1>4, <1>6 DEF StackFits
      <4>5. \A j \in 1..((i + 1) - 1) : succ[b][j] \in s.seen BY <1>3, <4>3, <4>4
      <4>6. b \in s.seen \ Range(s.order) /\ (n # 1 => b \in Range(succ[s.stack[n - 1][1]]))
        BY <1>1, <1>4, <1>6 DEF StackFits
      <4>7. n # 1 => t.stack[n - 1][1] = s.stack[n - 1][1] BY <1>6, <3>1, <3>3
      <4> QED BY <1>5, <3>3, <4>1, <4>2, <4>5, <4>6, <4>7
    <3> QED BY <3>2, <3>3
  <2>2. ASSUME NEW l \in 1..n, NEW m \in 1..n, t.stack[l][1] = t.stack[m][1] PROVE l = m
    <3>1. s.stack[l][1] = s.stack[m][1] BY <1>6, <2>2
    <3> QED BY <1>1, <1>4, <3>1 DEF StackFits
  <2> QED BY <1>6, <2>1, <2>2 DEF StackFits
<1>9. OrderFits(succ, t) BY <1>4, <1>5, <1>7 DEF OrderFits
<1>10. t.stack # <<>> /\ t.stack[1][1] = Entry
  <2>1. 1 \in 1..n BY <1>1
  <2>2. t.stack # <<>>
    <3>1. 1 \in DOMAIN t.stack BY <1>6, <2>1
    <3> QED BY <3>1
  <2>3. t.stack[1][1] = Entry BY <1>4, <1>6, <2>1
  <2> QED BY <2>2, <2>3
<1>11. Searching(succ, t) BY <1>4, <1>5, <1>7, <1>8, <1>9, <1>10 DEF Searching
<1>12. Top(s) \in Unsearched(succ, s)
  <2>1. Top(s) \in Places(succ) BY <1>1, <1>2 DEF Places
  <2>2. \A l \in DOMAIN s.stack : s.stack[l][1] = b => s.stack[l][2] <= i
    <3>1. i <= i BY <1>1
    <3> QED BY <1>1, <1>4, <1>6, <3>1 DEF StackFits
  <2> QED BY <1>1, <1>2, <2>1, <2>2 DEF Unsearched
<1>13. Unsearched(succ, t) \subseteq Unsearched(succ, s) \ {Top(s)}
  <2> SUFFICES ASSUME NEW q \in Unsearched(succ, t) PROVE q \in Unsearched(succ, s) /\ q # Top(s)
    OBVIOUS
  <2>1. q \in Places(succ) /\ q[1] \notin Range(s.order) BY <1>5 DEF Unsearched
  <2>2. q[2] \in Nat BY <2>1, GraphFacts DEF Places
  <2>3. \A l \in 1..n : t.stack[l][1] = q[1] => t.stack[l][2] <= q[2] BY <1>6 DEF Unsearched
  <2>4. q[1] = b => i + 1 <= q[2] BY <1>1, <1>6, <2>3
  <2>5. q # Top(s) BY <1>2, <1>3, <2>2, <2>4
  <2>6. ASSUME NEW l \in DOMAIN s.stack, s.stack[l][1] = q[1] PROVE s.stack[l][2] <= q[2]
    <3>1. CASE l = n BY <1>3, <1>6, <2>2, <2>4, <2>6, <3>1
    <3>2. CASE l # n BY <1>1, <1>6, <2>3, <2>6, <3>2
    <3> QED BY <3>1, <3>2
  <2> QED BY <2>1, <2>5, <2>6 DEF Unsearched
<1> QED BY <1>11, <1>12, <1>13

Pushed(succ, s, t) ==
    /\ t = [seen |-> t.seen, stack |-> t.stack, order |-> t.order]
    /\ t.seen = s.seen \cup {succ[Top(s)[1]][Top(s)[2]]} /\ t.order = s.order
    /\ t.stack = Append(PassedTop(s), <<succ[Top(s)[1]][Top(s)[2]], 1>>)

LEMMA SearchPushes ==
  ASSUME NEW succ, IsGraph(succ), NEW s, Searching(succ, s), s.stack # <<>>,
         Top(s)[2] \in DOMAIN succ[Top(s)[1]], succ[Top(s)[1]][Top(s)[2]] \notin s.seen,
         NEW t, Pushed(succ, s, t)
  PROVE  /\ Searching(succ, t)
         /\ Unsearched(succ, t) \subseteq Unsearched(succ, s) \ {Top(s)}
         /\ Top(s) \in Unsearched(succ, s)
<1> DEFINE n == Len(s.stack)  b == Top(s)[1]  i == Top(s)[2]  d == succ[b][i]
<1>1. /\ n \in Nat /\ n >= 1 /\ DOMAIN s.stack = 1..n /\ n \in DOMAIN s.stack
      /\ s.stack[n] = <<b, i>> /\ b \in DOMAIN succ /\ i \in 1..(Len(succ[b]) + 1)
      /\ b \in s.seen \ Range(s.order)
      /\ \A l \in DOMAIN s.stack : s.stack[l] \in (DOMAIN succ) \X Nat
      /\ PassedTop(s) \in Seq((DOMAIN succ) \X Nat) /\ Len(PassedTop(s)) = n
      /\ PassedTop(s)[n] = <<b, i + 1>> /\ \A l \in 1..(n - 1) : PassedTop(s)[l] = s.stack[l]
  BY TopFacts
<1>2. Top(s) = <<b, i>> BY <1>1 DEF Top
<1> HIDE DEF n
<1>3. /\ i \in 1..Len(succ[b]) /\ Len(succ[b]) \in Nat /\ d \notin s.seen /\ d \in DOMAIN succ
      /\ d \in Range(succ[b]) /\ i \in DOMAIN succ[b]
  <2>1. DOMAIN succ[b] = 1..Len(succ[b]) /\ Len(succ[b]) \in Nat /\ i \in DOMAIN succ[b]
    BY <1>1, GraphFacts
  <2>2. d \in Range(succ[b]) BY <2>1 DEF Range
  <2>3. d \in DOMAIN succ BY <1>1, <2>1, GraphFacts
  <2> QED BY <2>1, <2>2, <2>3
<1>a. /\ t.stack = Append(PassedTop(s), <<d, 1>>) /\ t.seen = s.seen \cup {d} /\ t.order = s.order
      /\ t = [seen |-> t.seen, stack |-> t.stack, order |-> t.order]
  BY DEF Pushed
<1> HIDE DEF b, i, d
<1>4. /\ s \in Dfs(succ) /\ StackFits(succ, s) /\ OrderFits(succ, s)
      /\ Range(s.order) \subseteq s.seen /\ s.seen \subseteq Range(s.order) \cup Stacked(s)
      /\ s.seen \subseteq ReachableIn(succ) /\ Entry \in s.seen /\ s.stack[1][1] = Entry
      /\ s.seen \in SUBSET DOMAIN succ
  BY DEF Searching, Dfs
<1>b. <<d, 1>> \in (DOMAIN succ) \X Nat BY <1>3
<1>c. t.stack \in Seq((DOMAIN succ) \X Nat) /\ Len(t.stack) = n + 1
  BY <1>1, <1>a, <1>b, AppendProperties
<1>5. t \in Dfs(succ)
  <2>1. t = [seen |-> t.seen, stack |-> t.stack, order |-> t.order] BY <1>a
  <2>2. t.seen \in SUBSET DOMAIN succ BY <1>3, <1>4, <1>a
  <2> QED BY <1>4, <1>a, <1>c, <2>1, <2>2 DEF Dfs
<1>6. /\ DOMAIN t.stack = 1..(n + 1) /\ t.stack[n] = <<b, i + 1>> /\ t.stack[n + 1] = <<d, 1>>
      /\ \A l \in 1..n : l # n => t.stack[l] = s.stack[l]
      /\ \A l \in 1..n : t.stack[l][1] = s.stack[l][1]
      /\ s.stack[n][1] = b /\ s.stack[n][2] = i
  <2>0. DOMAIN t.stack = 1..(n + 1) BY <1>c, LenProperties
  <2>1. \A l \in 1..n : l # n => l \in 1..(n - 1) BY <1>1
  <2>2. s.stack[n][1] = b /\ s.stack[n][2] = i BY <1>1
  <2>a. n \in 1..n BY <1>1
  <2>b. \A l \in 1..n : t.stack[l] = PassedTop(s)[l] BY <1>1, <1>a, <1>b, AppendProperties
  <2>c. t.stack[n + 1] = <<d, 1>> BY <1>1, <1>a, <1>b, AppendProperties
  <2>3. \A l \in 1..n : l # n => t.stack[l] = s.stack[l] BY <1>1, <2>1, <2>b
  <2>4. t.stack[n] = <<b, i + 1>> BY <1>1, <2>a, <2>b
  <2>5. t.stack[n][1] = b BY <2>4
  <2>6. \A l \in 1..n : t.stack[l][1] = s.stack[l][1]
    <3> TAKE l \in 1..n
    <3>1. CASE l = n BY <2>2, <2>5, <3>1
    <3>2. CASE l # n BY <2>3, <3>2
    <3> QED BY <3>1, <3>2
  <2> QED BY <2>0, <2>2, <2>3, <2>4, <2>c, <2>6
<1>d. \A l \in 1..(n + 1) : l = n + 1 \/ l \in 1..n BY <1>1
<1>e. \A l \in 1..n : l \in 1..(n + 1) /\ l # n + 1 BY <1>1
<1>f. n + 1 \in 1..(n + 1) /\ n \in 1..n /\ n + 1 # 1 /\ (n + 1) - 1 = n BY <1>1
<1>g. \A l \in 1..n : s.stack[l][1] \in s.seen /\ s.stack[l][1] # d
  <2> TAKE l \in 1..n
  <2>1. l \in DOMAIN s.stack BY <1>1
  <2>2. s.stack[l][1] \in s.seen BY <1>4, <2>1 DEF StackFits
  <2> QED BY <1>3, <2>2
<1>h. t.stack[n + 1][1] = d /\ t.stack[n + 1][2] = 1 BY <1>6
<1>7. Stacked(t) = Stacked(s) \cup {d}
  <2>1. \A l \in 1..n : t.stack[l][1] = s.stack[l][1] BY <1>6
  <2>2. Stacked(s) = {s.stack[l][1] : l \in 1..n} BY <1>1 DEF Stacked
  <2>3. Stacked(t) = {t.stack[l][1] : l \in 1..(n + 1)} BY <1>6 DEF Stacked
  <2>4. ASSUME NEW x \in Stacked(t) PROVE x \in Stacked(s) \cup {d}
    <3>1. PICK l \in 1..(n + 1) : x = t.stack[l][1] BY <2>3
    <3> QED BY <1>d, <1>h, <2>1, <2>2, <3>1
  <2>5. ASSUME NEW x \in Stacked(s) \cup {d} PROVE x \in Stacked(t)
    <3>1. CASE x = d BY <1>f, <1>h, <2>3, <3>1
    <3>2. CASE x \in Stacked(s)
      <4>1. PICK l \in 1..n : x = s.stack[l][1] BY <2>2, <3>2
      <4> QED BY <1>e, <2>1, <2>3, <4>1
    <3> QED BY <2>5, <3>1, <3>2
  <2> QED BY <2>4, <2>5
<1>8. StackFits(succ, t)
  <2>0. d \notin Range(s.order) BY <1>3, <1>4
  <2>1. ASSUME NEW l \in 1..(n + 1)
        PROVE /\ t.stack[l][1] \in t.seen \ Range(t.order)
              /\ t.stack[l][2] \in 1..(Len(succ[t.stack[l][1]]) + 1)
              /\ \A j \in 1..(t.stack[l][2] - 1) : succ[t.stack[l][1]][j] \in t.seen
              /\ l # 1 => t.stack[l][1] \in Range(succ[t.stack[l - 1][1]])
    <3>2. CASE l \in 1..n /\ l # n
      <4>1. l # 1 => l - 1 \in 1..n BY <1>1, <3>2
      <4>2. t.stack[l] = s.stack[l] BY <1>6, <3>2
      <4>3. l # 1 => t.stack[l - 1][1] = s.stack[l - 1][1] BY <1>6, <4>1
      <4> QED BY <1>1, <1>4, <1>a, <3>2, <4>2, <4>3 DEF StackFits
    <3>3. CASE l = n
      <4>1. t.stack[n][1] = b /\ t.stack[n][2] = i + 1 BY <1>6
      <4>2. i + 1 \in 1..(Len(succ[b]) + 1) BY <1>3
      <4>3. \A j \in 1..((i + 1) - 1) : j = i \/ j \in 1..(i - 1) BY <1>3
      <4>4. \A j \in 1..(i - 1) : succ[b][j] \in s.seen BY <1>1, <1>4, <1>6 DEF StackFits
      <4>5. \A j \in 1..((i + 1) - 1) : succ[b][j] \in t.seen BY <1>a, <4>3, <4>4 DEF d
      <4>6. b \in s.seen \ Range(s.order) /\ (n # 1 => b \in Range(succ[s.stack[n - 1][1]]))
        BY <1>1, <1>4, <1>6 DEF StackFits
      <4>8. n # 1 => n - 1 \in 1..n BY <1>1
      <4>7. n # 1 => t.stack[n - 1][1] = s.stack[n - 1][1] BY <1>6, <4>8
      <4> QED BY <1>a, <3>3, <4>1, <4>2, <4>5, <4>6, <4>7
    <3>4. CASE l = n + 1
      <4>1. Len(succ[d]) \in Nat BY <1>3, GraphFacts
      <4>2. 1 \in 1..(Len(succ[d]) + 1) BY <4>1
      <4>3. \A j \in 1..(1 - 1) : FALSE OBVIOUS
      <4>4. t.stack[l - 1][1] = b BY <1>6, <1>f, <3>4
      <4> QED BY <1>3, <1>a, <1>h, <2>0, <3>4, <4>2, <4>3, <4>4
    <3> QED BY <1>d, <3>2, <3>3, <3>4
  <2>2. ASSUME NEW l \in 1..(n + 1), NEW m \in 1..(n + 1), t.stack[l][1] = t.stack[m][1] PROVE l = m
    <3>1. CASE l \in 1..n /\ m \in 1..n
      <4>1. s.stack[l][1] = s.stack[m][1] BY <1>6, <2>2, <3>1
      <4> QED BY <1>1, <1>4, <3>1, <4>1 DEF StackFits
    <3>2. CASE l = n + 1 /\ m \in 1..n BY <1>6, <1>g, <1>h, <2>2, <3>2
    <3>3. CASE l \in 1..n /\ m = n + 1 BY <1>6, <1>g, <1>h, <2>2, <3>3
    <3> QED BY <1>d, <3>1, <3>2, <3>3
  <2> QED BY <1>6, <2>1, <2>2 DEF StackFits
<1>9. OrderFits(succ, t)
  <2>1. \A c \in Range(t.order) : Range(succ[c]) \subseteq t.seen BY <1>4, <1>a DEF OrderFits
  <2>2. \A j, m \in DOMAIN t.order : t.order[j] = t.order[m] => j = m BY <1>4, <1>a DEF OrderFits
  <2>3. \A j \in DOMAIN t.order : t.order[j] # Entry =>
          \/ \E m \in 1..(j - 1) : t.order[j] \in Range(succ[t.order[m]])
          \/ \E p \in Stacked(t) : t.order[j] \in Range(succ[p])
    BY <1>4, <1>7, <1>a DEF OrderFits
  <2> QED BY <2>1, <2>2, <2>3 DEF OrderFits
<1>10. t.stack # <<>> /\ t.stack[1][1] = Entry
  <2>1. 1 \in 1..n /\ 1 \in 1..(n + 1) BY <1>1
  <2>2. t.stack # <<>>
    <3>1. 1 \in DOMAIN t.stack BY <1>6, <2>1
    <3> QED BY <3>1
  <2>3. t.stack[1][1] = Entry BY <1>4, <1>6, <2>1
  <2> QED BY <2>2, <2>3
<1>i. d \in ReachableIn(succ)
  <2>1. b \in ReachableIn(succ) BY <1>1, <1>4
  <2>2. ASSUME NEW X \in SUBSET DOMAIN succ, Entry \in X, ClosedOver(succ, X) PROVE d \in X
    <3>1. b \in X BY <2>1, <2>2 DEF ReachableIn
    <3> QED BY <1>3, <2>2, <3>1 DEF ClosedOver
  <2> QED BY <1>3, <2>2 DEF ReachableIn
<1>11. Searching(succ, t)
  <2>1. Range(t.order) \subseteq t.seen /\ t.seen \subseteq Range(t.order) \cup Stacked(t)
        /\ t.seen \subseteq ReachableIn(succ) /\ Entry \in t.seen
    BY <1>4, <1>7, <1>a, <1>i
  <2> QED BY <1>5, <1>8, <1>9, <1>10, <2>1 DEF Searching
<1>12. Top(s) \in Unsearched(succ, s)
  <2>1. Top(s) \in Places(succ) BY <1>1, <1>2 DEF Places
  <2>2. \A l \in DOMAIN s.stack : s.stack[l][1] = b => s.stack[l][2] <= i
    <3>1. i <= i BY <1>1
    <3> QED BY <1>1, <1>4, <1>6, <3>1 DEF StackFits
  <2> QED BY <1>1, <1>2, <2>1, <2>2 DEF Unsearched
<1>13. Unsearched(succ, t) \subseteq Unsearched(succ, s) \ {Top(s)}
  <2> SUFFICES ASSUME NEW q \in Unsearched(succ, t) PROVE q \in Unsearched(succ, s) /\ q # Top(s)
    OBVIOUS
  <2>1. q \in Places(succ) /\ q[1] \notin Range(s.order) BY <1>a DEF Unsearched
  <2>2. q[2] \in Nat BY <2>1, GraphFacts DEF Places
  <2>3. \A l \in 1..n : t.stack[l][1] = q[1] => t.stack[l][2] <= q[2] BY <1>6, <1>e DEF Unsearched
  <2>4. q[1] = b => i + 1 <= q[2] BY <1>1, <1>6, <2>3
  <2>5. q # Top(s) BY <1>2, <1>3, <2>2, <2>4
  <2>6. ASSUME NEW l \in DOMAIN s.stack, s.stack[l][1] = q[1] PROVE s.stack[l][2] <= q[2]
    <3>1. CASE l = n BY <1>3, <1>6, <2>2, <2>4, <2>6, <3>1
    <3>2. CASE l # n BY <1>1, <1>6, <2>3, <2>6, <3>2
    <3> QED BY <3>1, <3>2
  <2> QED BY <2>1, <2>5, <2>6 DEF Unsearched
<1> QED BY <1>11, <1>12, <1>13

\* A stack, whatever it holds, goes on to a stack.
LEMMA SearchStays ==
  ASSUME NEW succ, IsGraph(succ), NEW s \in Dfs(succ), s.stack # <<>>
  PROVE  SearchNext(succ, s) \in Dfs(succ)
<1> DEFINE n == Len(s.stack)  b == Top(s)[1]  i == Top(s)[2]  d == succ[b][i]
<1>1. s.stack \in Seq((DOMAIN succ) \X Nat) /\ s.seen \in SUBSET DOMAIN succ /\ s.order \in Seq(DOMAIN succ)
  BY DEF Dfs
<1>2. n \in Nat /\ n >= 1 /\ n \in DOMAIN s.stack /\ DOMAIN s.stack = 1..n
  <2>1. n \in Nat /\ DOMAIN s.stack = 1..n BY <1>1, LenProperties
  <2>2. n # 0 BY <1>1, EmptySeq
  <2> QED BY <2>1, <2>2
<1>3. s.stack[n] \in (DOMAIN succ) \X Nat BY <1>1, <1>2, ElementOfSeq
<1>4. b \in DOMAIN succ /\ i \in Nat BY <1>3 DEF Top
<1>5. PassedTop(s) \in Seq((DOMAIN succ) \X Nat)
  <2>1. PassedTop(s) = [s.stack EXCEPT ![n] = <<b, i + 1>>]
    BY <1>3 DEF PassedTop, Top
  <2>2. <<b, i + 1>> \in (DOMAIN succ) \X Nat BY <1>4
  <2> HIDE DEF n, b, i
  <2> QED BY <1>1, <1>2, <2>1, <2>2, ExceptSeq
<1>6. CASE i \notin DOMAIN succ[b]
  <2>1. SubSeq(s.stack, 1, n - 1) \in Seq((DOMAIN succ) \X Nat)
    <3>1. n - 1 \in 0..n /\ 1 \in 1..(n + 1) /\ 1 <= (n - 1) + 1 BY <1>2
    <3> QED BY <1>1, <1>2, <3>1, SubSeqProperties
  <2>2. <<b>> \o s.order \in Seq(DOMAIN succ)
    <3>1. <<b>> \in Seq(DOMAIN succ) BY <1>4
    <3> QED BY <1>1, <3>1, ConcatProperties
  <2>3. SearchNext(succ, s) = [s EXCEPT !.order = <<b>> \o @, !.stack = SubSeq(@, 1, n - 1)]
    BY <1>6 DEF SearchNext
  <2> HIDE DEF n, b, i
  <2> QED BY <2>1, <2>2, <2>3 DEF Dfs
<1>7. CASE i \in DOMAIN succ[b]
  <2>1. d \in DOMAIN succ BY <1>4, <1>7, GraphFacts
  <2>2. CASE d \in s.seen
    <3>1. SearchNext(succ, s) = [s EXCEPT !.stack = PassedTop(s)] BY <1>7, <2>2 DEF SearchNext
    <3> QED BY <1>5, <3>1 DEF Dfs
  <2>3. CASE d \notin s.seen
    <3>1. SearchNext(succ, s) = [s EXCEPT !.seen = @ \cup {d}, !.stack = Append(PassedTop(s), <<d, 1>>)]
      BY <1>7, <2>3 DEF SearchNext
    <3>2. <<d, 1>> \in (DOMAIN succ) \X Nat BY <2>1
    <3>3. Append(PassedTop(s), <<d, 1>>) \in Seq((DOMAIN succ) \X Nat) BY <1>5, <3>2, AppendProperties
    <3> HIDE DEF n, b, i, d
    <3>4. s.seen \cup {d} \in SUBSET DOMAIN succ BY <1>1, <2>1
    <3> QED BY <3>1, <3>3, <3>4 DEF Dfs
  <2> QED BY <2>2, <2>3
<1> QED BY <1>6, <1>7

LEMMA SearchGoesOn ==
  ASSUME NEW succ, IsGraph(succ), NEW s, Searching(succ, s), s.stack # <<>>
  PROVE  /\ Searching(succ, SearchNext(succ, s))
         /\ Unsearched(succ, SearchNext(succ, s)) \subseteq Unsearched(succ, s) \ {Top(s)}
         /\ Top(s) \in Unsearched(succ, s)
<1> DEFINE b == Top(s)[1]  i == Top(s)[2]  t == SearchNext(succ, s)
<1>1. CASE i \notin DOMAIN succ[b]
  <2>1. Popped(s, t) BY <1>1 DEF SearchNext, Popped
  <2>2. Top(s)[2] \notin DOMAIN succ[Top(s)[1]] BY <1>1
  <2> HIDE DEF t, b, i
  <2>3. /\ Searching(succ, t)
        /\ Unsearched(succ, t) \subseteq Unsearched(succ, s) \ {Top(s)}
        /\ Top(s) \in Unsearched(succ, s)
    BY ONLY IsGraph(succ), Searching(succ, s), s.stack # <<>>, <2>1, <2>2, SearchPops
  <2> QED BY <2>3 DEF t
<1>2. CASE i \in DOMAIN succ[b] /\ succ[b][i] \in s.seen BY <1>2, SearchPasses DEF SearchNext
<1>3. CASE i \in DOMAIN succ[b] /\ succ[b][i] \notin s.seen
  <2>1. t = [s EXCEPT !.seen = @ \cup {succ[b][i]}, !.stack = Append(PassedTop(s), <<succ[b][i], 1>>)]
    BY <1>3 DEF SearchNext
  <2>2. s \in Dfs(succ) BY DEF Searching
  <2>3. s = [seen |-> s.seen, stack |-> s.stack, order |-> s.order] BY <2>2 DEF Dfs
  <2> DEFINE d == succ[b][i]  p == PassedTop(s)
  <2> HIDE DEF t, d, p
  <2>4. t = [s EXCEPT !.seen = @ \cup {d}, !.stack = Append(p, <<d, 1>>)] BY <2>1 DEF d, p
  <2>5. t = [seen |-> s.seen \cup {d}, stack |-> Append(p, <<d, 1>>), order |-> s.order]
    BY <2>3, <2>4
  <2>6. t = [seen |-> t.seen, stack |-> t.stack, order |-> t.order] /\ t.seen = s.seen \cup {d}
        /\ t.order = s.order /\ t.stack = Append(p, <<d, 1>>)
    BY <2>5
  <2>7. Pushed(succ, s, t) BY <2>6 DEF Pushed, d, p
  <2>8. b = Top(s)[1] /\ i = Top(s)[2] OBVIOUS
  <2> HIDE DEF b, i
  <2> QED BY <1>3, <2>7, <2>8, SearchPushes DEF t
<1> QED BY <1>1, <1>2, <1>3

\* The order postorder returns: the blocks the entry leads to, each once, the entry
\* first and every other one after a block that leads to it.
RunsOn(succ, rpo) ==
    /\ rpo \in Seq(DOMAIN succ) /\ Range(rpo) = ReachableIn(succ)
    /\ \A i, j \in DOMAIN rpo : rpo[i] = rpo[j] => i = j
    /\ 1 \in DOMAIN rpo /\ rpo[1] = Entry
    /\ \A i \in DOMAIN rpo : rpo[i] # Entry => \E j \in 1..(i - 1) : rpo[i] \in Range(succ[rpo[j]])

LEMMA SearchEnds ==
  ASSUME NEW succ, IsGraph(succ), NEW s, Searching(succ, s), s.stack = <<>>
  PROVE  RunsOn(succ, s.order)
<1>1. /\ s \in Dfs(succ) /\ StackFits(succ, s) /\ OrderFits(succ, s)
      /\ Range(s.order) \subseteq s.seen /\ s.seen \subseteq Range(s.order) \cup Stacked(s)
      /\ s.seen \subseteq ReachableIn(succ) /\ Entry \in s.seen
      /\ s.order \in Seq(DOMAIN succ) /\ s.seen \in SUBSET DOMAIN succ
      /\ s.order # <<>> /\ s.order[1] = Entry
  BY DEF Searching, Dfs
<1>2. Stacked(s) = {}
  <2>1. DOMAIN s.stack = {} OBVIOUS
  <2> QED BY <2>1 DEF Stacked
<1>3. s.seen = Range(s.order) BY <1>1, <1>2
<1>4. ClosedOver(succ, s.seen) BY <1>1, <1>3 DEF OrderFits, ClosedOver
<1>5. ReachableIn(succ) \subseteq s.seen BY <1>1, <1>4 DEF ReachableIn
<1>6. Range(s.order) = ReachableIn(succ) BY <1>1, <1>3, <1>5
<1>7. 1 \in DOMAIN s.order
  <2>1. Len(s.order) \in Nat \ {0} /\ DOMAIN s.order = 1..Len(s.order) BY <1>1, EmptySeq, LenProperties
  <2> QED BY <2>1
<1>8. \A i \in DOMAIN s.order : s.order[i] # Entry =>
         \E j \in 1..(i - 1) : s.order[i] \in Range(succ[s.order[j]])
  BY <1>1, <1>2 DEF OrderFits
<1>9. \A i, j \in DOMAIN s.order : s.order[i] = s.order[j] => i = j BY <1>1 DEF OrderFits
<1> QED BY <1>1, <1>6, <1>7, <1>8, <1>9 DEF RunsOn

LEMMA SearchBegins ==
  ASSUME NEW succ, IsGraph(succ)
  PROVE  Searching(succ, [seen |-> {Entry}, stack |-> <<<<Entry, 1>>>>, order |-> <<>>])
<1> DEFINE s == [seen |-> {Entry}, stack |-> <<<<Entry, 1>>>>, order |-> <<>>]
<1>1. Entry \in DOMAIN succ /\ Len(succ[Entry]) \in Nat BY GraphFacts
<1>2. /\ s.seen = {Entry} /\ s.stack = <<<<Entry, 1>>>> /\ s.order = <<>>
      /\ s = [seen |-> s.seen, stack |-> s.stack, order |-> s.order]
  OBVIOUS
<1> HIDE DEF s
<1>3. s.stack \in Seq((DOMAIN succ) \X Nat) /\ DOMAIN s.stack = {1} /\ s.stack[1] = <<Entry, 1>>
      /\ s.stack # <<>>
  BY <1>1, <1>2
<1>4. s.order \in Seq(DOMAIN succ) /\ DOMAIN s.order = {} BY <1>2
<1>5. s.stack[1][1] = Entry /\ s.stack[1][2] = 1 BY <1>3
<1>6. Range(s.order) = {} BY <1>4 DEF Range
<1>7. s \in Dfs(succ)
  <2>1. s.seen \in SUBSET DOMAIN succ BY <1>1, <1>2
  <2> QED BY <1>2, <1>3, <1>4, <2>1 DEF Dfs
<1>8. StackFits(succ, s)
  <2>1. 1 \in 1..(Len(succ[Entry]) + 1) BY <1>1
  <2>2. \A j \in 1..(1 - 1) : FALSE OBVIOUS
  <2>3. \A l \in DOMAIN s.stack : l = 1 BY <1>3
  <2>4. Entry \in s.seen \ Range(s.order) BY <1>2, <1>6
  <2> QED BY <1>5, <2>1, <2>2, <2>3, <2>4 DEF StackFits
<1>9. OrderFits(succ, s) BY <1>4, <1>6 DEF OrderFits
<1>10. Stacked(s) = {Entry} BY <1>3, <1>5 DEF Stacked
<1>11. s.seen \subseteq ReachableIn(succ) BY <1>1, <1>2 DEF ReachableIn
<1> QED BY <1>2, <1>3, <1>5, <1>6, <1>7, <1>8, <1>9, <1>10, <1>11 DEF Searching, s

LEMMA SearchFinds ==
  ASSUME NEW succ, IsGraph(succ)
  PROVE  RunsOn(succ, ReversePostorder(succ))
<1> DEFINE S == Dfs(succ)
           T == {s \in S : s.stack = <<>>}
           out == [s \in S |-> s.order]
           step == [s \in S |-> SearchNext(succ, s)]
           Body(w, s) == IF s.stack = <<>> THEN s.order
              ELSE LET n == Len(s.stack)
                       b == s.stack[n][1]
                       i == s.stack[n][2]
                   IN  IF i \notin DOMAIN succ[b]
                       THEN w[[s EXCEPT !.order = <<b>> \o @, !.stack = SubSeq(@, 1, n - 1)]]
                       ELSE LET next == [s.stack EXCEPT ![n][2] = i + 1]
                                d == succ[b][i]
                            IN  IF d \in s.seen
                                THEN w[[s EXCEPT !.stack = next]]
                                ELSE w[[s EXCEPT !.seen = @ \cup {d},
                                                 !.stack = Append(next, <<d, 1>>)]]
           W == CHOOSE w : w = [s \in S |-> Body(w, s)]
           s0 == [seen |-> {Entry}, stack |-> <<<<Entry, 1>>>>, order |-> <<>>]
           I == {s \in S : Searching(succ, s)}
           m == [s \in S |-> Cardinality(Unsearched(succ, s))]
<1>1. ReversePostorder(succ) = W[s0] BY DEF ReversePostorder
<1>2. ASSUME NEW w, NEW s \in S PROVE Body(w, s) = IF s \in T THEN out[s] ELSE w[step[s]]
  <2>1. CASE s.stack = <<>> BY <2>1
  <2>2. CASE s.stack # <<>>
    <3>1. s \notin T /\ step[s] = SearchNext(succ, s) BY <2>2
    <3>2. Body(w, s) = w[SearchNext(succ, s)] BY <2>2 DEF SearchNext, Top, PassedTop
    <3> QED BY <3>1, <3>2
  <2> QED BY <2>1, <2>2
<1>3. \A s \in S \ T : step[s] \in S BY SearchStays
<1> HIDE DEF Body, S, out, step
<1>4. \E w : LoopIs(w, S, T, out, step)
  <2> HIDE DEF T
  <2> QED BY ONLY <1>3, LoopExists
<1>5. \A w : [s \in S |-> Body(w, s)] = [s \in S |-> IF s \in T THEN out[s] ELSE w[step[s]]]
  <2> HIDE DEF T
  <2> QED BY ONLY <1>2
<1>6. W = [s \in S |-> Body(W, s)]
  <2>1. \E w : w = [s \in S |-> Body(w, s)] BY <1>4, <1>5 DEF LoopIs
  <2> QED BY <2>1
<1> HIDE DEF W
<1>7. LoopIs(W, S, T, out, step) BY <1>5, <1>6 DEF LoopIs
<1>8. \A s \in I : m[s] \in Nat
  <2> SUFFICES ASSUME NEW s \in I PROVE m[s] \in Nat OBVIOUS
  <2>1. IsFiniteSet(Unsearched(succ, s)) BY PlacesFinite, FS_Subset DEF Unsearched
  <2> QED BY <2>1, FS_CardinalityType
<1>9. \A s \in I \ T : step[s] \in I /\ m[step[s]] < m[s]
  <2> SUFFICES ASSUME NEW s \in I \ T PROVE step[s] \in I /\ m[step[s]] < m[s] OBVIOUS
  <2>1. s \in S /\ Searching(succ, s) /\ s.stack # <<>> OBVIOUS
  <2>2. step[s] = SearchNext(succ, s) /\ step[s] \in S BY <1>3, <2>1 DEF step
  <2>3. /\ Searching(succ, step[s]) /\ Top(s) \in Unsearched(succ, s)
        /\ Unsearched(succ, step[s]) \subseteq Unsearched(succ, s) \ {Top(s)}
    BY <2>1, <2>2, SearchGoesOn
  <2>4. Unsearched(succ, s) \subseteq Places(succ) BY DEF Unsearched
  <2>5. Cardinality(Unsearched(succ, step[s])) < Cardinality(Unsearched(succ, s))
    BY <2>3, <2>4, PlacesFinite, FewerMembers
  <2> QED BY <2>1, <2>2, <2>3, <2>5
<1>10. s0 \in I
  <2>1. Searching(succ, s0) BY SearchBegins
  <2>2. s0 \in S BY <2>1 DEF Searching, S
  <2> QED BY <2>1, <2>2
<1> HIDE DEF m, T, s0
<1>11. \E e \in I \cap T : W[s0] = out[e]
  <2>1. I \in SUBSET S OBVIOUS
  <2> HIDE DEF I
  <2> QED BY ONLY <1>7, <1>8, <1>9, <1>10, <2>1, LoopEnds
<1>12. PICK e \in I \cap T : W[s0] = out[e] BY <1>11
<1>13. Searching(succ, e) /\ e.stack = <<>> /\ out[e] = e.order BY DEF T, out, S
<1> QED BY <1>1, <1>12, <1>13, SearchEnds

------------------------------------------------------------------------------
(***************************************************************************)
(* The predecessors.                                                       *)
(***************************************************************************)
LEMMA RangeOfConcat ==
  ASSUME NEW S, NEW s \in Seq(S), NEW t \in Seq(S)
  PROVE  Range(s \o t) = Range(s) \cup Range(t)
<1>1. /\ Len(s) \in Nat /\ DOMAIN s = 1..Len(s) /\ Len(t) \in Nat /\ DOMAIN t = 1..Len(t)
  BY LenProperties
<1> DEFINE u == s \o t
<1>2. /\ u \in Seq(S) /\ Len(u) = Len(s) + Len(t)
      /\ \A i \in 1..(Len(s) + Len(t)) : u[i] = IF i <= Len(s) THEN s[i] ELSE t[i - Len(s)]
  BY ConcatProperties
<1> HIDE DEF u
<1>3. DOMAIN u = 1..(Len(s) + Len(t)) BY <1>2, LenProperties
<1>4. ASSUME NEW x \in Range(u) PROVE x \in Range(s) \cup Range(t)
  <2>1. PICK i \in 1..(Len(s) + Len(t)) : x = u[i] BY <1>3 DEF Range
  <2>2. CASE i <= Len(s)
    <3>1. i \in DOMAIN s /\ x = s[i] BY <1>1, <1>2, <2>1, <2>2
    <3> QED BY <3>1 DEF Range
  <2>3. CASE ~(i <= Len(s))
    <3>1. i - Len(s) \in DOMAIN t /\ x = t[i - Len(s)] BY <1>1, <1>2, <2>1, <2>3
    <3> QED BY <3>1 DEF Range
  <2> QED BY <2>2, <2>3
<1>5. ASSUME NEW x \in Range(s) PROVE x \in Range(u)
  <2>1. PICK i \in DOMAIN s : x = s[i] BY <1>5 DEF Range
  <2>2. i \in DOMAIN u /\ u[i] = x BY <1>1, <1>2, <1>3, <2>1
  <2> QED BY <2>2 DEF Range
<1>6. ASSUME NEW x \in Range(t) PROVE x \in Range(u)
  <2>1. PICK i \in DOMAIN t : x = t[i] BY <1>6 DEF Range
  <2>2. i \in 1..Len(t) BY <1>1
  <2>3. /\ i + Len(s) \in 1..(Len(s) + Len(t)) /\ ~(i + Len(s) <= Len(s))
        /\ (i + Len(s)) - Len(s) = i
    BY <1>1, <2>2
  <2>4. i + Len(s) \in DOMAIN u /\ u[i + Len(s)] = x BY <1>2, <1>3, <2>1, <2>3
  <2> QED BY <2>4 DEF Range
<1>7. Range(u) = Range(s) \cup Range(t) BY <1>4, <1>5, <1>6
<1> QED BY <1>7 DEF u

\* The edges from p to b.
EdgesInto(succ, b, p) == [j \in 1..Cardinality({e \in DOMAIN succ[p] : succ[p][e] = b}) |-> p]
LEMMA EdgesIntoFacts ==
  ASSUME NEW succ, IsGraph(succ), NEW b \in DOMAIN succ, NEW p \in DOMAIN succ
  PROVE  /\ EdgesInto(succ, b, p) \in Seq(DOMAIN succ)
         /\ Range(EdgesInto(succ, b, p)) = {q \in {p} : b \in Range(succ[q])}
<1> DEFINE K == {e \in DOMAIN succ[p] : succ[p][e] = b}  c == Cardinality(K)
<1>1. DOMAIN succ[p] = 1..Len(succ[p]) /\ Len(succ[p]) \in Nat BY GraphFacts
<1>2. IsFiniteSet(DOMAIN succ[p])
  <2>1. Len(succ[p]) \in Int BY <1>1
  <2> QED BY <1>1, <2>1, FS_Interval
<1>3. K \subseteq DOMAIN succ[p] OBVIOUS
<1>4. IsFiniteSet(K) /\ c \in Nat
  <2> HIDE DEF K
  <2> QED BY <1>2, <1>3, FS_Subset, FS_CardinalityType
<1>5. c = 0 <=> K = {}
  <2> HIDE DEF K
  <2> QED BY <1>4, FS_EmptySet
<1>6. K = {} <=> b \notin Range(succ[p]) BY DEF Range
<1> DEFINE u == EdgesInto(succ, b, p)
<1>7. u = [j \in 1..c |-> p] BY DEF EdgesInto
<1> HIDE DEF u, c, K
<1>8. u \in [1..c -> DOMAIN succ] BY <1>7
<1>9. u \in Seq(DOMAIN succ) BY <1>4, <1>8, FunctionSeq
<1>10. Range(u) = {q \in {p} : b \in Range(succ[q])}
  <2>1. CASE c = 0
    <3>1. DOMAIN u = {} BY <1>7, <2>1
    <3> QED BY <1>5, <1>6, <2>1, <3>1 DEF Range
  <2>2. CASE c # 0
    <3>1. 1 \in 1..c BY <1>4, <2>2
    <3>2. Range(u) = {p} BY <1>7, <3>1 DEF Range
    <3> QED BY <1>5, <1>6, <2>2, <3>2
  <2> QED BY <2>1, <2>2
<1> QED BY <1>9, <1>10 DEF u

LEMMA PredecessorsFound ==
  ASSUME NEW succ, IsGraph(succ)
  PROVE  /\ DOMAIN Reversed(succ) = DOMAIN succ
         /\ \A b \in DOMAIN succ :
               /\ Reversed(succ)[b] \in Seq(DOMAIN succ)
               /\ Range(Reversed(succ)[b]) = {p \in DOMAIN succ : b \in Range(succ[p])}
<1> DEFINE D == DOMAIN succ
           N == Cardinality(D)
           S == D \X (1..(N + 1)) \X Seq(D)
           T == {s \in S : s[2] > N}
           out == [s \in S |-> s[3]]
           step == [s \in S |-> <<s[1], s[2] + 1, s[3] \o EdgesInto(succ, s[1], s[2])>>]
           Body(w, s) == IF s[2] > N THEN s[3]
                         ELSE w[<<s[1], s[2] + 1, s[3] \o EdgesInto(succ, s[1], s[2])>>]
           W == CHOOSE w : w = [s \in S |-> Body(w, s)]
<1>0. N \in Nat /\ D = 1..N BY GraphFacts
<1>1. Reversed(succ) = [b \in D |-> W[<<b, 1, <<>>>>]] BY DEF Reversed, EdgesInto
<1>2. ASSUME NEW w, NEW s \in S PROVE Body(w, s) = IF s \in T THEN out[s] ELSE w[step[s]]
  OBVIOUS
<1>3. ASSUME NEW s \in S \ T
      PROVE  /\ step[s] \in S /\ s[1] \in D /\ s[2] \in D /\ s[3] \in Seq(D)
             /\ step[s] = <<s[1], s[2] + 1, s[3] \o EdgesInto(succ, s[1], s[2])>>
  <2>1. s[1] \in D /\ s[2] \in 1..(N + 1) /\ ~(s[2] > N) /\ s[3] \in Seq(D) BY <1>3
  <2>2. s[2] \in D /\ s[2] + 1 \in 1..(N + 1) BY <1>0, <2>1
  <2>3. EdgesInto(succ, s[1], s[2]) \in Seq(D) BY <2>1, <2>2, EdgesIntoFacts
  <2>4. s[3] \o EdgesInto(succ, s[1], s[2]) \in Seq(D) BY <2>1, <2>3, ConcatProperties
  <2>5. s \in S OBVIOUS
  <2>6. step[s] = <<s[1], s[2] + 1, s[3] \o EdgesInto(succ, s[1], s[2])>> BY <2>5
  <2> HIDE DEF step
  <2>7. step[s] \in S
    <3> DEFINE x == s[1]  y == s[2] + 1  z == s[3] \o EdgesInto(succ, s[1], s[2])
    <3>1. x \in D /\ y \in 1..(N + 1) /\ z \in Seq(D) /\ step[s] = <<x, y, z>>
      BY <2>1, <2>2, <2>4, <2>6
    <3> HIDE DEF x, y, z, D, N
    <3> QED BY <3>1
  <2> QED BY <2>1, <2>2, <2>6, <2>7
<1> HIDE DEF Body, out, step
<1>4. \E w : LoopIs(w, S, T, out, step)
  <2>1. \A s \in S \ T : step[s] \in S BY <1>3
  <2> HIDE DEF T, S
  <2> QED BY ONLY <2>1, LoopExists
<1>5. \A w : [s \in S |-> Body(w, s)] = [s \in S |-> IF s \in T THEN out[s] ELSE w[step[s]]]
  <2> HIDE DEF T, S
  <2> QED BY ONLY <1>2
<1>6. LoopIs(W, S, T, out, step)
  <2>1. \E w : w = [s \in S |-> Body(w, s)] BY <1>4, <1>5 DEF LoopIs
  <2>2. W = [s \in S |-> Body(W, s)] BY <2>1
  <2> HIDE DEF W
  <2> QED BY <1>5, <2>2 DEF LoopIs
<1> HIDE DEF W
<1>7. ASSUME NEW b \in D
      PROVE  /\ W[<<b, 1, <<>>>>] \in Seq(D)
             /\ Range(W[<<b, 1, <<>>>>]) = {p \in D : b \in Range(succ[p])}
  <2> DEFINE I == {s \in S : s[1] = b /\ Range(s[3]) = {p \in 1..(s[2] - 1) : b \in Range(succ[p])}}
             m == [s \in S |-> N + 1 - s[2]]
             s0 == <<b, 1, <<>>>>
  <2>1. \A s \in I : m[s] \in Nat BY <1>0
  <2>2. ASSUME NEW s \in I \ T PROVE step[s] \in I /\ m[step[s]] < m[s]
    <3> DEFINE p == s[2]  u == s[3] \o EdgesInto(succ, b, p)
    <3>1. step[s] \in S /\ step[s] = <<b, p + 1, u>> /\ p \in D /\ s[3] \in Seq(D) BY <1>3
    <3>2. Range(u) = Range(s[3]) \cup {q \in {p} : b \in Range(succ[q])}
      BY <3>1, EdgesIntoFacts, RangeOfConcat
    <3>3. Range(s[3]) = {q \in 1..(p - 1) : b \in Range(succ[q])} OBVIOUS
    <3>4. 1..((p + 1) - 1) = 1..(p - 1) \cup {p} BY <1>0, <3>1
    <3>5. Range(u) = {q \in 1..((p + 1) - 1) : b \in Range(succ[q])} BY <3>2, <3>3, <3>4
    <3>6. step[s][1] = b /\ step[s][2] = p + 1 /\ step[s][3] = u BY <3>1
    <3>7. step[s] \in I BY <3>1, <3>5, <3>6
    <3>8. m[step[s]] = N + 1 - (p + 1) /\ m[s] = N + 1 - p
      <4>1. s \in S OBVIOUS
      <4> QED BY <3>1, <3>6, <4>1
    <3>9. p \in Int /\ N \in Int BY <1>0, <3>1
    <3>10. N + 1 - (p + 1) < N + 1 - p
      <4> HIDE DEF p, N
      <4> QED BY <3>9
    <3> HIDE DEF m, I, p, N
    <3> QED BY <3>7, <3>8, <3>10
  <2>3. s0 \in I
    <3>0. b \in D /\ 1 \in 1..(N + 1) /\ <<>> \in Seq(D) BY <1>0
    <3>1. s0 \in S
      <4> HIDE DEF D, N
      <4> QED BY <3>0
    <3>2. Range(<<>>) = {} BY DEF Range
    <3>3. 1..(1 - 1) = {} OBVIOUS
    <3> QED BY <3>1, <3>2, <3>3
  <2>4. I \in SUBSET S OBVIOUS
  <2> HIDE DEF I, m, s0, T, S
  <2>5. \E e \in I \cap T : W[s0] = out[e]
    BY ONLY <1>6, <2>1, <2>2, <2>3, <2>4, LoopEnds
  <2>6. PICK e \in I \cap T : W[s0] = out[e] BY <2>5
  <2>7. e \in S /\ e[2] \in 1..(N + 1) /\ e[2] > N /\ e[3] \in Seq(D) /\ out[e] = e[3]
        /\ Range(e[3]) = {p \in 1..(e[2] - 1) : b \in Range(succ[p])}
    BY <2>6 DEF I, T, S, out
  <2>8. e[2] - 1 = N BY <1>0, <2>7
  <2> QED BY <1>0, <2>6, <2>7, <2>8 DEF s0
<1>8. \A b \in D : Reversed(succ)[b] = W[<<b, 1, <<>>>>] BY <1>1
<1> QED BY <1>1, <1>7, <1>8

------------------------------------------------------------------------------
(***************************************************************************)
(* The reference: what the entry leads to without the blocks in A.         *)
(***************************************************************************)
ClosedWithout(succ, A, X) == {Entry} \ A \subseteq X /\ \A b \in X : Range(succ[b]) \ A \subseteq X

LEMMA AvoidingFacts ==
  ASSUME NEW succ, IsGraph(succ), NEW A
  PROVE  /\ ReachAvoiding(succ, A) \in SUBSET DOMAIN succ
         /\ ClosedWithout(succ, A, ReachAvoiding(succ, A))
         /\ \A X \in SUBSET DOMAIN succ : ClosedWithout(succ, A, X) => ReachAvoiding(succ, A) \subseteq X
<1> DEFINE D == DOMAIN succ
           S == SUBSET D
           Next1(r) == r \cup ((UNION {Range(succ[b]) : b \in r}) \ A)
           T == {r \in S : Next1(r) = r}
           out == [r \in S |-> r]
           step == [r \in S |-> Next1(r)]
           Body(w, r) == With(r \cup ((UNION {Range(succ[b]) : b \in r}) \ A), LAMBDA next :
                           IF next = r THEN r ELSE w[next])
           W == CHOOSE w : w = [r \in S |-> Body(w, r)]
           s0 == {Entry} \ A
           I == {r \in S : s0 \subseteq r /\ \A X \in S : ClosedWithout(succ, A, X) => r \subseteq X}
           m == [r \in S |-> Cardinality(D \ r)]
<1>1. ReachAvoiding(succ, A) = W[s0] BY DEF ReachAvoiding
<1>2. ASSUME NEW w, NEW r \in S PROVE Body(w, r) = IF r \in T THEN out[r] ELSE w[step[r]]
  <2> DEFINE F(next) == IF next = r THEN r ELSE w[next]
  <2>1. Body(w, r) = CHOOSE y \in {F(v) : v \in {Next1(r)}} : TRUE BY DEF With
  <2>2. {F(v) : v \in {Next1(r)}} = {F(Next1(r))} OBVIOUS
  <2>3. \A z : (CHOOSE y \in {z} : TRUE) = z OBVIOUS
  <2>4. Body(w, r) = F(Next1(r))
    <3> HIDE DEF F, Next1, Body
    <3> QED BY <2>1, <2>2, <2>3
  <2>5. r \in T <=> Next1(r) = r OBVIOUS
  <2>6. out[r] = r /\ step[r] = Next1(r) OBVIOUS
  <2> HIDE DEF Body, T, out, step, Next1
  <2> QED BY <2>4, <2>5, <2>6
<1>3. ASSUME NEW r \in S PROVE Next1(r) \in S /\ r \subseteq Next1(r)
  <2>1. \A b \in r : Range(succ[b]) \subseteq D
    <3> SUFFICES ASSUME NEW b \in r, NEW d \in Range(succ[b]) PROVE d \in D OBVIOUS
    <3>1. b \in D OBVIOUS
    <3> QED BY <3>1, GraphFacts
  <2> QED BY <2>1
<1>4. \A r \in S \ T : step[r] = Next1(r) /\ step[r] \in S /\ r \subseteq step[r] /\ step[r] # r
  BY <1>3
<1> HIDE DEF Body, out, step, T
<1>5. \E w : LoopIs(w, S, T, out, step)
  <2>1. \A r \in S \ T : step[r] \in S BY <1>4
  <2> QED BY ONLY <2>1, LoopExists
<1>6. \A w : [r \in S |-> Body(w, r)] = [r \in S |-> IF r \in T THEN out[r] ELSE w[step[r]]]
  BY ONLY <1>2
<1>7. LoopIs(W, S, T, out, step)
  <2>1. \E w : w = [r \in S |-> Body(w, r)] BY <1>5, <1>6 DEF LoopIs
  <2>2. W = [r \in S |-> Body(W, r)] BY <2>1
  <2> HIDE DEF W
  <2> QED BY <1>6, <2>2 DEF LoopIs
<1> HIDE DEF W
<1>8. \A r \in I : m[r] \in Nat
  <2> SUFFICES ASSUME NEW r \in I PROVE m[r] \in Nat OBVIOUS
  <2>1. IsFiniteSet(D \ r)
    <3>1. D \ r \subseteq D OBVIOUS
    <3> QED BY <3>1, GraphFacts, FS_Subset
  <2> QED BY <2>1, FS_CardinalityType
<1>9. ASSUME NEW r \in I \ T PROVE step[r] \in I /\ m[step[r]] < m[r]
  <2>1. step[r] = Next1(r) /\ step[r] \in S /\ r \subseteq step[r] /\ step[r] # r /\ r \in S BY <1>4
  <2>2. PICK d \in step[r] : d \notin r BY <2>1
  <2>3. step[r] \in I
    <3>1. s0 \subseteq step[r] BY <2>1
    <3>2. ASSUME NEW X \in S, ClosedWithout(succ, A, X) PROVE step[r] \subseteq X
      <4>1. r \subseteq X BY <3>2
      <4>2. \A b \in r : Range(succ[b]) \ A \subseteq X BY <3>2, <4>1 DEF ClosedWithout
      <4> QED BY <2>1, <4>1, <4>2
    <3> QED BY <2>1, <3>1, <3>2
  <2>4. D \ step[r] \in SUBSET (D \ r) /\ D \ r \in SUBSET D /\ d \in D \ r /\ d \notin D \ step[r]
    BY <2>1, <2>2
  <2>5. Cardinality(D \ step[r]) < Cardinality(D \ r)
    BY <2>4, GraphFacts, FewerMembers
  <2> QED BY <2>1, <2>3, <2>5
<1>10. s0 \in I
  <2>1. s0 \in S BY GraphFacts
  <2> QED BY <2>1 DEF ClosedWithout
<1>11. I \in SUBSET S OBVIOUS
<1> HIDE DEF m, s0, I
<1>12. \E e \in I \cap T : W[s0] = out[e]
  <2> HIDE DEF S
  <2> QED BY ONLY <1>7, <1>8, <1>9, <1>10, <1>11, LoopEnds
<1>13. PICK e \in I \cap T : W[s0] = out[e] BY <1>12
<1>14. e \in S /\ Next1(e) = e /\ out[e] = e /\ s0 \subseteq e
       /\ \A X \in S : ClosedWithout(succ, A, X) => e \subseteq X
  BY <1>13 DEF I, T, out
<1>15. ClosedWithout(succ, A, e) BY <1>14 DEF ClosedWithout, s0
<1>16. ReachAvoiding(succ, A) = e BY <1>1, <1>13, <1>14
<1> QED BY <1>14, <1>15, <1>16

------------------------------------------------------------------------------
(***************************************************************************)
(* The numbers.  R is what the entry leads to.                             *)
(***************************************************************************)
Numbered(succ, R, num) ==
    /\ IsGraph(succ) /\ R \in SUBSET DOMAIN succ /\ Entry \in R /\ ClosedOver(succ, R)
    /\ num \in [DOMAIN succ \cup {NONE} -> Nat]
    /\ num[Entry] <= Cardinality(DOMAIN succ)
    /\ \A x \in R : num[x] >= 1 /\ num[x] <= num[Entry]
    /\ \A x, y \in R : num[x] = num[y] => x = y
    /\ \A x \in R \ {Entry} : \E p \in R : x \in Range(succ[p]) /\ num[x] < num[p]

LEMMA ReachableIsClosed ==
  ASSUME NEW succ, IsGraph(succ)
  PROVE  /\ Entry \in ReachableIn(succ) /\ ClosedOver(succ, ReachableIn(succ))
         /\ ReachableIn(succ) = ReachAvoiding(succ, {})
<1> DEFINE D == DOMAIN succ  R == ReachableIn(succ)  Q == ReachAvoiding(succ, {})
<1>1. Entry \in D BY GraphFacts
<1>2. Entry \in R BY <1>1 DEF ReachableIn
<1>3. ASSUME NEW b \in R, NEW d \in Range(succ[b]) PROVE d \in R
  <2>1. d \in D
    <3>1. b \in D BY DEF ReachableIn
    <3> QED BY <3>1, GraphFacts
  <2>2. ASSUME NEW X \in SUBSET D, Entry \in X, ClosedOver(succ, X) PROVE d \in X
    <3>1. b \in X BY <2>2 DEF ReachableIn
    <3> QED BY <2>2, <3>1 DEF ClosedOver
  <2> QED BY <2>1, <2>2 DEF ReachableIn
<1>4. ClosedOver(succ, R) BY <1>3 DEF ClosedOver
<1>5. \A X : ClosedWithout(succ, {}, X) <=> Entry \in X /\ ClosedOver(succ, X)
  BY DEF ClosedWithout, ClosedOver
<1>6. Q \in SUBSET D /\ Entry \in Q /\ ClosedOver(succ, Q) BY <1>5, AvoidingFacts
<1>7. R \subseteq Q BY <1>6 DEF ReachableIn
<1>8. R \in SUBSET D BY DEF ReachableIn
<1>9. Q \subseteq R BY <1>2, <1>4, <1>5, <1>8, AvoidingFacts
<1> QED BY <1>2, <1>4, <1>7, <1>9

LEMMA NumbersFit ==
  ASSUME NEW succ, IsGraph(succ), NEW rpo, RunsOn(succ, rpo)
  PROVE  /\ Numbered(succ, ReachableIn(succ), PostNumber(rpo, succ))
         /\ Len(rpo) \in Nat /\ DOMAIN rpo = 1..Len(rpo)
         /\ \A i \in DOMAIN rpo : PostNumber(rpo, succ)[rpo[i]] = Len(rpo) + 1 - i
<1> DEFINE D == DOMAIN succ  N == Cardinality(D)  L == Len(rpo)  num == PostNumber(rpo, succ)
           R == ReachableIn(succ)
<1>1. L \in Nat /\ DOMAIN rpo = 1..L /\ rpo \in Seq(D) /\ \A i \in DOMAIN rpo : rpo[i] \in D
  <2>1. rpo \in Seq(D) BY DEF RunsOn
  <2> QED BY <2>1, LenProperties
<1>2. N \in Nat /\ D = 1..N /\ NONE \notin D /\ IsFiniteSet(D) BY GraphFacts
<1>3. L <= N
  <2>1. rpo \in Injection(1..L, D)
    <3>1. rpo \in [1..L -> D] BY <1>1, LenProperties
    <3>2. \A i, j \in 1..L : rpo[i] = rpo[j] => i = j BY <1>1 DEF RunsOn
    <3> QED BY <3>1, <3>2 DEF Injection, IsInjective
  <2>2. Cardinality(1..L) = L
    <3> HIDE DEF L
    <3>1. L \in Int /\ 1 \in Int /\ L - 1 + 1 = L /\ (1 > L => L = 0) BY <1>1
    <3>2. Cardinality(1..L) = IF 1 > L THEN 0 ELSE L - 1 + 1 BY <3>1, FS_Interval
    <3> QED BY <3>1, <3>2
  <2>3. IsFiniteSet(1..L) BY <1>1, FS_Interval
  <2> HIDE DEF L, D
  <2>4. Cardinality(1..L) <= Cardinality(D) BY <1>2, <2>1, FS_Injection
  <2> QED BY <2>2, <2>4
<1>4. \A i \in DOMAIN rpo : IndexIn(rpo, rpo[i]) = i BY DEF IndexIn, RunsOn
<1>5. ASSUME NEW i \in DOMAIN rpo PROVE num[rpo[i]] = L + 1 - i
  <2>1. rpo[i] \in D \cup {NONE} /\ rpo[i] \in Range(rpo) BY <1>1 DEF Range
  <2> QED BY <1>4, <2>1 DEF PostNumber
<1>6. Range(rpo) = R BY DEF RunsOn
<1>7. \A x \in R : \E i \in DOMAIN rpo : x = rpo[i] BY <1>6 DEF Range
<1>8. \A i \in DOMAIN rpo : rpo[i] \in R BY <1>6 DEF Range
<1>9. num \in [D \cup {NONE} -> Nat]
  <2>1. ASSUME NEW b \in D \cup {NONE} PROVE num[b] \in Nat
    <3>1. CASE b \in R
      <4>1. PICK i \in 1..L : b = rpo[i] BY <1>1, <1>7, <3>1
      <4>2. L + 1 - i \in Nat BY <1>1
      <4> QED BY <1>1, <1>5, <4>1, <4>2
    <3>2. CASE b \notin R
      <4>1. num[b] = N + 1 BY <1>6, <3>2 DEF PostNumber
      <4> QED BY <1>2, <4>1
    <3> QED BY <3>1, <3>2
  <2>2. num = [b \in D \cup {NONE} |-> num[b]] BY DEF PostNumber
  <2> HIDE DEF num
  <2> QED BY <2>1, <2>2
<1> HIDE DEF num, L, N
<1>10. 1 \in DOMAIN rpo /\ rpo[1] = Entry BY DEF RunsOn
<1>11. num[Entry] = L /\ L >= 1
  <2>1. num[Entry] = L + 1 - 1 BY <1>5, <1>10
  <2> QED BY <1>1, <1>10, <2>1
<1>12. \A x \in R : num[x] >= 1 /\ num[x] <= L
  <2> SUFFICES ASSUME NEW x \in R PROVE num[x] >= 1 /\ num[x] <= L OBVIOUS
  <2>1. PICK i \in 1..L : x = rpo[i] BY <1>1, <1>7
  <2>2. num[x] = L + 1 - i BY <1>1, <1>5, <2>1
  <2> QED BY <1>1, <2>2
<1>13. ASSUME NEW x \in R, NEW y \in R, num[x] = num[y] PROVE x = y
  <2>1. PICK i \in 1..L : x = rpo[i] BY <1>1, <1>7
  <2>2. PICK j \in 1..L : y = rpo[j] BY <1>1, <1>7
  <2>3. num[x] = L + 1 - i /\ num[y] = L + 1 - j BY <1>1, <1>5, <2>1, <2>2
  <2>4. i = j
    <3>1. L + 1 - i = L + 1 - j BY <1>13, <2>3
    <3>2. L \in Nat /\ i \in Int /\ j \in Int BY <1>1
    <3> QED BY ONLY <3>1, <3>2
  <2> QED BY <2>1, <2>2, <2>4
<1>14. ASSUME NEW x \in R \ {Entry} PROVE \E p \in R : x \in Range(succ[p]) /\ num[x] < num[p]
  <2>1. PICK i \in 1..L : x = rpo[i] BY <1>1, <1>7
  <2>2. PICK j \in 1..(i - 1) : rpo[i] \in Range(succ[rpo[j]])
    <3>1. i \in DOMAIN rpo /\ rpo[i] # Entry BY <1>1, <2>1
    <3> QED BY <3>1 DEF RunsOn
  <2>3. j \in 1..L /\ j < i BY <1>1
  <2>4. num[x] = L + 1 - i /\ num[rpo[j]] = L + 1 - j /\ rpo[j] \in R
    BY <1>1, <1>5, <1>8, <2>1, <2>3
  <2>5. num[x] < num[rpo[j]] BY <1>1, <2>3, <2>4
  <2> QED BY <2>1, <2>2, <2>4, <2>5
<1>15. R \in SUBSET D BY DEF ReachableIn
<1>16. Numbered(succ, R, num)
  BY <1>3, <1>9, <1>11, <1>12, <1>13, <1>14, <1>15, ReachableIsClosed DEF Numbered, N
<1> QED BY <1>1, <1>5, <1>16 DEF num, L

------------------------------------------------------------------------------
(***************************************************************************)
(* Trees that the iteration passes through: what is known leads up, by     *)
(* greater numbers, to the entry.                                          *)
(***************************************************************************)
KnownIn(idom) == {x \in DOMAIN idom : idom[x] # NONE}
TreeFits(succ, R, num, idom) ==
    /\ idom \in Tree(succ) /\ idom[Entry] = Entry
    /\ \A x \in DOMAIN succ : x \notin R => idom[x] = NONE
    /\ \A x \in KnownIn(idom) : x # Entry => idom[x] \in KnownIn(idom) /\ num[x] < num[idom[x]]

\* What is on the way up from x, x included.
UpClosed(idom, X) == \A y \in X : idom[y] # NONE => idom[y] \in X
Above(idom, x) == {a \in DOMAIN idom : \A X \in SUBSET DOMAIN idom : x \in X /\ UpClosed(idom, X) => a \in X}

LEMMA KnownFacts ==
  ASSUME NEW succ, NEW R, NEW num, NEW idom, Numbered(succ, R, num), TreeFits(succ, R, num, idom)
  PROVE  /\ DOMAIN idom = DOMAIN succ /\ KnownIn(idom) \in SUBSET R /\ R \in SUBSET DOMAIN succ
         /\ Entry \in KnownIn(idom) /\ idom[Entry] = Entry /\ Entry \in R
         /\ num[Entry] \in Nat /\ \A x \in R : num[x] \in Nat /\ num[x] >= 1 /\ num[x] <= num[Entry]
         /\ \A x \in KnownIn(idom) : x # Entry => idom[x] \in KnownIn(idom) /\ num[x] < num[idom[x]]
         /\ \A x \in DOMAIN idom : idom[x] \in DOMAIN idom \cup {NONE}
<1>1. DOMAIN idom = DOMAIN succ /\ \A x \in DOMAIN idom : idom[x] \in DOMAIN idom \cup {NONE}
  BY DEF TreeFits, Tree
<1>2. R \in SUBSET DOMAIN succ /\ Entry \in R BY DEF Numbered
<1>3. KnownIn(idom) \in SUBSET R BY <1>1 DEF KnownIn, TreeFits
<1>4. Entry # NONE BY DEF Entry, NONE
<1>5. Entry \in KnownIn(idom) /\ idom[Entry] = Entry BY <1>1, <1>2, <1>4 DEF KnownIn, TreeFits
<1>6. \A x \in R : num[x] \in Nat /\ num[x] >= 1 /\ num[x] <= num[Entry] BY <1>2 DEF Numbered
<1> QED BY <1>1, <1>2, <1>3, <1>5, <1>6 DEF TreeFits

LEMMA AboveFacts ==
  ASSUME NEW succ, NEW R, NEW num, NEW idom, Numbered(succ, R, num), TreeFits(succ, R, num, idom)
  PROVE  /\ \A x \in KnownIn(idom) : x \in Above(idom, x)
         /\ Above(idom, Entry) = {Entry}
         /\ \A x \in KnownIn(idom) : x # Entry => Above(idom, x) = {x} \cup Above(idom, idom[x])
         /\ \A x \in KnownIn(idom) : \A a \in Above(idom, x) :
               a \in KnownIn(idom) /\ (a = x \/ num[x] < num[a])
         /\ \A x \in DOMAIN idom : \A y \in Above(idom, x) : Above(idom, y) \subseteq Above(idom, x)
<1>1. \A x \in DOMAIN idom : x \in Above(idom, x) BY DEF Above
<1>2. KnownIn(idom) \subseteq DOMAIN idom BY DEF KnownIn
<1>3. Above(idom, Entry) = {Entry}
  <2>1. {Entry} \in SUBSET DOMAIN idom /\ Entry \in DOMAIN idom /\ UpClosed(idom, {Entry})
    BY KnownFacts DEF UpClosed
  <2>2. \A a \in Above(idom, Entry) : a \in {Entry} BY <2>1 DEF Above
  <2> QED BY <1>1, <2>1, <2>2
<1>4. ASSUME NEW x \in DOMAIN idom, idom[x] # NONE
      PROVE  Above(idom, x) = {x} \cup Above(idom, idom[x])
  <2>0. idom[x] \in DOMAIN idom BY <1>4, KnownFacts
  <2>1. ASSUME NEW a \in Above(idom, x), a # x PROVE a \in Above(idom, idom[x])
    <3>1. ASSUME NEW X \in SUBSET DOMAIN idom, idom[x] \in X, UpClosed(idom, X) PROVE a \in X
      <4>1. X \cup {x} \in SUBSET DOMAIN idom /\ x \in X \cup {x} /\ UpClosed(idom, X \cup {x})
        BY <3>1 DEF UpClosed
      <4>2. a \in X \cup {x} BY <4>1 DEF Above
      <4> QED BY <2>1, <4>2
    <3>2. a \in DOMAIN idom BY DEF Above
    <3> QED BY <3>1, <3>2 DEF Above
  <2>2. ASSUME NEW a \in Above(idom, idom[x]) PROVE a \in Above(idom, x)
    <3>1. a \in DOMAIN idom BY DEF Above
    <3>2. ASSUME NEW X \in SUBSET DOMAIN idom, x \in X, UpClosed(idom, X) PROVE a \in X
      <4>1. idom[x] \in X BY <1>4, <3>2 DEF UpClosed
      <4> QED BY <3>2, <4>1 DEF Above
    <3> QED BY <3>1, <3>2 DEF Above
  <2> QED BY <1>1, <2>1, <2>2
<1>5. ASSUME NEW x \in KnownIn(idom), NEW a \in Above(idom, x)
      PROVE  a \in KnownIn(idom) /\ (a = x \/ num[x] < num[a])
  <2> DEFINE X == {y \in KnownIn(idom) : y = x \/ num[x] < num[y]}
  <2>1. X \in SUBSET DOMAIN idom /\ x \in X BY <1>2
  <2>2. ASSUME NEW y \in X PROVE idom[y] \in X
    <3>1. CASE y = Entry BY <3>1, KnownFacts
    <3>2. CASE y # Entry
      <4>1. idom[y] \in KnownIn(idom) /\ num[y] < num[idom[y]] BY <3>2, KnownFacts
      <4>2. num[x] \in Nat /\ num[y] \in Nat /\ num[idom[y]] \in Nat BY <4>1, KnownFacts
      <4>3. num[x] < num[idom[y]] BY <4>1, <4>2
      <4> QED BY <4>1, <4>3
    <3> QED BY <3>1, <3>2
  <2>3. UpClosed(idom, X) BY <2>2 DEF UpClosed
  <2>4. a \in X
    <3> HIDE DEF X
    <3> QED BY <2>1, <2>3 DEF Above
  <2> QED BY <2>4
<1>6. ASSUME NEW x \in DOMAIN idom, NEW y \in Above(idom, x), NEW a \in Above(idom, y)
      PROVE  a \in Above(idom, x)
  BY <1>6 DEF Above
<1>7. \A x \in KnownIn(idom) : x # Entry => Above(idom, x) = {x} \cup Above(idom, idom[x])
  <2> SUFFICES ASSUME NEW x \in KnownIn(idom), x # Entry
               PROVE  Above(idom, x) = {x} \cup Above(idom, idom[x])
    OBVIOUS
  <2>1. idom[x] # NONE /\ x \in DOMAIN idom BY DEF KnownIn
  <2> QED BY <1>4, <2>1
<1> QED BY <1>1, <1>2, <1>3, <1>5, <1>6, <1>7

\* Two blocks on one way up: one is above the other.
LEMMA AboveInLine ==
  ASSUME NEW succ, NEW R, NEW num, NEW idom, Numbered(succ, R, num), TreeFits(succ, R, num, idom),
         NEW x \in KnownIn(idom), NEW y \in Above(idom, x), NEW a \in Above(idom, x),
         a = y \/ num[y] < num[a]
  PROVE  a \in Above(idom, y)
<1> DEFINE X == {z \in KnownIn(idom) : a \in Above(idom, z) \/ z \in Above(idom, a)}
<1>1. KnownIn(idom) \subseteq DOMAIN idom /\ y \in KnownIn(idom) /\ a \in KnownIn(idom)
  <2>1. KnownIn(idom) \subseteq DOMAIN idom BY DEF KnownIn
  <2> QED BY <2>1, AboveFacts
<1>2. X \in SUBSET DOMAIN idom /\ x \in X BY <1>1
<1>3. ASSUME NEW z \in X PROVE idom[z] \in X
  <2>1. CASE z = Entry BY <2>1, KnownFacts
  <2>2. CASE z # Entry
    <3>1. idom[z] \in KnownIn(idom) /\ Above(idom, z) = {z} \cup Above(idom, idom[z])
      BY <2>2, KnownFacts, AboveFacts
    <3>2. CASE a \in Above(idom, idom[z]) BY <3>1, <3>2
    <3>3. CASE a = z
      <4>1. idom[z] \in Above(idom, idom[z]) BY <3>1, AboveFacts
      <4> QED BY <3>1, <3>3, <4>1
    <3>4. CASE z \in Above(idom, a)
      <4>1. idom[z] \in Above(idom, z) BY <3>1, AboveFacts
      <4>2. Above(idom, z) \subseteq Above(idom, a) BY <1>1, <3>4, AboveFacts
      <4> QED BY <3>1, <4>1, <4>2
    <3> QED BY <3>1, <3>2, <3>3, <3>4
  <2> QED BY <2>1, <2>2
<1>4. UpClosed(idom, X) BY <1>3 DEF UpClosed
<1>5. y \in X
  <2> HIDE DEF X
  <2> QED BY <1>2, <1>4 DEF Above
<1>6. CASE y \in Above(idom, a)
  <2>1. y = a \/ num[a] < num[y] BY <1>1, <1>6, AboveFacts
  <2>2. num[a] \in Nat /\ num[y] \in Nat BY <1>1, KnownFacts
  <2>3. y = a BY <2>1, <2>2
  <2> QED BY <1>1, <2>3, AboveFacts
<1> QED BY <1>5, <1>6

\* The ancestors the validator climbs to.
LEMMA AncestorsAbove ==
  ASSUME NEW succ, NEW R, NEW num, NEW idom, Numbered(succ, R, num), TreeFits(succ, R, num, idom),
         NEW x \in KnownIn(idom)
  PROVE  Ancestors(idom, x) = Above(idom, x)
<1> DEFINE D == DOMAIN idom
           S == D \X SUBSET D
           T == {s \in S : idom[s[1]] \in {s[1], NONE}}
           out == [s \in S |-> s[2]]
           step == [s \in S |-> <<idom[s[1]], s[2] \cup {idom[s[1]]}>>]
           Body(w, s) == IF idom[s[1]] \in {s[1], NONE} THEN s[2]
                         ELSE w[<<idom[s[1]], s[2] \cup {idom[s[1]]}>>]
           W == CHOOSE w : w = [s \in S |-> Body(w, s)]
           I == {s \in S : s[1] \in KnownIn(idom) /\ s[1] \in s[2]
                           /\ s[2] \cup Above(idom, s[1]) = Above(idom, x)}
           m == [s \in S |-> num[Entry] - num[s[1]]]
           s0 == <<x, {x}>>
<1>1. Ancestors(idom, x) = W[s0] BY DEF Ancestors
<1>2. ASSUME NEW w, NEW s \in S PROVE Body(w, s) = IF s \in T THEN out[s] ELSE w[step[s]]
  OBVIOUS
<1>3. ASSUME NEW s \in S \ T
      PROVE step[s] \in S /\ step[s] = <<idom[s[1]], s[2] \cup {idom[s[1]]}>>
            /\ idom[s[1]] # s[1] /\ idom[s[1]] # NONE /\ s[1] \in D
  <2>1. s[1] \in D /\ s[2] \in SUBSET D /\ idom[s[1]] # s[1] /\ idom[s[1]] # NONE OBVIOUS
  <2>2. idom[s[1]] \in D BY <2>1, KnownFacts
  <2> QED BY <2>1, <2>2
<1> HIDE DEF Body, out, step
<1>4. \E w : LoopIs(w, S, T, out, step)
  <2>1. \A s \in S \ T : step[s] \in S BY <1>3
  <2> HIDE DEF T, S
  <2> QED BY ONLY <2>1, LoopExists
<1>5. \A w : [s \in S |-> Body(w, s)] = [s \in S |-> IF s \in T THEN out[s] ELSE w[step[s]]]
  <2> HIDE DEF T, S
  <2> QED BY ONLY <1>2
<1>6. LoopIs(W, S, T, out, step)
  <2>1. \E w : w = [s \in S |-> Body(w, s)] BY <1>4, <1>5 DEF LoopIs
  <2>2. W = [s \in S |-> Body(W, s)] BY <2>1
  <2> HIDE DEF W
  <2> QED BY <1>5, <2>2 DEF LoopIs
<1> HIDE DEF W
<1>7. ASSUME NEW s \in I PROVE m[s] \in Nat
  <2>1. s \in S /\ s[1] \in KnownIn(idom) OBVIOUS
  <2>2. num[s[1]] \in Nat /\ num[Entry] \in Nat /\ num[s[1]] <= num[Entry] BY <2>1, KnownFacts
  <2> QED BY <2>1, <2>2
<1>8. ASSUME NEW s \in I \ T PROVE step[s] \in I /\ m[step[s]] < m[s]
  <2> DEFINE y == s[1]  z == idom[s[1]]  u == s[2] \cup {idom[s[1]]}
  <2>1. s \in S \ T /\ y \in KnownIn(idom) /\ y \in s[2] /\ s[2] \cup Above(idom, y) = Above(idom, x)
    OBVIOUS
  <2>2. step[s] \in S /\ step[s] = <<z, u>> /\ z # y /\ z # NONE BY <1>3, <2>1
  <2>3. y # Entry BY <2>2, KnownFacts
  <2>4. z \in KnownIn(idom) /\ num[y] < num[z] BY <2>1, <2>3, KnownFacts
  <2>5. Above(idom, y) = {y} \cup Above(idom, z) /\ z \in Above(idom, z)
    BY <2>1, <2>3, <2>4, AboveFacts
  <2>6. u \cup Above(idom, z) = Above(idom, x) /\ z \in u BY <2>1, <2>5
  <2> DEFINE st == step[s]
  <2> HIDE DEF u, z, st
  <2>7. st \in S /\ st[1] = z /\ st[2] = u BY <2>2 DEF st
  <2>8. st \in I BY <2>4, <2>6, <2>7
  <2>9. m[st] = num[Entry] - num[z] /\ m[s] = num[Entry] - num[y] BY <2>7
  <2>10. num[y] \in Nat /\ num[z] \in Nat /\ num[Entry] \in Nat BY <2>1, <2>4, KnownFacts
  <2> HIDE DEF m, I, y
  <2>11. m[st] < m[s] BY <2>4, <2>9, <2>10
  <2> QED BY <2>8, <2>11 DEF st
<1>9. s0 \in I
  <2>1. x \in D BY DEF KnownIn
  <2>2. x \in Above(idom, x) BY AboveFacts
  <2> QED BY <2>1, <2>2
<1>10. I \in SUBSET S OBVIOUS
<1> HIDE DEF m, s0, I
<1>11. \E e \in I \cap T : W[s0] = out[e]
  <2> HIDE DEF S, T
  <2> QED BY ONLY <1>6, <1>7, <1>8, <1>9, <1>10, LoopEnds
<1>12. PICK e \in I \cap T : W[s0] = out[e] BY <1>11
<1>13. /\ e \in S /\ idom[e[1]] \in {e[1], NONE} /\ out[e] = e[2] /\ e[1] \in KnownIn(idom) /\ e[1] \in e[2]
       /\ e[2] \cup Above(idom, e[1]) = Above(idom, x)
  BY <1>12 DEF I, out
<1>14. e[1] = Entry
  <2>1. idom[e[1]] # NONE BY <1>13 DEF KnownIn
  <2>2. idom[e[1]] = e[1] BY <1>13, <2>1
  <2>3. num[e[1]] \in Nat BY <1>13, KnownFacts
  <2> QED BY <1>13, <2>2, <2>3, KnownFacts
<1>15. Above(idom, e[1]) = {e[1]} BY <1>14, AboveFacts
<1> QED BY <1>1, <1>12, <1>13, <1>15

\* The fingers of intersect.  Each climb moves the lower one past where it was, and
\* the budget is twice as many steps as the lower one has left to climb.
Phases(idom) == {"meet", "a", "b"} \X (DOMAIN idom \cup {NONE}) \X (DOMAIN idom \cup {NONE})
                \X (0..StepBudget(Cardinality(DOMAIN idom)))
UpFrom(idom, x) == IF x = NONE THEN NONE ELSE idom[x]
ClimbNext(idom, num, s) ==
    CASE s[1] = "meet" -> <<"a", s[2], s[3], s[4] - 1>>
      [] s[1] = "a" -> IF num[s[2]] < num[s[3]] /\ s[4] > 0
                       THEN <<"a", UpFrom(idom, s[2]), s[3], s[4] - 1>>
                       ELSE <<"b", s[2], s[3], s[4]>>
      [] OTHER -> IF num[s[3]] < num[s[2]] /\ s[4] > 0
                  THEN <<"b", s[2], UpFrom(idom, s[3]), s[4] - 1>>
                  ELSE <<"meet", s[2], s[3], s[4]>>
Lasts(left, i, L) == left >= 2 * (L - i)
Climbing(idom, num, C, s) ==
    /\ s \in Phases(idom) /\ s[2] \in KnownIn(idom) /\ s[3] \in KnownIn(idom)
    /\ Above(idom, s[2]) \cap Above(idom, s[3]) = C
    /\ LET x == num[s[2]]  y == num[s[3]]  L == num[Entry]
       IN  \/ Lasts(s[4], x, L) /\ Lasts(s[4], y, L)
           \/ /\ (s[1] = "a" /\ x # y) \/ (s[1] = "b" /\ y < x)
              /\ Lasts(s[4] + 1, x, L) /\ Lasts(s[4] + 1, y, L)
ClimbRank(s) == 3 * s[4] + (IF s[1] = "a" THEN 2 ELSE IF s[1] = "b" THEN 1 ELSE 0)

\* A climb of the lower finger.
LEMMA LowerClimbs ==
  ASSUME NEW succ, NEW R, NEW num, NEW idom, Numbered(succ, R, num), TreeFits(succ, R, num, idom),
         NEW x \in KnownIn(idom), NEW y \in KnownIn(idom), num[x] < num[y]
  PROVE  /\ idom[x] \in KnownIn(idom) /\ num[x] < num[idom[x]] /\ UpFrom(idom, x) = idom[x]
         /\ Above(idom, idom[x]) \cap Above(idom, y) = Above(idom, x) \cap Above(idom, y)
<1>1. num[x] \in Nat /\ num[y] \in Nat /\ num[Entry] \in Nat /\ num[y] <= num[Entry] BY KnownFacts
<1>2. x # Entry BY <1>1
<1>3. idom[x] \in KnownIn(idom) /\ num[x] < num[idom[x]] BY <1>2, KnownFacts
<1>4. Above(idom, x) = {x} \cup Above(idom, idom[x]) BY <1>2, AboveFacts
<1>5. x \notin Above(idom, y)
  <2>1. x = y \/ num[y] < num[x] => FALSE BY <1>1
  <2> QED BY <2>1, AboveFacts
<1>6. x # NONE
  <2>1. x \in DOMAIN succ BY KnownFacts
  <2>2. IsGraph(succ) BY DEF Numbered
  <2> QED BY <2>1, <2>2, GraphFacts
<1> QED BY <1>3, <1>4, <1>5, <1>6 DEF UpFrom

LEMMA BudgetIsNat ==
  ASSUME NEW succ, NEW idom, IsGraph(succ), idom \in Tree(succ)
  PROVE  /\ DOMAIN idom = DOMAIN succ /\ Cardinality(DOMAIN idom) \in Nat
         /\ StepBudget(Cardinality(DOMAIN idom)) \in Nat
         /\ StepBudget(Cardinality(DOMAIN idom)) = 2 * Cardinality(DOMAIN succ) + 2
         /\ \A x \in DOMAIN idom : idom[x] \in DOMAIN idom \cup {NONE}
<1>1. DOMAIN idom = DOMAIN succ /\ \A x \in DOMAIN idom : idom[x] \in DOMAIN idom \cup {NONE}
  BY DEF Tree
<1>2. Cardinality(DOMAIN succ) \in Nat BY GraphFacts
<1> QED BY <1>1, <1>2 DEF StepBudget

LEMMA GraphOfTree ==
  ASSUME NEW succ, NEW R, NEW num, NEW idom, Numbered(succ, R, num), TreeFits(succ, R, num, idom)
  PROVE  IsGraph(succ) /\ idom \in Tree(succ)
BY DEF Numbered, TreeFits

\* A finger, wherever it is, climbs to a finger.
LEMMA ClimbStays ==
  ASSUME NEW succ, NEW idom, NEW num, IsGraph(succ), idom \in Tree(succ),
         NEW s \in Phases(idom), ~(s[1] = "meet" /\ (s[2] = s[3] \/ s[4] = 0))
  PROVE  /\ ClimbNext(idom, num, s) \in Phases(idom)
         /\ ClimbRank(s) \in Nat /\ ClimbRank(ClimbNext(idom, num, s)) < ClimbRank(s)
<1> DEFINE Node == DOMAIN idom \cup {NONE}  B == StepBudget(Cardinality(DOMAIN idom))
<1>1. /\ s[1] \in {"meet", "a", "b"} /\ s[2] \in Node /\ s[3] \in Node /\ s[4] \in 0..B
  BY DEF Phases
<1>2. B \in Nat BY BudgetIsNat
<1>3. ASSUME NEW x \in Node PROVE UpFrom(idom, x) \in Node BY BudgetIsNat DEF UpFrom
<1>4. s[4] > 0 => s[4] - 1 \in 0..B
  <2> HIDE DEF B
  <2> QED BY <1>1, <1>2
<1>5. ASSUME NEW p \in {"meet", "a", "b"}, NEW x \in Node, NEW y \in Node, NEW i \in 0..B
      PROVE <<p, x, y, i>> \in Phases(idom)
  BY DEF Phases
<1>r. s[4] \in Nat /\ ClimbRank(s) \in Nat
  <2>1. s[4] \in Nat
    <3> HIDE DEF B
    <3> QED BY <1>1, <1>2
  <2> QED BY <2>1 DEF ClimbRank
<1>a. ASSUME NEW p, NEW x, NEW y, NEW i PROVE <<p, x, y, i>>[1] = p /\ <<p, x, y, i>>[4] = i
  OBVIOUS
<1>s. ASSUME NEW p \in {"meet", "a", "b"}, NEW x, NEW y
      PROVE  /\ (s[1] = "meet" \/ s[1] = p) /\ s[4] > 0 => ClimbRank(<<p, x, y, s[4] - 1>>) < ClimbRank(s)
             /\ s[1] = "a" => ClimbRank(<<"b", x, y, s[4]>>) < ClimbRank(s)
             /\ s[1] = "b" => ClimbRank(<<"meet", x, y, s[4]>>) < ClimbRank(s)
  BY <1>r, <1>a DEF ClimbRank
<1> HIDE DEF Node, B
<1>6. CASE s[1] = "meet"
  <2>1. s[4] > 0 BY <1>1, <1>2, <1>6
  <2>2. ClimbNext(idom, num, s) = <<"a", s[2], s[3], s[4] - 1>> BY <1>6 DEF ClimbNext
  <2> QED BY <1>1, <1>4, <1>5, <1>6, <1>r, <1>s, <2>1, <2>2
<1>7. CASE s[1] = "a"
  <2>1. s[1] # "meet" BY <1>7
  <2>2. ClimbNext(idom, num, s) = IF num[s[2]] < num[s[3]] /\ s[4] > 0
                                  THEN <<"a", UpFrom(idom, s[2]), s[3], s[4] - 1>>
                                  ELSE <<"b", s[2], s[3], s[4]>>
    BY <1>7, <2>1 DEF ClimbNext
  <2>3. s[4] > 0 => <<"a", UpFrom(idom, s[2]), s[3], s[4] - 1>> \in Phases(idom) BY <1>1, <1>3, <1>4, <1>5
  <2>4. <<"b", s[2], s[3], s[4]>> \in Phases(idom) BY <1>1, <1>5
  <2>5. s[4] > 0 => ClimbRank(<<"a", UpFrom(idom, s[2]), s[3], s[4] - 1>>) < ClimbRank(s) BY <1>7, <1>s
  <2>6. ClimbRank(<<"b", s[2], s[3], s[4]>>) < ClimbRank(s) BY <1>7, <1>s
  <2> QED BY <1>r, <2>2, <2>3, <2>4, <2>5, <2>6
<1>8. CASE s[1] = "b"
  <2>1. s[1] # "meet" /\ s[1] # "a" BY <1>8
  <2>2. ClimbNext(idom, num, s) = IF num[s[3]] < num[s[2]] /\ s[4] > 0
                                  THEN <<"b", s[2], UpFrom(idom, s[3]), s[4] - 1>>
                                  ELSE <<"meet", s[2], s[3], s[4]>>
    BY <1>8, <2>1 DEF ClimbNext
  <2>3. s[4] > 0 => <<"b", s[2], UpFrom(idom, s[3]), s[4] - 1>> \in Phases(idom) BY <1>1, <1>3, <1>4, <1>5
  <2>4. <<"meet", s[2], s[3], s[4]>> \in Phases(idom) BY <1>1, <1>5
  <2>5. s[4] > 0 => ClimbRank(<<"b", s[2], UpFrom(idom, s[3]), s[4] - 1>>) < ClimbRank(s) BY <1>8, <1>s
  <2>6. ClimbRank(<<"meet", s[2], s[3], s[4]>>) < ClimbRank(s) BY <1>8, <1>s
  <2> QED BY <1>r, <2>2, <2>3, <2>4, <2>5, <2>6
<1> QED BY <1>1, <1>6, <1>7, <1>8

LEMMA ClimbGoesOn ==
  ASSUME NEW succ, NEW R, NEW num, NEW idom, Numbered(succ, R, num), TreeFits(succ, R, num, idom),
         NEW C, NEW s, Climbing(idom, num, C, s), ~(s[1] = "meet" /\ (s[2] = s[3] \/ s[4] = 0))
  PROVE  Climbing(idom, num, C, ClimbNext(idom, num, s))
<1> DEFINE t == ClimbNext(idom, num, s)  L == num[Entry]
<1>1. /\ s \in Phases(idom) /\ s[2] \in KnownIn(idom) /\ s[3] \in KnownIn(idom)
      /\ Above(idom, s[2]) \cap Above(idom, s[3]) = C
  BY DEF Climbing
<1>0. IsGraph(succ) /\ idom \in Tree(succ) BY GraphOfTree
<1>2. t \in Phases(idom) BY <1>0, <1>1, ClimbStays
<1>3. /\ s[1] \in {"meet", "a", "b"} /\ s[4] \in Nat
      /\ t[1] \in {"meet", "a", "b"} /\ t[4] \in Nat
  <2>1. StepBudget(Cardinality(DOMAIN idom)) \in Nat BY <1>0, BudgetIsNat
  <2>2. \A q \in Phases(idom) : q[1] \in {"meet", "a", "b"} /\ q[4] \in 0..StepBudget(Cardinality(DOMAIN idom))
    BY DEF Phases
  <2> HIDE DEF t
  <2> QED BY <1>1, <1>2, <2>1, <2>2
<1>4. /\ num[s[2]] \in Nat /\ num[s[3]] \in Nat /\ L \in Nat /\ num[s[2]] <= L /\ num[s[3]] <= L
      /\ num[s[2]] = num[s[3]] => s[2] = s[3]
  BY <1>1, KnownFacts DEF Numbered
<1>5. \/ Lasts(s[4], num[s[2]], L) /\ Lasts(s[4], num[s[3]], L)
      \/ /\ (s[1] = "a" /\ num[s[2]] # num[s[3]]) \/ (s[1] = "b" /\ num[s[3]] < num[s[2]])
         /\ Lasts(s[4] + 1, num[s[2]], L) /\ Lasts(s[4] + 1, num[s[3]], L)
  BY DEF Climbing
<1> DEFINE Goal(u) == Climbing(idom, num, C, u)
<1>7. ASSUME s[1] = "meet" PROVE Goal(t)
  <2>1. t = <<"a", s[2], s[3], s[4] - 1>> BY <1>7 DEF ClimbNext
  <2>2. t[1] = "a" /\ t[2] = s[2] /\ t[3] = s[3] /\ t[4] = s[4] - 1 BY <2>1
  <2> HIDE DEF t, L
  <2>3. num[s[2]] # num[s[3]] BY <1>4, <1>7
  <2>4. Lasts(t[4] + 1, num[s[2]], L) /\ Lasts(t[4] + 1, num[s[3]], L)
    <3>1. t[4] + 1 = s[4] BY <1>3, <2>2
    <3> QED BY <1>5, <1>7, <3>1
  <2>5. Climbing(idom, num, C, t) BY <1>1, <1>2, <2>2, <2>3, <2>4 DEF Climbing, L
  <2> QED BY <2>5
<1>8. ASSUME s[1] = "a", num[s[2]] < num[s[3]] PROVE Goal(t)
  <2>0. s[1] # "meet" BY <1>8
  <2>1. s[4] > 0 BY <1>3, <1>4, <1>5, <1>8 DEF Lasts
  <2>2. t = <<"a", UpFrom(idom, s[2]), s[3], s[4] - 1>> BY <1>8, <2>0, <2>1 DEF ClimbNext
  <2>3. /\ idom[s[2]] \in KnownIn(idom) /\ num[s[2]] < num[idom[s[2]]] /\ UpFrom(idom, s[2]) = idom[s[2]]
        /\ Above(idom, idom[s[2]]) \cap Above(idom, s[3]) = C
    BY <1>1, <1>8, LowerClimbs
  <2>4. t[1] = "a" /\ t[2] = idom[s[2]] /\ t[3] = s[3] /\ t[4] = s[4] - 1 BY <2>2, <2>3
  <2> HIDE DEF t, L
  <2>5. num[idom[s[2]]] \in Nat BY <2>3, KnownFacts
  <2>6. Lasts(s[4] - 1, num[idom[s[2]]], L) /\ Lasts(s[4] - 1, num[s[3]], L)
    BY <1>3, <1>4, <1>5, <1>8, <2>3, <2>5 DEF Lasts
  <2>7. Climbing(idom, num, C, t) BY <1>1, <1>2, <2>3, <2>4, <2>6 DEF Climbing, L
  <2> QED BY <2>7
<1>9. ASSUME s[1] = "a", ~(num[s[2]] < num[s[3]]) PROVE Goal(t)
  <2>0. s[1] # "meet" BY <1>9
  <2>1. t = <<"b", s[2], s[3], s[4]>> BY <1>9, <2>0 DEF ClimbNext
  <2>2. t[1] = "b" /\ t[2] = s[2] /\ t[3] = s[3] /\ t[4] = s[4] BY <2>1
  <2> HIDE DEF t, L
  <2>3. num[s[2]] # num[s[3]] => num[s[3]] < num[s[2]] BY <1>4, <1>9
  <2>4. \/ Lasts(t[4], num[s[2]], L) /\ Lasts(t[4], num[s[3]], L)
        \/ num[s[3]] < num[s[2]] /\ Lasts(t[4] + 1, num[s[2]], L) /\ Lasts(t[4] + 1, num[s[3]], L)
    BY <1>5, <1>9, <2>2, <2>3
  <2>5. Climbing(idom, num, C, t) BY <1>1, <1>2, <2>2, <2>4 DEF Climbing, L
  <2> QED BY <2>5
<1>10. ASSUME s[1] = "b", num[s[3]] < num[s[2]] PROVE Goal(t)
  <2>0. s[1] # "meet" /\ s[1] # "a" BY <1>10
  <2>1. s[4] > 0 BY <1>3, <1>4, <1>5, <1>10 DEF Lasts
  <2>2. t = <<"b", s[2], UpFrom(idom, s[3]), s[4] - 1>> BY <1>10, <2>0, <2>1 DEF ClimbNext
  <2>3. /\ idom[s[3]] \in KnownIn(idom) /\ num[s[3]] < num[idom[s[3]]] /\ UpFrom(idom, s[3]) = idom[s[3]]
        /\ Above(idom, idom[s[3]]) \cap Above(idom, s[2]) = Above(idom, s[3]) \cap Above(idom, s[2])
    BY <1>1, <1>10, LowerClimbs
  <2>4. t[1] = "b" /\ t[2] = s[2] /\ t[3] = idom[s[3]] /\ t[4] = s[4] - 1 BY <2>2, <2>3
  <2> HIDE DEF t, L
  <2>5. num[idom[s[3]]] \in Nat BY <2>3, KnownFacts
  <2>6. Lasts(s[4] - 1, num[idom[s[3]]], L) /\ Lasts(s[4] - 1, num[s[2]], L)
    BY <1>3, <1>4, <1>5, <1>10, <2>3, <2>5 DEF Lasts
  <2>9. Above(idom, s[2]) \cap Above(idom, idom[s[3]]) = C BY <1>1, <2>3
  <2>7. Climbing(idom, num, C, t) BY <1>1, <1>2, <2>3, <2>4, <2>6, <2>9 DEF Climbing, L
  <2> QED BY <2>7
<1>11. ASSUME s[1] = "b", ~(num[s[3]] < num[s[2]]) PROVE Goal(t)
  <2>0. s[1] # "meet" /\ s[1] # "a" BY <1>11
  <2>1. t = <<"meet", s[2], s[3], s[4]>> BY <1>11, <2>0 DEF ClimbNext
  <2>2. t[1] = "meet" /\ t[2] = s[2] /\ t[3] = s[3] /\ t[4] = s[4] BY <2>1
  <2> HIDE DEF t, L
  <2>4. Lasts(t[4], num[s[2]], L) /\ Lasts(t[4], num[s[3]], L) BY <1>5, <1>11, <2>0, <2>2
  <2>5. Climbing(idom, num, C, t) BY <1>1, <1>2, <2>2, <2>4 DEF Climbing, L
  <2> QED BY <2>5
<1> HIDE DEF t, Goal
<1>12. Goal(t) BY <1>3, <1>7, <1>8, <1>9, <1>10, <1>11
<1> QED BY <1>12 DEF Goal, t

\* The loop of intersect ends where the fingers meet or the budget is used up.
FingersStop(s) == s[1] = "meet" /\ (s[2] = s[3] \/ s[4] = 0)
LEMMA IntersectEnds ==
  ASSUME NEW succ, NEW idom, NEW num, IsGraph(succ), idom \in Tree(succ),
         NEW x, NEW y, NEW I \in SUBSET Phases(idom),
         \A s \in I : ~FingersStop(s) => ClimbNext(idom, num, s) \in I,
         <<"meet", x, y, StepBudget(Cardinality(DOMAIN idom))>> \in I
  PROVE  \E e \in I : FingersStop(e) /\ Intersect(x, y, idom, num) = e[2]
<1> DEFINE B == StepBudget(Cardinality(DOMAIN idom))
           S == Phases(idom)
           T == {s \in S : s[1] = "meet" /\ (s[2] = s[3] \/ s[4] = 0)}
           out == [s \in S |-> s[2]]
           step == [s \in S |-> ClimbNext(idom, num, s)]
           Up(z) == IF z = NONE THEN NONE ELSE idom[z]
           Body(w, s) ==
             LET a == s[2]
                 b == s[3]
                 left == s[4]
             IN  CASE s[1] = "meet" -> IF a = b \/ left = 0 THEN a
                                       ELSE w[<<"a", a, b, left - 1>>]
                   [] s[1] = "a" -> IF num[a] < num[b] /\ left > 0
                                    THEN w[<<"a", Up(a), b, left - 1>>]
                                    ELSE w[<<"b", a, b, left>>]
                   [] OTHER -> IF num[b] < num[a] /\ left > 0
                               THEN w[<<"b", a, Up(b), left - 1>>]
                               ELSE w[<<"meet", a, b, left>>]
           W == CHOOSE w : w = [s \in S |-> Body(w, s)]
           m == [s \in S |-> ClimbRank(s)]
           s0 == <<"meet", x, y, B>>
<1>1. Intersect(x, y, idom, num) = W[s0] BY DEF Intersect, Phases
<1>2. ASSUME NEW w, NEW s \in S PROVE Body(w, s) = IF s \in T THEN out[s] ELSE w[step[s]]
  <2>0. step[s] = ClimbNext(idom, num, s) /\ out[s] = s[2] OBVIOUS
  <2>1. CASE s[1] = "meet"
    <3>1. Body(w, s) = IF s[2] = s[3] \/ s[4] = 0 THEN s[2] ELSE w[<<"a", s[2], s[3], s[4] - 1>>]
      BY <2>1
    <3>2. ClimbNext(idom, num, s) = <<"a", s[2], s[3], s[4] - 1>> BY <2>1 DEF ClimbNext
    <3>3. s \in T <=> s[2] = s[3] \/ s[4] = 0 BY <2>1
    <3> HIDE DEF Body, T, out, step
    <3> QED BY <2>0, <3>1, <3>2, <3>3
  <2>2. CASE s[1] = "a"
    <3>0. s[1] # "meet" BY <2>2
    <3>1. Body(w, s) = IF num[s[2]] < num[s[3]] /\ s[4] > 0
                       THEN w[<<"a", UpFrom(idom, s[2]), s[3], s[4] - 1>>]
                       ELSE w[<<"b", s[2], s[3], s[4]>>]
      BY <2>2, <3>0 DEF UpFrom
    <3>2. ClimbNext(idom, num, s) = IF num[s[2]] < num[s[3]] /\ s[4] > 0
                                    THEN <<"a", UpFrom(idom, s[2]), s[3], s[4] - 1>>
                                    ELSE <<"b", s[2], s[3], s[4]>>
      BY <2>2, <3>0 DEF ClimbNext
    <3>3. s \notin T BY <3>0
    <3> HIDE DEF Body, T, out, step
    <3> QED BY <2>0, <3>1, <3>2, <3>3
  <2>3. CASE s[1] # "meet" /\ s[1] # "a"
    <3>1. Body(w, s) = IF num[s[3]] < num[s[2]] /\ s[4] > 0
                       THEN w[<<"b", s[2], UpFrom(idom, s[3]), s[4] - 1>>]
                       ELSE w[<<"meet", s[2], s[3], s[4]>>]
      BY <2>3 DEF UpFrom
    <3>2. ClimbNext(idom, num, s) = IF num[s[3]] < num[s[2]] /\ s[4] > 0
                                    THEN <<"b", s[2], UpFrom(idom, s[3]), s[4] - 1>>
                                    ELSE <<"meet", s[2], s[3], s[4]>>
      BY <2>3 DEF ClimbNext
    <3>3. s \notin T BY <2>3
    <3> HIDE DEF Body, T, out, step
    <3> QED BY <2>0, <3>1, <3>2, <3>3
  <2> QED BY <2>1, <2>2, <2>3
<1>3. ASSUME NEW s \in S \ T PROVE step[s] \in S
  <2>1. ~(s[1] = "meet" /\ (s[2] = s[3] \/ s[4] = 0)) /\ s \in Phases(idom) OBVIOUS
  <2>2. ClimbNext(idom, num, s) \in Phases(idom) BY <2>1, ClimbStays
  <2> QED BY <2>2
<1> HIDE DEF Body, out, step, S
<1>4. \E w : LoopIs(w, S, T, out, step)
  <2> HIDE DEF T
  <2> QED BY ONLY <1>3, LoopExists
<1>5. \A w : [s \in S |-> Body(w, s)] = [s \in S |-> IF s \in T THEN out[s] ELSE w[step[s]]]
  <2> HIDE DEF T
  <2> QED BY ONLY <1>2
<1>6. LoopIs(W, S, T, out, step)
  <2>1. \E w : w = [s \in S |-> Body(w, s)] BY <1>4, <1>5 DEF LoopIs
  <2>2. W = [s \in S |-> Body(W, s)] BY <2>1
  <2> HIDE DEF W
  <2> QED BY <1>5, <2>2 DEF LoopIs
<1> HIDE DEF W
<1>7. ASSUME NEW s \in I PROVE m[s] \in Nat
  <2>1. s \in Phases(idom) OBVIOUS
  <2>2. s[4] \in 0..StepBudget(Cardinality(DOMAIN idom)) BY <2>1 DEF Phases
  <2>3. s[4] \in Nat BY <2>2, BudgetIsNat
  <2> QED BY <2>1, <2>3 DEF ClimbRank, S
<1>8. ASSUME NEW s \in I \ T PROVE step[s] \in I /\ m[step[s]] < m[s]
  <2>1. s \in S /\ s \in Phases(idom) BY DEF S
  <2>2. ~FingersStop(s) BY <2>1 DEF FingersStop
  <2>3. step[s] = ClimbNext(idom, num, s) /\ step[s] \in I BY <2>1, <2>2 DEF step
  <2>4. step[s] \in S BY <2>3 DEF S
  <2>5. ClimbRank(step[s]) < ClimbRank(s) BY <2>1, <2>2, <2>3, ClimbStays DEF FingersStop
  <2> QED BY <2>1, <2>3, <2>4, <2>5
<1>9. s0 \in I OBVIOUS
<1>10. I \in SUBSET S BY DEF S
<1> HIDE DEF m, s0
<1>11. \E e \in I \cap T : W[s0] = out[e]
  <2> HIDE DEF T
  <2> QED BY ONLY <1>6, <1>7, <1>8, <1>9, <1>10, LoopEnds
<1>12. PICK e \in I \cap T : W[s0] = out[e] BY <1>11
<1>13. e \in S /\ FingersStop(e) /\ out[e] = e[2] BY <1>10, <1>12 DEF out, FingersStop
<1> QED BY <1>1, <1>12, <1>13

LEMMA IntersectStays ==
  ASSUME NEW succ, NEW idom, NEW num, IsGraph(succ), idom \in Tree(succ),
         NEW x \in DOMAIN idom \cup {NONE}, NEW y \in DOMAIN idom \cup {NONE}
  PROVE  Intersect(x, y, idom, num) \in DOMAIN idom \cup {NONE}
<1> DEFINE B == StepBudget(Cardinality(DOMAIN idom))  I == Phases(idom)
<1>1. \A s \in I : ~FingersStop(s) => ClimbNext(idom, num, s) \in I BY ClimbStays DEF FingersStop
<1>2. <<"meet", x, y, B>> \in I
  <2>1. B \in 0..B BY BudgetIsNat
  <2> HIDE DEF B
  <2> QED BY <2>1 DEF Phases, B
<1>3. I \in SUBSET Phases(idom) OBVIOUS
<1> HIDE DEF I
<1>4. PICK e \in I : Intersect(x, y, idom, num) = e[2] BY <1>1, <1>2, <1>3, IntersectEnds
<1>5. e[2] \in DOMAIN idom \cup {NONE} BY DEF I, Phases
<1> QED BY <1>4, <1>5

\* intersect returns the block that everything above both is above.
LEMMA IntersectMeets ==
  ASSUME NEW succ, NEW R, NEW num, NEW idom, Numbered(succ, R, num), TreeFits(succ, R, num, idom),
         NEW x \in KnownIn(idom), NEW y \in KnownIn(idom)
  PROVE  /\ Intersect(x, y, idom, num) \in KnownIn(idom)
         /\ Above(idom, Intersect(x, y, idom, num)) = Above(idom, x) \cap Above(idom, y)
<1> DEFINE B == StepBudget(Cardinality(DOMAIN idom))
           C == Above(idom, x) \cap Above(idom, y)
           I == {s \in Phases(idom) : Climbing(idom, num, C, s)}
           s0 == <<"meet", x, y, B>>
<1>0. IsGraph(succ) /\ idom \in Tree(succ) BY GraphOfTree
<1>1. \A s \in I : ~FingersStop(s) => ClimbNext(idom, num, s) \in I
  BY <1>0, ClimbGoesOn, ClimbStays DEF FingersStop
<1>9. s0 \in I
  <2>1. B \in Nat /\ B >= 2 * num[Entry] + 2
    <3>1. num[Entry] <= Cardinality(DOMAIN succ) BY DEF Numbered
    <3>2. /\ B = 2 * Cardinality(DOMAIN succ) + 2 /\ B \in Nat /\ Cardinality(DOMAIN succ) \in Nat
          /\ num[Entry] \in Nat
      BY <1>0, BudgetIsNat, KnownFacts
    <3> HIDE DEF B
    <3> QED BY <3>1, <3>2
  <2>2. /\ num[x] \in Nat /\ num[y] \in Nat /\ num[Entry] \in Nat
    BY KnownFacts
  <2>3. x \in DOMAIN idom /\ y \in DOMAIN idom BY DEF KnownIn
  <2>4. s0 \in Phases(idom)
    <3>1. B \in 0..B BY <2>1
    <3> QED BY <2>3, <3>1 DEF Phases
  <2> HIDE DEF B
  <2>5. Lasts(B, num[x], num[Entry]) /\ Lasts(B, num[y], num[Entry]) BY <2>1, <2>2 DEF Lasts
  <2>6. s0[1] = "meet" /\ s0[2] = x /\ s0[3] = y /\ s0[4] = B OBVIOUS
  <2> HIDE DEF s0
  <2>7. Climbing(idom, num, C, s0) BY <2>4, <2>5, <2>6 DEF Climbing
  <2> QED BY <2>4, <2>7
<1>10. I \in SUBSET Phases(idom) OBVIOUS
<1>b. <<"meet", x, y, StepBudget(Cardinality(DOMAIN idom))>> \in I BY <1>9
<1> HIDE DEF I, B, s0, C
<1>12. PICK e \in I : FingersStop(e) /\ Intersect(x, y, idom, num) = e[2]
  BY ONLY <1>0, <1>1, <1>b, <1>10, IntersectEnds
<1>13. Climbing(idom, num, C, e) /\ e[1] = "meet" /\ (e[2] = e[3] \/ e[4] = 0)
  BY <1>12 DEF I, FingersStop
<1>14. e[2] \in KnownIn(idom) /\ e[3] \in KnownIn(idom) /\ Above(idom, e[2]) \cap Above(idom, e[3]) = C
       /\ Lasts(e[4], num[e[2]], num[Entry]) /\ Lasts(e[4], num[e[3]], num[Entry])
  BY <1>13 DEF Climbing
<1>15. e[2] = e[3]
  <2>1. CASE e[4] = 0
    <3>1. /\ num[e[2]] \in Nat /\ num[e[3]] \in Nat /\ num[Entry] \in Nat
          /\ num[e[2]] <= num[Entry] /\ num[e[3]] <= num[Entry]
      BY <1>14, KnownFacts
    <3>2. num[e[2]] = num[e[3]] BY <1>14, <2>1, <3>1 DEF Lasts
    <3>3. e[2] \in R /\ e[3] \in R BY <1>14, KnownFacts
    <3> QED BY <3>2, <3>3 DEF Numbered
  <2> QED BY <1>13, <2>1
<1> QED BY <1>12, <1>14, <1>15 DEF C

\* The inner loop of compute_idoms: what is above all the predecessors that have a
\* dominator already.
AboveAll(idom, P) == {a \in DOMAIN idom : \A p \in P : a \in Above(idom, p)}
MetWith(idom, num, p, r) ==
    IF idom[p] = NONE THEN r ELSE IF r = NONE THEN p ELSE Intersect(p, r, idom, num)
MetSoFar(idom, K, r) ==
    \/ K = {} /\ r = NONE
    \/ K # {} /\ r \in KnownIn(idom) /\ Above(idom, r) = AboveAll(idom, K)

LEMMA MetWithFacts ==
  ASSUME NEW succ, NEW R, NEW num, NEW idom, Numbered(succ, R, num), TreeFits(succ, R, num, idom),
         NEW K, NEW r, MetSoFar(idom, K, r), NEW p \in DOMAIN idom
  PROVE  MetSoFar(idom, K \cup ({p} \cap KnownIn(idom)), MetWith(idom, num, p, r))
<1>0. NONE \notin KnownIn(idom)
  <2>1. NONE \notin DOMAIN succ /\ DOMAIN idom = DOMAIN succ
    <3>1. IsGraph(succ) BY DEF Numbered
    <3> QED BY <3>1, GraphFacts, KnownFacts
  <2> QED BY <2>1 DEF KnownIn
<1>1. CASE idom[p] = NONE
  <2>1. K \cup ({p} \cap KnownIn(idom)) = K BY <1>1 DEF KnownIn
  <2> QED BY <1>1, <2>1 DEF MetWith
<1>2. CASE idom[p] # NONE /\ r = NONE
  <2>1. p \in KnownIn(idom) BY <1>2 DEF KnownIn
  <2>2. K = {} BY <1>0, <1>2 DEF MetSoFar
  <2>3. K \cup ({p} \cap KnownIn(idom)) = {p} BY <2>1, <2>2
  <2>4. MetWith(idom, num, p, r) = p BY <1>2 DEF MetWith
  <2>5. Above(idom, p) = AboveAll(idom, {p})
    <3>1. Above(idom, p) \subseteq DOMAIN idom BY DEF Above
    <3> QED BY <3>1 DEF AboveAll
  <2> QED BY <2>1, <2>3, <2>4, <2>5 DEF MetSoFar
<1>3. CASE idom[p] # NONE /\ r # NONE
  <2>1. p \in KnownIn(idom) BY <1>3 DEF KnownIn
  <2>2. K # {} /\ r \in KnownIn(idom) /\ Above(idom, r) = AboveAll(idom, K) BY <1>3 DEF MetSoFar
  <2>3. K \cup ({p} \cap KnownIn(idom)) = K \cup {p} BY <2>1
  <2>4. MetWith(idom, num, p, r) = Intersect(p, r, idom, num) BY <1>3 DEF MetWith
  <2> DEFINE z == Intersect(p, r, idom, num)
  <2>5. z \in KnownIn(idom) /\ Above(idom, z) = Above(idom, p) \cap Above(idom, r)
    BY <2>1, <2>2, IntersectMeets
  <2>6. Above(idom, z) = AboveAll(idom, K \cup {p}) BY <2>2, <2>5 DEF AboveAll
  <2> QED BY <2>3, <2>4, <2>5, <2>6 DEF MetSoFar
<1> QED BY <1>1, <1>2, <1>3

MeetStates(idom, ps) == (1..(Len(ps) + 1)) \X (DOMAIN idom \cup {NONE})
LEMMA MeetEnds ==
  ASSUME NEW succ, NEW idom, NEW num, IsGraph(succ), idom \in Tree(succ),
         NEW ps \in Seq(DOMAIN succ), NEW I \in SUBSET MeetStates(idom, ps), <<1, NONE>> \in I,
         \A j \in 1..Len(ps) : \A r : <<j, r>> \in I => <<j + 1, MetWith(idom, num, ps[j], r)>> \in I
  PROVE  <<Len(ps) + 1, MeetPreds(ps, idom, num)>> \in I
<1> DEFINE N == Len(ps)
           Node == DOMAIN idom \cup {NONE}
           S == (1..(N + 1)) \X Node
           T == {s \in S : s[1] > N}
           out == [s \in S |-> s[2]]
           step == [s \in S |-> <<s[1] + 1, MetWith(idom, num, ps[s[1]], s[2])>>]
           Body(w, s) == IF s[1] > N THEN s[2]
                         ELSE w[<<s[1] + 1, MetWith(idom, num, ps[s[1]], s[2])>>]
           W == CHOOSE w : w = [s \in S |-> Body(w, s)]
           m == [s \in S |-> N + 1 - s[1]]
           s0 == <<1, NONE>>
<1>0. N \in Nat /\ DOMAIN ps = 1..N /\ (\A j \in 1..N : ps[j] \in DOMAIN idom)
      /\ DOMAIN idom = DOMAIN succ
  <2>1. DOMAIN idom = DOMAIN succ BY BudgetIsNat
  <2> QED BY <2>1, LenProperties
<1>1. MeetPreds(ps, idom, num) = W[s0] BY DEF MeetPreds, MetWith
<1>2. ASSUME NEW w, NEW s \in S PROVE Body(w, s) = IF s \in T THEN out[s] ELSE w[step[s]]
  OBVIOUS
<1>3. ASSUME NEW s \in S \ T
      PROVE  /\ step[s] \in S /\ step[s] = <<s[1] + 1, MetWith(idom, num, ps[s[1]], s[2])>>
             /\ s[1] \in 1..N /\ s[2] \in Node
  <2>1. s[1] \in 1..(N + 1) /\ s[2] \in Node /\ ~(s[1] > N) OBVIOUS
  <2> DEFINE j == s[1]  z == MetWith(idom, num, ps[s[1]], s[2])
  <2>2. j \in 1..N /\ j + 1 \in 1..(N + 1) BY <1>0, <2>1
  <2>3. z \in Node
    <3>1. ps[j] \in DOMAIN idom /\ ps[j] \in Node BY <1>0, <2>2
    <3>2. Intersect(ps[j], s[2], idom, num) \in Node BY <2>1, <3>1, IntersectStays
    <3> QED BY <2>1, <3>1, <3>2 DEF MetWith
  <2>4. step[s] = <<j + 1, z>> OBVIOUS
  <2>5. step[s] \in S
    <3> HIDE DEF step, z, Node, N
    <3> QED BY <2>2, <2>3, <2>4
  <2> QED BY <2>1, <2>2, <2>4, <2>5
<1> HIDE DEF Body, out, step
<1>4. \E w : LoopIs(w, S, T, out, step)
  <2>1. \A s \in S \ T : step[s] \in S BY <1>3
  <2> HIDE DEF T, S
  <2> QED BY ONLY <2>1, LoopExists
<1>5. \A w : [s \in S |-> Body(w, s)] = [s \in S |-> IF s \in T THEN out[s] ELSE w[step[s]]]
  <2> HIDE DEF T, S
  <2> QED BY ONLY <1>2
<1>6. LoopIs(W, S, T, out, step)
  <2>1. \E w : w = [s \in S |-> Body(w, s)] BY <1>4, <1>5 DEF LoopIs
  <2>2. W = [s \in S |-> Body(W, s)] BY <2>1
  <2> HIDE DEF W
  <2> QED BY <1>5, <2>2 DEF LoopIs
<1> HIDE DEF W
<1>a. I \in SUBSET S BY DEF MeetStates
<1>7. ASSUME NEW s \in I PROVE m[s] \in Nat
  <2>1. s \in S BY <1>a
  <2>2. s[1] \in 1..(N + 1) BY <2>1
  <2> QED BY <1>0, <2>1, <2>2
<1>8. ASSUME NEW s \in I \ T PROVE step[s] \in I /\ m[step[s]] < m[s]
  <2> DEFINE j == s[1]  z == MetWith(idom, num, ps[s[1]], s[2])  t == step[s]
  <2>1. s \in S \ T /\ s \in S /\ s = <<j, s[2]>> BY <1>a
  <2>2. t \in S /\ t = <<j + 1, z>> /\ j \in 1..N BY <1>3, <2>1
  <2>3. t[1] = j + 1 /\ t[2] = z BY <2>2
  <2>4. t \in I
    <3>1. <<j, s[2]>> \in I BY <2>1
    <3> QED BY <2>2, <3>1
  <2> HIDE DEF t, z, j
  <2>8. m[t] = N + 1 - (j + 1) /\ m[s] = N + 1 - j BY <2>1, <2>2, <2>3 DEF j
  <2>9. N \in Int /\ j \in Int BY <1>0, <2>2
  <2> HIDE DEF m, N
  <2>10. m[t] < m[s] BY <2>8, <2>9
  <2> QED BY <2>4, <2>10 DEF t
<1>9. s0 \in I OBVIOUS
<1> HIDE DEF m, s0
<1>11. \E e \in I \cap T : W[s0] = out[e]
  <2> HIDE DEF T, S
  <2> QED BY ONLY <1>6, <1>7, <1>8, <1>9, <1>a, LoopEnds
<1>12. PICK e \in I \cap T : W[s0] = out[e] BY <1>11
<1>13. e \in I /\ e = <<e[1], e[2]>> /\ e[1] \in 1..(N + 1) /\ e[1] > N /\ out[e] = e[2]
  <2>1. e \in S BY <1>a, <1>12
  <2> QED BY <1>12, <2>1 DEF out
<1>14. e[1] = N + 1 BY <1>0, <1>13
<1> QED BY <1>1, <1>12, <1>13, <1>14

LEMMA MeetStays ==
  ASSUME NEW succ, NEW idom, NEW num, IsGraph(succ), idom \in Tree(succ),
         NEW ps \in Seq(DOMAIN succ)
  PROVE  MeetPreds(ps, idom, num) \in DOMAIN idom \cup {NONE}
<1> DEFINE I == MeetStates(idom, ps)
<1>0. Len(ps) \in Nat /\ \A j \in 1..Len(ps) : ps[j] \in DOMAIN idom
  <2>1. DOMAIN idom = DOMAIN succ BY BudgetIsNat
  <2> QED BY <2>1, LenProperties, ElementOfSeq
<1>1. <<1, NONE>> \in I
  <2>1. 1 \in 1..(Len(ps) + 1) BY <1>0
  <2> QED BY <2>1 DEF MeetStates
<1>2. ASSUME NEW j \in 1..Len(ps), NEW r, <<j, r>> \in I
      PROVE  <<j + 1, MetWith(idom, num, ps[j], r)>> \in I
  <2>1. r \in DOMAIN idom \cup {NONE} BY <1>2 DEF MeetStates
  <2>2. ps[j] \in DOMAIN idom BY <1>0
  <2>3. MetWith(idom, num, ps[j], r) \in DOMAIN idom \cup {NONE} BY <2>1, <2>2, IntersectStays DEF MetWith
  <2>4. j + 1 \in 1..(Len(ps) + 1) BY <1>0
  <2> QED BY <2>3, <2>4 DEF MeetStates
<1>3. I \in SUBSET MeetStates(idom, ps) OBVIOUS
<1> HIDE DEF I
<1>4. <<Len(ps) + 1, MeetPreds(ps, idom, num)>> \in I BY <1>1, <1>2, <1>3, MeetEnds
<1> QED BY <1>4 DEF I, MeetStates

LEMMA MeetIsAboveAll ==
  ASSUME NEW succ, NEW R, NEW num, NEW idom, Numbered(succ, R, num), TreeFits(succ, R, num, idom),
         NEW ps \in Seq(DOMAIN succ)
  PROVE  MetSoFar(idom, Range(ps) \cap KnownIn(idom), MeetPreds(ps, idom, num))
<1> DEFINE K(j) == {ps[l] : l \in 1..(j - 1)} \cap KnownIn(idom)
           I == {s \in MeetStates(idom, ps) : MetSoFar(idom, K(s[1]), s[2])}
<1>0. /\ IsGraph(succ) /\ idom \in Tree(succ) /\ Len(ps) \in Nat /\ DOMAIN ps = 1..Len(ps)
      /\ \A j \in 1..Len(ps) : ps[j] \in DOMAIN idom
  <2>1. DOMAIN idom = DOMAIN succ BY KnownFacts
  <2> QED BY <2>1, GraphOfTree, LenProperties, ElementOfSeq
<1>1. <<1, NONE>> \in I
  <2>1. 1 \in 1..(Len(ps) + 1) BY <1>0
  <2>2. K(1) = {} OBVIOUS
  <2>3. <<1, NONE>> \in MeetStates(idom, ps) BY <2>1 DEF MeetStates
  <2>4. MetSoFar(idom, K(1), NONE) BY <2>2 DEF MetSoFar
  <2> HIDE DEF K
  <2> QED BY <2>3, <2>4
<1>2. ASSUME NEW j \in 1..Len(ps), NEW r, <<j, r>> \in I
      PROVE  <<j + 1, MetWith(idom, num, ps[j], r)>> \in I
  <2> DEFINE z == MetWith(idom, num, ps[j], r)
  <2>1. <<j, r>> \in MeetStates(idom, ps) /\ MetSoFar(idom, K(j), r) BY <1>2
  <2>2. r \in DOMAIN idom \cup {NONE} BY <2>1 DEF MeetStates
  <2>3. ps[j] \in DOMAIN idom BY <1>0
  <2>4. z \in DOMAIN idom \cup {NONE} BY <1>0, <2>2, <2>3, IntersectStays DEF MetWith
  <2>5. j + 1 \in 1..(Len(ps) + 1) BY <1>0
  <2> HIDE DEF z
  <2>6. <<j + 1, z>> \in MeetStates(idom, ps) BY <2>4, <2>5 DEF MeetStates
  <2>7. K(j + 1) = K(j) \cup ({ps[j]} \cap KnownIn(idom))
    <3>1. 1..((j + 1) - 1) = 1..(j - 1) \cup {j} OBVIOUS
    <3> QED BY <3>1
  <2>8. MetSoFar(idom, K(j + 1), z)
    <3> HIDE DEF K
    <3> QED BY <2>1, <2>3, <2>7, MetWithFacts DEF z
  <2> HIDE DEF K
  <2>9. <<j + 1, z>> \in I BY <2>6, <2>8
  <2> QED BY <2>9 DEF z
<1>3. I \in SUBSET MeetStates(idom, ps) OBVIOUS
<1> HIDE DEF I, K
<1>4. <<Len(ps) + 1, MeetPreds(ps, idom, num)>> \in I BY <1>0, <1>1, <1>2, <1>3, MeetEnds
<1>5. MetSoFar(idom, K(Len(ps) + 1), MeetPreds(ps, idom, num)) BY <1>4 DEF I
<1>15. K(Len(ps) + 1) = Range(ps) \cap KnownIn(idom)
  <2>1. 1..((Len(ps) + 1) - 1) = DOMAIN ps BY <1>0
  <2> QED BY <2>1 DEF Range, K
<1> QED BY <1>5, <1>15

------------------------------------------------------------------------------
(***************************************************************************)
(* One assignment of the sweep: b gets r, which is above b if b had one.   *)
(***************************************************************************)
MayGet(R, num, idom, b, r) ==
    /\ b \in R \ {Entry} /\ r \in KnownIn(idom) /\ num[b] < num[r]
    /\ b \in KnownIn(idom) => r \in Above(idom, b)

Becomes(idom, b, r, next) == next = [idom EXCEPT ![b] = r]

LEMMA UpdateFits ==
  ASSUME NEW succ, NEW R, NEW num, NEW idom, Numbered(succ, R, num), TreeFits(succ, R, num, idom),
         NEW b, NEW r, MayGet(R, num, idom, b, r), NEW next, Becomes(idom, b, r, next)
  PROVE  /\ TreeFits(succ, R, num, next) /\ KnownIn(next) = KnownIn(idom) \cup {b}
         /\ next[b] = r /\ \A z \in DOMAIN idom : z # b => next[z] = idom[z]
<1>1. b \in DOMAIN idom /\ b \in DOMAIN succ /\ b # Entry /\ b \in R /\ r \in KnownIn(idom) /\ num[b] < num[r]
  BY KnownFacts DEF MayGet
<1>2. DOMAIN next = DOMAIN idom /\ next[b] = r /\ \A z \in DOMAIN idom : z # b => next[z] = idom[z]
  BY <1>1 DEF Becomes
<1>3. DOMAIN idom = DOMAIN succ /\ r # NONE /\ r \in DOMAIN succ
  <2>1. DOMAIN idom = DOMAIN succ BY KnownFacts
  <2>2. r \in DOMAIN succ BY <1>1, KnownFacts
  <2>3. NONE \notin DOMAIN succ
    <3>1. IsGraph(succ) BY GraphOfTree
    <3> QED BY <3>1, GraphFacts
  <2> QED BY <2>1, <2>2, <2>3
<1>4. KnownIn(next) = KnownIn(idom) \cup {b} BY <1>1, <1>2, <1>3 DEF KnownIn
<1>5. next \in Tree(succ)
  <2>1. idom \in [DOMAIN succ -> DOMAIN succ \cup {NONE}] BY DEF TreeFits, Tree
  <2> QED BY <1>1, <1>3, <2>1 DEF Tree, Becomes
<1>6. next[Entry] = Entry BY <1>1, <1>2, <1>3, KnownFacts
<1>7. \A x \in DOMAIN succ : x \notin R => next[x] = NONE BY <1>1, <1>2, <1>3 DEF TreeFits
<1>8. ASSUME NEW x \in KnownIn(next), x # Entry
      PROVE  next[x] \in KnownIn(next) /\ num[x] < num[next[x]]
  <2>1. CASE x = b BY <1>1, <1>2, <1>4, <2>1
  <2>2. CASE x # b
    <3>1. x \in KnownIn(idom) /\ x \in DOMAIN idom BY <1>4, <2>2 DEF KnownIn
    <3>2. next[x] = idom[x] BY <1>2, <2>2, <3>1
    <3> QED BY <1>4, <1>8, <3>1, <3>2, KnownFacts
  <2> QED BY <2>1, <2>2
<1>9. TreeFits(succ, R, num, next) BY <1>5, <1>6, <1>7, <1>8 DEF TreeFits
<1> QED BY <1>2, <1>4, <1>9

LEMMA UpdateFacts ==
  ASSUME NEW succ, NEW R, NEW num, NEW idom, Numbered(succ, R, num), TreeFits(succ, R, num, idom),
         NEW b, NEW r, MayGet(R, num, idom, b, r), NEW next, Becomes(idom, b, r, next)
  PROVE  /\ \A x \in KnownIn(idom) : Above(next, x) \subseteq Above(idom, x)
         /\ \A x \in KnownIn(idom) : b \notin Above(idom, x) => Above(next, x) = Above(idom, x)
         /\ \A x \in KnownIn(idom) : \A y \in Above(idom, x) :
               b \in Above(idom, y) => y \in Above(next, x)
         /\ Above(next, b) = {b} \cup Above(idom, r)
<1> DEFINE A == KnownIn(idom)  B == KnownIn(next)
<1>1. /\ TreeFits(succ, R, num, next) /\ B = A \cup {b}
      /\ next[b] = r /\ \A z \in DOMAIN idom : z # b => next[z] = idom[z]
  BY UpdateFits
<1>2. b \in R /\ b # Entry /\ r \in A /\ num[b] < num[r] /\ (b \in A => r \in Above(idom, b))
      /\ b \in DOMAIN idom
  BY KnownFacts DEF MayGet
<1>3. DOMAIN next = DOMAIN idom /\ A \subseteq DOMAIN idom BY DEF KnownIn, Becomes
<1>n. ASSUME NEW z \in B, z # Entry
      PROVE  next[z] \in B /\ Above(next, z) = {z} \cup Above(next, next[z])
             /\ next[z] \in Above(next, z)
  <2>1. TreeFits(succ, R, num, next) BY <1>1
  <2>2. next[z] \in B BY <1>n, <2>1, KnownFacts
  <2>3. Above(next, z) = {z} \cup Above(next, next[z]) BY <1>n, <2>1, AboveFacts
  <2>4. next[z] \in Above(next, next[z]) BY <2>1, <2>2, AboveFacts
  <2> QED BY <2>2, <2>3, <2>4
<1>m. \A x \in DOMAIN next : \A y \in Above(next, x) : Above(next, y) \subseteq Above(next, x)
  <2>1. TreeFits(succ, R, num, next) BY <1>1
  <2> QED BY <2>1, AboveFacts
<1>4. ASSUME NEW x \in A PROVE Above(next, x) \subseteq Above(idom, x)
  <2>1. Above(idom, x) \in SUBSET DOMAIN idom /\ x \in Above(idom, x)
    <3>1. Above(idom, x) \subseteq DOMAIN idom BY DEF Above
    <3> QED BY <3>1, AboveFacts
  <2>2. ASSUME NEW z \in Above(idom, x) PROVE next[z] \in Above(idom, x)
    <3>1. z \in A /\ Above(idom, z) \subseteq Above(idom, x) BY <1>3, AboveFacts
    <3>2. CASE z = b
      <4>1. r \in Above(idom, b) BY <1>2, <3>1, <3>2
      <4> QED BY <1>1, <3>1, <3>2, <4>1
    <3>3. CASE z # b
      <4>1. next[z] = idom[z] BY <1>1, <1>3, <3>1, <3>3
      <4>2. CASE z = Entry BY <3>1, <4>1, <4>2, KnownFacts
      <4>3. CASE z # Entry
        <5>1. idom[z] \in A /\ Above(idom, z) = {z} \cup Above(idom, idom[z])
          BY <3>1, <4>3, KnownFacts, AboveFacts
        <5>2. idom[z] \in Above(idom, idom[z]) BY <5>1, AboveFacts
        <5> QED BY <3>1, <4>1, <5>1, <5>2
      <4> QED BY <4>2, <4>3
    <3> QED BY <3>2, <3>3
  <2>3. UpClosed(next, Above(idom, x)) BY <2>2 DEF UpClosed
  <2>4. \A a \in Above(next, x) : a \in Above(idom, x)
    <3> SUFFICES ASSUME NEW a \in Above(next, x) PROVE a \in Above(idom, x) OBVIOUS
    <3>1. \A X \in SUBSET DOMAIN next : x \in X /\ UpClosed(next, X) => a \in X BY DEF Above
    <3>2. Above(idom, x) \in SUBSET DOMAIN next BY <1>3, <2>1
    <3> QED BY <2>1, <2>3, <3>1, <3>2
  <2> QED BY <2>4
<1>5. ASSUME NEW x \in A, b \notin Above(idom, x) PROVE Above(next, x) = Above(idom, x)
  <2>1. Above(next, x) \subseteq Above(idom, x) BY <1>4
  <2>2. x \in Above(next, x) /\ Above(next, x) \in SUBSET DOMAIN idom
    <3>1. Above(next, x) \subseteq DOMAIN next BY DEF Above
    <3>2. x \in DOMAIN next BY <1>3
    <3>3. x \in Above(next, x) BY <3>2 DEF Above
    <3> QED BY <1>3, <3>1, <3>3
  <2>3. ASSUME NEW z \in Above(next, x), idom[z] # NONE PROVE idom[z] \in Above(next, x)
    <3>1. z # b /\ z \in DOMAIN next BY <1>3, <1>5, <2>1, <2>2
    <3>2. next[z] = idom[z] BY <1>1, <1>3, <3>1
    <3>3. z \in B BY <1>3, <2>3, <3>1, <3>2 DEF KnownIn
    <3>4. CASE z = Entry BY <3>4, KnownFacts
    <3>5. CASE z # Entry
      <4>1. next[z] \in Above(next, z) BY <1>n, <3>3, <3>5
      <4>2. Above(next, z) \subseteq Above(next, x) BY <1>m, <1>3
      <4> QED BY <3>2, <4>1, <4>2
    <3> QED BY <3>4, <3>5
  <2>4. UpClosed(idom, Above(next, x)) BY <2>3 DEF UpClosed
  <2>5. \A a \in Above(idom, x) : a \in Above(next, x)
    <3> SUFFICES ASSUME NEW a \in Above(idom, x) PROVE a \in Above(next, x) OBVIOUS
    <3>1. \A X \in SUBSET DOMAIN idom : x \in X /\ UpClosed(idom, X) => a \in X BY DEF Above
    <3> QED BY <2>2, <2>4, <3>1
  <2> QED BY <2>1, <2>5
<1>6. ASSUME NEW x \in A, NEW y \in Above(idom, x), b \in Above(idom, y) PROVE y \in Above(next, x)
  <2> DEFINE X == {z \in A : z \in Above(next, x) \/ b \notin Above(idom, z)}
  <2>1. x \in X /\ X \in SUBSET DOMAIN idom
    <3>1. x \in DOMAIN next BY <1>3
    <3>2. x \in Above(next, x) BY <3>1 DEF Above
    <3> QED BY <1>3, <3>2
  <2>2. ASSUME NEW z \in X PROVE idom[z] \in X
    <3>1. CASE z = Entry BY <3>1, KnownFacts
    <3>2. CASE z # Entry
      <4>1. idom[z] \in A /\ Above(idom, z) = {z} \cup Above(idom, idom[z]) /\ num[z] < num[idom[z]]
        BY <3>2, KnownFacts, AboveFacts
      <4>2. CASE b \notin Above(idom, z) BY <4>1, <4>2
      <4>3. CASE z = b
        <5>1. b \notin Above(idom, idom[z])
          <6>1. SUFFICES ASSUME b \in Above(idom, idom[z]) PROVE FALSE OBVIOUS
          <6>2. b = idom[z] \/ num[idom[z]] < num[b] BY <4>1, <6>1, AboveFacts
          <6>3. num[b] \in Nat /\ num[idom[z]] \in Nat BY <1>2, <4>1, KnownFacts
          <6> QED BY <4>1, <4>3, <6>2, <6>3
        <5> QED BY <4>1, <5>1
      <4>4. CASE z \in Above(next, x) /\ z # b
        <5>1. next[z] = idom[z] /\ z \in B BY <1>1, <1>3, <4>4
        <5>2. next[z] \in Above(next, z) BY <1>n, <3>2, <5>1
        <5>3. Above(next, z) \subseteq Above(next, x) BY <1>m, <1>3, <4>4
        <5> QED BY <4>1, <5>1, <5>2, <5>3
      <4> QED BY <4>2, <4>3, <4>4
    <3> QED BY <3>1, <3>2
  <2>3. UpClosed(idom, X) BY <2>2 DEF UpClosed
  <2>4. y \in X
    <3> HIDE DEF X
    <3> QED BY <2>1, <2>3 DEF Above
  <2> QED BY <1>6, <2>4
<1>7. Above(next, b) = {b} \cup Above(idom, r)
  <2>1. b \notin Above(idom, r)
    <3>1. SUFFICES ASSUME b \in Above(idom, r) PROVE FALSE OBVIOUS
    <3>2. b = r \/ num[r] < num[b] BY <1>2, <3>1, AboveFacts
    <3>3. num[b] \in Nat /\ num[r] \in Nat BY <1>2, KnownFacts
    <3> QED BY <1>2, <3>2, <3>3
  <2>2. Above(next, r) = Above(idom, r) BY <1>2, <1>5, <2>1
  <2>3. b \in B BY <1>1
  <2>4. Above(next, b) = {b} \cup Above(next, next[b]) BY <1>n, <1>2, <2>3
  <2> QED BY <1>1, <2>2, <2>4
<1> QED BY <1>4, <1>5, <1>6, <1>7

------------------------------------------------------------------------------
(***************************************************************************)
(* What a pass keeps, when the blocks numbered above n have been visited:  *)
(* what is known is on a path that supports it (Stands), what is above all *)
(* known predecessors is above the block (Leads), and nothing that         *)
(* dominates has been lost (Keeps).                                        *)
(***************************************************************************)
DomsOf(succ, x) == {a \in DOMAIN succ : PathDominates(succ, a, x)}
KnownPreds(succ, idom, x) == {p \in KnownIn(idom) : x \in Range(succ[p])}

Supports(succ, num, idom, x, q) ==
    q \in KnownPreds(succ, idom, x) /\ num[x] < num[q] /\ idom[x] \in Above(idom, q)
Stands(succ, num, idom, n) ==
    \A x \in KnownIn(idom) \ {Entry} :
        num[x] > n \/ num[idom[x]] <= n => \E q \in KnownIn(idom) : Supports(succ, num, idom, x, q)
Leads(succ, idom) ==
    \A x \in KnownIn(idom) \ {Entry} : AboveAll(idom, KnownPreds(succ, idom, x)) \subseteq Above(idom, idom[x])
Keeps(succ, idom) == \A x \in KnownIn(idom) : DomsOf(succ, x) \subseteq Above(idom, x)
Visited(R, num, idom, n) == \A x \in R : num[x] > n => x \in KnownIn(idom)

SweepFits(succ, R, num, idom, n) ==
    /\ TreeFits(succ, R, num, idom)
    /\ Stands(succ, num, idom, n) /\ Leads(succ, idom) /\ Keeps(succ, idom)

LEMMA DomsFacts ==
  ASSUME NEW succ, IsGraph(succ)
  PROVE  /\ DomsOf(succ, Entry) = {Entry}
         /\ \A p \in DOMAIN succ : \A x \in Range(succ[p]) : \A a \in DomsOf(succ, x) :
               a = x \/ a \in DomsOf(succ, p)
<1>1. Entry \in DomsOf(succ, Entry)
  <2>1. ClosedWithout(succ, {Entry}, {}) BY DEF ClosedWithout
  <2>2. ReachAvoiding(succ, {Entry}) \subseteq {} BY <2>1, AvoidingFacts
  <2>3. Entry \in DOMAIN succ BY GraphFacts
  <2> QED BY <2>2, <2>3 DEF DomsOf, PathDominates
<1>2. ASSUME NEW a \in DomsOf(succ, Entry) PROVE a = Entry
  <2>1. ClosedWithout(succ, {a}, ReachAvoiding(succ, {a})) BY AvoidingFacts
  <2> QED BY <2>1 DEF ClosedWithout, DomsOf, PathDominates
<1>3. ASSUME NEW p \in DOMAIN succ, NEW x \in Range(succ[p]), NEW a \in DomsOf(succ, x), a # x
      PROVE  a \in DomsOf(succ, p)
  <2>1. ClosedWithout(succ, {a}, ReachAvoiding(succ, {a})) BY AvoidingFacts
  <2>2. x \notin ReachAvoiding(succ, {a}) /\ a \in DOMAIN succ BY DEF DomsOf, PathDominates
  <2>3. p \notin ReachAvoiding(succ, {a}) BY <1>3, <2>1, <2>2 DEF ClosedWithout
  <2> QED BY <2>2, <2>3 DEF DomsOf, PathDominates
<1> QED BY <1>1, <1>2, <1>3

\* A dominator of x that is above b on the way up from x dominates b.
LEMMA DomsAbove ==
  ASSUME NEW succ, NEW R, NEW num, NEW idom, Numbered(succ, R, num), NEW b \in R \ {Entry},
         SweepFits(succ, R, num, idom, num[b]),
         NEW x \in KnownIn(idom), b \in Above(idom, x), NEW a \in DomsOf(succ, x),
         a \in R, num[a] > num[b]
  PROVE  a \in DomsOf(succ, b)
<1> DEFINE A == KnownIn(idom)
           B == {y \in A : b \in Above(idom, y) /\ a \in DomsOf(succ, y)}
           L == num[Entry]
           M == {e \in Nat : \E y \in B : e = L - num[y]}
<1>0. TreeFits(succ, R, num, idom) BY DEF SweepFits
<1>1. L \in Nat /\ A \subseteq R /\ \A y \in R : num[y] \in Nat /\ num[y] <= L
  <2>1. L \in Nat /\ A \in SUBSET R /\ \A y \in R : num[y] \in Nat /\ num[y] <= L BY <1>0, KnownFacts
  <2> QED BY <2>1
<1> HIDE DEF L, A
<1>2. M # {}
  <2>1. x \in B /\ x \in R BY <1>1 DEF A
  <2>2. L - num[x] \in Nat BY <1>1, <2>1
  <2> QED BY <2>1, <2>2
<1>3. PICK e \in M : \A d \in M : e <= d
  <2>1. M \in SUBSET Nat OBVIOUS
  <2> HIDE DEF M
  <2> QED BY <1>2, <2>1, LeastNumber
<1>4. PICK y \in B : e = L - num[y] BY <1>3
<1>5. y \in A /\ y \in R /\ b \in Above(idom, y) /\ a \in DomsOf(succ, y) BY <1>1, <1>4
<1>6. ASSUME y # b PROVE FALSE
  <2>1. y # Entry
    <3>1. Above(idom, Entry) = {Entry} BY <1>0, AboveFacts
    <3> QED BY <1>5, <3>1
  <2>2. num[y] < num[b] BY <1>0, <1>5, <1>6, AboveFacts DEF A
  <2>3. idom[y] \in A /\ Above(idom, y) = {y} \cup Above(idom, idom[y])
    <3>1. idom[y] \in A BY <1>0, <1>5, <2>1, KnownFacts DEF A
    <3>2. Above(idom, y) = {y} \cup Above(idom, idom[y]) BY <1>0, <1>5, <2>1, AboveFacts DEF A
    <3> QED BY <3>1, <3>2
  <2>4. b \in Above(idom, idom[y]) BY <1>5, <1>6, <2>3
  <2>5. num[idom[y]] <= num[b]
    <3>1. b = idom[y] \/ num[idom[y]] < num[b] BY <1>0, <2>3, <2>4, AboveFacts DEF A
    <3>2. num[idom[y]] \in Nat /\ num[b] \in Nat BY <1>1, <2>3
    <3> QED BY <3>1, <3>2
  <2>6. PICK q \in A : Supports(succ, num, idom, y, q)
    <3>1. Stands(succ, num, idom, num[b]) BY DEF SweepFits
    <3> QED BY <1>5, <2>1, <2>5, <3>1 DEF Stands, A
  <2>7. q \in R /\ y \in Range(succ[q]) /\ num[y] < num[q] /\ idom[y] \in Above(idom, q)
    BY <1>1, <2>6 DEF Supports, KnownPreds
  <2>8. b \in Above(idom, q)
    <3>1. q \in DOMAIN idom BY DEF A, KnownIn
    <3>2. Above(idom, idom[y]) \subseteq Above(idom, q) BY <1>0, <2>7, <3>1, AboveFacts
    <3> QED BY <2>4, <3>2
  <2>9. a \in DomsOf(succ, q)
    <3>1. a # y
      <4>1. num[a] \in Nat /\ num[b] \in Nat /\ num[y] \in Nat BY <1>1, <1>5
      <4> QED BY <2>2, <4>1
    <3>2. q \in DOMAIN succ /\ IsGraph(succ) BY <2>7 DEF Numbered
    <3> QED BY <1>5, <2>7, <3>1, <3>2, DomsFacts
  <2>10. q \in B BY <2>8, <2>9
  <2>11. L - num[q] \in Nat /\ L - num[q] < e
    <3>1. num[q] \in Nat /\ num[q] <= L /\ num[y] \in Nat BY <1>1, <1>5, <2>7
    <3> QED BY <1>1, <1>4, <2>7, <3>1
  <2>12. L - num[q] \in M BY <2>10, <2>11
  <2>13. e \in Nat BY <1>3
  <2> HIDE DEF M
  <2>14. e <= L - num[q] BY <1>3, <2>12
  <2> QED BY <2>11, <2>13, <2>14
<1> QED BY <1>5, <1>6

\* The visit of b keeps the pass going.
Visits(succ, R, num, idom, b, r, next) ==
    /\ b \in R \ {Entry} /\ SweepFits(succ, R, num, idom, num[b]) /\ Visited(R, num, idom, num[b])
    /\ MetSoFar(idom, KnownPreds(succ, idom, b), r)
    /\ Becomes(idom, b, r, next)

WellBelow(succ, num, idom, b, r) ==
    \E q \in KnownPreds(succ, idom, b) : num[b] < num[q] /\ r \in Above(idom, q)

LEMMA VisitMayGet ==
  ASSUME NEW succ, NEW R, NEW num, NEW idom, Numbered(succ, R, num),
         NEW b, NEW r, NEW next, Visits(succ, R, num, idom, b, r, next)
  PROVE  /\ MayGet(R, num, idom, b, r)
         /\ Above(idom, r) = AboveAll(idom, KnownPreds(succ, idom, b))
         /\ b \in KnownIn(idom) => r \in Above(idom, idom[b])
         /\ WellBelow(succ, num, idom, b, r)
<1> DEFINE K == KnownPreds(succ, idom, b)
<1>0. /\ b \in R \ {Entry} /\ TreeFits(succ, R, num, idom) /\ Leads(succ, idom)
      /\ Visited(R, num, idom, num[b]) /\ MetSoFar(idom, K, r)
  BY DEF Visits, SweepFits
<1>1. PICK q \in R : b \in Range(succ[q]) /\ num[b] < num[q] BY <1>0 DEF Numbered
<1>2. num[b] \in Nat /\ num[q] \in Nat BY <1>0, KnownFacts
<1>3. q \in KnownIn(idom) BY <1>0, <1>1, <1>2 DEF Visited
<1>4. q \in K BY <1>1, <1>3 DEF KnownPreds
<1>5. r \in KnownIn(idom) /\ Above(idom, r) = AboveAll(idom, K) BY <1>0, <1>4 DEF MetSoFar
<1>6. r \in Above(idom, r) BY <1>0, <1>5, AboveFacts
<1>7. r \in Above(idom, q) BY <1>4, <1>5, <1>6 DEF AboveAll
<1>8. num[b] < num[r]
  <2>1. r = q \/ num[q] < num[r] BY <1>0, <1>3, <1>7, AboveFacts
  <2>2. num[r] \in Nat BY <1>0, <1>5, KnownFacts
  <2> QED BY <1>1, <1>2, <2>1, <2>2
<1>9. ASSUME b \in KnownIn(idom) PROVE r \in Above(idom, idom[b]) /\ r \in Above(idom, b)
  <2>1. r \in Above(idom, idom[b]) BY <1>0, <1>5, <1>6, <1>9 DEF Leads
  <2>2. Above(idom, b) = {b} \cup Above(idom, idom[b]) BY <1>0, <1>9, AboveFacts
  <2> QED BY <2>1, <2>2
<1> QED BY <1>0, <1>1, <1>4, <1>5, <1>7, <1>8, <1>9 DEF MayGet, WellBelow

LEMMA VisitStands ==
  ASSUME NEW succ, NEW R, NEW num, NEW idom, Numbered(succ, R, num),
         NEW b, NEW r, NEW next, Visits(succ, R, num, idom, b, r, next)
  PROVE  Stands(succ, num, next, num[b] - 1)
<1> DEFINE A == KnownIn(idom)  n == num[b]
<1>0. /\ b \in R \ {Entry} /\ TreeFits(succ, R, num, idom) /\ Stands(succ, num, idom, n)
      /\ Becomes(idom, b, r, next) /\ MayGet(R, num, idom, b, r)
  BY VisitMayGet DEF Visits, SweepFits
<1>1. /\ KnownIn(next) = A \cup {b} /\ next[b] = r
      /\ \A z \in DOMAIN idom : z # b => next[z] = idom[z]
  BY <1>0, UpdateFits
<1>2. /\ A \in SUBSET R /\ \A x \in R : num[x] \in Nat
      /\ \A x \in A : x # Entry => idom[x] \in A
  BY <1>0, KnownFacts
<1>3. A \subseteq DOMAIN idom BY DEF KnownIn
<1>4. ASSUME NEW q \in A, num[b] < num[q] PROVE b \notin Above(idom, q) /\ Above(next, q) = Above(idom, q)
  <2>1. SUFFICES ASSUME b \in Above(idom, q) PROVE FALSE BY <1>0, UpdateFacts
  <2>2. b = q \/ num[q] < num[b] BY <1>0, <2>1, AboveFacts
  <2>3. num[b] \in Nat /\ num[q] \in Nat BY <1>0, <1>2
  <2> QED BY <1>4, <2>2, <2>3
<1> HIDE DEF A, n
<1>5. SUFFICES ASSUME NEW x \in KnownIn(next) \ {Entry}, num[x] > n - 1 \/ num[next[x]] <= n - 1
               PROVE  \E q \in KnownIn(next) : Supports(succ, num, next, x, q)
  BY DEF Stands, n
<1>6. CASE x = b
  <2>0. \E q \in KnownPreds(succ, idom, b) : num[b] < num[q] /\ r \in Above(idom, q)
    <3>1. WellBelow(succ, num, idom, b, r) BY VisitMayGet
    <3> QED BY <3>1 DEF WellBelow
  <2>1. PICK q \in KnownPreds(succ, idom, b) : num[b] < num[q] /\ r \in Above(idom, q) BY <2>0
  <2>2. q \in A /\ b \in Range(succ[q]) BY DEF KnownPreds, A
  <2>3. r \in Above(next, q) BY <1>4, <2>1, <2>2
  <2>4. q \in KnownPreds(succ, next, b) BY <1>1, <2>2 DEF KnownPreds
  <2>5. Supports(succ, num, next, b, q) BY <1>1, <2>1, <2>3, <2>4 DEF Supports
  <2> QED BY <1>1, <1>6, <2>2, <2>5
<1>7. CASE x # b
  <2>1. x \in A /\ x \in R /\ x # Entry /\ idom[x] \in A /\ idom[x] \in R /\ next[x] = idom[x]
    BY <1>1, <1>2, <1>3, <1>7
  <2>2. n \in Nat /\ num[x] \in Nat /\ num[idom[x]] \in Nat BY <1>0, <1>2, <2>1 DEF n
  <2>3. num[x] # n BY <1>0, <1>7, <2>1 DEF n, Numbered
  <2>4. num[x] > n \/ num[idom[x]] <= n BY <1>5, <2>1, <2>2, <2>3
  <2>5. PICK q \in A : Supports(succ, num, idom, x, q) BY <1>0, <2>1, <2>4 DEF Stands, A
  <2>6. x \in Range(succ[q]) /\ num[x] < num[q] /\ idom[x] \in Above(idom, q) /\ num[q] \in Nat
    BY <1>2, <2>5 DEF Supports, KnownPreds
  <2>7. idom[x] \in Above(next, q)
    <3>1. CASE num[b] < num[q] BY <1>4, <2>6, <3>1
    <3>2. CASE b \notin Above(idom, q) BY <1>0, <2>6, <3>2, UpdateFacts DEF A
    <3>3. CASE b \in Above(idom, q) /\ ~(num[b] < num[q])
      <4>1. num[idom[x]] < num[b] BY <1>5, <2>1, <2>2, <2>6, <3>3 DEF n
      <4>2. b \in Above(idom, idom[x]) BY <1>0, <2>6, <3>3, <4>1, AboveInLine DEF A
      <4> QED BY <1>0, <2>6, <4>2, UpdateFacts DEF A
    <3> QED BY <3>1, <3>2, <3>3
  <2>8. q \in KnownPreds(succ, next, x) BY <1>1, <2>6 DEF KnownPreds
  <2>9. Supports(succ, num, next, x, q) BY <2>1, <2>6, <2>7, <2>8 DEF Supports
  <2> QED BY <1>1, <2>9
<1> QED BY <1>6, <1>7

LEMMA VisitLeads ==
  ASSUME NEW succ, NEW R, NEW num, NEW idom, Numbered(succ, R, num),
         NEW b, NEW r, NEW next, Visits(succ, R, num, idom, b, r, next)
  PROVE  Leads(succ, next)
<1> DEFINE A == KnownIn(idom)
<1>0. /\ b \in R \ {Entry} /\ TreeFits(succ, R, num, idom) /\ Stands(succ, num, idom, num[b])
      /\ Leads(succ, idom) /\ Becomes(idom, b, r, next) /\ MayGet(R, num, idom, b, r)
      /\ Above(idom, r) = AboveAll(idom, KnownPreds(succ, idom, b))
  BY VisitMayGet DEF Visits, SweepFits
<1>1. /\ KnownIn(next) = A \cup {b} /\ next[b] = r /\ TreeFits(succ, R, num, next)
      /\ \A z \in DOMAIN idom : z # b => next[z] = idom[z]
  BY <1>0, UpdateFits
<1>2. /\ A \in SUBSET R /\ \A x \in R : num[x] \in Nat
      /\ \A x \in A : x # Entry => idom[x] \in A
  BY <1>0, KnownFacts
<1>3. A \subseteq DOMAIN idom BY DEF KnownIn
<1>4. DOMAIN next = DOMAIN idom BY <1>0 DEF Becomes
<1>5. ASSUME NEW x PROVE AboveAll(next, KnownPreds(succ, next, x)) \subseteq AboveAll(idom, KnownPreds(succ, idom, x))
  <2>1. KnownPreds(succ, idom, x) \subseteq KnownPreds(succ, next, x) BY <1>1 DEF KnownPreds
  <2>2. \A p \in KnownPreds(succ, idom, x) : Above(next, p) \subseteq Above(idom, p)
    BY <1>0, UpdateFacts DEF KnownPreds
  <2> QED BY <1>4, <2>1, <2>2 DEF AboveAll
<1> HIDE DEF A
<1>6. SUFFICES ASSUME NEW x \in KnownIn(next) \ {Entry}, NEW y \in AboveAll(next, KnownPreds(succ, next, x))
               PROVE  y \in Above(next, next[x])
  BY DEF Leads
<1>7. y \in AboveAll(idom, KnownPreds(succ, idom, x)) BY <1>5
<1>8. CASE x = b
  <2>1. y \in Above(idom, r) BY <1>0, <1>7, <1>8
  <2>2. Above(next, b) = {b} \cup Above(idom, r) BY <1>0, UpdateFacts
  <2>3. b \in KnownIn(next) /\ b # Entry BY <1>0, <1>1
  <2>4. Above(next, b) = {b} \cup Above(next, r) BY <1>1, <2>3, AboveFacts
  <2>5. y # b
    <3>1. r \in A BY <1>0 DEF MayGet, A
    <3>2. y = r \/ num[r] < num[y] BY <1>0, <2>1, <3>1, AboveFacts DEF A
    <3>3. num[b] \in Nat /\ num[r] \in Nat /\ num[b] < num[r] BY <1>0, <1>2, <3>1 DEF MayGet
    <3> QED BY <3>2, <3>3
  <2> QED BY <1>1, <1>8, <2>1, <2>2, <2>4, <2>5
<1>9. CASE x # b
  <2>1. x \in A /\ x # Entry /\ idom[x] \in A /\ next[x] = idom[x] BY <1>1, <1>2, <1>3, <1>9
  <2>2. y \in Above(idom, idom[x]) BY <1>0, <1>7, <2>1 DEF Leads, A
  <2>3. CASE b \notin Above(idom, idom[x]) BY <1>0, <2>1, <2>2, <2>3, UpdateFacts DEF A
  <2>4. CASE b \in Above(idom, idom[x])
    <3>1. num[idom[x]] <= num[b]
      <4>1. b = idom[x] \/ num[idom[x]] < num[b] BY <1>0, <2>1, <2>4, AboveFacts DEF A
      <4>2. num[b] \in Nat /\ num[idom[x]] \in Nat BY <1>0, <1>2, <2>1
      <4> QED BY <4>1, <4>2
    <3>2. PICK q \in A : Supports(succ, num, idom, x, q) BY <1>0, <2>1, <3>1 DEF Stands, A
    <3>3. q \in KnownPreds(succ, idom, x) /\ idom[x] \in Above(idom, q) BY <3>2 DEF Supports
    <3>4. q \in KnownPreds(succ, next, x) /\ q \in KnownIn(next) BY <1>1, <3>3 DEF KnownPreds, A
    <3>5. y \in Above(next, q) BY <3>4 DEF AboveAll
    <3>6. idom[x] \in Above(next, q) BY <1>0, <2>4, <3>3, UpdateFacts DEF A
    <3>7. y = idom[x] \/ num[idom[x]] < num[y] BY <1>0, <2>1, <2>2, AboveFacts DEF A
    <3>8. y \in Above(next, idom[x]) BY <1>1, <3>4, <3>5, <3>6, <3>7, AboveInLine
    <3> QED BY <2>1, <3>8
  <2> QED BY <2>3, <2>4
<1> QED BY <1>8, <1>9

LEMMA VisitKeeps ==
  ASSUME NEW succ, NEW R, NEW num, NEW idom, Numbered(succ, R, num),
         NEW b, NEW r, NEW next, Visits(succ, R, num, idom, b, r, next)
  PROVE  Keeps(succ, next)
<1> DEFINE A == KnownIn(idom)
<1>0. /\ b \in R \ {Entry} /\ TreeFits(succ, R, num, idom) /\ Keeps(succ, idom)
      /\ Becomes(idom, b, r, next) /\ MayGet(R, num, idom, b, r)
      /\ Above(idom, r) = AboveAll(idom, KnownPreds(succ, idom, b))
      /\ SweepFits(succ, R, num, idom, num[b])
  BY VisitMayGet DEF Visits, SweepFits
<1>1. /\ KnownIn(next) = A \cup {b} /\ next[b] = r /\ TreeFits(succ, R, num, next)
  BY <1>0, UpdateFits
<1>2. /\ A \in SUBSET R /\ \A x \in R : num[x] \in Nat BY <1>0, KnownFacts
<1>3. A \subseteq DOMAIN idom BY DEF KnownIn
<1>4. DOMAIN idom = DOMAIN succ /\ IsGraph(succ) /\ DOMAIN next = DOMAIN idom
  <2>1. DOMAIN idom = DOMAIN succ BY <1>0, KnownFacts
  <2> QED BY <1>0, <2>1, GraphOfTree DEF Becomes
<1> HIDE DEF A
<1>5. ASSUME NEW a \in DomsOf(succ, b) PROVE a \in Above(next, b)
  <2>1. Above(next, b) = {b} \cup Above(idom, r) BY <1>0, UpdateFacts
  <2>2. CASE a = b BY <2>1, <2>2
  <2>3. CASE a # b
    <3>1. ASSUME NEW p \in KnownPreds(succ, idom, b) PROVE a \in Above(idom, p)
      <4>1. p \in A /\ b \in Range(succ[p]) BY DEF KnownPreds, A
      <4>2. p \in DOMAIN succ BY <1>3, <1>4, <4>1
      <4>3. a \in DomsOf(succ, p) BY <1>4, <2>3, <4>1, <4>2, DomsFacts
      <4> QED BY <1>0, <4>1, <4>3 DEF Keeps, A
    <3>2. a \in DOMAIN idom BY <1>4 DEF DomsOf
    <3>3. a \in AboveAll(idom, KnownPreds(succ, idom, b)) BY <3>1, <3>2 DEF AboveAll
    <3> QED BY <1>0, <2>1, <3>3
  <2> QED BY <2>2, <2>3
<1>6. SUFFICES ASSUME NEW x \in KnownIn(next), NEW a \in DomsOf(succ, x) PROVE a \in Above(next, x)
  BY DEF Keeps
<1>7. CASE x = b BY <1>5, <1>7
<1>8. CASE x # b
  <2>1. x \in A /\ x \in DOMAIN next BY <1>1, <1>3, <1>4, <1>8
  <2>2. a \in Above(idom, x) BY <1>0, <2>1 DEF Keeps, A
  <2>3. CASE b \notin Above(idom, x) BY <1>0, <2>1, <2>2, <2>3, UpdateFacts DEF A
  <2>4. CASE b \in Above(idom, x)
    <3>1. a \in A /\ b \in A BY <1>0, <2>1, <2>2, <2>4, AboveFacts DEF A
    <3>2. num[a] \in Nat /\ num[b] \in Nat /\ a \in R /\ b \in R BY <1>2, <3>1
    <3>3. CASE num[a] > num[b]
      <4>1. a \in DomsOf(succ, b) BY <1>0, <2>1, <2>4, <3>2, <3>3, DomsAbove DEF A
      <4>2. a \in Above(next, b) BY <1>5, <4>1
      <4>3. b \in Above(idom, b) BY <1>0, <3>1, AboveFacts DEF A
      <4>4. b \in Above(next, x) BY <1>0, <2>1, <2>4, <4>3, UpdateFacts DEF A
      <4>5. Above(next, b) \subseteq Above(next, x) BY <1>1, <2>1, <4>4, AboveFacts
      <4> QED BY <4>2, <4>5
    <3>4. CASE ~(num[a] > num[b])
      <4>1. b = a \/ num[a] < num[b] BY <3>2, <3>4 DEF Numbered
      <4>2. b \in Above(idom, a) BY <1>0, <2>1, <2>2, <2>4, <4>1, AboveInLine DEF A
      <4> QED BY <1>0, <2>1, <2>2, <4>2, UpdateFacts DEF A
    <3> QED BY <3>3, <3>4
  <2> QED BY <2>3, <2>4
<1> QED BY <1>7, <1>8

\* How much room the tree has left: every change of a pass takes some.
Loose(R, num, idom) ==
    {e \in R \X (1..num[Entry]) : idom[e[1]] = NONE \/ num[idom[e[1]]] < e[2]}
Tighter(R, num, next, idom) ==
    Loose(R, num, next) \subseteq Loose(R, num, idom) /\ Loose(R, num, next) # Loose(R, num, idom)

LEMMA VisitTightens ==
  ASSUME NEW succ, NEW R, NEW num, NEW idom, Numbered(succ, R, num),
         NEW b, NEW r, NEW next, Visits(succ, R, num, idom, b, r, next)
  PROVE  next = idom \/ Tighter(R, num, next, idom)
<1>0. /\ b \in R \ {Entry} /\ TreeFits(succ, R, num, idom) /\ Becomes(idom, b, r, next)
      /\ MayGet(R, num, idom, b, r) /\ (b \in KnownIn(idom) => r \in Above(idom, idom[b]))
  BY VisitMayGet DEF Visits, SweepFits
<1>1. /\ next[b] = r /\ DOMAIN next = DOMAIN idom
      /\ \A z \in DOMAIN idom : z # b => next[z] = idom[z]
  <2>1. DOMAIN next = DOMAIN idom BY <1>0 DEF Becomes
  <2> QED BY <1>0, <2>1, UpdateFits
<1>2. /\ b \in DOMAIN idom /\ R \subseteq DOMAIN idom /\ r \in R /\ num[r] \in Nat /\ num[r] >= 1
      /\ num[r] <= num[Entry] /\ num[Entry] \in Nat /\ r \in KnownIn(idom)
      /\ \A x \in KnownIn(idom) : x # Entry => idom[x] \in KnownIn(idom)
      /\ KnownIn(idom) \subseteq R /\ \A x \in R : num[x] \in Nat
  <2>1. r \in KnownIn(idom) BY <1>0 DEF MayGet
  <2> QED BY <1>0, <2>1, KnownFacts
<1>3. r \in DOMAIN idom /\ r # NONE /\ NONE \notin DOMAIN idom
  <2>1. IsGraph(succ) /\ DOMAIN idom = DOMAIN succ BY <1>0, GraphOfTree, KnownFacts
  <2>2. r \in DOMAIN idom BY <1>2 DEF KnownIn
  <2> QED BY <2>1, <2>2, GraphFacts
<1>4. CASE next = idom BY <1>4
<1>5. CASE next # idom
  <2>1. idom[b] # r
    <3>1. SUFFICES ASSUME idom[b] = r PROVE FALSE OBVIOUS
    <3>2. next = idom
      <4>1. idom = [z \in DOMAIN idom |-> idom[z]] BY <1>0 DEF TreeFits, Tree
      <4>2. [idom EXCEPT ![b] = r] = [z \in DOMAIN idom |-> IF z = b THEN r ELSE idom[z]] OBVIOUS
      <4> QED BY <1>0, <3>1, <4>1, <4>2 DEF Becomes
    <3> QED BY <1>5, <3>2
  <2>2. idom[b] = NONE \/ num[idom[b]] < num[r]
    <3>1. SUFFICES ASSUME idom[b] # NONE PROVE num[idom[b]] < num[r] OBVIOUS
    <3>2. b \in KnownIn(idom) BY <1>2, <3>1 DEF KnownIn
    <3>3. idom[b] \in KnownIn(idom) /\ r \in Above(idom, idom[b]) BY <1>0, <1>2, <3>2
    <3> QED BY <1>0, <2>1, <3>3, AboveFacts
  <2>3. ASSUME NEW e \in Loose(R, num, next) PROVE e \in Loose(R, num, idom)
    <3>1. e \in R \X (1..num[Entry]) /\ (next[e[1]] = NONE \/ num[next[e[1]]] < e[2]) BY DEF Loose
    <3>2. e[1] \in R /\ e[1] \in DOMAIN idom /\ e[2] \in 1..num[Entry] BY <1>2, <3>1
    <3>3. CASE e[1] # b
      <4>1. next[e[1]] = idom[e[1]] BY <1>1, <3>2, <3>3
      <4> QED BY <3>1, <4>1 DEF Loose
    <3>4. CASE e[1] = b /\ idom[b] = NONE BY <3>1, <3>4 DEF Loose
    <3>5. CASE e[1] = b /\ idom[b] # NONE
      <4>1. num[idom[b]] < num[r] /\ num[r] < e[2] BY <1>1, <1>3, <2>2, <3>1, <3>5
      <4>2. num[idom[b]] \in Nat
        <5>1. b \in KnownIn(idom) /\ b # Entry BY <1>0, <1>2, <3>5 DEF KnownIn
        <5> QED BY <1>2, <5>1
      <4>3. num[idom[b]] < e[2] BY <1>2, <3>2, <4>1, <4>2
      <4> QED BY <3>1, <3>5, <4>3 DEF Loose
    <3> QED BY <3>3, <3>4, <3>5
  <2>4. <<b, num[r]>> \in Loose(R, num, idom)
    <3>1. num[r] \in 1..num[Entry] BY <1>2
    <3> QED BY <1>0, <2>2, <3>1 DEF Loose
  <2>5. <<b, num[r]>> \notin Loose(R, num, next)
    <3>1. ~(num[r] < num[r]) BY <1>2
    <3> QED BY <1>1, <1>3, <3>1 DEF Loose
  <2> QED BY <2>3, <2>4, <2>5 DEF Tighter
<1> QED BY <1>4, <1>5

LEMMA VisitFits ==
  ASSUME NEW succ, NEW R, NEW num, NEW idom, Numbered(succ, R, num),
         NEW b, NEW r, NEW next, Visits(succ, R, num, idom, b, r, next)
  PROVE  /\ SweepFits(succ, R, num, next, num[b] - 1) /\ Visited(R, num, next, num[b] - 1)
         /\ next[b] = r
         /\ next = idom \/ Tighter(R, num, next, idom)
<1>0. /\ b \in R \ {Entry} /\ TreeFits(succ, R, num, idom) /\ Becomes(idom, b, r, next)
      /\ MayGet(R, num, idom, b, r) /\ Visited(R, num, idom, num[b])
  BY VisitMayGet DEF Visits, SweepFits
<1>1. TreeFits(succ, R, num, next) /\ KnownIn(next) = KnownIn(idom) \cup {b} /\ next[b] = r
  BY <1>0, UpdateFits
<1>2. Visited(R, num, next, num[b] - 1)
  <2>1. SUFFICES ASSUME NEW x \in R, num[x] > num[b] - 1 PROVE x \in KnownIn(next) BY DEF Visited
  <2>2. num[x] \in Nat /\ num[b] \in Nat BY <1>0, KnownFacts
  <2>3. num[x] > num[b] \/ num[x] = num[b] BY <2>1, <2>2
  <2>4. num[x] = num[b] => x = b BY <1>0 DEF Numbered
  <2> QED BY <1>0, <1>1, <2>3, <2>4 DEF Visited
<1> QED BY <1>1, <1>2, VisitStands, VisitLeads, VisitKeeps, VisitTightens DEF SweepFits

LEMMA FewerLoose ==
  ASSUME NEW succ, NEW R, NEW num, Numbered(succ, R, num), NEW idom, NEW next
  PROVE  /\ Cardinality(Loose(R, num, idom)) \in Nat
         /\ Tighter(R, num, next, idom) =>
               Cardinality(Loose(R, num, next)) < Cardinality(Loose(R, num, idom))
<1> DEFINE U == R \X (1..num[Entry])
<1>1. IsFiniteSet(U)
  <2>1. IsGraph(succ) /\ R \in SUBSET DOMAIN succ /\ num[Entry] \in Nat
    <3>1. IsGraph(succ) /\ R \in SUBSET DOMAIN succ BY DEF Numbered
    <3>2. Entry \in DOMAIN succ \cup {NONE} BY <3>1, GraphFacts
    <3> QED BY <3>1, <3>2 DEF Numbered
  <2>2. IsFiniteSet(R) BY <2>1, GraphFacts, FS_Subset
  <2>3. IsFiniteSet(1..num[Entry])
    <3>1. 1 \in Int /\ num[Entry] \in Int BY <2>1
    <3> QED BY <3>1, FS_Interval
  <2> QED BY <2>2, <2>3, FS_Product
<1>2. Loose(R, num, idom) \in SUBSET U /\ Loose(R, num, next) \in SUBSET U BY DEF Loose
<1>3. Cardinality(Loose(R, num, idom)) \in Nat
  <2>1. IsFiniteSet(Loose(R, num, idom)) BY <1>1, <1>2, FS_Subset
  <2> QED BY <2>1, FS_CardinalityType
<1>4. ASSUME Tighter(R, num, next, idom)
      PROVE  Cardinality(Loose(R, num, next)) < Cardinality(Loose(R, num, idom))
  <2>1. PICK e \in Loose(R, num, idom) : e \notin Loose(R, num, next) BY <1>4 DEF Tighter
  <2>2. Loose(R, num, next) \in SUBSET Loose(R, num, idom) BY <1>4 DEF Tighter
  <2> HIDE DEF U
  <2> QED BY <1>1, <1>2, <2>1, <2>2, FewerMembers
<1> QED BY <1>3, <1>4

------------------------------------------------------------------------------
(***************************************************************************)
(* One pass.                                                               *)
(***************************************************************************)
Visit(preds, num, b, idom) ==
    IF b = Entry THEN idom ELSE [idom EXCEPT ![b] = MeetPreds(preds[b], idom, num)]
PredsListed(succ, preds) == DOMAIN preds = DOMAIN succ /\ \A b \in DOMAIN succ : preds[b] \in Seq(DOMAIN succ)
SweepStates(succ, rpo) == (1..(Len(rpo) + 1)) \X Tree(succ)

LEMMA VisitStays ==
  ASSUME NEW succ, IsGraph(succ), NEW preds, PredsListed(succ, preds), NEW num,
         NEW b \in DOMAIN succ, NEW idom \in Tree(succ)
  PROVE  Visit(preds, num, b, idom) \in Tree(succ)
<1>1. preds[b] \in Seq(DOMAIN succ) BY DEF PredsListed
<1>2. DOMAIN idom = DOMAIN succ BY DEF Tree
<1>3. MeetPreds(preds[b], idom, num) \in DOMAIN succ \cup {NONE} BY <1>1, <1>2, MeetStays
<1> DEFINE r == MeetPreds(preds[b], idom, num)
<1> HIDE DEF r
<1>4. [idom EXCEPT ![b] = r] \in Tree(succ)
  <2>1. r \in DOMAIN succ \cup {NONE} BY <1>3 DEF r
  <2> QED BY <2>1 DEF Tree
<1> QED BY <1>4 DEF Visit, r

LEMMA SweepEnds ==
  ASSUME NEW succ, IsGraph(succ), NEW preds, PredsListed(succ, preds), NEW num,
         NEW rpo \in Seq(DOMAIN succ), NEW idom \in Tree(succ),
         NEW I \in SUBSET SweepStates(succ, rpo), <<1, idom>> \in I,
         \A j \in 1..Len(rpo) : \A t : <<j, t>> \in I => <<j + 1, Visit(preds, num, rpo[j], t)>> \in I
  PROVE  <<Len(rpo) + 1, Sweep(rpo, preds, idom, num)>> \in I
<1> DEFINE N == Len(rpo)
           Node == Tree(preds)
           S == (1..(N + 1)) \X Node
           T == {s \in S : s[1] > N}
           out == [s \in S |-> s[2]]
           step == [s \in S |-> <<s[1] + 1, Visit(preds, num, rpo[s[1]], s[2])>>]
           Body(w, s) == IF s[1] > N THEN s[2]
                         ELSE w[<<s[1] + 1, Visit(preds, num, rpo[s[1]], s[2])>>]
           W == CHOOSE w : w = [s \in S |-> Body(w, s)]
           m == [s \in S |-> N + 1 - s[1]]
           s0 == <<1, idom>>
<1>0. N \in Nat /\ DOMAIN rpo = 1..N /\ (\A j \in 1..N : rpo[j] \in DOMAIN succ)
      /\ Node = Tree(succ)
  <2>1. Node = Tree(succ) BY DEF PredsListed, Tree
  <2> QED BY <2>1, LenProperties, ElementOfSeq
<1>1. Sweep(rpo, preds, idom, num) = W[s0] BY DEF Sweep, Visit
<1>2. ASSUME NEW w, NEW s \in S PROVE Body(w, s) = IF s \in T THEN out[s] ELSE w[step[s]]
  OBVIOUS
<1> HIDE DEF Node
<1>3. ASSUME NEW s \in S \ T
      PROVE  /\ step[s] \in S /\ step[s] = <<s[1] + 1, Visit(preds, num, rpo[s[1]], s[2])>>
             /\ s[1] \in 1..N /\ s[2] \in Node
  <2>1. s[1] \in 1..(N + 1) /\ s[2] \in Node /\ ~(s[1] > N) OBVIOUS
  <2> DEFINE j == s[1]  z == Visit(preds, num, rpo[s[1]], s[2])
  <2>2. j \in 1..N /\ j + 1 \in 1..(N + 1) BY <1>0, <2>1
  <2>3. z \in Node
    <3>1. rpo[j] \in DOMAIN succ BY <1>0, <2>2
    <3> QED BY <1>0, <2>1, <3>1, VisitStays
  <2>4. step[s] = <<j + 1, z>> OBVIOUS
  <2>5. step[s] \in S
    <3> HIDE DEF step, z, N
    <3> QED BY <2>2, <2>3, <2>4
  <2> QED BY <2>1, <2>2, <2>4, <2>5
<1> HIDE DEF Body, out, step
<1>4. \E w : LoopIs(w, S, T, out, step)
  <2>1. \A s \in S \ T : step[s] \in S BY <1>3
  <2> HIDE DEF T, S
  <2> QED BY ONLY <2>1, LoopExists
<1>5. \A w : [s \in S |-> Body(w, s)] = [s \in S |-> IF s \in T THEN out[s] ELSE w[step[s]]]
  <2> HIDE DEF T, S
  <2> QED BY ONLY <1>2
<1>6. LoopIs(W, S, T, out, step)
  <2>1. \E w : w = [s \in S |-> Body(w, s)] BY <1>4, <1>5 DEF LoopIs
  <2>2. W = [s \in S |-> Body(W, s)] BY <2>1
  <2> HIDE DEF W
  <2> QED BY <1>5, <2>2 DEF LoopIs
<1> HIDE DEF W
<1>a. I \in SUBSET S BY <1>0 DEF SweepStates
<1>7. ASSUME NEW s \in I PROVE m[s] \in Nat
  <2>1. s \in S BY <1>a
  <2>2. s[1] \in 1..(N + 1) BY <2>1
  <2> QED BY <1>0, <2>1, <2>2
<1>8. ASSUME NEW s \in I \ T PROVE step[s] \in I /\ m[step[s]] < m[s]
  <2> DEFINE j == s[1]  z == Visit(preds, num, rpo[s[1]], s[2])  t == step[s]
  <2>1. s \in S \ T /\ s \in S /\ s = <<j, s[2]>> BY <1>a
  <2>2. t \in S /\ t = <<j + 1, z>> /\ j \in 1..N BY <1>3, <2>1
  <2>3. t[1] = j + 1 /\ t[2] = z BY <2>2
  <2>4. t \in I
    <3>1. <<j, s[2]>> \in I BY <2>1
    <3> QED BY <2>2, <3>1
  <2> HIDE DEF t, z, j
  <2>8. m[t] = N + 1 - (j + 1) /\ m[s] = N + 1 - j BY <2>1, <2>2, <2>3 DEF j
  <2>9. N \in Int /\ j \in Int BY <1>0, <2>2
  <2> HIDE DEF m, N
  <2>10. m[t] < m[s] BY <2>8, <2>9
  <2> QED BY <2>4, <2>10 DEF t
<1>9. s0 \in I OBVIOUS
<1> HIDE DEF m, s0
<1>11. \E e \in I \cap T : W[s0] = out[e]
  <2> HIDE DEF T, S
  <2> QED BY ONLY <1>6, <1>7, <1>8, <1>9, <1>a, LoopEnds
<1>12. PICK e \in I \cap T : W[s0] = out[e] BY <1>11
<1>13. e \in I /\ e = <<e[1], e[2]>> /\ e[1] \in 1..(N + 1) /\ e[1] > N /\ out[e] = e[2]
  <2>1. e \in S BY <1>a, <1>12
  <2> QED BY <1>12, <2>1 DEF out
<1>14. e[1] = N + 1 BY <1>0, <1>13
<1> QED BY <1>1, <1>12, <1>13, <1>14

LEMMA SweepStays ==
  ASSUME NEW succ, IsGraph(succ), NEW preds, PredsListed(succ, preds), NEW num,
         NEW rpo \in Seq(DOMAIN succ), NEW idom \in Tree(succ)
  PROVE  Sweep(rpo, preds, idom, num) \in Tree(succ)
<1> DEFINE I == SweepStates(succ, rpo)
<1>0. Len(rpo) \in Nat /\ \A j \in 1..Len(rpo) : rpo[j] \in DOMAIN succ
  BY LenProperties, ElementOfSeq
<1>1. <<1, idom>> \in I
  <2>1. 1 \in 1..(Len(rpo) + 1) BY <1>0
  <2> QED BY <2>1 DEF SweepStates
<1>2. ASSUME NEW j \in 1..Len(rpo), NEW t, <<j, t>> \in I
      PROVE  <<j + 1, Visit(preds, num, rpo[j], t)>> \in I
  <2>1. t \in Tree(succ) BY <1>2 DEF SweepStates
  <2>2. rpo[j] \in DOMAIN succ BY <1>0
  <2>3. Visit(preds, num, rpo[j], t) \in Tree(succ) BY <2>1, <2>2, VisitStays
  <2>4. j + 1 \in 1..(Len(rpo) + 1) BY <1>0
  <2> QED BY <2>3, <2>4 DEF SweepStates
<1>3. I \in SUBSET SweepStates(succ, rpo) OBVIOUS
<1> HIDE DEF I
<1>4. <<Len(rpo) + 1, Sweep(rpo, preds, idom, num)>> \in I BY <1>1, <1>2, <1>3, SweepEnds
<1> QED BY <1>4 DEF I, SweepStates

\* The blocks in the order of their numbers, the predecessors of each.
Listed(R, num, rpo) ==
    /\ rpo \in Seq(R) /\ Len(rpo) \in Nat /\ num[Entry] = Len(rpo) /\ Range(rpo) = R /\ DOMAIN rpo = 1..Len(rpo)
    /\ \A j \in 1..Len(rpo) : rpo[j] \in R /\ num[rpo[j]] = Len(rpo) + 1 - j
PredsExact(succ, preds) ==
    /\ PredsListed(succ, preds)
    /\ \A b \in DOMAIN succ : Range(preds[b]) = {p \in DOMAIN succ : b \in Range(succ[p])}
AtFixpoint(R, preds, num, idom) == \A b \in R \ {Entry} : idom[b] = MeetPreds(preds[b], idom, num)

LEMMA VisitGoesOn ==
  ASSUME NEW succ, NEW R, NEW num, NEW preds, Numbered(succ, R, num), PredsExact(succ, preds),
         NEW b \in R, NEW idom, SweepFits(succ, R, num, idom, num[b]), Visited(R, num, idom, num[b])
  PROVE  /\ SweepFits(succ, R, num, Visit(preds, num, b, idom), num[b] - 1)
         /\ Visited(R, num, Visit(preds, num, b, idom), num[b] - 1)
         /\ b # Entry => Visit(preds, num, b, idom)[b] = MeetPreds(preds[b], idom, num)
         /\ Visit(preds, num, b, idom) = idom \/ Tighter(R, num, Visit(preds, num, b, idom), idom)
<1>0. TreeFits(succ, R, num, idom) /\ Stands(succ, num, idom, num[b]) BY DEF SweepFits
<1>1. CASE b # Entry
  <2> DEFINE next == Visit(preds, num, b, idom)  r == MeetPreds(preds[b], idom, num)
  <2>1. b \in DOMAIN succ /\ DOMAIN idom = DOMAIN succ BY <1>0, KnownFacts
  <2>2. preds[b] \in Seq(DOMAIN succ) /\ Range(preds[b]) = {p \in DOMAIN succ : b \in Range(succ[p])}
    BY <2>1 DEF PredsExact, PredsListed
  <2>3. Range(preds[b]) \cap KnownIn(idom) = KnownPreds(succ, idom, b)
    BY <2>1, <2>2 DEF KnownPreds, KnownIn
  <2>4. MetSoFar(idom, Range(preds[b]) \cap KnownIn(idom), r) BY <1>0, <2>2, MeetIsAboveAll
  <2>5. Becomes(idom, b, r, next) BY <1>1 DEF Becomes, Visit
  <2> HIDE DEF next, r
  <2>6. Visits(succ, R, num, idom, b, r, next) BY <1>1, <2>3, <2>4, <2>5 DEF Visits
  <2>7. /\ SweepFits(succ, R, num, next, num[b] - 1) /\ Visited(R, num, next, num[b] - 1)
        /\ next[b] = r /\ (next = idom \/ Tighter(R, num, next, idom))
    BY <2>6, VisitFits
  <2> QED BY <2>7 DEF next, r
<1>2. CASE b = Entry
  <2>1. Visit(preds, num, b, idom) = idom BY <1>2 DEF Visit
  <2>2. /\ KnownIn(idom) \in SUBSET R /\ \A x \in R : num[x] \in Nat /\ num[x] <= num[Entry]
        /\ Entry \in KnownIn(idom) /\ \A x \in KnownIn(idom) : x # Entry => idom[x] \in KnownIn(idom)
    BY <1>0, KnownFacts
  <2>3. num[b] \in Nat /\ \A x \in R : num[x] > num[b] - 1 => x = Entry
    <3>1. num[b] \in Nat BY <2>2
    <3>2. ASSUME NEW x \in R, num[x] > num[b] - 1 PROVE x = Entry
      <4>1. num[x] = num[Entry] BY <1>2, <2>2, <3>1, <3>2
      <4> QED BY <1>2, <4>1 DEF Numbered
    <3> QED BY <3>1, <3>2
  <2>4. Stands(succ, num, idom, num[b] - 1)
    <3>1. SUFFICES ASSUME NEW x \in KnownIn(idom) \ {Entry},
                          num[x] > num[b] - 1 \/ num[idom[x]] <= num[b] - 1
                   PROVE  \E q \in KnownIn(idom) : Supports(succ, num, idom, x, q)
      BY DEF Stands
    <3>2. x \in R /\ idom[x] \in R BY <2>2
    <3>3. ~(num[x] > num[b] - 1) BY <2>3, <3>2
    <3>4. num[idom[x]] \in Nat BY <2>2, <3>2
    <3>5. num[idom[x]] <= num[b] BY <2>3, <3>1, <3>3, <3>4
    <3> QED BY <1>0, <3>5 DEF Stands
  <2>5. Visited(R, num, idom, num[b] - 1) BY <2>2, <2>3 DEF Visited
  <2>6. SweepFits(succ, R, num, idom, num[b] - 1) BY <2>4 DEF SweepFits
  <2> QED BY <1>2, <2>1, <2>5, <2>6
<1> QED BY <1>1, <1>2

Progress(R, preds, num, rpo, idom, next, j) ==
    \/ /\ next = idom
       /\ \A l \in 1..(j - 1) : rpo[l] # Entry => idom[rpo[l]] = MeetPreds(preds[rpo[l]], idom, num)
    \/ Tighter(R, num, next, idom)

LEMMA VisitProgress ==
  ASSUME NEW R, NEW preds, NEW num, NEW rpo, NEW idom, NEW was, NEW next, NEW j \in Nat,
         Progress(R, preds, num, rpo, idom, was, j),
         next = was \/ Tighter(R, num, next, was),
         rpo[j] # Entry => next[rpo[j]] = MeetPreds(preds[rpo[j]], was, num)
  PROVE  Progress(R, preds, num, rpo, idom, next, j + 1)
<1>1. CASE Tighter(R, num, was, idom)
  <2>1. Tighter(R, num, next, idom) BY <1>1 DEF Tighter
  <2> QED BY <2>1 DEF Progress
<1>2. CASE ~Tighter(R, num, was, idom)
  <2>1. was = idom BY <1>2 DEF Progress
  <2>2. CASE Tighter(R, num, next, was) BY <2>1, <2>2 DEF Progress
  <2>3. CASE next = was
    <3>1. ASSUME NEW l \in 1..((j + 1) - 1), rpo[l] # Entry
          PROVE  idom[rpo[l]] = MeetPreds(preds[rpo[l]], idom, num)
      <4>1. l \in 1..(j - 1) \/ l = j OBVIOUS
      <4>2. CASE l = j BY <2>1, <2>3, <3>1, <4>2
      <4>3. CASE l \in 1..(j - 1) BY <1>2, <3>1, <4>3 DEF Progress
      <4> QED BY <4>1, <4>2, <4>3
    <3> QED BY <2>1, <2>3, <3>1 DEF Progress
  <2> QED BY <2>2, <2>3
<1> QED BY <1>1, <1>2

LEMMA SweepGoesOn ==
  ASSUME NEW succ, NEW R, NEW num, NEW preds, NEW rpo, Numbered(succ, R, num),
         PredsExact(succ, preds), Listed(R, num, rpo),
         NEW idom, SweepFits(succ, R, num, idom, 0)
  PROVE  /\ SweepFits(succ, R, num, Sweep(rpo, preds, idom, num), 0)
         /\ Visited(R, num, Sweep(rpo, preds, idom, num), 0)
         /\ \/ Sweep(rpo, preds, idom, num) = idom /\ AtFixpoint(R, preds, num, idom)
            \/ Tighter(R, num, Sweep(rpo, preds, idom, num), idom)
<1> DEFINE N == Len(rpo)
           I == {s \in SweepStates(succ, rpo) :
                   /\ SweepFits(succ, R, num, s[2], N + 1 - s[1])
                   /\ Visited(R, num, s[2], N + 1 - s[1])
                   /\ Progress(R, preds, num, rpo, idom, s[2], s[1])}
<1>0. /\ IsGraph(succ) /\ idom \in Tree(succ) /\ TreeFits(succ, R, num, idom) /\ PredsListed(succ, preds)
      /\ R \subseteq DOMAIN succ
  <2>1. TreeFits(succ, R, num, idom) BY DEF SweepFits
  <2> QED BY <2>1, GraphOfTree DEF PredsExact, Numbered
<1>1. /\ N \in Nat /\ num[Entry] = N /\ DOMAIN rpo = 1..N /\ Range(rpo) = R
      /\ \A j \in 1..N : rpo[j] \in R /\ num[rpo[j]] = N + 1 - j
  BY DEF Listed
<1>2. rpo \in Seq(DOMAIN succ)
  <2>1. rpo \in Seq(R) BY DEF Listed
  <2> QED BY <1>0, <2>1, SeqDef
<1>3. <<1, idom>> \in I
  <2>1. \A x \in R : num[x] \in Nat /\ num[x] >= 1 /\ num[x] <= N BY <1>0, <1>1, KnownFacts
  <2>2. Stands(succ, num, idom, N)
    <3>1. Stands(succ, num, idom, 0) /\ KnownIn(idom) \in SUBSET R BY <1>0, KnownFacts DEF SweepFits
    <3>2. ASSUME NEW x \in KnownIn(idom) PROVE num[x] > 0
      <4>1. num[x] \in Nat /\ num[x] >= 1 BY <2>1, <3>1
      <4> QED BY <4>1
    <3> QED BY <3>1, <3>2 DEF Stands
  <2>3. SweepFits(succ, R, num, idom, N + 1 - 1)
    <3>1. N + 1 - 1 = N BY <1>1
    <3> QED BY <2>2, <3>1 DEF SweepFits
  <2>4. Visited(R, num, idom, N + 1 - 1) BY <1>1, <2>1 DEF Visited
  <2>5. Progress(R, preds, num, rpo, idom, idom, 1)
    <3>1. 1..(1 - 1) = {} OBVIOUS
    <3> QED BY <3>1 DEF Progress
  <2>6. <<1, idom>> \in SweepStates(succ, rpo) BY <1>0, <1>1 DEF SweepStates
  <2> QED BY <2>3, <2>4, <2>5, <2>6
<1>4. ASSUME NEW j \in 1..N, NEW t, <<j, t>> \in I
      PROVE  <<j + 1, Visit(preds, num, rpo[j], t)>> \in I
  <2> DEFINE b == rpo[j]  next == Visit(preds, num, rpo[j], t)
  <2>1. /\ SweepFits(succ, R, num, t, N + 1 - j) /\ Visited(R, num, t, N + 1 - j)
        /\ Progress(R, preds, num, rpo, idom, t, j) /\ t \in Tree(succ)
    BY <1>4 DEF SweepStates
  <2>2. b \in R /\ num[b] = N + 1 - j /\ b \in DOMAIN succ BY <1>0, <1>1
  <2>3. /\ SweepFits(succ, R, num, next, num[b] - 1) /\ Visited(R, num, next, num[b] - 1)
        /\ b # Entry => next[b] = MeetPreds(preds[b], t, num)
        /\ next = t \/ Tighter(R, num, next, t)
    BY <2>1, <2>2, VisitGoesOn
  <2>4. num[b] - 1 = N + 1 - (j + 1) /\ j \in Nat BY <1>1, <2>2
  <2>5. next \in Tree(succ) BY <1>0, <2>1, <2>2, VisitStays
  <2>6. <<j + 1, next>> \in SweepStates(succ, rpo)
    <3>1. j + 1 \in 1..(N + 1) BY <1>1
    <3> HIDE DEF next
    <3> QED BY <2>5, <3>1 DEF SweepStates
  <2> HIDE DEF next
  <2>7. Progress(R, preds, num, rpo, idom, next, j + 1) BY <2>1, <2>3, <2>4, VisitProgress
  <2> HIDE DEF N, b
  <2>8. <<j + 1, next>> \in I BY <2>3, <2>4, <2>6, <2>7
  <2> QED BY <2>8 DEF next
<1>5. I \in SUBSET SweepStates(succ, rpo) OBVIOUS
<1> HIDE DEF I
<1>6. <<N + 1, Sweep(rpo, preds, idom, num)>> \in I BY <1>0, <1>2, <1>3, <1>4, <1>5, SweepEnds
<1> DEFINE next == Sweep(rpo, preds, idom, num)
<1> HIDE DEF next
<1>7. /\ SweepFits(succ, R, num, next, 0) /\ Visited(R, num, next, 0)
      /\ Progress(R, preds, num, rpo, idom, next, N + 1)
  <2>1. N + 1 - (N + 1) = 0 BY <1>1
  <2> QED BY <1>6, <2>1 DEF I, next
<1>8. CASE Tighter(R, num, next, idom) BY <1>7, <1>8 DEF next
<1>9. CASE ~Tighter(R, num, next, idom)
  <2>1. next = idom BY <1>7, <1>9 DEF Progress
  <2>2. ASSUME NEW b \in R \ {Entry} PROVE idom[b] = MeetPreds(preds[b], idom, num)
    <3>1. PICK l \in 1..N : b = rpo[l] BY <1>1 DEF Range
    <3>2. l \in 1..((N + 1) - 1) BY <1>1
    <3> QED BY <1>7, <1>9, <3>1, <3>2 DEF Progress
  <2> QED BY <1>7, <2>1, <2>2 DEF next, AtFixpoint
<1> QED BY <1>8, <1>9

------------------------------------------------------------------------------
(***************************************************************************)
(* Passes until one changes nothing, and what the tree is then.            *)
(***************************************************************************)
LEMMA FixpointFound ==
  ASSUME NEW succ, NEW R, NEW num, NEW preds, NEW rpo, Numbered(succ, R, num),
         PredsExact(succ, preds), Listed(R, num, rpo),
         NEW idom, SweepFits(succ, R, num, idom, 0)
  PROVE  \E e : /\ e = SweepToFixpoint(rpo, preds, num, idom)
                /\ SweepFits(succ, R, num, e, 0) /\ Visited(R, num, e, 0) /\ AtFixpoint(R, preds, num, e)
<1> DEFINE S == Tree(preds)
           Next1(t) == Sweep(rpo, preds, t, num)
           T == {t \in S : Next1(t) = t}
           out == [t \in S |-> t]
           step == [t \in S |-> Next1(t)]
           Body(w, t) == With(Sweep(rpo, preds, t, num), LAMBDA next :
                           IF next = t THEN t ELSE w[next])
           W == CHOOSE w : w = [t \in S |-> Body(w, t)]
           I == {t \in S : SweepFits(succ, R, num, t, 0)}
           m == [t \in S |-> Cardinality(Loose(R, num, t))]
<1>1. SweepToFixpoint(rpo, preds, num, idom) = W[idom] BY DEF SweepToFixpoint
<1>2. ASSUME NEW w, NEW t \in S PROVE Body(w, t) = IF t \in T THEN out[t] ELSE w[step[t]]
  <2> DEFINE F(next) == IF next = t THEN t ELSE w[next]
  <2>1. Body(w, t) = CHOOSE y \in {F(v) : v \in {Next1(t)}} : TRUE BY DEF With
  <2>2. {F(v) : v \in {Next1(t)}} = {F(Next1(t))} OBVIOUS
  <2>3. \A z : (CHOOSE y \in {z} : TRUE) = z OBVIOUS
  <2>4. Body(w, t) = F(Next1(t))
    <3> HIDE DEF F, Next1, Body
    <3> QED BY <2>1, <2>2, <2>3
  <2>5. t \in T <=> Next1(t) = t OBVIOUS
  <2>6. out[t] = t /\ step[t] = Next1(t) OBVIOUS
  <2> HIDE DEF Body, T, out, step, Next1
  <2> QED BY <2>4, <2>5, <2>6
<1>3. /\ IsGraph(succ) /\ PredsListed(succ, preds) /\ rpo \in Seq(DOMAIN succ) /\ S = Tree(succ)
  <2>1. rpo \in Seq(R) /\ R \in SUBSET DOMAIN succ BY DEF Listed, Numbered
  <2>2. S = Tree(succ) BY DEF PredsExact, PredsListed, Tree
  <2> QED BY <2>1, <2>2, SeqDef DEF PredsExact, Numbered
<1> HIDE DEF S
<1>4. \A t \in S \ T : step[t] = Next1(t) /\ step[t] \in S /\ step[t] # t
  <2> SUFFICES ASSUME NEW t \in S \ T PROVE step[t] = Next1(t) /\ step[t] \in S /\ step[t] # t
    OBVIOUS
  <2>1. Next1(t) \in S BY <1>3, SweepStays
  <2> QED BY <2>1
<1> HIDE DEF Body, out, step, T
<1>5. \E w : LoopIs(w, S, T, out, step)
  <2>1. \A t \in S \ T : step[t] \in S BY <1>4
  <2> QED BY ONLY <2>1, LoopExists
<1>6. \A w : [t \in S |-> Body(w, t)] = [t \in S |-> IF t \in T THEN out[t] ELSE w[step[t]]]
  BY ONLY <1>2
<1>7. LoopIs(W, S, T, out, step)
  <2>1. \E w : w = [t \in S |-> Body(w, t)] BY <1>5, <1>6 DEF LoopIs
  <2>2. W = [t \in S |-> Body(W, t)] BY <2>1
  <2> HIDE DEF W
  <2> QED BY <1>6, <2>2 DEF LoopIs
<1> HIDE DEF W
<1>8. \A t \in I : m[t] \in Nat BY FewerLoose
<1>9. ASSUME NEW t \in I \ T PROVE step[t] \in I /\ m[step[t]] < m[t]
  <2>1. t \in S /\ step[t] = Next1(t) /\ step[t] \in S /\ step[t] # t BY <1>4
  <2> DEFINE z == Next1(t)
  <2>2. SweepFits(succ, R, num, z, 0) /\ (z = t \/ Tighter(R, num, z, t)) BY SweepGoesOn
  <2> HIDE DEF z
  <2>3. Tighter(R, num, z, t) BY <2>1, <2>2 DEF z
  <2>4. Cardinality(Loose(R, num, z)) < Cardinality(Loose(R, num, t)) BY <2>3, FewerLoose
  <2>5. z \in S /\ step[t] = z BY <2>1 DEF z
  <2>6. m[z] < m[t] BY <2>1, <2>4, <2>5
  <2> QED BY <2>2, <2>5, <2>6
<1>10. idom \in I BY <1>3, GraphOfTree DEF SweepFits
<1>11. I \in SUBSET S OBVIOUS
<1> HIDE DEF m, I
<1>12. \E e \in I \cap T : W[idom] = out[e]
  BY ONLY <1>7, <1>8, <1>9, <1>10, <1>11, LoopEnds
<1>13. PICK e \in I \cap T : W[idom] = out[e] BY <1>12
<1>14. e \in S /\ SweepFits(succ, R, num, e, 0) /\ Next1(e) = e /\ out[e] = e
  BY <1>13 DEF I, T, out
<1>15. Visited(R, num, e, 0) /\ (AtFixpoint(R, preds, num, e) \/ Tighter(R, num, e, e))
  BY <1>14, SweepGoesOn
<1>16. ~Tighter(R, num, e, e) BY DEF Tighter
<1> QED BY <1>1, <1>13, <1>14, <1>15, <1>16

\* A settled tree: what is above a block is what dominates it.
LEMMA SettledIsDominance ==
  ASSUME NEW succ, NEW R, NEW num, NEW preds, Numbered(succ, R, num), PredsExact(succ, preds),
         NEW idom, SweepFits(succ, R, num, idom, 0), Visited(R, num, idom, 0),
         AtFixpoint(R, preds, num, idom)
  PROVE  KnownIn(idom) = R /\ \A b \in R : Above(idom, b) = DomsOf(succ, b)
<1>0. TreeFits(succ, R, num, idom) /\ Keeps(succ, idom) BY DEF SweepFits
<1>1. /\ KnownIn(idom) \in SUBSET R /\ R \in SUBSET DOMAIN succ /\ DOMAIN idom = DOMAIN succ
      /\ \A x \in R : num[x] \in Nat /\ num[x] >= 1
      /\ IsGraph(succ) /\ Entry \in R /\ ClosedOver(succ, R)
  <2>1. IsGraph(succ) /\ Entry \in R /\ ClosedOver(succ, R) BY DEF Numbered
  <2> QED BY <1>0, <2>1, KnownFacts
<1>2. KnownIn(idom) = R
  <2>1. ASSUME NEW x \in R PROVE x \in KnownIn(idom)
    <3>1. num[x] \in Nat /\ num[x] >= 1 BY <1>1
    <3>2. num[x] > 0 BY <3>1
    <3> QED BY <3>2 DEF Visited
  <2> QED BY <1>1, <2>1
<1>3. ASSUME NEW y \in R \ {Entry}, NEW a \in Above(idom, y), a # y,
             NEW x \in R, y \in Range(succ[x])
      PROVE  a \in Above(idom, x)
  <2>1. preds[y] \in Seq(DOMAIN succ) /\ Range(preds[y]) = {p \in DOMAIN succ : y \in Range(succ[p])}
    BY <1>1 DEF PredsExact, PredsListed
  <2>2. MetSoFar(idom, Range(preds[y]) \cap KnownIn(idom), idom[y])
    <3>1. idom[y] = MeetPreds(preds[y], idom, num) BY DEF AtFixpoint
    <3> QED BY <1>0, <2>1, <3>1, MeetIsAboveAll
  <2>3. x \in Range(preds[y]) \cap KnownIn(idom) BY <1>1, <1>2, <1>3, <2>1
  <2>4. Above(idom, idom[y]) = AboveAll(idom, Range(preds[y]) \cap KnownIn(idom))
    BY <2>2, <2>3 DEF MetSoFar
  <2>5. Above(idom, y) = {y} \cup Above(idom, idom[y]) BY <1>0, <1>2, AboveFacts
  <2>6. a \in Above(idom, idom[y]) BY <1>3, <2>5
  <2> QED BY <2>3, <2>4, <2>6 DEF AboveAll
<1>4. ASSUME NEW b \in R, NEW a \in Above(idom, b) PROVE a \in DomsOf(succ, b)
  <2> DEFINE X == {x \in R : a \notin Above(idom, x)}
  <2>0. Above(idom, Entry) = {Entry} BY <1>0, AboveFacts
  <2>1. {Entry} \ {a} \subseteq X BY <1>1, <2>0
  <2>2. ASSUME NEW x \in X, NEW y \in Range(succ[x]), y # a PROVE y \in X
    <3>1. y \in R BY <1>1 DEF ClosedOver
    <3>2. CASE y = Entry BY <2>0, <2>2, <3>1, <3>2
    <3>3. CASE y # Entry BY <1>3, <2>2, <3>1, <3>3
    <3> QED BY <3>2, <3>3
  <2>3. ClosedWithout(succ, {a}, X) /\ X \in SUBSET DOMAIN succ
    <3>1. X \in SUBSET DOMAIN succ BY <1>1
    <3> QED BY <2>1, <2>2, <3>1 DEF ClosedWithout
  <2>4. ReachAvoiding(succ, {a}) \subseteq X
    <3> HIDE DEF X
    <3> QED BY <1>1, <2>3, AvoidingFacts
  <2>5. a \in DOMAIN succ BY <1>1 DEF Above
  <2> QED BY <1>4, <2>4, <2>5 DEF DomsOf, PathDominates
<1>5. \A b \in R : DomsOf(succ, b) \subseteq Above(idom, b) BY <1>0, <1>2 DEF Keeps
<1> QED BY <1>2, <1>4, <1>5

\* The start: only the entry is known.
LEMMA SweepStarts ==
  ASSUME NEW succ, NEW R, NEW num, Numbered(succ, R, num),
         NEW idom, idom = [b \in DOMAIN succ |-> IF b = Entry THEN Entry ELSE NONE]
  PROVE  SweepFits(succ, R, num, idom, 0)
<1>1. IsGraph(succ) /\ Entry \in R /\ R \in SUBSET DOMAIN succ /\ Entry # NONE BY DEF Numbered, Entry, NONE
<1>2. KnownIn(idom) = {Entry} BY <1>1 DEF KnownIn
<1>3. TreeFits(succ, R, num, idom)
  <2>1. idom \in Tree(succ) BY <1>1 DEF Tree
  <2>2. idom[Entry] = Entry BY <1>1
  <2>3. \A x \in DOMAIN succ : x \notin R => idom[x] = NONE BY <1>1
  <2> QED BY <1>2, <2>1, <2>2, <2>3 DEF TreeFits
<1>4. Stands(succ, num, idom, 0) /\ Leads(succ, idom) BY <1>2 DEF Stands, Leads
<1>5. Keeps(succ, idom)
  <2>1. DomsOf(succ, Entry) = {Entry} BY <1>1, DomsFacts
  <2>2. Above(idom, Entry) = {Entry} BY <1>3, AboveFacts
  <2> QED BY <1>2, <2>1, <2>2 DEF Keeps
<1> QED BY <1>3, <1>4, <1>5 DEF SweepFits

LEMMA IdomsAreDominators ==
  ASSUME NEW succ, IsGraph(succ), NEW b \in DOMAIN succ
  PROVE  /\ DOMAIN Idoms(succ) = DOMAIN succ
         /\ (Idoms(succ)[b] # NONE) <=> b \in ReachAvoiding(succ, {})
         /\ Idoms(succ)[b] # NONE =>
               Ancestors(Idoms(succ), b) = {a \in DOMAIN succ : PathDominates(succ, a, b)}
<1> DEFINE rpo == ReversePostorder(succ)  preds == Reversed(succ)  num == PostNumber(rpo, succ)
           R == ReachableIn(succ)
           init == [c \in DOMAIN succ |-> IF c = Entry THEN Entry ELSE NONE]
<1>1. Idoms(succ) = SweepToFixpoint(rpo, preds, num, init)
  <2>0. \A x : \A y \in {x} : (CHOOSE z \in {y} : TRUE) = x OBVIOUS
  <2> DEFINE F3(r, p, n) == SweepToFixpoint(r, p, n, init)
             F2(r, p) == With(PostNumber(r, succ), LAMBDA n : F3(r, p, n))
             F1(r) == With(Reversed(succ), LAMBDA p : F2(r, p))
  <2>1. Idoms(succ) = With(ReversePostorder(succ), F1) BY DEF Idoms
  <2> HIDE DEF F3
  <2>4. \A r, p : F2(r, p) = F3(r, p, PostNumber(r, succ))
    <3> SUFFICES ASSUME NEW r, NEW p PROVE F2(r, p) = F3(r, p, PostNumber(r, succ)) OBVIOUS
    <3>1. F2(r, p) = CHOOSE y \in {F3(r, p, v) : v \in {PostNumber(r, succ)}} : TRUE BY DEF With
    <3>2. {F3(r, p, v) : v \in {PostNumber(r, succ)}} = {F3(r, p, PostNumber(r, succ))} OBVIOUS
    <3> HIDE DEF F2
    <3> QED BY <2>0, <3>1, <3>2
  <2> HIDE DEF F2
  <2>5. \A r : F1(r) = F2(r, preds)
    <3> SUFFICES ASSUME NEW r PROVE F1(r) = F2(r, preds) OBVIOUS
    <3>1. F1(r) = CHOOSE y \in {F2(r, v) : v \in {preds}} : TRUE BY DEF With
    <3>2. {F2(r, v) : v \in {preds}} = {F2(r, preds)} OBVIOUS
    <3> HIDE DEF F1
    <3> QED BY <2>0, <3>1, <3>2
  <2> HIDE DEF F1
  <2>6. Idoms(succ) = F1(rpo)
    <3>1. Idoms(succ) = CHOOSE y \in {F1(v) : v \in {rpo}} : TRUE BY <2>1 DEF With
    <3>2. {F1(v) : v \in {rpo}} = {F1(rpo)} OBVIOUS
    <3> HIDE DEF rpo
    <3> QED BY <2>0, <3>1, <3>2
  <2> HIDE DEF rpo, preds
  <2> QED BY <2>4, <2>5, <2>6 DEF F3
<1>2. RunsOn(succ, rpo) BY SearchFinds
<1> HIDE DEF rpo
<1>3. Numbered(succ, R, num) /\ \A i \in DOMAIN rpo : num[rpo[i]] = Len(rpo) + 1 - i
      /\ Len(rpo) \in Nat /\ DOMAIN rpo = 1..Len(rpo)
  BY <1>2, NumbersFit
<1>4. PredsExact(succ, preds) BY PredecessorsFound DEF PredsExact, PredsListed
<1> HIDE DEF num, preds
<1>5. Listed(R, num, rpo)
  <2>1. rpo \in Seq(DOMAIN succ) /\ Range(rpo) = R /\ 1 \in DOMAIN rpo /\ rpo[1] = Entry
    BY <1>2 DEF RunsOn
  <2>2. \A j \in 1..Len(rpo) : rpo[j] \in R BY <1>3, <2>1 DEF Range
  <2>3. rpo \in Seq(R)
    <3>1. rpo = [j \in 1..Len(rpo) |-> rpo[j]] BY <1>3, <2>1, SeqDef
    <3>2. rpo \in [1..Len(rpo) -> R] BY <2>2, <3>1
    <3> QED BY <1>3, <3>2, SeqDef
  <2>4. num[Entry] = Len(rpo)
    <3>1. num[rpo[1]] = Len(rpo) + 1 - 1 BY <1>3, <2>1
    <3> QED BY <1>3, <2>1, <3>1
  <2> QED BY <1>3, <2>1, <2>2, <2>3, <2>4 DEF Listed
<1>6. SweepFits(succ, R, num, init, 0) BY <1>3, SweepStarts
<1> HIDE DEF init
<1>7. PICK e : /\ e = SweepToFixpoint(rpo, preds, num, init)
               /\ SweepFits(succ, R, num, e, 0) /\ Visited(R, num, e, 0) /\ AtFixpoint(R, preds, num, e)
  BY <1>3, <1>4, <1>5, <1>6, FixpointFound
<1>8. KnownIn(e) = R /\ \A c \in R : Above(e, c) = DomsOf(succ, c)
  BY <1>3, <1>4, <1>7, SettledIsDominance
<1>9. TreeFits(succ, R, num, e) BY <1>7 DEF SweepFits
<1>10. DOMAIN e = DOMAIN succ BY <1>3, <1>9, KnownFacts
<1>11. \A c \in R : Ancestors(e, c) = DomsOf(succ, c) BY <1>3, <1>8, <1>9, AncestorsAbove
<1>12. R = ReachAvoiding(succ, {}) BY ReachableIsClosed
<1>13. e[b] # NONE <=> b \in R BY <1>8, <1>10 DEF KnownIn
<1> QED BY <1>1, <1>7, <1>10, <1>11, <1>12, <1>13 DEF DomsOf

------------------------------------------------------------------------------
(***************************************************************************)
(* Liveness.  R is what the entry leads to.                                *)
(***************************************************************************)
LEMMA BodyFacts ==
  ASSUME NEW g, IsBody(g), NEW b \in g.live
  PROVE  /\ b \in Blocks(g) /\ Len(Insts(g, b)) \in Nat /\ DOMAIN Insts(g, b) = 1..Len(Insts(g, b))
         /\ OwnPos(g, b) = Len(Insts(g, b)) + 1 /\ EdgePos(g, b) = Len(Insts(g, b)) + 2
         /\ SafepointsOf(g, b) \in SUBSET (1..OwnPos(g, b))
<1>1. b \in Blocks(g) /\ Insts(g, b) \in Seq(DOMAIN g.inst) BY DEF IsBody
<1>2. Len(Insts(g, b)) \in Nat /\ DOMAIN Insts(g, b) = 1..Len(Insts(g, b)) BY <1>1, LenProperties
<1>3. OwnPos(g, b) = Len(Insts(g, b)) + 1 /\ EdgePos(g, b) = Len(Insts(g, b)) + 2
  BY DEF OwnPos, EdgePos
<1>4. SafepointsOf(g, b) \subseteq DOMAIN Insts(g, b) \cup {OwnPos(g, b)} BY DEF SafepointsOf
<1>5. SafepointsOf(g, b) \in SUBSET (1..OwnPos(g, b)) BY <1>2, <1>3, <1>4
<1> QED BY <1>1, <1>2, <1>3, <1>5

LEMMA SiteFacts ==
  ASSUME NEW g, IsBody(g), NEW v
  PROVE  /\ DefSite(g, v) = <<DefSite(g, v)[1], DefSite(g, v)[2]>> /\ DefSite(g, v)[2] \in Nat
         /\ DefSite(g, v)[1] \in g.live => DefSite(g, v)[2] <= Len(Insts(g, DefSite(g, v)[1]))
         /\ DefSite(g, v)[1] \in g.live \/ DefSite(g, v) = <<NONE, 0>>
<1> DEFINE d == g.val[v].def  home == {b \in g.live : d.at \in Range(Insts(g, b))}
<1>1. CASE d.kind = "result" /\ home # {}
  <2> DEFINE h == CHOOSE b \in home : TRUE
  <2>1. DefSite(g, v) = <<h, IndexIn(Insts(g, h), d.at)>> BY <1>1 DEF DefSite, InstSite
  <2>2. h \in home BY <1>1
  <2> HIDE DEF h
  <2>3. h \in g.live /\ \E t \in DOMAIN Insts(g, h) : Insts(g, h)[t] = d.at BY <2>2 DEF Range
  <2>4. IndexIn(Insts(g, h), d.at) \in DOMAIN Insts(g, h) BY <2>3 DEF IndexIn
  <2>5. IndexIn(Insts(g, h), d.at) \in Nat /\ IndexIn(Insts(g, h), d.at) <= Len(Insts(g, h))
    BY <2>3, <2>4, BodyFacts
  <2> HIDE DEF d, home
  <2> QED BY <2>1, <2>3, <2>5
<1>2. CASE d.kind = "result" /\ home = {}
  <2>1. DefSite(g, v) = <<NONE, 0>> BY <1>2 DEF DefSite, InstSite
  <2>2. NONE \in g.live => 0 <= Len(Insts(g, NONE)) BY BodyFacts
  <2> QED BY <2>1, <2>2
<1>3. CASE d.kind # "result" /\ d.at \in g.live /\ v \in Range(g.blk[d.at].params)
  <2>1. DefSite(g, v) = <<d.at, 0>> BY <1>3 DEF DefSite
  <2>2. 0 <= Len(Insts(g, d.at)) BY <1>3, BodyFacts
  <2> HIDE DEF d, home
  <2> QED BY <1>3, <2>1, <2>2
<1>4. CASE d.kind # "result" /\ ~(d.at \in g.live /\ v \in Range(g.blk[d.at].params))
  <2>1. DefSite(g, v) = <<NONE, 0>> BY <1>4 DEF DefSite
  <2>2. NONE \in g.live => 0 <= Len(Insts(g, NONE)) BY BodyFacts
  <2> QED BY <2>1, <2>2
<1> QED BY <1>1, <1>2, <1>3, <1>4

\* The walk back.
UsersOf(g, R, v) == {b \in R : \E t \in 1..EdgePos(g, b) : v \in ReadsAt(g, b, t)}
FlowsBack(g, R, v, X) ==
    /\ UsersOf(g, R, v) \ {DefSite(g, v)[1]} \subseteq X
    /\ \A c \in X : (PredSet(g, c) \cap R) \ {DefSite(g, v)[1]} \subseteq X
LEMMA LiveIntoFacts ==
  ASSUME NEW g, NEW R, IsFiniteSet(R), NEW v
  PROVE  /\ LiveInto(g, R, v) \in SUBSET R /\ FlowsBack(g, R, v, LiveInto(g, R, v))
         /\ \A X \in SUBSET R : FlowsBack(g, R, v, X) => LiveInto(g, R, v) \subseteq X
<1> DEFINE home == DefSite(g, v)[1]
           Grown(r) == r \cup (((UNION {PredSet(g, b) : b \in r}) \cap R) \ {home})
           step == [r \in SUBSET R |-> Grown(r)]
           W == CHOOSE w : w = [r \in SUBSET R |-> IF step[r] = r THEN r ELSE w[step[r]]]
           s0 == UsersOf(g, R, v) \ {home}
           Body(w, r) == With(r \cup (((UNION {PredSet(g, b) : b \in r}) \cap R) \ {home}),
                              LAMBDA next : IF next = r THEN r ELSE w[next])
           Back(h) == LET users == {b \in R : \E t \in 1..EdgePos(g, b) : v \in ReadsAt(g, b, t)}
                          back[S \in SUBSET R] ==
                            With(S \cup (((UNION {PredSet(g, b) : b \in S}) \cap R) \ {h}),
                                 LAMBDA next : IF next = S THEN S ELSE back[next])
                      IN  back[users \ {h}]
<1>1. ASSUME NEW w, NEW r \in SUBSET R PROVE Body(w, r) = IF step[r] = r THEN r ELSE w[step[r]]
  <2> DEFINE F(next) == IF next = r THEN r ELSE w[next]
  <2>1. Body(w, r) = CHOOSE y \in {F(x) : x \in {Grown(r)}} : TRUE BY DEF With
  <2>2. {F(x) : x \in {Grown(r)}} = {F(Grown(r))} OBVIOUS
  <2>3. \A z : (CHOOSE y \in {z} : TRUE) = z OBVIOUS
  <2>4. step[r] = Grown(r) OBVIOUS
  <2>5. Body(w, r) = F(Grown(r))
    <3> HIDE DEF F, Grown, Body
    <3> QED BY <2>1, <2>2, <2>3
  <2> HIDE DEF Body, step, Grown
  <2> QED BY <2>4, <2>5
<1>2. LiveInto(g, R, v) = W[s0]
  <2>1. \A x : \A y \in {x} : (CHOOSE z \in {y} : TRUE) = x OBVIOUS
  <2>2. LiveInto(g, R, v) = CHOOSE y \in {Back(x) : x \in {home}} : TRUE BY DEF LiveInto, With
  <2>3. {Back(x) : x \in {home}} = {Back(home)} OBVIOUS
  <2>4. LiveInto(g, R, v) = Back(home)
    <3> HIDE DEF Back, home
    <3> QED BY <2>1, <2>2, <2>3
  <2> DEFINE V == CHOOSE w : w = [r \in SUBSET R |-> Body(w, r)]
  <2>5. Back(home) = V[s0] BY DEF UsersOf
  <2>6. \A w : [r \in SUBSET R |-> Body(w, r)] = [r \in SUBSET R |-> IF step[r] = r THEN r ELSE w[step[r]]]
    <3> HIDE DEF Body, step
    <3> QED BY <1>1
  <2>7. V = W
    <3> HIDE DEF Body, step
    <3> QED BY <2>6
  <2> HIDE DEF V, W, Back, s0
  <2> QED BY <2>4, <2>5, <2>7
<1>3. \A r \in SUBSET R : step[r] = Grown(r) /\ step[r] \in SUBSET R /\ r \subseteq step[r] OBVIOUS
<1>4. s0 \in SUBSET R BY DEF UsersOf
<1> HIDE DEF step, s0
<1>5. /\ W[s0] \in SUBSET R /\ s0 \subseteq W[s0] /\ step[W[s0]] = W[s0]
      /\ \A X \in SUBSET R : s0 \subseteq X /\ (\A r \in SUBSET X : step[r] \subseteq X) => W[s0] \subseteq X
  <2> DEFINE w0 == W
  <2>1. w0 = Growth(R, step) BY DEF Growth
  <2> HIDE DEF w0
  <2>2. \A r \in SUBSET R : step[r] \in SUBSET R /\ r \subseteq step[r] BY <1>3
  <2>3. /\ w0[s0] \in SUBSET R /\ s0 \subseteq w0[s0] /\ step[w0[s0]] = w0[s0]
        /\ \A X \in SUBSET R : s0 \subseteq X /\ (\A r \in SUBSET X : step[r] \subseteq X) => w0[s0] \subseteq X
    <3>1. IsFiniteSet(R) OBVIOUS
    <3> HIDE DEF Grown, home, Back, Body, W
    <3> QED BY ONLY <2>1, <2>2, <1>4, <3>1, GrowthEnds
  <2> HIDE DEF Grown, home, Back, Body, W
  <2> QED BY <2>3 DEF w0
<1> HIDE DEF W
<1>6. Grown(W[s0]) = W[s0] BY <1>3, <1>5
<1>7. FlowsBack(g, R, v, W[s0])
  <2>1. UsersOf(g, R, v) \ {home} \subseteq W[s0] BY <1>5 DEF s0
  <2>2. \A c \in W[s0] : (PredSet(g, c) \cap R) \ {home} \subseteq W[s0] BY <1>6
  <2> QED BY <2>1, <2>2 DEF FlowsBack
<1>8. ASSUME NEW X \in SUBSET R, FlowsBack(g, R, v, X) PROVE W[s0] \subseteq X
  <2>1. s0 \subseteq X BY <1>8 DEF FlowsBack, s0
  <2>2. ASSUME NEW r \in SUBSET X PROVE step[r] \subseteq X
    <3>1. r \in SUBSET R OBVIOUS
    <3>2. \A c \in r : (PredSet(g, c) \cap R) \ {home} \subseteq X BY <1>8 DEF FlowsBack
    <3>3. Grown(r) \subseteq X BY <3>2
    <3> QED BY <1>3, <3>1, <3>3
  <2> QED BY <1>5, <2>1, <2>2
<1> QED BY <1>2, <1>5, <1>7, <1>8

\* The walk onward.
OnwardFrom(g, s, v, X) == \A p \in X \cup {s} : NextPoints(g, p) \ {DefSite(g, v)} \subseteq X
LEMMA CrossedFacts ==
  ASSUME NEW g, IsFiniteSet(PointsOf(g)), \A p \in PointsOf(g) : NextPoints(g, p) \subseteq PointsOf(g),
         NEW s \in PointsOf(g), NEW v
  PROVE  \E O \in SUBSET PointsOf(g) :
            /\ OnwardFrom(g, s, v, O)
            /\ \A X \in SUBSET PointsOf(g) : OnwardFrom(g, s, v, X) => O \subseteq X
            /\ CrossedByPath(g, s, v) <=>
                  DefSite(g, v) # s /\ \E p \in O : v \in ReadsAt(g, p[1], p[2])
<1> DEFINE U == PointsOf(g)
           Grown(r) == r \cup ((UNION {NextPoints(g, p) : p \in r}) \ {DefSite(g, v)})
           step == [r \in SUBSET U |-> Grown(r)]
           W == CHOOSE w : w = [r \in SUBSET U |-> IF step[r] = r THEN r ELSE w[step[r]]]
           s0 == NextPoints(g, s) \ {DefSite(g, v)}
           Body(w, r) == LET next == r \cup ((UNION {NextPoints(g, p) : p \in r}) \ {DefSite(g, v)})
                         IN  IF next = r THEN r ELSE w[next]
           V == CHOOSE w : w = [r \in SUBSET U |-> Body(w, r)]
<1>1. CrossedByPath(g, s, v) <=> DefSite(g, v) # s /\ \E p \in V[s0] : v \in ReadsAt(g, p[1], p[2])
  BY DEF CrossedByPath
<1>2. \A r \in SUBSET U : step[r] = Grown(r) OBVIOUS
<1>3. \A w : [r \in SUBSET U |-> Body(w, r)] = [r \in SUBSET U |-> IF step[r] = r THEN r ELSE w[step[r]]]
  <2>1. ASSUME NEW w, NEW r \in SUBSET U PROVE Body(w, r) = IF step[r] = r THEN r ELSE w[step[r]]
    <3>1. Body(w, r) = IF Grown(r) = r THEN r ELSE w[Grown(r)] OBVIOUS
    <3> HIDE DEF Body, step, Grown
    <3> QED BY <1>2, <3>1
  <2> HIDE DEF Body, step
  <2> QED BY <2>1
<1>4. V = W
  <2> HIDE DEF Body, step
  <2> QED BY <1>3
<1>5. \A r \in SUBSET U : step[r] \in SUBSET U /\ r \subseteq step[r]
  <2> SUFFICES ASSUME NEW r \in SUBSET U PROVE step[r] \in SUBSET U /\ r \subseteq step[r] OBVIOUS
  <2>1. \A p \in r : NextPoints(g, p) \subseteq U OBVIOUS
  <2>2. Grown(r) \in SUBSET U /\ r \subseteq Grown(r) BY <2>1
  <2> HIDE DEF Grown, step
  <2> QED BY <1>2, <2>2
<1>6. s0 \in SUBSET U OBVIOUS
<1> HIDE DEF step, s0, Body, V, U
<1>7. /\ W[s0] \in SUBSET U /\ s0 \subseteq W[s0] /\ step[W[s0]] = W[s0]
      /\ \A X \in SUBSET U : s0 \subseteq X /\ (\A r \in SUBSET X : step[r] \subseteq X) => W[s0] \subseteq X
  <2> DEFINE w0 == W
  <2>1. w0 = Growth(U, step) BY DEF Growth
  <2>2. IsFiniteSet(U) BY DEF U
  <2> HIDE DEF w0
  <2>3. /\ w0[s0] \in SUBSET U /\ s0 \subseteq w0[s0] /\ step[w0[s0]] = w0[s0]
        /\ \A X \in SUBSET U : s0 \subseteq X /\ (\A r \in SUBSET X : step[r] \subseteq X) => w0[s0] \subseteq X
    <3> HIDE DEF Grown, W
    <3> QED BY ONLY <2>1, <2>2, <1>5, <1>6, GrowthEnds
  <2> HIDE DEF Grown, W
  <2> QED BY <2>3 DEF w0
<1> HIDE DEF W
<1>8. OnwardFrom(g, s, v, W[s0])
  <2>1. Grown(W[s0]) = W[s0] BY <1>2, <1>7
  <2>2. \A p \in W[s0] : NextPoints(g, p) \ {DefSite(g, v)} \subseteq W[s0] BY <2>1
  <2>3. NextPoints(g, s) \ {DefSite(g, v)} \subseteq W[s0] BY <1>7 DEF s0
  <2> QED BY <2>2, <2>3 DEF OnwardFrom
<1>9. ASSUME NEW X \in SUBSET U, OnwardFrom(g, s, v, X) PROVE W[s0] \subseteq X
  <2>1. s0 \subseteq X BY <1>9 DEF OnwardFrom, s0
  <2>2. ASSUME NEW r \in SUBSET X PROVE step[r] \subseteq X
    <3>1. \A p \in r : NextPoints(g, p) \ {DefSite(g, v)} \subseteq X BY <1>9 DEF OnwardFrom
    <3>2. Grown(r) \subseteq X BY <3>1
    <3>3. r \in SUBSET U OBVIOUS
    <3> HIDE DEF Grown
    <3> QED BY <1>2, <3>2, <3>3
  <2> QED BY <1>7, <2>1, <2>2
<1> QED BY <1>1, <1>4, <1>7, <1>8, <1>9 DEF U

\* The least number that a set of positions up to n has, and its greatest.
LEMMA LastReadFacts ==
  ASSUME NEW g, NEW b, NEW v, EdgePos(g, b) \in Nat, NEW p \in Nat, p >= 1
  PROVE  p < LastRead(g, b, v) <=> \E t \in 1..EdgePos(g, b) : v \in ReadsAt(g, b, t) /\ p < t
<1> DEFINE ks == {t \in 1..EdgePos(g, b) : v \in ReadsAt(g, b, t)}
<1>1. LastRead(g, b, v) = IF ks = {} THEN 0 ELSE CHOOSE t \in ks : \A j \in ks : j <= t
  BY DEF LastRead
<1>2. CASE ks = {} BY <1>1, <1>2
<1>3. CASE ks # {}
  <2> DEFINE Far == {EdgePos(g, b) - t : t \in ks}
  <2>1. PICK n \in Far : \A m \in Far : n <= m
    <3>1. Far \in SUBSET Nat /\ Far # {} BY <1>3
    <3> HIDE DEF Far
    <3> QED BY <3>1, LeastNumber
  <2>2. PICK t \in ks : n = EdgePos(g, b) - t BY <2>1
  <2>3. \A j \in ks : j <= t
    <3> SUFFICES ASSUME NEW j \in ks PROVE j <= t OBVIOUS
    <3>1. n <= EdgePos(g, b) - j BY <2>1
    <3> QED BY <2>2, <3>1
  <2>4. LastRead(g, b, v) \in ks /\ \A j \in ks : j <= LastRead(g, b, v)
    <3> HIDE DEF ks
    <3> QED BY <1>1, <1>3, <2>2, <2>3
  <2> QED BY <2>4
<1> QED BY <1>2, <1>3

ReadsFit(g, R) ==
    /\ R \subseteq g.live /\ IsFiniteSet(g.live) /\ NONE \notin g.live
    /\ \A b \in g.live : Range(Succs(g, b)) \subseteq g.live
    /\ \A b \in R : Range(Succs(g, b)) \subseteq R
    /\ \A b \in R : \A t \in 1..EdgePos(g, b) : \A v \in ReadsAt(g, b, t) :
          v \in Values(g) /\ (DefSite(g, v)[1] = b => DefSite(g, v)[2] < t)

LEMMA PointsFit ==
  ASSUME NEW g, IsBody(g), NEW R, ReadsFit(g, R)
  PROVE  /\ IsFiniteSet(PointsOf(g))
         /\ \A p \in PointsOf(g) : NextPoints(g, p) \subseteq PointsOf(g)
         /\ \A b \in g.live : \A t \in 0..EdgePos(g, b) : <<b, t>> \in PointsOf(g)
         /\ \A b \in g.live : \A t \in 0..EdgePos(g, b) :
               NextPoints(g, <<b, t>>) = IF t = EdgePos(g, b) THEN Range(Succs(g, b)) \X {0} ELSE {<<b, t + 1>>}
<1>1. \A b \in g.live : EdgePos(g, b) \in Nat BY BodyFacts
<1>2. IsFiniteSet(PointsOf(g))
  <2> DEFINE Row(b) == {b} \X (0..EdgePos(g, b))
  <2>1. ASSUME NEW b \in g.live PROVE IsFiniteSet(Row(b))
    <3>1. IsFiniteSet({b}) BY FS_Singleton
    <3>2. IsFiniteSet(0..EdgePos(g, b)) BY <1>1, FS_Interval
    <3> QED BY <3>1, <3>2, FS_Product
  <2> DEFINE All == {Row(b) : b \in g.live}
  <2>2. IsFiniteSet(All)
    <3> DEFINE h == [b \in g.live |-> Row(b)]
    <3>1. h \in Surjection(g.live, All) BY DEF Surjection
    <3>2. IsFiniteSet(g.live) BY DEF ReadsFit
    <3> HIDE DEF h, All
    <3> QED BY <3>1, <3>2, FS_Surjection
  <2>3. \A x \in All : IsFiniteSet(x) BY <2>1
  <2>4. PointsOf(g) = UNION All BY DEF PointsOf
  <2> HIDE DEF All
  <2> QED BY <2>2, <2>3, <2>4, FS_UNION
<1>3. \A b \in g.live : \A t \in 0..EdgePos(g, b) : <<b, t>> \in PointsOf(g) BY DEF PointsOf
<1>4. ASSUME NEW b \in g.live, NEW t \in 0..EdgePos(g, b)
      PROVE NextPoints(g, <<b, t>>) = IF t = EdgePos(g, b) THEN Range(Succs(g, b)) \X {0} ELSE {<<b, t + 1>>}
  <2>1. EdgePos(g, b) \in Nat BY <1>1
  <2>2. t < EdgePos(g, b) <=> t # EdgePos(g, b) BY <2>1
  <2>3. <<b, t>>[1] = b /\ <<b, t>>[2] = t OBVIOUS
  <2> QED BY <2>2, <2>3 DEF NextPoints
<1>5. ASSUME NEW p \in PointsOf(g) PROVE NextPoints(g, p) \subseteq PointsOf(g)
  <2>1. PICK b \in g.live : p \in {b} \X (0..EdgePos(g, b)) BY DEF PointsOf
  <2>2. PICK t \in 0..EdgePos(g, b) : p = <<b, t>> BY <2>1
  <2>3. CASE t = EdgePos(g, b)
    <3>1. NextPoints(g, p) = Range(Succs(g, b)) \X {0} BY <1>4, <2>2, <2>3
    <3>2. \A c \in Range(Succs(g, b)) : c \in g.live /\ 0 \in 0..EdgePos(g, c)
      BY <1>1 DEF ReadsFit
    <3> QED BY <1>3, <3>1, <3>2
  <2>4. CASE t # EdgePos(g, b)
    <3>1. NextPoints(g, p) = {<<b, t + 1>>} BY <1>4, <2>2, <2>4
    <3>2. t + 1 \in 0..EdgePos(g, b) BY <1>1, <2>4
    <3> QED BY <1>3, <3>1, <3>2
  <2> QED BY <2>3, <2>4
<1> QED BY <1>2, <1>3, <1>4, <1>5

\* From a point behind the definition, or in a block without it, a path goes on to
\* the end of the block.
LEMMA WalkOn ==
  ASSUME NEW g, IsBody(g), NEW R, ReadsFit(g, R), NEW v, NEW X \in SUBSET PointsOf(g),
         \A p \in X : NextPoints(g, p) \ {DefSite(g, v)} \subseteq X,
         NEW c \in g.live, NEW lo \in 0..EdgePos(g, c), <<c, lo>> \in X,
         DefSite(g, v)[1] = c => DefSite(g, v)[2] <= lo
  PROVE  \A t \in lo..EdgePos(g, c) : <<c, t>> \in X
<1> DEFINE T == {j \in Nat : lo + j <= EdgePos(g, c) => <<c, lo + j>> \in X}
<1>0. EdgePos(g, c) \in Nat /\ lo \in Nat BY BodyFacts
<1>1. 0 \in T BY <1>0
<1>2. ASSUME NEW j \in Nat, j \in T PROVE j + 1 \in T
  <2> SUFFICES ASSUME lo + (j + 1) <= EdgePos(g, c) PROVE <<c, lo + (j + 1)>> \in X OBVIOUS
  <2>1. lo + j \in 0..EdgePos(g, c) /\ lo + j # EdgePos(g, c) /\ lo + j + 1 = lo + (j + 1) BY <1>0
  <2>2. <<c, lo + j>> \in X BY <1>0, <1>2, <2>1
  <2>3. NextPoints(g, <<c, lo + j>>) = {<<c, lo + j + 1>>}
    <3>1. \A b \in g.live : \A t \in 0..EdgePos(g, b) :
             NextPoints(g, <<b, t>>) = IF t = EdgePos(g, b) THEN Range(Succs(g, b)) \X {0} ELSE {<<b, t + 1>>}
      BY PointsFit
    <3> QED BY <2>1, <3>1
  <2>4. <<c, lo + j + 1>> # DefSite(g, v)
    <3>1. CASE DefSite(g, v)[1] = c
      <4>1. DefSite(g, v)[2] \in Nat /\ DefSite(g, v)[2] <= lo BY <3>1, SiteFacts
      <4>2. DefSite(g, v)[2] # lo + j + 1 BY <1>0, <4>1
      <4>3. <<c, lo + j + 1>>[2] = lo + j + 1 OBVIOUS
      <4> QED BY <4>2, <4>3
    <3>2. CASE DefSite(g, v)[1] # c
      <4>1. <<c, lo + j + 1>>[1] = c OBVIOUS
      <4> QED BY <3>2, <4>1
    <3> QED BY <3>1, <3>2
  <2>5. <<c, lo + j + 1>> \in X BY <2>2, <2>3, <2>4
  <2> QED BY <2>1, <2>5
<1>3. Nat \subseteq T BY <1>1, <1>2, SetInduction
<1> SUFFICES ASSUME NEW t \in lo..EdgePos(g, c) PROVE <<c, t>> \in X OBVIOUS
<1>4. t - lo \in Nat /\ lo + (t - lo) = t /\ t <= EdgePos(g, c) BY <1>0
<1>5. t - lo \in T BY <1>3, <1>4
<1> QED BY <1>4, <1>5

\* Nothing is live into the block that defines it.
LEMMA HomeNotLive ==
  ASSUME NEW g, NEW R, IsFiniteSet(R), NEW v
  PROVE  DefSite(g, v)[1] \notin LiveInto(g, R, v)
<1> DEFINE Z == LiveInto(g, R, v) \ {DefSite(g, v)[1]}
<1>1. Z \in SUBSET R /\ FlowsBack(g, R, v, Z) BY LiveIntoFacts DEF FlowsBack
<1>2. LiveInto(g, R, v) \subseteq Z
  <2> HIDE DEF Z
  <2> QED BY <1>1, LiveIntoFacts
<1> QED BY <1>2

\* Where v is live into a block, a path from its beginning reads v.
LEMMA LiveReads ==
  ASSUME NEW g, IsBody(g), NEW R, ReadsFit(g, R), NEW v, NEW X \in SUBSET PointsOf(g),
         \A p \in X : NextPoints(g, p) \ {DefSite(g, v)} \subseteq X,
         NEW c \in LiveInto(g, R, v), <<c, 0>> \in X
  PROVE  \E p \in X : v \in ReadsAt(g, p[1], p[2])
<1> DEFINE home == DefSite(g, v)[1]
           G == {a \in R \ {home} : <<a, 0>> \in X => \E p \in X : v \in ReadsAt(g, p[1], p[2])}
<1>1. R \subseteq g.live /\ IsFiniteSet(R) BY FS_Subset DEF ReadsFit
<1>2. ASSUME NEW a \in R \ {home}, <<a, 0>> \in X
      PROVE  \A t \in 0..EdgePos(g, a) : <<a, t>> \in X
  <2>1. a \in g.live /\ EdgePos(g, a) \in Nat BY <1>1, BodyFacts
  <2>2. 0 \in 0..EdgePos(g, a) BY <2>1
  <2> QED BY <1>2, <2>1, <2>2, WalkOn
<1>3. UsersOf(g, R, v) \ {home} \subseteq G
  <2> SUFFICES ASSUME NEW a \in UsersOf(g, R, v) \ {home}, <<a, 0>> \in X
               PROVE  \E p \in X : v \in ReadsAt(g, p[1], p[2])
    BY DEF UsersOf
  <2>1. a \in R /\ \E t \in 1..EdgePos(g, a) : v \in ReadsAt(g, a, t) BY DEF UsersOf
  <2>2. PICK t \in 1..EdgePos(g, a) : v \in ReadsAt(g, a, t) BY <2>1
  <2>3. <<a, t>> \in X /\ <<a, t>>[1] = a /\ <<a, t>>[2] = t
    <3>1. EdgePos(g, a) \in Nat BY <1>1, <2>1, BodyFacts
    <3> QED BY <1>2, <2>1, <3>1
  <2> QED BY <2>2, <2>3
<1>4. ASSUME NEW d \in G, NEW a \in (PredSet(g, d) \cap R) \ {home}, <<a, 0>> \in X
      PROVE  \E p \in X : v \in ReadsAt(g, p[1], p[2])
  <2>1. a \in g.live /\ EdgePos(g, a) \in Nat /\ d \in Range(Succs(g, a)) BY <1>1, BodyFacts DEF PredSet
  <2>2. EdgePos(g, a) \in 0..EdgePos(g, a) BY <2>1
  <2>3. <<a, EdgePos(g, a)>> \in X BY <1>2, <1>4, <2>2
  <2>4. NextPoints(g, <<a, EdgePos(g, a)>>) = Range(Succs(g, a)) \X {0} BY <2>1, <2>2, PointsFit
  <2>5. <<d, 0>> \in NextPoints(g, <<a, EdgePos(g, a)>>) BY <2>1, <2>4
  <2>6. <<d, 0>> # DefSite(g, v)
    <3>1. <<d, 0>>[1] = d /\ d # home OBVIOUS
    <3> QED BY <3>1
  <2>7. <<d, 0>> \in X BY <2>3, <2>5, <2>6
  <2> QED BY <2>7
<1>5. FlowsBack(g, R, v, G) BY <1>3, <1>4 DEF FlowsBack
<1>6. G \in SUBSET R OBVIOUS
<1>7. c \in G
  <2> HIDE DEF G
  <2> QED BY <1>1, <1>5, <1>6, LiveIntoFacts
<1> QED BY <1>7

LiveAt(g, R, b, p, v) ==
    From(g, b, v) < p /\ p < (IF b \in LiveOut(g, R, v) THEN EdgePos(g, b) ELSE LastRead(g, b, v))

LEMMA LiveGivesPath ==
  ASSUME NEW g, IsBody(g), NEW R, ReadsFit(g, R), NEW b \in R, NEW p \in 1..OwnPos(g, b), NEW v,
         LiveAt(g, R, b, p, v), NEW X \in SUBSET PointsOf(g), OnwardFrom(g, <<b, p>>, v, X)
  PROVE  DefSite(g, v) # <<b, p>> /\ \E q \in X : v \in ReadsAt(g, q[1], q[2])
<1>1. /\ b \in g.live /\ EdgePos(g, b) \in Nat /\ OwnPos(g, b) \in Nat /\ EdgePos(g, b) = OwnPos(g, b) + 1
      /\ p \in Nat /\ p >= 1 /\ p < EdgePos(g, b) /\ p + 1 \in 0..EdgePos(g, b) /\ p \in 0..EdgePos(g, b)
  <2>1. b \in g.live BY DEF ReadsFit
  <2> QED BY <2>1, BodyFacts
<1>2. DefSite(g, v)[1] = b => DefSite(g, v)[2] < p BY DEF LiveAt, From
<1>3. DefSite(g, v) # <<b, p>> /\ DefSite(g, v) # <<b, p + 1>>
  <2>1. <<b, p>>[1] = b /\ <<b, p>>[2] = p /\ <<b, p + 1>>[1] = b /\ <<b, p + 1>>[2] = p + 1 OBVIOUS
  <2>2. DefSite(g, v)[2] \in Nat BY SiteFacts
  <2> QED BY <1>1, <1>2, <2>1, <2>2
<1>4. \A q \in X : NextPoints(g, q) \ {DefSite(g, v)} \subseteq X BY DEF OnwardFrom
<1>5. <<b, p + 1>> \in X
  <2>1. NextPoints(g, <<b, p>>) = {<<b, p + 1>>}
    <3>1. p # EdgePos(g, b) BY <1>1
    <3> QED BY <1>1, <3>1, PointsFit
  <2>2. NextPoints(g, <<b, p>>) \ {DefSite(g, v)} \subseteq X BY DEF OnwardFrom
  <2> QED BY <1>3, <2>1, <2>2
<1>6. \A t \in (p + 1)..EdgePos(g, b) : <<b, t>> \in X
  <2>1. DefSite(g, v)[1] = b => DefSite(g, v)[2] <= p + 1
    <3>1. DefSite(g, v)[2] \in Nat BY SiteFacts
    <3> QED BY <1>1, <1>2, <3>1
  <2> QED BY <1>1, <1>4, <1>5, <2>1, WalkOn
<1>7. CASE b \in LiveOut(g, R, v)
  <2>1. PICK c \in LiveInto(g, R, v) : b \in PredSet(g, c) BY <1>7 DEF LiveOut
  <2>2. c \in Range(Succs(g, b)) BY <2>1 DEF PredSet
  <2>3. EdgePos(g, b) \in 0..EdgePos(g, b) /\ EdgePos(g, b) \in (p + 1)..EdgePos(g, b) BY <1>1
  <2>4. NextPoints(g, <<b, EdgePos(g, b)>>) = Range(Succs(g, b)) \X {0} BY <1>1, <2>3, PointsFit
  <2>5. c # DefSite(g, v)[1]
    <3>1. IsFiniteSet(R) BY FS_Subset DEF ReadsFit
    <3> QED BY <3>1, HomeNotLive
  <2>6. <<c, 0>> # DefSite(g, v)
    <3>1. <<c, 0>>[1] = c OBVIOUS
    <3> QED BY <2>5, <3>1
  <2>7. <<b, EdgePos(g, b)>> \in X BY <1>6, <2>3
  <2>8. <<c, 0>> \in X BY <1>4, <2>2, <2>4, <2>6, <2>7
  <2> QED BY <1>3, <1>4, <2>8, LiveReads
<1>8. CASE b \notin LiveOut(g, R, v)
  <2>1. p < LastRead(g, b, v) BY <1>8 DEF LiveAt
  <2>2. PICK t \in 1..EdgePos(g, b) : v \in ReadsAt(g, b, t) /\ p < t BY <1>1, <2>1, LastReadFacts
  <2>3. t \in (p + 1)..EdgePos(g, b) BY <1>1, <2>2
  <2>4. <<b, t>> \in X /\ <<b, t>>[1] = b /\ <<b, t>>[2] = t BY <1>6, <2>3
  <2> QED BY <1>3, <2>2, <2>4
<1> QED BY <1>7, <1>8

\* A path that reads v keeps to R, and enters no block but at its beginning.
LEMMA PathGivesLive ==
  ASSUME NEW g, IsBody(g), NEW R, ReadsFit(g, R), NEW b \in R, NEW p \in 1..OwnPos(g, b), NEW v,
         DefSite(g, v) # <<b, p>>, NEW O \in SUBSET PointsOf(g),
         \A X \in SUBSET PointsOf(g) : OnwardFrom(g, <<b, p>>, v, X) => O \subseteq X,
         NEW q \in O, v \in ReadsAt(g, q[1], q[2])
  PROVE  LiveAt(g, R, b, p, v) /\ \E a \in R : \E t \in 1..EdgePos(g, a) : v \in ReadsAt(g, a, t)
<1> DEFINE home == DefSite(g, v)[1]  d == DefSite(g, v)[2]  U == PointsOf(g)
<1>1. /\ b \in g.live /\ EdgePos(g, b) \in Nat /\ OwnPos(g, b) \in Nat /\ EdgePos(g, b) = OwnPos(g, b) + 1
      /\ p \in Nat /\ p >= 1 /\ p < EdgePos(g, b) /\ p \in 0..EdgePos(g, b) /\ p + 1 \in 0..EdgePos(g, b)
  <2>1. b \in g.live BY DEF ReadsFit
  <2> QED BY <2>1, BodyFacts
<1>2. R \subseteq g.live /\ IsFiniteSet(R) /\ \A a \in R : EdgePos(g, a) \in Nat
  <2>1. R \subseteq g.live /\ IsFiniteSet(R) BY FS_Subset DEF ReadsFit
  <2> QED BY <2>1, BodyFacts
<1>3. DefSite(g, v) = <<home, d>> /\ d \in Nat
      /\ (home \in g.live => d <= Len(Insts(g, home)) /\ d < EdgePos(g, home) /\ EdgePos(g, home) \in Nat)
  <2>1. DefSite(g, v) = <<home, d>> /\ d \in Nat /\ (home \in g.live => d <= Len(Insts(g, home)))
    BY SiteFacts
  <2>2. home \in g.live => Len(Insts(g, home)) \in Nat /\ EdgePos(g, home) = Len(Insts(g, home)) + 2
    BY BodyFacts
  <2> HIDE DEF home, d
  <2> QED BY <2>1, <2>2
<1>4. \A a \in R : \A t \in 0..EdgePos(g, a) :
         /\ <<a, t>> \in U
         /\ t # EdgePos(g, a) => NextPoints(g, <<a, t>>) = {<<a, t + 1>>} /\ t + 1 \in 0..EdgePos(g, a)
         /\ t = EdgePos(g, a) => NextPoints(g, <<a, t>>) = Range(Succs(g, a)) \X {0}
                                 /\ Range(Succs(g, a)) \subseteq R
  <2> SUFFICES ASSUME NEW a \in R, NEW t \in 0..EdgePos(g, a)
               PROVE  /\ <<a, t>> \in U
                      /\ t # EdgePos(g, a) => NextPoints(g, <<a, t>>) = {<<a, t + 1>>} /\ t + 1 \in 0..EdgePos(g, a)
                      /\ t = EdgePos(g, a) => NextPoints(g, <<a, t>>) = Range(Succs(g, a)) \X {0}
                                              /\ Range(Succs(g, a)) \subseteq R
    OBVIOUS
  <2>1. a \in g.live /\ EdgePos(g, a) \in Nat BY <1>2
  <2>2. t # EdgePos(g, a) => t + 1 \in 0..EdgePos(g, a) BY <2>1
  <2>3. Range(Succs(g, a)) \subseteq R BY DEF ReadsFit
  <2> QED BY <2>1, <2>2, <2>3, PointsFit
<1>5. \A a : \A t : v \in ReadsAt(g, a, t) => t # 0 BY DEF ReadsAt
<1> DEFINE All == UNION {{a} \X (0..EdgePos(g, a)) : a \in R}
<1>6. All \in SUBSET U /\ \A x \in All : \E a \in R : \E t \in 0..EdgePos(g, a) : x = <<a, t>>
  BY <1>4
<1>7. \A a \in R : \A t \in 0..EdgePos(g, a) : <<a, t>> \in All OBVIOUS
<1> HIDE DEF All, U, home, d
<1>8. \E a \in R : \E t \in 1..EdgePos(g, a) : q = <<a, t>> /\ v \in ReadsAt(g, a, t)
  <2>1. ASSUME NEW a \in R, NEW t \in 0..EdgePos(g, a) PROVE NextPoints(g, <<a, t>>) \subseteq All
    <3>1. CASE t # EdgePos(g, a) BY <1>4, <1>7, <3>1
    <3>2. CASE t = EdgePos(g, a)
      <4>1. NextPoints(g, <<a, t>>) = Range(Succs(g, a)) \X {0} /\ Range(Succs(g, a)) \subseteq R
        BY <1>4, <3>2
      <4>2. \A c \in R : 0 \in 0..EdgePos(g, c) BY <1>2
      <4> QED BY <1>7, <4>1, <4>2
    <3> QED BY <3>1, <3>2
  <2>2. OnwardFrom(g, <<b, p>>, v, All)
    <3>1. NextPoints(g, <<b, p>>) \subseteq All BY <1>1, <2>1
    <3>2. \A x \in All : NextPoints(g, x) \subseteq All BY <1>6, <2>1
    <3> QED BY <3>1, <3>2 DEF OnwardFrom
  <2>3. q \in All BY <1>6, <2>2 DEF U
  <2>4. PICK a, t : a \in R /\ t \in 0..EdgePos(g, a) /\ q = <<a, t>> BY <1>6, <2>3
  <2>5. q[1] = a /\ q[2] = t BY <2>4
  <2>6. v \in ReadsAt(g, a, t) BY <2>5
  <2>7. t \in 1..EdgePos(g, a) BY <1>2, <1>5, <2>4, <2>6
  <2> QED BY <2>4, <2>6, <2>7
<1>9. PICK a0, k0 : a0 \in R /\ k0 \in 1..EdgePos(g, a0) /\ q = <<a0, k0>> /\ v \in ReadsAt(g, a0, k0) BY <1>8
<1>10. home = a0 => d < k0 BY <1>9 DEF ReadsFit, home, d
<1>11. From(g, b, v) < p
  <2>1. CASE home # b BY <1>1, <2>1 DEF From, home
  <2>2. CASE home = b /\ d < p BY <2>2 DEF From, home, d
  <2>3. CASE home = b /\ ~(d < p)
    <3>1. d # p BY <1>3, <2>3
    <3>2. p < d /\ d < EdgePos(g, b) BY <1>1, <1>3, <2>3, <3>1
    <3> DEFINE X == {<<b, t>> : t \in (p + 1)..(d - 1)}
    <3>3. X \in SUBSET U
      <4>1. \A t \in (p + 1)..(d - 1) : t \in 0..EdgePos(g, b) BY <1>1, <1>3, <3>2
      <4> QED BY <1>4, <4>1
    <3>4. ASSUME NEW t \in p..(d - 1) PROVE NextPoints(g, <<b, t>>) \ {DefSite(g, v)} \subseteq X
      <4>0. d \in Nat /\ p \in Nat /\ EdgePos(g, b) \in Nat /\ t \in Int /\ p <= t /\ t <= d - 1
        BY <1>1, <1>3
      <4>1. t \in 0..EdgePos(g, b) /\ t # EdgePos(g, b) /\ (t + 1 = d \/ t + 1 \in (p + 1)..(d - 1))
        <5> HIDE DEF X
        <5> QED BY <3>2, <4>0
      <4>2. NextPoints(g, <<b, t>>) = {<<b, t + 1>>} BY <1>4, <4>1
      <4> QED BY <1>3, <2>3, <4>1, <4>2
    <3>5. OnwardFrom(g, <<b, p>>, v, X)
      <4>1. p \in p..(d - 1) /\ \A t \in (p + 1)..(d - 1) : t \in p..(d - 1) BY <1>1, <1>3, <3>2
      <4> HIDE DEF X
      <4>2. \A x \in X : \E t \in p..(d - 1) : x = <<b, t>> BY <4>1 DEF X
      <4>3. \A x \in X \cup {<<b, p>>} : \E t \in p..(d - 1) : x = <<b, t>> BY <4>1, <4>2
      <4> QED BY <3>4, <4>3 DEF OnwardFrom
    <3>6. q \in X
      <4> HIDE DEF X
      <4> QED BY <3>3, <3>5 DEF U
    <3>7. PICK t \in (p + 1)..(d - 1) : q = <<b, t>> BY <3>6
    <3>8. a0 = b /\ k0 = t BY <1>9, <3>7
    <3>9. d < k0 BY <1>10, <2>3, <3>8
    <3> QED BY <1>1, <1>3, <3>7, <3>8, <3>9
  <2> QED BY <2>1, <2>2, <2>3
<1>12. CASE b \in LiveOut(g, R, v) BY <1>1, <1>9, <1>11, <1>12 DEF LiveAt
<1>13. CASE b \notin LiveOut(g, R, v)
  <2> SUFFICES ASSUME ~(p < LastRead(g, b, v)) PROVE FALSE BY <1>9, <1>11, <1>13 DEF LiveAt
  <2>1. \A t \in 1..EdgePos(g, b) : p < t => v \notin ReadsAt(g, b, t) BY <1>1, LastReadFacts
  <2> DEFINE L == LiveInto(g, R, v)
             In(a, t) == \/ a = b /\ p < t
                         \/ a # home /\ a \notin L
                         \/ a = home /\ t < d
             X == {x \in All : In(x[1], x[2])}
  <2>2. UsersOf(g, R, v) \ {home} \subseteq L /\ \A c \in L : (PredSet(g, c) \cap R) \ {home} \subseteq L
    BY <1>2, LiveIntoFacts DEF FlowsBack, home
  <2>3. \A a \in R : \A t \in 0..EdgePos(g, a) : <<a, t>> \in X <=> In(a, t)
    <3> SUFFICES ASSUME NEW a \in R, NEW t \in 0..EdgePos(g, a) PROVE <<a, t>> \in X <=> In(a, t) OBVIOUS
    <3>1. <<a, t>> \in All /\ <<a, t>>[1] = a /\ <<a, t>>[2] = t BY <1>7
    <3> HIDE DEF In
    <3> QED BY <3>1
  <2>4. ASSUME NEW a \in R, NEW t \in 0..EdgePos(g, a), In(a, t) \/ <<a, t>> = <<b, p>>
        PROVE  NextPoints(g, <<a, t>>) \ {DefSite(g, v)} \subseteq X
    <3>0. EdgePos(g, a) \in Nat /\ t \in Nat BY <1>2
    <3>1. CASE t # EdgePos(g, a)
      <4>1. NextPoints(g, <<a, t>>) = {<<a, t + 1>>} /\ t + 1 \in 0..EdgePos(g, a) BY <1>4, <3>1
      <4>2. (a = home /\ t + 1 = d) \/ In(a, t + 1)
        <5> HIDE DEF L
        <5> QED BY <1>1, <1>3, <2>4, <3>0
      <4>3. <<a, t + 1>> = DefSite(g, v) \/ In(a, t + 1) BY <1>3, <4>2
      <4> HIDE DEF In, X
      <4> QED BY <2>3, <4>1, <4>3
    <3>2. CASE t = EdgePos(g, a)
      <4>1. NextPoints(g, <<a, t>>) = Range(Succs(g, a)) \X {0} /\ Range(Succs(g, a)) \subseteq R
        BY <1>4, <3>2
      <4>2. a = b \/ (a # home /\ a \notin L)
        <5>1. ~(a = home /\ t < d) BY <1>2, <1>3, <3>0, <3>2
        <5> HIDE DEF L
        <5> QED BY <2>4, <5>1
      <4>3. ASSUME NEW c \in Range(Succs(g, a)) PROVE c \notin L
        <5>1. a \in PredSet(g, c) BY <1>2, <4>3 DEF PredSet
        <5>2. CASE a = b BY <1>13, <5>1, <5>2 DEF LiveOut
        <5>3. CASE a # home /\ a \notin L BY <2>2, <5>1, <5>3
        <5> QED BY <4>2, <5>2, <5>3
      <4>4. ASSUME NEW c \in Range(Succs(g, a)), <<c, 0>> # DefSite(g, v) PROVE <<c, 0>> \in X
        <5>1. c \in R /\ 0 \in 0..EdgePos(g, c) BY <1>2, <4>1
        <5>2. In(c, 0)
          <6>1. CASE c # home BY <4>3, <6>1
          <6>2. CASE c = home
            <7>1. d # 0 BY <1>3, <4>4, <6>2
            <7>2. 0 < d BY <1>3, <7>1
            <7> QED BY <6>2, <7>2
          <6> QED BY <6>1, <6>2
        <5> HIDE DEF In, X
        <5> QED BY <2>3, <5>1, <5>2
      <4> HIDE DEF X
      <4> QED BY <4>1, <4>4
    <3> QED BY <3>1, <3>2
  <2>5. OnwardFrom(g, <<b, p>>, v, X)
    <3>1. NextPoints(g, <<b, p>>) \ {DefSite(g, v)} \subseteq X BY <1>1, <2>4
    <3>2. ASSUME NEW x \in X PROVE NextPoints(g, x) \ {DefSite(g, v)} \subseteq X
      <4>1. x \in All OBVIOUS
      <4>2. PICK a, t : a \in R /\ t \in 0..EdgePos(g, a) /\ x = <<a, t>> BY <1>6, <4>1
      <4>3. In(a, t)
        <5> HIDE DEF X, In
        <5> QED BY <2>3, <4>2
      <4> HIDE DEF X, In
      <4> QED BY <2>4, <4>2, <4>3
    <3> HIDE DEF X
    <3> QED BY <3>1, <3>2 DEF OnwardFrom
  <2>6. q \in X
    <3>1. X \in SUBSET PointsOf(g) BY <1>6 DEF U
    <3> HIDE DEF X
    <3> QED BY <2>5, <3>1
  <2>7. In(a0, k0)
    <3>1. k0 \in 0..EdgePos(g, a0) BY <1>2, <1>9
    <3> HIDE DEF X, In
    <3> QED BY <1>9, <2>3, <2>6, <3>1
  <2>8. a0 \in UsersOf(g, R, v) BY <1>9 DEF UsersOf
  <2>9. CASE a0 = b /\ p < k0 BY <1>9, <2>1, <2>9
  <2>10. CASE a0 # home /\ a0 \notin L BY <2>2, <2>8, <2>10
  <2>11. CASE a0 = home /\ k0 < d
    <3>1. d < k0 /\ k0 \in Nat BY <1>2, <1>9, <1>10, <2>11
    <3> QED BY <1>3, <2>11, <3>1
  <2> QED BY <2>7, <2>9, <2>10, <2>11
<1> QED BY <1>12, <1>13

------------------------------------------------------------------------------
(* What the structural checks establish. *)
LEMMA NoErrorFound ==
  ASSUME NEW n \in Nat, NEW vs, DOMAIN vs = 1..n, FirstError(vs) = "ok"
  PROVE  \A t \in 1..n : vs[t] = "ok"
<1> DEFINE bad == {t \in DOMAIN vs : vs[t] # "ok"}
<1>1. FirstError(vs) = IF bad = {} THEN "ok" ELSE vs[CHOOSE t \in bad : \A j \in bad : t <= j]
  BY DEF FirstError
<1>2. CASE bad = {} BY <1>2
<1>3. CASE bad # {}
  <2>1. \E t \in bad : \A j \in bad : t <= j
    <3>1. bad \in SUBSET Nat OBVIOUS
    <3> HIDE DEF bad
    <3> QED BY <1>3, <3>1, LeastNumber
  <2> DEFINE m == CHOOSE t \in bad : \A j \in bad : t <= j
  <2>2. m \in bad
    <3> HIDE DEF bad
    <3> QED BY <2>1
  <2>3. vs[m] # "ok" BY <2>2
  <2> HIDE DEF bad, m
  <2>4. FirstError(vs) = vs[m] BY <1>1, <1>3 DEF m
  <2> QED BY <2>3, <2>4
<1> QED BY <1>2, <1>3

LEMMA AllChecksPass ==
  ASSUME NEW g, ValidateStructure(g) = "ok"
  PROVE  /\ CheckEntry(g) = "ok" /\ CheckAliases(g) = "ok" /\ CheckTypes(g) = "ok"
         /\ CheckDominance(g) = "ok"
<1> DEFINE vs == <<CheckEntry(g), CheckAliases(g), CheckDefinitions(g)>>
           shape == FirstError(vs)
           types == IF shape = "ok" THEN CheckTypes(g) ELSE shape
           eh == IF types = "ok" THEN CheckEhAndAttrs(g) ELSE types
<1>1. ValidateStructure(g) = IF eh = "ok" THEN CheckDominance(g) ELSE eh BY DEF ValidateStructure
<1>2. DOMAIN vs = 1..3 /\ vs[1] = CheckEntry(g) /\ vs[2] = CheckAliases(g) OBVIOUS
<1> HIDE DEF vs
<1>3. eh = "ok" /\ types = "ok" /\ shape = "ok" BY <1>1
<1>4. \A t \in 1..3 : vs[t] = "ok" BY <1>2, <1>3, NoErrorFound
<1> QED BY <1>1, <1>2, <1>3, <1>4

\* A chain of forwarding ends in a value of the function.
LEMMA ResolvesWithin ==
  ASSUME NEW g, CheckAliases(g) = "ok", NEW v \in Values(g)
  PROVE  Resolve(g, v) \in Values(g)
<1> DEFINE S == Values(g)
           T == {u \in S : g.val[u].alias = NONE}
           out == [u \in S |-> u]
           step == [u \in S |-> g.val[u].alias]
           Body(w, u) == IF g.val[u].alias = NONE THEN u ELSE w[g.val[u].alias]
           W == CHOOSE w : w = [u \in S |-> Body(w, u)]
           moves == {u \in S : g.val[u].alias # NONE}
<1>1. /\ \A u \in moves : g.val[u].alias \in S
      /\ \A X \in (SUBSET moves) \ {{}} : \E u \in X : g.val[u].alias \notin X
  BY DEF CheckAliases, Require
<1>2. Resolve(g, v) = W[v] BY DEF Resolve
<1>3. \A w : [u \in S |-> Body(w, u)] = [u \in S |-> IF u \in T THEN out[u] ELSE w[step[u]]]
  OBVIOUS
<1>4. \E w : LoopIs(w, S, T, out, step)
  <2>1. \A u \in S \ T : step[u] \in S BY <1>1
  <2> HIDE DEF S, T, out, step
  <2> QED BY ONLY <2>1, LoopExists
<1>5. W = [u \in S |-> Body(W, u)]
  <2>1. \E w : w = [u \in S |-> Body(w, u)] BY <1>3, <1>4 DEF LoopIs
  <2> QED BY <2>1
<1> HIDE DEF W
<1>6. \A u \in S : W[u] = Body(W, u)
  <2> HIDE DEF Body
  <2> QED BY <1>5
<1> DEFINE bad == {u \in S : W[u] \notin S}
<1>7. bad \in SUBSET moves BY <1>6
<1>8. bad = {}
  <2> SUFFICES ASSUME bad # {} PROVE FALSE OBVIOUS
  <2>1. PICK u \in bad : g.val[u].alias \notin bad
    <3> HIDE DEF bad, moves, S
    <3> QED BY <1>1, <1>7
  <2>2. u \in moves /\ g.val[u].alias \in S BY <1>1, <1>7
  <2>3. W[u] = W[g.val[u].alias] BY <1>6, <2>2
  <2> QED BY <2>1, <2>2, <2>3
<1> QED BY <1>2, <1>8

LEMMA TypesFacts ==
  ASSUME NEW g, CheckTypes(g) = "ok", NEW b \in g.live
  PROVE  /\ \A i \in Range(Insts(g, b)) : Range(Operands(g.inst[i])) \subseteq Values(g)
         /\ Range(Operands(Term(g, b))) \subseteq Values(g)
         /\ \A t \in DOMAIN Term(g, b).edges : EdgeOk(g, Term(g, b), t)
<1>1. \A c \in g.live : /\ \A i \in Range(Insts(g, c)) : InstTypesOk(g, i)
                        /\ TerminatorOk(g, Term(g, c))
  BY DEF CheckTypes, Require
<1>2. \A i \in Range(Insts(g, b)) : Range(Operands(g.inst[i])) \subseteq Values(g)
  BY <1>1 DEF InstTypesOk, OperandsExist
<1>3. TerminatorOk(g, Term(g, b)) BY <1>1
<1> QED BY <1>2, <1>3 DEF TerminatorOk, OperandsExist

LEMMA ReadsAreValues ==
  ASSUME NEW g, IsBody(g), CheckTypes(g) = "ok", CheckAliases(g) = "ok",
         NEW b \in g.live, NEW t \in 1..EdgePos(g, b), NEW v \in ReadsAt(g, b, t)
  PROVE  v \in Values(g)
<1>1. /\ \A i \in Range(Insts(g, b)) : Range(Operands(g.inst[i])) \subseteq Values(g)
      /\ Range(Operands(Term(g, b))) \subseteq Values(g)
      /\ \A j \in DOMAIN Term(g, b).edges : EdgeOk(g, Term(g, b), j)
  BY TypesFacts
<1>2. /\ Len(Insts(g, b)) \in Nat /\ DOMAIN Insts(g, b) = 1..Len(Insts(g, b))
      /\ OwnPos(g, b) = Len(Insts(g, b)) + 1 /\ EdgePos(g, b) = Len(Insts(g, b)) + 2 /\ t # 0
  BY BodyFacts
<1>3. CASE t = EdgePos(g, b)
  <2>1. v \in EdgeValues(g, b) BY <1>2, <1>3 DEF ReadsAt
  <2>2. PICK e \in Range(Term(g, b).edges) :
           v \in {Resolve(g, a.n) : a \in {x \in Range(e.args) : x.kind = "value"}}
    BY <2>1 DEF EdgeValues
  <2>3. PICK a \in Range(e.args) : a.kind = "value" /\ v = Resolve(g, a.n) BY <2>2
  <2>4. PICK j \in DOMAIN Term(g, b).edges : Term(g, b).edges[j] = e BY DEF Range
  <2>5. PICK i \in DOMAIN e.args : e.args[i] = a BY DEF Range
  <2>6. /\ e.block \in g.live /\ Len(e.args) = Len(g.blk[e.block].params)
        /\ \A x \in DOMAIN g.blk[e.block].params :
              EdgeArgOk(g, Term(g, b), j, e.args[x], g.val[g.blk[e.block].params[x]].ty)
    BY <1>1, <2>4 DEF EdgeOk
  <2>7. DOMAIN e.args = DOMAIN g.blk[e.block].params
    <3>1. g.blk[e.block].params \in Seq(Nat) /\ \E T : e.args \in Seq(T) BY <2>6 DEF IsBody
    <3>2. DOMAIN e.args = 1..Len(e.args) BY <3>1, LenProperties
    <3>3. DOMAIN g.blk[e.block].params = 1..Len(g.blk[e.block].params) BY <3>1, LenProperties
    <3> QED BY <2>6, <3>2, <3>3
  <2>8. EdgeArgOk(g, Term(g, b), j, a, g.val[g.blk[e.block].params[i]].ty) BY <2>5, <2>6, <2>7
  <2>9. a.n \in Values(g) BY <2>3, <2>8 DEF EdgeArgOk
  <2> QED BY <2>3, <2>9, ResolvesWithin
<1>4. CASE t = OwnPos(g, b)
  <2>1. v \in {Resolve(g, u) : u \in Range(Operands(Term(g, b)))} BY <1>2, <1>4 DEF ReadsAt
  <2> QED BY <1>1, <2>1, ResolvesWithin
<1>5. CASE t # OwnPos(g, b) /\ t # EdgePos(g, b)
  <2>1. v \in {Resolve(g, u) : u \in Range(Operands(g.inst[Insts(g, b)[t]]))} BY <1>2, <1>5 DEF ReadsAt
  <2>2. t \in DOMAIN Insts(g, b) BY <1>2, <1>5
  <2>3. Insts(g, b)[t] \in Range(Insts(g, b)) BY <2>2 DEF Range
  <2> QED BY <1>1, <2>1, <2>3, ResolvesWithin
<1> QED BY <1>3, <1>4, <1>5

LEMMA StructureFits ==
  ASSUME NEW g, IsBody(g), IsGraph(SuccsOf(g)), ValidateStructure(g) = "ok"
  PROVE  ReadsFit(g, Range(Rpo(g)))
<1> DEFINE succ == SuccsOf(g)  R == Range(Rpo(g))
<1>1. /\ CheckEntry(g) = "ok" /\ CheckAliases(g) = "ok" /\ CheckTypes(g) = "ok"
      /\ CheckDominance(g) = "ok"
  BY AllChecksPass
<1>2. DOMAIN succ = Blocks(g) /\ \A b \in Blocks(g) : succ[b] = Succs(g, b) BY DEF SuccsOf
<1>3. R = ReachableIn(succ) BY SearchFinds DEF Rpo, RunsOn
<1>4. g.live \subseteq Blocks(g) BY DEF IsBody
<1>5. \A b \in g.live : Range(Succs(g, b)) \subseteq g.live
  <2> SUFFICES ASSUME NEW b \in g.live, NEW c \in Range(Succs(g, b)) PROVE c \in g.live OBVIOUS
  <2>1. Succs(g, b) = [t \in DOMAIN Term(g, b).edges |-> Term(g, b).edges[t].block] BY DEF Succs
  <2>2. PICK t \in DOMAIN Term(g, b).edges : c = Term(g, b).edges[t].block BY <2>1 DEF Range
  <2>3. EdgeOk(g, Term(g, b), t) BY <1>1, TypesFacts
  <2> QED BY <2>2, <2>3 DEF EdgeOk
<1>6. R \subseteq g.live
  <2>1. Entry \in g.live BY <1>1 DEF CheckEntry, Require
  <2>2. ClosedOver(succ, g.live) BY <1>2, <1>4, <1>5 DEF ClosedOver
  <2>3. g.live \in SUBSET DOMAIN succ BY <1>2, <1>4
  <2> QED BY <1>3, <2>1, <2>2, <2>3 DEF ReachableIn
<1>7. IsFiniteSet(g.live) /\ NONE \notin g.live
  <2>1. IsFiniteSet(DOMAIN succ) /\ NONE \notin DOMAIN succ BY GraphFacts
  <2> QED BY <1>2, <1>4, <2>1, FS_Subset
<1>8. \A b \in R : Range(Succs(g, b)) \subseteq R
  <2>1. ClosedOver(succ, R) BY <1>3, ReachableIsClosed
  <2> QED BY <1>2, <1>4, <1>6, <2>1 DEF ClosedOver
<1>9. ASSUME NEW b \in R, NEW t \in 1..EdgePos(g, b), NEW v \in ReadsAt(g, b, t)
      PROVE  v \in Values(g) /\ (DefSite(g, v)[1] = b => DefSite(g, v)[2] < t)
  <2>1. v \in Values(g) BY <1>1, <1>6, ReadsAreValues
  <2>2. b \in Reached(TreeOf(g))
    <3>1. b \in DOMAIN succ BY <1>2, <1>4, <1>6
    <3>2. b \in ReachAvoiding(succ, {}) BY <1>3, ReachableIsClosed
    <3>3. DOMAIN Idoms(succ) = DOMAIN succ /\ Idoms(succ)[b] # NONE BY <3>1, <3>2, IdomsAreDominators
    <3> HIDE DEF succ
    <3> QED BY <3>1, <3>3 DEF Reached, TreeOf, succ
  <2>3. \A c \in Reached(TreeOf(g)) : \A j \in 1..EdgePos(g, c) :
           \A u \in ReadsAt(g, c, j) : Available(g, TreeOf(g), c, j, u)
    <3> DEFINE P(z) == \A c \in Reached(z) : \A j \in 1..EdgePos(g, c) :
                          \A u \in ReadsAt(g, c, j) : Available(g, z, c, j, u)
               F(z) == Require(P(z), "Dominance")
    <3>1. CheckDominance(g) = CHOOSE y \in {F(x) : x \in {TreeOf(g)}} : TRUE
      BY DEF CheckDominance, With
    <3>2. \A x : \A y \in {x} : (CHOOSE z \in {y} : TRUE) = x OBVIOUS
    <3>3. {F(x) : x \in {TreeOf(g)}} = {F(TreeOf(g))} OBVIOUS
    <3>4. CheckDominance(g) = F(TreeOf(g))
      <4> HIDE DEF F
      <4> QED BY <3>1, <3>2, <3>3
    <3>5. F(TreeOf(g)) = IF P(TreeOf(g)) THEN "ok" ELSE "Dominance"
      <4> HIDE DEF P
      <4> QED BY DEF Require
    <3> HIDE DEF F, P
    <3>6. P(TreeOf(g)) BY <1>1, <3>4, <3>5
    <3> QED BY <3>6 DEF P
  <2>4. Available(g, TreeOf(g), b, t, v) BY <2>2, <2>3
  <2>5. DefSite(g, v)[1] = b => DefSite(g, v)[2] < t BY <2>4 DEF Available
  <2> QED BY <2>1, <2>5
<1> QED BY <1>5, <1>6, <1>7, <1>8, <1>9 DEF ReadsFit

------------------------------------------------------------------------------
(* The safepoints listed, and what lives across them. *)
Sites(g, R) == UNION {{b} \X SafepointsOf(g, b) : b \in R}
LEMMA SitesListed ==
  ASSUME NEW g, IsBody(g), Rpo(g) \in Seq(g.live)
  PROVE  SafepointSeq(g) \in Seq(Sites(g, Range(Rpo(g))))
<1> DEFINE rpo == Rpo(g)
           A == Sites(g, Range(rpo))
           N == Len(rpo)
           At(b) == LET ks == Sorted(SafepointsOf(g, b)) IN [j \in DOMAIN ks |-> <<b, ks[j]>>]
           Body(w, n) == IF n = 0 THEN <<>> ELSE w[n - 1] \o At(rpo[n])
           W == CHOOSE w : w = [n \in 0..N |-> Body(w, n)]
<1>1. SafepointSeq(g) = W[N] BY DEF SafepointSeq
<1>2. N \in Nat /\ DOMAIN rpo = 1..N /\ \A n \in 1..N : rpo[n] \in g.live /\ rpo[n] \in Range(rpo)
  <2>1. N \in Nat /\ DOMAIN rpo = 1..N BY LenProperties
  <2> HIDE DEF rpo, N
  <2>2. \A n \in 1..N : rpo[n] \in g.live BY <2>1, ElementOfSeq DEF rpo, N
  <2> QED BY <2>1, <2>2 DEF Range
<1>3. ASSUME NEW n \in 1..N PROVE At(rpo[n]) \in Seq(A)
  <2> DEFINE b == rpo[n]  K == SafepointsOf(g, b)
  <2>1. b \in g.live /\ b \in Range(rpo) BY <1>2
  <2> HIDE DEF b
  <2>2. K \in SUBSET (1..OwnPos(g, b)) /\ OwnPos(g, b) \in Nat BY <2>1, BodyFacts
  <2>3. Cardinality(K) \in Nat /\ \A j \in 1..Cardinality(K) : Nth(K, j) \in K
    <3> HIDE DEF K
    <3> QED BY <2>2, NthFacts
  <2>4. Sorted(K) = [j \in 1..Cardinality(K) |-> Nth(K, j)] BY DEF Sorted
  <2>5. At(b) = [j \in 1..Cardinality(K) |-> <<b, Nth(K, j)>>] BY <2>4
  <2>6. \A j \in 1..Cardinality(K) : <<b, Nth(K, j)>> \in A BY <2>1, <2>3 DEF Sites
  <2> HIDE DEF A, K, At
  <2>7. At(b) \in [1..Cardinality(K) -> A] BY <2>5, <2>6
  <2> QED BY <2>3, <2>7, FunctionSeq DEF b
<1> HIDE DEF rpo, A, N, At
<1>4. \E w : w = [n \in 0..N |-> Body(w, n)]
  <2> DEFINE T == {m \in Nat : \E w : w = [n \in 0..m |-> Body(w, n)]}
  <2>1. 0 \in T
    <3> DEFINE w == [n \in 0..0 |-> <<>>]
    <3>1. \A n \in 0..0 : Body(w, n) = <<>> OBVIOUS
    <3>2. w = [n \in 0..0 |-> Body(w, n)] BY <3>1
    <3> QED BY <3>2
  <2>2. ASSUME NEW m \in Nat, m \in T PROVE m + 1 \in T
    <3>1. PICK w : w = [n \in 0..m |-> Body(w, n)] BY <2>2
    <3> DEFINE z == [n \in 0..(m + 1) |-> IF n = m + 1 THEN Body(w, n) ELSE w[n]]
    <3>2. ASSUME NEW n \in 0..(m + 1) PROVE z[n] = Body(z, n)
      <4>1. n = 0 \/ (n - 1 \in 0..m /\ z[n - 1] = w[n - 1]) OBVIOUS
      <4>2. Body(z, n) = Body(w, n) BY <4>1
      <4>3. z[n] = Body(w, n)
        <5>1. CASE n = m + 1 BY <5>1
        <5>2. CASE n # m + 1
          <6>1. n \in 0..m BY <5>2
          <6>2. w[n] = Body(w, n)
            <7> HIDE DEF Body
            <7> QED BY <3>1, <6>1
          <6> QED BY <5>2, <6>2
        <5> QED BY <5>1, <5>2
      <4> QED BY <4>2, <4>3
    <3>3. z = [n \in 0..(m + 1) |-> z[n]] OBVIOUS
    <3> HIDE DEF z
    <3>4. z = [n \in 0..(m + 1) |-> Body(z, n)]
      <4> HIDE DEF Body
      <4> QED BY <3>2, <3>3
    <3> QED BY <3>4
  <2>3. Nat \subseteq T
    <3> HIDE DEF T
    <3> QED BY <2>1, <2>2, SetInduction
  <2> QED BY <1>2, <2>3
<1>5. W = [n \in 0..N |-> Body(W, n)] BY <1>4
<1> HIDE DEF W
<1>6. \A n \in 0..N : W[n] = Body(W, n)
  <2> HIDE DEF Body
  <2> QED BY <1>5
<1> DEFINE T == {n \in Nat : n <= N => W[n] \in Seq(A)}
<1>7. 0 \in T
  <2>1. 0 \in 0..N BY <1>2
  <2>2. W[0] = <<>> BY <1>6, <2>1
  <2>3. W[0] \in Seq(A) BY <2>2, EmptySeq
  <2> HIDE DEF A, Body
  <2> QED BY <2>3
<1>8. ASSUME NEW n \in Nat, n \in T PROVE n + 1 \in T
  <2> SUFFICES ASSUME n + 1 <= N PROVE W[n + 1] \in Seq(A) OBVIOUS
  <2>1. n + 1 \in 0..N /\ n + 1 \in 1..N /\ n <= N /\ (n + 1) - 1 = n /\ n + 1 # 0 BY <1>2
  <2>2. W[n + 1] = W[n] \o At(rpo[n + 1]) BY <1>6, <2>1
  <2>3. W[n] \in Seq(A) BY <1>8, <2>1
  <2> QED BY <1>3, <2>1, <2>2, <2>3, ConcatProperties
<1>9. Nat \subseteq T
  <2> HIDE DEF T
  <2> QED BY <1>7, <1>8, SetInduction
<1>10. N \in T BY <1>2, <1>9
<1> QED BY <1>1, <1>2, <1>10 DEF A, rpo

LEMMA LivePairsAre ==
  ASSUME NEW g, NEW s
  PROVE  LivePairs(g, s) = UNION {{<<j, v>> : j \in {i \in DOMAIN s : LiveAt(g, Range(Rpo(g)), s[i][1], s[i][2], v)}}
                                    : v \in ReadRefs(g)}
<1> DEFINE R == Range(Rpo(g))
           Some(outs, r, v) ==
             {<<j, v>> : j \in {i \in DOMAIN s : LET b == s[i][1]
                                                   hi == IF b \in outs THEN EdgePos(g, b) ELSE LastRead(g, b, v)
                                               IN  From(g, b, v) < s[i][2] /\ s[i][2] < hi}}
           One(r, v) == With(LiveOut(g, r, v), LAMBDA outs : Some(outs, r, v))
           Every(r) == UNION {One(r, v) : v \in ReadRefs(g)}
<1>0. \A x : \A y \in {x} : (CHOOSE z \in {y} : TRUE) = x OBVIOUS
<1>1. LivePairs(g, s) = CHOOSE y \in {Every(x) : x \in {R}} : TRUE BY DEF LivePairs, With
<1>2. {Every(x) : x \in {R}} = {Every(R)}
  <2> HIDE DEF Every, R
  <2> QED OBVIOUS
<1>3. LivePairs(g, s) = Every(R)
  <2> HIDE DEF Every, R
  <2> QED BY <1>0, <1>1, <1>2
<1>4. ASSUME NEW v PROVE One(R, v) = Some(LiveOut(g, R, v), R, v)
  <2>1. One(R, v) = CHOOSE y \in {Some(x, R, v) : x \in {LiveOut(g, R, v)}} : TRUE BY DEF With
  <2>2. {Some(x, R, v) : x \in {LiveOut(g, R, v)}} = {Some(LiveOut(g, R, v), R, v)} OBVIOUS
  <2> HIDE DEF One, Some, R
  <2> QED BY <1>0, <2>1, <2>2
<1>5. ASSUME NEW v
      PROVE  Some(LiveOut(g, R, v), R, v) = {<<j, v>> : j \in {i \in DOMAIN s : LiveAt(g, R, s[i][1], s[i][2], v)}}
  BY DEF LiveAt
<1> HIDE DEF One, Some, R
<1>6. Every(R) = UNION {{<<j, v>> : j \in {i \in DOMAIN s : LiveAt(g, R, s[i][1], s[i][2], v)}} : v \in ReadRefs(g)}
  BY <1>4, <1>5
<1> QED BY <1>3, <1>6 DEF R

LEMMA LivenessFits ==
  ASSUME NEW g, IsBody(g), IsGraph(SuccsOf(g)), ValidateStructure(g) = "ok"
  PROVE  LivePairs(g, SafepointSeq(g)) = CrossingPairs(g, {v \in Values(g) : g.val[v].ty = "ref"})
<1> DEFINE R == Range(Rpo(g))  s == SafepointSeq(g)  Refs == {v \in Values(g) : g.val[v].ty = "ref"}
<1>1. ReadsFit(g, R) BY StructureFits
<1>2. R \subseteq g.live BY <1>1 DEF ReadsFit
<1>3. s \in Seq(Sites(g, R))
  <2>1. Rpo(g) \in Seq(DOMAIN SuccsOf(g)) BY SearchFinds DEF Rpo, RunsOn
  <2>2. Len(Rpo(g)) \in Nat /\ DOMAIN Rpo(g) = 1..Len(Rpo(g)) /\ Rpo(g) = [i \in 1..Len(Rpo(g)) |-> Rpo(g)[i]]
    BY <2>1, LenProperties, SeqDef
  <2>3. \A i \in 1..Len(Rpo(g)) : Rpo(g)[i] \in g.live BY <1>2, <2>2 DEF Range
  <2>4. Rpo(g) \in [1..Len(Rpo(g)) -> g.live] BY <2>2, <2>3
  <2>5. Rpo(g) \in Seq(g.live) BY <2>2, <2>4, FunctionSeq
  <2> QED BY <2>5, SitesListed
<1>4. ASSUME NEW j \in DOMAIN s
      PROVE  /\ s[j] = <<s[j][1], s[j][2]>> /\ s[j][1] \in R /\ s[j][2] \in 1..OwnPos(g, s[j][1])
             /\ s[j] \in PointsOf(g)
  <2>1. s[j] \in Sites(g, R) BY <1>3, LenProperties, ElementOfSeq
  <2>2. PICK b \in R : s[j] \in {b} \X SafepointsOf(g, b) BY <2>1 DEF Sites
  <2>3. b \in g.live /\ SafepointsOf(g, b) \in SUBSET (1..OwnPos(g, b))
        /\ Len(Insts(g, b)) \in Nat /\ OwnPos(g, b) = Len(Insts(g, b)) + 1 /\ EdgePos(g, b) = Len(Insts(g, b)) + 2
    BY <1>2, BodyFacts
  <2> HIDE DEF R, s
  <2>4. PICK p \in SafepointsOf(g, b) : s[j] = <<b, p>> BY <2>2
  <2>5. p \in 1..OwnPos(g, b) /\ p \in 0..EdgePos(g, b) BY <2>3
  <2>6. s[j] \in PointsOf(g) BY <1>1, <2>3, <2>4, <2>5, PointsFit
  <2> QED BY <2>4, <2>5, <2>6
<1> HIDE DEF s, R
<1>5. \A v : v \in ReadRefs(g) <=>
         g.val[v].ty = "ref" /\ \E b \in R : \E t \in 1..EdgePos(g, b) : v \in ReadsAt(g, b, t)
  BY DEF ReadRefs, R
<1>6. ASSUME NEW j \in DOMAIN s, NEW v
      PROVE  v \in ReadRefs(g) /\ LiveAt(g, R, s[j][1], s[j][2], v) <=> v \in Refs /\ CrossedByPath(g, s[j], v)
  <2> DEFINE b == s[j][1]  p == s[j][2]
  <2>1. s[j] = <<b, p>> /\ b \in R /\ p \in 1..OwnPos(g, b) /\ s[j] \in PointsOf(g) BY <1>4
  <2> HIDE DEF b, p
  <2>2. PICK O \in SUBSET PointsOf(g) :
           /\ OnwardFrom(g, s[j], v, O)
           /\ \A X \in SUBSET PointsOf(g) : OnwardFrom(g, s[j], v, X) => O \subseteq X
           /\ CrossedByPath(g, s[j], v) <=>
                 DefSite(g, v) # s[j] /\ \E q \in O : v \in ReadsAt(g, q[1], q[2])
    <3>1. IsFiniteSet(PointsOf(g)) /\ \A q \in PointsOf(g) : NextPoints(g, q) \subseteq PointsOf(g)
      BY <1>1, PointsFit
    <3> QED BY <2>1, <3>1, CrossedFacts
  <2>3. ASSUME v \in ReadRefs(g), LiveAt(g, R, b, p, v) PROVE v \in Refs /\ CrossedByPath(g, s[j], v)
    <3>1. DefSite(g, v) # <<b, p>> /\ \E q \in O : v \in ReadsAt(g, q[1], q[2])
      BY <1>1, <2>1, <2>2, <2>3, LiveGivesPath
    <3>2. v \in Refs BY <1>1, <1>5, <2>3 DEF ReadsFit
    <3> QED BY <2>1, <2>2, <3>1, <3>2
  <2>4. ASSUME v \in Refs, CrossedByPath(g, s[j], v) PROVE v \in ReadRefs(g) /\ LiveAt(g, R, b, p, v)
    <3>1. DefSite(g, v) # <<b, p>> BY <2>1, <2>2, <2>4
    <3>2. PICK q \in O : v \in ReadsAt(g, q[1], q[2]) BY <2>2, <2>4
    <3>3. LiveAt(g, R, b, p, v) /\ \E a \in R : \E t \in 1..EdgePos(g, a) : v \in ReadsAt(g, a, t)
      BY <1>1, <2>1, <2>2, <3>1, <3>2, PathGivesLive
    <3> QED BY <1>5, <2>4, <3>3
  <2> QED BY <2>3, <2>4 DEF b, p
<1> HIDE DEF Refs
<1>7. LivePairs(g, s) = UNION {{<<j, v>> : j \in {i \in DOMAIN s : LiveAt(g, R, s[i][1], s[i][2], v)}} : v \in ReadRefs(g)}
  BY LivePairsAre DEF R
<1>8. CrossingPairs(g, Refs) = {q \in (DOMAIN s) \X Refs : CrossedByPath(g, s[q[1]], q[2])}
  BY DEF CrossingPairs, s
<1>9. \A j, v : <<j, v>> \in LivePairs(g, s) <=> j \in DOMAIN s /\ v \in ReadRefs(g) /\ LiveAt(g, R, s[j][1], s[j][2], v)
  BY <1>7
<1>10. \A j, v : <<j, v>> \in CrossingPairs(g, Refs) <=> j \in DOMAIN s /\ v \in Refs /\ CrossedByPath(g, s[j], v)
  BY <1>8
<1>11. \A j, v : <<j, v>> \in LivePairs(g, s) <=> <<j, v>> \in CrossingPairs(g, Refs) BY <1>6, <1>9, <1>10
<1>12. \A q \in LivePairs(g, s) : \E j, v : q = <<j, v>> BY <1>7
<1>13. \A q \in CrossingPairs(g, Refs) : \E j, v : q = <<j, v>> BY <1>8
<1>14. LivePairs(g, s) = CrossingPairs(g, Refs) BY <1>11, <1>12, <1>13
<1> QED BY <1>14 DEF s, Refs

------------------------------------------------------------------------------
(***************************************************************************)
(* The functions given are the only ones a call starts from.               *)
(***************************************************************************)
StartsFromGiven == pc = "idle" => f \in Programs

LEMMA ReachLeavesStart ==
    ASSUME pc # "idle", NEW x, NEW b, Reach(x, b) PROVE pc' # "idle"
<1>1. CASE Fail("budget") BY <1>1 DEF Fail, Finish
<1>2. CASE Fail("capacity") BY <1>2 DEF Fail, Finish
<1>3. CASE ~Fail("budget") /\ ~Fail("capacity")
  <2>1. pc' = pc BY <1>3 DEF Reach
  <2> QED BY <2>1
<1> QED BY <1>1, <1>2, <1>3

LEMMA StepLeavesStart == Next => pc' # "idle"
<1> SUFFICES ASSUME Next PROVE pc' # "idle" OBVIOUS
<1>f. \A error : Fail(error) => pc' # "idle" BY DEF Fail, Finish
<1>s. \A g : Succeed(g) => pc' # "idle" BY DEF Succeed, Finish
<1>1. CASE Insert
  <2>1. Fail("invalid") \/ pc' = "live" BY <1>1 DEF Insert
  <2> QED BY <1>f, <2>1
<1>2. CASE Liveness
  <2>1. Fail("budget") \/ Succeed(f) \/ Fail("invalid") \/ pc' = "lists" BY <1>2 DEF Liveness
  <2> QED BY <1>f, <1>s, <2>1
<1>3. CASE GrowInst
  <2>1. pc = "lists" BY <1>3, Zenon DEF GrowInst
  <2>2. Fail("capacity") \/ pc' = pc BY <1>3, Zenon DEF GrowInst
  <2> QED BY <1>f, <2>1, <2>2
<1>4. CASE GrowInvoke BY <1>4 DEF GrowInvoke
<1>5. CASE Prescan BY <1>5 DEF Prescan
<1>6. CASE EnterBlock
  <2>1. pc = "rewrite" /\ (pc' = "complete" \/ pc' = pc) BY <1>6 DEF EnterBlock
  <2> QED BY <2>1
<1>7. CASE RewriteInst
  <2>1. pc = "rewrite" BY <1>7, Zenon DEF RewriteInst
  <2>2. (\E x, b : Reach(x, b)) \/ pc' = pc BY <1>7, Zenon DEF RewriteInst
  <2> QED BY <2>1, <2>2, ReachLeavesStart
<1>8. CASE RewriteTerm
  <2>1. pc = "rewrite" BY <1>8, Zenon DEF RewriteTerm
  <2>2. (\E x, b : Reach(x, b)) \/ pc' = pc BY <1>8, Zenon DEF RewriteTerm
  <2> QED BY <2>1, <2>2, ReachLeavesStart
<1>9. CASE CompletePop
  <2>1. pc = "complete" /\ (pc' = "eliminate" \/ pc' = pc) BY <1>9 DEF CompletePop
  <2> QED BY <2>1
<1>10. CASE CompleteEdge
  <2>1. pc = "complete" BY <1>10, Zenon DEF CompleteEdge
  <2>2. (\E x, b : Reach(x, b)) \/ pc' = pc BY <1>10, Zenon DEF CompleteEdge
  <2> QED BY <2>1, <2>2, ReachLeavesStart
<1>11. CASE Eliminate BY <1>11 DEF Eliminate
<1>12. CASE Conclude
  <2>1. (\E g : Succeed(g)) \/ Fail("invalid") BY <1>12 DEF Conclude
  <2> QED BY <1>f, <1>s, <2>1
<1> QED BY <1>1, <1>2, <1>3, <1>4, <1>5, <1>6, <1>7, <1>8, <1>9, <1>10, <1>11, <1>12 DEF Next

LEMMA StartIsKept == StartsFromGiven /\ [RunNext]_<<vars, run>> => StartsFromGiven'
<1> SUFFICES ASSUME StartsFromGiven, [RunNext]_<<vars, run>> PROVE StartsFromGiven' OBVIOUS
<1>1. CASE Next
  <2>1. pc' # "idle" BY <1>1, StepLeavesStart
  <2> QED BY <2>1 DEF StartsFromGiven
<1>2. CASE UNCHANGED vars BY <1>2 DEF vars, StartsFromGiven
<1>3. Next \/ UNCHANGED vars BY DEF RunNext, RunStart, RunInst, RunTerm
<1> QED BY <1>1, <1>2, <1>3

LEMMA GivenTreesFit == StartsFromGiven => TreeIsDominance
<1> SUFFICES ASSUME StartsFromGiven, pc = "idle", NEW b \in Blocks(f)
             PROVE  LET succ == SuccsOf(f)
                        idom == Idoms(succ)
                    IN  /\ (idom[b] # NONE) = (b \in ReachAvoiding(succ, {}))
                        /\ idom[b] # NONE => Ancestors(idom, b) = {a \in Blocks(f) : PathDominates(succ, a, b)}
  BY DEF TreeIsDominance
<1> DEFINE succ == SuccsOf(f)
<1>1. IsGraph(succ) BY ProgramsAssumption DEF StartsFromGiven
<1>2. DOMAIN succ = Blocks(f) BY DEF SuccsOf
<1> HIDE DEF succ
<1>3. /\ (Idoms(succ)[b] # NONE) <=> b \in ReachAvoiding(succ, {})
      /\ Idoms(succ)[b] # NONE =>
            Ancestors(Idoms(succ), b) = {a \in DOMAIN succ : PathDominates(succ, a, b)}
  BY <1>1, <1>2, IdomsAreDominators
<1> QED BY <1>2, <1>3 DEF succ

\* compute_idoms: whatever the control-flow graph, the iteration comes to an end, no
\* climb of intersect runs out of its budget, and the tree holds dominance by paths.
THEOREM TreesHoldDominance == RunSpec => []TreeIsDominance
<1>1. RunInit => StartsFromGiven BY DEF RunInit, Init, StartsFromGiven
<1> QED BY <1>1, StartIsKept, GivenTreesFit, PTL DEF RunSpec

\* statepoint.rs: on whatever function the structural checks accept, the walk back
\* from the uses finds exactly the references that some path takes across a safepoint.
THEOREM LivenessIsByPaths == RunSpec => []LivenessByPaths
<1>1. RunInit => StartsFromGiven BY DEF RunInit, Init, StartsFromGiven
<1>2. StartsFromGiven => LivenessByPaths
  BY ProgramsAssumption, LivenessFits DEF StartsFromGiven, LivenessByPaths
<1> QED BY <1>1, <1>2, StartIsKept, PTL DEF RunSpec
=============================================================================
