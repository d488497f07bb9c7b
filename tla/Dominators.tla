----------------------------- MODULE Dominators -----------------------------
(***************************************************************************)
(* The dominator tree of src/src/validate/dom.rs: Cooper, Harvey and       *)
(* Kennedy's iteration over a depth-first numbering.  A control-flow graph *)
(* is succ[b], the successors of block b in the order its terminator lists *)
(* them; the entry is block 1.  The loops of the code are recursive        *)
(* functions of what the loop changes.                                     *)
(***************************************************************************)
EXTENDS Ir

\* What Cfg::of lists for the blocks of a function: an edge that leads to no block
\* is left out.
IsGraph(succ) ==
    LET n == Cardinality(DOMAIN succ)
    IN  n \in Nat \ {0} /\ succ \in [1..n -> Seq(1..n)]

\* postorder, last block first: an explicit stack of blocks and the next successor
\* to look at.
Dfs(succ) == [seen : SUBSET DOMAIN succ, stack : Seq((DOMAIN succ) \X Nat),
              order : Seq(DOMAIN succ)]
ReversePostorder(succ) ==
    LET walk[s \in Dfs(succ)] ==
          IF s.stack = <<>> THEN s.order
          ELSE LET n == Len(s.stack)
                   b == s.stack[n][1]
                   i == s.stack[n][2]
               IN  IF i \notin DOMAIN succ[b]
                   THEN walk[[s EXCEPT !.order = <<b>> \o @, !.stack = SubSeq(@, 1, n - 1)]]
                   ELSE LET next == [s.stack EXCEPT ![n][2] = i + 1]
                            d == succ[b][i]
                        IN  IF d \in s.seen
                            THEN walk[[s EXCEPT !.stack = next]]
                            ELSE walk[[s EXCEPT !.seen = @ \cup {d},
                                                !.stack = Append(next, <<d, 1>>)]]
    IN  walk[[seen |-> {Entry}, stack |-> <<<<Entry, 1>>>>, order |-> <<>>]]

\* intersect: the two fingers climb until they meet, within a budget of steps.
\* NONE, the immediate dominator nothing is known of, has the greatest number.
OneStep(n) == 1
StepBudget(n) == 2 * n + 2
Intersect(a0, b0, idom, num) ==
    LET n == Cardinality(DOMAIN idom)
        Node == DOMAIN idom \cup {NONE}
        Up(x) == IF x = NONE THEN NONE ELSE idom[x]
        climb[s \in {"meet", "a", "b"} \X Node \X Node \X (0..StepBudget(n))] ==
          LET a == s[2]
              b == s[3]
              left == s[4]
          IN  CASE s[1] = "meet" -> IF a = b \/ left = 0 THEN a
                                    ELSE climb[<<"a", a, b, left - 1>>]
                [] s[1] = "a" -> IF num[a] < num[b] /\ left > 0
                                 THEN climb[<<"a", Up(a), b, left - 1>>]
                                 ELSE climb[<<"b", a, b, left>>]
                [] OTHER -> IF num[b] < num[a] /\ left > 0
                            THEN climb[<<"b", a, Up(b), left - 1>>]
                            ELSE climb[<<"meet", a, b, left>>]
    IN  climb[<<"meet", a0, b0, StepBudget(n)>>]

\* The inner loop of compute_idoms: the predecessors that have a dominator
\* already, met one after the other.
MeetPreds(preds, idom, num) ==
    LET meet[m \in (1..Len(preds) + 1) \X (DOMAIN idom \cup {NONE})] ==
          IF m[1] > Len(preds) THEN m[2]
          ELSE LET p == preds[m[1]]
                   new == IF idom[p] = NONE THEN m[2]
                          ELSE IF m[2] = NONE THEN p ELSE Intersect(p, m[2], idom, num)
               IN  meet[<<m[1] + 1, new>>]
    IN  meet[<<1, NONE>>]

\* One pass over the blocks in reverse postorder, each with what the pass has
\* changed so far.
Tree(succ) == [DOMAIN succ -> DOMAIN succ \cup {NONE}]
Sweep(rpo, preds, idom0, num) ==
    LET from[s \in (1..Len(rpo) + 1) \X Tree(preds)] ==
          IF s[1] > Len(rpo) THEN s[2]
          ELSE LET b == rpo[s[1]]
               IN  from[<<s[1] + 1, IF b = Entry THEN s[2]
                                    ELSE [s[2] EXCEPT ![b] = MeetPreds(preds[b], s[2], num)]>>]
    IN  from[<<1, idom0>>]

\* compute_idoms: passes until one changes nothing.
SweepToFixpoint(rpo, preds, num, init) ==
    LET fix[idom \in Tree(preds)] ==
          With(Sweep(rpo, preds, idom, num), LAMBDA next : IF next = idom THEN idom ELSE fix[next])
    IN  fix[init]

\* Cfg::reversed: predecessors in arena order, one entry for each edge.
Reversed(succ) ==
    LET Into(b, p) == [j \in 1..Cardinality({k \in DOMAIN succ[p] : succ[p][k] = b}) |-> p]
        into[s \in (DOMAIN succ) \X (1..Cardinality(DOMAIN succ) + 1) \X Seq(DOMAIN succ)] ==
          IF s[2] > Cardinality(DOMAIN succ) THEN s[3]
          ELSE into[<<s[1], s[2] + 1, s[3] \o Into(s[1], s[2])>>]
    IN  [b \in DOMAIN succ |-> into[<<b, 1, <<>>>>]]

\* The postorder number, the greatest of all for a block that is not reached.
PostNumber(rpo, succ) ==
    [b \in DOMAIN succ \cup {NONE} |->
       IF b \in Range(rpo) THEN Len(rpo) + 1 - IndexIn(rpo, b) ELSE Cardinality(DOMAIN succ) + 1]
Idoms(succ) ==
    With(ReversePostorder(succ), LAMBDA rpo :
    With(Reversed(succ), LAMBDA preds :
    With(PostNumber(rpo, succ), LAMBDA num :
        SweepToFixpoint(rpo, preds, num, [b \in DOMAIN succ |-> IF b = Entry THEN Entry ELSE NONE]))))

\* The blocks on the way from b up the tree, b and the entry included.
Ancestors(idom, b) ==
    LET up[s \in (DOMAIN idom) \X SUBSET DOMAIN idom] ==
          IF idom[s[1]] \in {s[1], NONE} THEN s[2]
          ELSE up[<<idom[s[1]], s[2] \cup {idom[s[1]]}>>]
    IN  up[<<b, {b}>>]

------------------------------------------------------------------------------
(* The reference: paths. *)

\* The blocks a path from the entry reaches without going through those in A.
ReachAvoiding(succ, A) ==
    LET within[r \in SUBSET DOMAIN succ] ==
          With(r \cup ((UNION {Range(succ[b]) : b \in r}) \ A), LAMBDA next :
              IF next = r THEN r ELSE within[next])
    IN  within[{Entry} \ A]
PathDominates(succ, a, b) == b \notin ReachAvoiding(succ, {a})
=============================================================================
