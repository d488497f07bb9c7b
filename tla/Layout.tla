------------------------------- MODULE Layout -------------------------------
(***************************************************************************)
(* What a function body is to the code that edits it through a Builder:    *)
(* each block is a sequence of instructions and, once ended, a terminator; *)
(* the insertion point is a gap between instructions.  How the body is     *)
(* stored is not visible here (see Body).                                  *)
(***************************************************************************)
EXTENDS Naturals, Sequences, FiniteSets, SequencesExt, Functions, Counting

CONSTANT MaxEdges  \* bound on the edges of a block

Entry == 1

VARIABLES
    order,   \* order[b]: the instructions of a live block
    goes,    \* goes[b]: whether b has ended, and the blocks it then leads to
    cursor,  \* the gap after instruction number cursor.at of cursor.block
    insts,   \* instruction handles given out
    blocks   \* block handles given out

vars == <<order, goes, cursor, insts, blocks>>

Live == DOMAIN order

Open == [ended |-> FALSE, to |-> <<>>]
Leading(dests) == [ended |-> TRUE, to |-> dests]

\* f with x at b as well.
Plus(f, b, x) == [c \in DOMAIN f \cup {b} |-> IF c = b THEN x ELSE f[c]]

Init ==
    /\ order = [b \in {Entry} |-> <<>>]
    /\ goes = [b \in {Entry} |-> Open]
    /\ cursor = [block |-> Entry, at |-> 0]
    /\ insts = 0
    /\ blocks = 1

\* The insertion point goes to any gap of any block.
Move(b, k) ==
    /\ b \in Live /\ k \in 0..Len(order[b])
    /\ cursor' = [block |-> b, at |-> k]
    /\ UNCHANGED <<order, goes, insts, blocks>>

\* A new instruction goes into the gap, and the insertion point behind it.
Insert ==
    /\ insts' = insts + 1
    /\ order' = [order EXCEPT ![cursor.block] = InsertAt(@, cursor.at + 1, insts')]
    /\ cursor' = [cursor EXCEPT !.at = @ + 1]
    /\ UNCHANGED <<goes, blocks>>

\* The insertion point stays where it was between the others.
Delete(b, k) ==
    /\ b \in Live /\ k \in DOMAIN order[b]
    /\ order' = [order EXCEPT ![b] = RemoveAt(@, k)]
    /\ cursor' = IF cursor.block = b /\ cursor.at >= k
                 THEN [cursor EXCEPT !.at = @ - 1] ELSE cursor
    /\ UNCHANGED <<goes, insts, blocks>>

\* The k-th instruction of b goes into the gap before the m-th of the others of
\* c; an insertion point next to it, or in the gap it goes into, may be on
\* either side of it afterwards.
Carry(b, k, c, m) ==
    LET rest == [order EXCEPT ![b] = RemoveAt(@, k)]
        gap == IF cursor.block = b /\ cursor.at >= k THEN cursor.at - 1 ELSE cursor.at
    IN
    /\ {b, c} \subseteq Live /\ k \in DOMAIN order[b] /\ m \in 1..(Len(rest[c]) + 1)
    /\ order' = [rest EXCEPT ![c] = InsertAt(@, m, order[b][k])]
    /\ \/ cursor' = [cursor EXCEPT !.at = IF cursor.block = c /\ gap >= m THEN gap + 1 ELSE gap]
       \/ /\ \/ cursor.block = c /\ gap = m - 1
             \/ cursor.block = b /\ cursor.at \in {k - 1, k}
          /\ \E at \in {m - 1, m} : cursor' = [block |-> c, at |-> at]
    /\ UNCHANGED <<goes, insts, blocks>>

NewBlock ==
    /\ blocks' = blocks + 1
    /\ order' = Plus(order, blocks', <<>>)
    /\ goes' = Plus(goes, blocks', Open)
    /\ UNCHANGED <<cursor, insts>>

DropBlock(b) ==
    /\ b \in Live \ {Entry}
    /\ order' = [c \in Live \ {b} |-> order[c]]
    /\ goes' = [c \in Live \ {b} |-> goes[c]]
    /\ cursor' = IF cursor.block = b
                 THEN [block |-> Entry, at |-> Len(order[Entry])] ELSE cursor
    /\ UNCHANGED <<insts, blocks>>

\* The k-th instruction and all behind it move to a new block that b now leads
\* to; an insertion point in front of the k-th may stay or go along.
Split(b, k) ==
    /\ b \in Live /\ k \in DOMAIN order[b]
    /\ blocks' = blocks + 1
    /\ order' = Plus([order EXCEPT ![b] = SubSeq(@, 1, k - 1)],
                      blocks', SubSeq(order[b], k, Len(order[b])))
    /\ goes' = Plus([goes EXCEPT ![b] = Leading(<<blocks'>>)], blocks', goes[b])
    /\ \/ cursor' = IF cursor.block = b /\ cursor.at >= k
                    THEN [block |-> b, at |-> k - 1] ELSE cursor
       \/ /\ cursor.block = b /\ cursor.at >= k - 1
          /\ cursor' = [block |-> blocks', at |-> cursor.at - (k - 1)]
    /\ UNCHANGED insts

Finish(b, dests) ==
    /\ b \in Live /\ ~goes[b].ended
    /\ goes' = [goes EXCEPT ![b] = Leading(dests)]
    /\ UNCHANGED <<order, cursor, insts, blocks>>

Unfinish(b) ==
    /\ b \in Live
    /\ goes' = [goes EXCEPT ![b] = Open]
    /\ UNCHANGED <<order, cursor, insts, blocks>>

\* Live blocks get the numbers from 1 up in their order, the entry block first,
\* instructions the numbers from 1 up in layout order; blocks that are led to but
\* not live get numbers above the live ones.
Compact ==
    LET ord == <<Entry>> \o Sorted(Live \ {Entry})
        before[n \in 0..Len(ord)] == IF n = 0 THEN 0 ELSE before[n - 1] + Len(order[ord[n]])
        dead == (UNION {ToSet(goes[b].to) : b \in Live}) \ Live
        No(b) == CHOOSE n \in DOMAIN ord : ord[n] = b
    IN
    /\ order' = [n \in DOMAIN ord |-> [k \in DOMAIN order[ord[n]] |-> before[n - 1] + k]]
    /\ insts' = before[Len(ord)]
    /\ blocks' = Len(ord) + Cardinality(dead)
    /\ \E f \in Bijection(dead, (Len(ord) + 1)..blocks') :
          goes' = [n \in DOMAIN ord |->
              [goes[ord[n]] EXCEPT !.to = [j \in DOMAIN @ |-> IF @[j] \in Live THEN No(@[j]) ELSE f[@[j]]]]]
    /\ cursor' = [block |-> Entry, at |-> Len(order[Entry])]

Next ==
    \/ \E b \in Live : \E k \in 0..Len(order[b]) :
          \/ Move(b, k) \/ Delete(b, k) \/ Split(b, k)
          \/ \E c \in Live : \E m \in 1..(Len(order[c]) + 1) : Carry(b, k, c, m)
    \/ Insert
    \/ NewBlock
    \/ \E b \in Live :
          \/ DropBlock(b) \/ Unfinish(b)
          \/ \E n \in 0..MaxEdges : \E dests \in [1..n -> 1..blocks] : Finish(b, dests)
    \/ Compact

Spec == Init /\ [][Next]_vars
=============================================================================
