----------------------------- MODULE BodyProofs -----------------------------
(***************************************************************************)
(* What a function body keeps, for every size of its arenas and every      *)
(* order of edits.                                                         *)
(***************************************************************************)
EXTENDS BodyProps, CountingProofs

------------------------------------------------------------------------------
(***************************************************************************)
(* Instruction lists, by what each instruction says of its neighbours: the *)
(* links fit together, and no way along them leads back.                   *)
(***************************************************************************)
ListType(l) ==
    l \in [first : [Block -> Inst \cup {NONE}], last : [Block -> Inst \cup {NONE}],
           prev : [Inst -> Inst \cup {NONE}], next : [Inst -> Inst \cup {NONE}],
           block : [Inst -> Block \cup {NONE}]]
EndsFit(l) ==
    \A b \in Block :
        /\ l.first[b] = NONE <=> l.last[b] = NONE
        /\ l.first[b] # NONE => l.block[l.first[b]] = b /\ l.prev[l.first[b]] = NONE
        /\ l.last[b] # NONE => l.block[l.last[b]] = b /\ l.next[l.last[b]] = NONE
LinksFit(l) ==
    \A i \in Inst : l.block[i] # NONE =>
        /\ IF l.prev[i] = NONE THEN l.first[l.block[i]] = i
           ELSE l.next[l.prev[i]] = i /\ l.block[l.prev[i]] = l.block[i]
        /\ IF l.next[i] = NONE THEN l.last[l.block[i]] = i
           ELSE l.prev[l.next[i]] = i /\ l.block[l.next[i]] = l.block[i]
LeadsOn(l) ==
    \A S \in (SUBSET Inst) \ {{}} :
        (\A i \in S : l.block[i] # NONE) => \E i \in S : l.next[i] \notin S
IdleClear(l) ==
    \A i \in Inst : l.block[i] = NONE => l.prev[i] = NONE /\ l.next[i] = NONE
Sound(l) == ListType(l) /\ EndsFit(l) /\ LinksFit(l) /\ LeadsOn(l) /\ IdleClear(l)

LEMMA NoneIsNothing == NONE \notin Inst /\ NONE \notin Block /\ NONE \notin Value
BY DEF NONE, Inst, Block, Value

\* The gap between p and n in the list of b.
Gap(l, b, p, n) ==
    /\ b \in Block /\ p \in Inst \cup {NONE} /\ n \in Inst \cup {NONE}
    /\ IF p = NONE THEN l.first[b] = n ELSE l.block[p] = b /\ l.next[p] = n
    /\ IF n = NONE THEN l.last[b] = p ELSE l.block[n] = b /\ l.prev[n] = p

\* m is l with i between p and n, entry by entry.
InsertedIn(l, m, i, b, p, n) ==
    /\ ListType(m)
    /\ \A c \in Block : /\ m.first[c] = IF p = NONE /\ c = b THEN i ELSE l.first[c]
                        /\ m.last[c] = IF n = NONE /\ c = b THEN i ELSE l.last[c]
    /\ \A j \in Inst : /\ m.prev[j] = IF j = n THEN i ELSE IF j = i THEN p ELSE l.prev[j]
                       /\ m.next[j] = IF j = p THEN i ELSE IF j = i THEN n ELSE l.next[j]
                       /\ m.block[j] = IF j = i THEN b ELSE l.block[j]

LEMMA LinkBetweenFields ==
  ASSUME NEW l, ListType(l), NEW i \in Inst, NEW b \in Block,
         NEW p \in Inst \cup {NONE}, NEW n \in Inst \cup {NONE},
         NEW m, m = LinkBetween(l, i, b, p, n)
  PROVE  InsertedIn(l, m, i, b, p, n)
<1> USE NoneIsNothing
<1>0. i \in Inst \cup {NONE} OBVIOUS
<1>1. /\ l.first \in [Block -> Inst \cup {NONE}] /\ l.last \in [Block -> Inst \cup {NONE}]
      /\ l.prev \in [Inst -> Inst \cup {NONE}] /\ l.next \in [Inst -> Inst \cup {NONE}]
      /\ l.block \in [Inst -> Block \cup {NONE}]
  BY DEF ListType
<1>2. m.first \in [Block -> Inst \cup {NONE}] /\
      \A c \in Block : m.first[c] = IF p = NONE /\ c = b THEN i ELSE l.first[c]
  <2>1. CASE p = NONE
    <3>1. m.first = Put(l.first, b, i) BY <2>1 DEF LinkBetween
    <3> QED BY <1>1, <2>1, <3>1, <1>0 DEF Put
  <2>2. CASE p # NONE
    <3>1. m.first = l.first BY <2>2 DEF LinkBetween
    <3> QED BY <1>1, <2>2, <3>1
  <2> QED BY <2>1, <2>2
<1>3. m.last \in [Block -> Inst \cup {NONE}] /\
      \A c \in Block : m.last[c] = IF n = NONE /\ c = b THEN i ELSE l.last[c]
  <2>1. CASE n = NONE
    <3>1. m.last = Put(l.last, b, i) BY <2>1 DEF LinkBetween
    <3> QED BY <1>1, <2>1, <3>1, <1>0 DEF Put
  <2>2. CASE n # NONE
    <3>1. m.last = l.last BY <2>2 DEF LinkBetween
    <3> QED BY <1>1, <2>2, <3>1
  <2> QED BY <2>1, <2>2
<1>4. m.prev \in [Inst -> Inst \cup {NONE}] /\
      \A j \in Inst : m.prev[j] = IF j = n THEN i ELSE IF j = i THEN p ELSE l.prev[j]
  <2> DEFINE f == Put(l.prev, i, p)
  <2>1. m.prev = Put(f, n, i) BY DEF LinkBetween
  <2>2. f \in [Inst -> Inst \cup {NONE}] /\ \A j \in Inst : f[j] = IF j = i THEN p ELSE l.prev[j]
    BY <1>1, <1>0 DEF Put
  <2> HIDE DEF f
  <2>3. Put(f, n, i) \in [Inst -> Inst \cup {NONE}] /\
        \A j \in Inst : Put(f, n, i)[j] = IF j = n THEN i ELSE f[j]
    BY <2>2, <1>0 DEF Put
  <2> QED BY <2>1, <2>2, <2>3
<1>5. m.next \in [Inst -> Inst \cup {NONE}] /\
      \A j \in Inst : m.next[j] = IF j = p THEN i ELSE IF j = i THEN n ELSE l.next[j]
  <2> DEFINE f == Put(l.next, i, n)
  <2>1. m.next = Put(f, p, i) BY DEF LinkBetween
  <2>2. f \in [Inst -> Inst \cup {NONE}] /\ \A j \in Inst : f[j] = IF j = i THEN n ELSE l.next[j]
    BY <1>1, <1>0 DEF Put
  <2> HIDE DEF f
  <2>3. Put(f, p, i) \in [Inst -> Inst \cup {NONE}] /\
        \A j \in Inst : Put(f, p, i)[j] = IF j = p THEN i ELSE f[j]
    BY <2>2, <1>0 DEF Put
  <2> QED BY <2>1, <2>2, <2>3
<1>6. m.block \in [Inst -> Block \cup {NONE}] /\
      \A j \in Inst : m.block[j] = IF j = i THEN b ELSE l.block[j]
  <2>1. m.block = Put(l.block, i, b) BY DEF LinkBetween
  <2> QED BY <1>1, <2>1, <1>0 DEF Put
<1>7. ListType(m)
  <2>1. m = [first |-> m.first, last |-> m.last, prev |-> m.prev, next |-> m.next,
             block |-> m.block]
    BY DEF LinkBetween
  <2> QED BY <1>2, <1>3, <1>4, <1>5, <1>6, <2>1 DEF ListType
<1> QED BY <1>2, <1>3, <1>4, <1>5, <1>6, <1>7 DEF InsertedIn

\* Linking an instruction that is nowhere keeps the lists sound.
LEMMA LinkKeeps ==
  ASSUME NEW l, Sound(l), NEW i \in Inst, l.block[i] = NONE, NEW b, NEW p, NEW n, Gap(l, b, p, n),
         NEW m, m = LinkBetween(l, i, b, p, n)
  PROVE  Sound(m) /\ \A j \in Inst : m.block[j] = IF j = i THEN b ELSE l.block[j]
<1> USE NoneIsNothing
<1>0. /\ ListType(l) /\ b \in Block /\ p \in Inst \cup {NONE} /\ n \in Inst \cup {NONE}
      /\ p # i /\ n # i
  BY DEF Sound, Gap
<1>1. /\ ListType(m)
      /\ \A c \in Block : /\ m.first[c] = IF p = NONE /\ c = b THEN i ELSE l.first[c]
                          /\ m.last[c] = IF n = NONE /\ c = b THEN i ELSE l.last[c]
      /\ \A j \in Inst : /\ m.prev[j] = IF j = n THEN i ELSE IF j = i THEN p ELSE l.prev[j]
                         /\ m.next[j] = IF j = p THEN i ELSE IF j = i THEN n ELSE l.next[j]
                         /\ m.block[j] = IF j = i THEN b ELSE l.block[j]
  <2>1. InsertedIn(l, m, i, b, p, n) BY <1>0, LinkBetweenFields
  <2> QED BY <2>1 DEF InsertedIn
<1>2. /\ l.first \in [Block -> Inst \cup {NONE}] /\ l.last \in [Block -> Inst \cup {NONE}]
      /\ l.prev \in [Inst -> Inst \cup {NONE}] /\ l.next \in [Inst -> Inst \cup {NONE}]
      /\ l.block \in [Inst -> Block \cup {NONE}]
  BY <1>0 DEF ListType
<1>3. EndsFit(l) /\ LinksFit(l) /\ LeadsOn(l) BY DEF Sound
<1>4. EndsFit(m)
  <2> SUFFICES ASSUME NEW c \in Block
               PROVE  /\ m.first[c] = NONE <=> m.last[c] = NONE
                      /\ m.first[c] # NONE => m.block[m.first[c]] = c /\ m.prev[m.first[c]] = NONE
                      /\ m.last[c] # NONE => m.block[m.last[c]] = c /\ m.next[m.last[c]] = NONE
    BY DEF EndsFit
  <2>1. /\ l.first[c] = NONE <=> l.last[c] = NONE
        /\ l.first[c] # NONE => l.block[l.first[c]] = c /\ l.prev[l.first[c]] = NONE
        /\ l.last[c] # NONE => l.block[l.last[c]] = c /\ l.next[l.last[c]] = NONE
        /\ l.first[c] \in Inst \cup {NONE} /\ l.last[c] \in Inst \cup {NONE}
    BY <1>2, <1>3 DEF EndsFit
  <2>2. m.first[c] = NONE <=> m.last[c] = NONE BY <1>0, <1>1, <2>1 DEF Gap
  <2>3. m.first[c] # NONE => m.block[m.first[c]] = c /\ m.prev[m.first[c]] = NONE
    BY <1>0, <1>1, <2>1 DEF Gap
  <2>4. m.last[c] # NONE => m.block[m.last[c]] = c /\ m.next[m.last[c]] = NONE
    BY <1>0, <1>1, <2>1 DEF Gap
  <2> QED BY <2>2, <2>3, <2>4
<1>5. LinksFit(m)
  <2> SUFFICES ASSUME NEW j \in Inst, m.block[j] # NONE
               PROVE  /\ IF m.prev[j] = NONE THEN m.first[m.block[j]] = j
                         ELSE m.next[m.prev[j]] = j /\ m.block[m.prev[j]] = m.block[j]
                      /\ IF m.next[j] = NONE THEN m.last[m.block[j]] = j
                         ELSE m.prev[m.next[j]] = j /\ m.block[m.next[j]] = m.block[j]
    BY DEF LinksFit
  <2>1. CASE j = i BY <1>0, <1>1, <2>1 DEF Gap
  <2>2. CASE j # i
    <3>1. /\ l.block[j] # NONE /\ l.block[j] = m.block[j] /\ l.block[j] \in Block
          /\ l.prev[j] \in Inst \cup {NONE} /\ l.next[j] \in Inst \cup {NONE}
      BY <1>1, <1>2, <2>2
    <3>2. /\ IF l.prev[j] = NONE THEN l.first[l.block[j]] = j
             ELSE l.next[l.prev[j]] = j /\ l.block[l.prev[j]] = l.block[j]
          /\ IF l.next[j] = NONE THEN l.last[l.block[j]] = j
             ELSE l.prev[l.next[j]] = j /\ l.block[l.next[j]] = l.block[j]
      BY <1>3, <3>1 DEF LinksFit
    <3>3. IF m.prev[j] = NONE THEN m.first[m.block[j]] = j
          ELSE m.next[m.prev[j]] = j /\ m.block[m.prev[j]] = m.block[j]
      BY <1>0, <1>1, <2>2, <3>1, <3>2 DEF Gap
    <3>4. IF m.next[j] = NONE THEN m.last[m.block[j]] = j
          ELSE m.prev[m.next[j]] = j /\ m.block[m.next[j]] = m.block[j]
      BY <1>0, <1>1, <2>2, <3>1, <3>2 DEF Gap
    <3> QED BY <3>3, <3>4
  <2> QED BY <2>1, <2>2
<1>6. LeadsOn(m)
  <2> SUFFICES ASSUME NEW S \in (SUBSET Inst) \ {{}}, \A j \in S : m.block[j] # NONE
               PROVE  \E j \in S : m.next[j] \notin S
    BY DEF LeadsOn
  <2> DEFINE R == S \ {i}
  <2>1. CASE R = {}
    <3>1. S = {i} BY <2>1
    <3> QED BY <1>0, <1>1, <3>1
  <2>2. CASE R # {}
    <3>1. R \in (SUBSET Inst) \ {{}} /\ \A j \in R : l.block[j] # NONE BY <1>1, <2>2
    <3>2. PICK j \in R : l.next[j] \notin R
      <4> HIDE DEF R
      <4> QED BY <1>3, <3>1 DEF LeadsOn
    <3>3. j \in Inst /\ j # i /\ j \in S OBVIOUS
    <3>4. l.next[j] # i
      <4>1. l.block[j] # NONE BY <3>1
      <4> QED BY <1>3, <3>3, <4>1 DEF LinksFit
    <3>5. l.next[j] \notin S BY <3>2, <3>4
    <3> HIDE DEF R
    <3> QED BY <1>0, <1>1, <3>3, <3>5 DEF Gap
  <2> QED BY <2>1, <2>2
<1>7. IdleClear(m) BY <1>0, <1>1 DEF Sound, IdleClear, Gap
<1>8. Sound(m) /\ \A j \in Inst : m.block[j] = IF j = i THEN b ELSE l.block[j]
  BY <1>1, <1>4, <1>5, <1>6, <1>7 DEF Sound
<1> QED BY <1>8

\* m is l without i, entry by entry.
TakenFrom(l, m, i) ==
    LET b == l.block[i]  p == l.prev[i]  n == l.next[i] IN
    /\ ListType(m)
    /\ \A c \in Block : /\ m.first[c] = IF p = NONE /\ c = b THEN n ELSE l.first[c]
                        /\ m.last[c] = IF n = NONE /\ c = b THEN p ELSE l.last[c]
    /\ \A j \in Inst : /\ m.prev[j] = IF j = i THEN NONE ELSE IF j = n THEN p ELSE l.prev[j]
                       /\ m.next[j] = IF j = i THEN NONE ELSE IF j = p THEN n ELSE l.next[j]
                       /\ m.block[j] = IF j = i THEN NONE ELSE l.block[j]

LEMMA UnlinkFields ==
  ASSUME NEW l, ListType(l), NEW i \in Inst, l.block[i] # NONE, NEW m, m = Unlink(l, i)
  PROVE  TakenFrom(l, m, i)
<1> DEFINE b == l.block[i]
           p == l.prev[i]
           n == l.next[i]
<1> USE NoneIsNothing
<1>1. /\ l.first \in [Block -> Inst \cup {NONE}] /\ l.last \in [Block -> Inst \cup {NONE}]
      /\ l.prev \in [Inst -> Inst \cup {NONE}] /\ l.next \in [Inst -> Inst \cup {NONE}]
      /\ l.block \in [Inst -> Block \cup {NONE}]
  BY DEF ListType
<1>0. b \in Block /\ p \in Inst \cup {NONE} /\ n \in Inst \cup {NONE}
  BY <1>1
<1>9. /\ m.first = IF p = NONE THEN Put(l.first, b, n) ELSE l.first
      /\ m.last = IF n = NONE THEN Put(l.last, b, p) ELSE l.last
      /\ m.prev = Put(Put(l.prev, n, p), i, NONE)
      /\ m.next = Put(Put(l.next, p, n), i, NONE)
      /\ m.block = Put(l.block, i, NONE)
      /\ m = [first |-> m.first, last |-> m.last, prev |-> m.prev, next |-> m.next,
              block |-> m.block]
  BY DEF Unlink
<1> HIDE DEF b, p, n
<1>2. m.first \in [Block -> Inst \cup {NONE}] /\
      \A c \in Block : m.first[c] = IF p = NONE /\ c = b THEN n ELSE l.first[c]
  <2>1. CASE p = NONE BY <1>0, <1>1, <2>1, <1>9 DEF Put
  <2>2. CASE p # NONE BY <1>1, <2>2, <1>9
  <2> QED BY <2>1, <2>2
<1>3. m.last \in [Block -> Inst \cup {NONE}] /\
      \A c \in Block : m.last[c] = IF n = NONE /\ c = b THEN p ELSE l.last[c]
  <2>1. CASE n = NONE BY <1>0, <1>1, <2>1, <1>9 DEF Put
  <2>2. CASE n # NONE BY <1>1, <2>2, <1>9
  <2> QED BY <2>1, <2>2
<1>4. m.prev \in [Inst -> Inst \cup {NONE}] /\
      \A j \in Inst : m.prev[j] = IF j = i THEN NONE ELSE IF j = n THEN p ELSE l.prev[j]
  <2> DEFINE f == Put(l.prev, n, p)
  <2>2. f \in [Inst -> Inst \cup {NONE}] /\ \A j \in Inst : f[j] = IF j = n THEN p ELSE l.prev[j]
    BY <1>0, <1>1 DEF Put
  <2>1. m.prev = Put(f, i, NONE) BY <1>9
  <2> HIDE DEF f
  <2>3. Put(f, i, NONE) \in [Inst -> Inst \cup {NONE}] /\
        \A j \in Inst : Put(f, i, NONE)[j] = IF j = i THEN NONE ELSE f[j]
    BY <2>2 DEF Put
  <2> QED BY <2>1, <2>2, <2>3
<1>5. m.next \in [Inst -> Inst \cup {NONE}] /\
      \A j \in Inst : m.next[j] = IF j = i THEN NONE ELSE IF j = p THEN n ELSE l.next[j]
  <2> DEFINE f == Put(l.next, p, n)
  <2>2. f \in [Inst -> Inst \cup {NONE}] /\ \A j \in Inst : f[j] = IF j = p THEN n ELSE l.next[j]
    BY <1>0, <1>1 DEF Put
  <2>1. m.next = Put(f, i, NONE) BY <1>9
  <2> HIDE DEF f
  <2>3. Put(f, i, NONE) \in [Inst -> Inst \cup {NONE}] /\
        \A j \in Inst : Put(f, i, NONE)[j] = IF j = i THEN NONE ELSE f[j]
    BY <2>2 DEF Put
  <2> QED BY <2>1, <2>2, <2>3
<1>6. m.block \in [Inst -> Block \cup {NONE}] /\
      \A j \in Inst : m.block[j] = IF j = i THEN NONE ELSE l.block[j]
  BY <1>1, <1>9 DEF Put
<1>7. ListType(m) BY <1>2, <1>3, <1>4, <1>5, <1>6, <1>9 DEF ListType
<1> QED BY <1>2, <1>3, <1>4, <1>5, <1>6, <1>7 DEF TakenFrom, b, p, n

\* Unlinking an instruction keeps the lists sound.
LEMMA UnlinkKeeps ==
  ASSUME NEW l, Sound(l), NEW i \in Inst, l.block[i] # NONE, NEW m, m = Unlink(l, i)
  PROVE  Sound(m) /\ \A j \in Inst : m.block[j] = IF j = i THEN NONE ELSE l.block[j]
<1> DEFINE b == l.block[i]
           p == l.prev[i]
           n == l.next[i]
<1> USE NoneIsNothing
<1>2. /\ l.first \in [Block -> Inst \cup {NONE}] /\ l.last \in [Block -> Inst \cup {NONE}]
      /\ l.prev \in [Inst -> Inst \cup {NONE}] /\ l.next \in [Inst -> Inst \cup {NONE}]
      /\ l.block \in [Inst -> Block \cup {NONE}] /\ ListType(l)
  BY DEF Sound, ListType
<1>0. b \in Block /\ p \in Inst \cup {NONE} /\ n \in Inst \cup {NONE}
  BY <1>2
<1>1. /\ ListType(m)
      /\ \A c \in Block : /\ m.first[c] = IF p = NONE /\ c = b THEN n ELSE l.first[c]
                          /\ m.last[c] = IF n = NONE /\ c = b THEN p ELSE l.last[c]
      /\ \A j \in Inst : /\ m.prev[j] = IF j = i THEN NONE ELSE IF j = n THEN p ELSE l.prev[j]
                         /\ m.next[j] = IF j = i THEN NONE ELSE IF j = p THEN n ELSE l.next[j]
                         /\ m.block[j] = IF j = i THEN NONE ELSE l.block[j]
  <2>1. TakenFrom(l, m, i) BY <1>2, UnlinkFields
  <2> QED BY <2>1 DEF TakenFrom
<1>3. EndsFit(l) /\ LinksFit(l) /\ LeadsOn(l) BY DEF Sound
<1>9. /\ IF p = NONE THEN l.first[b] = i ELSE l.next[p] = i /\ l.block[p] = b
      /\ IF n = NONE THEN l.last[b] = i ELSE l.prev[n] = i /\ l.block[n] = b
  BY <1>3 DEF LinksFit
<1>10. p # i /\ n # i
  <2>1. n # i
    <3>1. \E j \in {i} : l.next[j] \notin {i} BY <1>3 DEF LeadsOn
    <3> QED BY <3>1
  <2> QED BY <1>9, <2>1
<1> HIDE DEF b, p, n
<1>4. EndsFit(m)
  <2> SUFFICES ASSUME NEW c \in Block
               PROVE  /\ m.first[c] = NONE <=> m.last[c] = NONE
                      /\ m.first[c] # NONE => m.block[m.first[c]] = c /\ m.prev[m.first[c]] = NONE
                      /\ m.last[c] # NONE => m.block[m.last[c]] = c /\ m.next[m.last[c]] = NONE
    BY DEF EndsFit
  <2>1. /\ l.first[c] = NONE <=> l.last[c] = NONE
        /\ l.first[c] # NONE => l.block[l.first[c]] = c /\ l.prev[l.first[c]] = NONE
        /\ l.last[c] # NONE => l.block[l.last[c]] = c /\ l.next[l.last[c]] = NONE
        /\ l.first[c] \in Inst \cup {NONE} /\ l.last[c] \in Inst \cup {NONE}
    BY <1>2, <1>3 DEF EndsFit
  <2>5. l.block[i] = b /\ l.prev[i] = p /\ l.next[i] = n BY DEF b, p, n
  <2>2. m.first[c] = NONE <=> m.last[c] = NONE BY <1>0, <1>1, <2>1, <1>9, <1>10, <2>5
  <2>3. m.first[c] # NONE => m.block[m.first[c]] = c /\ m.prev[m.first[c]] = NONE
    BY <1>0, <1>1, <2>1, <1>9, <1>10, <2>5
  <2>4. m.last[c] # NONE => m.block[m.last[c]] = c /\ m.next[m.last[c]] = NONE
    BY <1>0, <1>1, <2>1, <1>9, <1>10, <2>5
  <2> QED BY <2>2, <2>3, <2>4
<1>5. LinksFit(m)
  <2> SUFFICES ASSUME NEW j \in Inst, m.block[j] # NONE
               PROVE  /\ IF m.prev[j] = NONE THEN m.first[m.block[j]] = j
                         ELSE m.next[m.prev[j]] = j /\ m.block[m.prev[j]] = m.block[j]
                      /\ IF m.next[j] = NONE THEN m.last[m.block[j]] = j
                         ELSE m.prev[m.next[j]] = j /\ m.block[m.next[j]] = m.block[j]
    BY DEF LinksFit
  <2>5. l.block[i] = b /\ l.prev[i] = p /\ l.next[i] = n BY DEF b, p, n
  <2>1. /\ l.block[j] # NONE /\ l.block[j] = m.block[j] /\ l.block[j] \in Block
        /\ l.prev[j] \in Inst \cup {NONE} /\ l.next[j] \in Inst \cup {NONE} /\ j # i
    BY <1>1, <1>2
  <2>2. /\ IF l.prev[j] = NONE THEN l.first[l.block[j]] = j
           ELSE l.next[l.prev[j]] = j /\ l.block[l.prev[j]] = l.block[j]
        /\ IF l.next[j] = NONE THEN l.last[l.block[j]] = j
           ELSE l.prev[l.next[j]] = j /\ l.block[l.next[j]] = l.block[j]
    BY <1>3, <2>1 DEF LinksFit
  <2>3. IF m.prev[j] = NONE THEN m.first[m.block[j]] = j
        ELSE m.next[m.prev[j]] = j /\ m.block[m.prev[j]] = m.block[j]
    BY <1>0, <1>1, <1>9, <1>10, <2>1, <2>2, <2>5
  <2>4. IF m.next[j] = NONE THEN m.last[m.block[j]] = j
        ELSE m.prev[m.next[j]] = j /\ m.block[m.next[j]] = m.block[j]
    BY <1>0, <1>1, <1>9, <1>10, <2>1, <2>2, <2>5
  <2> QED BY <2>3, <2>4
<1>6. LeadsOn(m)
  <2> SUFFICES ASSUME NEW S \in (SUBSET Inst) \ {{}}, \A j \in S : m.block[j] # NONE
               PROVE  \E j \in S : m.next[j] \notin S
    BY DEF LeadsOn
  <2>0. i \notin S /\ \A j \in S : l.block[j] # NONE BY <1>1
  <2>1. CASE p \in S
    <3> DEFINE R == S \cup {i}
    <3>1. R \in (SUBSET Inst) \ {{}} /\ \A j \in R : l.block[j] # NONE BY <2>0
    <3>2. PICK j \in R : l.next[j] \notin R
      <4> HIDE DEF R
      <4> QED BY <1>3, <3>1 DEF LeadsOn
    <3>3. CASE j = i
      <4>1. n \notin S BY <3>2, <3>3 DEF n
      <4> QED BY <1>1, <1>10, <2>1, <4>1
    <3>4. CASE j # i
      <4>1. j \in S /\ j # p BY <3>2, <3>4, <1>9, <1>0, <2>1
      <4> QED BY <1>1, <3>2, <4>1, <3>4
    <3> QED BY <3>3, <3>4
  <2>2. CASE p \notin S
    <3>1. PICK j \in S : l.next[j] \notin S BY <1>3, <2>0 DEF LeadsOn
    <3> QED BY <1>1, <2>0, <2>2, <3>1
  <2> QED BY <2>1, <2>2
<1>7. IdleClear(m) BY <1>0, <1>1, <1>9 DEF Sound, IdleClear, b, p, n
<1>8. Sound(m) /\ \A j \in Inst : m.block[j] = IF j = i THEN NONE ELSE l.block[j]
  BY <1>1, <1>4, <1>5, <1>6, <1>7 DEF Sound
<1> QED BY <1>8

\* The positions in the lists of l, and the block each is in.
Place(l, to) ==
    \/ \E b \in Block : to = End(b)
    \/ \E i \in Inst : l.block[i] # NONE /\ to \in {Before(i), After(i)}
PlaceBlock(l, to) == IF to.where = "end" THEN to.of ELSE l.block[to.of]

LEMMA LinkAtKeeps ==
  ASSUME NEW l, Sound(l), NEW i \in Inst, l.block[i] = NONE, NEW to, Place(l, to),
         NEW m, m = LinkAt(l, i, to)
  PROVE  /\ Sound(m) /\ PlaceBlock(l, to) \in Block
         /\ \A j \in Inst : m.block[j] = IF j = i THEN PlaceBlock(l, to) ELSE l.block[j]
<1> USE NoneIsNothing
<1>1. /\ l.first \in [Block -> Inst \cup {NONE}] /\ l.last \in [Block -> Inst \cup {NONE}]
      /\ l.prev \in [Inst -> Inst \cup {NONE}] /\ l.next \in [Inst -> Inst \cup {NONE}]
      /\ l.block \in [Inst -> Block \cup {NONE}]
      /\ EndsFit(l) /\ LinksFit(l)
  BY DEF Sound, ListType
<1>2. CASE \E b \in Block : to = End(b)
  <2>1. PICK b \in Block : to = End(b) BY <1>2
  <2>2. to.where = "end" /\ to.of = b BY <2>1 DEF End
  <2>3. m = LinkBetween(l, i, b, l.last[b], NONE) BY <2>2 DEF LinkAt
  <2>4. Gap(l, b, l.last[b], NONE) BY <1>1 DEF EndsFit, Gap
  <2>5. PlaceBlock(l, to) = b BY <2>2 DEF PlaceBlock
  <2> QED BY <2>3, <2>4, <2>5, LinkKeeps
<1>3. CASE \E j \in Inst : l.block[j] # NONE /\ to = Before(j)
  <2>1. PICK j \in Inst : l.block[j] # NONE /\ to = Before(j) BY <1>3
  <2>2. to.where = "before" /\ to.of = j BY <2>1 DEF Before
  <2>3. m = LinkBetween(l, i, l.block[j], l.prev[j], j) BY <2>2 DEF LinkAt
  <2>4. Gap(l, l.block[j], l.prev[j], j) BY <1>1, <2>1 DEF LinksFit, Gap
  <2>5. PlaceBlock(l, to) = l.block[j] /\ l.block[j] \in Block BY <1>1, <2>1, <2>2 DEF PlaceBlock
  <2> QED BY <2>3, <2>4, <2>5, LinkKeeps
<1>4. CASE \E j \in Inst : l.block[j] # NONE /\ to = After(j)
  <2>1. PICK j \in Inst : l.block[j] # NONE /\ to = After(j) BY <1>4
  <2>2. to.where = "after" /\ to.of = j BY <2>1 DEF After
  <2>3. m = LinkBetween(l, i, l.block[j], j, l.next[j]) BY <2>2 DEF LinkAt
  <2>4. Gap(l, l.block[j], j, l.next[j]) BY <1>1, <2>1 DEF LinksFit, Gap
  <2>5. PlaceBlock(l, to) = l.block[j] /\ l.block[j] \in Block BY <1>1, <2>1, <2>2 DEF PlaceBlock
  <2> QED BY <2>3, <2>4, <2>5, LinkKeeps
<1> QED BY <1>2, <1>3, <1>4 DEF Place

LEMMA MoveKeeps ==
  ASSUME NEW l, Sound(l), NEW i \in Inst, l.block[i] # NONE,
         NEW to, Place(l, to), to \notin {Before(i), After(i)},
         NEW m, m = LinkAt(Unlink(l, i), i, to)
  PROVE  /\ Sound(m) /\ PlaceBlock(l, to) \in Block
         /\ \A j \in Inst : m.block[j] = IF j = i THEN PlaceBlock(l, to) ELSE l.block[j]
<1> DEFINE u == Unlink(l, i)
<1>1. Sound(u) /\ \A j \in Inst : u.block[j] = IF j = i THEN NONE ELSE l.block[j]
  BY UnlinkKeeps
<1>2. Place(u, to) /\ PlaceBlock(u, to) = PlaceBlock(l, to)
  <2> HIDE DEF u
  <2>1. CASE \E b \in Block : to = End(b)
    <3>1. to.where = "end" BY <2>1 DEF End
    <3> QED BY <2>1, <3>1 DEF Place, PlaceBlock
  <2>2. CASE \E j \in Inst : l.block[j] # NONE /\ to \in {Before(j), After(j)}
    <3>1. PICK j \in Inst : l.block[j] # NONE /\ to \in {Before(j), After(j)} BY <2>2
    <3>2. j # i BY <3>1
    <3>3. u.block[j] = l.block[j] BY <1>1, <3>2
    <3>4. to.of = j BY <3>1 DEF Before, After
    <3> QED BY <3>1, <3>3, <3>4 DEF Place, PlaceBlock
  <2> QED BY <2>1, <2>2 DEF Place
<1>3. u.block[i] = NONE BY <1>1
<1> HIDE DEF u
<1>4. m = LinkAt(u, i, to) BY DEF u
<1> QED BY <1>1, <1>2, <1>3, <1>4, LinkAtKeeps

------------------------------------------------------------------------------
(***************************************************************************)
(* Walking a list meets the instructions that say they are in the block,   *)
(* each once and next to its neighbours.                                   *)
(***************************************************************************)
\* w is the list of b, from first to last.
ListOf(l, b, w) ==
    /\ w \in Seq(Inst) /\ Len(w) <= MaxInsts
    /\ \A n \in 1..Len(w) : l.block[w[n]] = b
    /\ \A n, k \in 1..Len(w) : w[n] = w[k] => n = k
    /\ \A i \in Inst : l.block[i] = b => \E n \in 1..Len(w) : w[n] = i
    /\ \A n \in 1..Len(w) :
          /\ l.prev[w[n]] = IF n = 1 THEN NONE ELSE w[n - 1]
          /\ l.next[w[n]] = IF n = Len(w) THEN NONE ELSE w[n + 1]
    /\ l.first[b] = IF Len(w) = 0 THEN NONE ELSE w[1]
    /\ l.last[b] = IF Len(w) = 0 THEN NONE ELSE w[Len(w)]

\* The places met are those of a function of one step.
LEMMA WalkDef ==
  ASSUME NEW b \in Block, ListType(list)
  PROVE  \E met :
           /\ met \in [1..(MaxInsts + 1) -> Inst \cup {NONE}]
           /\ \A n \in 1..(MaxInsts + 1) :
                 met[n] = IF n = 1 THEN list.first[b]
                          ELSE IF met[n - 1] = NONE THEN NONE ELSE list.next[met[n - 1]]
           /\ Walk(b) = [n \in 1..Cardinality({n \in 1..MaxInsts : met[n] # NONE}) |-> met[n]]
<1> DEFINE D == Inst \cup {NONE}
           G == [x \in D |-> IF x = NONE THEN NONE ELSE list.next[x]]
           M == MaxInsts
           Rec(g) == [n \in 1..(M + 1) |-> IF n = 1 THEN list.first[b]
                          ELSE IF g[n - 1] = NONE THEN NONE ELSE list.next[g[n - 1]]]
<1>0. M \in Nat BY BoundsAssumption
<1>1. list.first[b] \in D /\ G \in [D -> D] BY DEF ListType
<1>2. PICK f \in [Nat -> D] : f[0] = list.first[b] /\ \A n \in Nat : f[n + 1] = G[f[n]]
  <2> DEFINE e == list.first[b]
  <2>1. e \in D BY <1>1
  <2> HIDE DEF D, G, e
  <2>2. \E f \in [Nat -> D] : f[0] = e /\ \A n \in Nat : f[n + 1] = G[f[n]] BY SMTT(30), <1>1, <2>1, Iteration
  <2> QED BY <2>2 DEF e
<1> DEFINE h == [n \in 1..(M + 1) |-> f[n - 1]]
<1>3. h = Rec(h)
  <2>1. ASSUME NEW n \in 1..(M + 1)
        PROVE  h[n] = IF n = 1 THEN list.first[b]
                      ELSE IF h[n - 1] = NONE THEN NONE ELSE list.next[h[n - 1]]
    <3>1. CASE n = 1 BY <1>0, <1>2, <3>1
    <3>2. CASE n # 1
      <4>1. n - 1 \in 1..(M + 1) /\ n - 2 \in Nat /\ (n - 1) - 1 = n - 2 /\ (n - 2) + 1 = n - 1
        BY <1>0, <3>2
      <4>2. h[n] = G[f[n - 2]] /\ h[n - 1] = f[n - 2] BY <1>2, <4>1
      <4>3. f[n - 2] \in D BY <1>2, <4>1
      <4>4. G[f[n - 2]] = IF f[n - 2] = NONE THEN NONE ELSE list.next[f[n - 2]] BY <4>3
      <4> QED BY <3>2, <4>2, <4>4
    <3> QED BY <3>1, <3>2
  <2>2. h = [n \in 1..(M + 1) |-> h[n]] OBVIOUS
  <2> HIDE DEF h
  <2> QED BY <2>1, <2>2
<1> DEFINE met == CHOOSE g : g = Rec(g)
<1>4. met = Rec(met)
  <2> HIDE DEF Rec, h
  <2> QED BY <1>3
<1>5. Walk(b) = [n \in 1..Cardinality({n \in 1..M : met[n] # NONE}) |-> met[n]]
  BY DEF Walk
<1>6. \A n \in 1..(M + 1) :
                 met[n] = IF n = 1 THEN list.first[b]
                          ELSE IF met[n - 1] = NONE THEN NONE ELSE list.next[met[n - 1]]
  <2>1. DOMAIN met = 1..(M + 1) BY <1>4
  <2> HIDE DEF met
  <2> QED BY <1>4
<1> HIDE DEF met
<1>7. \A k \in Nat : k \in 1..(M + 1) => met[k] \in D
  <2> DEFINE T == {k \in Nat : k \in 1..(M + 1) => met[k] \in D}
  <2>1. 0 \in T OBVIOUS
  <2>2. ASSUME NEW k \in Nat, k \in T PROVE k + 1 \in T
    <3>1. CASE k + 1 \in 1..(M + 1) /\ k # 0
      <4>1. k \in 1..(M + 1) /\ (k + 1) - 1 = k /\ k + 1 # 1 BY <1>0, <3>1
      <4>2. met[k] \in D BY <2>2, <4>1
      <4>3. met[k + 1] = IF met[k] = NONE THEN NONE ELSE list.next[met[k]] BY <1>6, <3>1, <4>1
      <4>4. met[k] # NONE => list.next[met[k]] \in D BY <4>2 DEF ListType
      <4> QED BY <4>3, <4>4
    <3>2. CASE k = 0
      <4>1. k + 1 = 1 /\ 1 \in 1..(M + 1) BY <1>0, <3>2
      <4>2. met[1] = list.first[b] BY <4>1, <1>6
      <4> QED BY <4>1, <4>2, <1>1
    <3> QED BY <3>1, <3>2
  <2> HIDE DEF T, D
  <2>3. Nat \subseteq T BY <2>1, <2>2, SetInduction
  <2> QED BY <2>3 DEF T
<1>8. met \in [1..(M + 1) -> D]
  <2>1. met = [n \in 1..(M + 1) |-> met[n]] BY <1>4
  <2>2. \A n \in 1..(M + 1) : met[n] \in D BY <1>0, <1>7
  <2> HIDE DEF D
  <2> QED BY <2>1, <2>2
<1> QED BY <1>5, <1>6, <1>8

LEMMA WalkFacts ==
  ASSUME Sound(list), NEW b \in Block
  PROVE  ListOf(list, b, Walk(b))
<1> USE NoneIsNothing
<1> DEFINE M == MaxInsts
<1>0. M \in Nat /\ ListType(list) BY BoundsAssumption DEF Sound
<1>1. /\ list.first \in [Block -> Inst \cup {NONE}] /\ list.last \in [Block -> Inst \cup {NONE}]
      /\ list.prev \in [Inst -> Inst \cup {NONE}] /\ list.next \in [Inst -> Inst \cup {NONE}]
      /\ list.block \in [Inst -> Block \cup {NONE}]
      /\ EndsFit(list) /\ LinksFit(list) /\ LeadsOn(list)
  BY DEF Sound, ListType
<1>2. PICK met :
           /\ met \in [1..(M + 1) -> Inst \cup {NONE}]
           /\ \A n \in 1..(M + 1) :
                 met[n] = IF n = 1 THEN list.first[b]
                          ELSE IF met[n - 1] = NONE THEN NONE ELSE list.next[met[n - 1]]
           /\ Walk(b) = [n \in 1..Cardinality({n \in 1..M : met[n] # NONE}) |-> met[n]]
  BY <1>0, WalkDef
<1>3. /\ met[1] = list.first[b]
      /\ \A n \in 1..M : met[n + 1] = IF met[n] = NONE THEN NONE ELSE list.next[met[n]]
      /\ \A n \in 1..(M + 1) : met[n] \in Inst \cup {NONE}
  <2>1. met[1] = list.first[b] BY <1>0, <1>2
  <2>2. ASSUME NEW n \in 1..M PROVE met[n + 1] = IF met[n] = NONE THEN NONE ELSE list.next[met[n]]
    <3>1. n + 1 \in 1..(M + 1) /\ (n + 1) - 1 = n /\ n + 1 # 1 BY <1>0
    <3> QED BY <1>2, <3>1
  <2> QED BY <1>2, <2>1, <2>2
<1>4. \A n \in 1..(M + 1) : met[n] # NONE =>
         list.block[met[n]] = b /\ (n # 1 => met[n - 1] # NONE /\ list.prev[met[n]] = met[n - 1])
  <2> DEFINE T == {n \in Nat : n \in 1..(M + 1) /\ met[n] # NONE =>
         list.block[met[n]] = b /\ (n # 1 => met[n - 1] # NONE /\ list.prev[met[n]] = met[n - 1])}
  <2>1. 0 \in T OBVIOUS
  <2>2. ASSUME NEW n \in Nat, n \in T PROVE n + 1 \in T
    <3> SUFFICES ASSUME n + 1 \in 1..(M + 1), met[n + 1] # NONE
        PROVE  list.block[met[n + 1]] = b
               /\ (n + 1 # 1 => met[(n + 1) - 1] # NONE /\ list.prev[met[n + 1]] = met[(n + 1) - 1])
      OBVIOUS
    <3>1. CASE n = 0
      <4>1. met[n + 1] = list.first[b] BY <1>3, <3>1
      <4> QED BY <1>1, <3>1, <4>1 DEF EndsFit
    <3>2. CASE n # 0
      <4>1. n \in 1..M /\ n \in 1..(M + 1) /\ (n + 1) - 1 = n BY <1>0, <3>2
      <4>2. met[n] # NONE /\ met[n + 1] = list.next[met[n]] /\ met[n] \in Inst BY <1>3, <4>1
      <4>3. list.block[met[n]] = b BY <2>2, <4>1, <4>2
      <4>4. list.prev[met[n + 1]] = met[n] /\ list.block[met[n + 1]] = b
        BY <1>1, <4>2, <4>3 DEF LinksFit
      <4> QED BY <4>1, <4>2, <4>4
    <3> QED BY <3>1, <3>2
  <2>3. Nat \subseteq T
    <3> HIDE DEF T
    <3> QED BY <2>1, <2>2, SetInduction
  <2> QED BY <2>3, <1>0
<1>5. ASSUME NEW n \in 1..(M + 1), NEW k \in 1..(M + 1), n < k, \A j \in n..k : met[j] # NONE,
             met[n] = met[k]
      PROVE  FALSE
  <2> DEFINE S == {met[j] : j \in n..(k - 1)}
  <2>0. n \in n..(k - 1) /\ \A j \in n..(k - 1) : j \in 1..M /\ j \in 1..(M + 1) /\ j \in n..k
    BY <1>0, <1>5
  <2>1. S \in (SUBSET Inst) \ {{}} BY <1>3, <1>5, <2>0
  <2>2. \A i \in S : list.block[i] # NONE BY <1>4, <1>5, <2>0
  <2>3. ASSUME NEW i \in S PROVE list.next[i] \in S
    <3>1. PICK j \in n..(k - 1) : i = met[j] OBVIOUS
    <3>2. list.next[i] = met[j + 1] BY <1>3, <1>5, <2>0, <3>1
    <3>3. CASE j = k - 1
      <4>1. j + 1 = k BY <3>3, <1>0
      <4> QED BY <3>2, <1>5, <2>0, <4>1
    <3>4. CASE j # k - 1
      <4>1. j + 1 \in n..(k - 1) BY <3>4, <1>0
      <4> QED BY <3>2, <4>1
    <3> QED BY <3>3, <3>4
  <2> HIDE DEF S
  <2> QED BY <1>1, <2>1, <2>2, <2>3 DEF LeadsOn
<1>6. \E n \in 1..(M + 1) : met[n] = NONE
  <2> SUFFICES ASSUME \A n \in 1..(M + 1) : met[n] # NONE PROVE FALSE OBVIOUS
  <2>1. met \in [1..(M + 1) -> Inst] BY <1>2
  <2>2. IsFiniteSet(1..(M + 1)) /\ Cardinality(1..(M + 1)) = M + 1
        /\ IsFiniteSet(Inst) /\ Cardinality(Inst) = M
    <3>1. /\ IsFiniteSet(1..(M + 1)) /\ IsFiniteSet(1..M)
          /\ Cardinality(1..(M + 1)) = IF 1 > M + 1 THEN 0 ELSE ((M + 1) - 1) + 1
          /\ Cardinality(1..M) = IF 1 > M THEN 0 ELSE (M - 1) + 1
      BY <1>0, FS_Interval
    <3>2. IF 1 > M + 1 THEN FALSE ELSE ((M + 1) - 1) + 1 = M + 1 BY <1>0
    <3>3. (IF 1 > M THEN 0 ELSE (M - 1) + 1) = M BY <1>0
    <3> QED BY <3>1, <3>2, <3>3 DEF Inst
  <2>3. \E x, y \in 1..(M + 1) : x # y /\ met[x] = met[y]
    <3>1. Cardinality(Inst) < Cardinality(1..(M + 1)) BY <2>2, <1>0
    <3> HIDE DEF M
    <3> QED BY ZenonT(40), <2>1, <2>2, <3>1, FS_PigeonHole
  <2>4. PICK x \in 1..(M + 1), y \in 1..(M + 1) : x # y /\ met[x] = met[y] BY <2>3
  <2>5. \A j \in x..y : j \in 1..(M + 1) BY <1>0
  <2>6. \A j \in y..x : j \in 1..(M + 1) BY <1>0
  <2>7. x < y \/ y < x BY <2>4, <1>0
  <2> QED BY <1>5, <2>4, <2>5, <2>6, <2>7
<1>7. PICK L \in 0..M : met[L + 1] = NONE /\ \A n \in 1..L : met[n] # NONE
  <2> DEFINE S == {n \in Nat : n \in 1..(M + 1) /\ met[n] = NONE}
  <2>1. S # {} /\ S \in SUBSET Nat BY <1>6, <1>0
  <2>2. PICK n \in S : \A m \in S : n <= m
    <3> HIDE DEF S
    <3> QED BY <2>1, LeastNumber
  <2>3. n - 1 \in 0..M /\ (n - 1) + 1 = n BY <1>0
  <2>4. ASSUME NEW m \in 1..(n - 1) PROVE met[m] # NONE
    <3>1. m \in Nat /\ m \in 1..(M + 1) /\ ~(n <= m) BY <1>0
    <3> QED BY <2>2, <3>1
  <2> QED BY <2>3, <2>4
<1>8. \A n \in Nat : n > L /\ n <= M + 1 => met[n] = NONE
  <2> DEFINE T == {n \in Nat : n > L /\ n <= M + 1 => met[n] = NONE}
  <2>1. 0 \in T OBVIOUS
  <2>2. ASSUME NEW n \in Nat, n \in T PROVE n + 1 \in T
    <3>1. CASE n + 1 > L /\ n + 1 <= M + 1
      <4>1. CASE n = L BY <1>7, <4>1
      <4>2. CASE n # L
        <5>1. n > L /\ n <= M + 1 /\ n \in 1..M BY <1>0, <3>1, <4>2
        <5> QED BY <1>3, <2>2, <5>1
      <4> QED BY <4>1, <4>2
    <3> QED BY <3>1
  <2> HIDE DEF T
  <2>3. Nat \subseteq T BY <2>1, <2>2, SetInduction
  <2> QED BY <2>3 DEF T
<1> DEFINE w == Walk(b)
<1>9. w = [n \in 1..L |-> met[n]]
  <2>1. {n \in 1..M : met[n] # NONE} = 1..L BY <1>0, <1>7, <1>8
  <2>2. Cardinality(1..L) = L
    <3>1. Cardinality(1..L) = IF 1 > L THEN 0 ELSE (L - 1) + 1 BY FS_Interval
    <3> QED BY <3>1
  <2> QED BY <1>2, <2>1, <2>2
<1>10. w \in Seq(Inst) /\ Len(w) = L /\ \A n \in 1..L : w[n] = met[n] /\ w[n] \in Inst
  <2>1. [n \in 1..L |-> met[n]] \in [1..L -> Inst] BY <1>0, <1>3, <1>7
  <2> HIDE DEF w
  <2> QED BY <1>9, <2>1, FunctionSeq
<1> HIDE DEF w
<1>11. ASSUME NEW n \in 1..L
       PROVE  /\ list.block[w[n]] = b
              /\ list.prev[w[n]] = IF n = 1 THEN NONE ELSE w[n - 1]
              /\ list.next[w[n]] = IF n = L THEN NONE ELSE w[n + 1]
  <2>1. n \in 1..(M + 1) /\ n \in 1..M /\ met[n] # NONE BY <1>0, <1>7
  <2>2. list.block[w[n]] = b BY <1>4, <1>10, <2>1
  <2>3. list.prev[w[n]] = IF n = 1 THEN NONE ELSE w[n - 1]
    <3>1. CASE n = 1
      <4>1. met[n] = list.first[b] BY <1>3, <3>1
      <4> QED BY <1>1, <1>10, <2>1, <3>1, <4>1 DEF EndsFit
    <3>2. CASE n # 1
      <4>1. n - 1 \in 1..L BY <3>2
      <4> QED BY <1>4, <1>10, <2>1, <3>2, <4>1
    <3> QED BY <3>1, <3>2
  <2>4. list.next[w[n]] = met[n + 1] BY <1>3, <1>10, <2>1
  <2>5. CASE n = L BY <1>7, <2>2, <2>3, <2>4, <2>5
  <2>6. CASE n # L
    <3>1. n + 1 \in 1..L BY <2>6
    <3> QED BY <1>10, <2>2, <2>3, <2>4, <2>6, <3>1
  <2> QED BY <2>5, <2>6
<1>12. ASSUME NEW n \in 1..L, NEW k \in 1..L, w[n] = w[k] PROVE n = k
  <2>1. ASSUME NEW x \in 1..L, NEW y \in 1..L, x < y, met[x] = met[y] PROVE FALSE
    <3>1. \A j \in x..y : j \in 1..L OBVIOUS
    <3>2. x \in 1..(M + 1) /\ y \in 1..(M + 1) BY <1>0
    <3> QED BY <1>5, <1>7, <2>1, <3>1, <3>2
  <2>2. n < k \/ k < n \/ n = k OBVIOUS
  <2> QED BY <1>10, <1>12, <2>1, <2>2
<1>13. list.first[b] = IF L = 0 THEN NONE ELSE w[1]
  <2>1. CASE L = 0 BY <1>3, <1>7, <2>1
  <2>2. CASE L # 0
    <3>1. 1 \in 1..L BY <2>2
    <3> QED BY <1>3, <1>10, <2>2, <3>1
  <2> QED BY <2>1, <2>2
<1>14. list.last[b] = IF L = 0 THEN NONE ELSE w[L]
  <2>1. CASE L = 0 BY <1>1, <1>13, <2>1 DEF EndsFit
  <2>2. CASE L # 0
    <3>1. L \in 1..L BY <2>2
    <3>2. w[L] \in Inst /\ list.block[w[L]] = b /\ list.next[w[L]] = NONE BY <1>10, <1>11, <3>1
    <3> QED BY <1>1, <2>2, <3>2 DEF LinksFit
  <2> QED BY <2>1, <2>2
<1>15. ASSUME NEW i \in Inst, list.block[i] = b PROVE \E n \in 1..L : w[n] = i
  <2> DEFINE S == {j \in Inst : list.block[j] = b /\ \A n \in 1..L : w[n] # j}
  <2> SUFFICES ASSUME i \in S PROVE FALSE BY <1>15
  <2>1. PICK j \in S : list.next[j] \notin S
    <3>1. S \in (SUBSET Inst) \ {{}} /\ \A k \in S : list.block[k] # NONE OBVIOUS
    <3> HIDE DEF S
    <3> QED BY <1>1, <3>1 DEF LeadsOn
  <2>2. j \in Inst /\ list.block[j] = b /\ \A n \in 1..L : w[n] # j OBVIOUS
  <2>3. CASE list.next[j] = NONE
    <3>1. list.last[b] = j BY <1>1, <2>2, <2>3 DEF LinksFit
    <3>2. L # 0 BY <1>14, <2>2, <3>1
    <3>3. L \in 1..L BY <3>2
    <3> QED BY <1>14, <2>2, <3>1, <3>2, <3>3
  <2>4. CASE list.next[j] # NONE
    <3>1. list.next[j] \in Inst /\ list.block[list.next[j]] = b /\ list.prev[list.next[j]] = j
      BY <1>1, <2>2, <2>4 DEF LinksFit
    <3>2. PICK n \in 1..L : w[n] = list.next[j] BY <2>1, <3>1
    <3>3. n # 1 BY <1>11, <3>1, <3>2, <2>2
    <3>4. n - 1 \in 1..L /\ w[n - 1] = j BY <1>11, <3>1, <3>2, <3>3
    <3> QED BY <2>2, <3>4
  <2> QED BY <2>3, <2>4
<1> QED BY <1>0, <1>10, <1>11, <1>12, <1>13, <1>14, <1>15 DEF ListOf, w

------------------------------------------------------------------------------
(***************************************************************************)
(* The inductive invariant.                                                *)
(***************************************************************************)
ArenaOK == arena \in [blocks : Block, insts : 0..MaxInsts, values : 0..MaxValues]

\* Only what was handed out is linked, and only into live blocks.
ListsOK ==
    /\ Sound(list)
    /\ \A i \in Inst : list.block[i] # NONE => i <= arena.insts /\ list.block[i] \in live

LiveOK == Entry \in live /\ live \subseteq 1..arena.blocks /\ ended \subseteq live

\* The position names what is still there.
PosOK ==
    \/ \E b \in live : pos = End(b)
    \/ \E i \in Inst : list.block[i] # NONE /\ pos \in {Before(i), After(i)}

ParamsOK ==
    /\ params \in [Block -> Seq(1..arena.values)]
    /\ \A b \in Block \ live : params[b] = <<>>

ResultOK ==
    /\ result \in [Inst -> 0..arena.values]
    /\ \A i \in Inst : list.block[i] # NONE => result[i] # NONE

\* A value that is listed says where, and one that says it is listed is.
DefOK ==
    /\ def \in [Value -> Def]
    /\ \A b \in Block : \A k \in DOMAIN params[b] : def[params[b][k]] = ParamOf(b, k)
    /\ \A i \in Inst : list.block[i] # NONE => def[result[i]] = ResultOf(i)
    /\ \A v \in Value : \/ def[v] = Detached
                        \/ \E b \in Block : \E k \in DOMAIN params[b] : params[b][k] = v
                        \/ \E i \in Inst : list.block[i] # NONE /\ result[i] = v

EdgesOK == edges \in [Block -> Seq([to : 1..arena.blocks, args : Seq(1..arena.values)])]

BodyInv ==
    /\ ArenaOK
    /\ ListsOK
    /\ LiveOK
    /\ PosOK
    /\ ParamsOK
    /\ ResultOK
    /\ DefOK
    /\ EdgesOK

LEMMA Bounds ==
  /\ MaxBlocks \in Nat /\ MaxBlocks >= 1 /\ MaxInsts \in Nat /\ MaxValues \in Nat
  /\ Entry \in Block
BY BoundsAssumption DEF Entry, Block

LEMMA ArenaFacts ==
  ASSUME ArenaOK
  PROVE  /\ arena.blocks \in Nat /\ arena.insts \in Nat /\ arena.values \in Nat
         /\ arena.blocks \in Block /\ 1..arena.blocks \subseteq Block
         /\ 1..arena.values \subseteq Value
         /\ arena.insts <= MaxInsts /\ arena.values <= MaxValues
BY Bounds DEF ArenaOK, Block, Value

LEMMA GrowFacts ==
  ASSUME ArenaOK, NEW x \in Nat, NEW y \in Nat, NEW z \in Nat, Grow(x, y, z)
  PROVE  /\ ArenaOK'
         /\ arena'.blocks = arena.blocks + x
         /\ arena'.insts = arena.insts + y
         /\ arena'.values = arena.values + z
<1>1. arena' = [blocks |-> arena.blocks + x, insts |-> arena.insts + y, values |-> arena.values + z]
  BY DEF Grow
<1>2. DOMAIN arena = {"blocks", "insts", "values"} BY DEF ArenaOK
<1>3. PICK s \in Sizes : \A a \in DOMAIN arena : arena'[a] <= s[a] BY DEF Grow
<1>4. s \in [blocks : 1..MaxBlocks, insts : 0..MaxInsts, values : 0..MaxValues]
  BY BoundsAssumption
<1>5. arena'.blocks <= s.blocks /\ arena'.insts <= s.insts /\ arena'.values <= s.values
  BY <1>2, <1>3
<1>6. /\ s.blocks \in Nat /\ s.blocks <= MaxBlocks /\ s.insts \in Nat /\ s.insts <= MaxInsts
      /\ s.values \in Nat /\ s.values <= MaxValues
  BY <1>4, Bounds
<1>7. /\ arena'.blocks = arena.blocks + x /\ arena'.insts = arena.insts + y
      /\ arena'.values = arena.values + z
  BY <1>1
<1>8. /\ arena.blocks \in Nat /\ arena.blocks >= 1 /\ arena.insts \in Nat /\ arena.values \in Nat
  BY ArenaFacts DEF Block
<1>9. arena'.blocks \in Block /\ arena'.insts \in 0..MaxInsts /\ arena'.values \in 0..MaxValues
  BY <1>5, <1>6, <1>7, <1>8, Bounds DEF Block
<1> QED BY <1>1, <1>7, <1>9 DEF ArenaOK

LEMMA InitBody == Init => BodyInv
<1> SUFFICES ASSUME Init PROVE BodyInv OBVIOUS
<1> USE Bounds, NoneIsNothing
<1>1. /\ arena = [blocks |-> 1, insts |-> 0, values |-> 0] /\ live = {Entry} /\ ended = {}
      /\ params = [b \in Block |-> <<>>] /\ edges = [b \in Block |-> <<>>]
      /\ result = [i \in Inst |-> NONE] /\ def = [v \in Value |-> Detached] /\ pos = End(Entry)
      /\ list = [first |-> [b \in Block |-> NONE], last |-> [b \in Block |-> NONE],
                 prev |-> [i \in Inst |-> NONE], next |-> [i \in Inst |-> NONE],
                 block |-> [i \in Inst |-> NONE]]
  BY DEF Init
<1>2. ArenaOK BY <1>1 DEF ArenaOK, Block
<1>3. ListsOK
  <2>1. /\ list.first = [b \in Block |-> NONE] /\ list.last = [b \in Block |-> NONE]
        /\ list.prev = [i \in Inst |-> NONE] /\ list.next = [i \in Inst |-> NONE]
        /\ list.block = [i \in Inst |-> NONE]
    BY <1>1
  <2>2. ListType(list) BY <1>1 DEF ListType
  <2>3. EndsFit(list) BY <2>1 DEF EndsFit
  <2>4. LinksFit(list) BY <2>1 DEF LinksFit
  <2>5. LeadsOn(list) BY <2>1 DEF LeadsOn
  <2>6. IdleClear(list) BY <2>1 DEF IdleClear
  <2> QED BY <2>1, <2>2, <2>3, <2>4, <2>5, <2>6 DEF ListsOK, Sound
<1>4. LiveOK BY <1>1 DEF LiveOK, Entry
<1>5. PosOK BY <1>1 DEF PosOK
<1>6. ParamsOK BY <1>1 DEF ParamsOK
<1>7. ResultOK BY <1>1 DEF ResultOK, NONE
<1>8. DefOK BY <1>1 DEF DefOK, Def, Detached, NONE
<1>9. EdgesOK BY <1>1 DEF EdgesOK
<1> QED BY <1>2, <1>3, <1>4, <1>5, <1>6, <1>7, <1>8, <1>9 DEF BodyInv

------------------------------------------------------------------------------
(***************************************************************************)
(* Positions and instructions.                                             *)
(***************************************************************************)
LEMMA PosFacts ==
  ASSUME BodyInv
  PROVE  /\ Place(list, pos) /\ PlaceBlock(list, pos) \in live
         /\ CurrentBlock = PlaceBlock(list, pos) /\ CurrentBlock # NONE
         /\ live \subseteq Block /\ Entry \in live
<1> USE NoneIsNothing
<1>0. live \subseteq Block /\ Entry \in live BY ArenaFacts DEF BodyInv, LiveOK
<1>1. CASE \E b \in live : pos = End(b)
  <2>1. PICK b \in live : pos = End(b) BY <1>1
  <2>2. pos.where = "end" /\ pos.of = b BY <2>1 DEF End
  <2> QED BY <1>0, <2>1, <2>2 DEF Place, PlaceBlock, CurrentBlock
<1>2. CASE \E i \in Inst : list.block[i] # NONE /\ pos \in {Before(i), After(i)}
  <2>1. PICK i \in Inst : list.block[i] # NONE /\ pos \in {Before(i), After(i)} BY <1>2
  <2>2. pos.where # "end" /\ pos.of = i BY <2>1 DEF Before, After
  <2>3. list.block[i] \in live BY <2>1 DEF BodyInv, ListsOK
  <2> QED BY <1>0, <2>1, <2>2, <2>3 DEF Place, PlaceBlock, CurrentBlock
<1> QED BY <1>1, <1>2 DEF BodyInv, PosOK

LEMMA PositionFacts ==
  ASSUME BodyInv, NEW to \in Positions
  PROVE  /\ Place(list, to) /\ PlaceBlock(list, to) \in live
         /\ \/ \E b \in live : to = End(b)
            \/ \E i \in Inst : list.block[i] # NONE /\ to \in {Before(i), After(i)}
<1> USE NoneIsNothing
<1>0. live \subseteq Block /\ Entry \in live BY ArenaFacts DEF BodyInv, LiveOK
<1>1. CASE \E b \in live : to = End(b)
  <2>1. PICK b \in live : to = End(b) BY <1>1
  <2>2. to.where = "end" /\ to.of = b BY <2>1 DEF End
  <2> QED BY <1>0, <2>1, <2>2 DEF Place, PlaceBlock
<1>2. CASE \E i \in Inst : list.block[i] # NONE /\ to \in {Before(i), After(i)}
  <2>1. PICK i \in Inst : list.block[i] # NONE /\ to \in {Before(i), After(i)} BY <1>2
  <2>2. to.where # "end" /\ to.of = i BY <2>1 DEF Before, After
  <2>3. list.block[i] \in live BY <2>1 DEF BodyInv, ListsOK
  <2> QED BY <1>0, <2>1, <2>2, <2>3 DEF Place, PlaceBlock
<1>3. (\E b \in live : to = End(b)) \/ \E i \in Linked : to \in {Before(i), After(i)}
  BY DEF Positions
<1> QED BY <1>1, <1>2, <1>3 DEF Linked

\* Only the value with a new definition is touched.
LEMMA ValueFacts ==
  ASSUME BodyInv
  PROVE  /\ \A b \in Block : \A k \in DOMAIN params[b] : params[b][k] \in Value
                                                        /\ params[b][k] \in 1..arena.values
         /\ \A i \in Inst : list.block[i] # NONE => result[i] \in Value
                                                   /\ result[i] \in 1..arena.values
         /\ \A b \in Block : Len(params[b]) \in Nat /\ DOMAIN params[b] = 1..Len(params[b])
<1>1. 1..arena.values \subseteq Value /\ arena.values \in Nat BY ArenaFacts DEF BodyInv
<1>2. ASSUME NEW b \in Block
      PROVE  /\ Len(params[b]) \in Nat /\ DOMAIN params[b] = 1..Len(params[b])
             /\ \A k \in DOMAIN params[b] : params[b][k] \in 1..arena.values
  <2>1. params[b] \in Seq(1..arena.values) BY DEF BodyInv, ParamsOK
  <2> QED BY <2>1, LenProperties, ElementOfSeq
<1>3. ASSUME NEW i \in Inst, list.block[i] # NONE PROVE result[i] \in 1..arena.values
  BY <1>1, <1>3 DEF BodyInv, ResultOK, NONE
<1> QED BY <1>1, <1>2, <1>3

LEMMA SetPositionInv == BodyInv /\ SetPosition => BodyInv'
<1> SUFFICES ASSUME BodyInv, SetPosition PROVE BodyInv' OBVIOUS
<1>1. /\ arena' = arena /\ list' = list /\ live' = live /\ params' = params /\ ended' = ended
      /\ edges' = edges /\ result' = result /\ def' = def /\ pos' \in Positions
  BY DEF SetPosition, flow
<1>2. PosOK' BY <1>1, PositionFacts DEF PosOK
<1>3. ArenaOK' BY <1>1 DEF BodyInv, ArenaOK
<1>4. ListsOK' BY <1>1 DEF BodyInv, ListsOK
<1>5. LiveOK' BY <1>1 DEF BodyInv, LiveOK
<1>6. ParamsOK' BY <1>1 DEF BodyInv, ParamsOK
<1>7. ResultOK' BY <1>1 DEF BodyInv, ResultOK
<1>8. DefOK' BY <1>1 DEF BodyInv, DefOK
<1>9. EdgesOK' BY <1>1 DEF BodyInv, EdgesOK
<1> QED BY <1>2, <1>3, <1>4, <1>5, <1>6, <1>7, <1>8, <1>9 DEF BodyInv

LEMMA KindsDiffer ==
  /\ \A b, k, i : ParamOf(b, k) # ResultOf(i) /\ ParamOf(b, k) # Detached /\ ResultOf(i) # Detached
  /\ \A i, j : ResultOf(i) = ResultOf(j) => i = j
  /\ \A b, k, c, m : ParamOf(b, k) = ParamOf(c, m) => b = c /\ k = m
  /\ Detached \in Def
  /\ \A n, k \in Nat : ParamOf(n, k) \in Def /\ ResultOf(n) \in Def
<1>1. \A b, k, i : ParamOf(b, k) # ResultOf(i) /\ ParamOf(b, k) # Detached /\ ResultOf(i) # Detached
  <2>1. \A b, k : ParamOf(b, k).kind = "param" BY DEF ParamOf
  <2>2. \A i : ResultOf(i).kind = "result" BY DEF ResultOf
  <2>3. Detached.kind = "detached" BY DEF Detached
  <2> QED BY <2>1, <2>2, <2>3
<1>2. \A i, j : ResultOf(i) = ResultOf(j) => i = j
  <2>1. \A i : ResultOf(i).of = i BY DEF ResultOf
  <2> QED BY <2>1
<1>3. \A b, k, c, m : ParamOf(b, k) = ParamOf(c, m) => b = c /\ k = m
  <2>1. \A b, k : ParamOf(b, k).of = b /\ ParamOf(b, k).index = k BY DEF ParamOf
  <2> QED BY <2>1
<1>4. Detached \in Def BY DEF Detached, Def, NONE
<1>5. \A n, k \in Nat : ParamOf(n, k) \in Def /\ ResultOf(n) \in Def BY DEF ParamOf, ResultOf, Def
<1> QED BY <1>1, <1>2, <1>3, <1>4, <1>5

LEMMA InsertInv == BodyInv /\ Insert => BodyInv'
<1> SUFFICES ASSUME BodyInv, Insert PROVE BodyInv' OBVIOUS
<1> DEFINE i == arena.insts + 1
           v == arena.values + 1
<1> USE NoneIsNothing
<1>1. /\ Grow(0, 1, 1)
      /\ result' = [result EXCEPT ![i] = v] /\ def' = [def EXCEPT ![v] = ResultOf(i)]
      /\ list' = LinkAt(list, i, pos) /\ pos' = Advanced(i)
      /\ live' = live /\ params' = params /\ ended' = ended /\ edges' = edges
  BY DEF Insert, flow
<1>2. /\ ArenaOK' /\ arena'.blocks = arena.blocks /\ arena'.insts = i /\ arena'.values = v
      /\ arena.insts \in Nat /\ arena.values \in Nat /\ arena.blocks \in Nat
  <2>0. /\ arena.blocks \in Nat /\ arena.insts \in Nat /\ arena.values \in Nat
    BY ArenaFacts DEF BodyInv
  <2>1. ArenaOK' /\ arena'.blocks = arena.blocks + 0 /\ arena'.insts = i /\ arena'.values = v
    BY <1>1, GrowFacts DEF BodyInv
  <2> QED BY <2>0, <2>1
<1>3. i \in Inst /\ v \in Value /\ v \notin 1..arena.values /\ i # NONE
  BY <1>2 DEF ArenaOK, Inst, Value, NONE
<1>4. list.block[i] = NONE BY <1>2, <1>3 DEF BodyInv, ListsOK
<1> HIDE DEF i, v
<1> DEFINE b == PlaceBlock(list, pos)
<1>5. Place(list, pos) /\ b \in live /\ b \in Block BY PosFacts
<1>6. Sound(list') /\ \A j \in Inst : list'.block[j] = IF j = i THEN b ELSE list.block[j]
  BY <1>1, <1>3, <1>4, <1>5, LinkAtKeeps DEF BodyInv, ListsOK
<1> HIDE DEF b
<1>7. ListsOK'
  <2>1. ASSUME NEW j \in Inst, list'.block[j] # NONE PROVE j <= arena'.insts /\ list'.block[j] \in live'
    <3>1. CASE j = i BY <1>1, <1>2, <1>5, <1>6, <3>1 DEF Inst
    <3>2. CASE j # i
      <4>1. list.block[j] # NONE /\ list'.block[j] = list.block[j] BY <1>6, <2>1, <3>2
      <4>2. j <= arena.insts /\ list.block[j] \in live /\ j \in Nat BY <4>1 DEF BodyInv, ListsOK, Inst
      <4> QED BY <1>1, <1>2, <4>1, <4>2 DEF i
    <3> QED BY <3>1, <3>2
  <2> QED BY <1>6, <2>1 DEF ListsOK
<1>8. LiveOK' BY <1>1, <1>2 DEF BodyInv, LiveOK
<1>9. PosOK'
  <2>1. CASE \E c \in live : pos = End(c)
    <3>1. pos.where = "end" BY <2>1 DEF End
    <3> QED BY <1>1, <2>1, <3>1 DEF PosOK, Advanced
  <2>2. CASE \E j \in Inst : list.block[j] # NONE /\ pos = Before(j)
    <3>1. pos.where = "before" BY <2>2 DEF Before
    <3> QED BY <1>1, <1>4, <1>6, <2>2, <3>1 DEF PosOK, Advanced
  <2>3. CASE \E j \in Inst : list.block[j] # NONE /\ pos = After(j)
    <3>1. pos.where = "after" BY <2>3 DEF After
    <3>2. pos' = After(i) /\ list'.block[i] # NONE BY <1>1, <1>3, <1>5, <1>6, <3>1 DEF Advanced
    <3> QED BY <1>3, <3>2 DEF PosOK
  <2> QED BY <2>1, <2>2, <2>3 DEF BodyInv, PosOK
<1>10. 1..arena.values \subseteq 1..arena'.values /\ 0..arena.values \subseteq 0..arena'.values
       /\ v \in 1..arena'.values /\ v \in 0..arena'.values /\ v # NONE
  BY <1>2 DEF v, NONE
<1>11. ParamsOK'
  <2>1. Seq(1..arena.values) \subseteq Seq(1..arena'.values) BY <1>10, SeqMonotonic
  <2> QED BY <1>1, <2>1 DEF BodyInv, ParamsOK
<1>12. ResultOK'
  <2>1. result' \in [Inst -> 0..arena'.values] BY <1>1, <1>10 DEF BodyInv, ResultOK
  <2>2. ASSUME NEW j \in Inst, list'.block[j] # NONE PROVE result'[j] # NONE
    BY <1>1, <1>3, <1>6, <1>10, <2>2 DEF BodyInv, ResultOK
  <2> QED BY <2>1, <2>2 DEF ResultOK
<1>13. DefOK'
  <2>0. /\ def \in [Value -> Def] /\ result \in [Inst -> 0..arena.values]
        /\ \A c \in Block : \A k \in DOMAIN params[c] : def[params[c][k]] = ParamOf(c, k)
        /\ \A j \in Inst : list.block[j] # NONE => def[result[j]] = ResultOf(j)
    BY DEF BodyInv, DefOK, ResultOK
  <2>1. def' \in [Value -> Def]
    <3>1. i \in Nat BY <1>3 DEF Inst
    <3>2. ResultOf(i) \in Def BY <3>1, KindsDiffer
    <3> QED BY <1>1, <2>0, <3>2
  <2>2. ASSUME NEW c \in Block, NEW k \in DOMAIN params'[c] PROVE def'[params'[c][k]] = ParamOf(c, k)
    <3>1. params[c][k] \in Value /\ params[c][k] # v BY <1>1, <1>3, ValueFacts
    <3> QED BY <1>1, <2>0, <3>1
  <2>3. ASSUME NEW j \in Inst, list'.block[j] # NONE PROVE def'[result'[j]] = ResultOf(j)
    <3>1. CASE j = i BY <1>1, <1>3, <2>0, <3>1
    <3>2. CASE j # i
      <4>1. list.block[j] # NONE BY <1>6, <2>3, <3>2
      <4>2. result[j] \in Value /\ result[j] # v BY <1>3, <4>1, ValueFacts
      <4> QED BY <1>1, <2>0, <3>2, <4>1, <4>2
    <3> QED BY <3>1, <3>2
  <2>4. ASSUME NEW x \in Value
        PROVE  \/ def'[x] = Detached
               \/ \E c \in Block : \E k \in DOMAIN params'[c] : params'[c][k] = x
               \/ \E j \in Inst : list'.block[j] # NONE /\ result'[j] = x
    <3>1. CASE x = v BY <1>1, <1>3, <1>5, <1>6, <2>0, <3>1
    <3>2. CASE x # v
      <4>1. def'[x] = def[x] BY <1>1, <2>0, <3>2
      <4>2. ASSUME NEW j \in Inst, list.block[j] # NONE, result[j] = x
            PROVE  list'.block[j] # NONE /\ result'[j] = x
        BY <1>1, <1>4, <1>6, <2>0, <4>2
      <4> QED BY <1>1, <4>1, <4>2 DEF BodyInv, DefOK
    <3> QED BY <3>1, <3>2
  <2> QED BY <2>1, <2>2, <2>3, <2>4 DEF DefOK
<1>14. EdgesOK'
  <2>1. Seq(1..arena.values) \subseteq Seq(1..arena'.values) BY <1>10, SeqMonotonic
  <2>2. [to : 1..arena.blocks, args : Seq(1..arena.values)]
          \subseteq [to : 1..arena'.blocks, args : Seq(1..arena'.values)]
    BY <1>2, <2>1
  <2>3. Seq([to : 1..arena.blocks, args : Seq(1..arena.values)])
          \subseteq Seq([to : 1..arena'.blocks, args : Seq(1..arena'.values)])
    BY <2>2, SeqMonotonic
  <2> QED BY <1>1, <2>3 DEF BodyInv, EdgesOK
<1> QED BY <1>2, <1>7, <1>8, <1>9, <1>11, <1>12, <1>13, <1>14 DEF BodyInv

LEMMA Wider ==
  ASSUME NEW n \in Nat, NEW m \in Nat, n <= m, NEW p \in Nat, NEW q \in Nat, p <= q
  PROVE  /\ Seq(1..n) \subseteq Seq(1..m)
         /\ Seq([to : 1..p, args : Seq(1..n)]) \subseteq Seq([to : 1..q, args : Seq(1..m)])
<1>1. 1..n \subseteq 1..m /\ 1..p \subseteq 1..q OBVIOUS
<1>2. Seq(1..n) \subseteq Seq(1..m) BY <1>1, SeqMonotonic
<1>3. [to : 1..p, args : Seq(1..n)] \subseteq [to : 1..q, args : Seq(1..m)] BY <1>1, <1>2
<1> DEFINE A == [to : 1..p, args : Seq(1..n)]
           B == [to : 1..q, args : Seq(1..m)]
<1>4. Seq(A) \subseteq Seq(B)
  <2>1. A \subseteq B BY <1>3
  <2> HIDE DEF A, B
  <2> QED BY <2>1, SeqMonotonic
<1> QED BY <1>2, <1>4

LEMMA ValuesStay ==
  ASSUME BodyInv, params' = params, result' = result, def' = def, arena'.values = arena.values,
         \A j \in Inst : list'.block[j] # NONE <=> list.block[j] # NONE, live \subseteq live'
  PROVE  ParamsOK' /\ ResultOK' /\ DefOK'
<1>1. ParamsOK' BY DEF BodyInv, ParamsOK
<1>2. ResultOK' BY DEF BodyInv, ResultOK
<1>3. DefOK' BY DEF BodyInv, DefOK
<1> QED BY <1>1, <1>2, <1>3

LEMMA RemoveInstInv == ASSUME BodyInv, NEW i, RemoveInst(i) PROVE BodyInv'
<1> USE NoneIsNothing
<1> DEFINE p == list.prev[i]
           n == list.next[i]
           beside == IF n # NONE THEN Before(n) ELSE End(list.block[i])
<1>1. /\ i \in Inst /\ list.block[i] # NONE /\ list' = Unlink(list, i)
      /\ def' = [def EXCEPT ![result[i]] = Detached]
      /\ pos' = CASE pos = Before(i) -> beside
                  [] pos = After(i) -> IF p # NONE THEN After(p) ELSE beside
                  [] OTHER -> pos
      /\ arena' = arena /\ live' = live /\ params' = params /\ ended' = ended /\ edges' = edges
      /\ result' = result
  BY DEF RemoveInst, flow, Linked
<1>2. /\ Sound(list)
      /\ \A j \in Inst : list.block[j] # NONE => j <= arena.insts /\ list.block[j] \in live
  BY DEF BodyInv, ListsOK
<1>3. Sound(list') /\ \A j \in Inst : list'.block[j] = IF j = i THEN NONE ELSE list.block[j]
  BY <1>1, <1>2, UnlinkKeeps
<1>4. ListsOK' BY <1>1, <1>2, <1>3 DEF ListsOK
<1>5. /\ p # NONE => p \in Inst /\ list.block[p] # NONE /\ p # i
      /\ n # NONE => n \in Inst /\ list.block[n] # NONE /\ n # i
  <2>1. /\ p \in Inst \cup {NONE} /\ n \in Inst \cup {NONE}
    BY <1>1, <1>2 DEF Sound, ListType
  <2>2. n # i
    <3>1. \E j \in {i} : list.next[j] \notin {i} BY <1>1, <1>2 DEF Sound, LeadsOn
    <3> QED BY <3>1
  <2>3. p # NONE => list.next[p] = i /\ list.block[p] = list.block[i]
    BY <1>1, <1>2 DEF Sound, LinksFit
  <2>4. n # NONE => list.block[n] = list.block[i] BY <1>1, <1>2 DEF Sound, LinksFit
  <2>5. p # i BY <2>2, <2>3, <1>1
  <2> QED BY <1>1, <2>1, <2>2, <2>3, <2>4, <2>5
<1> HIDE DEF p, n
<1>6. PosOK'
  <2>0. After(i).where = "after" /\ Before(i).where = "before" BY DEF After, Before
  <2>1. \/ beside = Before(n) /\ n # NONE
        \/ beside = End(list.block[i]) /\ list.block[i] \in live
    BY <1>1, <1>2
  <2>2. (\E b \in live : beside = End(b))
        \/ \E j \in Inst : list'.block[j] # NONE /\ beside = Before(j)
    BY <1>3, <1>5, <2>1
  <2>3. CASE pos = Before(i)
    <3>1. pos' = beside BY <1>1, <2>0, <2>3
    <3> QED BY <1>1, <2>2, <3>1 DEF PosOK
  <2>4. CASE pos = After(i)
    <3>1. pos # Before(i) BY <2>0, <2>4
    <3>2. pos' = IF p # NONE THEN After(p) ELSE beside BY <1>1, <2>4, <3>1
    <3> QED BY <1>1, <1>3, <1>5, <2>2, <3>2 DEF PosOK
  <2>5. CASE pos # Before(i) /\ pos # After(i)
    <3>1. pos' = pos BY <1>1, <2>5
    <3>2. CASE \E b \in live : pos = End(b) BY <1>1, <3>1, <3>2 DEF PosOK
    <3>3. CASE \E j \in Inst : list.block[j] # NONE /\ pos \in {Before(j), After(j)}
      <4>1. PICK j \in Inst : list.block[j] # NONE /\ pos \in {Before(j), After(j)} BY <3>3
      <4>2. j # i BY <2>5, <4>1
      <4> QED BY <1>3, <3>1, <4>1, <4>2 DEF PosOK
    <3> QED BY <3>2, <3>3 DEF BodyInv, PosOK
  <2> QED BY <2>3, <2>4, <2>5
<1>7. DefOK'
  <2>0. /\ def \in [Value -> Def]
        /\ \A c \in Block : \A k \in DOMAIN params[c] : def[params[c][k]] = ParamOf(c, k)
        /\ \A j \in Inst : list.block[j] # NONE => def[result[j]] = ResultOf(j)
        /\ result[i] \in Value
    BY <1>1, ValueFacts DEF BodyInv, DefOK
  <2>1. def' \in [Value -> Def] BY <1>1, <2>0, KindsDiffer
  <2>2. ASSUME NEW c \in Block, NEW k \in DOMAIN params'[c] PROVE def'[params'[c][k]] = ParamOf(c, k)
    <3>1. params[c][k] # result[i] BY <1>1, <2>0, KindsDiffer
    <3>2. params[c][k] \in Value BY <1>1, ValueFacts
    <3> QED BY <1>1, <2>0, <3>1, <3>2
  <2>3. ASSUME NEW j \in Inst, list'.block[j] # NONE PROVE def'[result'[j]] = ResultOf(j)
    <3>1. j # i /\ list.block[j] # NONE BY <1>3, <2>3
    <3>2. result[j] # result[i] BY <1>1, <2>0, <3>1, KindsDiffer
    <3>3. result[j] \in Value BY <3>1, ValueFacts
    <3> QED BY <1>1, <2>0, <3>1, <3>2, <3>3
  <2>4. ASSUME NEW x \in Value
        PROVE  \/ def'[x] = Detached
               \/ \E c \in Block : \E k \in DOMAIN params'[c] : params'[c][k] = x
               \/ \E j \in Inst : list'.block[j] # NONE /\ result'[j] = x
    <3>1. CASE x = result[i] BY <1>1, <2>0, <3>1
    <3>2. CASE x # result[i]
      <4>1. def'[x] = def[x] BY <1>1, <2>0, <3>2
      <4>2. ASSUME NEW j \in Inst, list.block[j] # NONE, result[j] = x
            PROVE  list'.block[j] # NONE /\ result'[j] = x
        BY <1>1, <1>3, <3>2, <4>2
      <4> QED BY <1>1, <4>1, <4>2 DEF BodyInv, DefOK
    <3> QED BY <3>1, <3>2
  <2> QED BY <2>1, <2>2, <2>3, <2>4 DEF DefOK
<1>8. ArenaOK' BY <1>1 DEF BodyInv, ArenaOK
<1>9. LiveOK' BY <1>1 DEF BodyInv, LiveOK
<1>10. ParamsOK' BY <1>1 DEF BodyInv, ParamsOK
<1>11. ResultOK' BY <1>1, <1>3 DEF BodyInv, ResultOK
<1>12. EdgesOK' BY <1>1 DEF BodyInv, EdgesOK
<1> QED BY <1>4, <1>6, <1>7, <1>8, <1>9, <1>10, <1>11, <1>12 DEF BodyInv

LEMMA MoveInstInv == ASSUME BodyInv, NEW i, NEW to, MoveInst(i, to) PROVE BodyInv'
<1> USE NoneIsNothing
<1>1. /\ i \in Inst /\ list.block[i] # NONE /\ list' = LinkAt(Unlink(list, i), i, to)
      /\ to \in Positions /\ to \notin {Before(i), After(i)}
      /\ arena' = arena /\ live' = live /\ params' = params /\ ended' = ended /\ edges' = edges
      /\ result' = result /\ def' = def /\ pos' = pos
  BY DEF MoveInst, flow, Linked
<1>2. /\ Sound(list)
      /\ \A j \in Inst : list.block[j] # NONE => j <= arena.insts /\ list.block[j] \in live
  BY DEF BodyInv, ListsOK
<1> DEFINE b == PlaceBlock(list, to)
<1>3. Place(list, to) /\ b \in live /\ b \in Block BY <1>1, PositionFacts, PosFacts
<1>4. Sound(list') /\ \A j \in Inst : list'.block[j] = IF j = i THEN b ELSE list.block[j]
  BY <1>1, <1>2, <1>3, MoveKeeps
<1> HIDE DEF b
<1>5. ListsOK' BY <1>1, <1>2, <1>3, <1>4 DEF ListsOK
<1>6. \A j \in Inst : list'.block[j] # NONE <=> list.block[j] # NONE BY <1>1, <1>3, <1>4
<1>7. ParamsOK' /\ ResultOK' /\ DefOK' BY <1>1, <1>6, ValuesStay
<1>8. ArenaOK' BY <1>1 DEF BodyInv, ArenaOK
<1>9. LiveOK' BY <1>1 DEF BodyInv, LiveOK
<1>10. PosOK' BY <1>1, <1>6 DEF BodyInv, PosOK
<1>11. EdgesOK' BY <1>1 DEF BodyInv, EdgesOK
<1> QED BY <1>5, <1>7, <1>8, <1>9, <1>10, <1>11 DEF BodyInv

------------------------------------------------------------------------------
(***************************************************************************)
(* Blocks and parameters.                                                  *)
(***************************************************************************)
LEMMA CreateBlockInv == ASSUME BodyInv, NEW k \in 0..MaxValues, CreateBlock(k) PROVE BodyInv'
<1> USE NoneIsNothing
<1> DEFINE b == arena.blocks + 1
           n == arena.values
           new == [j \in 1..k |-> n + j]
<1>1. /\ Grow(1, 0, k) /\ live' = live \cup {b} /\ params' = [params EXCEPT ![b] = new]
      /\ def' = [v \in Value |-> IF v \in (n + 1)..(n + k) THEN ParamOf(b, v - n) ELSE def[v]]
      /\ list' = list /\ ended' = ended /\ edges' = edges /\ result' = result /\ pos' = pos
  BY DEF CreateBlock
<1>2. /\ ArenaOK' /\ arena'.blocks = b /\ arena'.insts = arena.insts /\ arena'.values = n + k
      /\ arena.insts \in Nat /\ n \in Nat /\ arena.blocks \in Nat /\ k \in Nat
  <2>0. /\ arena.blocks \in Nat /\ arena.insts \in Nat /\ n \in Nat /\ k \in Nat
    BY ArenaFacts, Bounds DEF BodyInv
  <2> HIDE DEF n
  <2>1. ArenaOK' /\ arena'.blocks = arena.blocks + 1 /\ arena'.insts = arena.insts + 0
        /\ arena'.values = n + k
    BY <1>1, <2>0, GrowFacts DEF BodyInv, n
  <2> QED BY <2>0, <2>1
<1>3. b \in Block /\ b \in Nat /\ n + k <= MaxValues BY <1>2, Bounds DEF ArenaOK, Block
<1>4. b \notin live /\ params[b] = <<>>
  <2>1. b \notin live BY <1>2 DEF BodyInv, LiveOK
  <2> QED BY <1>3, <2>1 DEF BodyInv, ParamsOK
<1>5. new \in Seq(1..(n + k)) /\ DOMAIN new = 1..k /\ \A j \in 1..k : new[j] = n + j
  <2>1. new \in [1..k -> 1..(n + k)] BY <1>2
  <2>2. \A j \in 1..k : new[j] = n + j OBVIOUS
  <2> HIDE DEF new
  <2> QED BY <1>2, <2>1, <2>2, FunctionSeq
<1> HIDE DEF b, new
<1>6. ListsOK' BY <1>1, <1>2 DEF BodyInv, ListsOK
<1>7. LiveOK'
  <2>1. live \subseteq 1..arena.blocks /\ Entry \in live /\ ended \subseteq live
    BY DEF BodyInv, LiveOK
  <2>2. 1..arena.blocks \subseteq 1..arena'.blocks /\ b \in 1..arena'.blocks BY <1>2 DEF b
  <2> QED BY <1>1, <2>1, <2>2 DEF LiveOK
<1>8. PosOK' BY <1>1 DEF BodyInv, PosOK
<1>9. /\ Seq(1..n) \subseteq Seq(1..(n + k))
      /\ Seq([to : 1..arena.blocks, args : Seq(1..n)]) \subseteq Seq([to : 1..b, args : Seq(1..(n + k))])
  <2>1. n + k \in Nat /\ n <= n + k /\ arena.blocks <= b BY <1>2, <1>3 DEF b
  <2> HIDE DEF n
  <2> QED BY ZenonT(40), <1>2, <1>3, <2>1, Wider
<1>10. ParamsOK'
  <2>1. params' \in [Block -> Seq(1..(n + k))] BY <1>1, <1>5, <1>9 DEF BodyInv, ParamsOK
  <2>2. \A c \in Block \ live' : params'[c] = <<>> BY <1>1 DEF BodyInv, ParamsOK
  <2> QED BY <1>2, <2>1, <2>2 DEF ParamsOK
<1>11. ResultOK'
  <2>1. 0..n \subseteq 0..(n + k) BY <1>2
  <2> QED BY <1>1, <1>2, <2>1 DEF BodyInv, ResultOK
<1>12. DefOK'
  <2>0. /\ def \in [Value -> Def]
        /\ \A c \in Block : \A m \in DOMAIN params[c] : def[params[c][m]] = ParamOf(c, m)
        /\ \A j \in Inst : list.block[j] # NONE => def[result[j]] = ResultOf(j)
    BY DEF BodyInv, DefOK
  <2>9. \A v \in 1..n : v \notin (n + 1)..(n + k) BY <1>2
  <2>1. def' \in [Value -> Def]
    <3>1. ASSUME NEW v \in Value, v \in (n + 1)..(n + k) PROVE ParamOf(b, v - n) \in Def
      <4>1. v - n \in Nat BY <1>2, <3>1
      <4> QED BY <1>3, <4>1, KindsDiffer
    <3> QED BY <1>1, <2>0, <3>1
  <2>2. ASSUME NEW c \in Block, NEW m \in DOMAIN params'[c] PROVE def'[params'[c][m]] = ParamOf(c, m)
    <3>1. CASE c = b
      <4>1. params'[c] = new BY <1>1, <1>3, <3>1 DEF BodyInv, ParamsOK
      <4>2. m \in 1..k /\ params'[c][m] = n + m BY <1>5, <2>2, <4>1
      <4>3. n + m \in Value /\ n + m \in (n + 1)..(n + k) /\ (n + m) - n = m
        BY <1>2, <1>3, <4>2, Bounds DEF Value
      <4> QED BY <1>1, <3>1, <4>2, <4>3
    <3>2. CASE c # b
      <4>1. params'[c] = params[c] BY <1>1, <3>2 DEF BodyInv, ParamsOK
      <4>2. params[c][m] \in Value /\ params[c][m] \in 1..n BY <2>2, <4>1, ValueFacts
      <4> QED BY <1>1, <2>0, <2>2, <2>9, <4>1, <4>2
    <3> QED BY <3>1, <3>2
  <2>3. ASSUME NEW j \in Inst, list'.block[j] # NONE PROVE def'[result'[j]] = ResultOf(j)
    <3>1. list.block[j] # NONE BY <1>1, <2>3
    <3>2. result[j] \in Value /\ result[j] \in 1..n BY <3>1, ValueFacts
    <3> QED BY <1>1, <2>0, <2>9, <3>1, <3>2
  <2>4. ASSUME NEW x \in Value
        PROVE  \/ def'[x] = Detached
               \/ \E c \in Block : \E m \in DOMAIN params'[c] : params'[c][m] = x
               \/ \E j \in Inst : list'.block[j] # NONE /\ result'[j] = x
    <3>1. CASE x \in (n + 1)..(n + k)
      <4>1. params'[b] = new BY <1>1, <1>3 DEF BodyInv, ParamsOK
      <4>2. x - n \in 1..k /\ n + (x - n) = x BY <1>2, <3>1
      <4>3. x - n \in DOMAIN params'[b] /\ params'[b][x - n] = x BY <1>5, <4>1, <4>2
      <4> QED BY <1>3, <4>3
    <3>2. CASE x \notin (n + 1)..(n + k)
      <4>1. def'[x] = def[x] BY <1>1, <3>2
      <4>2. CASE def[x] = Detached BY <4>1, <4>2
      <4>3. CASE \E j \in Inst : list.block[j] # NONE /\ result[j] = x BY <1>1, <4>3
      <4>4. CASE \E c \in Block : \E m \in DOMAIN params[c] : params[c][m] = x
        <5>1. PICK c \in Block : \E m \in DOMAIN params[c] : params[c][m] = x BY <4>4
        <5>2. c # b BY <1>4, <5>1
        <5>3. params'[c] = params[c] BY <1>1, <5>2 DEF BodyInv, ParamsOK
        <5> QED BY <5>1, <5>3
      <4> QED BY <4>2, <4>3, <4>4 DEF BodyInv, DefOK
    <3> QED BY <3>1, <3>2
  <2> QED BY <2>1, <2>2, <2>3, <2>4 DEF DefOK
<1>13. EdgesOK'
  <2>1. edges' \in [Block -> Seq([to : 1..b, args : Seq(1..(n + k))])]
    BY <1>1, <1>9 DEF BodyInv, EdgesOK
  <2> QED BY <1>2, <2>1 DEF EdgesOK
<1> QED BY <1>2, <1>6, <1>7, <1>8, <1>10, <1>11, <1>12, <1>13 DEF BodyInv

LEMMA EdgeFacts ==
  ASSUME BodyInv, NEW c \in Block
  PROVE  /\ edges[c] \in Seq([to : 1..arena.blocks, args : Seq(1..arena.values)])
         /\ Len(edges[c]) \in Nat /\ DOMAIN edges[c] = 1..Len(edges[c])
         /\ \A e \in DOMAIN edges[c] :
               /\ edges[c][e].to \in 1..arena.blocks
               /\ edges[c][e].args \in Seq(1..arena.values)
               /\ edges[c][e] = [to |-> edges[c][e].to, args |-> edges[c][e].args]
<1> DEFINE R == [to : 1..arena.blocks, args : Seq(1..arena.values)]
<1>1. edges[c] \in Seq(R) BY DEF BodyInv, EdgesOK
<1>2. Len(edges[c]) \in Nat /\ DOMAIN edges[c] = 1..Len(edges[c])
      /\ \A e \in DOMAIN edges[c] : edges[c][e] \in R
  <2> HIDE DEF R
  <2> QED BY <1>1, LenProperties, ElementOfSeq
<1> QED BY <1>1, <1>2

LEMMA AddBlockParamInv == ASSUME BodyInv, NEW b, AddBlockParam(b) PROVE BodyInv'
<1> USE NoneIsNothing
<1> DEFINE v == arena.values + 1
           n == arena.values
<1>1. /\ b \in live /\ Grow(0, 0, 1) /\ params' = [params EXCEPT ![b] = Append(params[b], v)]
      /\ def' = [def EXCEPT ![v] = ParamOf(b, Len(params[b]) + 1)]
      /\ list' = list /\ live' = live /\ ended' = ended /\ edges' = edges /\ result' = result
      /\ pos' = pos
  BY DEF AddBlockParam
<1>2. /\ ArenaOK' /\ arena'.blocks = arena.blocks /\ arena'.insts = arena.insts /\ arena'.values = v
      /\ n \in Nat /\ arena.blocks \in Nat
  <2>0. /\ arena.blocks \in Nat /\ arena.insts \in Nat /\ n \in Nat
    BY ArenaFacts DEF BodyInv
  <2> HIDE DEF n
  <2>1. ArenaOK' /\ arena'.blocks = arena.blocks + 0 /\ arena'.insts = arena.insts + 0
        /\ arena'.values = arena.values + 1
    BY <1>1, <2>0, GrowFacts DEF BodyInv, n
  <2> QED BY <2>0, <2>1
<1>3. v \in Value /\ v \notin 1..n /\ v \in Nat /\ n <= v /\ v = n + 1
  BY <1>2 DEF ArenaOK, Value
<1>4. b \in Block /\ b \in Nat BY <1>1, PosFacts DEF Block
<1> HIDE DEF v, n
<1>5. /\ Seq(1..n) \subseteq Seq(1..v)
      /\ Seq([to : 1..arena.blocks, args : Seq(1..n)]) \subseteq Seq([to : 1..arena.blocks, args : Seq(1..v)])
  <2>1. arena.blocks <= arena.blocks BY <1>2
  <2> QED BY <1>2, <1>3, <2>1, Wider
<1>6. /\ params[b] \in Seq(1..v) /\ Len(params[b]) \in Nat /\ DOMAIN params[b] = 1..Len(params[b])
  <2>1. params[b] \in Seq(1..n) BY <1>4 DEF BodyInv, ParamsOK, n
  <2> QED BY <1>4, <1>5, <2>1, ValueFacts
<1> DEFINE new == Append(params[b], v)
<1>7. /\ new \in Seq(1..v) /\ DOMAIN new = 1..(Len(params[b]) + 1)
      /\ new[Len(params[b]) + 1] = v /\ \A k \in DOMAIN params[b] : new[k] = params[b][k]
  <2>1. v \in 1..v BY <1>2, <1>3
  <2>2. /\ new \in Seq(1..v) /\ Len(new) = Len(params[b]) + 1
        /\ new[Len(params[b]) + 1] = v /\ \A k \in 1..Len(params[b]) : new[k] = params[b][k]
    BY <1>6, <2>1, AppendProperties
  <2> HIDE DEF new
  <2> QED BY <1>6, <2>2, LenProperties
<1> HIDE DEF new
<1>8. \A c \in Block : params'[c] = IF c = b THEN new ELSE params[c]
  BY <1>1, <1>4 DEF new, BodyInv, ParamsOK
<1>9. ListsOK' BY <1>1, <1>2 DEF BodyInv, ListsOK
<1>10. LiveOK' BY <1>1, <1>2 DEF BodyInv, LiveOK
<1>11. PosOK' BY <1>1 DEF BodyInv, PosOK
<1>12. ParamsOK'
  <2>1. params' \in [Block -> Seq(1..v)]
    <3>1. params \in [Block -> Seq(1..v)] BY <1>5 DEF BodyInv, ParamsOK, n
    <3> QED BY <1>1, <1>7, <3>1 DEF new
  <2>2. \A c \in Block \ live' : params'[c] = <<>> BY <1>1, <1>8 DEF BodyInv, ParamsOK
  <2> QED BY <1>2, <2>1, <2>2 DEF ParamsOK
<1>13. ResultOK'
  <2>1. 0..n \subseteq 0..v BY <1>2, <1>3
  <2> QED BY <1>1, <1>2, <2>1 DEF BodyInv, ResultOK, n
<1>14. DefOK'
  <2>0. /\ def \in [Value -> Def]
        /\ \A c \in Block : \A m \in DOMAIN params[c] : def[params[c][m]] = ParamOf(c, m)
        /\ \A j \in Inst : list.block[j] # NONE => def[result[j]] = ResultOf(j)
    BY DEF BodyInv, DefOK
  <2>1. def' \in [Value -> Def]
    <3>1. ParamOf(b, Len(params[b]) + 1) \in Def BY <1>4, <1>6, KindsDiffer
    <3> QED BY <1>1, <2>0, <3>1
  <2>2. ASSUME NEW c \in Block, NEW m \in DOMAIN params'[c] PROVE def'[params'[c][m]] = ParamOf(c, m)
    <3>1. CASE c = b /\ m = Len(params[b]) + 1 BY <1>1, <1>3, <1>7, <1>8, <2>0, <3>1
    <3>2. CASE ~(c = b /\ m = Len(params[b]) + 1)
      <4>1. m \in DOMAIN params[c] /\ params'[c][m] = params[c][m]
        BY SMTT(30), <1>6, <1>7, <1>8, <2>2, <3>2
      <4>2. params[c][m] \in Value /\ params[c][m] # v BY <1>3, <4>1, ValueFacts DEF n
      <4> QED BY <1>1, <2>0, <4>1, <4>2
    <3> QED BY <3>1, <3>2
  <2>3. ASSUME NEW j \in Inst, list'.block[j] # NONE PROVE def'[result'[j]] = ResultOf(j)
    <3>1. list.block[j] # NONE BY <1>1, <2>3
    <3>2. result[j] \in Value /\ result[j] # v BY <1>3, <3>1, ValueFacts DEF n
    <3> QED BY <1>1, <2>0, <3>1, <3>2
  <2>4. ASSUME NEW x \in Value
        PROVE  \/ def'[x] = Detached
               \/ \E c \in Block : \E m \in DOMAIN params'[c] : params'[c][m] = x
               \/ \E j \in Inst : list'.block[j] # NONE /\ result'[j] = x
    <3>1. CASE x = v
      <4>1. Len(params[b]) + 1 \in DOMAIN params'[b] /\ params'[b][Len(params[b]) + 1] = x
        BY <1>4, <1>6, <1>7, <1>8, <3>1
      <4> QED BY <1>4, <4>1
    <3>2. CASE x # v
      <4>1. def'[x] = def[x] BY <1>1, <2>0, <3>2
      <4>2. ASSUME NEW c \in Block, NEW m \in DOMAIN params[c], params[c][m] = x
            PROVE  m \in DOMAIN params'[c] /\ params'[c][m] = x
        BY <1>6, <1>7, <1>8, <4>2
      <4> QED BY <1>1, <4>1, <4>2 DEF BodyInv, DefOK
    <3> QED BY <3>1, <3>2
  <2> QED BY <2>1, <2>2, <2>3, <2>4 DEF DefOK
<1>15. EdgesOK' BY <1>1, <1>2, <1>5 DEF BodyInv, EdgesOK, n
<1> QED BY <1>2, <1>9, <1>10, <1>11, <1>12, <1>13, <1>14, <1>15 DEF BodyInv

LEMMA RemoveAtFacts ==
  ASSUME NEW T, NEW s \in Seq(T), NEW k \in 1..Len(s)
  PROVE  /\ RemoveAt(s, k) \in Seq(T)
         /\ Len(RemoveAt(s, k)) = Len(s) - 1 /\ Len(s) - 1 \in Nat
         /\ DOMAIN RemoveAt(s, k) = 1..(Len(s) - 1)
         /\ \A j \in 1..(Len(s) - 1) : RemoveAt(s, k)[j] = IF j < k THEN s[j] ELSE s[j + 1]
<1> DEFINE a == SubSeq(s, 1, k - 1)
           c == SubSeq(s, k + 1, Len(s))
<1>0. Len(s) \in Nat /\ \A i \in 1..Len(s) : s[i] \in T BY LenProperties, ElementOfSeq
<1>1. a \in Seq(T) /\ Len(a) = k - 1 /\ \A i \in 1..(k - 1) : a[i] = s[i]
  <2>1. \A i \in 1..(k - 1) : s[i] \in T BY <1>0
  <2>2. 1 \in Int /\ k - 1 \in Int BY <1>0
  <2>3. /\ a \in Seq(T) /\ Len(a) = IF 1 <= k - 1 THEN (k - 1) - 1 + 1 ELSE 0
        /\ \A i \in 1..((k - 1) - 1 + 1) : a[i] = s[1 + i - 1]
    BY <2>1, <2>2, SubSeqProperties
  <2> HIDE DEF a
  <2> QED BY <1>0, <2>3
<1>2. c \in Seq(T) /\ Len(c) = Len(s) - k /\ \A i \in 1..(Len(s) - k) : c[i] = s[k + i]
  <2>1. \A i \in (k + 1)..Len(s) : s[i] \in T BY <1>0
  <2>2. k + 1 \in Int /\ Len(s) \in Int BY <1>0
  <2>3. /\ c \in Seq(T) /\ Len(c) = IF k + 1 <= Len(s) THEN Len(s) - (k + 1) + 1 ELSE 0
        /\ \A i \in 1..(Len(s) - (k + 1) + 1) : c[i] = s[(k + 1) + i - 1]
    BY <2>1, <2>2, SubSeqProperties
  <2> HIDE DEF c
  <2>4. \A i \in 1..(Len(s) - k) : (k + 1) + i - 1 = k + i BY <1>0
  <2> QED BY <1>0, <2>3, <2>4
<1>3. RemoveAt(s, k) = a \o c BY DEF RemoveAt
<1> HIDE DEF a, c
<1>4. /\ a \o c \in Seq(T) /\ Len(a \o c) = Len(a) + Len(c)
      /\ \A i \in 1..(Len(a) + Len(c)) : (a \o c)[i] = IF i <= Len(a) THEN a[i] ELSE c[i - Len(a)]
  BY <1>1, <1>2, ConcatProperties
<1>5. Len(a) + Len(c) = Len(s) - 1 /\ Len(s) - 1 \in Nat BY <1>0, <1>1, <1>2
<1>6. DOMAIN (a \o c) = 1..(Len(s) - 1) BY <1>4, <1>5, LenProperties
<1>7. ASSUME NEW j \in 1..(Len(s) - 1) PROVE (a \o c)[j] = IF j < k THEN s[j] ELSE s[j + 1]
  <2>1. CASE j < k BY <1>0, <1>1, <1>4, <1>5, <2>1
  <2>2. CASE ~(j < k)
    <3>1. j - (k - 1) \in 1..(Len(s) - k) /\ k + (j - (k - 1)) = j + 1 /\ ~(j <= k - 1)
      BY <1>0, <2>2
    <3> QED BY ZenonT(40), <1>1, <1>2, <1>4, <1>5, <2>2, <3>1
  <2> QED BY <2>1, <2>2
<1> QED BY <1>3, <1>4, <1>5, <1>6, <1>7

\* Edges whose arguments are changed in place stay edges.
LEMMA EdgesTyped ==
  ASSUME BodyInv, arena' = arena, DOMAIN edges' = Block, edges' = [c \in Block |-> edges'[c]],
         \A c \in Block :
            /\ edges'[c] = [e \in DOMAIN edges[c] |-> edges'[c][e]]
            /\ \A e \in DOMAIN edges[c] :
                  \E args \in Seq(1..arena.values) :
                     edges'[c][e] = [to |-> edges[c][e].to, args |-> args]
  PROVE  EdgesOK'
<1> DEFINE R == [to : 1..arena.blocks, args : Seq(1..arena.values)]
<1>1. ASSUME NEW c \in Block PROVE edges'[c] \in Seq(R)
  <2>1. Len(edges[c]) \in Nat /\ DOMAIN edges[c] = 1..Len(edges[c]) BY EdgeFacts
  <2>2. ASSUME NEW e \in DOMAIN edges[c] PROVE edges'[c][e] \in R
    <3>1. PICK args \in Seq(1..arena.values) :
             edges'[c][e] = [to |-> edges[c][e].to, args |-> args]
      OBVIOUS
    <3>2. edges[c][e].to \in 1..arena.blocks BY EdgeFacts
    <3> QED BY <3>1, <3>2
  <2> HIDE DEF R
  <2>3. edges'[c] \in [1..Len(edges[c]) -> R] BY <2>1, <2>2
  <2> QED BY <2>1, <2>3, FunctionSeq
<1>2. edges' \in [Block -> Seq(R)]
  <2> HIDE DEF R
  <2> QED BY <1>1
<1> QED BY <1>2 DEF EdgesOK

LEMMA RemoveBlockParamFields ==
  ASSUME BodyInv, NEW b, NEW k, RemoveBlockParam(b, k)
  PROVE  edges' = [c \in Block |-> [e \in DOMAIN edges[c] |->
          [to |-> edges[c][e].to,
           args |-> IF edges[c][e].to = b THEN WithoutArg(edges[c][e].args, k) ELSE edges[c][e].args]]]
<1> DEFINE Args(to, args) == IF to = b THEN WithoutArg(args, k) ELSE args
<1>1. edges' = [c \in Block |-> [e \in DOMAIN edges[c] |->
          [edges[c][e] EXCEPT !.args = Args(edges[c][e].to, edges[c][e].args)]]]
  BY DEF RemoveBlockParam, EdgesWith
<1>2. ASSUME NEW c \in Block, NEW e \in DOMAIN edges[c]
      PROVE  [edges[c][e] EXCEPT !.args = Args(edges[c][e].to, edges[c][e].args)]
             = [to |-> edges[c][e].to, args |-> Args(edges[c][e].to, edges[c][e].args)]
  <2> HIDE DEF Args
  <2>1. edges[c][e] = [to |-> edges[c][e].to, args |-> edges[c][e].args] BY EdgeFacts
  <2> QED BY <2>1
<1> HIDE DEF Args
<1>3. edges' = [c \in Block |-> [e \in DOMAIN edges[c] |->
          [to |-> edges[c][e].to, args |-> Args(edges[c][e].to, edges[c][e].args)]]]
  BY <1>1, <1>2
<1> QED BY <1>3 DEF Args

LEMMA RemoveBlockParamInv == ASSUME BodyInv, NEW b, NEW k, RemoveBlockParam(b, k) PROVE BodyInv'
<1> USE NoneIsNothing
<1> DEFINE gone == params[b][k]
<1>1. /\ b \in live /\ k \in DOMAIN params[b]
      /\ params' = [params EXCEPT ![b] = RemoveAt(params[b], k)]
      /\ def' = [v \in Value |-> IF v = gone THEN Detached
                     ELSE IF def[v].kind = "param" /\ def[v].of = b /\ def[v].index > k
                     THEN ParamOf(b, def[v].index - 1) ELSE def[v]]
      /\ list' = list /\ live' = live /\ ended' = ended /\ result' = result
      /\ pos' = pos /\ arena' = arena
  BY DEF RemoveBlockParam, Lowered
<1>2. edges' = [c \in Block |-> [e \in DOMAIN edges[c] |->
          [to |-> edges[c][e].to,
           args |-> IF edges[c][e].to = b THEN WithoutArg(edges[c][e].args, k) ELSE edges[c][e].args]]]
  BY RemoveBlockParamFields
<1>3. /\ b \in Block /\ b \in Nat /\ Len(params[b]) \in Nat /\ DOMAIN params[b] = 1..Len(params[b])
      /\ params[b] \in Seq(1..arena.values)
  BY <1>1, PosFacts, ValueFacts DEF Block, BodyInv, ParamsOK
<1> DEFINE new == RemoveAt(params[b], k)
           L == Len(params[b])
<1>4. /\ new \in Seq(1..arena.values) /\ DOMAIN new = 1..(L - 1) /\ L - 1 \in Nat
      /\ \A j \in 1..(L - 1) : new[j] = IF j < k THEN params[b][j] ELSE params[b][j + 1]
  <2> DEFINE s == params[b]
  <2>1. s \in Seq(1..arena.values) /\ k \in 1..Len(s) BY <1>1, <1>3
  <2> HIDE DEF s
  <2>2. /\ RemoveAt(s, k) \in Seq(1..arena.values) /\ DOMAIN RemoveAt(s, k) = 1..(Len(s) - 1)
        /\ Len(s) - 1 \in Nat
        /\ \A j \in 1..(Len(s) - 1) : RemoveAt(s, k)[j] = IF j < k THEN s[j] ELSE s[j + 1]
    BY <2>1, RemoveAtFacts
  <2> QED BY <2>2 DEF s
<1>5. \A c \in Block : params'[c] = IF c = b THEN new ELSE params[c]
  BY <1>1, <1>3 DEF BodyInv, ParamsOK
<1> HIDE DEF new
<1>6. ParamsOK'
  <2>1. params' \in [Block -> Seq(1..arena.values)] BY <1>1, <1>3, <1>4 DEF BodyInv, ParamsOK, new
  <2>2. \A c \in Block \ live' : params'[c] = <<>> BY <1>1, <1>5 DEF BodyInv, ParamsOK
  <2> QED BY <1>1, <2>1, <2>2 DEF ParamsOK
<1>7. /\ def \in [Value -> Def]
      /\ \A c \in Block : \A m \in DOMAIN params[c] : def[params[c][m]] = ParamOf(c, m)
      /\ \A j \in Inst : list.block[j] # NONE => def[result[j]] = ResultOf(j)
  BY DEF BodyInv, DefOK
<1>8. gone \in Value /\ def[gone] = ParamOf(b, k) BY <1>1, <1>3, <1>7, ValueFacts
<1>k. /\ \A c, m : ParamOf(c, m).kind = "param" /\ ParamOf(c, m).of = c /\ ParamOf(c, m).index = m
      /\ \A c : ResultOf(c).kind = "result"
      /\ Detached.kind = "detached"
  BY DEF ParamOf, ResultOf, Detached
<1>9. DefOK'
  <2>1. def' \in [Value -> Def]
    <3>1. ASSUME NEW v \in Value, def[v].index > k PROVE ParamOf(b, def[v].index - 1) \in Def
      <4>1. def[v].index \in Nat BY <1>7 DEF Def
      <4>2. k \in Nat BY <1>1, <1>3
      <4>3. def[v].index - 1 \in Nat BY <3>1, <4>1, <4>2
      <4> QED BY <1>3, <4>3, KindsDiffer
    <3> QED BY <1>1, <1>7, <3>1, KindsDiffer
  <2>2. ASSUME NEW c \in Block, NEW m \in DOMAIN params'[c] PROVE def'[params'[c][m]] = ParamOf(c, m)
    <3>1. CASE c = b
      <4>1. m \in 1..(L - 1) /\ params'[c][m] = new[m] BY <1>4, <1>5, <2>2, <3>1
      <4> DEFINE i == IF m < k THEN m ELSE m + 1
      <4>2. i \in 1..L /\ i # k /\ params'[c][m] = params[b][i] BY <1>1, <1>3, <1>4, <4>1
      <4>3. i > k => i - 1 = m BY <1>1, <1>3, <4>1
      <4>4. ~(i > k) => i = m BY <1>1, <1>3, <4>1
      <4> HIDE DEF i
      <4> DEFINE v == params[b][i]
      <4>5. v \in Value /\ def[v] = ParamOf(b, i) BY <1>3, <1>7, <4>2, ValueFacts
      <4>6. v # gone BY <1>8, <4>2, <4>5, KindsDiffer
      <4>7. def'[v] = IF i > k THEN ParamOf(b, i - 1) ELSE def[v]
        BY <1>1, <1>k, <4>5, <4>6
      <4> QED BY <3>1, <4>2, <4>3, <4>4, <4>5, <4>7
    <3>2. CASE c # b
      <4>1. params'[c] = params[c] BY <1>5, <3>2
      <4> DEFINE v == params[c][m]
      <4>2. v \in Value /\ def[v] = ParamOf(c, m) BY <1>7, <2>2, <4>1, ValueFacts
      <4>3. v # gone BY <1>8, <3>2, <4>2, KindsDiffer
      <4> QED BY <1>1, <1>k, <3>2, <4>1, <4>2, <4>3
    <3> QED BY <3>1, <3>2
  <2>3. ASSUME NEW j \in Inst, list'.block[j] # NONE PROVE def'[result'[j]] = ResultOf(j)
    <3>1. list.block[j] # NONE BY <1>1, <2>3
    <3>2. result[j] \in Value /\ def[result[j]] = ResultOf(j) BY <1>7, <3>1, ValueFacts
    <3>3. result[j] # gone BY <1>8, <3>2, KindsDiffer
    <3> QED BY <1>1, <1>k, <3>2, <3>3
  <2>4. ASSUME NEW x \in Value
        PROVE  \/ def'[x] = Detached
               \/ \E c \in Block : \E m \in DOMAIN params'[c] : params'[c][m] = x
               \/ \E j \in Inst : list'.block[j] # NONE /\ result'[j] = x
    <3>1. CASE x = gone BY <1>1, <3>1
    <3>2. CASE x # gone
      <4>1. CASE def[x] = Detached BY <1>1, <1>k, <3>2, <4>1
      <4>2. CASE \E j \in Inst : list.block[j] # NONE /\ result[j] = x BY <1>1, <4>2
      <4>3. CASE \E c \in Block : \E m \in DOMAIN params[c] : params[c][m] = x
        <5>1. PICK c \in Block : \E m \in DOMAIN params[c] : params[c][m] = x BY <4>3
        <5>2. PICK m \in DOMAIN params[c] : params[c][m] = x BY <5>1
        <5>3. CASE c = b
          <6> DEFINE j == IF m < k THEN m ELSE m - 1
          <6>1. m # k /\ m \in 1..L BY <1>3, <3>2, <5>2, <5>3
          <6>2. j \in 1..(L - 1) BY <1>1, <1>3, <6>1
          <6>3. new[j] = params[b][m] BY SMTT(30), <1>1, <1>3, <1>4, <6>1, <6>2
          <6> HIDE DEF j
          <6> QED BY <1>3, <1>4, <1>5, <5>2, <5>3, <6>2, <6>3
        <5>4. CASE c # b BY <1>5, <5>2, <5>4
        <5> QED BY <5>3, <5>4
      <4> QED BY <4>1, <4>2, <4>3 DEF BodyInv, DefOK
    <3> QED BY <3>1, <3>2
  <2> QED BY <2>1, <2>2, <2>3, <2>4 DEF DefOK
<1>10. EdgesOK'
  <2>1. ASSUME NEW c \in Block, NEW e \in DOMAIN edges[c]
        PROVE  \E args \in Seq(1..arena.values) : edges'[c][e] = [to |-> edges[c][e].to, args |-> args]
    <3> DEFINE a == edges[c][e].args
    <3>1. a \in Seq(1..arena.values) /\ Len(a) \in Nat BY EdgeFacts, LenProperties
    <3>2. k \in Nat /\ k >= 1 BY <1>1, <1>3
    <3> HIDE DEF a
    <3>3. WithoutArg(a, k) \in Seq(1..arena.values)
      <4>1. CASE k <= Len(a)
        <5>1. k \in 1..Len(a) BY <3>1, <3>2, <4>1
        <5>2. RemoveAt(a, k) \in Seq(1..arena.values) BY <3>1, <5>1, RemoveAtFacts
        <5> QED BY <4>1, <5>2 DEF WithoutArg
      <4>2. CASE ~(k <= Len(a)) BY <3>1, <4>2 DEF WithoutArg
      <4> QED BY <4>1, <4>2
    <3> QED BY <1>2, <3>1, <3>3 DEF a
  <2>2. /\ DOMAIN edges' = Block /\ edges' = [c \in Block |-> edges'[c]]
        /\ \A c \in Block : edges'[c] = [e \in DOMAIN edges[c] |-> edges'[c][e]]
    BY <1>2
  <2> QED BY <1>1, <2>1, <2>2, EdgesTyped
<1>11. ArenaOK' BY <1>1 DEF BodyInv, ArenaOK
<1>12. ListsOK' BY <1>1 DEF BodyInv, ListsOK
<1>13. LiveOK' BY <1>1 DEF BodyInv, LiveOK
<1>14. PosOK' BY <1>1 DEF BodyInv, PosOK
<1>15. ResultOK' BY <1>1 DEF BodyInv, ResultOK
<1> QED BY <1>6, <1>9, <1>10, <1>11, <1>12, <1>13, <1>14, <1>15 DEF BodyInv

\* What a parameter's index goes down by, and what it is then.
LEMMA RankIsLeft ==
  ASSUME NEW n \in Nat, NEW K \in SUBSET (1..n), NEW m \in K
  PROVE  m - Cardinality(((1..n) \ K) \cap 1..m) = Rank(K, m)
<1> DEFINE A == {k \in K : k <= m}
           B == ((1..n) \ K) \cap 1..m
<1>1. m \in Nat /\ m >= 1 /\ m <= n /\ \A k \in K : k \in Nat /\ k >= 1 /\ k <= n OBVIOUS
<1>2. A \cup B = 1..m /\ A \cap B = {}
  <2>1. \A k \in 1..m : k \in 1..n /\ k <= m BY <1>1
  <2>2. \A k \in A : k \in 1..m BY <1>1
  <2>3. \A k \in B : k \in 1..m /\ k \notin A OBVIOUS
  <2>4. \A k \in 1..m : k \in A \/ k \in B BY <2>1
  <2> HIDE DEF A, B
  <2> QED BY <2>2, <2>3, <2>4
<1>3. IsFiniteSet(1..m) /\ Cardinality(1..m) = m
  <2>1. IsFiniteSet(1..m) /\ Cardinality(1..m) = IF 1 > m THEN 0 ELSE (m - 1) + 1
    BY <1>1, FS_Interval
  <2> QED BY <1>1, <2>1
<1> HIDE DEF A, B
<1>4. A \in SUBSET (1..m) /\ B \in SUBSET (1..m) BY <1>2
<1>5. /\ IsFiniteSet(A) /\ IsFiniteSet(B) /\ Cardinality(A) \in Nat /\ Cardinality(B) \in Nat
  BY <1>3, <1>4, FS_Subset, FS_CardinalityType
<1>6. Cardinality(A \cup B) = Cardinality(A) + Cardinality(B) - Cardinality(A \cap B)
  BY <1>5, FS_Union
<1>7. Cardinality(A \cap B) = 0 BY <1>2, FS_EmptySet
<1>8. m = Cardinality(A) + Cardinality(B)
  <2>1. Cardinality(A \cup B) = m BY <1>2, <1>3
  <2> QED BY <2>1, <1>5, <1>6, <1>7
<1>9. m - Cardinality(B) = Cardinality(A) BY <1>5, <1>8
<1> QED BY <1>9 DEF A, B, Rank

\* Without keeps what is outside R, in its order.
LEMMA WithoutFacts ==
  ASSUME NEW T, NEW s \in Seq(T), NEW R, NEW K, K = DOMAIN s \ R
  PROVE  /\ Without(s, R) \in Seq(T) /\ Len(Without(s, R)) = Cardinality(K)
         /\ Cardinality(K) \in Nat /\ DOMAIN Without(s, R) = 1..Cardinality(K)
         /\ \A j \in 1..Cardinality(K) : /\ Nth(K, j) \in K /\ Rank(K, Nth(K, j)) = j
                                         /\ Without(s, R)[j] = s[Nth(K, j)]
         /\ \A i \in K : Rank(K, i) \in 1..Cardinality(K) /\ Without(s, R)[Rank(K, i)] = s[i]
         /\ \A i, j \in 1..Cardinality(K) : Nth(K, i) = Nth(K, j) => i = j
<1>1. Without(s, R) = Pick(s, K) BY DEF Without
<1>2. K \in SUBSET (DOMAIN s) /\ DOMAIN s = 1..Len(s) /\ Len(s) \in Nat BY LenProperties
<1>3. /\ Pick(s, K) \in Seq(T)
      /\ Len(Pick(s, K)) = Cardinality(K) /\ Cardinality(K) \in Nat
      /\ DOMAIN Pick(s, K) = 1..Cardinality(K)
      /\ \A j \in 1..Cardinality(K) : Pick(s, K)[j] = s[Nth(K, j)]
      /\ \A i, j \in 1..Cardinality(K) : Nth(K, i) = Nth(K, j) => i = j
  <2>1. /\ Pick(s, K) \in Seq(T) /\ Len(Pick(s, K)) = Cardinality(K) /\ Cardinality(K) \in Nat
        /\ DOMAIN Pick(s, K) = 1..Cardinality(K)
    BY <1>2, PickFacts
  <2>2. \A j \in 1..Cardinality(K) : Pick(s, K)[j] = s[Nth(K, j)] BY <1>2, PickFacts
  <2>3. \A i, j \in 1..Cardinality(K) : Nth(K, i) = Nth(K, j) => i = j BY <1>2, PickFacts
  <2> QED BY <2>1, <2>2, <2>3
<1>4. /\ \A j \in 1..Cardinality(K) : Nth(K, j) \in K /\ Rank(K, Nth(K, j)) = j
      /\ \A i \in K : Rank(K, i) \in 1..Cardinality(K) /\ Nth(K, Rank(K, i)) = i
  BY <1>2, NthFacts
<1>5. \A i \in K : Rank(K, i) \in 1..Cardinality(K) /\ Pick(s, K)[Rank(K, i)] = s[i]
  <2>1. ASSUME NEW i \in K PROVE Rank(K, i) \in 1..Cardinality(K) /\ Pick(s, K)[Rank(K, i)] = s[i]
    <3> DEFINE r == Rank(K, i)
    <3>1. r \in 1..Cardinality(K) /\ Nth(K, r) = i BY <1>4
    <3> HIDE DEF r
    <3>2. Pick(s, K)[r] = s[Nth(K, r)] BY <1>3, <3>1
    <3> QED BY <3>1, <3>2 DEF r
  <2> QED BY <2>1
<1> QED BY <1>1, <1>3, <1>4, <1>5

Gone(vs, b) == {k \in DOMAIN params[b] : params[b][k] \in vs}
Stay(vs, b) == DOMAIN params[b] \ Gone(vs, b)

LEMMA RemoveBlockParamsFields ==
  ASSUME BodyInv, NEW vs, RemoveBlockParams(vs)
  PROVE  /\ params' = [b \in Block |-> Without(params[b], Gone(vs, b))]
         /\ def' = [v \in Value |->
                IF v \in vs THEN Detached
                ELSE IF def[v].kind # "param" THEN def[v]
                ELSE ParamOf(def[v].of,
                        def[v].index - Cardinality(Gone(vs, def[v].of) \cap 1..def[v].index))]
         /\ edges' = [c \in Block |-> [e \in DOMAIN edges[c] |->
                [to |-> edges[c][e].to,
                 args |-> IF Len(edges[c][e].args) = Len(params[edges[c][e].to])
                          THEN Without(edges[c][e].args, Gone(vs, edges[c][e].to))
                          ELSE edges[c][e].args]]]
         /\ vs \subseteq Value
         /\ Careful => \A c \in live : \A e \in DOMAIN edges[c] :
                Gone(vs, edges[c][e].to) # {} =>
                    Len(edges[c][e].args) = Len(params[edges[c][e].to])
         /\ list' = list /\ live' = live /\ ended' = ended /\ result' = result
         /\ pos' = pos /\ arena' = arena
<1>1. /\ params' = [b \in Block |-> Without(params[b], Gone(vs, b))]
      /\ def' = [v \in Value |->
                IF v \in vs THEN Detached
                ELSE IF def[v].kind # "param" THEN def[v]
                ELSE ParamOf(def[v].of,
                        def[v].index - Cardinality(Gone(vs, def[v].of) \cap 1..def[v].index))]
  BY DEF RemoveBlockParams, Gone
<1>2. vs \subseteq Value BY DEF RemoveBlockParams
<1>3. Careful => \A c \in live : \A e \in DOMAIN edges[c] :
                Gone(vs, edges[c][e].to) # {} =>
                    Len(edges[c][e].args) = Len(params[edges[c][e].to])
  BY DEF RemoveBlockParams, Gone
<1>4. edges' = [c \in Block |-> [e \in DOMAIN edges[c] |->
                [to |-> edges[c][e].to,
                 args |-> IF Len(edges[c][e].args) = Len(params[edges[c][e].to])
                          THEN Without(edges[c][e].args, Gone(vs, edges[c][e].to))
                          ELSE edges[c][e].args]]]
  <2> DEFINE Args(to, args) == IF Len(args) = Len(params[to]) THEN Without(args, Gone(vs, to)) ELSE args
  <2>1. edges' = [c \in Block |-> [e \in DOMAIN edges[c] |->
          [edges[c][e] EXCEPT !.args = Args(edges[c][e].to, edges[c][e].args)]]]
    BY DEF RemoveBlockParams, EdgesWith, Gone
  <2>2. ASSUME NEW c \in Block, NEW e \in DOMAIN edges[c]
        PROVE  [edges[c][e] EXCEPT !.args = Args(edges[c][e].to, edges[c][e].args)]
               = [to |-> edges[c][e].to, args |-> Args(edges[c][e].to, edges[c][e].args)]
    <3> HIDE DEF Args
    <3>1. edges[c][e] = [to |-> edges[c][e].to, args |-> edges[c][e].args] BY EdgeFacts
    <3> QED BY <3>1
  <2> HIDE DEF Args
  <2>3. edges' = [c \in Block |-> [e \in DOMAIN edges[c] |->
            [to |-> edges[c][e].to, args |-> Args(edges[c][e].to, edges[c][e].args)]]]
    BY <2>1, <2>2
  <2> QED BY <2>3 DEF Args
<1>5. list' = list /\ live' = live /\ ended' = ended /\ result' = result /\ pos' = pos /\ arena' = arena
  BY DEF RemoveBlockParams
<1> QED BY <1>1, <1>2, <1>3, <1>4, <1>5

\* What is left of the parameters of b.
LEMMA StayFacts ==
  ASSUME BodyInv, NEW vs, RemoveBlockParams(vs), NEW b \in Block
  PROVE  LET K == Stay(vs, b) IN
         /\ params'[b] \in Seq(1..arena.values) /\ Len(params'[b]) = Cardinality(K)
         /\ Cardinality(K) \in Nat /\ DOMAIN params'[b] = 1..Cardinality(K)
         /\ \A j \in 1..Cardinality(K) : /\ Nth(K, j) \in K /\ Rank(K, Nth(K, j)) = j
                                         /\ params'[b][j] = params[b][Nth(K, j)]
         /\ \A i \in K : Rank(K, i) \in 1..Cardinality(K) /\ params'[b][Rank(K, i)] = params[b][i]
         /\ \A i, j \in 1..Cardinality(K) : Nth(K, i) = Nth(K, j) => i = j
         /\ \A m \in K : m - Cardinality(Gone(vs, b) \cap 1..m) = Rank(K, m)
<1> DEFINE K == Stay(vs, b)
<1>1. params'[b] = Without(params[b], Gone(vs, b)) BY RemoveBlockParamsFields
<1>2. params[b] \in Seq(1..arena.values) /\ DOMAIN params[b] = 1..Len(params[b])
      /\ Len(params[b]) \in Nat
  BY ValueFacts DEF BodyInv, ParamsOK
<1>3. K = DOMAIN params[b] \ Gone(vs, b) /\ Gone(vs, b) = (1..Len(params[b])) \ K
      /\ K \in SUBSET (1..Len(params[b]))
  BY <1>2 DEF Stay, Gone
<1> HIDE DEF K
<1>4. \A m \in K : m - Cardinality(Gone(vs, b) \cap 1..m) = Rank(K, m)
  BY <1>2, <1>3, RankIsLeft
<1> DEFINE s == params[b]
           R == Gone(vs, b)
<1>5. s \in Seq(1..arena.values) /\ K = DOMAIN s \ R /\ params'[b] = Without(s, R) BY <1>1, <1>2, <1>3
<1> HIDE DEF s, R
<1> DEFINE w == Without(s, R)
<1>6. w \in Seq(1..arena.values) /\ Len(w) = Cardinality(K) /\ Cardinality(K) \in Nat
      /\ DOMAIN w = 1..Cardinality(K)
  BY <1>5, WithoutFacts
<1>7. \A j \in 1..Cardinality(K) : Nth(K, j) \in K /\ Rank(K, Nth(K, j)) = j
  BY <1>5, WithoutFacts
<1>8. \A j \in 1..Cardinality(K) : w[j] = s[Nth(K, j)] BY <1>5, WithoutFacts
<1>9. \A i \in K : Rank(K, i) \in 1..Cardinality(K) /\ w[Rank(K, i)] = s[i]
  BY SMTT(30), <1>5, WithoutFacts
<1>10. \A i, j \in 1..Cardinality(K) : Nth(K, i) = Nth(K, j) => i = j
  BY <1>5, WithoutFacts
<1> HIDE DEF w
<1>11. params'[b] = w BY <1>5 DEF w
<1> QED BY <1>4, <1>6, <1>7, <1>8, <1>9, <1>10, <1>11 DEF K, s

LEMMA RemoveBlockParamsInv == ASSUME BodyInv, NEW vs, RemoveBlockParams(vs) PROVE BodyInv'
<1> USE NoneIsNothing
<1>1. /\ params' = [b \in Block |-> Without(params[b], Gone(vs, b))]
      /\ def' = [v \in Value |->
                IF v \in vs THEN Detached
                ELSE IF def[v].kind # "param" THEN def[v]
                ELSE ParamOf(def[v].of,
                        def[v].index - Cardinality(Gone(vs, def[v].of) \cap 1..def[v].index))]
      /\ edges' = [c \in Block |-> [e \in DOMAIN edges[c] |->
                [to |-> edges[c][e].to,
                 args |-> IF Len(edges[c][e].args) = Len(params[edges[c][e].to])
                          THEN Without(edges[c][e].args, Gone(vs, edges[c][e].to))
                          ELSE edges[c][e].args]]]
      /\ list' = list /\ live' = live /\ ended' = ended /\ result' = result
      /\ pos' = pos /\ arena' = arena
  BY RemoveBlockParamsFields
<1>k. /\ \A c, m : ParamOf(c, m).kind = "param" /\ ParamOf(c, m).of = c /\ ParamOf(c, m).index = m
      /\ \A c : ResultOf(c).kind = "result"
      /\ Detached.kind = "detached"
  BY DEF ParamOf, ResultOf, Detached
<1>7. /\ def \in [Value -> Def]
      /\ \A c \in Block : \A m \in DOMAIN params[c] : def[params[c][m]] = ParamOf(c, m)
      /\ \A j \in Inst : list.block[j] # NONE => def[result[j]] = ResultOf(j)
      /\ \A v \in Value : \/ def[v] = Detached
                          \/ \E b \in Block : \E k \in DOMAIN params[b] : params[b][k] = v
                          \/ \E i \in Inst : list.block[i] # NONE /\ result[i] = v
  BY DEF BodyInv, DefOK
<1>8. ASSUME NEW b \in Block, NEW m \in Stay(vs, b)
      PROVE  /\ m \in DOMAIN params[b] /\ params[b][m] \in Value
             /\ def'[params[b][m]] = ParamOf(b, Rank(Stay(vs, b), m))
             /\ Rank(Stay(vs, b), m) \in Nat
  <2> DEFINE v == params[b][m]
  <2>1. m \in DOMAIN params[b] /\ v \notin vs BY DEF Stay, Gone
  <2>2. v \in Value /\ def[v] = ParamOf(b, m) BY <1>7, <2>1, ValueFacts
  <2>3. m - Cardinality(Gone(vs, b) \cap 1..m) = Rank(Stay(vs, b), m)
        /\ Rank(Stay(vs, b), m) \in 1..Cardinality(Stay(vs, b)) /\ Cardinality(Stay(vs, b)) \in Nat
    BY StayFacts
  <2> HIDE DEF v
  <2>4. def[v].kind = "param" /\ def[v].of = b /\ def[v].index = m BY <1>k, <2>2
  <2>5. def'[v] = ParamOf(b, m - Cardinality(Gone(vs, b) \cap 1..m)) BY <1>1, <2>1, <2>2, <2>4
  <2> QED BY <2>1, <2>2, <2>3, <2>5 DEF v
<1>9. ASSUME NEW v \in Value, def[v].kind # "param", v \notin vs PROVE def'[v] = def[v]
  BY <1>1, <1>9
<1>10. ASSUME NEW v \in vs, v \in Value PROVE def'[v] = Detached
  BY <1>1, <1>10
<1>11. vs \subseteq Value /\ \A v \in vs : def[v].kind = "param" BY DEF RemoveBlockParams
<1>12. \A v \in Value : v \notin vs /\ def[v].kind = "param" =>
          \E b \in Block : \E m \in Stay(vs, b) : params[b][m] = v
  <2> SUFFICES ASSUME NEW v \in Value, v \notin vs, def[v].kind = "param"
               PROVE  \E b \in Block : \E m \in Stay(vs, b) : params[b][m] = v
    OBVIOUS
  <2>1. PICK b \in Block : \E k \in DOMAIN params[b] : params[b][k] = v BY <1>7, <1>k
  <2>2. PICK k \in DOMAIN params[b] : params[b][k] = v BY <2>1
  <2>3. k \in Stay(vs, b) BY <2>2 DEF Stay, Gone
  <2> QED BY <2>2, <2>3
<1>13. DefOK'
  <2>1. def' \in [Value -> Def]
    <3>1. ASSUME NEW v \in Value PROVE def'[v] \in Def
      <4>1. CASE v \in vs BY <1>10, <4>1, KindsDiffer
      <4>2. CASE v \notin vs /\ def[v].kind # "param" BY <1>7, <1>9, <4>2
      <4>3. CASE v \notin vs /\ def[v].kind = "param"
        <5>1. PICK b \in Block : \E m \in Stay(vs, b) : params[b][m] = v BY <1>12, <4>3
        <5>2. PICK m \in Stay(vs, b) : params[b][m] = v BY <5>1
        <5>3. b \in Nat BY DEF Block
        <5> QED BY <1>8, <5>2, <5>3, KindsDiffer
      <4> QED BY <4>1, <4>2, <4>3
    <3>2. def' = [v \in Value |-> def'[v]] BY <1>1
    <3> QED BY <3>1, <3>2
  <2>2. ASSUME NEW c \in Block, NEW j \in DOMAIN params'[c] PROVE def'[params'[c][j]] = ParamOf(c, j)
    <3> DEFINE m == Nth(Stay(vs, c), j)
    <3>1. m \in Stay(vs, c) /\ Rank(Stay(vs, c), m) = j /\ params'[c][j] = params[c][m]
      BY <2>2, StayFacts
    <3> HIDE DEF m
    <3> QED BY <1>8, <3>1
  <2>3. ASSUME NEW j \in Inst, list'.block[j] # NONE PROVE def'[result'[j]] = ResultOf(j)
    <3>1. list.block[j] # NONE BY <1>1, <2>3
    <3>2. result[j] \in Value /\ def[result[j]] = ResultOf(j) BY <1>7, <3>1, ValueFacts
    <3>3. def[result[j]].kind # "param" BY <1>k, <3>2
    <3>4. result[j] \notin vs BY <1>11, <3>3
    <3> QED BY <1>1, <1>9, <3>2, <3>3, <3>4
  <2>4. ASSUME NEW x \in Value
        PROVE  \/ def'[x] = Detached
               \/ \E c \in Block : \E m \in DOMAIN params'[c] : params'[c][m] = x
               \/ \E j \in Inst : list'.block[j] # NONE /\ result'[j] = x
    <3>1. CASE x \in vs BY <1>10, <3>1
    <3>2. CASE x \notin vs /\ def[x].kind # "param"
      <4>1. def'[x] = def[x] BY <1>9, <3>2
      <4>2. ~ \E b \in Block : \E k \in DOMAIN params[b] : params[b][k] = x BY <1>7, <1>k, <3>2
      <4> QED BY <1>1, <1>7, <4>1, <4>2
    <3>3. CASE x \notin vs /\ def[x].kind = "param"
      <4>1. PICK b \in Block : \E m \in Stay(vs, b) : params[b][m] = x BY <1>12, <3>3
      <4>2. PICK m \in Stay(vs, b) : params[b][m] = x BY <4>1
      <4> DEFINE r == Rank(Stay(vs, b), m)
      <4>3. r \in DOMAIN params'[b] /\ params'[b][r] = x BY <4>2, StayFacts
      <4> QED BY <4>3
    <3> QED BY <3>1, <3>2, <3>3
  <2> QED BY <2>1, <2>2, <2>3, <2>4 DEF DefOK
<1>14. ParamsOK'
  <2>1. \A b \in Block : params'[b] \in Seq(1..arena.values) BY StayFacts
  <2>2. params' \in [Block -> Seq(1..arena.values)] BY <1>1, <2>1
  <2>3. ASSUME NEW c \in Block \ live' PROVE params'[c] = <<>>
    <3>1. params[c] = <<>> BY <1>1 DEF BodyInv, ParamsOK
    <3>2. Stay(vs, c) = {} BY <3>1 DEF Stay
    <3>3. Len(params'[c]) = 0 /\ params'[c] \in Seq(1..arena.values)
      BY <3>2, StayFacts, FS_EmptySet
    <3> QED BY <3>3, EmptySeq
  <2> QED BY <1>1, <2>2, <2>3 DEF ParamsOK
<1>15. EdgesOK'
  <2>1. ASSUME NEW c \in Block, NEW e \in DOMAIN edges[c]
        PROVE  \E args \in Seq(1..arena.values) : edges'[c][e] = [to |-> edges[c][e].to, args |-> args]
    <3> DEFINE a == edges[c][e].args
               R == Gone(vs, edges[c][e].to)
    <3>1. a \in Seq(1..arena.values) BY EdgeFacts
    <3>2. Without(a, R) \in Seq(1..arena.values)
      <4> DEFINE K == DOMAIN a \ R
      <4> HIDE DEF a, R
      <4>1. K = DOMAIN a \ R OBVIOUS
      <4> HIDE DEF K
      <4> QED BY <3>1, <4>1, WithoutFacts
    <3> QED BY <1>1, <3>1, <3>2
  <2>2. /\ DOMAIN edges' = Block /\ edges' = [c \in Block |-> edges'[c]]
        /\ \A c \in Block : edges'[c] = [e \in DOMAIN edges[c] |-> edges'[c][e]]
    BY <1>1
  <2> QED BY <1>1, <2>1, <2>2, EdgesTyped
<1>16. ArenaOK' BY <1>1 DEF BodyInv, ArenaOK
<1>17. ListsOK' BY <1>1 DEF BodyInv, ListsOK
<1>18. LiveOK' BY <1>1 DEF BodyInv, LiveOK
<1>19. PosOK' BY <1>1 DEF BodyInv, PosOK
<1>20. ResultOK' BY <1>1 DEF BodyInv, ResultOK
<1> QED BY <1>13, <1>14, <1>15, <1>16, <1>17, <1>18, <1>19, <1>20 DEF BodyInv

------------------------------------------------------------------------------
(***************************************************************************)
(* Terminators, and steps that change nothing.                             *)
(***************************************************************************)
LEMMA SetTerminatorInv ==
  ASSUME BodyInv, NEW n \in Nat, NEW dests \in [1..n -> live], SetTerminator(dests)
  PROVE  BodyInv'
<1> DEFINE b == CurrentBlock
           R == [to : 1..arena.blocks, args : Seq(1..arena.values)]
           new == [k \in 1..n |-> [to |-> dests[k], args |-> params[dests[k]]]]
<1>1. /\ b \in live /\ ended' = ended \cup {b} /\ edges' = [edges EXCEPT ![b] = new]
      /\ arena' = arena /\ list' = list /\ live' = live /\ params' = params /\ result' = result
      /\ def' = def /\ pos' = pos
  BY DEF SetTerminator
<1>2. new \in Seq(R)
  <2>1. ASSUME NEW k \in 1..n PROVE new[k] \in R
    <3>1. dests[k] \in 1..arena.blocks BY DEF BodyInv, LiveOK
    <3>2. dests[k] \in Block BY PosFacts
    <3>3. params[dests[k]] \in Seq(1..arena.values) BY <3>2 DEF BodyInv, ParamsOK
    <3> QED BY <3>1, <3>3
  <2>2. new \in [1..n -> R] BY <2>1
  <2> HIDE DEF new, R
  <2> QED BY <2>2, FunctionSeq
<1>3. EdgesOK'
  <2>1. edges \in [Block -> Seq(R)] BY DEF BodyInv, EdgesOK
  <2> HIDE DEF R, new
  <2>2. edges' \in [Block -> Seq(R)] BY <1>1, <1>2, <2>1
  <2> QED BY <1>1, <2>2 DEF EdgesOK, R
<1> HIDE DEF b
<1>4. ParamsOK' /\ ResultOK' /\ DefOK' BY <1>1, ValuesStay
<1>5. ArenaOK' BY <1>1 DEF BodyInv, ArenaOK
<1>6. ListsOK' BY <1>1 DEF BodyInv, ListsOK
<1>7. LiveOK' BY <1>1 DEF BodyInv, LiveOK
<1>8. PosOK' BY <1>1 DEF BodyInv, PosOK
<1> QED BY <1>3, <1>4, <1>5, <1>6, <1>7, <1>8 DEF BodyInv

LEMMA RemoveTerminatorInv == ASSUME BodyInv, NEW b, RemoveTerminator(b) PROVE BodyInv'
<1> DEFINE R == [to : 1..arena.blocks, args : Seq(1..arena.values)]
<1>1. /\ ended' = ended \ {b} /\ edges' = [edges EXCEPT ![b] = <<>>]
      /\ arena' = arena /\ list' = list /\ live' = live /\ params' = params /\ result' = result
      /\ def' = def /\ pos' = pos
  BY DEF RemoveTerminator, EndedWithout
<1>2. EdgesOK'
  <2>1. edges \in [Block -> Seq(R)] BY DEF BodyInv, EdgesOK
  <2> HIDE DEF R
  <2>2. <<>> \in Seq(R) BY EmptySeq
  <2>3. edges' \in [Block -> Seq(R)] BY <1>1, <2>1, <2>2
  <2> QED BY <1>1, <2>3 DEF EdgesOK, R
<1>4. ParamsOK' /\ ResultOK' /\ DefOK' BY <1>1, ValuesStay
<1>5. ArenaOK' BY <1>1 DEF BodyInv, ArenaOK
<1>6. ListsOK' BY <1>1 DEF BodyInv, ListsOK
<1>7. LiveOK' BY <1>1 DEF BodyInv, LiveOK
<1>8. PosOK' BY <1>1 DEF BodyInv, PosOK
<1> QED BY <1>2, <1>4, <1>5, <1>6, <1>7, <1>8 DEF BodyInv

LEMMA StutterInv == BodyInv /\ UNCHANGED vars => BodyInv'
<1> SUFFICES ASSUME BodyInv, UNCHANGED vars PROVE BodyInv' OBVIOUS
<1>1. /\ arena' = arena /\ list' = list /\ live' = live /\ params' = params /\ ended' = ended
      /\ edges' = edges /\ result' = result /\ def' = def /\ pos' = pos
  BY DEF vars, flow
<1>2. ParamsOK' /\ ResultOK' /\ DefOK' BY <1>1, ValuesStay
<1>3. ArenaOK' BY <1>1 DEF BodyInv, ArenaOK
<1>4. ListsOK' BY <1>1 DEF BodyInv, ListsOK
<1>5. LiveOK' BY <1>1 DEF BodyInv, LiveOK
<1>6. PosOK' BY <1>1 DEF BodyInv, PosOK
<1>7. EdgesOK' BY <1>1 DEF BodyInv, EdgesOK
<1> QED BY <1>2, <1>3, <1>4, <1>5, <1>6, <1>7 DEF BodyInv

------------------------------------------------------------------------------
(***************************************************************************)
(* Instructions unlinked or moved one after the other.  The lemmas are     *)
(* stated for each step, the provers having no operator parameters.        *)
(***************************************************************************)
LEMMA UnlinkAllDef ==
  ASSUME NEW l, NEW w, Len(w) \in Nat
  PROVE  \E done : /\ done = [n \in 0..Len(w) |-> IF n = 0 THEN l ELSE Unlink(done[n - 1], w[n])]
                  /\ InTurn(Unlink, l, w) = done[Len(w)]
<1> DEFINE Step(f, n) == IF n = 0 THEN l ELSE Unlink(f[n - 1], w[n])
           T == {m \in Nat : \E f : f = [n \in 0..m |-> Step(f, n)]}
<1>1. 0 \in T
  <2> DEFINE f == [n \in 0..0 |-> l]
  <2>1. f = [n \in 0..0 |-> Step(f, n)] OBVIOUS
  <2> HIDE DEF f, Step
  <2> QED BY <2>1
<1>2. ASSUME NEW m \in Nat, m \in T PROVE m + 1 \in T
  <2>1. PICK f : f = [n \in 0..m |-> Step(f, n)] BY <1>2
  <2> DEFINE g == [n \in 0..(m + 1) |-> IF n <= m THEN f[n] ELSE Step(f, n)]
  <2>2. ASSUME NEW n \in 0..(m + 1) PROVE g[n] = Step(g, n)
    <3>1. n # 0 => g[n - 1] = f[n - 1] OBVIOUS
    <3>2. Step(g, n) = Step(f, n) BY <3>1
    <3> HIDE DEF Step
    <3>3. n <= m => f[n] = Step(f, n) BY <2>1
    <3> QED BY <3>2, <3>3
  <2>3. g = [n \in 0..(m + 1) |-> Step(g, n)]
    <3>1. g = [n \in 0..(m + 1) |-> g[n]] OBVIOUS
    <3> HIDE DEF g, Step
    <3> QED BY <2>2, <3>1
  <2> HIDE DEF g, Step
  <2> QED BY <2>3
<1>3. Len(w) \in T
  <2> HIDE DEF T
  <2> QED BY <1>1, <1>2, SetInduction
<1> DEFINE done == CHOOSE f : f = [n \in 0..Len(w) |-> Step(f, n)]
<1>4. done = [n \in 0..Len(w) |-> Step(done, n)]
  <2>1. \E f : f = [n \in 0..Len(w) |-> Step(f, n)] BY <1>3
  <2> HIDE DEF Step
  <2> QED BY <2>1
<1>5. InTurn(Unlink, l, w) = done[Len(w)] BY DEF InTurn
<1> HIDE DEF done
<1> QED BY <1>4, <1>5

\* Unlinking an instruction leaves the lists of other blocks alone.
LEMMA UnlinkOthers ==
  ASSUME NEW l, Sound(l), NEW i \in Inst, l.block[i] # NONE, NEW m, m = Unlink(l, i),
         NEW c \in Block, c # l.block[i], NEW v, ListOf(l, c, v)
  PROVE  ListOf(m, c, v)
<1> DEFINE p == l.prev[i]
           n == l.next[i]
<1> USE NoneIsNothing
<1>1. /\ ListType(l) /\ LinksFit(l) BY DEF Sound
<1>2. /\ \A d \in Block : /\ m.first[d] = IF p = NONE /\ d = l.block[i] THEN n ELSE l.first[d]
                          /\ m.last[d] = IF n = NONE /\ d = l.block[i] THEN p ELSE l.last[d]
      /\ \A j \in Inst : /\ m.prev[j] = IF j = i THEN NONE ELSE IF j = n THEN p ELSE l.prev[j]
                         /\ m.next[j] = IF j = i THEN NONE ELSE IF j = p THEN n ELSE l.next[j]
                         /\ m.block[j] = IF j = i THEN NONE ELSE l.block[j]
  BY <1>1, UnlinkFields DEF TakenFrom
<1>3. (p # NONE => l.block[p] = l.block[i]) /\ (n # NONE => l.block[n] = l.block[i])
  BY <1>1 DEF LinksFit
<1> HIDE DEF p, n
<1>4. v \in Seq(Inst) /\ \A j \in 1..Len(v) : v[j] \in Inst /\ v[j] # NONE /\ l.block[v[j]] = c
  <2>1. v \in Seq(Inst) BY DEF ListOf
  <2> QED BY <2>1, ElementOfSeq DEF ListOf
<1>5. \A j \in 1..Len(v) : v[j] # i /\ v[j] # p /\ v[j] # n BY <1>3, <1>4
<1>6. \A j \in 1..Len(v) : /\ m.prev[v[j]] = l.prev[v[j]] /\ m.next[v[j]] = l.next[v[j]]
                           /\ m.block[v[j]] = c
  BY <1>2, <1>4, <1>5
<1>7. m.first[c] = l.first[c] /\ m.last[c] = l.last[c] BY <1>2
<1>8. \A j \in Inst : m.block[j] = c => l.block[j] = c BY <1>2
<1> QED BY <1>6, <1>7, <1>8 DEF ListOf

\* Without the instructions of w; the lists of blocks they are not in stay.
LEMMA UnlinkAllKeeps ==
  ASSUME NEW l, Sound(l), NEW w \in Seq(Inst), \A n \in 1..Len(w) : l.block[w[n]] # NONE,
         \A n, k \in 1..Len(w) : w[n] = w[k] => n = k,
         NEW m, m = InTurn(Unlink, l, w)
  PROVE  /\ Sound(m)
         /\ \A j \in Inst : m.block[j] = IF \E n \in 1..Len(w) : w[n] = j THEN NONE ELSE l.block[j]
         /\ \A c \in Block : \A v : ListOf(l, c, v) /\ (\A n \in 1..Len(w) : l.block[w[n]] # c)
                                 => ListOf(m, c, v)
<1> USE NoneIsNothing
<1>0. Len(w) \in Nat /\ \A n \in 1..Len(w) : w[n] \in Inst BY LenProperties, ElementOfSeq
<1>1. PICK done : /\ done = [n \in 0..Len(w) |-> IF n = 0 THEN l ELSE Unlink(done[n - 1], w[n])]
                  /\ m = done[Len(w)]
  BY <1>0, UnlinkAllDef
<1> DEFINE Ok(x, n) == /\ Sound(x)
                       /\ \A j \in Inst : x.block[j] = IF \E k \in 1..n : w[k] = j THEN NONE
                                                         ELSE l.block[j]
                       /\ \A c \in Block : \A v :
                             ListOf(l, c, v) /\ (\A k \in 1..Len(w) : l.block[w[k]] # c)
                             => ListOf(x, c, v)
           T == {n \in Nat : n <= Len(w) => Ok(done[n], n)}
<1>2. 0 \in T
  <2>1. done[0] = l BY <1>0, <1>1
  <2> QED BY <2>1
<1>3. ASSUME NEW n \in Nat, n \in T PROVE n + 1 \in T
  <2> SUFFICES ASSUME n + 1 <= Len(w) PROVE Ok(done[n + 1], n + 1) OBVIOUS
  <2>1. n + 1 \in 0..Len(w) /\ n + 1 \in 1..Len(w) /\ n + 1 # 0 /\ (n + 1) - 1 = n /\ n <= Len(w)
    BY <1>0
  <2>2. Ok(done[n], n) BY <1>3, <2>1
  <2> DEFINE x == done[n]
             i == w[n + 1]
             y == done[n + 1]
  <2>3. y = Unlink(x, i) BY <1>1, <2>1
  <2>4. i \in Inst BY <1>0, <2>1
  <2>9. \A c \in Block : \A v : ListOf(l, c, v) /\ (\A k \in 1..Len(w) : l.block[w[k]] # c)
                               => ListOf(x, c, v)
    BY <2>2
  <2>5. Sound(x) /\ \A j \in Inst : x.block[j] = IF \E k \in 1..n : w[k] = j THEN NONE ELSE l.block[j]
    BY <2>2
  <2>6. x.block[i] # NONE /\ x.block[i] = l.block[i]
    <3>1. ~ \E k \in 1..n : w[k] = i
      <4>1. \A k \in 1..n : k \in 1..Len(w) /\ k # n + 1 BY <1>0, <2>1
      <4> QED BY <2>1, <4>1
    <3>2. l.block[i] # NONE BY <2>1
    <3> HIDE DEF x, i
    <3> QED BY <2>4, <2>5, <3>1, <3>2
  <2> HIDE DEF x, y
  <2>7. Sound(y) /\ \A j \in Inst : y.block[j] = IF j = i THEN NONE ELSE x.block[j]
    <3> HIDE DEF i
    <3> QED BY <2>3, <2>4, <2>5, <2>6, UnlinkKeeps
  <2>8. ASSUME NEW j \in Inst
        PROVE  y.block[j] = IF \E k \in 1..(n + 1) : w[k] = j THEN NONE ELSE l.block[j]
    <3>1. (\E k \in 1..(n + 1) : w[k] = j) <=> j = i \/ \E k \in 1..n : w[k] = j
      <4>1. \A k \in Int : k \in 1..(n + 1) <=> k = n + 1 \/ k \in 1..n OBVIOUS
      <4> QED BY <4>1
    <3> HIDE DEF i
    <3> QED BY <2>5, <2>7, <3>1
  <2>10. ASSUME NEW c \in Block, NEW v, ListOf(l, c, v), \A k \in 1..Len(w) : l.block[w[k]] # c
         PROVE  ListOf(y, c, v)
    <3>1. c # x.block[i] BY <2>1, <2>6, <2>10
    <3>2. ListOf(x, c, v) BY <2>9, <2>10
    <3> HIDE DEF i
    <3> QED BY <2>3, <2>4, <2>5, <2>6, <3>1, <3>2, UnlinkOthers
  <2> QED BY <2>7, <2>8, <2>10 DEF y
<1>4. Len(w) \in T
  <2> HIDE DEF T
  <2> QED BY <1>0, <1>2, <1>3, SetInduction
<1>5. Ok(m, Len(w)) BY <1>0, <1>1, <1>4
<1> QED BY <1>5

\* The same for moves to the end of new.
MovedAll(l, w, new) == InTurn(LAMBDA x, i : LinkAt(Unlink(x, i), i, End(new)), l, w)

LEMMA MoveAllDef ==
  ASSUME NEW l, NEW w, Len(w) \in Nat, NEW new
  PROVE  \E done : /\ done = [n \in 0..Len(w) |-> IF n = 0 THEN l ELSE LinkAt(Unlink(done[n - 1], w[n]), w[n], End(new))]
                  /\ MovedAll(l, w, new) = done[Len(w)]
<1> DEFINE Step(f, n) == IF n = 0 THEN l ELSE LinkAt(Unlink(f[n - 1], w[n]), w[n], End(new))
           T == {m \in Nat : \E f : f = [n \in 0..m |-> Step(f, n)]}
<1>1. 0 \in T
  <2> DEFINE f == [n \in 0..0 |-> l]
  <2>1. f = [n \in 0..0 |-> Step(f, n)] OBVIOUS
  <2> HIDE DEF f, Step
  <2> QED BY <2>1
<1>2. ASSUME NEW m \in Nat, m \in T PROVE m + 1 \in T
  <2>1. PICK f : f = [n \in 0..m |-> Step(f, n)] BY <1>2
  <2> DEFINE g == [n \in 0..(m + 1) |-> IF n <= m THEN f[n] ELSE Step(f, n)]
  <2>2. ASSUME NEW n \in 0..(m + 1) PROVE g[n] = Step(g, n)
    <3>1. n # 0 => g[n - 1] = f[n - 1] OBVIOUS
    <3>2. Step(g, n) = Step(f, n) BY <3>1
    <3> HIDE DEF Step
    <3>3. n <= m => f[n] = Step(f, n) BY <2>1
    <3> QED BY <3>2, <3>3
  <2>3. g = [n \in 0..(m + 1) |-> Step(g, n)]
    <3>1. g = [n \in 0..(m + 1) |-> g[n]] OBVIOUS
    <3> HIDE DEF g, Step
    <3> QED BY <2>2, <3>1
  <2> HIDE DEF g, Step
  <2> QED BY <2>3
<1>3. Len(w) \in T
  <2> HIDE DEF T
  <2> QED BY <1>1, <1>2, SetInduction
<1> DEFINE done == CHOOSE f : f = [n \in 0..Len(w) |-> Step(f, n)]
<1>4. done = [n \in 0..Len(w) |-> Step(done, n)]
  <2>1. \E f : f = [n \in 0..Len(w) |-> Step(f, n)] BY <1>3
  <2> HIDE DEF Step
  <2> QED BY <2>1
<1>5. MovedAll(l, w, new) = done[Len(w)] BY DEF MovedAll, InTurn
<1> HIDE DEF done
<1> QED BY <1>4, <1>5

\* With the instructions of w in new.
LEMMA MoveAllKeeps ==
  ASSUME NEW l, Sound(l), NEW w \in Seq(Inst), \A n \in 1..Len(w) : l.block[w[n]] # NONE,
         NEW new \in Block,
         NEW m, m = MovedAll(l, w, new)
  PROVE  /\ Sound(m)
         /\ \A j \in Inst : m.block[j] = IF \E n \in 1..Len(w) : w[n] = j THEN new ELSE l.block[j]
<1> USE NoneIsNothing
<1>0. Len(w) \in Nat /\ \A n \in 1..Len(w) : w[n] \in Inst BY LenProperties, ElementOfSeq
<1>1. PICK done : /\ done = [n \in 0..Len(w) |-> IF n = 0 THEN l ELSE LinkAt(Unlink(done[n - 1], w[n]), w[n], End(new))]
                  /\ m = done[Len(w)]
  BY <1>0, MoveAllDef
<1> DEFINE Ok(x, n) == /\ Sound(x)
                       /\ \A j \in Inst : x.block[j] = IF \E k \in 1..n : w[k] = j THEN new
                                                         ELSE l.block[j]
           T == {n \in Nat : n <= Len(w) => Ok(done[n], n)}
<1>2. 0 \in T
  <2>1. done[0] = l BY <1>0, <1>1
  <2> QED BY <2>1
<1>3. ASSUME NEW n \in Nat, n \in T PROVE n + 1 \in T
  <2> SUFFICES ASSUME n + 1 <= Len(w) PROVE Ok(done[n + 1], n + 1) OBVIOUS
  <2>1. n + 1 \in 0..Len(w) /\ n + 1 \in 1..Len(w) /\ n + 1 # 0 /\ (n + 1) - 1 = n /\ n <= Len(w)
    BY <1>0
  <2>2. Ok(done[n], n) BY <1>3, <2>1
  <2> DEFINE x == done[n]
             i == w[n + 1]
             y == done[n + 1]
  <2>3. y = LinkAt(Unlink(x, i), i, End(new)) BY <1>1, <2>1
  <2>4. i \in Inst BY <1>0, <2>1
  <2>5. Sound(x) /\ \A j \in Inst : x.block[j] = IF \E k \in 1..n : w[k] = j THEN new ELSE l.block[j]
    BY <2>2
  <2>6. x.block[i] # NONE
    <3>2. l.block[i] # NONE BY <2>1
    <3> HIDE DEF x, i
    <3> QED BY <2>4, <2>5, <3>2
  <2> HIDE DEF x, y
  <2>7. Sound(y) /\ \A j \in Inst : y.block[j] = IF j = i THEN new ELSE x.block[j]
    <3> HIDE DEF i
    <3>1. Place(x, End(new)) BY DEF Place
    <3>2. End(new).where = "end" /\ Before(i).where = "before" /\ After(i).where = "after"
          /\ End(new).of = new
      BY DEF End, Before, After
    <3>3. End(new) \notin {Before(i), After(i)} /\ PlaceBlock(x, End(new)) = new
      BY <3>2 DEF PlaceBlock
    <3> QED BY <2>3, <2>4, <2>5, <2>6, <3>1, <3>3, MoveKeeps
  <2>8. ASSUME NEW j \in Inst
        PROVE  y.block[j] = IF \E k \in 1..(n + 1) : w[k] = j THEN new ELSE l.block[j]
    <3>1. (\E k \in 1..(n + 1) : w[k] = j) <=> j = i \/ \E k \in 1..n : w[k] = j
      <4>1. \A k \in Int : k \in 1..(n + 1) <=> k = n + 1 \/ k \in 1..n OBVIOUS
      <4> QED BY <4>1
    <3> HIDE DEF i
    <3> QED BY <2>5, <2>7, <3>1
  <2> QED BY <2>7, <2>8 DEF y
<1>4. Len(w) \in T
  <2> HIDE DEF T
  <2> QED BY <1>0, <1>2, <1>3, SetInduction
<1>5. Ok(m, Len(w)) BY <1>0, <1>1, <1>4
<1> QED BY <1>5

LEMMA RemoveBlockInv == ASSUME BodyInv, NEW b, RemoveBlock(b) PROVE BodyInv'
<1> USE NoneIsNothing
<1> DEFINE w == Walk(b)
           gone == {result[i] : i \in ToSet(w)} \cup ToSet(params[b])
<1>1. /\ b \in live /\ b # Entry /\ list' = InTurn(Unlink, list, w)
      /\ live' = live \ {b} /\ ended' = ended \ {b} /\ edges' = [edges EXCEPT ![b] = <<>>]
      /\ params' = [params EXCEPT ![b] = <<>>]
      /\ def' = [v \in Value |-> IF v \in gone THEN Detached ELSE def[v]]
      /\ pos' = IF CurrentBlock \in {b, NONE} THEN End(Entry) ELSE pos
      /\ arena' = arena /\ result' = result
  BY DEF RemoveBlock, EndedWithout, PosAfterRemove
<1>2. b \in Block /\ Sound(list) /\ live \subseteq Block /\ Entry \in live
      /\ \A j \in Inst : list.block[j] # NONE => j <= arena.insts /\ list.block[j] \in live
  BY <1>1, PosFacts DEF BodyInv, ListsOK
<1>3. ListOf(list, b, w) BY SMTT(30), <1>2, WalkFacts
<1> HIDE DEF w
<1>4. /\ w \in Seq(Inst) /\ Len(w) \in Nat /\ DOMAIN w = 1..Len(w)
      /\ \A n \in 1..Len(w) : w[n] \in Inst /\ list.block[w[n]] = b
      /\ \A n, k \in 1..Len(w) : w[n] = w[k] => n = k
      /\ \A i \in Inst : list.block[i] = b <=> \E n \in 1..Len(w) : w[n] = i
  <2>1. w \in Seq(Inst) BY <1>3 DEF ListOf
  <2>2. Len(w) \in Nat /\ DOMAIN w = 1..Len(w) /\ \A n \in 1..Len(w) : w[n] \in Inst
    BY <2>1, LenProperties, ElementOfSeq
  <2> QED BY <1>3, <2>1, <2>2 DEF ListOf
<1>5. Sound(list') /\ \A j \in Inst : list'.block[j] = IF list.block[j] = b THEN NONE ELSE list.block[j]
  <2>1. \A n \in 1..Len(w) : list.block[w[n]] # NONE BY <1>2, <1>4
  <2>2. /\ Sound(list')
        /\ \A j \in Inst : list'.block[j] = IF \E n \in 1..Len(w) : w[n] = j THEN NONE ELSE list.block[j]
    BY SMTT(30), <1>1, <1>2, <1>4, <2>1, UnlinkAllKeeps
  <2> QED BY <1>4, <2>2
<1>6. ListsOK' BY <1>1, <1>2, <1>5 DEF ListsOK
<1>7. LiveOK' BY <1>1 DEF BodyInv, LiveOK
<1>8. PosOK'
  <2>1. CASE CurrentBlock \in {b, NONE} BY <1>1, <1>2, <2>1 DEF PosOK
  <2>2. CASE CurrentBlock \notin {b, NONE}
    <3>1. pos' = pos /\ PlaceBlock(list, pos) # b BY <1>1, <2>2, PosFacts
    <3>2. CASE \E c \in live : pos = End(c)
      <4>1. PICK c \in live : pos = End(c) BY <3>2
      <4>2. c # b BY <3>1, <4>1 DEF PlaceBlock, End
      <4> QED BY <1>1, <3>1, <4>1, <4>2 DEF PosOK
    <3>3. CASE \E j \in Inst : list.block[j] # NONE /\ pos \in {Before(j), After(j)}
      <4>1. PICK j \in Inst : list.block[j] # NONE /\ pos \in {Before(j), After(j)} BY <3>3
      <4>2. pos.where # "end" /\ pos.of = j BY <4>1 DEF Before, After
      <4>3. list.block[j] # b BY <3>1, <4>2 DEF PlaceBlock
      <4> QED BY <1>5, <3>1, <4>1, <4>3 DEF PosOK
    <3> QED BY <3>2, <3>3 DEF BodyInv, PosOK
  <2> QED BY <2>1, <2>2
<1>9. ParamsOK'
  <2>1. <<>> \in Seq(1..arena.values) BY EmptySeq
  <2>2. params' \in [Block -> Seq(1..arena.values)] BY <1>1, <2>1 DEF BodyInv, ParamsOK
  <2>3. \A c \in Block \ live' : params'[c] = <<>> BY <1>1, <1>2 DEF BodyInv, ParamsOK
  <2> QED BY <1>1, <2>2, <2>3 DEF ParamsOK
<1>10. ResultOK' BY <1>1, <1>2, <1>5 DEF BodyInv, ResultOK
<1>11. DefOK'
  <2>0. /\ def \in [Value -> Def]
        /\ \A c \in Block : \A k \in DOMAIN params[c] : def[params[c][k]] = ParamOf(c, k)
        /\ \A j \in Inst : list.block[j] # NONE => def[result[j]] = ResultOf(j)
    BY DEF BodyInv, DefOK
  <2>1. \A v \in gone : \/ \E i \in Inst : list.block[i] = b /\ v = result[i]
                        \/ \E k \in DOMAIN params[b] : v = params[b][k]
    BY <1>4 DEF ToSet
  <2>2. /\ \A i \in Inst : list.block[i] = b => result[i] \in gone
        /\ \A k \in DOMAIN params[b] : params[b][k] \in gone
    BY <1>4 DEF ToSet
  <2>3. \A v \in gone : (\E i \in Inst : list.block[i] = b /\ def[v] = ResultOf(i))
                        \/ \E k : def[v] = ParamOf(b, k)
    BY <1>2, <2>0, <2>1
  <2>4. def' \in [Value -> Def]
    <3>1. Detached \in Def BY KindsDiffer
    <3> HIDE DEF gone
    <3> QED BY <1>1, <2>0, <3>1
  <2> HIDE DEF gone
  <2>5. ASSUME NEW c \in Block, NEW k \in DOMAIN params'[c] PROVE def'[params'[c][k]] = ParamOf(c, k)
    <3>1. c # b /\ params'[c] = params[c]
      <4>1. params \in [Block -> Seq(1..arena.values)] BY DEF BodyInv, ParamsOK
      <4>2. c = b => params'[c] = <<>> BY <1>1, <4>1
      <4>3. c # b BY <2>5, <4>2
      <4> QED BY <1>1, <4>1, <4>3
    <3>2. params[c][k] \in Value /\ def[params[c][k]] = ParamOf(c, k) BY <2>0, <2>5, <3>1, ValueFacts
    <3>3. params[c][k] \notin gone BY <2>3, <3>1, <3>2, KindsDiffer
    <3> QED BY <1>1, <3>1, <3>2, <3>3
  <2>6. ASSUME NEW j \in Inst, list'.block[j] # NONE PROVE def'[result'[j]] = ResultOf(j)
    <3>1. list.block[j] # NONE /\ list.block[j] # b BY <1>5, <2>6
    <3>2. result[j] \in Value /\ def[result[j]] = ResultOf(j) BY <2>0, <3>1, ValueFacts
    <3>3. result[j] \notin gone BY <2>3, <3>1, <3>2, KindsDiffer
    <3> QED BY <1>1, <3>2, <3>3
  <2>7. ASSUME NEW x \in Value
        PROVE  \/ def'[x] = Detached
               \/ \E c \in Block : \E m \in DOMAIN params'[c] : params'[c][m] = x
               \/ \E j \in Inst : list'.block[j] # NONE /\ result'[j] = x
    <3>1. CASE x \in gone BY <1>1, <3>1
    <3>2. CASE x \notin gone
      <4>1. def'[x] = def[x] BY <1>1, <3>2
      <4>2. CASE def[x] = Detached BY <4>1, <4>2
      <4>3. CASE \E j \in Inst : list.block[j] # NONE /\ result[j] = x
        BY <1>1, <1>5, <2>2, <3>2, <4>3
      <4>4. CASE \E c \in Block : \E m \in DOMAIN params[c] : params[c][m] = x
        <5>1. PICK c \in Block : \E m \in DOMAIN params[c] : params[c][m] = x BY <4>4
        <5>2. c # b BY <2>2, <3>2, <5>1
        <5>3. params'[c] = params[c] BY <1>1, <5>2 DEF BodyInv, ParamsOK
        <5> QED BY <5>1, <5>3
      <4> QED BY <4>2, <4>3, <4>4 DEF BodyInv, DefOK
    <3> QED BY <3>1, <3>2
  <2> QED BY <2>4, <2>5, <2>6, <2>7 DEF DefOK
<1>12. EdgesOK'
  <2> DEFINE R == [to : 1..arena.blocks, args : Seq(1..arena.values)]
  <2>1. edges \in [Block -> Seq(R)] BY DEF BodyInv, EdgesOK
  <2> HIDE DEF R
  <2>2. <<>> \in Seq(R) BY EmptySeq
  <2>3. edges' \in [Block -> Seq(R)] BY <1>1, <2>1, <2>2
  <2> QED BY <1>1, <2>3 DEF EdgesOK, R
<1>13. ArenaOK' BY <1>1 DEF BodyInv, ArenaOK
<1> QED BY <1>6, <1>7, <1>8, <1>9, <1>10, <1>11, <1>12, <1>13 DEF BodyInv

\* What split_block moves: the part of the block's list that starts at i.
LEMMA FromFacts ==
  ASSUME BodyInv, NEW i \in Inst, list.block[i] # NONE
  PROVE  /\ From(i) \in Seq(Inst) /\ \A n \in 1..Len(From(i)) : list.block[From(i)[n]] = list.block[i]
         /\ list.block[i] \in live
<1> DEFINE b == list.block[i]
           w == Walk(b)
           at == CHOOSE n \in DOMAIN w : w[n] = i
<1>1. b \in live /\ b \in Block /\ Sound(list) BY PosFacts DEF BodyInv, ListsOK
<1>2. ListOf(list, b, w) BY <1>1, WalkFacts
<1>3. From(i) = SubSeq(w, at, Len(w)) BY DEF From
<1> HIDE DEF w
<1>4. w \in Seq(Inst) /\ Len(w) \in Nat /\ DOMAIN w = 1..Len(w)
      /\ \A n \in 1..Len(w) : list.block[w[n]] = b
  <2>1. w \in Seq(Inst) BY <1>2 DEF ListOf
  <2> QED BY <1>2, <2>1, LenProperties DEF ListOf
<1>5. at \in 1..Len(w)
  <2>1. \E n \in DOMAIN w : w[n] = i BY <1>2, <1>4 DEF ListOf
  <2> QED BY SMTT(30), <1>4, <2>1
<1> HIDE DEF at, b
<1> DEFINE s == SubSeq(w, at, Len(w))
<1>6. s \in Seq(Inst) BY <1>4, <1>5, SubSeqProperties
<1>7. Len(s) = Len(w) - at + 1 /\ \A n \in 1..(Len(w) - at + 1) : s[n] = w[at + n - 1]
  BY <1>4, <1>5, SubSeqProperties
<1>8. ASSUME NEW n \in 1..Len(s) PROVE list.block[s[n]] = b
  <2>1. n \in 1..(Len(w) - at + 1) BY <1>7
  <2>2. at + n - 1 \in 1..Len(w) BY <1>4, <1>5, <2>1
  <2>3. s[n] = w[at + n - 1] BY <1>7, <2>1
  <2> HIDE DEF s
  <2> QED BY <1>4, <2>2, <2>3
<1> HIDE DEF s
<1> QED BY <1>1, <1>3, <1>6, <1>8 DEF b, s

LEMMA SplitBlockInv == ASSUME BodyInv, NEW i, SplitBlock(i) PROVE BodyInv'
<1> USE NoneIsNothing
<1> DEFINE b == list.block[i]
           new == arena.blocks + 1
           w == From(i)
           jump == <<[to |-> new, args |-> <<>>]>>
<1>1. /\ i \in Inst /\ list.block[i] # NONE /\ Grow(1, 0, 0) /\ live' = live \cup {new}
      /\ list' = MovedAll(list, w, new)
      /\ ended' = ended \cup {b} \cup (IF b \in ended THEN {new} ELSE {})
      /\ edges' = [edges EXCEPT ![new] = edges[b], ![b] = jump]
      /\ params' = params /\ result' = result /\ def' = def /\ pos' = pos
  BY DEF SplitBlock, Linked, MovedAll
<1>2. /\ ArenaOK' /\ arena'.blocks = new /\ arena'.insts = arena.insts
      /\ arena'.values = arena.values /\ arena.values \in Nat /\ arena.blocks \in Nat
  <2>0. /\ arena.blocks \in Nat /\ arena.insts \in Nat /\ arena.values \in Nat
    BY ArenaFacts DEF BodyInv
  <2>1. ArenaOK' /\ arena'.blocks = arena.blocks + 1 /\ arena'.insts = arena.insts + 0
        /\ arena'.values = arena.values + 0
    BY <1>1, <2>0, GrowFacts DEF BodyInv
  <2> QED BY <2>0, <2>1
<1>3. new \in Block /\ new \in Nat /\ new \notin live /\ arena.blocks <= new
  BY <1>2 DEF ArenaOK, Block, BodyInv, LiveOK
<1>4. w \in Seq(Inst) /\ \A n \in 1..Len(w) : list.block[w[n]] = b BY <1>1, FromFacts
<1>5. b \in live /\ b \in Block /\ Sound(list)
      /\ \A j \in Inst : list.block[j] # NONE => j <= arena.insts /\ list.block[j] \in live
  BY <1>1, FromFacts, PosFacts DEF BodyInv, ListsOK
<1>9. 1..arena.blocks \subseteq 1..new /\ new \in 1..new BY <1>2
<1> HIDE DEF b, new, w
<1>6. /\ Sound(list')
      /\ \A j \in Inst : list'.block[j] = IF \E n \in 1..Len(w) : w[n] = j THEN new ELSE list.block[j]
  <2>1. \A n \in 1..Len(w) : list.block[w[n]] # NONE BY <1>4, <1>5
  <2> QED BY <1>1, <1>3, <1>4, <1>5, <2>1, MoveAllKeeps
<1>7. \A j \in Inst : list'.block[j] # NONE <=> list.block[j] # NONE
  BY <1>3, <1>4, <1>5, <1>6
<1>8. ListsOK'
  <2>1. ASSUME NEW j \in Inst, list'.block[j] # NONE PROVE j <= arena'.insts /\ list'.block[j] \in live'
    BY <1>1, <1>2, <1>5, <1>6, <1>7, <2>1
  <2> QED BY <1>6, <2>1 DEF ListsOK
<1>10. LiveOK' BY <1>1, <1>2, <1>5, <1>9 DEF BodyInv, LiveOK
<1>11. PosOK' BY <1>1, <1>7 DEF BodyInv, PosOK
<1>12. ParamsOK' /\ ResultOK' /\ DefOK' BY <1>1, <1>2, <1>7, ValuesStay
<1>13. EdgesOK'
  <2> DEFINE R == [to : 1..new, args : Seq(1..arena.values)]
  <2>1. edges \in [Block -> Seq(R)]
    <3>1. arena.values <= arena.values BY <1>2
    <3>2. Seq([to : 1..arena.blocks, args : Seq(1..arena.values)]) \subseteq Seq(R)
      BY <1>2, <1>3, <3>1, Wider
    <3> HIDE DEF R
    <3> QED BY <3>2 DEF BodyInv, EdgesOK
  <2>2. jump \in Seq(R)
    <3>1. [to |-> new, args |-> <<>>] \in R BY <1>9, EmptySeq
    <3> HIDE DEF R
    <3> QED BY <3>1
  <2> HIDE DEF R, jump
  <2>3. edges' \in [Block -> Seq(R)] BY <1>1, <1>5, <2>1, <2>2
  <2> QED BY <1>2, <2>3 DEF EdgesOK, R
<1> QED BY <1>2, <1>8, <1>10, <1>11, <1>12, <1>13 DEF BodyInv

------------------------------------------------------------------------------
(***************************************************************************)
(* Sequences that number what they hold.                                   *)
(***************************************************************************)
\* Numbers without repetition from 1..n are at most n.
LEMMA DistinctShort ==
  ASSUME NEW n \in Nat, NEW s \in Seq(1..n), Distinct(s)
  PROVE  Len(s) <= n /\ Len(s) \in Nat
<1> DEFINE A == 1..Len(s)
           B == 1..n
<1>1. Len(s) \in Nat /\ DOMAIN s = A /\ s \in [A -> B]
  <2>1. Len(s) \in Nat /\ DOMAIN s = A BY LenProperties
  <2>2. \A i \in A : s[i] \in B BY ElementOfSeq
  <2>3. s = [i \in DOMAIN s |-> s[i]] BY LenProperties
  <2> HIDE DEF A, B
  <2> QED BY <2>1, <2>2, <2>3
<1>2. IsFiniteSet(A) /\ Cardinality(A) = Len(s) /\ IsFiniteSet(B) /\ Cardinality(B) = n
  <2> DEFINE m == Len(s)
  <2>1. m \in Nat /\ 1 \in Int /\ m \in Int /\ n \in Int BY <1>1
  <2> HIDE DEF m
  <2>2. IsFiniteSet(1..m) /\ Cardinality(1..m) = m /\ IsFiniteSet(1..n) /\ Cardinality(1..n) = n
    <3>1. IsFiniteSet(1..m) /\ Cardinality(1..m) = IF 1 > m THEN 0 ELSE m - 1 + 1
      BY <2>1, FS_Interval
    <3>2. IsFiniteSet(1..n) /\ Cardinality(1..n) = IF 1 > n THEN 0 ELSE n - 1 + 1
      BY <2>1, FS_Interval
    <3> QED BY <2>1, <3>1, <3>2
  <2> QED BY <2>2 DEF m
<1>3. ASSUME n < Len(s) PROVE FALSE
  <2> HIDE DEF A, B
  <2>1. \E x, y \in A : x # y /\ s[x] = s[y] BY <1>1, <1>2, <1>3, FS_PigeonHole
  <2> QED BY <2>1 DEF Distinct, A
<1> QED BY <1>1, <1>3

\* The number that s gives to x, as compact looks it up.
No(s, x) == IF x = NONE THEN NONE ELSE CHOOSE n \in DOMAIN s : s[n] = x

LEMMA NoFacts ==
  ASSUME NEW T, NEW s \in Seq(T), Distinct(s), NONE \notin T
  PROVE  /\ \A x : Has(s, x) => No(s, x) \in 1..Len(s) /\ s[No(s, x)] = x
         /\ \A n \in 1..Len(s) : No(s, s[n]) = n /\ Has(s, s[n]) /\ s[n] \in T
         /\ No(s, NONE) = NONE
         /\ \A x : Has(s, x) => x \in T
<1>1. DOMAIN s = 1..Len(s) BY LenProperties
<1>2. \A n \in 1..Len(s) : s[n] \in T BY ElementOfSeq
<1>3. \A x : Has(s, x) => x \in T /\ x # NONE BY <1>2 DEF Has
<1>4. \A x : Has(s, x) => No(s, x) \in 1..Len(s) /\ s[No(s, x)] = x
  <2> SUFFICES ASSUME NEW x, Has(s, x) PROVE No(s, x) \in 1..Len(s) /\ s[No(s, x)] = x OBVIOUS
  <2>1. \E n \in DOMAIN s : s[n] = x BY <1>1 DEF Has
  <2>2. No(s, x) = CHOOSE n \in DOMAIN s : s[n] = x BY <1>3 DEF No
  <2> QED BY <1>1, <2>1, <2>2
<1>5. \A n \in 1..Len(s) : Has(s, s[n]) BY DEF Has
<1>6. \A n \in 1..Len(s) : No(s, s[n]) = n BY <1>4, <1>5 DEF Distinct
<1> QED BY <1>2, <1>3, <1>4, <1>5, <1>6 DEF No

\* n is the number of x in s, and none if x is none.
Names(s, n, x) == IF x = NONE THEN n = NONE ELSE n \in 1..Len(s) /\ s[n] = x

\* m is l with its instructions and blocks numbered anew.
Renumbered(l, m, is, bs) ==
    /\ \A n \in 1..Len(is) : /\ Names(bs, m.block[n], l.block[is[n]])
                             /\ Names(is, m.prev[n], l.prev[is[n]])
                             /\ Names(is, m.next[n], l.next[is[n]])
    /\ \A n \in Inst : n \notin 1..Len(is) =>
          m.block[n] = NONE /\ m.prev[n] = NONE /\ m.next[n] = NONE
    /\ \A c \in 1..Len(bs) : /\ Names(is, m.first[c], l.first[bs[c]])
                             /\ Names(is, m.last[c], l.last[bs[c]])
    /\ \A c \in Block : c \notin 1..Len(bs) => m.first[c] = NONE /\ m.last[c] = NONE

LEMMA RenumberedSound ==
  ASSUME NEW l, Sound(l), NEW m, ListType(m), NEW is \in Seq(Inst), NEW bs \in Seq(Block),
         Distinct(is), Distinct(bs), \A n \in 1..Len(is) : l.block[is[n]] # NONE,
         Renumbered(l, m, is, bs)
  PROVE  Sound(m)
<1> USE NoneIsNothing
<1>0. /\ \A n \in 1..Len(is) : is[n] \in Inst
      /\ \A c \in 1..Len(bs) : bs[c] \in Block
  BY ElementOfSeq
<1>1. /\ m.first \in [Block -> Inst \cup {NONE}] /\ m.last \in [Block -> Inst \cup {NONE}]
      /\ m.prev \in [Inst -> Inst \cup {NONE}] /\ m.next \in [Inst -> Inst \cup {NONE}]
      /\ m.block \in [Inst -> Block \cup {NONE}]
  BY DEF ListType
<1>2. ASSUME NEW n \in 1..Len(is)
      PROVE  /\ m.block[n] \in 1..Len(bs) /\ bs[m.block[n]] = l.block[is[n]]
             /\ l.prev[is[n]] = NONE => m.prev[n] = NONE
             /\ l.prev[is[n]] # NONE => m.prev[n] \in 1..Len(is) /\ is[m.prev[n]] = l.prev[is[n]]
             /\ l.next[is[n]] = NONE => m.next[n] = NONE
             /\ l.next[is[n]] # NONE => m.next[n] \in 1..Len(is) /\ is[m.next[n]] = l.next[is[n]]
  BY DEF Renumbered, Names
<1>3. ASSUME NEW c \in 1..Len(bs)
      PROVE  /\ l.first[bs[c]] = NONE => m.first[c] = NONE
             /\ l.first[bs[c]] # NONE => m.first[c] \in 1..Len(is) /\ is[m.first[c]] = l.first[bs[c]]
             /\ l.last[bs[c]] = NONE => m.last[c] = NONE
             /\ l.last[bs[c]] # NONE => m.last[c] \in 1..Len(is) /\ is[m.last[c]] = l.last[bs[c]]
  BY DEF Renumbered, Names
<1>4. NONE \notin 1..Len(is) /\ NONE \notin 1..Len(bs) BY DEF NONE
<1>5. EndsFit(m)
  <2> SUFFICES ASSUME NEW c \in Block
               PROVE  /\ m.first[c] = NONE <=> m.last[c] = NONE
                      /\ m.first[c] # NONE => m.block[m.first[c]] = c /\ m.prev[m.first[c]] = NONE
                      /\ m.last[c] # NONE => m.block[m.last[c]] = c /\ m.next[m.last[c]] = NONE
    BY DEF EndsFit
  <2>1. CASE c \notin 1..Len(bs) BY <2>1 DEF Renumbered
  <2>2. CASE c \in 1..Len(bs)
    <3>1. /\ l.first[bs[c]] = NONE <=> l.last[bs[c]] = NONE
          /\ l.first[bs[c]] # NONE => l.block[l.first[bs[c]]] = bs[c] /\ l.prev[l.first[bs[c]]] = NONE
          /\ l.last[bs[c]] # NONE => l.block[l.last[bs[c]]] = bs[c] /\ l.next[l.last[bs[c]]] = NONE
      BY <1>0, <2>2 DEF Sound, EndsFit
    <3>2. m.first[c] = NONE <=> m.last[c] = NONE BY <1>3, <1>4, <2>2, <3>1
    <3>3. ASSUME m.first[c] # NONE PROVE m.block[m.first[c]] = c /\ m.prev[m.first[c]] = NONE
      <4>1. m.first[c] \in 1..Len(is) /\ is[m.first[c]] = l.first[bs[c]] /\ l.first[bs[c]] # NONE
        BY <1>3, <2>2, <3>3
      <4>2. m.block[m.first[c]] \in 1..Len(bs) /\ bs[m.block[m.first[c]]] = bs[c]
            /\ m.prev[m.first[c]] = NONE
        BY <1>2, <3>1, <4>1
      <4> QED BY <2>2, <4>2 DEF Distinct
    <3>4. ASSUME m.last[c] # NONE PROVE m.block[m.last[c]] = c /\ m.next[m.last[c]] = NONE
      <4>1. m.last[c] \in 1..Len(is) /\ is[m.last[c]] = l.last[bs[c]] /\ l.last[bs[c]] # NONE
        BY <1>3, <2>2, <3>4
      <4>2. m.block[m.last[c]] \in 1..Len(bs) /\ bs[m.block[m.last[c]]] = bs[c]
            /\ m.next[m.last[c]] = NONE
        BY SMTT(30), <1>2, <3>1, <4>1
      <4> QED BY <2>2, <4>2 DEF Distinct
    <3> QED BY <3>2, <3>3, <3>4
  <2> QED BY <2>1, <2>2
<1>6. LinksFit(m)
  <2> SUFFICES ASSUME NEW n \in Inst, m.block[n] # NONE
               PROVE  /\ IF m.prev[n] = NONE THEN m.first[m.block[n]] = n
                         ELSE m.next[m.prev[n]] = n /\ m.block[m.prev[n]] = m.block[n]
                      /\ IF m.next[n] = NONE THEN m.last[m.block[n]] = n
                         ELSE m.prev[m.next[n]] = n /\ m.block[m.next[n]] = m.block[n]
    BY DEF LinksFit
  <2> DEFINE i == is[n]
             c == m.block[n]
  <2>1. n \in 1..Len(is) BY DEF Renumbered
  <2>2. i \in Inst /\ l.block[i] # NONE /\ c \in 1..Len(bs) /\ bs[c] = l.block[i]
    BY <1>0, <1>2, <2>1
  <2>3. /\ IF l.prev[i] = NONE THEN l.first[l.block[i]] = i
           ELSE l.next[l.prev[i]] = i /\ l.block[l.prev[i]] = l.block[i]
        /\ IF l.next[i] = NONE THEN l.last[l.block[i]] = i
           ELSE l.prev[l.next[i]] = i /\ l.block[l.next[i]] = l.block[i]
    BY <2>2 DEF Sound, LinksFit
  <2>4. IF m.prev[n] = NONE THEN m.first[c] = n ELSE m.next[m.prev[n]] = n /\ m.block[m.prev[n]] = c
    <3>1. CASE m.prev[n] = NONE
      <4>1. l.prev[i] = NONE BY <1>2, <1>4, <2>1, <3>1
      <4>2. l.first[bs[c]] = i BY <2>2, <2>3, <4>1
      <4>3. m.first[c] \in 1..Len(is) /\ is[m.first[c]] = is[n] BY <1>3, <2>2, <4>2
      <4> QED BY <2>1, <3>1, <4>3 DEF Distinct
    <3>2. CASE m.prev[n] # NONE
      <4>1. m.prev[n] \in 1..Len(is) /\ is[m.prev[n]] = l.prev[i] /\ l.prev[i] # NONE
        BY <1>2, <2>1, <3>2
      <4> DEFINE p == m.prev[n]
      <4>2. p \in 1..Len(is) /\ l.next[is[p]] = i /\ l.block[is[p]] = bs[c] BY <2>2, <2>3, <4>1
      <4> HIDE DEF p, c
      <4>3. m.next[p] \in 1..Len(is) /\ is[m.next[p]] = is[n] BY <1>2, <2>2, <4>2
      <4>4. m.block[p] \in 1..Len(bs) /\ bs[m.block[p]] = bs[c] BY <1>2, <4>2
      <4>5. m.next[p] = n /\ m.block[p] = c BY <2>1, <2>2, <4>3, <4>4 DEF Distinct
      <4> QED BY <3>2, <4>5 DEF p
    <3> QED BY <3>1, <3>2
  <2>5. IF m.next[n] = NONE THEN m.last[c] = n ELSE m.prev[m.next[n]] = n /\ m.block[m.next[n]] = c
    <3>1. CASE m.next[n] = NONE
      <4>1. l.next[i] = NONE BY <1>2, <1>4, <2>1, <3>1
      <4>2. l.last[bs[c]] = i BY <2>2, <2>3, <4>1
      <4>3. m.last[c] \in 1..Len(is) /\ is[m.last[c]] = is[n] BY <1>3, <2>2, <4>2
      <4> QED BY <2>1, <3>1, <4>3 DEF Distinct
    <3>2. CASE m.next[n] # NONE
      <4>1. m.next[n] \in 1..Len(is) /\ is[m.next[n]] = l.next[i] /\ l.next[i] # NONE
        BY <1>2, <2>1, <3>2
      <4> DEFINE p == m.next[n]
      <4>2. p \in 1..Len(is) /\ l.prev[is[p]] = i /\ l.block[is[p]] = bs[c] BY <2>2, <2>3, <4>1
      <4> HIDE DEF p, c
      <4>3. m.prev[p] \in 1..Len(is) /\ is[m.prev[p]] = is[n] BY <1>2, <2>2, <4>2
      <4>4. m.block[p] \in 1..Len(bs) /\ bs[m.block[p]] = bs[c] BY <1>2, <4>2
      <4>5. m.prev[p] = n /\ m.block[p] = c BY <2>1, <2>2, <4>3, <4>4 DEF Distinct
      <4> QED BY <3>2, <4>5 DEF p
    <3> QED BY <3>1, <3>2
  <2> QED BY <2>4, <2>5
<1>7. LeadsOn(m)
  <2> SUFFICES ASSUME NEW S \in (SUBSET Inst) \ {{}}, \A n \in S : m.block[n] # NONE
               PROVE  \E n \in S : m.next[n] \notin S
    BY DEF LeadsOn
  <2> DEFINE R == {is[n] : n \in S}
  <2>1. \A n \in S : n \in 1..Len(is) BY DEF Renumbered
  <2>2. R \in (SUBSET Inst) \ {{}} /\ \A i \in R : l.block[i] # NONE BY <1>0, <2>1
  <2>3. PICK i \in R : l.next[i] \notin R
    <3> HIDE DEF R
    <3> QED BY <2>2 DEF Sound, LeadsOn
  <2>4. PICK n \in S : is[n] = i OBVIOUS
  <2>5. ASSUME m.next[n] \in S PROVE FALSE
    <3>1. m.next[n] \in 1..Len(is) /\ n \in 1..Len(is) /\ is[m.next[n]] \in R BY <2>1, <2>4, <2>5
    <3>2. l.next[i] # NONE BY <1>2, <1>4, <2>4, <3>1
    <3>3. is[m.next[n]] = l.next[i] BY <1>2, <2>4, <3>1, <3>2
    <3> QED BY <2>3, <3>1, <3>3
  <2> QED BY <2>4, <2>5
<1>8. IdleClear(m)
  <2>1. ASSUME NEW n \in Inst, m.block[n] = NONE PROVE m.prev[n] = NONE /\ m.next[n] = NONE
    <3>1. n \notin 1..Len(is) BY <1>2, <1>4, <2>1
    <3> QED BY <3>1 DEF Renumbered
  <2> QED BY <2>1 DEF IdleClear
<1> QED BY <1>5, <1>6, <1>7, <1>8 DEF Sound

\* The order compact numbers blocks in.
LEMMA BlockOrderFacts ==
  ASSUME BodyInv
  PROVE  /\ BlockOrder \in Seq(1..arena.blocks) /\ BlockOrder \in Seq(Block)
         /\ \A b : Has(BlockOrder, b) <=> b \in live
         /\ Distinct(BlockOrder) /\ Len(BlockOrder) \in Nat /\ Len(BlockOrder) >= 1
         /\ DOMAIN BlockOrder = 1..Len(BlockOrder)
<1> DEFINE K == live \ {Entry}
           N == arena.blocks
           T == 1..N
           s == Sorted(K)
           e == <<Entry>>
<1>1. N \in Nat /\ T \subseteq Block /\ Entry \in live /\ live \subseteq T
  BY ArenaFacts DEF BodyInv, LiveOK
<1>2. K \in SUBSET (1..N) BY <1>1
<1> HIDE DEF K, N
<1>3. /\ Cardinality(K) \in Nat
      /\ \A j \in 1..Cardinality(K) : Nth(K, j) \in K /\ Rank(K, Nth(K, j)) = j
      /\ \A i \in K : Rank(K, i) \in 1..Cardinality(K) /\ Nth(K, Rank(K, i)) = i
  BY <1>1, <1>2, NthFacts
<1>4. s \in [1..Cardinality(K) -> T] /\ \A j \in 1..Cardinality(K) : s[j] = Nth(K, j)
  BY <1>2, <1>3 DEF Sorted
<1> HIDE DEF s
<1>5. s \in Seq(T) /\ Len(s) = Cardinality(K)
  <2> HIDE DEF T
  <2> QED BY <1>3, <1>4, FunctionSeq
<1>6. \A b : Has(s, b) <=> b \in K
  <2>1. ASSUME NEW b, Has(s, b) PROVE b \in K BY <1>3, <1>4, <1>5, <2>1 DEF Has
  <2>2. ASSUME NEW b \in K PROVE Has(s, b) BY <1>3, <1>4, <1>5 DEF Has
  <2> QED BY <2>1, <2>2
<1>7. Distinct(s)
  <2> SUFFICES ASSUME NEW j \in 1..Len(s), NEW k \in 1..Len(s), s[j] = s[k] PROVE j = k
    BY DEF Distinct
  <2>1. Nth(K, j) = Nth(K, k) BY <1>4, <1>5
  <2>2. Rank(K, Nth(K, j)) = j /\ Rank(K, Nth(K, k)) = k BY <1>3, <1>5
  <2> QED BY <2>1, <2>2
<1>8. e \in Seq(T) /\ Len(e) = 1 /\ e[1] = Entry BY <1>1
<1> HIDE DEF e
<1>9. (\A b : Has(e, b) <=> b = Entry) /\ Distinct(e) BY <1>8 DEF Has, Distinct
<1>10. /\ e \o s \in Seq(T)
       /\ \A b : Has(e \o s, b) <=> Has(e, b) \/ Has(s, b)
       /\ Distinct(e) /\ Distinct(s) /\ (\A b : ~(Has(e, b) /\ Has(s, b))) => Distinct(e \o s)
  BY <1>5, <1>8, ConcatFacts
<1>11. \A b : ~(Has(e, b) /\ Has(s, b)) BY <1>6, <1>9 DEF K
<1>12. \A b : Has(e \o s, b) <=> b \in live BY <1>1, <1>6, <1>9, <1>10 DEF K
<1>13. Len(e \o s) = Len(e) + Len(s) BY <1>5, <1>8, ConcatProperties
<1>14. BlockOrder = e \o s BY DEF BlockOrder, e, s, K
<1>15. Distinct(e \o s) BY <1>7, <1>9, <1>10, <1>11
<1>16. Seq(T) \subseteq Seq(Block) BY <1>1, SeqMonotonic
<1>17. Len(e \o s) \in Nat /\ Len(e \o s) >= 1 BY <1>3, <1>5, <1>8, <1>13
<1>18. DOMAIN BlockOrder = 1..Len(BlockOrder) BY <1>10, <1>14, LenProperties
<1> QED BY <1>10, <1>12, <1>14, <1>15, <1>16, <1>17, <1>18 DEF T, N

\* A flattening of what each live block has, when no two have the same.
LEMMA InOrderFacts ==
  ASSUME BodyInv, NEW T, NEW f \in [Block -> Seq(T)],
         NEW s, s = FlattenSeq([n \in DOMAIN BlockOrder |-> f[BlockOrder[n]]])
  PROVE  /\ s \in Seq(T)
         /\ \A x : Has(s, x) <=> \E b \in live : Has(f[b], x)
         /\ (\A b, c \in live : \A j \in 1..Len(f[b]), k \in 1..Len(f[c]) :
                f[b][j] = f[c][k] => b = c /\ j = k) => Distinct(s)
<1> DEFINE bo == BlockOrder
           ss == [n \in DOMAIN bo |-> f[bo[n]]]
<1>1. /\ bo \in Seq(Block) /\ Distinct(bo) /\ Len(bo) \in Nat /\ DOMAIN bo = 1..Len(bo)
      /\ \A b : Has(bo, b) <=> b \in live
  BY BlockOrderFacts
<1> HIDE DEF bo
<1>2. \A n \in 1..Len(bo) : bo[n] \in Block /\ bo[n] \in live
  <2>1. \A n \in 1..Len(bo) : bo[n] \in Block BY <1>1, ElementOfSeq
  <2>2. \A n \in 1..Len(bo) : Has(bo, bo[n]) BY DEF Has
  <2> QED BY <1>1, <2>1, <2>2
<1>3. ss \in [1..Len(bo) -> Seq(T)] /\ \A n \in 1..Len(bo) : ss[n] = f[bo[n]]
  BY <1>1, <1>2
<1>0. s = FlattenSeq(ss) BY DEF bo
<1> HIDE DEF ss
<1>4. ss \in Seq(Seq(T)) /\ Len(ss) = Len(bo) BY <1>1, <1>3, FunctionSeq
<1>5. /\ s \in Seq(T)
      /\ \A x : Has(s, x) <=> \E n \in 1..Len(ss) : Has(ss[n], x)
      /\ PartsDistinct(ss) => Distinct(s)
  BY <1>0, <1>4, FlattenFacts
<1>6. \A x : Has(s, x) <=> \E b \in live : Has(f[b], x)
  <2>1. ASSUME NEW x, Has(s, x) PROVE \E b \in live : Has(f[b], x)
    BY <1>2, <1>3, <1>4, <1>5, <2>1
  <2>2. ASSUME NEW x, NEW b \in live, Has(f[b], x) PROVE Has(s, x)
    <3>1. PICK n \in 1..Len(bo) : bo[n] = b BY <1>1 DEF Has
    <3>2. Has(ss[n], x) /\ n \in 1..Len(ss) BY <1>3, <1>4, <2>2, <3>1
    <3> QED BY <1>5, <3>2
  <2> QED BY <2>1, <2>2
<1>7. ASSUME \A b, c \in live : \A j \in 1..Len(f[b]), k \in 1..Len(f[c]) :
                f[b][j] = f[c][k] => b = c /\ j = k
      PROVE  Distinct(s)
  <2>1. PartsDistinct(ss)
    <3> SUFFICES ASSUME NEW n \in 1..Len(ss), NEW m \in 1..Len(ss), NEW j \in 1..Len(ss[n]),
                        NEW k \in 1..Len(ss[m]), ss[n][j] = ss[m][k]
                 PROVE  n = m /\ j = k
      BY DEF PartsDistinct
    <3>1. ss[n] = f[bo[n]] /\ ss[m] = f[bo[m]] /\ bo[n] \in live /\ bo[m] \in live
          /\ n \in 1..Len(bo) /\ m \in 1..Len(bo)
      BY <1>2, <1>3, <1>4
    <3>2. bo[n] = bo[m] /\ j = k BY <1>7, <3>1
    <3> QED BY <1>1, <3>1, <3>2 DEF Distinct
  <2> QED BY <1>5, <2>1
<1> QED BY <1>5, <1>6, <1>7

LEMMA FirstUsesFacts ==
  ASSUME NEW T, NEW s \in Seq(T), NEW K
  PROVE  /\ FirstUses(s, K) \in Seq(T) /\ Distinct(FirstUses(s, K))
         /\ \A x : Has(FirstUses(s, K), x) <=> Has(s, x) /\ x \notin K
<1> DEFINE R == {i \in DOMAIN s : s[i] \in K \/ \E j \in 1..(i - 1) : s[j] = s[i]}
           F == DOMAIN s \ R
           u == Without(s, R)
<1>0. DOMAIN s = 1..Len(s) /\ Len(s) \in Nat BY LenProperties
<1>1. FirstUses(s, K) = u BY DEF FirstUses
<1>2. \A i \in F : i \in 1..Len(s) /\ s[i] \notin K /\ ~ \E j \in 1..(i - 1) : s[j] = s[i] BY <1>0
<1>3. \A i \in 1..Len(s) : s[i] \notin K /\ (~ \E j \in 1..(i - 1) : s[j] = s[i]) => i \in F
  BY <1>0
<1>f. F = DOMAIN s \ R OBVIOUS
<1> HIDE DEF F, R
<1>4. u \in Seq(T) /\ Len(u) = Cardinality(F) BY <1>f, WithoutFacts
<1>5. \A j \in 1..Cardinality(F) : Nth(F, j) \in F /\ Rank(F, Nth(F, j)) = j /\ u[j] = s[Nth(F, j)]
  BY <1>f, WithoutFacts
<1>6. \A i \in F : Rank(F, i) \in 1..Cardinality(F) /\ u[Rank(F, i)] = s[i]
  <2>1. F \in SUBSET (1..Len(s)) BY <1>2
  <2>2. \A i \in F : Rank(F, i) \in 1..Cardinality(F) /\ Nth(F, Rank(F, i)) = i
    BY <1>0, <2>1, NthFacts
  <2> HIDE DEF u
  <2>3. ASSUME NEW i \in F PROVE u[Rank(F, i)] = s[i]
    <3> DEFINE r == Rank(F, i)
    <3>1. r \in 1..Cardinality(F) /\ Nth(F, r) = i BY <2>2
    <3> HIDE DEF r
    <3>2. u[r] = s[Nth(F, r)] BY <1>5, <3>1
    <3> QED BY <3>1, <3>2 DEF r
  <2> QED BY <2>2, <2>3
<1> HIDE DEF u
<1>7. ASSUME NEW i \in F, NEW k \in F, s[i] = s[k] PROVE i = k
  <2>1. i \in 1..Len(s) /\ k \in 1..Len(s) BY <1>2
  <2>2. ~(i < k)
    <3>1. i < k => i \in 1..(k - 1) BY <1>0, <2>1
    <3> QED BY <1>2, <1>7, <3>1
  <2>3. ~(k < i)
    <3>1. k < i => k \in 1..(i - 1) BY <1>0, <2>1
    <3> QED BY <1>2, <1>7, <3>1
  <2> QED BY <1>0, <2>1, <2>2, <2>3
<1>8. Distinct(u)
  <2> SUFFICES ASSUME NEW j \in 1..Len(u), NEW k \in 1..Len(u), u[j] = u[k] PROVE j = k
    BY DEF Distinct
  <2> DEFINE i == Nth(F, j)
             m == Nth(F, k)
  <2>1. i \in F /\ m \in F /\ Rank(F, i) = j /\ Rank(F, m) = k /\ s[i] = s[m] BY <1>4, <1>5
  <2> HIDE DEF i, m
  <2> QED BY <1>7, <2>1
<1>9. ASSUME NEW x, Has(u, x) PROVE Has(s, x) /\ x \notin K
  <2>1. PICK j \in 1..Len(u) : u[j] = x BY <1>9 DEF Has
  <2>2. Nth(F, j) \in F /\ s[Nth(F, j)] = x BY <1>4, <1>5, <2>1
  <2> QED BY <1>2, <2>2 DEF Has
<1>10. ASSUME NEW x, Has(s, x), x \notin K PROVE Has(u, x)
  <2> DEFINE S == {i \in 1..Len(s) : s[i] = x}
  <2>1. S \in SUBSET Nat /\ S # {} BY <1>0, <1>10 DEF Has
  <2>2. PICK i \in S : \A m \in S : i <= m
    <3> HIDE DEF S
    <3> QED BY <2>1, LeastNumber
  <2>3. ~ \E j \in 1..(i - 1) : s[j] = s[i]
    <3> SUFFICES ASSUME NEW j \in 1..(i - 1), s[j] = s[i] PROVE FALSE OBVIOUS
    <3>1. j \in S BY <1>0, <2>2
    <3>2. i <= j BY <2>2, <3>1
    <3> QED BY <1>0, <3>2
  <2>4. i \in F BY <1>3, <1>10, <2>2, <2>3
  <2> QED BY <1>4, <1>6, <2>2, <2>4 DEF Has
<1> QED BY <1>1, <1>4, <1>8, <1>9, <1>10

LEMMA InstOrderFacts ==
  ASSUME BodyInv
  PROVE  /\ InstOrder \in Seq(Inst) /\ Distinct(InstOrder)
         /\ \A i \in Inst : Has(InstOrder, i) <=> list.block[i] # NONE
         /\ Len(InstOrder) \in 0..MaxInsts /\ DOMAIN InstOrder = 1..Len(InstOrder)
<1> USE NoneIsNothing
<1> DEFINE f == [b \in Block |-> Walk(b)]
           s == InstOrder
<1>1. Sound(list) /\ live \subseteq Block
      /\ \A j \in Inst : list.block[j] # NONE => list.block[j] \in live
  BY PosFacts DEF BodyInv, ListsOK
<1>2. \A b \in Block : ListOf(list, b, f[b]) BY <1>1, WalkFacts
<1>3. s = FlattenSeq([n \in DOMAIN BlockOrder |-> f[BlockOrder[n]]])
  <2>1. \A n \in DOMAIN BlockOrder : BlockOrder[n] \in Block BY BlockOrderFacts, ElementOfSeq
  <2>2. \A n \in DOMAIN BlockOrder : f[BlockOrder[n]] = Walk(BlockOrder[n]) BY <2>1
  <2>3. [n \in DOMAIN BlockOrder |-> f[BlockOrder[n]]] = [n \in DOMAIN BlockOrder |-> Walk(BlockOrder[n])]
    <3> HIDE DEF f
    <3> QED BY <2>2
  <2> HIDE DEF f
  <2>4. s = FlattenSeq([n \in DOMAIN BlockOrder |-> Walk(BlockOrder[n])]) BY DEF InstOrder, InOrder
  <2> QED BY <2>3, <2>4
<1>4. f \in [Block -> Seq(Inst)]
  <2>1. \A b \in Block : f[b] \in Seq(Inst) BY <1>2 DEF ListOf
  <2>2. f = [b \in Block |-> f[b]] OBVIOUS
  <2> HIDE DEF f
  <2> QED BY <2>1, <2>2
<1> HIDE DEF f, s
<1>5. /\ s \in Seq(Inst)
      /\ \A x : Has(s, x) <=> \E b \in live : Has(f[b], x)
      /\ (\A b, c \in live : \A j \in 1..Len(f[b]), k \in 1..Len(f[c]) :
                f[b][j] = f[c][k] => b = c /\ j = k) => Distinct(s)
  BY <1>3, <1>4, InOrderFacts
<1>6. ASSUME NEW b \in live, NEW c \in live, NEW j \in 1..Len(f[b]), NEW k \in 1..Len(f[c]),
             f[b][j] = f[c][k]
      PROVE  b = c /\ j = k
  <2>1. list.block[f[b][j]] = b /\ list.block[f[c][k]] = c BY <1>1, <1>2 DEF ListOf
  <2>2. b = c BY <1>6, <2>1
  <2> QED BY <1>1, <1>2, <1>6, <2>2 DEF ListOf
<1>7. Distinct(s) BY <1>5, <1>6
<1>8. ASSUME NEW i \in Inst PROVE Has(s, i) <=> list.block[i] # NONE
  <2>1. ASSUME Has(s, i) PROVE list.block[i] # NONE
    <3>1. PICK b \in live : Has(f[b], i) BY <1>5, <2>1
    <3>2. list.block[i] = b BY <1>1, <1>2, <3>1 DEF Has, ListOf
    <3> QED BY <1>1, <3>2
  <2>2. ASSUME list.block[i] # NONE PROVE Has(s, i)
    <3>1. list.block[i] \in live /\ list.block[i] \in Block BY <1>1, <2>2
    <3>2. Has(f[list.block[i]], i) BY <1>2, <3>1 DEF Has, ListOf
    <3> QED BY <1>5, <3>1, <3>2
  <2> QED BY <2>1, <2>2
<1>9. Len(s) <= MaxInsts /\ Len(s) \in Nat
  <2>1. MaxInsts \in Nat BY Bounds
  <2>2. s \in Seq(1..MaxInsts) BY <1>5 DEF Inst
  <2> QED BY <1>7, <2>1, <2>2, DistinctShort
<1>10. Len(s) \in 0..MaxInsts BY <1>9, Bounds
<1>11. DOMAIN s = 1..Len(s) BY <1>5, LenProperties
<1> QED BY <1>5, <1>7, <1>8, <1>10, <1>11 DEF s

\* The values of b: its parameters, then what its instructions define.
Listed(b) == params[b] \o [k \in DOMAIN Walk(b) |-> result[Walk(b)[k]]]

LEMMA ListedFacts ==
  ASSUME BodyInv, NEW b \in live
  PROVE  /\ Listed(b) \in Seq(1..arena.values)
         /\ \A j \in 1..Len(Listed(b)) :
               \/ j \in DOMAIN params[b] /\ Listed(b)[j] = params[b][j]
               \/ /\ j - Len(params[b]) \in 1..Len(Walk(b))
                  /\ Listed(b)[j] = result[Walk(b)[j - Len(params[b])]]
         /\ \A v : Has(Listed(b), v) <=>
               \/ \E k \in DOMAIN params[b] : params[b][k] = v
               \/ \E i \in Inst : list.block[i] = b /\ result[i] = v
<1> USE NoneIsNothing
<1> DEFINE T == 1..arena.values
           p == params[b]
           w == Walk(b)
           r == [k \in DOMAIN w |-> result[w[k]]]
<1>0. b \in Block /\ b # NONE /\ Sound(list) BY PosFacts DEF BodyInv, ListsOK
<1>1. ListOf(list, b, w) BY <1>0, WalkFacts
<1> HIDE DEF w
<1>2. p \in Seq(T) /\ Len(p) \in Nat /\ DOMAIN p = 1..Len(p)
  BY <1>0, ValueFacts DEF BodyInv, ParamsOK
<1>3. w \in Seq(Inst) /\ DOMAIN w = 1..Len(w) /\ Len(w) \in Nat
      /\ \A k \in 1..Len(w) : w[k] \in Inst /\ list.block[w[k]] = b
      /\ \A i \in Inst : list.block[i] = b => \E n \in 1..Len(w) : w[n] = i
  <2>1. w \in Seq(Inst) BY <1>1 DEF ListOf
  <2>2. \A k \in 1..Len(w) : w[k] \in Inst BY <2>1, ElementOfSeq
  <2> QED BY <1>1, <2>1, <2>2, LenProperties DEF ListOf
<1>4. \A k \in 1..Len(w) : result[w[k]] \in T BY <1>0, <1>3, ValueFacts
<1>5. r \in [1..Len(w) -> T] /\ \A k \in 1..Len(w) : r[k] = result[w[k]] BY <1>3, <1>4
<1> HIDE DEF r
<1>6. r \in Seq(T) /\ Len(r) = Len(w)
  <2> HIDE DEF T
  <2> QED BY <1>3, <1>5, FunctionSeq
<1>7. Listed(b) = p \o r BY DEF Listed, w, r
<1> HIDE DEF T, p
<1>8. /\ p \o r \in Seq(T)
      /\ \A x : Has(p \o r, x) <=> Has(p, x) \/ Has(r, x)
  BY <1>2, <1>6, ConcatFacts
<1>9. /\ Len(p \o r) = Len(p) + Len(r)
      /\ \A i \in 1..(Len(p) + Len(r)) : (p \o r)[i] = IF i <= Len(p) THEN p[i] ELSE r[i - Len(p)]
  BY <1>2, <1>6, ConcatProperties
<1>10. ASSUME NEW j \in 1..Len(Listed(b))
       PROVE  \/ j \in DOMAIN p /\ Listed(b)[j] = p[j]
              \/ j - Len(p) \in 1..Len(w) /\ Listed(b)[j] = result[w[j - Len(p)]]
  <2>1. j \in 1..(Len(p) + Len(r)) /\ Listed(b)[j] = IF j <= Len(p) THEN p[j] ELSE r[j - Len(p)]
    BY <1>7, <1>9
  <2>2. CASE j <= Len(p) BY <1>2, <2>1, <2>2
  <2>3. CASE ~(j <= Len(p))
    <3>1. j - Len(p) \in 1..Len(w) BY <1>2, <1>3, <1>6, <2>1, <2>3
    <3> QED BY <1>5, <2>1, <2>3, <3>1
  <2> QED BY <2>2, <2>3
<1>11. ASSUME NEW v
       PROVE  Has(Listed(b), v) <=>
               \/ \E k \in DOMAIN p : p[k] = v
               \/ \E i \in Inst : list.block[i] = b /\ result[i] = v
  <2>1. Has(p, v) <=> \E k \in DOMAIN p : p[k] = v BY <1>2 DEF Has
  <2>2. Has(r, v) <=> \E i \in Inst : list.block[i] = b /\ result[i] = v
    <3>1. ASSUME Has(r, v) PROVE \E i \in Inst : list.block[i] = b /\ result[i] = v
      <4>1. PICK k \in 1..Len(w) : r[k] = v BY <1>6, <3>1 DEF Has
      <4>2. w[k] \in Inst /\ list.block[w[k]] = b /\ result[w[k]] = v BY <1>3, <1>5, <4>1
      <4> QED BY <4>2
    <3>2. ASSUME NEW i \in Inst, list.block[i] = b, result[i] = v PROVE Has(r, v)
      <4>0. \E k \in 1..Len(w) : w[k] = i BY <1>1, <3>2 DEF ListOf
      <4>1. PICK k \in 1..Len(w) : w[k] = i BY <4>0
      <4>2. k \in 1..Len(r) /\ r[k] = v BY <1>5, <1>6, <3>2, <4>1
      <4> QED BY <4>2 DEF Has
    <3> QED BY <3>1, <3>2
  <2> QED BY <1>7, <1>8, <2>1, <2>2
<1> QED BY <1>7, <1>8, <1>10, <1>11 DEF T, p, w

LEMMA ValueOrderFacts ==
  ASSUME BodyInv
  PROVE  /\ ValueOrder \in Seq(1..arena.values) /\ Distinct(ValueOrder)
         /\ \A v : Has(ValueOrder, v) <=>
               \/ \E b \in live : \E k \in DOMAIN params[b] : params[b][k] = v
               \/ \E i \in Inst : list.block[i] # NONE /\ result[i] = v
<1> USE NoneIsNothing
<1> DEFINE T == 1..arena.values
           f == [b \in Block |-> IF b \in live THEN Listed(b) ELSE <<>>]
           s == ValueOrder
<1>1. Sound(list) /\ live \subseteq Block
      /\ \A j \in Inst : list.block[j] # NONE => list.block[j] \in live
  BY PosFacts DEF BodyInv, ListsOK
<1>2. \A b \in live : f[b] = Listed(b) BY <1>1
<1>3. s = FlattenSeq([n \in DOMAIN BlockOrder |-> f[BlockOrder[n]]])
  <2>1. \A n \in DOMAIN BlockOrder : Has(BlockOrder, BlockOrder[n]) BY BlockOrderFacts DEF Has
  <2>2. \A n \in DOMAIN BlockOrder : f[BlockOrder[n]] = Listed(BlockOrder[n])
    BY <1>2, <2>1, BlockOrderFacts
  <2>3. [n \in DOMAIN BlockOrder |-> f[BlockOrder[n]]] = [n \in DOMAIN BlockOrder |-> Listed(BlockOrder[n])]
    <3> HIDE DEF f
    <3> QED BY <2>2
  <2> HIDE DEF f
  <2>4. s = FlattenSeq([n \in DOMAIN BlockOrder |-> Listed(BlockOrder[n])])
    BY DEF ValueOrder, InOrder, Listed
  <2> QED BY <2>3, <2>4
<1>4. f \in [Block -> Seq(T)]
  <2>1. \A b \in Block : b \in live => Listed(b) \in Seq(T) BY ListedFacts
  <2> HIDE DEF T
  <2>2. <<>> \in Seq(T) BY EmptySeq
  <2> QED BY <2>1, <2>2
<1> HIDE DEF f, s
<1>5. /\ s \in Seq(T)
      /\ \A x : Has(s, x) <=> \E b \in live : Has(f[b], x)
      /\ (\A b, c \in live : \A j \in 1..Len(f[b]), k \in 1..Len(f[c]) :
                f[b][j] = f[c][k] => b = c /\ j = k) => Distinct(s)
  <2> HIDE DEF T
  <2> QED BY <1>3, <1>4, InOrderFacts
<1>d. /\ \A b \in Block : \A k \in DOMAIN params[b] : def[params[b][k]] = ParamOf(b, k)
      /\ \A i \in Inst : list.block[i] # NONE => def[result[i]] = ResultOf(i)
  BY DEF BodyInv, DefOK
<1>w. ASSUME NEW b \in live
      PROVE  /\ \A k \in 1..Len(Walk(b)) : Walk(b)[k] \in Inst /\ list.block[Walk(b)[k]] = b
             /\ \A k, m \in 1..Len(Walk(b)) : Walk(b)[k] = Walk(b)[m] => k = m
  <2>1. ListOf(list, b, Walk(b)) BY <1>1, WalkFacts
  <2>2. \A k \in 1..Len(Walk(b)) : Walk(b)[k] \in Inst BY <2>1, ElementOfSeq DEF ListOf
  <2> QED BY <2>1, <2>2 DEF ListOf
<1>6. ASSUME NEW b \in live, NEW c \in live, NEW j \in 1..Len(f[b]), NEW k \in 1..Len(f[c]),
             f[b][j] = f[c][k]
      PROVE  b = c /\ j = k
  <2> DEFINE x == Listed(b)[j]
             y == Walk(b)[j - Len(params[b])]
             z == Walk(c)[k - Len(params[c])]
  <2>0. b \in Block /\ c \in Block /\ b # NONE /\ c # NONE /\ x = Listed(c)[k]
        /\ j \in 1..Len(Listed(b)) /\ k \in 1..Len(Listed(c))
        /\ Len(params[b]) \in Nat /\ Len(params[c]) \in Nat
    BY <1>1, <1>2, <1>6, ValueFacts
  <2>1. \/ j \in DOMAIN params[b] /\ x = params[b][j]
        \/ j - Len(params[b]) \in 1..Len(Walk(b)) /\ x = result[y]
    BY <2>0, ListedFacts
  <2>2. \/ k \in DOMAIN params[c] /\ x = params[c][k]
        \/ k - Len(params[c]) \in 1..Len(Walk(c)) /\ x = result[z]
    BY <2>0, ListedFacts
  <2>7. /\ j - Len(params[b]) \in 1..Len(Walk(b)) => y \in Inst /\ list.block[y] = b
        /\ k - Len(params[c]) \in 1..Len(Walk(c)) => z \in Inst /\ list.block[z] = c
    BY <1>w
  <2> HIDE DEF x, y, z
  <2>3. \/ j \in DOMAIN params[b] /\ def[x] = ParamOf(b, j)
        \/ j - Len(params[b]) \in 1..Len(Walk(b)) /\ def[x] = ResultOf(y)
    BY <1>d, <2>0, <2>1, <2>7
  <2>4. \/ k \in DOMAIN params[c] /\ def[x] = ParamOf(c, k)
        \/ k - Len(params[c]) \in 1..Len(Walk(c)) /\ def[x] = ResultOf(z)
    BY <1>d, <2>0, <2>2, <2>7
  <2>5. \/ b = c /\ j = k
        \/ j - Len(params[b]) \in 1..Len(Walk(b)) /\ k - Len(params[c]) \in 1..Len(Walk(c)) /\ y = z
    BY <2>3, <2>4, KindsDiffer
  <2>6. ASSUME j - Len(params[b]) \in 1..Len(Walk(b)), k - Len(params[c]) \in 1..Len(Walk(c)), y = z
        PROVE  b = c /\ j = k
    <3>1. b = c BY <2>6, <2>7
    <3>2. j - Len(params[b]) = k - Len(params[b])
      <4>1. k - Len(params[b]) \in 1..Len(Walk(b)) /\ z = Walk(b)[k - Len(params[b])]
        BY <2>6, <3>1 DEF z
      <4>2. Walk(b)[j - Len(params[b])] = Walk(b)[k - Len(params[b])] BY <2>6, <4>1 DEF y
      <4> QED BY <1>w, <2>6, <4>1, <4>2
    <3> QED BY <2>0, <3>1, <3>2
  <2> QED BY <2>5, <2>6
<1>7. Distinct(s) BY <1>5, <1>6
<1>8. ASSUME NEW v
      PROVE  Has(s, v) <=> \/ \E b \in live : \E k \in DOMAIN params[b] : params[b][k] = v
                           \/ \E i \in Inst : list.block[i] # NONE /\ result[i] = v
  <2>1. Has(s, v) <=> \E b \in live : Has(Listed(b), v) BY <1>2, <1>5
  <2>2. ASSUME NEW b \in live
        PROVE  Has(Listed(b), v) <=>
                 \/ \E k \in DOMAIN params[b] : params[b][k] = v
                 \/ \E i \in Inst : list.block[i] = b /\ result[i] = v
    BY ListedFacts
  <2>3. \A b \in live : b # NONE BY <1>1
  <2> QED BY <1>1, <2>1, <2>2, <2>3
<1> QED BY <1>5, <1>7, <1>8 DEF s

\* What the terminators of live blocks name gets a number as well.
LEMMA EdgeOrderFacts ==
  ASSUME BodyInv
  PROVE  /\ EdgeOrder \in Seq([to : 1..arena.blocks, args : Seq(1..arena.values)])
         /\ \A x : Has(EdgeOrder, x) <=> \E b \in live : Has(edges[b], x)
<1> DEFINE R == [to : 1..arena.blocks, args : Seq(1..arena.values)]
<1>1. edges \in [Block -> Seq(R)] BY DEF BodyInv, EdgesOK
<1>2. EdgeOrder = FlattenSeq([n \in DOMAIN BlockOrder |-> edges[BlockOrder[n]]])
  BY DEF EdgeOrder, InOrder
<1> HIDE DEF R
<1>3. /\ EdgeOrder \in Seq(R)
      /\ \A x : Has(EdgeOrder, x) <=> \E b \in live : Has(edges[b], x)
  BY <1>1, <1>2, InOrderFacts
<1> QED BY <1>3 DEF R

LEMMA DeadTargetFacts ==
  ASSUME BodyInv
  PROVE  /\ DeadTargets \in Seq(1..arena.blocks) /\ Distinct(DeadTargets)
         /\ \A x : Has(DeadTargets, x) => x \notin live
         /\ \A b \in live : \A e \in DOMAIN edges[b] :
               edges[b][e].to \in live \/ Has(DeadTargets, edges[b][e].to)
<1> DEFINE R == [to : 1..arena.blocks, args : Seq(1..arena.values)]
           eo == EdgeOrder
           s == [e \in DOMAIN eo |-> eo[e].to]
<1>1. eo \in Seq(R) /\ \A x : Has(eo, x) <=> \E b \in live : Has(edges[b], x) BY EdgeOrderFacts
<1>2. DeadTargets = FirstUses(s, live) BY DEF DeadTargets
<1> HIDE DEF eo
<1>3. DOMAIN eo = 1..Len(eo) /\ Len(eo) \in Nat /\ \A e \in 1..Len(eo) : eo[e] \in R
  <2> HIDE DEF R
  <2> QED BY <1>1, LenProperties, ElementOfSeq
<1>4. s \in [1..Len(eo) -> 1..arena.blocks] /\ \A e \in 1..Len(eo) : s[e] = eo[e].to BY <1>3
<1> HIDE DEF s
<1>5. s \in Seq(1..arena.blocks) /\ Len(s) = Len(eo) BY <1>3, <1>4, FunctionSeq
<1>6. /\ FirstUses(s, live) \in Seq(1..arena.blocks) /\ Distinct(FirstUses(s, live))
      /\ \A x : Has(FirstUses(s, live), x) <=> Has(s, x) /\ x \notin live
  BY <1>5, FirstUsesFacts
<1>7. ASSUME NEW b \in live, NEW e \in DOMAIN edges[b]
      PROVE  edges[b][e].to \in live \/ Has(DeadTargets, edges[b][e].to)
  <2>1. DOMAIN edges[b] = 1..Len(edges[b]) BY EdgeFacts, PosFacts
  <2>2. Has(edges[b], edges[b][e]) BY <2>1 DEF Has
  <2>3. Has(eo, edges[b][e]) BY <1>1, <2>2
  <2>4. PICK k \in 1..Len(eo) : eo[k] = edges[b][e] BY <2>3 DEF Has
  <2>5. s[k] = edges[b][e].to /\ k \in 1..Len(s) BY <1>4, <1>5, <2>4
  <2>6. Has(s, edges[b][e].to) BY <2>5 DEF Has
  <2> QED BY <1>2, <1>6, <2>6
<1> QED BY <1>2, <1>6, <1>7

LEMMA DanglingFacts ==
  ASSUME BodyInv
  PROVE  /\ Dangling \in Seq(1..arena.values) /\ Distinct(Dangling)
         /\ \A x : Has(Dangling, x) => ~Has(ValueOrder, x)
         /\ \A b \in live : \A e \in DOMAIN edges[b] : \A k \in DOMAIN edges[b][e].args :
               Has(ValueOrder, edges[b][e].args[k]) \/ Has(Dangling, edges[b][e].args[k])
<1> DEFINE V == 1..arena.values
           R == [to : 1..arena.blocks, args : Seq(V)]
           eo == EdgeOrder
           ss == [e \in DOMAIN eo |-> eo[e].args]
           s == FlattenSeq(ss)
           K == ToSet(ValueOrder)
<1>1. eo \in Seq(R) /\ \A x : Has(eo, x) <=> \E b \in live : Has(edges[b], x) BY EdgeOrderFacts
<1>2. Dangling = FirstUses(s, K) BY DEF Dangling
<1>k. \A x : x \in K <=> Has(ValueOrder, x)
  <2>1. DOMAIN ValueOrder = 1..Len(ValueOrder) BY ValueOrderFacts, LenProperties
  <2> QED BY <2>1 DEF ToSet, Has
<1> HIDE DEF eo, K
<1>3. DOMAIN eo = 1..Len(eo) /\ Len(eo) \in Nat /\ \A e \in 1..Len(eo) : eo[e] \in R
  <2> HIDE DEF R
  <2> QED BY <1>1, LenProperties, ElementOfSeq
<1>4. ss \in [1..Len(eo) -> Seq(V)] /\ \A e \in 1..Len(eo) : ss[e] = eo[e].args
  <2> HIDE DEF V
  <2> QED BY <1>3
<1> HIDE DEF ss, V
<1>5. ss \in Seq(Seq(V)) /\ Len(ss) = Len(eo) BY <1>3, <1>4, FunctionSeq
<1>6. s \in Seq(V) /\ \A x : Has(s, x) <=> \E n \in 1..Len(ss) : Has(ss[n], x)
  BY <1>5, FlattenFacts
<1> HIDE DEF s
<1>7. /\ FirstUses(s, K) \in Seq(V) /\ Distinct(FirstUses(s, K))
      /\ \A x : Has(FirstUses(s, K), x) <=> Has(s, x) /\ x \notin K
  BY <1>6, FirstUsesFacts
<1>8. ASSUME NEW b \in live, NEW e \in DOMAIN edges[b], NEW k \in DOMAIN edges[b][e].args
      PROVE  Has(ValueOrder, edges[b][e].args[k]) \/ Has(Dangling, edges[b][e].args[k])
  <2> DEFINE a == edges[b][e].args
  <2>1. DOMAIN edges[b] = 1..Len(edges[b]) /\ a \in Seq(1..arena.values) BY EdgeFacts, PosFacts
  <2>2. DOMAIN a = 1..Len(a) BY <2>1, LenProperties
  <2>3. Has(edges[b], edges[b][e]) BY <2>1 DEF Has
  <2>4. Has(eo, edges[b][e]) BY <1>1, <2>3
  <2>5. PICK n \in 1..Len(eo) : eo[n] = edges[b][e] BY <2>4 DEF Has
  <2>6. ss[n] = a /\ n \in 1..Len(ss) BY <1>4, <1>5, <2>5
  <2> HIDE DEF a
  <2>7. k \in 1..Len(a) BY <2>2 DEF a
  <2>8. Has(a, a[k]) BY <2>7 DEF Has
  <2>9. Has(s, a[k]) BY <1>6, <2>6, <2>8
  <2>10. Has(ValueOrder, a[k]) \/ Has(Dangling, a[k]) BY <1>2, <1>7, <1>k, <2>9
  <2> QED BY <2>10 DEF a
<1> QED BY <1>2, <1>7, <1>8, <1>k DEF V

\* A block that was removed has no edges of its own.
DeadEdgesGone == \A b \in Block : b \notin live => edges[b] = <<>>

NewBlocks == BlockOrder \o DeadTargets
NewValues == ValueOrder \o Dangling

\* The new numbers: each of a block, instruction or value, and of all of them
\* that are listed or named.
LEMMA NewNumbers ==
  ASSUME BodyInv
  PROVE  /\ NewBlocks \in Seq(Block) /\ Distinct(NewBlocks)
         /\ Len(NewBlocks) \in Block /\ DOMAIN NewBlocks = 1..Len(NewBlocks)
         /\ Len(BlockOrder) \in Nat /\ Len(BlockOrder) >= 1 /\ Len(BlockOrder) <= Len(NewBlocks)
         /\ DOMAIN BlockOrder = 1..Len(BlockOrder)
         /\ \A n \in 1..Len(BlockOrder) : NewBlocks[n] \in live
         /\ \A n \in 1..Len(NewBlocks) : NewBlocks[n] \in live => n \in 1..Len(BlockOrder)
         /\ \A b \in live : Has(NewBlocks, b)
         /\ \A b \in live : \A e \in DOMAIN edges[b] : Has(NewBlocks, edges[b][e].to)
<1> DEFINE N == arena.blocks
           bo == BlockOrder
           d == DeadTargets
           s == bo \o d
<1>1. N \in Nat /\ 1..N \subseteq Block /\ N <= MaxBlocks /\ MaxBlocks \in Nat
  BY ArenaFacts, Bounds DEF BodyInv, Block
<1> HIDE DEF N
<1>2. /\ bo \in Seq(1..N) /\ (\A b : Has(bo, b) <=> b \in live) /\ Distinct(bo)
      /\ Len(bo) \in Nat /\ Len(bo) >= 1 /\ DOMAIN bo = 1..Len(bo)
  BY BlockOrderFacts DEF N
<1>3. /\ d \in Seq(1..N) /\ Distinct(d) /\ (\A x : Has(d, x) => x \notin live)
      /\ \A b \in live : \A e \in DOMAIN edges[b] :
            edges[b][e].to \in live \/ Has(d, edges[b][e].to)
  BY DeadTargetFacts DEF N
<1> HIDE DEF bo, d
<1>4. /\ s \in Seq(1..N)
      /\ \A x : Has(s, x) <=> Has(bo, x) \/ Has(d, x)
      /\ Distinct(bo) /\ Distinct(d) /\ (\A x : ~(Has(bo, x) /\ Has(d, x))) => Distinct(s)
  BY <1>2, <1>3, ConcatFacts
<1>5. Distinct(s) BY <1>2, <1>3, <1>4
<1>6. /\ Len(s) = Len(bo) + Len(d)
      /\ \A i \in 1..(Len(bo) + Len(d)) : s[i] = IF i <= Len(bo) THEN bo[i] ELSE d[i - Len(bo)]
  BY <1>2, <1>3, ConcatProperties
<1>7. Len(d) \in Nat BY <1>3, LenProperties
<1> HIDE DEF s
<1>8. Len(s) <= N /\ Len(s) \in Nat BY <1>1, <1>4, <1>5, DistinctShort
<1>9. Len(s) \in Block /\ Len(bo) <= Len(s) BY <1>1, <1>2, <1>6, <1>7, <1>8 DEF Block
<1>10. \A n \in 1..Len(bo) : s[n] \in live
  <2>1. ASSUME NEW n \in 1..Len(bo) PROVE s[n] \in live
    <3>1. s[n] = bo[n] BY <1>2, <1>6, <1>7
    <3>2. Has(bo, bo[n]) BY DEF Has
    <3> QED BY <1>2, <3>1, <3>2
  <2> QED BY <2>1
<1>11. \A n \in 1..Len(s) : s[n] \in live => n \in 1..Len(bo)
  <2>1. ASSUME NEW n \in 1..Len(s), n \notin 1..Len(bo) PROVE s[n] \notin live
    <3>1. n - Len(bo) \in 1..Len(d) /\ s[n] = d[n - Len(bo)] BY <1>2, <1>6, <1>7, <2>1
    <3>2. Has(d, s[n]) BY <3>1 DEF Has
    <3> QED BY <1>3, <3>2
  <2> QED BY <2>1
<1>12. Seq(1..N) \subseteq Seq(Block) BY <1>1, SeqMonotonic
<1>13. s \in Seq(Block) /\ DOMAIN s = 1..Len(s) BY <1>4, <1>12, LenProperties
<1>14. \A b \in live : Has(s, b) BY <1>2, <1>4
<1>15. \A b \in live : \A e \in DOMAIN edges[b] : Has(s, edges[b][e].to) BY <1>2, <1>3, <1>4
<1>16. NewBlocks = s BY DEF NewBlocks, s, bo, d
<1>17. BlockOrder = bo BY DEF bo
<1> QED BY <1>2, <1>5, <1>9, <1>10, <1>11, <1>13, <1>14, <1>15, <1>16, <1>17

LEMMA NewValueNumbers ==
  ASSUME BodyInv
  PROVE  /\ NewValues \in Seq(Value) /\ Distinct(NewValues)
         /\ Len(NewValues) \in 0..MaxValues /\ DOMAIN NewValues = 1..Len(NewValues)
         /\ \A b \in live : \A k \in DOMAIN params[b] : Has(NewValues, params[b][k])
         /\ \A i \in Inst : list.block[i] # NONE => Has(NewValues, result[i])
         /\ \A b \in live : \A e \in DOMAIN edges[b] : \A k \in DOMAIN edges[b][e].args :
               Has(NewValues, edges[b][e].args[k])
<1> DEFINE N == arena.values
           vo == ValueOrder
           d == Dangling
           s == vo \o d
<1>1. N \in Nat /\ 1..N \subseteq Value /\ N <= MaxValues /\ MaxValues \in Nat
  BY ArenaFacts, Bounds DEF BodyInv
<1> HIDE DEF N
<1>2. /\ vo \in Seq(1..N) /\ Distinct(vo)
      /\ \A v : Has(vo, v) <=>
               \/ \E b \in live : \E k \in DOMAIN params[b] : params[b][k] = v
               \/ \E i \in Inst : list.block[i] # NONE /\ result[i] = v
  BY ValueOrderFacts DEF N
<1>3. /\ d \in Seq(1..N) /\ Distinct(d) /\ (\A x : Has(d, x) => ~Has(vo, x))
      /\ \A b \in live : \A e \in DOMAIN edges[b] : \A k \in DOMAIN edges[b][e].args :
               Has(vo, edges[b][e].args[k]) \/ Has(d, edges[b][e].args[k])
  BY DanglingFacts DEF N
<1> HIDE DEF vo, d
<1>4. /\ s \in Seq(1..N)
      /\ \A x : Has(s, x) <=> Has(vo, x) \/ Has(d, x)
      /\ Distinct(vo) /\ Distinct(d) /\ (\A x : ~(Has(vo, x) /\ Has(d, x))) => Distinct(s)
  BY <1>2, <1>3, ConcatFacts
<1>5. Distinct(s) BY <1>2, <1>3, <1>4
<1> HIDE DEF s
<1>8. Len(s) <= N /\ Len(s) \in Nat BY <1>1, <1>4, <1>5, DistinctShort
<1>9. Len(s) \in 0..MaxValues BY <1>1, <1>8
<1>12. Seq(1..N) \subseteq Seq(Value) BY <1>1, SeqMonotonic
<1>13. s \in Seq(Value) /\ DOMAIN s = 1..Len(s) BY <1>4, <1>12, LenProperties
<1>14. /\ \A b \in live : \A k \in DOMAIN params[b] : Has(s, params[b][k])
       /\ \A i \in Inst : list.block[i] # NONE => Has(s, result[i])
  BY <1>2, <1>4
<1>15. \A b \in live : \A e \in DOMAIN edges[b] : \A k \in DOMAIN edges[b][e].args :
               Has(s, edges[b][e].args[k])
  BY SMTT(30), <1>3, <1>4
<1>16. NewValues = s BY DEF NewValues, s, vo, d
<1> QED BY <1>5, <1>9, <1>13, <1>14, <1>15, <1>16

\* A definition in the new numbers.
Redefined(bs, is, d) ==
    CASE d.kind = "param" -> ParamOf(No(bs, d.of), d.index)
      [] d.kind = "result" -> ResultOf(No(is, d.of))
      [] d.kind = "detached" -> Detached

\* What compact makes of each arena.
LEMMA CompactFields ==
  ASSUME Compact, NEW bs, bs = NewBlocks, NEW is, is = InstOrder, NEW vs, vs = NewValues
  PROVE  /\ arena' = [blocks |-> Len(bs), insts |-> Len(is), values |-> Len(vs)]
         /\ live' = DOMAIN BlockOrder
         /\ list' = [first |-> [n \in Block |-> IF n \in DOMAIN bs THEN No(is, list.first[bs[n]]) ELSE NONE],
                     last  |-> [n \in Block |-> IF n \in DOMAIN bs THEN No(is, list.last[bs[n]]) ELSE NONE],
                     prev  |-> [n \in Inst |-> IF n \in DOMAIN is THEN No(is, list.prev[is[n]]) ELSE NONE],
                     next  |-> [n \in Inst |-> IF n \in DOMAIN is THEN No(is, list.next[is[n]]) ELSE NONE],
                     block |-> [n \in Inst |-> IF n \in DOMAIN is THEN No(bs, list.block[is[n]]) ELSE NONE]]
         /\ params' = [n \in Block |-> IF n \in DOMAIN bs
                THEN [k \in DOMAIN params[bs[n]] |-> No(vs, params[bs[n]][k])] ELSE <<>>]
         /\ ended' = {n \in live' : bs[n] \in ended}
         /\ edges' = [n \in Block |-> IF n \in DOMAIN bs
                THEN [e \in DOMAIN edges[bs[n]] |->
                        [to |-> No(bs, edges[bs[n]][e].to),
                         args |-> [k \in DOMAIN edges[bs[n]][e].args |->
                                     No(vs, edges[bs[n]][e].args[k])]]]
                ELSE <<>>]
         /\ result' = [n \in Inst |-> IF n \in DOMAIN is THEN No(vs, result[is[n]]) ELSE NONE]
         /\ def' = [n \in Value |-> IF n \in DOMAIN vs
                THEN Redefined(bs, is, def[vs[n]])
                ELSE Detached]
         /\ pos' = End(Entry)
BY DEF Compact, NewBlocks, NewValues, No, Redefined

LEMMA BlockNumbers ==
  ASSUME BodyInv, NEW bs, bs = NewBlocks
  PROVE  /\ bs \in Seq(Block) /\ Distinct(bs) /\ DOMAIN bs = 1..Len(bs) /\ Len(bs) \in Block
         /\ \A n \in 1..Len(bs) : bs[n] \in Block /\ No(bs, bs[n]) = n
         /\ \A b \in live : No(bs, b) \in DOMAIN BlockOrder /\ No(bs, b) \in 1..Len(bs)
                            /\ bs[No(bs, b)] = b
         /\ \A b \in live : \A e \in DOMAIN edges[b] :
               No(bs, edges[b][e].to) \in 1..Len(bs) /\ bs[No(bs, edges[b][e].to)] = edges[b][e].to
         /\ \A n \in 1..Len(bs) : bs[n] \in live <=> n \in DOMAIN BlockOrder
         /\ DOMAIN BlockOrder \subseteq 1..Len(bs) /\ Entry \in DOMAIN BlockOrder
<1>1. /\ bs \in Seq(Block) /\ Distinct(bs)
      /\ Len(bs) \in Block /\ DOMAIN bs = 1..Len(bs)
      /\ Len(BlockOrder) \in Nat /\ Len(BlockOrder) >= 1 /\ Len(BlockOrder) <= Len(bs)
      /\ DOMAIN BlockOrder = 1..Len(BlockOrder)
      /\ \A n \in 1..Len(BlockOrder) : bs[n] \in live
      /\ \A n \in 1..Len(bs) : bs[n] \in live => n \in 1..Len(BlockOrder)
      /\ \A b \in live : Has(bs, b)
      /\ \A b \in live : \A e \in DOMAIN edges[b] : Has(bs, edges[b][e].to)
  BY NewNumbers
<1>2. /\ \A x : Has(bs, x) => No(bs, x) \in 1..Len(bs) /\ bs[No(bs, x)] = x
      /\ \A n \in 1..Len(bs) : No(bs, bs[n]) = n /\ bs[n] \in Block
  BY <1>1, NoneIsNothing, NoFacts
<1>3. ASSUME NEW b \in live
      PROVE  No(bs, b) \in DOMAIN BlockOrder /\ No(bs, b) \in 1..Len(bs) /\ bs[No(bs, b)] = b
  BY <1>1, <1>2
<1>4. DOMAIN BlockOrder \subseteq 1..Len(bs) /\ Entry \in DOMAIN BlockOrder
  BY <1>1 DEF Entry, Block
<1>5. \A n \in 1..Len(bs) : bs[n] \in live <=> n \in DOMAIN BlockOrder BY <1>1
<1> QED BY <1>1, <1>2, <1>3, <1>4, <1>5

LEMMA InstNumbers ==
  ASSUME BodyInv, NEW is, is = InstOrder
  PROVE  /\ is \in Seq(Inst) /\ Distinct(is) /\ DOMAIN is = 1..Len(is) /\ Len(is) \in 0..MaxInsts
         /\ \A n \in 1..Len(is) : is[n] \in Inst /\ No(is, is[n]) = n /\ list.block[is[n]] # NONE
         /\ \A i \in Inst : list.block[i] # NONE => No(is, i) \in 1..Len(is) /\ is[No(is, i)] = i
         /\ No(is, NONE) = NONE
<1>1. /\ is \in Seq(Inst) /\ Distinct(is)
      /\ \A i \in Inst : Has(is, i) <=> list.block[i] # NONE
      /\ Len(is) \in 0..MaxInsts /\ DOMAIN is = 1..Len(is)
  BY InstOrderFacts
<1>2. /\ \A x : Has(is, x) => No(is, x) \in 1..Len(is) /\ is[No(is, x)] = x
      /\ \A n \in 1..Len(is) : No(is, is[n]) = n /\ Has(is, is[n]) /\ is[n] \in Inst
      /\ No(is, NONE) = NONE
  BY <1>1, NoneIsNothing, NoFacts
<1> QED BY <1>1, <1>2

LEMMA ValueNumbers ==
  ASSUME BodyInv, NEW vs, vs = NewValues
  PROVE  /\ vs \in Seq(Value) /\ Distinct(vs) /\ DOMAIN vs = 1..Len(vs) /\ Len(vs) \in 0..MaxValues
         /\ \A n \in 1..Len(vs) : vs[n] \in Value /\ No(vs, vs[n]) = n
         /\ \A b \in live : \A k \in DOMAIN params[b] :
               No(vs, params[b][k]) \in 1..Len(vs) /\ vs[No(vs, params[b][k])] = params[b][k]
         /\ \A i \in Inst : list.block[i] # NONE =>
               No(vs, result[i]) \in 1..Len(vs) /\ vs[No(vs, result[i])] = result[i]
         /\ \A b \in live : \A e \in DOMAIN edges[b] : \A k \in DOMAIN edges[b][e].args :
               No(vs, edges[b][e].args[k]) \in 1..Len(vs)
<1>1. /\ vs \in Seq(Value) /\ Distinct(vs)
      /\ Len(vs) \in 0..MaxValues /\ DOMAIN vs = 1..Len(vs)
      /\ \A b \in live : \A k \in DOMAIN params[b] : Has(vs, params[b][k])
      /\ \A i \in Inst : list.block[i] # NONE => Has(vs, result[i])
      /\ \A b \in live : \A e \in DOMAIN edges[b] : \A k \in DOMAIN edges[b][e].args :
               Has(vs, edges[b][e].args[k])
  BY NewValueNumbers
<1>2. /\ \A x : Has(vs, x) => No(vs, x) \in 1..Len(vs) /\ vs[No(vs, x)] = x
      /\ \A n \in 1..Len(vs) : No(vs, vs[n]) = n /\ vs[n] \in Value
  BY <1>1, NoneIsNothing, NoFacts
<1> QED BY <1>1, <1>2

LEMMA CompactLists ==
  ASSUME BodyInv, Compact
  PROVE  ListsOK' /\ Renumbered(list, list', InstOrder, NewBlocks)
<1> USE NoneIsNothing
<1> DEFINE bs == NewBlocks
           is == InstOrder
           m == list'
<1>1. /\ arena' = [blocks |-> Len(bs), insts |-> Len(is), values |-> Len(NewValues)]
      /\ live' = DOMAIN BlockOrder
      /\ list' = [first |-> [n \in Block |-> IF n \in DOMAIN bs THEN No(is, list.first[bs[n]]) ELSE NONE],
                  last  |-> [n \in Block |-> IF n \in DOMAIN bs THEN No(is, list.last[bs[n]]) ELSE NONE],
                  prev  |-> [n \in Inst |-> IF n \in DOMAIN is THEN No(is, list.prev[is[n]]) ELSE NONE],
                  next  |-> [n \in Inst |-> IF n \in DOMAIN is THEN No(is, list.next[is[n]]) ELSE NONE],
                  block |-> [n \in Inst |-> IF n \in DOMAIN is THEN No(bs, list.block[is[n]]) ELSE NONE]]
  BY CompactFields
<1>2. /\ bs \in Seq(Block) /\ Distinct(bs) /\ DOMAIN bs = 1..Len(bs) /\ Len(bs) \in Block
      /\ \A n \in 1..Len(bs) : bs[n] \in Block
      /\ \A b \in live : No(bs, b) \in DOMAIN BlockOrder /\ No(bs, b) \in 1..Len(bs)
                         /\ bs[No(bs, b)] = b
  BY BlockNumbers
<1>3. /\ is \in Seq(Inst) /\ Distinct(is) /\ DOMAIN is = 1..Len(is) /\ Len(is) \in 0..MaxInsts
      /\ \A n \in 1..Len(is) : is[n] \in Inst /\ list.block[is[n]] # NONE
      /\ \A i \in Inst : list.block[i] # NONE => No(is, i) \in 1..Len(is) /\ is[No(is, i)] = i
      /\ No(is, NONE) = NONE
  BY InstNumbers
<1> HIDE DEF bs, is
<1>4. /\ Sound(list)
      /\ \A j \in Inst : list.block[j] # NONE => list.block[j] \in live
      /\ EndsFit(list) /\ LinksFit(list)
      /\ list.first \in [Block -> Inst \cup {NONE}] /\ list.last \in [Block -> Inst \cup {NONE}]
      /\ list.prev \in [Inst -> Inst \cup {NONE}] /\ list.next \in [Inst -> Inst \cup {NONE}]
  BY DEF BodyInv, ListsOK, Sound, ListType
<1>5. 1..Len(bs) \subseteq Block /\ 1..Len(is) \subseteq Inst
  BY <1>2, <1>3, Bounds DEF Block, Inst
<1>6. \A i \in Inst \cup {NONE} : (i # NONE => list.block[i] # NONE) => Names(is, No(is, i), i)
  BY <1>3 DEF Names
<1>7. ASSUME NEW c \in 1..Len(bs)
      PROVE  Names(is, m.first[c], list.first[bs[c]]) /\ Names(is, m.last[c], list.last[bs[c]])
  <2> DEFINE f == list.first[bs[c]]
             l == list.last[bs[c]]
  <2>1. m.first[c] = No(is, f) /\ m.last[c] = No(is, l) BY <1>1, <1>2, <1>5
  <2>2. bs[c] \in Block BY <1>2
  <2>3. f \in Inst \cup {NONE} /\ l \in Inst \cup {NONE} BY <1>4, <2>2
  <2>4. (f # NONE => list.block[f] # NONE) /\ (l # NONE => list.block[l] # NONE)
    BY <1>4, <2>2 DEF EndsFit
  <2> HIDE DEF f, l
  <2>5. Names(is, No(is, f), f) /\ Names(is, No(is, l), l) BY <1>6, <2>3, <2>4
  <2> QED BY <2>1, <2>5 DEF f, l
<1>8. ASSUME NEW n \in 1..Len(is)
      PROVE  /\ Names(bs, m.block[n], list.block[is[n]])
             /\ Names(is, m.prev[n], list.prev[is[n]]) /\ Names(is, m.next[n], list.next[is[n]])
             /\ m.block[n] \in DOMAIN BlockOrder
  <2> DEFINE i == is[n]
             p == list.prev[i]
             x == list.next[i]
  <2>1. m.prev[n] = No(is, p) /\ m.next[n] = No(is, x) /\ m.block[n] = No(bs, list.block[i])
    BY <1>1, <1>3, <1>5
  <2>2. i \in Inst /\ list.block[i] # NONE /\ list.block[i] \in live BY <1>3, <1>4
  <2> HIDE DEF i
  <2>3. p \in Inst \cup {NONE} /\ x \in Inst \cup {NONE} BY <1>4, <2>2
  <2>4. (p # NONE => list.block[p] # NONE) /\ (x # NONE => list.block[x] # NONE)
    BY <1>4, <2>2 DEF LinksFit
  <2> HIDE DEF p, x
  <2>5. Names(is, No(is, p), p) /\ Names(is, No(is, x), x) BY <1>6, <2>3, <2>4
  <2>6. Names(bs, No(bs, list.block[i]), list.block[i]) /\ No(bs, list.block[i]) \in DOMAIN BlockOrder
    BY <1>2, <2>2 DEF Names
  <2> QED BY <2>1, <2>5, <2>6 DEF i, p, x
<1>9. /\ \A n \in Inst : n \notin 1..Len(is) =>
            m.block[n] = NONE /\ m.prev[n] = NONE /\ m.next[n] = NONE
      /\ \A c \in Block : c \notin 1..Len(bs) => m.first[c] = NONE /\ m.last[c] = NONE
  BY <1>1, <1>2, <1>3
<1>10. ListType(m)
  <2>2. \A n \in Inst : m.prev[n] \in Inst \cup {NONE} /\ m.next[n] \in Inst \cup {NONE}
                        /\ m.block[n] \in Block \cup {NONE}
    BY <1>5, <1>8, <1>9 DEF Names
  <2>3. \A c \in Block : m.first[c] \in Inst \cup {NONE} /\ m.last[c] \in Inst \cup {NONE}
    BY <1>5, <1>7, <1>9 DEF Names
  <2>4. m = [first |-> m.first, last |-> m.last, prev |-> m.prev, next |-> m.next, block |-> m.block]
        /\ m.first = [c \in Block |-> m.first[c]] /\ m.last = [c \in Block |-> m.last[c]]
        /\ m.prev = [n \in Inst |-> m.prev[n]] /\ m.next = [n \in Inst |-> m.next[n]]
        /\ m.block = [n \in Inst |-> m.block[n]]
    BY <1>1
  <2>5. /\ m.first \in [Block -> Inst \cup {NONE}] /\ m.last \in [Block -> Inst \cup {NONE}]
        /\ m.prev \in [Inst -> Inst \cup {NONE}] /\ m.next \in [Inst -> Inst \cup {NONE}]
        /\ m.block \in [Inst -> Block \cup {NONE}]
    BY <2>2, <2>3, <2>4
  <2> QED BY <2>4, <2>5 DEF ListType
<1> HIDE DEF m
<1>11. Renumbered(list, m, is, bs) BY <1>7, <1>8, <1>9 DEF Renumbered
<1>12. Sound(m) BY <1>2, <1>3, <1>4, <1>10, <1>11, RenumberedSound
<1>13. ASSUME NEW n \in Inst, m.block[n] # NONE PROVE n <= arena'.insts /\ m.block[n] \in live'
  <2>1. n \in 1..Len(is) BY <1>9, <1>13
  <2> QED BY <1>1, <1>3, <1>8, <2>1 DEF Inst
<1>14. ListsOK' BY <1>12, <1>13 DEF ListsOK, m
<1>15. Renumbered(list, list', InstOrder, NewBlocks) BY <1>11 DEF m, is, bs
<1> QED BY <1>14, <1>15

LEMMA CompactValues == ASSUME BodyInv, Compact PROVE ParamsOK' /\ ResultOK'
<1> USE NoneIsNothing
<1> DEFINE bs == NewBlocks
           is == InstOrder
           vs == NewValues
<1>1. /\ arena'.values = Len(vs) /\ live' = DOMAIN BlockOrder
      /\ params' = [n \in Block |-> IF n \in DOMAIN bs
                THEN [k \in DOMAIN params[bs[n]] |-> No(vs, params[bs[n]][k])] ELSE <<>>]
      /\ result' = [n \in Inst |-> IF n \in DOMAIN is THEN No(vs, result[is[n]]) ELSE NONE]
      /\ list'.block = [n \in Inst |-> IF n \in DOMAIN is THEN No(bs, list.block[is[n]]) ELSE NONE]
  BY CompactFields
<1>2. /\ DOMAIN bs = 1..Len(bs) /\ \A n \in 1..Len(bs) : bs[n] \in Block
      /\ \A n \in 1..Len(bs) : bs[n] \in live <=> n \in DOMAIN BlockOrder
  BY BlockNumbers
<1>3. DOMAIN is = 1..Len(is) /\ \A n \in 1..Len(is) : is[n] \in Inst /\ list.block[is[n]] # NONE
  BY InstNumbers
<1>4. /\ Len(vs) \in 0..MaxValues
      /\ \A b \in live : \A k \in DOMAIN params[b] : No(vs, params[b][k]) \in 1..Len(vs)
      /\ \A i \in Inst : list.block[i] # NONE => No(vs, result[i]) \in 1..Len(vs)
  BY ValueNumbers
<1>5. Len(vs) \in Nat BY <1>4, Bounds
<1> HIDE DEF bs, is, vs
<1>6. ASSUME NEW n \in Block, n \in DOMAIN bs, bs[n] \in live PROVE params'[n] \in Seq(1..Len(vs))
  <2> DEFINE p == params[bs[n]]
             q == [k \in DOMAIN p |-> No(vs, p[k])]
  <2>1. Len(p) \in Nat /\ DOMAIN p = 1..Len(p) BY <1>2, <1>6, ValueFacts
  <2>2. \A k \in DOMAIN p : No(vs, p[k]) \in 1..Len(vs) BY <1>4, <1>6
  <2> HIDE DEF p
  <2>3. q \in [1..Len(p) -> 1..Len(vs)] BY <2>1, <2>2
  <2> HIDE DEF q
  <2>4. q \in Seq(1..Len(vs)) BY <2>1, <2>3, FunctionSeq
  <2>5. params'[n] = q BY <1>1, <1>6 DEF p, q
  <2> QED BY <2>4, <2>5
<1>7. ASSUME NEW n \in Block, ~(n \in DOMAIN bs /\ bs[n] \in live) PROVE params'[n] = <<>>
  <2>1. CASE n \notin DOMAIN bs BY <1>1, <2>1
  <2>2. CASE n \in DOMAIN bs /\ bs[n] \notin live
    <3>1. params[bs[n]] = <<>> BY <1>2, <2>2 DEF BodyInv, ParamsOK
    <3>2. params'[n] = [k \in DOMAIN params[bs[n]] |-> No(vs, params[bs[n]][k])] BY <1>1, <2>2
    <3>3. DOMAIN params[bs[n]] = {} BY <3>1
    <3> QED BY <3>2, <3>3
  <2> QED BY <1>7, <2>1, <2>2
<1>8. ParamsOK'
  <2>1. <<>> \in Seq(1..Len(vs)) BY EmptySeq
  <2>2. \A n \in Block : params'[n] \in Seq(1..Len(vs)) BY <1>6, <1>7, <2>1
  <2>3. params' = [n \in Block |-> params'[n]] BY <1>1
  <2>4. params' \in [Block -> Seq(1..Len(vs))] BY <2>2, <2>3
  <2>5. \A n \in Block \ live' : params'[n] = <<>> BY <1>1, <1>2, <1>7
  <2> QED BY <1>1, <2>4, <2>5 DEF ParamsOK
<1>9. ResultOK'
  <2>1. \A n \in Inst : n \in DOMAIN is => result'[n] \in 1..Len(vs) BY <1>1, <1>3, <1>4
  <2>2. \A n \in Inst : n \notin DOMAIN is => result'[n] = NONE /\ list'.block[n] = NONE BY <1>1
  <2>3. NONE \in 0..Len(vs) /\ 1..Len(vs) \subseteq 0..Len(vs) /\ NONE \notin 1..Len(vs)
    BY <1>5 DEF NONE
  <2>4. result' = [n \in Inst |-> result'[n]] BY <1>1
  <2>5. result' \in [Inst -> 0..Len(vs)] BY <2>1, <2>2, <2>3, <2>4
  <2>6. \A n \in Inst : list'.block[n] # NONE => result'[n] # NONE BY <2>1, <2>2, <2>3
  <2> QED BY <1>1, <2>5, <2>6 DEF ResultOK
<1> QED BY <1>8, <1>9

LEMMA CompactDefs == ASSUME BodyInv, Compact PROVE DefOK'
<1> USE NoneIsNothing
<1> DEFINE bs == NewBlocks
           is == InstOrder
           vs == NewValues
<1>1. /\ params' = [n \in Block |-> IF n \in DOMAIN bs
                THEN [k \in DOMAIN params[bs[n]] |-> No(vs, params[bs[n]][k])] ELSE <<>>]
      /\ result' = [n \in Inst |-> IF n \in DOMAIN is THEN No(vs, result[is[n]]) ELSE NONE]
      /\ list'.block = [n \in Inst |-> IF n \in DOMAIN is THEN No(bs, list.block[is[n]]) ELSE NONE]
      /\ def' = [n \in Value |-> IF n \in DOMAIN vs
                THEN Redefined(bs, is, def[vs[n]])
                ELSE Detached]
  BY CompactFields
<1>2. /\ DOMAIN bs = 1..Len(bs) /\ Len(bs) \in Block
      /\ \A n \in 1..Len(bs) : bs[n] \in Block /\ No(bs, bs[n]) = n
      /\ \A b \in live : No(bs, b) \in 1..Len(bs) /\ bs[No(bs, b)] = b
  BY BlockNumbers
<1>3. /\ DOMAIN is = 1..Len(is) /\ Len(is) \in 0..MaxInsts
      /\ \A n \in 1..Len(is) : is[n] \in Inst /\ No(is, is[n]) = n /\ list.block[is[n]] # NONE
      /\ \A i \in Inst : list.block[i] # NONE => No(is, i) \in 1..Len(is) /\ is[No(is, i)] = i
  BY InstNumbers
<1>4. /\ DOMAIN vs = 1..Len(vs) /\ Len(vs) \in 0..MaxValues
      /\ \A n \in 1..Len(vs) : vs[n] \in Value /\ No(vs, vs[n]) = n
      /\ \A b \in live : \A k \in DOMAIN params[b] :
            No(vs, params[b][k]) \in 1..Len(vs) /\ vs[No(vs, params[b][k])] = params[b][k]
      /\ \A i \in Inst : list.block[i] # NONE =>
            No(vs, result[i]) \in 1..Len(vs) /\ vs[No(vs, result[i])] = result[i]
  BY ValueNumbers
<1> HIDE DEF bs, is, vs
<1>5. 1..Len(bs) \subseteq Block /\ 1..Len(is) \subseteq Inst /\ 1..Len(vs) \subseteq Value
  BY <1>2, <1>3, <1>4, Bounds DEF Block, Inst, Value
<1>6. /\ \A b \in Block : \A k \in DOMAIN params[b] : def[params[b][k]] = ParamOf(b, k)
      /\ \A i \in Inst : list.block[i] # NONE => def[result[i]] = ResultOf(i)
      /\ \A v \in Value : \/ def[v] = Detached
                          \/ \E b \in Block : \E k \in DOMAIN params[b] : params[b][k] = v
                          \/ \E i \in Inst : list.block[i] # NONE /\ result[i] = v
      /\ \A b \in Block : b \notin live => params[b] = <<>>
      /\ \A i \in Inst : list.block[i] # NONE => list.block[i] \in live
      /\ live \subseteq Block
  BY PosFacts DEF BodyInv, DefOK, ParamsOK, ListsOK
<1>k. /\ \A c, m : ParamOf(c, m).kind = "param" /\ ParamOf(c, m).of = c /\ ParamOf(c, m).index = m
      /\ \A c : ResultOf(c).kind = "result" /\ ResultOf(c).of = c
      /\ Detached.kind = "detached"
  BY DEF ParamOf, ResultOf, Detached
<1>r. /\ \A d : d.kind = "param" => Redefined(bs, is, d) = ParamOf(No(bs, d.of), d.index)
      /\ \A d : d.kind = "result" => Redefined(bs, is, d) = ResultOf(No(is, d.of))
      /\ \A d : d.kind = "detached" => Redefined(bs, is, d) = Detached
  BY DEF Redefined
<1>7. ASSUME NEW b \in live, NEW k \in DOMAIN params[b]
      PROVE  /\ No(bs, b) \in 1..Len(bs) /\ No(vs, params[b][k]) \in 1..Len(vs)
             /\ k \in DOMAIN params'[No(bs, b)]
             /\ params'[No(bs, b)][k] = No(vs, params[b][k])
             /\ def'[No(vs, params[b][k])] = ParamOf(No(bs, b), k)
  <2> DEFINE c == No(bs, b)
             n == No(vs, params[b][k])
  <2>1. c \in 1..Len(bs) /\ bs[c] = b /\ n \in 1..Len(vs) /\ vs[n] = params[b][k]
    BY <1>2, <1>4
  <2>2. c \in Block /\ n \in Value /\ b \in Block BY <1>5, <1>6, <2>1
  <2> HIDE DEF c
  <2>3. params'[c] = [j \in DOMAIN params[b] |-> No(vs, params[b][j])] BY <1>1, <1>2, <2>1, <2>2
  <2>4. k \in DOMAIN params'[c] /\ params'[c][k] = n BY <2>3
  <2> HIDE DEF n
  <2>5. def[vs[n]] = ParamOf(b, k) BY <1>6, <2>1, <2>2
  <2>6. def[vs[n]].kind = "param" /\ def[vs[n]].of = b /\ def[vs[n]].index = k BY <1>k, <2>5
  <2>7. def'[n] = ParamOf(No(bs, b), k) BY <1>1, <1>4, <1>r, <2>1, <2>2, <2>6
  <2> QED BY <2>1, <2>4, <2>7 DEF c, n
<1>8. ASSUME NEW i \in Inst, list.block[i] # NONE
      PROVE  /\ No(is, i) \in Inst /\ list'.block[No(is, i)] # NONE
             /\ No(vs, result[i]) \in 1..Len(vs) /\ result'[No(is, i)] = No(vs, result[i])
             /\ def'[No(vs, result[i])] = ResultOf(No(is, i))
  <2> DEFINE j == No(is, i)
             n == No(vs, result[i])
  <2>1. j \in 1..Len(is) /\ is[j] = i /\ n \in 1..Len(vs) /\ vs[n] = result[i]
    BY <1>3, <1>4, <1>8
  <2>2. j \in Inst /\ n \in Value BY <1>5, <2>1
  <2>3. result'[j] = n /\ list'.block[j] = No(bs, list.block[i])
    <3> HIDE DEF j
    <3> QED BY <1>1, <1>3, <2>1, <2>2
  <2>4. list'.block[j] # NONE
    <3>1. No(bs, list.block[i]) \in 1..Len(bs) BY <1>2, <1>6, <1>8
    <3>2. No(bs, list.block[i]) \in Block BY <1>5, <3>1
    <3> QED BY <2>3, <3>2
  <2> HIDE DEF j, n
  <2>5. def[vs[n]] = ResultOf(i) BY <1>6, <1>8, <2>1
  <2>6. def[vs[n]].kind = "result" /\ def[vs[n]].of = i BY <1>k, <2>5
  <2>7. def'[n] = ResultOf(No(is, i)) BY <1>1, <1>4, <1>r, <2>1, <2>2, <2>6
  <2> QED BY <2>1, <2>2, <2>3, <2>4, <2>7 DEF j, n
<1>9. ASSUME NEW n \in Value
      PROVE  \/ def'[n] = Detached
             \/ \E b \in live : \E k \in DOMAIN params[b] : n = No(vs, params[b][k])
             \/ \E i \in Inst : list.block[i] # NONE /\ n = No(vs, result[i])
  <2>1. CASE n \notin DOMAIN vs BY <1>1, <2>1
  <2>2. CASE n \in DOMAIN vs
    <3> DEFINE v == vs[n]
    <3>1. v \in Value /\ No(vs, v) = n BY <1>4, <2>2
    <3>2. CASE def[v] = Detached
      <4>1. def[vs[n]].kind = "detached" BY <1>k, <3>2
      <4> QED BY <1>1, <1>r, <2>2, <4>1
    <3>3. CASE \E b \in Block : \E k \in DOMAIN params[b] : params[b][k] = v
      <4>1. PICK b \in Block : \E k \in DOMAIN params[b] : params[b][k] = v BY <3>3
      <4>2. b \in live BY <1>6, <4>1
      <4> QED BY <3>1, <4>1, <4>2
    <3>4. CASE \E i \in Inst : list.block[i] # NONE /\ result[i] = v BY <3>1, <3>4
    <3> HIDE DEF v
    <3> QED BY <1>6, <3>1, <3>2, <3>3, <3>4
  <2> QED BY <2>1, <2>2
<1>10. ASSUME NEW c \in Block, NEW k \in DOMAIN params'[c]
       PROVE  c \in 1..Len(bs) /\ bs[c] \in live /\ k \in DOMAIN params[bs[c]]
  <2>1. c \in DOMAIN bs BY <1>1, <1>10
  <2>2. params'[c] = [j \in DOMAIN params[bs[c]] |-> No(vs, params[bs[c]][j])] BY <1>1, <2>1
  <2>3. k \in DOMAIN params[bs[c]] BY <1>10, <2>2
  <2>4. bs[c] \in Block BY <1>2, <2>1
  <2>5. bs[c] \in live BY <1>6, <2>3, <2>4
  <2> QED BY <1>2, <2>1, <2>3, <2>5
<1>11. def' \in [Value -> Def]
  <2>1. ASSUME NEW n \in Value PROVE def'[n] \in Def
    <3>1. CASE def'[n] = Detached BY <3>1, KindsDiffer
    <3>2. CASE \E b \in live : \E k \in DOMAIN params[b] : n = No(vs, params[b][k])
      <4>1. PICK b \in live : \E k \in DOMAIN params[b] : n = No(vs, params[b][k]) BY <3>2
      <4>2. PICK k \in DOMAIN params[b] : n = No(vs, params[b][k]) BY <4>1
      <4>3. def'[n] = ParamOf(No(bs, b), k) /\ No(bs, b) \in 1..Len(bs) BY <1>7, <4>2
      <4>4. No(bs, b) \in Nat /\ k \in Nat
        <5>1. b \in Block BY <1>6
        <5>2. DOMAIN params[b] = 1..Len(params[b]) BY <5>1, ValueFacts
        <5> QED BY <4>2, <4>3, <5>2
      <4> QED BY <4>3, <4>4, KindsDiffer
    <3>3. CASE \E i \in Inst : list.block[i] # NONE /\ n = No(vs, result[i])
      <4>1. PICK i \in Inst : list.block[i] # NONE /\ n = No(vs, result[i]) BY <3>3
      <4>2. def'[n] = ResultOf(No(is, i)) /\ No(is, i) \in Inst BY <1>8, <4>1
      <4>3. No(is, i) \in Nat /\ 1 \in Nat BY <4>2 DEF Inst
      <4> QED BY <4>2, <4>3, KindsDiffer
    <3> QED BY <1>9, <3>1, <3>2, <3>3
  <2>2. def' = [n \in Value |-> def'[n]] BY <1>1
  <2> QED BY <2>1, <2>2
<1>12. ASSUME NEW c \in Block, NEW k \in DOMAIN params'[c] PROVE def'[params'[c][k]] = ParamOf(c, k)
  <2> DEFINE b == bs[c]
  <2>1. c \in 1..Len(bs) /\ b \in live /\ k \in DOMAIN params[b] BY <1>10
  <2>2. No(bs, b) = c BY <1>2, <2>1
  <2> HIDE DEF b
  <2>3. params'[No(bs, b)][k] = No(vs, params[b][k])
        /\ def'[No(vs, params[b][k])] = ParamOf(No(bs, b), k)
    BY <1>7, <2>1
  <2> QED BY <2>2, <2>3
<1>13. ASSUME NEW j \in Inst, list'.block[j] # NONE PROVE def'[result'[j]] = ResultOf(j)
  <2> DEFINE i == is[j]
  <2>1. j \in 1..Len(is) BY <1>1, <1>3, <1>13
  <2>2. i \in Inst /\ No(is, i) = j /\ list.block[i] # NONE BY <1>3, <2>1
  <2> HIDE DEF i
  <2>3. result'[No(is, i)] = No(vs, result[i]) /\ def'[No(vs, result[i])] = ResultOf(No(is, i))
    BY <1>8, <2>2
  <2> QED BY <2>2, <2>3
<1>14. ASSUME NEW n \in Value
       PROVE  \/ def'[n] = Detached
              \/ \E c \in Block : \E k \in DOMAIN params'[c] : params'[c][k] = n
              \/ \E j \in Inst : list'.block[j] # NONE /\ result'[j] = n
  <2>1. CASE \E b \in live : \E k \in DOMAIN params[b] : n = No(vs, params[b][k])
    <3>1. PICK b \in live : \E k \in DOMAIN params[b] : n = No(vs, params[b][k]) BY <2>1
    <3>2. PICK k \in DOMAIN params[b] : n = No(vs, params[b][k]) BY <3>1
    <3> DEFINE c == No(bs, b)
    <3>3. c \in Block /\ k \in DOMAIN params'[c] /\ params'[c][k] = n BY <1>5, <1>7, <3>2
    <3> HIDE DEF c
    <3> QED BY <3>3
  <2>2. CASE \E i \in Inst : list.block[i] # NONE /\ n = No(vs, result[i])
    <3>1. PICK i \in Inst : list.block[i] # NONE /\ n = No(vs, result[i]) BY <2>2
    <3> DEFINE j == No(is, i)
    <3>2. j \in Inst /\ list'.block[j] # NONE /\ result'[j] = n BY <1>8, <3>1
    <3> HIDE DEF j
    <3> QED BY <3>2
  <2> QED BY <1>9, <2>1, <2>2
<1> QED BY <1>11, <1>12, <1>13, <1>14 DEF DefOK

LEMMA CompactEdges == ASSUME BodyInv, DeadEdgesGone, Compact PROVE EdgesOK' /\ DeadEdgesGone'
<1> DEFINE bs == NewBlocks
           vs == NewValues
           R == [to : 1..Len(bs), args : Seq(1..Len(vs))]
<1>1. /\ arena'.values = Len(vs) /\ arena'.blocks = Len(bs) /\ live' = DOMAIN BlockOrder
      /\ edges' = [n \in Block |-> IF n \in DOMAIN bs
                THEN [e \in DOMAIN edges[bs[n]] |->
                        [to |-> No(bs, edges[bs[n]][e].to),
                         args |-> [k \in DOMAIN edges[bs[n]][e].args |->
                                     No(vs, edges[bs[n]][e].args[k])]]]
                ELSE <<>>]
  BY CompactFields
<1>2. /\ DOMAIN bs = 1..Len(bs)
      /\ \A n \in 1..Len(bs) : bs[n] \in Block
      /\ \A n \in 1..Len(bs) : bs[n] \in live <=> n \in DOMAIN BlockOrder
      /\ \A b \in live : \A e \in DOMAIN edges[b] : No(bs, edges[b][e].to) \in 1..Len(bs)
  BY BlockNumbers
<1>3. \A b \in live : \A e \in DOMAIN edges[b] : \A k \in DOMAIN edges[b][e].args :
               No(vs, edges[b][e].args[k]) \in 1..Len(vs)
  BY ValueNumbers
<1> HIDE DEF bs, vs
<1>4. ASSUME NEW n \in Block, ~(n \in DOMAIN bs /\ bs[n] \in live) PROVE edges'[n] = <<>>
  <2>1. CASE n \notin DOMAIN bs BY <1>1, <2>1
  <2>2. CASE n \in DOMAIN bs /\ bs[n] \notin live
    <3>1. edges[bs[n]] = <<>> BY <1>2, <2>2 DEF DeadEdgesGone
    <3>2. DOMAIN edges[bs[n]] = {} BY <3>1
    <3>3. edges'[n] = [e \in DOMAIN edges[bs[n]] |->
                        [to |-> No(bs, edges[bs[n]][e].to),
                         args |-> [k \in DOMAIN edges[bs[n]][e].args |->
                                     No(vs, edges[bs[n]][e].args[k])]]]
      BY <1>1, <2>2
    <3> QED BY <3>2, <3>3
  <2> QED BY <1>4, <2>1, <2>2
<1>5. ASSUME NEW n \in Block, n \in DOMAIN bs, bs[n] \in live PROVE edges'[n] \in Seq(R)
  <2> DEFINE b == bs[n]
             new(e) == [to |-> No(bs, edges[b][e].to),
                        args |-> [k \in DOMAIN edges[b][e].args |-> No(vs, edges[b][e].args[k])]]
             q == [e \in DOMAIN edges[b] |-> new(e)]
  <2>1. edges'[n] = q BY <1>1, <1>5
  <2>2. b \in live /\ b \in Block BY <1>2, <1>5
  <2> HIDE DEF b
  <2>3. Len(edges[b]) \in Nat /\ DOMAIN edges[b] = 1..Len(edges[b]) BY <2>2, EdgeFacts
  <2>4. ASSUME NEW e \in DOMAIN edges[b] PROVE new(e) \in R
    <3> DEFINE a == edges[b][e].args
               c == [k \in DOMAIN a |-> No(vs, a[k])]
    <3>1. a \in Seq(1..arena.values) BY <2>2, EdgeFacts
    <3>2. Len(a) \in Nat /\ DOMAIN a = 1..Len(a) BY <3>1, LenProperties
    <3>3. \A k \in DOMAIN a : No(vs, a[k]) \in 1..Len(vs) BY <1>3, <2>2
    <3> HIDE DEF a
    <3>4. c \in [1..Len(a) -> 1..Len(vs)] BY <3>2, <3>3
    <3> HIDE DEF c
    <3>5. c \in Seq(1..Len(vs)) BY <3>2, <3>4, FunctionSeq
    <3>6. No(bs, edges[b][e].to) \in 1..Len(bs) BY <1>2, <2>2
    <3>7. new(e) = [to |-> No(bs, edges[b][e].to), args |-> c] BY DEF a, c
    <3> QED BY <3>5, <3>6, <3>7
  <2> HIDE DEF new, R
  <2>5. q \in [1..Len(edges[b]) -> R] BY <2>3, <2>4
  <2> HIDE DEF q
  <2>6. q \in Seq(R) BY <2>3, <2>5, FunctionSeq
  <2> QED BY <2>1, <2>6
<1> HIDE DEF R
<1>6. <<>> \in Seq(R) BY EmptySeq
<1>7. \A n \in Block : edges'[n] \in Seq(R) BY <1>4, <1>5, <1>6
<1>8. edges' = [n \in Block |-> edges'[n]] BY <1>1
<1>9. edges' \in [Block -> Seq(R)] BY <1>7, <1>8
<1>10. EdgesOK' BY <1>1, <1>9 DEF EdgesOK, R
<1>11. DeadEdgesGone' BY <1>1, <1>2, <1>4 DEF DeadEdgesGone
<1> QED BY <1>10, <1>11

LEMMA CompactInv == ASSUME BodyInv, DeadEdgesGone, Compact PROVE BodyInv'
<1> DEFINE bs == NewBlocks
<1>1. /\ arena' = [blocks |-> Len(bs), insts |-> Len(InstOrder), values |-> Len(NewValues)]
      /\ live' = DOMAIN BlockOrder /\ ended' = {n \in live' : bs[n] \in ended} /\ pos' = End(Entry)
  BY CompactFields
<1>2. /\ Len(bs) \in Block /\ DOMAIN BlockOrder \subseteq 1..Len(bs) /\ Entry \in DOMAIN BlockOrder
  BY BlockNumbers
<1>3. Len(InstOrder) \in 0..MaxInsts /\ Len(NewValues) \in 0..MaxValues BY InstNumbers, ValueNumbers
<1> HIDE DEF bs
<1>4. ArenaOK' BY <1>1, <1>2, <1>3 DEF ArenaOK
<1>5. LiveOK' BY <1>1, <1>2 DEF LiveOK
<1>6. PosOK' BY <1>1, <1>2 DEF PosOK
<1>7. ListsOK' /\ ParamsOK' /\ ResultOK' /\ DefOK' /\ EdgesOK'
  BY CompactLists, CompactValues, CompactDefs, CompactEdges
<1> QED BY <1>4, <1>5, <1>6, <1>7 DEF BodyInv

------------------------------------------------------------------------------
(***************************************************************************)
(* Each step keeps the inductive invariant.                                *)
(***************************************************************************)
LEMMA MoreLive ==
  ASSUME DeadEdgesGone, edges' = edges, live \subseteq live'
  PROVE  DeadEdgesGone'
BY DEF DeadEdgesGone

\* An edge list of the same length is as empty as before.
LEMMA SameLength ==
  ASSUME DeadEdgesGone, live' = live,
         \A c \in Block : \E q : edges'[c] = [e \in DOMAIN edges[c] |-> q[e]]
  PROVE  DeadEdgesGone'
<1>1. ASSUME NEW c \in Block, c \notin live' PROVE edges'[c] = <<>>
  <2>1. edges[c] = <<>> BY <1>1 DEF DeadEdgesGone
  <2>2. DOMAIN edges[c] = {} BY <2>1
  <2>3. PICK q : edges'[c] = [e \in DOMAIN edges[c] |-> q[e]] OBVIOUS
  <2> QED BY <2>2, <2>3
<1> QED BY <1>1 DEF DeadEdgesGone

LEMMA RemoveBlockDead == ASSUME BodyInv, DeadEdgesGone, NEW b, RemoveBlock(b) PROVE DeadEdgesGone'
<1>1. edges' = [edges EXCEPT ![b] = <<>>] /\ live' = live \ {b} BY DEF RemoveBlock
<1>2. DOMAIN edges = Block BY DEF BodyInv, EdgesOK
<1> QED BY <1>1, <1>2 DEF DeadEdgesGone

LEMMA RemoveTerminatorDead ==
  ASSUME BodyInv, DeadEdgesGone, NEW b, RemoveTerminator(b) PROVE DeadEdgesGone'
<1>1. edges' = [edges EXCEPT ![b] = <<>>] /\ live' = live BY DEF RemoveTerminator
<1>2. DOMAIN edges = Block BY DEF BodyInv, EdgesOK
<1> QED BY <1>1, <1>2 DEF DeadEdgesGone

LEMMA SplitBlockDead == ASSUME BodyInv, DeadEdgesGone, NEW i, SplitBlock(i) PROVE DeadEdgesGone'
<1> DEFINE b == list.block[i]
           new == arena.blocks + 1
           jump == <<[to |-> new, args |-> <<>>]>>
<1>1. /\ i \in Inst /\ list.block[i] # NONE /\ live' = live \cup {new}
      /\ edges' = [edges EXCEPT ![new] = edges[b], ![b] = jump]
  BY DEF SplitBlock, Linked
<1>2. b \in live BY <1>1, FromFacts
<1>3. DOMAIN edges = Block BY DEF BodyInv, EdgesOK
<1> HIDE DEF b, new, jump
<1>4. ASSUME NEW c \in Block, c \notin live' PROVE edges'[c] = <<>>
  <2>1. c # b /\ c # new /\ c \notin live BY <1>1, <1>2, <1>4
  <2>2. edges'[c] = edges[c] BY <1>1, <1>3, <2>1
  <2> QED BY <2>1, <2>2 DEF DeadEdgesGone
<1> QED BY <1>4 DEF DeadEdgesGone

LEMMA SetTerminatorDead ==
  ASSUME BodyInv, DeadEdgesGone, NEW dests, SetTerminator(dests) PROVE DeadEdgesGone'
<1> DEFINE new == [k \in DOMAIN dests |-> [to |-> dests[k], args |-> params[dests[k]]]]
<1>1. CurrentBlock \in live /\ edges' = [edges EXCEPT ![CurrentBlock] = new] /\ live' = live
  BY DEF SetTerminator
<1> HIDE DEF new
<1>2. DOMAIN edges = Block BY DEF BodyInv, EdgesOK
<1> QED BY <1>1, <1>2 DEF DeadEdgesGone

LEMMA RemoveBlockParamDead ==
  ASSUME BodyInv, DeadEdgesGone, NEW b, NEW k, RemoveBlockParam(b, k) PROVE DeadEdgesGone'
<1> DEFINE q(c) == [e \in DOMAIN edges[c] |->
          [to |-> edges[c][e].to,
           args |-> IF edges[c][e].to = b THEN WithoutArg(edges[c][e].args, k) ELSE edges[c][e].args]]
<1>1. edges' = [c \in Block |-> q(c)] BY RemoveBlockParamFields
<1>2. live' = live BY DEF RemoveBlockParam
<1>3. \A c \in Block : q(c) = [e \in DOMAIN edges[c] |-> q(c)[e]] OBVIOUS
<1> HIDE DEF q
<1>4. \A c \in Block : edges'[c] = [e \in DOMAIN edges[c] |-> q(c)[e]] BY <1>1, <1>3
<1> QED BY <1>2, <1>4, SameLength

LEMMA RemoveBlockParamsDead ==
  ASSUME BodyInv, DeadEdgesGone, NEW vs, RemoveBlockParams(vs) PROVE DeadEdgesGone'
<1> DEFINE q(c) == [e \in DOMAIN edges[c] |->
                [to |-> edges[c][e].to,
                 args |-> IF Len(edges[c][e].args) = Len(params[edges[c][e].to])
                          THEN Without(edges[c][e].args, Gone(vs, edges[c][e].to))
                          ELSE edges[c][e].args]]
<1>1. edges' = [c \in Block |-> q(c)] /\ live' = live BY RemoveBlockParamsFields
<1>3. \A c \in Block : q(c) = [e \in DOMAIN edges[c] |-> q(c)[e]] OBVIOUS
<1> HIDE DEF q
<1>4. \A c \in Block : edges'[c] = [e \in DOMAIN edges[c] |-> q(c)[e]] BY <1>1, <1>3
<1> QED BY <1>1, <1>4, SameLength

Kept == BodyInv /\ DeadEdgesGone

LEMMA KeptByInsts ==
  ASSUME Kept, NEW i \in Linked,
         RemoveInst(i) \/ SplitBlock(i) \/ \E to \in Positions : MoveInst(i, to)
  PROVE  Kept'
<1> USE DEF Kept
<1>1. CASE RemoveInst(i)
  <2>1. edges' = edges /\ live' = live BY <1>1 DEF RemoveInst, flow
  <2> QED BY <1>1, <2>1, RemoveInstInv, MoreLive
<1>2. CASE SplitBlock(i) BY <1>2, SplitBlockInv, SplitBlockDead
<1>3. ASSUME NEW to \in Positions, MoveInst(i, to) PROVE Kept'
  <2>1. edges' = edges /\ live' = live BY <1>3 DEF MoveInst, flow
  <2> QED BY <1>3, <2>1, MoveInstInv, MoreLive
<1> HIDE DEF Kept
<1> QED BY <1>1, <1>2, <1>3

LEMMA KeptByBlocks ==
  ASSUME Kept, NEW b \in live,
         \/ AddBlockParam(b) \/ RemoveBlock(b) \/ RemoveTerminator(b)
         \/ \E k \in DOMAIN params[b] : RemoveBlockParam(b, k)
  PROVE  Kept'
<1> USE DEF Kept
<1>1. CASE AddBlockParam(b)
  <2>1. edges' = edges /\ live' = live BY <1>1 DEF AddBlockParam
  <2> QED BY <1>1, <2>1, AddBlockParamInv, MoreLive
<1>2. CASE RemoveBlock(b) BY <1>2, RemoveBlockInv, RemoveBlockDead
<1>3. CASE RemoveTerminator(b) BY <1>3, RemoveTerminatorInv, RemoveTerminatorDead
<1>4. ASSUME NEW k \in DOMAIN params[b], RemoveBlockParam(b, k) PROVE Kept'
  BY <1>4, RemoveBlockParamInv, RemoveBlockParamDead
<1> HIDE DEF Kept
<1> QED BY <1>1, <1>2, <1>3, <1>4

LEMMA BodyStep == ASSUME Kept, [Next]_vars PROVE Kept'
<1> USE DEF Kept
<1>1. CASE SetPosition
  <2>1. edges' = edges /\ live' = live BY <1>1 DEF SetPosition, flow
  <2> QED BY <1>1, <2>1, SetPositionInv, MoreLive
<1>2. CASE Insert
  <2>1. edges' = edges /\ live' = live BY <1>2 DEF Insert, flow
  <2> QED BY <1>2, <2>1, InsertInv, MoreLive
<1>3. ASSUME NEW k \in 0..MaxValues, CreateBlock(k) PROVE Kept'
  <2>1. edges' = edges /\ live \subseteq live' BY <1>3 DEF CreateBlock
  <2> QED BY <1>3, <2>1, CreateBlockInv, MoreLive
<1>4. ASSUME NEW vs \in SUBSET Value, RemoveBlockParams(vs) PROVE Kept'
  BY <1>4, RemoveBlockParamsInv, RemoveBlockParamsDead
<1>5. ASSUME NEW n \in 0..MaxEdges, NEW dests \in [1..n -> live], SetTerminator(dests) PROVE Kept'
  <2>1. n \in Nat BY BoundsAssumption
  <2> QED BY <1>5, <2>1, SetTerminatorInv, SetTerminatorDead
<1>6. CASE Compact BY <1>6, CompactInv, CompactEdges
<1>7. CASE UNCHANGED vars
  <2>1. edges' = edges /\ live' = live BY <1>7 DEF vars
  <2> QED BY <1>7, <2>1, StutterInv, MoreLive
<1> HIDE DEF Kept
<1> QED BY <1>1, <1>2, <1>3, <1>4, <1>5, <1>6, <1>7, KeptByInsts, KeptByBlocks DEF Next

LEMMA KeptAlways == Spec => []Kept
<1>1. Init => Kept
  <2>1. Init => DeadEdgesGone BY DEF Init, DeadEdgesGone
  <2> QED BY <2>1, InitBody DEF Kept
<1>2. Kept /\ [Next]_vars => Kept' BY BodyStep
<1> QED BY <1>1, <1>2, PTL DEF Spec

------------------------------------------------------------------------------
(***************************************************************************)
(* What follows of the properties.                                         *)
(***************************************************************************)
LEMMA TypesFollow == BodyInv => TypeOK
<1> SUFFICES ASSUME BodyInv PROVE TypeOK OBVIOUS
<1>1. /\ arena.insts \in Nat /\ arena.blocks \in Nat /\ arena.values \in Nat
      /\ 1..arena.blocks \subseteq Block /\ 1..arena.values \subseteq Value
      /\ arena \in [blocks : Block, insts : 0..MaxInsts, values : 0..MaxValues]
  BY ArenaFacts DEF BodyInv, ArenaOK
<1>2. /\ Sound(list) /\ live \subseteq Block
      /\ \A i \in Inst : list.block[i] # NONE => i \in 1..arena.insts /\ list.block[i] \in live
  BY PosFacts DEF BodyInv, ListsOK, Inst
<1>3. /\ live \subseteq 1..arena.blocks /\ ended \subseteq live BY DEF BodyInv, LiveOK
<1>4. /\ list = [first |-> list.first, last |-> list.last, prev |-> list.prev,
                 next |-> list.next, block |-> list.block]
      /\ list.first \in [Block -> Inst \cup {NONE}] /\ list.last \in [Block -> Inst \cup {NONE}]
      /\ list.prev \in [Inst -> Inst \cup {NONE}] /\ list.next \in [Inst -> Inst \cup {NONE}]
      /\ list.block \in [Inst -> Block \cup {NONE}]
  BY <1>2 DEF Sound, ListType
<1>5. \A b \in Block : list.first[b] \in 0..arena.insts /\ list.last[b] \in 0..arena.insts
  <2>1. ASSUME NEW b \in Block PROVE list.first[b] = NONE \/ list.first[b] \in 1..arena.insts
    BY <1>2, <1>4, NoneIsNothing DEF Sound, EndsFit
  <2>2. ASSUME NEW b \in Block PROVE list.last[b] = NONE \/ list.last[b] \in 1..arena.insts
    BY <1>2, <1>4, NoneIsNothing DEF Sound, EndsFit
  <2> QED BY <1>1, <2>1, <2>2 DEF NONE
<1>6. \A i \in Inst : /\ list.prev[i] \in 0..arena.insts /\ list.next[i] \in 0..arena.insts
                      /\ list.block[i] \in 0..arena.blocks
  <2>1. ASSUME NEW i \in Inst
        PROVE  /\ list.prev[i] = NONE \/ list.prev[i] \in 1..arena.insts
               /\ list.next[i] = NONE \/ list.next[i] \in 1..arena.insts
               /\ list.block[i] = NONE \/ list.block[i] \in 1..arena.blocks
    <3>1. CASE list.block[i] = NONE BY <1>2, <3>1 DEF Sound, IdleClear
    <3>2. CASE list.block[i] # NONE
      <4>1. list.block[i] \in live BY <1>2, <3>2
      <4>2. list.prev[i] # NONE => list.prev[i] \in Inst /\ list.block[list.prev[i]] # NONE
        BY <1>2, <1>4, <3>2 DEF Sound, LinksFit
      <4>3. list.next[i] # NONE => list.next[i] \in Inst /\ list.block[list.next[i]] # NONE
        BY <1>2, <1>4, <3>2 DEF Sound, LinksFit
      <4> QED BY <1>2, <1>3, <4>1, <4>2, <4>3
    <3> QED BY <3>1, <3>2
  <2> QED BY <1>1, <2>1 DEF NONE
<1>7. list \in [first : [Block -> 0..arena.insts], last : [Block -> 0..arena.insts],
                prev : [Inst -> 0..arena.insts], next : [Inst -> 0..arena.insts],
                block : [Inst -> 0..arena.blocks]]
  <2>1. list.first \in [Block -> 0..arena.insts] /\ list.last \in [Block -> 0..arena.insts]
    BY <1>4, <1>5
  <2>2. list.prev \in [Inst -> 0..arena.insts] /\ list.next \in [Inst -> 0..arena.insts]
        /\ list.block \in [Inst -> 0..arena.blocks]
    BY <1>4, <1>6
  <2> QED BY <1>4, <2>1, <2>2
<1>8. params \in [Block -> Seq(1..arena.values)] /\ result \in [Inst -> 0..arena.values]
      /\ def \in [Value -> Def]
      /\ edges \in [Block -> Seq([to : 1..arena.blocks, args : Seq(1..arena.values)])]
  BY DEF BodyInv, ParamsOK, ResultOK, DefOK, EdgesOK
<1>9. pos \in [where : {"end", "before", "after"}, of : Nat]
  <2>1. Block \subseteq Nat /\ Inst \subseteq Nat BY DEF Block, Inst
  <2> QED BY <1>2, <2>1 DEF BodyInv, PosOK, End, Before, After
<1> QED BY <1>1, <1>3, <1>7, <1>8, <1>9 DEF TypeOK

LEMMA ListAcceptedFollows == ASSUME BodyInv, NEW b \in live PROVE ListAccepted(b)
<1> DEFINE w == Walk(b)
<1>1. b \in Block /\ Sound(list) BY PosFacts DEF BodyInv, ListsOK
<1>2. ListOf(list, b, w) BY <1>1, WalkFacts
<1> HIDE DEF w
<1>3. w \in Seq(Inst) /\ Len(w) \in Nat /\ DOMAIN w = 1..Len(w) BY <1>2, LenProperties DEF ListOf
<1>4. w = <<>> <=> Len(w) = 0 BY SMTT(30), <1>3, EmptySeq
<1>5. \A n \in DOMAIN w : list.block[w[n]] = b /\ list.prev[w[n]] = IF n = 1 THEN NONE ELSE w[n - 1]
  BY <1>2, <1>3 DEF ListOf
<1>6. IsInjective(w) BY <1>2, <1>3 DEF ListOf, IsInjective
<1>7. list.last[b] = IF w = <<>> THEN NONE ELSE Last(w) BY <1>2, <1>4 DEF ListOf, Last
<1>8. w # <<>> => list.next[Last(w)] = NONE
  <2>1. \A n \in 1..Len(w) : list.next[w[n]] = IF n = Len(w) THEN NONE ELSE w[n + 1]
    BY <1>2 DEF ListOf
  <2>2. w # <<>> => Len(w) \in 1..Len(w) BY <1>3, <1>4
  <2> QED BY <2>1, <2>2 DEF Last
<1> QED BY <1>5, <1>6, <1>7, <1>8 DEF ListAccepted, w

LEMMA LayoutFollows == BodyInv => LayoutAccepted
<1> SUFFICES ASSUME BodyInv PROVE LayoutAccepted OBVIOUS
<1>1. \A b \in live : ListAccepted(b) BY ListAcceptedFollows
<1>2. /\ live \subseteq Block /\ Sound(list)
      /\ \A i \in Inst : list.block[i] # NONE => list.block[i] \in live
  BY PosFacts DEF BodyInv, ListsOK
<1>3. ASSUME NEW b \in live
      PROVE  ToSet(Walk(b)) = {i \in Inst : list.block[i] = b}
  <2> DEFINE w == Walk(b)
  <2>1. ListOf(list, b, w) BY <1>2, WalkFacts
  <2> HIDE DEF w
  <2>2. w \in Seq(Inst) /\ Len(w) \in Nat /\ DOMAIN w = 1..Len(w) BY <2>1, LenProperties DEF ListOf
  <2>3. \A n \in 1..Len(w) : w[n] \in Inst BY <2>2, ElementOfSeq
  <2>4. ToSet(w) = {w[n] : n \in 1..Len(w)} BY <2>2 DEF ToSet
  <2>5. ToSet(w) = {i \in Inst : list.block[i] = b} BY <2>1, <2>3, <2>4 DEF ListOf
  <2> QED BY <2>5 DEF w
<1>4. ASSUME NEW i PROVE i \in Linked <=> \E b \in live : i \in ToSet(Walk(b))
  BY <1>2, <1>3, NoneIsNothing DEF Linked
<1>5. Linked = UNION {ToSet(Walk(b)) : b \in live} BY <1>4
<1> QED BY <1>1, <1>5 DEF LayoutAccepted

\* A place of v is one that its definition names, by DefOK.
LEMMA PlacesAreDef ==
  ASSUME BodyInv, NEW v \in Value, NEW d \in Places(v)
  PROVE  d = def[v]
<1>1. live \subseteq Block BY PosFacts
<1>2. CASE \E i \in Linked : result[i] = v /\ d = ResultOf(i)
  BY <1>2 DEF Linked, BodyInv, DefOK
<1>3. ASSUME NEW b \in live, v \in ToSet(params[b]),
             NEW c \in live, NEW k \in DOMAIN params[c], params[c][k] = v, d = ParamOf(b, k)
      PROVE  d = def[v]
  <2>1. PICK j \in DOMAIN params[b] : params[b][j] = v BY <1>3, ValueFacts DEF ToSet
  <2>2. def[v] = ParamOf(b, j) BY <1>1, <2>1 DEF BodyInv, DefOK
  <2>3. def[v] = ParamOf(c, k) BY <1>1, <1>3 DEF BodyInv, DefOK
  <2>4. b = c /\ j = k BY <2>2, <2>3, KindsDiffer
  <2> QED BY <1>3, <2>3, <2>4
<1> QED BY <1>2, <1>3 DEF Places

LEMMA ParamPlace ==
  ASSUME BodyInv, NEW b \in Block, NEW k \in DOMAIN params[b]
  PROVE  ParamOf(b, k) \in Places(params[b][k])
<1> DEFINE v == params[b][k]
<1>1. /\ params[b] \in Seq(1..arena.values) /\ Len(params[b]) \in Nat
      /\ DOMAIN params[b] = 1..Len(params[b])
  BY ValueFacts DEF BodyInv, ParamsOK
<1>2. b \in live
  <2>1. params[b] # <<>> BY <1>1, EmptySeq
  <2> QED BY <2>1 DEF BodyInv, ParamsOK
<1>3. Distinct(params[b])
  <2>1. \A j \in DOMAIN params[b] : def[params[b][j]] = ParamOf(b, j) BY DEF BodyInv, DefOK
  <2> QED BY SMTT(30), <1>1, <2>1, KindsDiffer DEF Distinct
<1>4. arena.values \in Nat /\ arena.values <= MaxValues /\ MaxValues \in Nat
  BY ArenaFacts, Bounds DEF BodyInv
<1>5. Len(params[b]) <= arena.values BY <1>1, <1>3, <1>4, DistinctShort
<1>6. k \in 1..MaxValues BY <1>1, <1>4, <1>5
<1>7. v \in ToSet(params[b]) BY DEF ToSet
<1> HIDE DEF v
<1>8. k \in {m \in 1..MaxValues : \E c \in live : m \in DOMAIN params[c] /\ params[c][m] = v}
  BY <1>2, <1>6 DEF v
<1>9. b \in {c \in live : v \in ToSet(params[c])} BY <1>2, <1>7
<1>10. ParamOf(b, k) \in Places(v) BY <1>8, <1>9 DEF Places
<1> QED BY <1>10 DEF v

LEMMA DefinitionsFollow == BodyInv => DefinitionsAgree
<1> SUFFICES ASSUME BodyInv, NEW v \in Value
             PROVE  IF Places(v) = {} THEN def[v] = Detached ELSE Places(v) = {def[v]}
  BY DEF DefinitionsAgree
<1>1. \A d \in Places(v) : d = def[v] BY PlacesAreDef
<1>2. CASE Places(v) # {} BY <1>1, <1>2
<1>3. CASE Places(v) = {}
  <2>1. ~\E b \in Block : \E k \in DOMAIN params[b] : params[b][k] = v BY <1>3, ParamPlace
  <2>2. ~\E i \in Inst : list.block[i] # NONE /\ result[i] = v BY <1>3 DEF Places, Linked
  <2>3. def[v] = Detached BY <2>1, <2>2 DEF BodyInv, DefOK
  <2> QED BY <1>3, <2>3
<1> QED BY <1>2, <1>3

\* Whatever the edits, and in whatever order, the arenas keep their types: a
\* link, a parameter, an argument or a target names what was handed out, and
\* only a live block has a terminator (function.rs BlockNode, InstNode,
\* ValueNode; builder.rs Position).
THEOREM BodyTypesHold == Spec => []TypeOK
<1>1. Kept => TypeOK BY TypesFollow DEF Kept
<1> QED BY <1>1, KeptAlways, PTL

\* Bodies of any size: no order of insertions, moves, removals, splits and
\* compactions leaves a list that check_layout refuses (function.rs
\* link_between, unlink; builder.rs split_block, remove_block; compact.rs).
THEOREM ListsStayLinked == Spec => []LayoutAccepted
<1>1. Kept => LayoutAccepted BY LayoutFollows DEF Kept
<1> QED BY <1>1, KeptAlways, PTL

\* No edit leaves the insertion point at an instruction or a block that is
\* gone (builder.rs current_block, remove_inst, remove_block; ssa.rs move_inst).
THEOREM PositionsStayValid == Spec => []PositionValid
<1>1. Kept => PositionValid BY PosFacts DEF Kept, PositionValid
<1> QED BY <1>1, KeptAlways, PTL

\* Each value says where it is listed and is listed where it says, across
\* removals that renumber parameters and across compaction (builder.rs
\* remove_block_param, detach_inst; ssa.rs remove_params; compact.rs).
THEOREM DefinitionsStayTrue == Spec => []DefinitionsAgree
<1>1. Kept => DefinitionsAgree BY DefinitionsFollow DEF Kept
<1> QED BY <1>1, KeptAlways, PTL

------------------------------------------------------------------------------
(***************************************************************************)
(* Arguments and parameters.                                               *)
(***************************************************************************)
\* Each argument of a is the parameter of p in its place.
Fits(a, p) == DOMAIN a \subseteq DOMAIN p /\ \A k \in DOMAIN a : a[k] = p[k]

FitsAt(b, e) == edges[b][e].to \in live => Fits(edges[b][e].args, params[edges[b][e].to])
Paired == \A b \in live : \A e \in DOMAIN edges[b] : FitsAt(b, e)

LEMMA FitsIsPrefix ==
  ASSUME NEW T, NEW a \in Seq(T), NEW p \in Seq(T), Fits(a, p)
  PROVE  IsPrefix(a, p)
<1>1. /\ Len(a) \in Nat /\ DOMAIN a = 1..Len(a) /\ Len(p) \in Nat /\ DOMAIN p = 1..Len(p)
      /\ \A i \in 1..Len(a) : a[i] \in T
  BY LenProperties, ElementOfSeq
<1>2. Len(a) <= Len(p)
  <2>1. CASE Len(a) = 0 BY <1>1, <2>1
  <2>2. CASE Len(a) # 0
    <3>1. Len(a) \in DOMAIN p BY <1>1, <2>2 DEF Fits
    <3> QED BY <1>1, <3>1
  <2> QED BY <2>1, <2>2
<1>3. \A i \in 1..Len(a) : p[i] = a[i] BY <1>1 DEF Fits
<1>4. SubSeq(a, 1, Len(a)) = a BY SubSeqFull
<1> DEFINE n == Len(a)
           q == SubSeq(p, 1, n)
<1>5. /\ q \in Seq(T) /\ Len(q) = (IF 1 <= n THEN n - 1 + 1 ELSE 0)
      /\ \A i \in 1..(n - 1 + 1) : q[i] = p[1 + i - 1]
  <2>1. n \in Int /\ 1 \in Int /\ \A i \in 1..n : p[i] \in T BY <1>1, <1>3
  <2> HIDE DEF n
  <2> QED BY <2>1, SubSeqProperties
<1> HIDE DEF q
<1>6. Len(q) = n BY <1>1, <1>5
<1>7. \A i \in 1..Len(q) : q[i] = a[i] BY <1>1, <1>3, <1>5, <1>6
<1>8. q = a BY <1>5, <1>6, <1>7, SeqEqual
<1> QED BY <1>2, <1>4, <1>8 DEF IsPrefix, q

LEMMA PairsFollow == BodyInv /\ Paired => EdgesPairUp
<1> SUFFICES ASSUME BodyInv, Paired, NEW b \in live, NEW c \in live,
                    NEW e \in DOMAIN edges[b], edges[b][e].to = c
             PROVE  IsPrefix(edges[b][e].args, params[c])
  BY DEF EdgesPairUp
<1>1. b \in Block /\ c \in Block BY PosFacts
<1>2. edges[b][e].args \in Seq(1..arena.values) BY <1>1, EdgeFacts
<1>3. params[c] \in Seq(1..arena.values) BY <1>1 DEF BodyInv, ParamsOK
<1>4. Fits(edges[b][e].args, params[c]) BY DEF Paired, FitsAt
<1> QED BY <1>2, <1>3, <1>4, FitsIsPrefix

\* Edges and parameters are left alone, and blocks may go.
LEMMA PairsStay ==
  ASSUME Paired, edges' = edges, params' = params, live' \subseteq live
  PROVE  Paired'
BY DEF Paired, FitsAt

LEMMA CreateBlockPairs ==
  ASSUME Kept, Paired, NEW k \in 0..MaxValues, CreateBlock(k) PROVE Paired'
<1> DEFINE n == arena.blocks + 1
           new == [j \in 1..k |-> arena.values + j]
<1>1. live' = live \cup {n} /\ params' = [params EXCEPT ![n] = new] /\ edges' = edges
  BY DEF CreateBlock
<1>2. arena.blocks \in Nat /\ live \subseteq Block /\ n \notin 1..arena.blocks /\ n \notin live
  BY ArenaFacts, PosFacts DEF Kept, BodyInv, LiveOK
<1>3. n \in Block
  <2>1. Grow(1, 0, k) /\ ArenaOK /\ arena.blocks \in Nat /\ k \in Nat
    BY ArenaFacts, Bounds DEF CreateBlock, Kept, BodyInv
  <2>2. ArenaOK' /\ arena'.blocks = arena.blocks + 1 BY <2>1, GrowFacts
  <2> QED BY <2>2 DEF ArenaOK
<1>4. edges[n] = <<>> BY <1>2, <1>3 DEF Kept, DeadEdgesGone
<1>5. DOMAIN params = Block BY DEF Kept, BodyInv, ParamsOK
<1> HIDE DEF n, new
<1>6. ASSUME NEW b \in live', NEW e \in DOMAIN edges'[b] PROVE FitsAt(b, e)'
  <2>1. b # n
    <3>1. DOMAIN edges[n] = {} BY <1>4
    <3> QED BY <1>1, <1>6, <3>1
  <2>2. b \in live /\ b \in Block /\ e \in DOMAIN edges[b] BY <1>1, <1>2, <2>1
  <2>3. edges[b][e].to \in 1..arena.blocks BY <2>2, EdgeFacts DEF Kept
  <2>4. edges[b][e].to # n BY <1>2, <2>3
  <2>5. edges[b][e].to \in live' => edges[b][e].to \in live
                                    /\ params'[edges[b][e].to] = params[edges[b][e].to]
    BY <1>1, <1>2, <1>5, <2>4
  <2>6. FitsAt(b, e) BY <2>2 DEF Paired
  <2> QED BY <1>1, <2>5, <2>6 DEF FitsAt
<1> QED BY <1>6 DEF Paired

LEMMA AddBlockParamPairs ==
  ASSUME Kept, Paired, NEW b, AddBlockParam(b) PROVE Paired'
<1> DEFINE v == arena.values + 1
           new == Append(params[b], v)
<1>1. b \in live /\ params' = [params EXCEPT ![b] = new] /\ edges' = edges /\ live' = live
  BY DEF AddBlockParam
<1>2. b \in Block /\ live \subseteq Block /\ params \in [Block -> Seq(1..arena.values)]
      /\ arena.values \in Nat
  BY <1>1, PosFacts, ArenaFacts DEF Kept, BodyInv, ParamsOK
<1>3. DOMAIN params[b] \subseteq DOMAIN new /\ \A k \in DOMAIN params[b] : new[k] = params[b][k]
  <2> DEFINE p == params[b]
  <2>1. p \in Seq(Nat) /\ v \in Nat
    <3>1. p \in Seq(1..arena.values) BY <1>2
    <3>2. p \in [1..Len(p) -> 1..arena.values] /\ Len(p) \in Nat BY <3>1, LenProperties
    <3> HIDE DEF p
    <3>3. p \in [1..Len(p) -> Nat] BY <1>2, <3>2
    <3>4. p \in Seq(Nat) BY <3>2, <3>3, FunctionSeq
    <3>5. v \in Nat BY <1>2
    <3> QED BY <3>4, <3>5
  <2> HIDE DEF p, v
  <2>2. /\ Append(p, v) \in Seq(Nat) /\ Len(Append(p, v)) = Len(p) + 1
        /\ \A k \in 1..Len(p) : Append(p, v)[k] = p[k]
    BY <2>1, AppendProperties
  <2>3. DOMAIN p = 1..Len(p) /\ Len(p) \in Nat /\ DOMAIN Append(p, v) = 1..Len(Append(p, v))
    BY <2>1, <2>2, LenProperties
  <2> QED BY <2>2, <2>3 DEF p
<1> HIDE DEF new
<1>4. ASSUME NEW a, NEW c \in Block, Fits(a, params[c]) PROVE Fits(a, params'[c])
  <2>1. params'[c] = IF c = b THEN new ELSE params[c] BY <1>1, <1>2
  <2> QED BY <1>3, <1>4, <2>1 DEF Fits
<1> QED BY <1>1, <1>2, <1>4 DEF Paired, FitsAt

LEMMA RemoveBlockPairs ==
  ASSUME Kept, Paired, NEW b, RemoveBlock(b) PROVE Paired'
<1>1. /\ live' = live \ {b} /\ edges' = [edges EXCEPT ![b] = <<>>]
      /\ params' = [params EXCEPT ![b] = <<>>]
  BY DEF RemoveBlock
<1>2. DOMAIN edges = Block /\ DOMAIN params = Block /\ live \subseteq Block
  BY PosFacts DEF Kept, BodyInv, EdgesOK, ParamsOK
<1> QED BY <1>1, <1>2 DEF Paired, FitsAt

LEMMA RemoveTerminatorPairs ==
  ASSUME Kept, Paired, NEW b, RemoveTerminator(b) PROVE Paired'
<1>1. live' = live /\ edges' = [edges EXCEPT ![b] = <<>>] /\ params' = params
  BY DEF RemoveTerminator
<1>2. DOMAIN edges = Block /\ live \subseteq Block BY PosFacts DEF Kept, BodyInv, EdgesOK
<1>3. DOMAIN <<>> = {} OBVIOUS
<1>4. ASSUME NEW c \in live', NEW e \in DOMAIN edges'[c] PROVE FitsAt(c, e)'
  <2>1. c # b BY <1>1, <1>2, <1>3, <1>4
  <2>2. edges'[c] = edges[c] BY <1>1, <1>2, <2>1
  <2> QED BY <1>1, <2>2, <1>4 DEF Paired, FitsAt
<1> QED BY <1>4 DEF Paired

LEMMA SetTerminatorPairs ==
  ASSUME Kept, Paired, NEW n \in Nat, NEW dests \in [1..n -> live], SetTerminator(dests)
  PROVE  Paired'
<1> DEFINE new == [k \in 1..n |-> [to |-> dests[k], args |-> params[dests[k]]]]
           b == CurrentBlock
<1>1. /\ b \in live /\ edges' = [edges EXCEPT ![b] = new] /\ live' = live /\ params' = params
  BY DEF SetTerminator
<1>2. DOMAIN edges = Block /\ live \subseteq Block BY PosFacts DEF Kept, BodyInv, EdgesOK
<1> HIDE DEF b
<1>3. ASSUME NEW c \in live', NEW e \in DOMAIN edges'[c] PROVE FitsAt(c, e)'
  <2>1. CASE c = b
    <3>1. edges'[c] = new BY <1>1, <1>2, <2>1
    <3>2. e \in 1..n /\ edges'[c][e].args = params[edges'[c][e].to] BY <1>3, <3>1
    <3> QED BY <1>1, <3>2 DEF FitsAt, Fits
  <2>2. CASE c # b
    <3>1. edges'[c] = edges[c] BY <1>1, <1>2, <2>2
    <3> QED BY <1>1, <1>3, <3>1 DEF Paired, FitsAt
  <2> QED BY <2>1, <2>2
<1> QED BY <1>3 DEF Paired

LEMMA SplitBlockPairs == ASSUME Kept, Paired, NEW i, SplitBlock(i) PROVE Paired'
<1> DEFINE b == list.block[i]
           n == arena.blocks + 1
           jump == <<[to |-> n, args |-> <<>>]>>
<1>1. /\ i \in Inst /\ list.block[i] # NONE /\ Grow(1, 0, 0) /\ live' = live \cup {n}
      /\ params' = params /\ edges' = [edges EXCEPT ![n] = edges[b], ![b] = jump]
  BY DEF SplitBlock, Linked
<1>2. b \in live /\ live \subseteq Block BY <1>1, FromFacts, PosFacts DEF Kept
<1>3. arena.blocks \in Nat /\ n \notin 1..arena.blocks /\ n \notin live
  BY ArenaFacts DEF Kept, BodyInv, LiveOK
<1>4. DOMAIN edges = Block BY DEF Kept, BodyInv, EdgesOK
<1>5. DOMAIN jump = {1} /\ jump[1].args = <<>> /\ DOMAIN jump[1].args = {} OBVIOUS
<1> HIDE DEF b, n, jump
<1>6. ASSUME NEW c \in live, NEW e \in DOMAIN edges[c], edges[c][e].to \in live'
      PROVE  Fits(edges[c][e].args, params[edges[c][e].to])
  <2>1. edges[c][e].to \in 1..arena.blocks BY <1>2, EdgeFacts DEF Kept
  <2>2. edges[c][e].to \in live BY <1>1, <1>3, <1>6, <2>1
  <2> QED BY <2>2 DEF Paired, FitsAt
<1>7. ASSUME NEW c \in live', NEW e \in DOMAIN edges'[c] PROVE FitsAt(c, e)'
  <2>1. CASE c = b
    <3>1. edges'[c] = jump BY <1>1, <1>2, <1>3, <1>4, <2>1
    <3>2. edges'[c][e].args = <<>> BY <1>5, <1>7, <3>1
    <3>3. DOMAIN edges'[c][e].args = {} BY <3>2
    <3> QED BY <3>3 DEF FitsAt, Fits
  <2>2. CASE c # b /\ c = n
    <3>1. \E d \in live : edges'[c] = edges[d] 
      <4>1. edges' = [edges EXCEPT ![n] = edges[b], ![b] = jump] BY <1>1
      <4>2. n \in Block \/ n \notin Block OBVIOUS
      <4>3. n \in Block
        <5>1. ArenaOK /\ ArenaOK' /\ arena'.blocks = n
          BY <1>1, <1>3, ArenaFacts, GrowFacts DEF Kept, BodyInv, n
        <5> QED BY <5>1 DEF ArenaOK
      <4> QED BY <1>2, <1>4, <2>2, <4>1, <4>3
    <3> QED BY <1>1, <1>6, <1>7, <3>1 DEF FitsAt
  <2>3. CASE c # b /\ c # n
    <3>1. c \in live /\ edges'[c] = edges[c] BY <1>1, <1>2, <1>4, <2>3
    <3> QED BY <1>1, <1>6, <1>7, <3>1 DEF FitsAt
  <2> QED BY <2>1, <2>2, <2>3
<1> QED BY <1>7 DEF Paired

\* One parameter goes, and the argument for it.
LEMMA OneLess ==
  ASSUME NEW T, NEW a \in Seq(T), NEW p \in Seq(T), Fits(a, p), NEW k \in 1..Len(p)
  PROVE  Fits(WithoutArg(a, k), RemoveAt(p, k))
<1>1. /\ Len(a) \in Nat /\ DOMAIN a = 1..Len(a) /\ Len(p) \in Nat /\ DOMAIN p = 1..Len(p)
  BY LenProperties
<1>2. /\ Len(p) - 1 \in Nat /\ DOMAIN RemoveAt(p, k) = 1..(Len(p) - 1)
      /\ \A j \in 1..(Len(p) - 1) : RemoveAt(p, k)[j] = IF j < k THEN p[j] ELSE p[j + 1]
  BY RemoveAtFacts
<1>3. \A j \in 1..Len(a) : j \in 1..Len(p) /\ a[j] = p[j] BY <1>1 DEF Fits
<1>4. k \in Nat /\ k >= 1 /\ k <= Len(p) BY <1>1
<1>5. CASE k <= Len(a)
  <2>1. k \in 1..Len(a) BY <1>1, <1>4, <1>5
  <2>2. /\ Len(a) - 1 \in Nat /\ DOMAIN RemoveAt(a, k) = 1..(Len(a) - 1)
        /\ \A j \in 1..(Len(a) - 1) : RemoveAt(a, k)[j] = IF j < k THEN a[j] ELSE a[j + 1]
    BY <2>1, RemoveAtFacts
  <2>3. ASSUME NEW j \in 1..(Len(a) - 1)
        PROVE  j \in 1..(Len(p) - 1) /\ RemoveAt(a, k)[j] = RemoveAt(p, k)[j]
    <3>1. j \in 1..Len(a) /\ j + 1 \in 1..Len(a) BY <1>1, <2>2
    <3>2. j + 1 \in 1..Len(p) /\ a[j] = p[j] /\ a[j + 1] = p[j + 1] BY <1>3, <3>1
    <3>3. j \in 1..(Len(p) - 1) BY <1>1, <3>1, <3>2
    <3> QED BY <1>2, <2>2, <3>2, <3>3
  <2>4. WithoutArg(a, k) = RemoveAt(a, k) BY <1>5 DEF WithoutArg
  <2> QED BY <1>2, <2>2, <2>3, <2>4 DEF Fits
<1>6. CASE ~(k <= Len(a))
  <2>1. ASSUME NEW j \in 1..Len(a)
        PROVE  j \in 1..(Len(p) - 1) /\ a[j] = RemoveAt(p, k)[j]
    <3>1. j \in Nat /\ j < k /\ j \in 1..(Len(p) - 1) BY <1>1, <1>4, <1>6
    <3> QED BY <1>2, <1>3, <3>1
  <2>2. WithoutArg(a, k) = a BY <1>6 DEF WithoutArg
  <2> QED BY <1>1, <1>2, <2>1, <2>2 DEF Fits
<1> QED BY <1>5, <1>6

LEMMA RemoveBlockParamPairs ==
  ASSUME Kept, Paired, NEW b, NEW k, RemoveBlockParam(b, k) PROVE Paired'
<1>1. edges' = [c \in Block |-> [e \in DOMAIN edges[c] |->
          [to |-> edges[c][e].to,
           args |-> IF edges[c][e].to = b THEN WithoutArg(edges[c][e].args, k) ELSE edges[c][e].args]]]
  BY RemoveBlockParamFields DEF Kept
<1>2. /\ b \in live /\ k \in DOMAIN params[b] /\ live' = live
      /\ params' = [params EXCEPT ![b] = RemoveAt(params[b], k)]
  BY DEF RemoveBlockParam
<1>3. live \subseteq Block /\ params \in [Block -> Seq(1..arena.values)]
  BY PosFacts DEF Kept, BodyInv, ParamsOK
<1>4. k \in 1..Len(params[b])
  <2>1. params[b] \in Seq(1..arena.values) BY <1>2, <1>3
  <2> QED BY <1>2, <2>1, LenProperties
<1>5. ASSUME NEW c \in live', NEW e \in DOMAIN edges'[c], edges'[c][e].to \in live'
      PROVE  Fits(edges'[c][e].args, params'[edges'[c][e].to])
  <2> DEFINE t == edges[c][e].to
             a == edges[c][e].args
  <2>1. c \in live /\ c \in Block /\ e \in DOMAIN edges[c] BY <1>1, <1>2, <1>3, <1>5
  <2>2. edges'[c][e] = [to |-> t, args |-> IF t = b THEN WithoutArg(a, k) ELSE a]
    BY <1>1, <2>1
  <2>3. t \in live /\ t \in Block BY <1>2, <1>3, <1>5, <2>2
  <2>4. Fits(a, params[t]) /\ a \in Seq(1..arena.values)
    BY <2>1, <2>3, EdgeFacts DEF Paired, FitsAt, Kept
  <2> HIDE DEF t, a
  <2>5. CASE t = b
    <3>1. params[b] \in Seq(1..arena.values) BY <1>2, <1>3
    <3>2. Fits(WithoutArg(a, k), RemoveAt(params[b], k)) BY <1>4, <2>4, <2>5, <3>1, OneLess
    <3>3. params'[b] = RemoveAt(params[b], k) BY <1>2, <1>3
    <3> QED BY <2>2, <2>5, <3>2, <3>3
  <2>6. CASE t # b
    <3>1. params'[t] = params[t] BY <1>2, <1>3, <2>3, <2>6
    <3> QED BY <2>2, <2>4, <2>6, <3>1
  <2> QED BY <2>5, <2>6
<1> QED BY <1>5 DEF Paired, FitsAt

\* An edge with every argument loses those whose parameters go, and one whose
\* target loses none keeps the arguments it has.
LEMMA RemoveBlockParamsPairs ==
  ASSUME Careful, Kept, Paired, NEW vs, RemoveBlockParams(vs) PROVE Paired'
<1>1. /\ edges' = [c \in Block |-> [e \in DOMAIN edges[c] |->
                [to |-> edges[c][e].to,
                 args |-> IF Len(edges[c][e].args) = Len(params[edges[c][e].to])
                          THEN Without(edges[c][e].args, Gone(vs, edges[c][e].to))
                          ELSE edges[c][e].args]]]
      /\ live' = live /\ params' = [b \in Block |-> Without(params[b], Gone(vs, b))]
      /\ \A c \in live : \A e \in DOMAIN edges[c] :
                Gone(vs, edges[c][e].to) # {} =>
                    Len(edges[c][e].args) = Len(params[edges[c][e].to])
  <2>1. Careful => \A c \in live : \A e \in DOMAIN edges[c] :
                Gone(vs, edges[c][e].to) # {} =>
                    Len(edges[c][e].args) = Len(params[edges[c][e].to])
    BY RemoveBlockParamsFields DEF Kept
  <2>2. live' = live /\ params' = [b \in Block |-> Without(params[b], Gone(vs, b))]
    BY RemoveBlockParamsFields DEF Kept
  <2>3. edges' = [c \in Block |-> [e \in DOMAIN edges[c] |->
                [to |-> edges[c][e].to,
                 args |-> IF Len(edges[c][e].args) = Len(params[edges[c][e].to])
                          THEN Without(edges[c][e].args, Gone(vs, edges[c][e].to))
                          ELSE edges[c][e].args]]]
    BY RemoveBlockParamsFields DEF Kept
  <2> QED BY <2>1, <2>2, <2>3
<1>2. live \subseteq Block BY PosFacts DEF Kept
<1>3. ASSUME NEW c \in live', NEW e \in DOMAIN edges'[c], edges'[c][e].to \in live'
      PROVE  Fits(edges'[c][e].args, params'[edges'[c][e].to])
  <2> DEFINE t == edges[c][e].to
             a == edges[c][e].args
             p == params[t]
             new == IF Len(a) = Len(p) THEN Without(a, Gone(vs, t)) ELSE a
  <2>1. c \in live /\ c \in Block /\ e \in DOMAIN edges[c] BY <1>1, <1>2, <1>3
  <2>2. edges'[c][e] = [to |-> t, args |-> new] BY SMTT(30), <1>1, <2>1
  <2>3. t \in live /\ t \in Block BY <1>1, <1>2, <1>3, <2>2
  <2>4. Fits(a, p) /\ a \in Seq(1..arena.values) /\ p \in Seq(1..arena.values)
    BY <2>1, <2>3, EdgeFacts DEF Paired, FitsAt, Kept, BodyInv, ParamsOK
  <2>5. params'[t] = Without(p, Gone(vs, t)) BY <1>1, <2>3
  <2>6. Gone(vs, t) # {} => Len(a) = Len(p) BY <1>1, <2>1
  <2>7. Fits(new, Without(p, Gone(vs, t)))
    <3>1. CASE Len(a) = Len(p)
      <4> HIDE DEF a, p
      <4>1. /\ Len(a) \in Nat /\ DOMAIN a = 1..Len(a) /\ DOMAIN p = 1..Len(p)
        BY <2>4, LenProperties
      <4>2. \A i \in 1..Len(a) : a[i] = p[i] BY <2>4, <4>1 DEF Fits
      <4>3. a = p BY <2>4, <3>1, <4>2, SeqEqual
      <4> QED BY <3>1, <4>3 DEF Fits
    <3>2. CASE Len(a) # Len(p)
      <4>1. Gone(vs, t) = {} BY <2>6, <3>2
      <4>2. /\ DOMAIN p = 1..Len(p) /\ Len(p) \in Nat BY <2>3, ValueFacts DEF Kept
      <4>3. Stay(vs, t) = 1..Len(p) BY <4>1, <4>2 DEF Stay
      <4>4. ASSUME NEW m \in 1..Len(p) PROVE m \in DOMAIN params'[t] /\ params'[t][m] = p[m]
        <5> DEFINE K == Stay(vs, t)
                   r == Rank(K, m)
        <5>1. /\ DOMAIN params'[t] = 1..Cardinality(K)
              /\ \A i \in K : Rank(K, i) \in 1..Cardinality(K) /\ params'[t][Rank(K, i)] = params[t][i]
              /\ \A i \in K : i - Cardinality(Gone(vs, t) \cap 1..i) = Rank(K, i)
          BY <2>3, StayFacts DEF Kept
        <5>2. m \in K BY <4>3
        <5> HIDE DEF K
        <5>3. r = m - Cardinality(Gone(vs, t) \cap 1..m) /\ r \in 1..Cardinality(K)
              /\ params'[t][r] = params[t][m]
          BY <5>1, <5>2
        <5>4. Cardinality(Gone(vs, t) \cap 1..m) = 0
          <6>1. Gone(vs, t) \cap 1..m = {} BY <4>1
          <6> QED BY <6>1, FS_EmptySet
        <5> HIDE DEF r
        <5>5. r = m - 0 /\ m \in Nat BY <5>3, <5>4, <4>2
        <5>6. r = m BY <5>5
        <5> QED BY <5>1, <5>3, <5>6
      <4>5. new = a BY <3>2
      <4> HIDE DEF a, p, t
      <4>6. Fits(a, params'[t])
        <5>1. \A k \in DOMAIN a : k \in 1..Len(p) /\ a[k] = p[k] BY <2>4, <4>2 DEF Fits
        <5> QED BY <4>4, <5>1 DEF Fits
      <4> QED BY <2>5, <4>5, <4>6
    <3> QED BY <3>1, <3>2
  <2> HIDE DEF t, a, p, new
  <2> QED BY <2>2, <2>5, <2>7
<1> QED BY <1>3 DEF Paired, FitsAt

LEMMA CompactPairs == ASSUME Kept, Paired, Compact PROVE Paired'
<1> DEFINE bs == NewBlocks
           vs == NewValues
<1>1. /\ live' = DOMAIN BlockOrder
      /\ params' = [n \in Block |-> IF n \in DOMAIN bs
                THEN [k \in DOMAIN params[bs[n]] |-> No(vs, params[bs[n]][k])] ELSE <<>>]
      /\ edges' = [n \in Block |-> IF n \in DOMAIN bs
                THEN [e \in DOMAIN edges[bs[n]] |->
                        [to |-> No(bs, edges[bs[n]][e].to),
                         args |-> [k \in DOMAIN edges[bs[n]][e].args |->
                                     No(vs, edges[bs[n]][e].args[k])]]]
                ELSE <<>>]
  BY CompactFields
<1>2. /\ DOMAIN bs = 1..Len(bs) /\ DOMAIN BlockOrder \subseteq 1..Len(bs)
      /\ \A n \in 1..Len(bs) : bs[n] \in live <=> n \in DOMAIN BlockOrder
      /\ \A b \in live : \A e \in DOMAIN edges[b] : bs[No(bs, edges[b][e].to)] = edges[b][e].to
      /\ Len(bs) \in Block
  BY BlockNumbers DEF Kept
<1> HIDE DEF bs, vs
<1>3. 1..Len(bs) \subseteq Block BY <1>2, Bounds DEF Block
<1>4. ASSUME NEW n \in live', NEW e \in DOMAIN edges'[n], edges'[n][e].to \in live'
      PROVE  Fits(edges'[n][e].args, params'[edges'[n][e].to])
  <2> DEFINE b == bs[n]
             a == edges[b][e].args
             t == edges[b][e].to
             m == No(bs, t)
             q == [k \in DOMAIN a |-> No(vs, a[k])]
  <2>1. n \in 1..Len(bs) /\ n \in Block /\ b \in live BY SMTT(30), <1>1, <1>2, <1>3
  <2>2. e \in DOMAIN edges[b] /\ edges'[n][e] = [to |-> m, args |-> q] BY <1>1, <1>2, <1>4, <2>1
  <2>3. bs[m] = t BY SMTT(30), <1>2, <2>1, <2>2
  <2>4. m \in 1..Len(bs) /\ m \in Block /\ bs[m] \in live BY <1>1, <1>2, <1>3, <1>4, <2>2
  <2>5. Fits(a, params[t]) BY SMTT(30), <2>1, <2>2, <2>3, <2>4 DEF Paired, FitsAt
  <2>6. params'[m] = [k \in DOMAIN params[t] |-> No(vs, params[t][k])]
    BY <1>1, <1>2, <2>3, <2>4
  <2> HIDE DEF a, t, m
  <2>7. Fits(q, params'[m]) BY <2>5, <2>6 DEF Fits
  <2> HIDE DEF q
  <2> QED BY <2>2, <2>7
<1> QED BY <1>4 DEF Paired, FitsAt

LEMMA PairStep == ASSUME Careful, Kept, Paired, [Next]_vars PROVE Paired'
<1>1. CASE SetPosition \/ Insert \/ UNCHANGED vars
  <2>1. edges' = edges /\ params' = params /\ live' \subseteq live
    BY <1>1 DEF SetPosition, Insert, vars, flow
  <2> QED BY <2>1, PairsStay
<1>2. ASSUME NEW i \in Linked,
             RemoveInst(i) \/ SplitBlock(i) \/ \E to \in Positions : MoveInst(i, to)
      PROVE  Paired'
  <2>1. CASE SplitBlock(i) BY <2>1, SplitBlockPairs
  <2>2. CASE RemoveInst(i) \/ \E to \in Positions : MoveInst(i, to)
    <3>1. edges' = edges /\ params' = params /\ live' \subseteq live
      BY <2>2 DEF RemoveInst, MoveInst, flow
    <3> QED BY <3>1, PairsStay
  <2> QED BY <1>2, <2>1, <2>2
<1>3. ASSUME NEW k \in 0..MaxValues, CreateBlock(k) PROVE Paired' BY <1>3, CreateBlockPairs
<1>4. ASSUME NEW b \in live,
             \/ AddBlockParam(b) \/ RemoveBlock(b) \/ RemoveTerminator(b)
             \/ \E k \in DOMAIN params[b] : RemoveBlockParam(b, k)
      PROVE  Paired'
  BY <1>4, AddBlockParamPairs, RemoveBlockPairs, RemoveTerminatorPairs, RemoveBlockParamPairs
<1>5. ASSUME NEW vs \in SUBSET Value, RemoveBlockParams(vs) PROVE Paired'
  BY <1>5, RemoveBlockParamsPairs
<1>6. ASSUME NEW n \in 0..MaxEdges, NEW dests \in [1..n -> live], SetTerminator(dests) PROVE Paired'
  <2>1. n \in Nat BY BoundsAssumption
  <2> QED BY <1>6, <2>1, SetTerminatorPairs
<1>7. CASE Compact BY <1>7, CompactPairs
<1> QED BY <1>1, <1>2, <1>3, <1>4, <1>5, <1>6, <1>7 DEF Next

\* When several parameters are removed at once only while every edge into their
\* blocks is complete, no edit gives a parameter an argument that was passed
\* for another (builder.rs remove_block_param; ssa.rs remove_params;
\* compact.rs).
THEOREM ArgumentsStayPaired == ASSUME Careful PROVE Spec => []EdgesPairUp
<1>1. Init => Paired
  <2>1. ASSUME Init PROVE \A b \in live : DOMAIN edges[b] = {}
    BY <2>1, Bounds DEF Init
  <2> QED BY <2>1 DEF Paired
<1>2. Kept /\ Paired /\ [Next]_vars => Paired' BY PairStep
<1>3. Kept /\ Paired => EdgesPairUp BY PairsFollow DEF Kept
<1> QED BY <1>1, <1>2, <1>3, KeptAlways, PTL DEF Spec

------------------------------------------------------------------------------
(***************************************************************************)
(* Sequences with one more element and with one less, element by element.  *)
(***************************************************************************)
With(w, k, i) == [j \in 1..(Len(w) + 1) |-> IF j <= k THEN w[j] ELSE IF j = k + 1 THEN i ELSE w[j - 1]]
Less(w, k) == [j \in 1..(Len(w) - 1) |-> IF j < k THEN w[j] ELSE w[j + 1]]

LEMMA WithFacts ==
  ASSUME NEW T, NEW w \in Seq(T), NEW k \in 0..Len(w), NEW i \in T
  PROVE  /\ With(w, k, i) \in Seq(T) /\ Len(With(w, k, i)) = Len(w) + 1
         /\ With(w, k, i) = InsertAt(w, k + 1, i)
<1> DEFINE a == SubSeq(w, 1, k)
           c == SubSeq(w, k + 1, Len(w))
           v == With(w, k, i)
           n == Len(w) + 1
<1>0. Len(w) \in Nat /\ k \in Nat /\ k <= Len(w) /\ n \in Nat /\ \A j \in 1..Len(w) : w[j] \in T
  BY LenProperties, ElementOfSeq
<1>1. v \in Seq(T) /\ Len(v) = n
  <2>1. \A j \in 1..n : v[j] \in T
    <3>1. ASSUME NEW j \in 1..n PROVE v[j] \in T
      <4>1. j <= k => j \in 1..Len(w) BY <1>0
      <4>2. j > k + 1 => j - 1 \in 1..Len(w) BY <1>0
      <4>3. v[j] = IF j <= k THEN w[j] ELSE IF j = k + 1 THEN i ELSE w[j - 1] BY DEF With
      <4>4. j \in Nat BY <1>0
      <4> HIDE DEF v
      <4> QED BY <1>0, <4>1, <4>2, <4>3, <4>4
    <3> QED BY <3>1
  <2>2. v \in [1..n -> T] BY <2>1 DEF With
  <2> HIDE DEF v
  <2>3. v \in Seq(T) BY <1>0, <2>2, FunctionSeq
  <2>4. DOMAIN v = 1..n /\ DOMAIN v = 1..Len(v) /\ Len(v) \in Nat BY <2>2, <2>3, LenProperties
  <2> HIDE DEF n
  <2> QED BY <1>0, <2>3, <2>4
<1>2. a \in Seq(T) /\ Len(a) = k /\ \A j \in 1..k : a[j] = w[j]
  <2>1. \A j \in 1..k : w[j] \in T BY <1>0
  <2>2. 1 \in Int /\ k \in Int BY <1>0
  <2>3. /\ a \in Seq(T) /\ Len(a) = IF 1 <= k THEN k - 1 + 1 ELSE 0
        /\ \A j \in 1..(k - 1 + 1) : a[j] = w[1 + j - 1]
    BY <2>1, <2>2, SubSeqProperties
  <2> HIDE DEF a
  <2> QED BY <1>0, <2>3
<1>3. c \in Seq(T) /\ Len(c) = Len(w) - k /\ \A j \in 1..(Len(w) - k) : c[j] = w[k + j]
  <2>1. \A j \in (k + 1)..Len(w) : w[j] \in T BY <1>0
  <2>2. k + 1 \in Int /\ Len(w) \in Int BY <1>0
  <2>3. /\ c \in Seq(T) /\ Len(c) = IF k + 1 <= Len(w) THEN Len(w) - (k + 1) + 1 ELSE 0
        /\ \A j \in 1..(Len(w) - (k + 1) + 1) : c[j] = w[(k + 1) + j - 1]
    BY <2>1, <2>2, SubSeqProperties
  <2> HIDE DEF c
  <2>4. \A j \in 1..(Len(w) - k) : (k + 1) + j - 1 = k + j BY <1>0
  <2> QED BY <1>0, <2>3, <2>4
<1>4. InsertAt(w, k + 1, i) = (a \o <<i>>) \o c
  <2>1. (k + 1) - 1 = k BY <1>0
  <2>2. InsertAt(w, k + 1, i) = SubSeq(w, 1, (k + 1) - 1) \o <<i>> \o SubSeq(w, k + 1, Len(w)) BY DEF InsertAt
  <2> QED BY <2>1, <2>2
<1> HIDE DEF a, c
<1> DEFINE d == a \o <<i>>
           s == d \o c
<1>5. d \in Seq(T) /\ Len(d) = k + 1 /\ \A j \in 1..(k + 1) : d[j] = IF j <= k THEN w[j] ELSE i
  <2>1. <<i>> \in Seq(T) /\ Len(<<i>>) = 1 /\ <<i>>[1] = i OBVIOUS
  <2>2. /\ d \in Seq(T) /\ Len(d) = Len(a) + Len(<<i>>)
        /\ \A j \in 1..(Len(a) + Len(<<i>>)) : d[j] = IF j <= Len(a) THEN a[j] ELSE <<i>>[j - Len(a)]
    BY <1>2, <2>1, ConcatProperties
  <2> HIDE DEF d
  <2>3. \A j \in 1..(k + 1) : j <= k \/ j - k = 1 BY <1>0
  <2> QED BY <1>0, <1>2, <2>1, <2>2, <2>3
<1> HIDE DEF d
<1>6. /\ s \in Seq(T) /\ Len(s) = Len(d) + Len(c)
      /\ \A j \in 1..(Len(d) + Len(c)) : s[j] = IF j <= Len(d) THEN d[j] ELSE c[j - Len(d)]
  BY <1>3, <1>5, ConcatProperties
<1> HIDE DEF s
<1>7. Len(s) = n BY <1>0, <1>3, <1>5, <1>6
<1>8. ASSUME NEW j \in 1..n PROVE v[j] = s[j]
  <2>1. v[j] = IF j <= k THEN w[j] ELSE IF j = k + 1 THEN i ELSE w[j - 1] BY DEF With
  <2>2. s[j] = IF j <= k + 1 THEN d[j] ELSE c[j - (k + 1)] BY <1>5, <1>6, <1>7
  <2>3. CASE j <= k + 1
    <3>1. j \in 1..(k + 1) BY <1>0, <2>3
    <3>2. j <= k \/ j = k + 1 BY <1>0, <2>3
    <3>3. ~(k + 1 <= k) BY <1>0
    <3> HIDE DEF v
    <3> QED BY <1>5, <2>1, <2>2, <2>3, <3>1, <3>2, <3>3
  <2>4. CASE ~(j <= k + 1)
    <3>1. j - (k + 1) \in 1..(Len(w) - k) /\ k + (j - (k + 1)) = j - 1 BY <1>0, <2>4
    <3>2. ~(j <= k) /\ j # k + 1 BY <1>0, <2>4
    <3> HIDE DEF v
    <3> QED BY <1>3, <2>1, <2>2, <2>4, <3>1, <3>2
  <2> QED BY <2>3, <2>4
<1> HIDE DEF v, n
<1>9. v = s BY <1>1, <1>6, <1>7, <1>8, SeqEqual
<1> QED BY <1>1, <1>4, <1>9 DEF v, n, s, d

LEMMA LessFacts ==
  ASSUME NEW T, NEW w \in Seq(T), NEW k \in 1..Len(w)
  PROVE  /\ Less(w, k) \in Seq(T) /\ Len(Less(w, k)) = Len(w) - 1
         /\ Less(w, k) = RemoveAt(w, k)
<1>1. /\ RemoveAt(w, k) \in Seq(T)
      /\ Len(RemoveAt(w, k)) = Len(w) - 1 /\ Len(w) - 1 \in Nat
      /\ \A j \in 1..(Len(w) - 1) : RemoveAt(w, k)[j] = IF j < k THEN w[j] ELSE w[j + 1]
      /\ DOMAIN RemoveAt(w, k) = 1..(Len(w) - 1)
  BY RemoveAtFacts
<1> DEFINE r == RemoveAt(w, k)
<1>2. r = [j \in 1..(Len(w) - 1) |-> r[j]]
  <2>1. r \in [1..Len(r) -> T] BY <1>1, LenProperties
  <2> HIDE DEF r
  <2>2. r = [j \in DOMAIN r |-> r[j]] BY <2>1
  <2> QED BY <1>1, <2>2 DEF r
<1> HIDE DEF r
<1>3. r = Less(w, k) BY <1>1, <1>2 DEF Less, r
<1> QED BY <1>1, <1>3 DEF r

(***************************************************************************)
(* Linking and unlinking, as changes of the list.                          *)
(***************************************************************************)
LEMMA ListOfFacts ==
  ASSUME NEW l, NEW b, NEW w, ListOf(l, b, w)
  PROVE  /\ w \in Seq(Inst) /\ Len(w) \in Nat /\ DOMAIN w = 1..Len(w)
         /\ \A n \in 1..Len(w) : w[n] \in Inst /\ l.block[w[n]] = b
         /\ Distinct(w)
<1>1. w \in Seq(Inst) BY DEF ListOf
<1> QED BY <1>1, LenProperties, ElementOfSeq DEF ListOf, Distinct

\* There is one list of a block.
LEMMA OneList ==
  ASSUME NEW l, NEW b, NEW w, NEW v, ListOf(l, b, w), ListOf(l, b, v)
  PROVE  w = v
<1> USE NoneIsNothing
<1>1. /\ w \in Seq(Inst) /\ Len(w) \in Nat /\ \A n \in 1..Len(w) : w[n] \in Inst
      /\ v \in Seq(Inst) /\ Len(v) \in Nat /\ \A n \in 1..Len(v) : v[n] \in Inst
  BY ListOfFacts
<1>2. /\ l.first[b] = IF Len(w) = 0 THEN NONE ELSE w[1]
      /\ l.first[b] = IF Len(v) = 0 THEN NONE ELSE v[1]
      /\ \A n \in 1..Len(w) : l.next[w[n]] = IF n = Len(w) THEN NONE ELSE w[n + 1]
      /\ \A n \in 1..Len(v) : l.next[v[n]] = IF n = Len(v) THEN NONE ELSE v[n + 1]
  BY DEF ListOf
<1>3. \A n \in Nat : n \in 1..Len(w) => n \in 1..Len(v) /\ w[n] = v[n]
  <2> DEFINE U == {n \in Nat : n \in 1..Len(w) => n \in 1..Len(v) /\ w[n] = v[n]}
  <2>1. 0 \in U OBVIOUS
  <2>2. ASSUME NEW n \in Nat, n \in U PROVE n + 1 \in U
    <3> SUFFICES ASSUME n + 1 \in 1..Len(w) PROVE n + 1 \in 1..Len(v) /\ w[n + 1] = v[n + 1]
      OBVIOUS
    <3>1. CASE n = 0
      <4>1. Len(w) # 0 /\ w[1] \in Inst BY <1>1, <3>1
      <4>2. Len(v) # 0 /\ v[1] = w[1] BY <1>2, <4>1
      <4> QED BY <1>1, <3>1, <4>2
    <3>2. CASE n # 0
      <4>1. n \in 1..Len(w) /\ n # Len(w) BY <1>1, <3>2
      <4>2. n \in 1..Len(v) /\ w[n] = v[n] BY <2>2, <4>1
      <4>3. l.next[w[n]] = w[n + 1] /\ w[n + 1] \in Inst BY <1>1, <1>2, <4>1
      <4>4. n # Len(v) /\ l.next[v[n]] = v[n + 1] BY <1>2, <4>2, <4>3
      <4> QED BY <1>1, <4>2, <4>3, <4>4
    <3> QED BY <3>1, <3>2
  <2> HIDE DEF U
  <2>3. Nat \subseteq U BY <2>1, <2>2, SetInduction
  <2> QED BY <2>3 DEF U
<1>4. Len(w) = Len(v)
  <2>1. Len(w) <= Len(v)
    <3>1. Len(w) # 0 => Len(w) \in 1..Len(v) BY <1>1, <1>3
    <3> QED BY <1>1, <3>1
  <2>2. CASE Len(w) < Len(v)
    <3>1. CASE Len(w) = 0
      <4>1. 1 \in 1..Len(v) BY <1>1, <2>2, <3>1
      <4> QED BY <1>1, <1>2, <3>1, <4>1
    <3>2. CASE Len(w) # 0
      <4> DEFINE n == Len(w)
      <4>1. n \in 1..Len(w) /\ n \in 1..Len(v) /\ n # Len(v) /\ n + 1 \in 1..Len(v)
        BY <1>1, <2>2, <3>2
      <4>2. w[n] = v[n] BY <1>3, <4>1
      <4> HIDE DEF n
      <4>3. l.next[v[n]] = v[n + 1] /\ v[n + 1] \in Inst BY <1>1, <1>2, <4>1
      <4>4. l.next[w[n]] = NONE BY <1>2, <4>1 DEF n
      <4> QED BY <4>2, <4>3, <4>4
    <3> QED BY <3>1, <3>2
  <2> QED BY <1>1, <2>1, <2>2
<1>5. \A n \in 1..Len(w) : w[n] = v[n] BY <1>1, <1>3
<1> QED BY <1>1, <1>4, <1>5, SeqEqual

\* i goes behind the k-th instruction of the list of b, and no other list changes.
LEMMA LinkWalks ==
  ASSUME NEW l, NEW m, NEW b \in Block, NEW w, ListOf(l, b, w), NEW i \in Inst, l.block[i] = NONE,
         NEW k \in 0..Len(w), NEW p, NEW n,
         p = (IF k = 0 THEN NONE ELSE w[k]), n = (IF k = Len(w) THEN NONE ELSE w[k + 1]),
         InsertedIn(l, m, i, b, p, n)
  PROVE  /\ ListOf(m, b, With(w, k, i))
         /\ \A c \in Block : \A v : c # b /\ ListOf(l, c, v) => ListOf(m, c, v)
<1> USE NoneIsNothing
<1> DEFINE s == With(w, k, i)
           L == Len(w)
<1>1. /\ w \in Seq(Inst) /\ L \in Nat /\ \A j \in 1..L : w[j] \in Inst /\ l.block[w[j]] = b
      /\ \A j, h \in 1..L : w[j] = w[h] => j = h
      /\ \A j \in Inst : l.block[j] = b => \E h \in 1..L : w[h] = j
      /\ \A j \in 1..L : /\ l.prev[w[j]] = IF j = 1 THEN NONE ELSE w[j - 1]
                         /\ l.next[w[j]] = IF j = L THEN NONE ELSE w[j + 1]
      /\ l.first[b] = IF L = 0 THEN NONE ELSE w[1]
      /\ l.last[b] = IF L = 0 THEN NONE ELSE w[L]
  BY ListOfFacts DEF ListOf
<1>2. /\ \A c \in Block : /\ m.first[c] = IF p = NONE /\ c = b THEN i ELSE l.first[c]
                          /\ m.last[c] = IF n = NONE /\ c = b THEN i ELSE l.last[c]
      /\ \A j \in Inst : /\ m.prev[j] = IF j = n THEN i ELSE IF j = i THEN p ELSE l.prev[j]
                         /\ m.next[j] = IF j = p THEN i ELSE IF j = i THEN n ELSE l.next[j]
                         /\ m.block[j] = IF j = i THEN b ELSE l.block[j]
  BY DEF InsertedIn
<1>3. s \in Seq(Inst) /\ Len(s) = L + 1 BY <1>1, WithFacts
<1>4. /\ \A j \in 1..(L + 1) : s[j] = IF j <= k THEN w[j] ELSE IF j = k + 1 THEN i ELSE w[j - 1]
      /\ k \in Nat /\ k <= L
  BY <1>1 DEF With
<1>5. i # NONE /\ b # NONE /\ \A j \in 1..L : w[j] # i /\ w[j] # NONE BY <1>1
<1>6. p = (IF k = 0 THEN NONE ELSE w[k]) /\ n = (IF k = L THEN NONE ELSE w[k + 1]) OBVIOUS
<1>7. ASSUME NEW c \in Block, NEW v, c # b, ListOf(l, c, v) PROVE ListOf(m, c, v)
  <2>1. /\ v \in Seq(Inst) /\ Len(v) \in Nat /\ \A j \in 1..Len(v) : v[j] \in Inst /\ l.block[v[j]] = c
    BY <1>7, ListOfFacts
  <2>2. p = NONE \/ (p \in Inst /\ l.block[p] = b)
    <3>1. k # 0 => k \in 1..L BY <1>1, <1>4
    <3> QED BY <1>1, <1>6, <3>1
  <2>3. n = NONE \/ (n \in Inst /\ l.block[n] = b)
    <3>1. k # L => k + 1 \in 1..L BY <1>1, <1>4
    <3> QED BY <1>1, <1>6, <3>1
  <2>4. \A j \in 1..Len(v) : v[j] # i /\ v[j] # p /\ v[j] # n
    BY <1>7, <2>1, <2>2, <2>3
  <2>5. \A j \in 1..Len(v) : /\ m.prev[v[j]] = l.prev[v[j]] /\ m.next[v[j]] = l.next[v[j]]
                             /\ m.block[v[j]] = c
    BY <1>2, <2>1, <2>4
  <2>6. m.first[c] = l.first[c] /\ m.last[c] = l.last[c] BY <1>2, <1>7
  <2>7. \A j \in Inst : m.block[j] = c => l.block[j] = c BY <1>2, <1>7
  <2> QED BY <1>7, <2>5, <2>6, <2>7 DEF ListOf
<1> HIDE DEF s, L
<1>8. \A j \in 1..(L + 1) : m.block[s[j]] = b
  <2> SUFFICES ASSUME NEW j \in 1..(L + 1) PROVE m.block[s[j]] = b OBVIOUS
  <2>1. s[j] = i \/ \E h \in 1..L : s[j] = w[h]
    <3>1. j <= k => j \in 1..L BY <1>1, <1>4
    <3>2. j > k + 1 => j - 1 \in 1..L BY <1>1, <1>4
    <3> QED BY <1>1, <1>4, <3>1, <3>2
  <2>2. CASE s[j] = i BY <1>2, <2>2
  <2>3. ASSUME NEW h \in 1..L, s[j] = w[h] PROVE m.block[s[j]] = b
    <3>1. w[h] \in Inst /\ l.block[w[h]] = b /\ w[h] # i BY <1>1, <1>5
    <3>2. m.block[w[h]] = b BY <1>2, <3>1
    <3> QED BY <2>3, <3>2
  <2> QED BY <2>1, <2>2, <2>3
<1>9. \A j, h \in 1..(L + 1) : s[j] = s[h] => j = h
  <2> DEFINE u(j) == IF j <= k THEN j ELSE j - 1
  <2>1. \A j \in 1..(L + 1) : j # k + 1 => u(j) \in 1..L /\ s[j] = w[u(j)] BY <1>1, <1>4
  <2>2. s[k + 1] = i BY <1>1, <1>4
  <2>3. ASSUME NEW j \in 1..(L + 1), NEW h \in 1..(L + 1), s[j] = s[h] PROVE j = h
    <3>1. CASE j = k + 1 \/ h = k + 1
      <4> HIDE DEF u
      <4> QED BY <1>5, <2>1, <2>2, <2>3, <3>1
    <3>2. CASE j # k + 1 /\ h # k + 1
      <4>1. u(j) = u(h)
        <5> HIDE DEF u
        <5>1. u(j) \in 1..L /\ u(h) \in 1..L /\ s[j] = w[u(j)] /\ s[h] = w[u(h)]
          BY <2>1, <2>3, <3>2
        <5>2. w[u(j)] = w[u(h)] BY <2>3, <5>1
        <5>3. \A x, y \in 1..L : w[x] = w[y] => x = y BY <1>1
        <5> QED BY <5>1, <5>2, <5>3
      <4> QED BY <1>1, <1>4, <3>2, <4>1
    <3> QED BY <3>1, <3>2
  <2> QED BY <2>3
<1>10. ASSUME NEW j \in Inst, m.block[j] = b PROVE \E h \in 1..(L + 1) : s[h] = j
  <2>1. CASE j = i
    <3>1. k + 1 \in 1..(L + 1) /\ s[k + 1] = i BY <1>1, <1>4
    <3> QED BY <2>1, <3>1
  <2>2. CASE j # i
    <3>1. PICK h \in 1..L : w[h] = j BY <1>1, <1>2, <1>10, <2>2
    <3>2. CASE h <= k
      <4>1. h \in 1..(L + 1) /\ s[h] = j BY <1>1, <1>4, <3>1, <3>2
      <4> QED BY <4>1
    <3>3. CASE ~(h <= k)
      <4>1. h + 1 \in 1..(L + 1) /\ ~(h + 1 <= k) /\ h + 1 # k + 1 /\ (h + 1) - 1 = h
        BY <1>1, <1>4, <3>1, <3>3
      <4>2. s[h + 1] = j BY <1>4, <3>1, <4>1
      <4> QED BY <4>1, <4>2
    <3> QED BY <3>2, <3>3
  <2> QED BY <2>1, <2>2
<1>11. ASSUME NEW j \in 1..(L + 1) PROVE m.prev[s[j]] = IF j = 1 THEN NONE ELSE s[j - 1]
  <2>1. CASE j = k + 1
    <3>1. s[j] = i /\ i # n
      <4>1. k # L => k + 1 \in 1..L BY <1>1, <1>4
      <4> QED BY <1>4, <1>5, <1>6, <2>1, <4>1
    <3>2. m.prev[i] = p BY <1>2, <3>1
    <3>3. CASE k = 0 BY <1>6, <2>1, <3>1, <3>2, <3>3
    <3>4. CASE k # 0
      <4>1. j # 1 /\ j - 1 = k /\ k \in 1..(L + 1) /\ k <= k BY <1>1, <1>4, <2>1, <3>4
      <4>2. s[j - 1] = w[k] BY <1>4, <4>1
      <4> QED BY <1>6, <3>1, <3>2, <3>4, <4>1, <4>2
    <3> QED BY <3>3, <3>4
  <2>2. CASE j <= k
    <3>1. j \in 1..L /\ s[j] = w[j] BY <1>1, <1>4, <2>2
    <3>2. s[j] # n
      <4>1. k # L => k + 1 \in 1..L /\ k + 1 # j BY <1>1, <1>4, <2>2
      <4> QED BY <1>1, <1>5, <1>6, <3>1, <4>1
    <3>3. m.prev[s[j]] = l.prev[w[j]] BY <1>1, <1>2, <1>5, <3>1, <3>2
    <3>4. j # 1 => j - 1 \in 1..(L + 1) /\ j - 1 <= k BY <1>1, <1>4, <2>2
    <3>5. j # 1 => s[j - 1] = w[j - 1] BY <1>4, <3>4
    <3> QED BY <1>1, <3>1, <3>3, <3>5
  <2>3. CASE ~(j <= k) /\ j # k + 1
    <3>1. j - 1 \in 1..L /\ s[j] = w[j - 1] /\ j # 1 BY <1>1, <1>4, <2>3
    <3>2. CASE j = k + 2
      <4>1. k # L /\ j - 1 = k + 1 /\ k + 1 \in 1..(L + 1) BY <1>1, <1>4, <3>2
      <4>2. s[j] = n BY <1>6, <3>1, <4>1
      <4>3. s[k + 1] = i
        <5>1. ~(k + 1 <= k) BY <1>4
        <5> QED BY <1>4, <4>1, <5>1
      <4>4. s[j] \in Inst BY <1>1, <3>1
      <4>5. m.prev[s[j]] = i BY <1>2, <4>2, <4>4
      <4>6. j - 1 = k + 1 BY <4>1
      <4> QED BY <3>1, <4>3, <4>5, <4>6
    <3>3. CASE j # k + 2
      <4>1. s[j] # n /\ s[j] # i
        <5>1. k # L => k + 1 \in 1..L /\ k + 1 # j - 1 BY <1>1, <1>4, <2>3, <3>3
        <5> QED BY <1>1, <1>5, <1>6, <3>1, <5>1
      <4>2. m.prev[s[j]] = l.prev[w[j - 1]] BY <1>1, <1>2, <3>1, <4>1
      <4>3. j - 1 # 1 /\ ~(j - 1 <= k) /\ j - 1 # k + 1 /\ j - 1 \in 1..(L + 1)
        BY SMTT(30), <1>1, <1>4, <2>3, <3>3
      <4>4. s[j - 1] = w[(j - 1) - 1] BY <1>4, <4>3
      <4> QED BY <1>1, <3>1, <4>2, <4>3, <4>4
    <3> QED BY <3>2, <3>3
  <2> QED BY <2>1, <2>2, <2>3
<1>12. ASSUME NEW j \in 1..(L + 1) PROVE m.next[s[j]] = IF j = L + 1 THEN NONE ELSE s[j + 1]
  <2>1. CASE j = k + 1
    <3>1. s[j] = i /\ i # p
      <4>1. k # 0 => k \in 1..L BY <1>1, <1>4
      <4> QED BY <1>4, <1>5, <1>6, <2>1, <4>1
    <3>2. m.next[i] = n BY <1>2, <3>1
    <3>3. CASE k = L BY <1>6, <2>1, <3>1, <3>2, <3>3
    <3>4. CASE k # L
      <4>1. j # L + 1 /\ j + 1 \in 1..(L + 1) /\ ~(j + 1 <= k) /\ j + 1 # k + 1 /\ (j + 1) - 1 = k + 1
        BY <1>1, <1>4, <2>1, <3>4
      <4>2. s[j + 1] = w[k + 1] BY <1>4, <4>1
      <4> QED BY <1>6, <3>1, <3>2, <3>4, <4>1, <4>2
    <3> QED BY <3>3, <3>4
  <2>2. CASE j <= k
    <3>1. j \in 1..L /\ s[j] = w[j] /\ j # L + 1 BY <1>1, <1>4, <2>2
    <3>2. CASE j = k
      <4>1. s[j] = p /\ p # i BY <1>5, <1>6, <3>1, <3>2, <1>1
      <4>2. m.next[s[j]] = i BY <1>1, <1>2, <3>1, <4>1
      <4>3. j + 1 = k + 1 /\ j + 1 \in 1..(L + 1) /\ ~(j + 1 <= k) BY <1>1, <1>4, <3>2
      <4> QED BY <1>4, <3>1, <4>2, <4>3
    <3>3. CASE j # k
      <4>1. s[j] # p
        <5>1. k # 0 => k \in 1..L BY <1>1, <1>4
        <5> QED BY <1>1, <1>5, <1>6, <3>1, <3>3, <5>1
      <4>2. m.next[s[j]] = l.next[w[j]] BY <1>1, <1>2, <1>5, <3>1, <4>1
      <4>3. j # L /\ j + 1 \in 1..(L + 1) /\ j + 1 <= k BY <1>1, <1>4, <2>2, <3>3
      <4>4. s[j + 1] = w[j + 1] BY <1>4, <4>3
      <4> QED BY <1>1, <3>1, <4>2, <4>3, <4>4
    <3> QED BY <3>2, <3>3
  <2>3. CASE ~(j <= k) /\ j # k + 1
    <3>1. j - 1 \in 1..L /\ s[j] = w[j - 1] BY <1>1, <1>4, <2>3
    <3>2. s[j] # p /\ s[j] # i
      <4>1. k # 0 => k \in 1..L /\ k # j - 1 BY <1>1, <1>4, <2>3
      <4> QED BY <1>1, <1>5, <1>6, <3>1, <4>1
    <3>3. m.next[s[j]] = l.next[w[j - 1]] BY <1>1, <1>2, <3>1, <3>2
    <3>4. CASE j = L + 1
      <4>1. j - 1 = L BY <1>1, <3>4
      <4> QED BY <1>1, <3>1, <3>3, <3>4, <4>1
    <3>5. CASE j # L + 1
      <4>1. j + 1 \in 1..(L + 1) /\ ~(j + 1 <= k) /\ j + 1 # k + 1 /\ (j + 1) - 1 = j /\ j - 1 # L
            /\ (j - 1) + 1 = j
        BY <1>1, <1>4, <2>3, <3>5
      <4>2. s[j + 1] = w[j] BY <1>4, <4>1
      <4> QED BY <1>1, <3>1, <3>3, <3>5, <4>1, <4>2
    <3> QED BY <3>4, <3>5
  <2> QED BY <1>1, <1>4, <2>1, <2>2, <2>3
<1>13. m.first[b] = s[1]
  <2>1. 1 \in 1..(L + 1) BY <1>1
  <2>2. CASE k = 0
    <3>1. s[1] = i BY <1>4, <2>1, <2>2
    <3> QED BY <1>2, <1>6, <2>2, <3>1
  <2>3. CASE k # 0
    <3>1. 1 <= k /\ L # 0 /\ k \in 1..L BY <1>1, <1>4, <2>3
    <3>2. s[1] = w[1] BY <1>4, <2>1, <3>1
    <3>3. p # NONE BY <1>5, <1>6, <2>3, <3>1
    <3> QED BY <1>1, <1>2, <3>1, <3>2, <3>3
  <2> QED BY <2>2, <2>3
<1>14. m.last[b] = s[L + 1]
  <2>1. L + 1 \in 1..(L + 1) BY <1>1
  <2>2. CASE k = L
    <3>1. s[L + 1] = i
      <4>1. ~(L + 1 <= L) BY <1>1
      <4> QED BY <1>4, <2>1, <2>2, <4>1
    <3> QED BY <1>2, <1>6, <2>2, <3>1
  <2>3. CASE k # L
    <3>1. ~(L + 1 <= k) /\ L + 1 # k + 1 /\ (L + 1) - 1 = L /\ L # 0 /\ k + 1 \in 1..L
      BY <1>1, <1>4, <2>3
    <3>2. s[L + 1] = w[L] BY <1>4, <2>1, <3>1
    <3>3. n # NONE BY <1>5, <1>6, <2>3, <3>1
    <3> QED BY <1>1, <1>2, <3>1, <3>2, <3>3
  <2> QED BY <2>2, <2>3
<1>15. Len(s) <= MaxInsts
  <2>1. s \in Seq(1..MaxInsts) /\ Distinct(s) BY <1>3, <1>9 DEF Inst, Distinct
  <2> QED BY <2>1, Bounds, DistinctShort
<1>16. Len(s) # 0 BY <1>1, <1>3
<1>17. ListOf(m, b, s)
  <2>1. \A j \in 1..Len(s) : m.block[s[j]] = b BY <1>3, <1>8
  <2>2. \A j, h \in 1..Len(s) : s[j] = s[h] => j = h BY <1>3, <1>9
  <2>3. \A j \in Inst : m.block[j] = b => \E h \in 1..Len(s) : s[h] = j BY <1>3, <1>10
  <2>4. \A j \in 1..Len(s) : /\ m.prev[s[j]] = IF j = 1 THEN NONE ELSE s[j - 1]
                             /\ m.next[s[j]] = IF j = Len(s) THEN NONE ELSE s[j + 1]
    BY <1>3, <1>11, <1>12
  <2> QED BY <1>3, <1>13, <1>14, <1>15, <1>16, <2>1, <2>2, <2>3, <2>4 DEF ListOf
<1> QED BY <1>7, <1>17 DEF s

\* The k-th instruction of b leaves its list, and no other list changes.
LEMMA UnlinkWalks ==
  ASSUME NEW l, NEW m, NEW b \in Block, NEW w, ListOf(l, b, w), NEW k \in 1..Len(w),
         TakenFrom(l, m, w[k])
  PROVE  /\ ListOf(m, b, Less(w, k))
         /\ \A c \in Block : \A v : c # b /\ ListOf(l, c, v) => ListOf(m, c, v)
<1> USE NoneIsNothing
<1> DEFINE s == Less(w, k)
           L == Len(w)
           i == w[k]
           p == l.prev[i]
           n == l.next[i]
<1>1. /\ w \in Seq(Inst) /\ L \in Nat /\ \A j \in 1..L : w[j] \in Inst /\ l.block[w[j]] = b
      /\ \A j, h \in 1..L : w[j] = w[h] => j = h
      /\ \A j \in Inst : l.block[j] = b => \E h \in 1..L : w[h] = j
      /\ \A j \in 1..L : /\ l.prev[w[j]] = IF j = 1 THEN NONE ELSE w[j - 1]
                         /\ l.next[w[j]] = IF j = L THEN NONE ELSE w[j + 1]
      /\ l.first[b] = IF L = 0 THEN NONE ELSE w[1]
      /\ l.last[b] = IF L = 0 THEN NONE ELSE w[L]
  BY ListOfFacts DEF ListOf
<1>2. /\ i \in Inst /\ l.block[i] = b /\ k \in Nat /\ k >= 1 /\ k <= L
      /\ p = (IF k = 1 THEN NONE ELSE w[k - 1]) /\ n = (IF k = L THEN NONE ELSE w[k + 1])
  BY <1>1
<1>3. /\ \A c \in Block : /\ m.first[c] = IF p = NONE /\ c = b THEN n ELSE l.first[c]
                          /\ m.last[c] = IF n = NONE /\ c = b THEN p ELSE l.last[c]
      /\ \A j \in Inst : /\ m.prev[j] = IF j = i THEN NONE ELSE IF j = n THEN p ELSE l.prev[j]
                         /\ m.next[j] = IF j = i THEN NONE ELSE IF j = p THEN n ELSE l.next[j]
                         /\ m.block[j] = IF j = i THEN NONE ELSE l.block[j]
  BY <1>2 DEF TakenFrom
<1>4. s \in Seq(Inst) /\ Len(s) = L - 1 BY <1>1, LessFacts
<1>5. \A j \in 1..(L - 1) : s[j] = IF j < k THEN w[j] ELSE w[j + 1]
  BY DEF Less
<1> HIDE DEF s, L, i, p, n
<1>6. i # NONE /\ b # NONE /\ \A j \in 1..L : w[j] # NONE BY <1>1, <1>2
<1>7. \A j \in 1..L : (w[j] = i => j = k) /\ (w[j] = p => j = k - 1) /\ (w[j] = n => j = k + 1)
  <2>0. k \in 1..L /\ w[k] = i BY <1>2 DEF i
  <2>1. k # 1 => k - 1 \in 1..L /\ p = w[k - 1] BY <1>1, <1>2
  <2>2. k # L => k + 1 \in 1..L /\ n = w[k + 1] BY <1>1, <1>2
  <2>3. (k = 1 => p = NONE) /\ (k = L => n = NONE) BY <1>2
  <2> QED BY SMTT(30), <1>1, <1>6, <2>0, <2>1, <2>2, <2>3
<1>8. ASSUME NEW c \in Block, NEW v, c # b, ListOf(l, c, v) PROVE ListOf(m, c, v)
  <2>1. /\ v \in Seq(Inst) /\ Len(v) \in Nat /\ \A j \in 1..Len(v) : v[j] \in Inst /\ l.block[v[j]] = c
    BY <1>8, ListOfFacts
  <2>2. p = NONE \/ (p \in Inst /\ l.block[p] = b)
    <3>1. k # 1 => k - 1 \in 1..L BY <1>1, <1>2
    <3> QED BY <1>1, <1>2, <3>1
  <2>3. n = NONE \/ (n \in Inst /\ l.block[n] = b)
    <3>1. k # L => k + 1 \in 1..L BY <1>1, <1>2
    <3> QED BY <1>1, <1>2, <3>1
  <2>4. \A j \in 1..Len(v) : v[j] # i /\ v[j] # p /\ v[j] # n
    BY <1>2, <1>8, <2>1, <2>2, <2>3
  <2>5. \A j \in 1..Len(v) : /\ m.prev[v[j]] = l.prev[v[j]] /\ m.next[v[j]] = l.next[v[j]]
                             /\ m.block[v[j]] = c
    BY <1>3, <2>1, <2>4
  <2>6. m.first[c] = l.first[c] /\ m.last[c] = l.last[c] BY <1>3, <1>8
  <2>7. \A j \in Inst : m.block[j] = c => l.block[j] = c BY <1>3, <1>8
  <2> QED BY <1>8, <2>5, <2>6, <2>7 DEF ListOf
\* Where the j-th element of s was.
<1> DEFINE u(j) == IF j < k THEN j ELSE j + 1
<1>9. \A j \in 1..(L - 1) : u(j) \in 1..L /\ u(j) # k /\ s[j] = w[u(j)] /\ s[j] \in Inst /\ s[j] # i
  <2> SUFFICES ASSUME NEW j \in 1..(L - 1)
               PROVE  u(j) \in 1..L /\ u(j) # k /\ s[j] = w[u(j)] /\ s[j] \in Inst /\ s[j] # i
    OBVIOUS
  <2>1. u(j) \in 1..L /\ u(j) # k BY <1>1, <1>2
  <2>2. s[j] = w[u(j)] BY <1>5
  <2> HIDE DEF u
  <2> QED BY <1>1, <1>7, <2>1, <2>2
<1>10. \A j \in 1..(L - 1) : m.block[s[j]] = b
  <2> SUFFICES ASSUME NEW j \in 1..(L - 1) PROVE m.block[s[j]] = b OBVIOUS
  <2> HIDE DEF u
  <2>1. u(j) \in 1..L /\ s[j] = w[u(j)] /\ s[j] \in Inst /\ s[j] # i BY <1>9
  <2>2. l.block[s[j]] = b BY <1>1, <2>1
  <2> QED BY <1>3, <2>1, <2>2
<1>11. \A j, h \in 1..(L - 1) : s[j] = s[h] => j = h
  <2> SUFFICES ASSUME NEW j \in 1..(L - 1), NEW h \in 1..(L - 1), s[j] = s[h] PROVE j = h OBVIOUS
  <2>1. u(j) = u(h)
    <3> HIDE DEF u
    <3>1. u(j) \in 1..L /\ u(h) \in 1..L /\ s[j] = w[u(j)] /\ s[h] = w[u(h)] BY <1>9
    <3> QED BY <1>1, <3>1
  <2> QED BY <1>1, <1>2, <2>1
<1>12. ASSUME NEW j \in Inst, m.block[j] = b PROVE \E h \in 1..(L - 1) : s[h] = j
  <2>1. j # i /\ l.block[j] = b BY <1>3, <1>6, <1>12
  <2>2. PICK h \in 1..L : w[h] = j BY <1>1, <2>1
  <2>3. h # k BY <2>1, <2>2 DEF i
  <2>4. CASE h < k
    <3>1. h \in 1..(L - 1) BY <1>1, <1>2, <2>4
    <3> QED BY <1>5, <2>2, <2>4, <3>1
  <2>5. CASE ~(h < k)
    <3>1. h - 1 \in 1..(L - 1) /\ ~(h - 1 < k) /\ (h - 1) + 1 = h BY <1>1, <1>2, <2>3, <2>5
    <3>2. s[h - 1] = w[h] BY <1>5, <3>1
    <3> QED BY <2>2, <3>1, <3>2
  <2> QED BY <2>4, <2>5
<1>13. ASSUME NEW j \in 1..(L - 1) PROVE m.prev[s[j]] = IF j = 1 THEN NONE ELSE s[j - 1]
  <2>0. s[j] \in Inst /\ s[j] # i BY <1>9
  <2>1. CASE j < k
    <3>1. j \in 1..L /\ s[j] = w[j] /\ j # k + 1 BY <1>1, <1>2, <1>5, <2>1
    <3>2. s[j] # n BY <1>7, <3>1
    <3>3. m.prev[s[j]] = l.prev[w[j]] BY <1>3, <2>0, <3>1, <3>2
    <3>4. j # 1 => j - 1 \in 1..(L - 1) /\ j - 1 < k BY <1>1, <1>2, <2>1
    <3>5. j # 1 => s[j - 1] = w[j - 1] BY <1>5, <3>4
    <3> QED BY <1>1, <3>1, <3>3, <3>5
  <2>2. CASE j = k
    <3>1. k # L /\ ~(j < k) /\ j + 1 = k + 1 BY <1>1, <1>2, <2>2
    <3>2. s[j] = n BY <1>2, <1>5, <3>1
    <3>3. m.prev[s[j]] = p BY <1>3, <2>0, <3>2
    <3>4. j # 1 => j - 1 \in 1..(L - 1) /\ j - 1 < k /\ j - 1 = k - 1 BY <1>1, <1>2, <2>2
    <3>5. j # 1 => s[j - 1] = w[k - 1] BY <1>5, <3>4
    <3> QED BY <1>2, <2>2, <3>3, <3>5
  <2>3. CASE j > k
    <3>1. /\ j + 1 \in 1..L /\ s[j] = w[j + 1] /\ j + 1 # k + 1 /\ j # 1 /\ (j + 1) - 1 = j
          /\ j - 1 \in 1..(L - 1) /\ ~(j - 1 < k) /\ (j - 1) + 1 = j /\ j + 1 # 1
      BY <1>1, <1>2, <1>5, <2>3
    <3>2. s[j] # n BY <1>7, <3>1
    <3>3. m.prev[s[j]] = l.prev[w[j + 1]] BY <1>3, <2>0, <3>1, <3>2
    <3>4. l.prev[w[j + 1]] = w[j]
      <4>1. l.prev[w[j + 1]] = IF j + 1 = 1 THEN NONE ELSE w[(j + 1) - 1] BY <1>1, <3>1
      <4> QED BY <3>1, <4>1
    <3>5. s[j - 1] = w[j]
      <4>1. s[j - 1] = IF j - 1 < k THEN w[j - 1] ELSE w[(j - 1) + 1] BY <1>5, <3>1
      <4> QED BY <3>1, <4>1
    <3> QED BY <3>1, <3>3, <3>4, <3>5
  <2> QED BY <1>1, <1>2, <2>1, <2>2, <2>3
<1>14. ASSUME NEW j \in 1..(L - 1) PROVE m.next[s[j]] = IF j = L - 1 THEN NONE ELSE s[j + 1]
  <2>0. s[j] \in Inst /\ s[j] # i BY <1>9
  <2>1. CASE j < k - 1
    <3>1. /\ j \in 1..L /\ j < k /\ j # k - 1 /\ j # L /\ j # L - 1
          /\ j + 1 \in 1..(L - 1) /\ j + 1 < k
      BY <1>1, <1>2, <2>1
    <3>2. s[j] = w[j] /\ s[j + 1] = w[j + 1] BY <1>5, <3>1
    <3>3. s[j] # p BY <1>7, <3>1, <3>2
    <3>4. m.next[s[j]] = l.next[w[j]] BY <1>3, <2>0, <3>2, <3>3
    <3> QED BY <1>1, <3>1, <3>2, <3>4
  <2>2. CASE j = k - 1
    <3>1. j < k /\ k # 1 BY <1>1, <1>2, <2>2
    <3>2. s[j] = p BY <1>2, <1>5, <2>2, <3>1
    <3>3. m.next[s[j]] = n BY <1>3, <2>0, <3>2
    <3>4. CASE k = L BY <1>2, <2>2, <3>3, <3>4
    <3>5. CASE k # L
      <4>1. j # L - 1 /\ j + 1 \in 1..(L - 1) /\ ~(j + 1 < k) /\ (j + 1) + 1 = k + 1
        BY <1>1, <1>2, <2>2, <3>5
      <4>2. s[j + 1] = IF j + 1 < k THEN w[j + 1] ELSE w[(j + 1) + 1] BY <1>5, <4>1
      <4> QED BY <1>2, <3>3, <3>5, <4>1, <4>2
    <3> QED BY <3>4, <3>5
  <2>3. CASE j >= k
    <3>1. ~(j < k) /\ j + 1 \in 1..L /\ j + 1 # k - 1 BY <1>1, <1>2, <2>3
    <3>2. s[j] = w[j + 1] BY <1>5, <3>1
    <3>3. s[j] # p BY <1>7, <3>1, <3>2
    <3>4. m.next[s[j]] = l.next[w[j + 1]] BY <1>3, <2>0, <3>2, <3>3
    <3>5. l.next[w[j + 1]] = IF j + 1 = L THEN NONE ELSE w[(j + 1) + 1] BY <1>1, <3>1
    <3>6. CASE j = L - 1
      <4>1. j + 1 = L BY <1>1, <3>6
      <4> QED BY <3>4, <3>5, <3>6, <4>1
    <3>7. CASE j # L - 1
      <4>1. j + 1 # L /\ j + 1 \in 1..(L - 1) /\ ~(j + 1 < k) BY <1>1, <1>2, <2>3, <3>7
      <4>2. s[j + 1] = w[(j + 1) + 1] BY <1>5, <4>1
      <4> QED BY <3>4, <3>5, <3>7, <4>1, <4>2
    <3> QED BY <3>6, <3>7
  <2> QED BY <1>1, <1>2, <2>1, <2>2, <2>3
<1>15. m.first[b] = IF L - 1 = 0 THEN NONE ELSE s[1]
  <2>1. CASE k = 1
    <3>1. m.first[b] = n BY <1>2, <1>3, <2>1
    <3>2. CASE L = 1 BY <1>2, <2>1, <3>1, <3>2
    <3>3. CASE L # 1
      <4>1. 1 \in 1..(L - 1) /\ ~(1 < k) /\ 1 + 1 = k + 1 /\ L - 1 # 0 /\ k # L BY <1>1, <1>2, <2>1, <3>3
      <4>2. s[1] = IF 1 < k THEN w[1] ELSE w[1 + 1] BY <1>5, <4>1
      <4> QED BY <1>2, <3>1, <4>1, <4>2
    <3> QED BY <3>2, <3>3
  <2>2. CASE k # 1
    <3>1. 1 \in 1..(L - 1) /\ 1 < k /\ L - 1 # 0 /\ L # 0 /\ k - 1 \in 1..L BY <1>1, <1>2, <2>2
    <3>2. p # NONE BY <1>2, <1>6, <2>2, <3>1
    <3>3. s[1] = w[1] BY <1>5, <3>1
    <3> QED BY <1>1, <1>3, <3>1, <3>2, <3>3
  <2> QED BY <2>1, <2>2
<1>16. m.last[b] = IF L - 1 = 0 THEN NONE ELSE s[L - 1]
  <2>1. CASE k = L
    <3>1. m.last[b] = p BY <1>2, <1>3, <2>1
    <3>2. CASE L = 1 BY <1>2, <2>1, <3>1, <3>2
    <3>3. CASE L # 1
      <4>1. L - 1 \in 1..(L - 1) /\ L - 1 < k /\ L - 1 # 0 /\ k # 1 /\ L - 1 = k - 1
        BY <1>1, <1>2, <2>1, <3>3
      <4>2. s[L - 1] = w[L - 1] BY <1>5, <4>1
      <4> QED BY <1>2, <3>1, <4>1, <4>2
    <3> QED BY <3>2, <3>3
  <2>2. CASE k # L
    <3>1. /\ L - 1 \in 1..(L - 1) /\ ~(L - 1 < k) /\ (L - 1) + 1 = L /\ L - 1 # 0 /\ L # 0
          /\ k + 1 \in 1..L
      BY <1>1, <1>2, <2>2
    <3>2. n # NONE BY <1>2, <1>6, <2>2, <3>1
    <3>3. s[L - 1] = w[L]
      <4>1. s[L - 1] = IF L - 1 < k THEN w[L - 1] ELSE w[(L - 1) + 1] BY <1>5, <3>1
      <4> QED BY <3>1, <4>1
    <3> QED BY <1>1, <1>3, <3>1, <3>2, <3>3
  <2> QED BY <2>1, <2>2
<1>17. L - 1 \in Nat /\ L - 1 <= MaxInsts
  <2>1. L <= MaxInsts /\ MaxInsts \in Nat BY Bounds DEF ListOf, L
  <2> QED BY <1>1, <1>2, <2>1
<1>18. ListOf(m, b, s)
  <2>1. \A j \in 1..Len(s) : m.block[s[j]] = b BY <1>4, <1>10
  <2>2. \A j, h \in 1..Len(s) : s[j] = s[h] => j = h BY <1>4, <1>11
  <2>3. \A j \in Inst : m.block[j] = b => \E h \in 1..Len(s) : s[h] = j BY <1>4, <1>12
  <2>4. \A j \in 1..Len(s) : /\ m.prev[s[j]] = IF j = 1 THEN NONE ELSE s[j - 1]
                             /\ m.next[s[j]] = IF j = Len(s) THEN NONE ELSE s[j + 1]
    BY <1>4, <1>13, <1>14
  <2> QED BY <1>4, <1>15, <1>16, <1>17, <2>1, <2>2, <2>3, <2>4 DEF ListOf
<1> QED BY <1>8, <1>18 DEF s

------------------------------------------------------------------------------
(***************************************************************************)
(* Positions as gaps.                                                      *)
(***************************************************************************)
\* Position p is the gap behind the k-th instruction of the list w of b.
Stands(p, b, w, k) ==
    \/ p = End(b) /\ k = Len(w)
    \/ \E n \in 1..Len(w) : p = Before(w[n]) /\ k = n - 1
    \/ \E n \in 1..Len(w) : p = After(w[n]) /\ k = n

LEMMA PositionFields ==
  /\ \A b : End(b).where = "end" /\ End(b).of = b
  /\ \A i : Before(i).where = "before" /\ Before(i).of = i
  /\ \A i : After(i).where = "after" /\ After(i).of = i
BY DEF End, Before, After

LEMMA StandsSomewhere ==
  ASSUME NEW l, NEW p, Place(l, p), NEW w, ListOf(l, PlaceBlock(l, p), w)
  PROVE  \E k \in 0..Len(w) : Stands(p, PlaceBlock(l, p), w, k)
<1>1. /\ Len(w) \in Nat
      /\ \A i \in Inst : l.block[i] = PlaceBlock(l, p) => \E n \in 1..Len(w) : w[n] = i
  BY ListOfFacts DEF ListOf
<1>2. CASE \E b \in Block : p = End(b)
  <2>1. PICK b \in Block : p = End(b) BY <1>2
  <2>2. PlaceBlock(l, p) = b BY <2>1, PositionFields DEF PlaceBlock
  <2>3. Len(w) \in 0..Len(w) BY <1>1
  <2> QED BY <2>1, <2>2, <2>3 DEF Stands
<1>3. ASSUME NEW i \in Inst, l.block[i] # NONE, p = Before(i) \/ p = After(i)
      PROVE  \E k \in 0..Len(w) : Stands(p, PlaceBlock(l, p), w, k)
  <2>1. l.block[i] = PlaceBlock(l, p) BY <1>3, PositionFields DEF PlaceBlock
  <2>2. PICK n \in 1..Len(w) : w[n] = i BY <1>1, <2>1
  <2>3. n - 1 \in 0..Len(w) /\ n \in 0..Len(w) BY <1>1
  <2> HIDE DEF PlaceBlock
  <2> QED BY <1>3, <2>2, <2>3 DEF Stands
<1> QED BY <1>2, <1>3 DEF Place

\* What a position of a list is between, and in which block.
LEMMA StandsFacts ==
  ASSUME NEW l, NEW b, NEW w, ListOf(l, b, w), NEW p, NEW k, Stands(p, b, w, k)
  PROVE  /\ k \in 0..Len(w) /\ PlaceBlock(l, p) = b
         /\ p.where = "end" => p.of = b /\ k = Len(w)
         /\ p.where = "before" => k + 1 \in 1..Len(w) /\ p.of = w[k + 1]
         /\ p.where = "after" => k \in 1..Len(w) /\ p.of = w[k]
         /\ p.where \in {"end", "before", "after"}
<1>1. Len(w) \in Nat /\ \A n \in 1..Len(w) : l.block[w[n]] = b BY ListOfFacts
<1>2. CASE p = End(b) /\ k = Len(w) BY <1>1, <1>2, PositionFields DEF PlaceBlock
<1>3. CASE \E n \in 1..Len(w) : p = Before(w[n]) /\ k = n - 1
  <2>1. PICK n \in 1..Len(w) : p = Before(w[n]) /\ k = n - 1 BY <1>3
  <2>2. p.where = "before" /\ p.of = w[n] BY <2>1, PositionFields
  <2>3. k \in 0..Len(w) /\ k + 1 = n BY <1>1, <2>1
  <2> QED BY <1>1, <2>2, <2>3 DEF PlaceBlock
<1>4. CASE \E n \in 1..Len(w) : p = After(w[n]) /\ k = n
  <2>1. PICK n \in 1..Len(w) : p = After(w[n]) /\ k = n BY <1>4
  <2>2. p.where = "after" /\ p.of = w[n] BY <2>1, PositionFields
  <2>3. k \in 0..Len(w) BY <1>1, <2>1
  <2> QED BY <1>1, <2>1, <2>2, <2>3 DEF PlaceBlock
<1> QED BY <1>2, <1>3, <1>4 DEF Stands

\* link_at_end, link_before and link_after insert into the gap.
LEMMA LinkAtWalks ==
  ASSUME NEW l, ListType(l), NEW b \in Block, NEW w, ListOf(l, b, w), NEW i \in Inst,
         l.block[i] = NONE, NEW to, NEW k, Stands(to, b, w, k), NEW m, m = LinkAt(l, i, to)
  PROVE  /\ k \in 0..Len(w)
         /\ ListOf(m, b, With(w, k, i))
         /\ \A c \in Block : \A v : c # b /\ ListOf(l, c, v) => ListOf(m, c, v)
<1> DEFINE p == IF k = 0 THEN NONE ELSE w[k]
           n == IF k = Len(w) THEN NONE ELSE w[k + 1]
<1>1. /\ Len(w) \in Nat /\ \A j \in 1..Len(w) : w[j] \in Inst /\ l.block[w[j]] = b
      /\ \A j \in 1..Len(w) : /\ l.prev[w[j]] = IF j = 1 THEN NONE ELSE w[j - 1]
                              /\ l.next[w[j]] = IF j = Len(w) THEN NONE ELSE w[j + 1]
      /\ l.last[b] = IF Len(w) = 0 THEN NONE ELSE w[Len(w)]
  BY ListOfFacts DEF ListOf
<1>2. /\ k \in 0..Len(w)
      /\ to.where = "end" => to.of = b /\ k = Len(w)
      /\ to.where = "before" => k + 1 \in 1..Len(w) /\ to.of = w[k + 1]
      /\ to.where = "after" => k \in 1..Len(w) /\ to.of = w[k]
      /\ to.where \in {"end", "before", "after"}
  BY StandsFacts
<1>3. p \in Inst \cup {NONE} /\ n \in Inst \cup {NONE}
  <2>1. (k # 0 => k \in 1..Len(w)) /\ (k # Len(w) => k + 1 \in 1..Len(w)) BY <1>1, <1>2
  <2> QED BY <1>1, <2>1
<1>4. m = LinkBetween(l, i, b, p, n)
  <2>1. CASE to.where = "end"
    <3>1. m = LinkBetween(l, i, b, l.last[b], NONE) BY <1>2, <2>1 DEF LinkAt
    <3>2. l.last[b] = p /\ n = NONE BY <1>1, <1>2, <2>1
    <3> QED BY <3>1, <3>2
  <2>2. CASE to.where = "before"
    <3>1. m = LinkBetween(l, i, l.block[w[k + 1]], l.prev[w[k + 1]], w[k + 1])
      BY <1>2, <2>2 DEF LinkAt
    <3>2. k + 1 \in 1..Len(w) /\ k # Len(w) /\ (k + 1 = 1 <=> k = 0) /\ (k + 1) - 1 = k
      BY <1>1, <1>2, <2>2
    <3>3. l.block[w[k + 1]] = b /\ l.prev[w[k + 1]] = p /\ w[k + 1] = n BY <1>1, <3>2
    <3> QED BY <3>1, <3>3
  <2>3. CASE to.where = "after"
    <3>1. m = LinkBetween(l, i, l.block[w[k]], w[k], l.next[w[k]]) BY <1>2, <2>3 DEF LinkAt
    <3>2. k \in 1..Len(w) /\ k # 0 BY <1>1, <1>2, <2>3
    <3>3. l.block[w[k]] = b /\ l.next[w[k]] = n /\ w[k] = p BY <1>1, <3>2
    <3> QED BY <3>1, <3>3
  <2> QED BY <1>2, <2>1, <2>2, <2>3
<1> HIDE DEF p, n
<1>5. InsertedIn(l, m, i, b, p, n) BY <1>3, <1>4, LinkBetweenFields
<1>6. p = (IF k = 0 THEN NONE ELSE w[k]) /\ n = (IF k = Len(w) THEN NONE ELSE w[k + 1])
  BY DEF p, n
<1> QED BY <1>2, <1>5, <1>6, LinkWalks

------------------------------------------------------------------------------
(***************************************************************************)
(* What is seen of the body in a state and in the next.                    *)
(***************************************************************************)
\* The list of a block is the one met walking it.
LEMMA WalkNow ==
  \A b \in Block : \A w : Sound(list) /\ ListOf(list, b, w) => Walk(b) = w
BY WalkFacts, OneList

LEMMA WalkNext ==
  \A b \in Block : \A w : Sound(list') /\ ListOf(list', b, w) => (Walk(b))' = w
<1>1. (\A b \in Block : \A w : Sound(list) /\ ListOf(list, b, w) => Walk(b) = w)' BY WalkNow, PTL
<1> QED BY <1>1

LEMMA LiveNow == BodyInv => Sound(list) /\ live \subseteq Block /\ Entry \in live /\ ended \subseteq live
BY PosFacts DEF BodyInv, ListsOK, LiveOK

LEMMA LiveNext == BodyInv' => Sound(list') /\ live' \subseteq Block /\ Entry \in live' /\ ended' \subseteq live'
<1>1. (BodyInv => Sound(list) /\ live \subseteq Block /\ Entry \in live /\ ended \subseteq live)' BY LiveNow, PTL
<1> QED BY <1>1

LEMMA OrderNow ==
  ASSUME BodyInv
  PROVE  /\ DOMAIN Order = live /\ Order \in [live -> Seq(Inst)]
         /\ \A b \in live : Order[b] = Walk(b) /\ ListOf(list, b, Walk(b))
         /\ Lists!Live = live
<1>1. Order = [b \in live |-> Walk(b)] BY DEF Order
<1>2. \A b \in live : ListOf(list, b, Walk(b)) BY LiveNow, WalkFacts
<1>3. \A b \in live : Walk(b) \in Seq(Inst) BY <1>2 DEF ListOf
<1> QED BY <1>1, <1>2, <1>3 DEF Lists!Live

LEMMA OrderNext ==
  ASSUME BodyInv', NEW X, X = [b \in live' |-> X[b]], \A b \in live' : ListOf(list', b, X[b])
  PROVE  Order' = X
<1>1. \A b \in live' : (Walk(b))' = X[b] BY LiveNext, WalkNext
<1>2. Order' = [b \in live' |-> (Walk(b))'] BY DEF Order
<1> QED BY <1>1, <1>2

\* Where the position stands, the insertion point is.
LEMMA PositionHere ==
  ASSUME NEW b, NEW w, ListOf(list, b, w), NEW k, Stands(pos, b, w, k)
  PROVE  PositionIn(w) = k
<1>1. /\ Len(w) \in Nat /\ DOMAIN w = 1..Len(w)
      /\ \A n, h \in 1..Len(w) : w[n] = w[h] => n = h
  BY ListOfFacts DEF Distinct
<1>2. /\ k \in 0..Len(w)
      /\ pos.where = "end" => pos.of = b /\ k = Len(w)
      /\ pos.where = "before" => k + 1 \in 1..Len(w) /\ pos.of = w[k + 1]
      /\ pos.where = "after" => k \in 1..Len(w) /\ pos.of = w[k]
      /\ pos.where \in {"end", "before", "after"}
  BY StandsFacts
<1>3. CASE pos.where = "end" BY <1>2, <1>3 DEF PositionIn
<1>4. CASE pos.where = "before"
  <2>1. (CHOOSE n \in DOMAIN w : w[n] = pos.of) = k + 1 BY <1>1, <1>2, <1>4
  <2>2. PositionIn(w) = (CHOOSE n \in DOMAIN w : w[n] = pos.of) - 1 BY <1>4 DEF PositionIn
  <2>3. (k + 1) - 1 = k
    <3>1. Len(w) \in Nat /\ k \in 0..Len(w) BY <1>1, <1>2
    <3> QED BY SMTT(30), <3>1
  <2> QED BY <2>1, <2>2, <2>3, Zenon
<1>5. CASE pos.where = "after"
  <2>1. (CHOOSE n \in DOMAIN w : w[n] = pos.of) = k BY <1>1, <1>2, <1>5
  <2> QED BY <1>5, <2>1 DEF PositionIn
<1> QED BY <1>2, <1>3, <1>4, <1>5

LEMMA CursorNow ==
  BodyInv => \A b \in Block : \A w, k : ListOf(list, b, w) /\ Stands(pos, b, w, k)
                                        => Cursor = [block |-> b, at |-> k]
<1> SUFFICES ASSUME BodyInv, NEW b \in Block, NEW w, NEW k, ListOf(list, b, w), Stands(pos, b, w, k)
             PROVE  Cursor = [block |-> b, at |-> k]
  OBVIOUS
<1>1. CurrentBlock = b /\ CurrentBlock # NONE BY PosFacts, StandsFacts
<1>2. Walk(b) = w BY LiveNow, WalkNow
<1>3. PositionIn(w) = k BY PositionHere
<1> QED BY <1>1, <1>2, <1>3 DEF Cursor, PositionValid

LEMMA CursorNext ==
  BodyInv' => \A b \in Block : \A w, k : ListOf(list', b, w) /\ Stands(pos', b, w, k)
                                         => Cursor' = [block |-> b, at |-> k]
<1>1. (BodyInv => \A b \in Block : \A w, k : ListOf(list, b, w) /\ Stands(pos, b, w, k)
                                             => Cursor = [block |-> b, at |-> k])'
  BY CursorNow, PTL
<1> QED BY <1>1

LEMMA CursorStands ==
  ASSUME BodyInv
  PROVE  /\ Cursor = [block |-> Cursor.block, at |-> Cursor.at]
         /\ Cursor.block \in live /\ Cursor.block = CurrentBlock
         /\ Cursor.at \in 0..Len(Walk(Cursor.block))
         /\ Stands(pos, Cursor.block, Walk(Cursor.block), Cursor.at)
<1> DEFINE b == PlaceBlock(list, pos)
<1>1. /\ Place(list, pos) /\ b \in live /\ b \in Block /\ CurrentBlock = b
  BY PosFacts
<1> HIDE DEF b
<1>2. ListOf(list, b, Walk(b)) BY <1>1, OrderNow
<1>3. PICK k \in 0..Len(Walk(b)) : Stands(pos, b, Walk(b), k) BY <1>1, <1>2, StandsSomewhere DEF b
<1>4. Cursor = [block |-> b, at |-> k] BY <1>1, <1>2, <1>3, CursorNow
<1> QED BY <1>1, <1>3, <1>4

LEMMA SameLists == ASSUME list' = list, live' = live PROVE Order' = Order
BY DEF Order, Walk

LEMMA SameGoes ==
  ASSUME live' = live, ended' = ended,
         \A b \in live : /\ DOMAIN edges'[b] = DOMAIN edges[b]
                         /\ \A e \in DOMAIN edges[b] : edges'[b][e].to = edges[b][e].to
  PROVE  Goes' = Goes
<1>1. \A b \in live : (TargetsOf(b))' = TargetsOf(b) BY DEF TargetsOf
<1>2. Goes' = [b \in live' |-> [ended |-> b \in ended', to |-> (TargetsOf(b))']] BY DEF Goes
<1>3. Goes = [b \in live |-> [ended |-> b \in ended, to |-> TargetsOf(b)]] BY DEF Goes
<1> HIDE DEF TargetsOf, Goes
<1> QED BY <1>1, <1>2, <1>3

LEMMA SameCursor == ASSUME list' = list, live' = live, pos' = pos PROVE Cursor' = Cursor
BY DEF Cursor, CurrentBlock, PositionValid, PositionIn, Walk

\* The operators Layout takes from the community modules and from Counting are
\* the ones used here.
LEMMA SameOperators ==
  /\ \A s, k, x : Lists!InsertAt(s, k, x) = InsertAt(s, k, x)
  /\ \A s, k : Lists!RemoveAt(s, k) = RemoveAt(s, k)
  /\ \A s : Lists!ToSet(s) = ToSet(s)
  /\ \A K : Lists!Sorted(K) = Sorted(K)
<1>0. \A K : Lists!Cardinality(K) = Cardinality(K) BY DEF Lists!Cardinality, Cardinality
<1>1. \A K, j : Lists!Nth(K, j) = Nth(K, j) BY <1>0 DEF Lists!Nth, Nth
<1>2. \A K : Lists!Sorted(K) = Sorted(K) BY <1>0, <1>1 DEF Lists!Sorted, Sorted
<1>3. \A s, k, x : Lists!InsertAt(s, k, x) = InsertAt(s, k, x) BY DEF Lists!InsertAt, InsertAt
<1>4. \A s, k : Lists!RemoveAt(s, k) = RemoveAt(s, k) BY DEF Lists!RemoveAt, RemoveAt
<1>5. \A s : Lists!ToSet(s) = ToSet(s) BY DEF Lists!ToSet, ToSet
<1> QED BY <1>2, <1>3, <1>4, <1>5

LEMMA SeenVars == Lists!vars = <<Order, Goes, Cursor, arena.insts, arena.blocks>>
BY DEF Lists!vars

------------------------------------------------------------------------------
(***************************************************************************)
(* Moving the insertion point and inserting.                               *)
(***************************************************************************)
LEMMA SetPositionSeen == ASSUME BodyInv, SetPosition, BodyInv' PROVE Lists!Next
<1>1. /\ arena' = arena /\ list' = list /\ live' = live /\ ended' = ended /\ edges' = edges
      /\ pos' \in Positions
  BY DEF SetPosition, flow
<1>2. Order' = Order BY <1>1, SameLists
<1>3. Goes' = Goes BY <1>1, SameGoes
<1> DEFINE b == PlaceBlock(list, pos')
<1>4. Place(list, pos') /\ b \in live BY <1>1, PositionFacts
<1> HIDE DEF b
<1>5. b \in Block /\ ListOf(list, b, Walk(b)) /\ Order[b] = Walk(b) BY <1>4, OrderNow, LiveNow
<1>6. PICK k \in 0..Len(Walk(b)) : Stands(pos', b, Walk(b), k) BY <1>4, <1>5, StandsSomewhere DEF b
<1>7. ListOf(list', b, Walk(b)) BY <1>1, <1>5
<1>8. Cursor' = [block |-> b, at |-> k] BY <1>5, <1>6, <1>7, CursorNext
<1>9. Lists!Live = live BY OrderNow
<1>10. k \in 0..Len(Order[b]) BY <1>5, <1>6
<1>11. Lists!Move(b, k)
  BY <1>1, <1>2, <1>3, <1>4, <1>8, <1>9, <1>10 DEF Lists!Move
<1> QED BY <1>4, <1>9, <1>10, <1>11 DEF Lists!Next

\* Order is a function: what an update of it at one block looks like.
LEMMA OrderAt ==
  ASSUME BodyInv, BodyInv', live' = live, NEW b \in live, NEW s, ListOf(list', b, s),
         \A c \in Block : \A v : c # b /\ ListOf(list, c, v) => ListOf(list', c, v)
  PROVE  Order' = [Order EXCEPT ![b] = s]
<1> DEFINE X == [Order EXCEPT ![b] = s]
<1>1. /\ DOMAIN Order = live /\ live \subseteq Block
      /\ \A c \in live : Order[c] = Walk(c) /\ ListOf(list, c, Walk(c))
  BY OrderNow, LiveNow
<1>2. X = [c \in live' |-> X[c]] BY <1>1
<1>3. \A c \in live' : X[c] = IF c = b THEN s ELSE Walk(c) BY <1>1
<1> HIDE DEF X
<1>4. \A c \in live' : ListOf(list', c, X[c]) BY <1>1, <1>3
<1>5. Order' = X BY <1>2, <1>4, OrderNext
<1> QED BY <1>5 DEF X

LEMMA InsertSeen == ASSUME BodyInv, Insert, BodyInv' PROVE Lists!Next
<1> DEFINE i == arena.insts + 1
           b == Cursor.block
           k == Cursor.at
           w == Walk(b)
           s == With(w, k, i)
<1>1. /\ Grow(0, 1, 1) /\ list' = LinkAt(list, i, pos) /\ pos' = Advanced(i)
      /\ live' = live /\ ended' = ended /\ edges' = edges
  BY DEF Insert, flow
<1>2. /\ arena'.insts = i /\ arena'.blocks = arena.blocks
      /\ i \in Inst /\ list.block[i] = NONE
  <2>0. arena.blocks \in Nat /\ arena.insts \in Nat BY ArenaFacts DEF BodyInv
  <2>1. ArenaOK' /\ arena'.blocks = arena.blocks + 0 /\ arena'.insts = i
    BY <1>1, GrowFacts DEF BodyInv
  <2>2. arena'.insts \in 0..MaxInsts BY <2>1 DEF ArenaOK
  <2>3. i \in Inst BY <2>0, <2>1, <2>2 DEF Inst
  <2>4. ~(i <= arena.insts) BY <2>0
  <2> HIDE DEF i
  <2>5. list.block[i] = NONE BY <2>3, <2>4 DEF BodyInv, ListsOK
  <2> QED BY <2>0, <2>1, <2>3, <2>5
<1> HIDE DEF i
<1>3. /\ Cursor = [block |-> b, at |-> k] /\ b \in live /\ k \in 0..Len(w)
      /\ Stands(pos, b, w, k)
  BY CursorStands
<1> HIDE DEF b, k
<1>4. /\ b \in Block /\ ListOf(list, b, w) /\ DOMAIN Order = live /\ Order[b] = w
      /\ ListType(list) /\ w \in Seq(Inst)
  BY <1>3, OrderNow, LiveNow DEF Sound, ListOf
<1> HIDE DEF w
<1>5. /\ ListOf(list', b, s)
      /\ \A c \in Block : \A v : c # b /\ ListOf(list, c, v) => ListOf(list', c, v)
  BY <1>1, <1>2, <1>3, <1>4, LinkAtWalks
<1>6. Len(s) = Len(w) + 1 /\ s = InsertAt(w, k + 1, i) BY <1>2, <1>3, <1>4, WithFacts
<1>7. \A j \in 1..(Len(w) + 1) : s[j] = IF j <= k THEN w[j] ELSE IF j = k + 1 THEN i ELSE w[j - 1]
  BY DEF With
<1> HIDE DEF s
<1>8. Order' = [Order EXCEPT ![b] = InsertAt(Order[b], k + 1, i)]
  BY <1>1, <1>3, <1>4, <1>5, <1>6, OrderAt
<1>9. Stands(pos', b, s, k + 1)
  <2>0. Len(w) \in Nat /\ k \in Nat /\ k <= Len(w) BY <1>3, <1>4, LenProperties
  <2>1. CASE pos = End(b) /\ k = Len(w)
    <3>1. pos' = pos BY <1>1, <2>1, PositionFields DEF Advanced
    <3> QED BY <1>6, <2>1, <3>1 DEF Stands
  <2>2. CASE \E n \in 1..Len(w) : pos = Before(w[n]) /\ k = n - 1
    <3>1. PICK n \in 1..Len(w) : pos = Before(w[n]) /\ k = n - 1 BY <2>2
    <3>2. pos' = pos BY <1>1, <3>1, PositionFields DEF Advanced
    <3>3. /\ n + 1 \in 1..(Len(w) + 1) /\ k + 1 = (n + 1) - 1 /\ (n + 1) - 1 = n
          /\ ~(n + 1 <= k) /\ n + 1 # k + 1
      BY <2>0, <3>1
    <3>4. s[n + 1] = w[n] BY <1>7, <3>3
    <3> QED BY <1>6, <3>1, <3>2, <3>3, <3>4 DEF Stands
  <2>3. CASE \E n \in 1..Len(w) : pos = After(w[n]) /\ k = n
    <3>1. pos' = After(i) BY <1>1, <2>3, PositionFields DEF Advanced
    <3>2. k + 1 \in 1..(Len(w) + 1) /\ ~(k + 1 <= k) BY <2>0
    <3>3. s[k + 1] = i BY <1>7, <3>2
    <3> QED BY <1>6, <3>1, <3>2, <3>3 DEF Stands
  <2> QED BY <1>3, <2>1, <2>2, <2>3 DEF Stands
<1>10. Cursor' = [block |-> b, at |-> k + 1] BY <1>4, <1>5, <1>9, CursorNext
<1>11. Goes' = Goes BY <1>1, SameGoes
<1>12. Cursor.block = b /\ Cursor.at = k /\ [Cursor EXCEPT !.at = Cursor.at + 1] = [block |-> b, at |-> k + 1]
  BY <1>3
<1>13. Lists!Insert
  <2>1. arena.insts' = arena.insts + 1 BY <1>2 DEF i
  <2>2. Order' = [Order EXCEPT ![Cursor.block] = InsertAt(Order[Cursor.block], Cursor.at + 1, arena'.insts)]
    BY <1>2, <1>8, <1>12
  <2>3. Cursor' = [Cursor EXCEPT !.at = Cursor.at + 1] BY <1>10, <1>12
  <2> QED BY <1>2, <1>11, <2>1, <2>2, <2>3, SameOperators DEF Lists!Insert
<1> QED BY <1>13 DEF Lists!Next

------------------------------------------------------------------------------
(***************************************************************************)
(* Removing and moving an instruction.                                     *)
(***************************************************************************)
\* Positions not at the k-th element stay between the others.
LEMMA StandsLess ==
  ASSUME NEW p, NEW b, NEW w \in Seq(Inst), NEW a, Stands(p, b, w, a), NEW k \in 1..Len(w),
         Distinct(w), p \notin {Before(w[k]), After(w[k])}
  PROVE  Stands(p, b, Less(w, k), IF a >= k THEN a - 1 ELSE a)
<1> DEFINE s == Less(w, k)
           L == Len(w)
<1>1. L \in Nat /\ Len(s) = L - 1 BY LenProperties, LessFacts
<1>2. \A j \in 1..(L - 1) : s[j] = IF j < k THEN w[j] ELSE w[j + 1] BY DEF Less
<1>3. k \in 1..L /\ \A n, h \in 1..L : w[n] = w[h] => n = h BY DEF Distinct
<1> DEFINE to == IF a >= k THEN a - 1 ELSE a
<1> HIDE DEF s
<1> SUFFICES Stands(p, b, s, to) BY DEF s
<1>4. ASSUME NEW n \in 1..L, n # k
      PROVE  \E j \in 1..(L - 1) : s[j] = w[n] /\ j = IF n > k THEN n - 1 ELSE n
  <2>1. CASE n > k
    <3>1. n - 1 \in 1..(L - 1) /\ ~(n - 1 < k) /\ (n - 1) + 1 = n BY <1>1, <1>3, <2>1
    <3> QED BY <1>2, <2>1, <3>1
  <2>2. CASE ~(n > k)
    <3>1. n \in 1..(L - 1) /\ n < k BY <1>1, <1>3, <1>4, <2>2
    <3> QED BY <1>2, <2>2, <3>1
  <2> QED BY <2>1, <2>2
<1>5. CASE p = End(b) /\ a = L
  <2>1. a >= k /\ to = L - 1 BY <1>1, <1>5
  <2> HIDE DEF to
  <2> QED BY <1>1, <1>5, <2>1 DEF Stands
<1>6. CASE \E n \in 1..L : p = Before(w[n]) /\ a = n - 1
  <2>1. PICK n \in 1..L : p = Before(w[n]) /\ a = n - 1 BY <1>6
  <2>2. n # k BY <2>1
  <2>3. PICK j \in 1..(L - 1) : s[j] = w[n] /\ j = IF n > k THEN n - 1 ELSE n BY <1>4, <2>2
  <2>4. to = j - 1 BY <1>1, <2>1, <2>2, <2>3
  <2> HIDE DEF to
  <2> QED BY <1>1, <2>1, <2>3, <2>4 DEF Stands
<1>7. CASE \E n \in 1..L : p = After(w[n]) /\ a = n
  <2>1. PICK n \in 1..L : p = After(w[n]) /\ a = n BY <1>7
  <2>2. n # k BY <2>1
  <2>3. PICK j \in 1..(L - 1) : s[j] = w[n] /\ j = IF n > k THEN n - 1 ELSE n BY <1>4, <2>2
  <2>4. to = j BY <1>1, <2>1, <2>2, <2>3
  <2> HIDE DEF to
  <2> QED BY <1>1, <2>1, <2>3, <2>4 DEF Stands
<1> QED BY <1>5, <1>6, <1>7 DEF Stands

\* A position in the gap that is filled may be on either side afterwards.
LEMMA StandsWith ==
  ASSUME NEW p, NEW b, NEW w \in Seq(Inst), NEW a, Stands(p, b, w, a), NEW k \in 0..Len(w),
         NEW i \in Inst
  PROVE  /\ a < k => Stands(p, b, With(w, k, i), a)
         /\ a > k => Stands(p, b, With(w, k, i), a + 1)
         /\ a = k => Stands(p, b, With(w, k, i), a) \/ Stands(p, b, With(w, k, i), a + 1)
<1> DEFINE s == With(w, k, i)
           L == Len(w)
<1>1. L \in Nat /\ Len(s) = L + 1 BY LenProperties, WithFacts
<1>2. \A j \in 1..(L + 1) : s[j] = IF j <= k THEN w[j] ELSE IF j = k + 1 THEN i ELSE w[j - 1]
  BY DEF With
<1>3. k \in 0..L OBVIOUS
<1> HIDE DEF s
<1>4. ASSUME NEW n \in 1..L
      PROVE  \E j \in 1..(L + 1) : s[j] = w[n] /\ j = IF n > k THEN n + 1 ELSE n
  <2>1. CASE n > k
    <3>1. n + 1 \in 1..(L + 1) /\ ~(n + 1 <= k) /\ n + 1 # k + 1 /\ (n + 1) - 1 = n BY <1>1, <1>3, <2>1
    <3> QED BY <1>2, <2>1, <3>1
  <2>2. CASE ~(n > k)
    <3>1. n \in 1..(L + 1) /\ n <= k BY <1>1, <1>3, <2>2
    <3> QED BY <1>2, <2>2, <3>1
  <2> QED BY <2>1, <2>2
<1>5. CASE p = End(b) /\ a = L
  <2>1. a >= k /\ a + 1 = L + 1 BY <1>1, <1>3, <1>5
  <2>2. Stands(p, b, s, a + 1) BY <1>1, <1>5, <2>1 DEF Stands
  <2> QED BY <1>1, <1>3, <1>5, <2>1, <2>2 DEF s
<1>6. CASE \E n \in 1..L : p = Before(w[n]) /\ a = n - 1
  <2>1. PICK n \in 1..L : p = Before(w[n]) /\ a = n - 1 BY <1>6
  <2>3. PICK j \in 1..(L + 1) : s[j] = w[n] /\ j = IF n > k THEN n + 1 ELSE n BY <1>4
  <2>4. Stands(p, b, s, j - 1) BY <1>1, <2>1, <2>3 DEF Stands
  <2>5. IF a >= k THEN j - 1 = a + 1 ELSE j - 1 = a BY <1>1, <1>3, <2>1, <2>3
  <2>6. a \in Int /\ k \in Int BY <1>1, <1>3, <2>1
  <2> QED BY <2>4, <2>5, <2>6 DEF s
<1>7. CASE \E n \in 1..L : p = After(w[n]) /\ a = n
  <2>1. PICK n \in 1..L : p = After(w[n]) /\ a = n BY <1>7
  <2>3. PICK j \in 1..(L + 1) : s[j] = w[n] /\ j = IF n > k THEN n + 1 ELSE n BY <1>4
  <2>4. Stands(p, b, s, j) BY <1>1, <2>1, <2>3 DEF Stands
  <2>5. IF a > k THEN j = a + 1 ELSE j = a BY <1>1, <1>3, <2>1, <2>3
  <2>6. a \in Int /\ k \in Int BY <1>1, <1>3, <2>1
  <2> QED BY <2>4, <2>5, <2>6 DEF s
<1> QED BY <1>5, <1>6, <1>7 DEF Stands

\* The place of a linked instruction.
LEMMA PlaceOf ==
  ASSUME BodyInv, NEW i \in Linked
  PROVE  LET b == list.block[i] IN
         /\ i \in Inst /\ b \in live /\ b \in Block /\ b # NONE
         /\ \E k \in 1..Len(Walk(b)) : Walk(b)[k] = i
<1>1. i \in Inst /\ list.block[i] # NONE BY DEF Linked
<1>2. list.block[i] \in live BY <1>1 DEF BodyInv, ListsOK
<1>3. ListOf(list, list.block[i], Walk(list.block[i])) BY <1>2, OrderNow
<1> QED BY <1>1, <1>2, <1>3, LiveNow DEF ListOf

LEMMA RemoveInstSeen == ASSUME BodyInv, NEW i, RemoveInst(i), BodyInv' PROVE Lists!Next
<1> DEFINE b == list.block[i]
           p == list.prev[i]
           n == list.next[i]
           beside == IF n # NONE THEN Before(n) ELSE End(b)
           w == Walk(b)
<1> USE NoneIsNothing
<1>1. /\ i \in Linked /\ list' = Unlink(list, i)
      /\ pos = Before(i) => pos' = beside
      /\ pos = After(i) => pos' = IF p # NONE THEN After(p) ELSE beside
      /\ pos \notin {Before(i), After(i)} => pos' = pos
      /\ arena' = arena /\ live' = live /\ ended' = ended /\ edges' = edges
  <2>1. After(i) # Before(i)
    <3>1. After(i).where # Before(i).where BY PositionFields
    <3> QED BY <3>1
  <2> QED BY <2>1 DEF RemoveInst, flow
<1>2. i \in Inst /\ b \in live /\ b \in Block /\ b # NONE BY <1>1, PlaceOf
<1>3. PICK k \in 1..Len(w) : w[k] = i BY <1>1, PlaceOf
<1>4. /\ ListOf(list, b, w) /\ DOMAIN Order = live /\ Order[b] = w /\ ListType(list)
      /\ Lists!Live = live
  BY <1>2, OrderNow, LiveNow DEF Sound
<1> HIDE DEF w, b, p, n
<1>5. /\ w \in Seq(Inst) /\ Distinct(w)
      /\ p = IF k = 1 THEN NONE ELSE w[k - 1]
      /\ n = IF k = Len(w) THEN NONE ELSE w[k + 1]
  <2>1. w \in Seq(Inst) /\ Distinct(w) BY <1>4, ListOfFacts
  <2>2. /\ list.prev[w[k]] = IF k = 1 THEN NONE ELSE w[k - 1]
        /\ list.next[w[k]] = IF k = Len(w) THEN NONE ELSE w[k + 1]
    BY <1>3, <1>4 DEF ListOf
  <2> QED BY <1>3, <2>1, <2>2 DEF p, n
<1>0. Len(w) \in Nat /\ k \in Nat /\ 1 <= k /\ k <= Len(w) BY <1>3, <1>5, LenProperties
<1> DEFINE s == Less(w, k)
<1>6. /\ ListOf(list', b, s)
      /\ \A c \in Block : \A v : c # b /\ ListOf(list, c, v) => ListOf(list', c, v)
  <2>1. TakenFrom(list, list', w[k]) BY <1>1, <1>2, <1>3, <1>4, UnlinkFields DEF b
  <2> QED BY <1>2, <1>3, <1>4, <2>1, UnlinkWalks
<1>7. s = RemoveAt(w, k) /\ Len(s) = Len(w) - 1 BY <1>3, <1>5, LessFacts
<1>8. \A j \in 1..(Len(w) - 1) : s[j] = IF j < k THEN w[j] ELSE w[j + 1] BY DEF Less
<1> HIDE DEF s
<1>9. Order' = [Order EXCEPT ![b] = RemoveAt(Order[b], k)] BY <1>1, <1>2, <1>4, <1>6, <1>7, OrderAt
<1>10. Goes' = Goes BY <1>1, SameGoes
<1> DEFINE c == Cursor.block
           a == Cursor.at
<1>11. /\ Cursor = [block |-> c, at |-> a] /\ c \in live /\ c \in Block /\ c = CurrentBlock
       /\ Stands(pos, c, Walk(c), a) /\ ListOf(list, c, Walk(c))
  BY CursorStands, OrderNow, LiveNow
<1> HIDE DEF c, a
<1>12. Cursor' = IF Cursor.block = b /\ Cursor.at >= k THEN [Cursor EXCEPT !.at = Cursor.at - 1] ELSE Cursor
  <2>1. CASE c # b
    <3>1. ASSUME pos \in {Before(i), After(i)} PROVE FALSE
      <4>1. pos.where # "end" /\ pos.of = i BY <3>1, PositionFields
      <4> QED BY <1>11, <2>1, <4>1 DEF CurrentBlock, b
    <3>2. Stands(pos', c, Walk(c), a) BY <1>1, <1>11, <3>1
    <3>3. ListOf(list', c, Walk(c)) BY <1>6, <1>11, <2>1
    <3>4. Cursor' = [block |-> c, at |-> a] BY <1>11, <3>2, <3>3, CursorNext
    <3>5. Cursor.block # b BY <1>11, <2>1 DEF c
    <3> QED BY <1>11, <3>4, <3>5
  <2>2. CASE c = b
    <3>0. /\ a \in 0..Len(w) /\ Stands(pos, b, w, a)
          /\ pos.where = "before" => a + 1 \in 1..Len(w) /\ pos.of = w[a + 1]
          /\ pos.where = "after" => a \in 1..Len(w) /\ pos.of = w[a]
      BY <1>11, <2>2, StandsFacts DEF w
    <3> DEFINE to == IF a >= k THEN a - 1 ELSE a
    <3>1. Stands(pos', b, s, to)
      <4>0. \A m, h \in 1..Len(w) : w[m] = w[h] => m = h BY <1>5 DEF Distinct
      <4>1. CASE pos \notin {Before(i), After(i)} BY <1>1, <1>3, <1>5, <3>0, <4>1, StandsLess DEF s
      <4>2. \/ n # NONE /\ beside = Before(n) /\ k \in 1..(Len(w) - 1) /\ s[k] = n
            \/ n = NONE /\ beside = End(b) /\ k - 1 = Len(s)
        <5>1. CASE k = Len(w)
          <6>1. n = NONE BY <1>5, <5>1
          <6> QED BY <1>7, <5>1, <6>1
        <5>2. CASE k # Len(w)
          <6>1. k \in 1..(Len(w) - 1) /\ k + 1 \in 1..Len(w) /\ ~(k < k) BY <1>0, <5>2
          <6> QED BY <1>5, <1>8, <5>2, <6>1
        <5> QED BY <5>1, <5>2
      <4>3. Stands(beside, b, s, k - 1) BY <1>7, <4>2 DEF Stands
      <4>4. CASE pos = Before(i)
        <5>1. a + 1 \in 1..Len(w) /\ w[a + 1] = w[k] BY <1>3, <3>0, <4>4, PositionFields
        <5>2. a + 1 = k BY <1>3, <4>0, <5>1
        <5>3. to = k - 1
          <6>1. a \in 0..Len(w) BY <3>0
          <6> QED BY <1>0, <5>2, <6>1
        <5> QED BY <1>1, <4>3, <4>4, <5>3
      <4>5. CASE pos = After(i)
        <5>1. a \in 1..Len(w) /\ w[a] = w[k] BY <1>3, <3>0, <4>5, PositionFields
        <5>2. a = k BY <4>0, <5>1
        <5>3. to = k - 1 BY <1>0, <5>2
        <5>4. CASE p = NONE BY <1>1, <4>3, <4>5, <5>3, <5>4
        <5>5. CASE p # NONE
          <6>1. k # 1 /\ p = w[k - 1] BY <1>5, <5>5
          <6>2. k - 1 \in 1..(Len(w) - 1) /\ k - 1 < k BY <1>0, <6>1
          <6>3. s[k - 1] = p BY <1>8, <6>1, <6>2
          <6>4. pos' = After(p) BY <1>1, <4>5, <5>5
          <6> QED BY <1>7, <5>3, <6>2, <6>3, <6>4 DEF Stands
        <5> QED BY <5>4, <5>5
      <4> QED BY <4>1, <4>4, <4>5
    <3> HIDE DEF to
    <3>2. Cursor' = [block |-> b, at |-> to] BY <1>2, <1>6, <3>1, CursorNext
    <3>3. Cursor.block = b /\ Cursor.at = a BY <1>11, <2>2 DEF c, a
    <3> QED BY <1>11, <2>2, <3>2, <3>3 DEF to
  <2> QED BY <2>1, <2>2
<1>13. Lists!Delete(b, k)
  <2>1. k \in DOMAIN Order[b] BY <1>3, <1>4, <1>5, LenProperties
  <2> QED
  BY <2>1, <1>1, <1>2, <1>3, <1>4, <1>5, <1>9, <1>10, <1>12, SameOperators DEF Lists!Delete
<1>14. k \in 0..Len(Order[b]) BY <1>0, <1>4
<1> QED BY <1>2, <1>4, <1>13, <1>14 DEF Lists!Next

LEMMA MoveInstSeen == ASSUME BodyInv, NEW i, NEW to, MoveInst(i, to), BodyInv' PROVE Lists!Next
<1> DEFINE b == list.block[i]
           w == Walk(b)
           u == Unlink(list, i)
<1> USE NoneIsNothing
<1>1. /\ i \in Linked /\ to \in Positions /\ to \notin {Before(i), After(i)}
      /\ list' = LinkAt(Unlink(list, i), i, to)
      /\ arena' = arena /\ live' = live /\ ended' = ended /\ edges' = edges /\ pos' = pos
  BY DEF MoveInst, flow
<1>2. i \in Inst /\ b \in live /\ b \in Block /\ b # NONE BY <1>1, PlaceOf
<1>3. PICK k \in 1..Len(w) : w[k] = i BY <1>1, PlaceOf
<1>4. /\ ListOf(list, b, w) /\ DOMAIN Order = live /\ Order[b] = w /\ ListType(list)
      /\ Sound(list) /\ Lists!Live = live /\ live \subseteq Block
      /\ \A d \in live : Order[d] = Walk(d) /\ ListOf(list, d, Walk(d))
  BY <1>2, OrderNow, LiveNow DEF Sound
<1>5. w \in Seq(Inst) /\ Distinct(w) BY <1>4, ListOfFacts
<1>0. Len(w) \in Nat /\ k \in Nat /\ 1 <= k /\ k <= Len(w) BY <1>3, <1>5, LenProperties
<1> DEFINE s == Less(w, k)
<1>6. /\ ListOf(u, b, s) /\ u.block[i] = NONE /\ ListType(u)
      /\ \A d \in Block : \A v : d # b /\ ListOf(list, d, v) => ListOf(u, d, v)
  <2>1. TakenFrom(list, u, w[k]) BY <1>2, <1>3, <1>4, UnlinkFields
  <2>2. ListType(u) /\ u.block[i] = NONE BY <1>2, <1>3, <2>1 DEF TakenFrom
  <2> HIDE DEF u, w
  <2> QED BY <1>2, <1>3, <1>4, <2>1, <2>2, UnlinkWalks
<1>7. s = RemoveAt(w, k) /\ s \in Seq(Inst) /\ Len(s) = Len(w) - 1 BY <1>3, <1>5, LessFacts
<1>30. pos \in {Before(i), After(i)} => CurrentBlock = b BY PositionFields DEF CurrentBlock
<1>31. list' = LinkAt(u, i, to) BY <1>1
<1> HIDE DEF w, b, s, u
\* The lists without the instruction, and the positions in them.
<1> DEFINE rest == [Order EXCEPT ![b] = RemoveAt(Order[b], k)]
           gap(d, a) == IF d = b /\ a >= k THEN a - 1 ELSE a
<1>8. /\ DOMAIN rest = live /\ rest[b] = s
      /\ \A d \in live : d # b => rest[d] = Walk(d)
      /\ \A d \in live : ListOf(u, d, rest[d])
  <2>1. DOMAIN rest = live /\ rest[b] = s BY <1>2, <1>4, <1>7
  <2>2. \A d \in live : d # b => rest[d] = Walk(d) BY <1>4
  <2> HIDE DEF rest
  <2>3. \A d \in live : d # b => ListOf(u, d, rest[d]) BY <1>4, <1>6, <2>2
  <2> QED BY <1>6, <2>1, <2>2, <2>3
<1> HIDE DEF rest
<1>9. ASSUME NEW p, NEW d \in live, NEW a, Stands(p, d, Walk(d), a), p \notin {Before(i), After(i)}
      PROVE  Stands(p, d, rest[d], gap(d, a))
  <2>1. CASE d = b
    <3>1. Stands(p, b, w, a) BY <1>9, <2>1 DEF w
    <3>2. Stands(p, b, s, IF a >= k THEN a - 1 ELSE a) BY <1>3, <1>5, <1>9, <3>1, StandsLess DEF s
    <3> QED BY <1>8, <2>1, <3>2
  <2>2. CASE d # b
    <3>1. gap(d, a) = a BY <2>2
    <3> HIDE DEF gap
    <3> QED BY <1>8, <1>9, <2>2, <3>1
  <2> QED BY <2>1, <2>2
<1> HIDE DEF gap
<1> DEFINE c == PlaceBlock(list, to)
<1>10. Place(list, to) /\ c \in live BY <1>1, PositionFacts
<1>11. ListOf(list, c, Walk(c)) BY <1>4, <1>10
<1>12. \E a \in 0..Len(Walk(c)) : Stands(to, c, Walk(c), a) BY <1>10, <1>11, StandsSomewhere
<1> HIDE DEF c
<1>13. PICK a0 : Stands(to, c, Walk(c), a0) BY <1>12
<1> DEFINE g == gap(c, a0)
           r == rest[c]
           t == With(r, g, i)
<1>14. Stands(to, c, r, g) BY <1>1, <1>9, <1>10, <1>13
<1>15. ListOf(u, c, r) /\ r \in Seq(Inst) /\ c \in Block BY <1>4, <1>8, <1>10, ListOfFacts
<1>16. /\ g \in 0..Len(r) /\ ListOf(list', c, t)
       /\ \A d \in Block : \A v : d # c /\ ListOf(u, d, v) => ListOf(list', d, v)
  <2> HIDE DEF g, r
  <2> QED BY <1>2, <1>6, <1>14, <1>15, <1>31, LinkAtWalks
<1> HIDE DEF g, r
<1>17. Len(r) \in Nat /\ g \in Nat /\ g <= Len(r) /\ g + 1 \in 1..(Len(r) + 1) /\ (g + 1) - 1 = g
  BY <1>15, <1>16, LenProperties
<1>18. t = InsertAt(r, g + 1, i) /\ Len(t) = Len(r) + 1 /\ t[g + 1] = i
  <2>1. t = InsertAt(r, g + 1, i) /\ Len(t) = Len(r) + 1 BY <1>2, <1>15, <1>16, WithFacts
  <2>2. t[g + 1] = i BY <1>17 DEF With
  <2> QED BY <2>1, <2>2
<1> HIDE DEF t
<1>19. Order' = [rest EXCEPT ![c] = InsertAt(rest[c], g + 1, Order[b][k])]
  <2> DEFINE X == [rest EXCEPT ![c] = t]
  <2>1. X = [d \in live' |-> X[d]] BY <1>1, <1>8
  <2>2. \A d \in live' : X[d] = IF d = c THEN t ELSE rest[d] BY <1>1, <1>8
  <2> HIDE DEF X
  <2>3. \A d \in live' : ListOf(list', d, X[d]) BY <1>1, <1>4, <1>8, <1>16, <2>2
  <2>4. Order' = X BY <2>1, <2>3, OrderNext
  <2>5. t = InsertAt(rest[c], g + 1, Order[b][k]) BY <1>3, <1>4, <1>18 DEF r
  <2> QED BY <2>4, <2>5 DEF X
<1>20. Goes' = Goes BY <1>1, SameGoes
<1> DEFINE e == Cursor.block
           a == Cursor.at
           h == gap(e, a)
<1>21. /\ Cursor = [block |-> e, at |-> a] /\ e \in live /\ e = CurrentBlock
       /\ a \in 0..Len(Walk(e)) /\ Stands(pos, e, Walk(e), a)
  BY CursorStands
<1> HIDE DEF e, a
<1>22. \/ Cursor' = [block |-> e, at |-> IF e = c /\ h >= g + 1 THEN h + 1 ELSE h]
       \/ /\ \/ e = c /\ h = (g + 1) - 1
             \/ e = b /\ a \in {k - 1, k}
          /\ \E x \in {(g + 1) - 1, g + 1} : Cursor' = [block |-> c, at |-> x]
  <2>1. CASE pos \in {Before(i), After(i)}
    <3>1. e = b BY <1>21, <1>30, <2>1
    <3>2. a \in {k - 1, k}
      <4>0. \A m, n \in 1..Len(w) : w[m] = w[n] => m = n BY <1>5 DEF Distinct
      <4>1. /\ pos.where = "before" => a + 1 \in 1..Len(w) /\ pos.of = w[a + 1]
            /\ pos.where = "after" => a \in 1..Len(w) /\ pos.of = w[a]
        BY <1>4, <1>21, <3>1, StandsFacts DEF w
      <4>2. CASE pos = Before(i)
        <5>1. a + 1 = k BY <1>3, <4>0, <4>1, <4>2, PositionFields
        <5>2. a \in 0..Len(w) BY <1>21, <3>1 DEF w
        <5> QED BY <1>0, <5>1, <5>2
      <4>3. CASE pos = After(i)
        <5>1. a = k BY <1>3, <4>0, <4>1, <4>3, PositionFields
        <5> QED BY <5>1
      <4> QED BY <2>1, <4>2, <4>3
    <3>3. \E x \in {g, g + 1} : Stands(pos', c, t, x)
      <4>1. pos' = Before(t[g + 1]) \/ pos' = After(t[g + 1]) BY <1>1, <1>18, <2>1
      <4> QED BY <1>17, <1>18, <4>1 DEF Stands
    <3>4. \E x \in {g, g + 1} : Cursor' = [block |-> c, at |-> x]
      BY <1>15, <1>16, <3>3, CursorNext
    <3> QED BY <1>17, <3>1, <3>2, <3>4
  <2>2. CASE pos \notin {Before(i), After(i)}
    <3>1. Stands(pos', e, rest[e], h) BY <1>1, <1>9, <1>21, <2>2
    <3>2. e \in Block /\ ListOf(u, e, rest[e]) BY <1>4, <1>8, <1>21
    <3>3. CASE e # c
      <4>1. ListOf(list', e, rest[e]) BY <1>16, <3>2, <3>3
      <4>2. Cursor' = [block |-> e, at |-> h] BY <3>1, <3>2, <4>1, CursorNext
      <4> QED BY <3>3, <4>2
    <3>4. CASE e = c
      <4>1. Stands(pos', c, r, h) BY <3>1, <3>4 DEF r
      <4>2. h \in 0..Len(r) BY <1>15, <4>1, StandsFacts
      <4> HIDE DEF h
      <4>3. /\ h < g => Stands(pos', c, t, h)
            /\ h > g => Stands(pos', c, t, h + 1)
            /\ h = g => Stands(pos', c, t, h) \/ Stands(pos', c, t, h + 1)
        BY <1>2, <1>15, <1>16, <4>1, StandsWith DEF t
      <4>4. /\ h < g => Cursor' = [block |-> c, at |-> h]
            /\ h > g => Cursor' = [block |-> c, at |-> h + 1]
            /\ h = g => Cursor' = [block |-> c, at |-> h] \/ Cursor' = [block |-> c, at |-> h + 1]
        BY <1>15, <1>16, <4>3, CursorNext
      <4>5. h \in Nat /\ (h < g \/ h = g \/ h > g) BY <1>17, <4>2
      <4>6. CASE h < g
        <5>1. ~(h >= g + 1) BY <1>17, <4>5, <4>6
        <5> QED BY <3>4, <4>4, <4>6, <5>1
      <4>7. CASE h > g
        <5>1. h >= g + 1 BY <1>17, <4>5, <4>7
        <5> QED BY <3>4, <4>4, <4>7, <5>1
      <4>8. CASE h = g
        <5>1. ~(h >= g + 1) BY <1>17, <4>8
        <5> QED BY <1>17, <3>4, <4>4, <4>8, <5>1
      <4> QED BY <4>5, <4>6, <4>7, <4>8
    <3> QED BY <3>3, <3>4
  <2> QED BY <2>1, <2>2
<1>23. k \in DOMAIN Order[b] /\ k \in 0..Len(Order[b]) BY <1>0, <1>3, <1>4, <1>5, LenProperties
<1>24. g + 1 \in 1..(Len(Order[c]) + 1)
  <2>1. CASE c = b
    <3>1. r = s BY <1>8, <2>1 DEF r
    <3>2. Len(Order[c]) = Len(w) BY <1>4, <2>1
    <3>3. Len(r) = Len(w) - 1 BY <1>7, <3>1
    <3> QED BY <1>0, <1>17, <3>2, <3>3
  <2>2. CASE c # b
    <3>1. r = Order[c] BY <1>4, <1>8, <1>10, <2>2 DEF r
    <3> QED BY <1>17, <3>1
  <2> QED BY <2>1, <2>2
<1>25. Lists!Carry(b, k, c, g + 1)
  <2>1. Cursor.block = e /\ Cursor.at = a BY <1>21
  <2>2. /\ \A x : [Cursor EXCEPT !.at = x] = [block |-> e, at |-> x]
        /\ h = IF Cursor.block = b /\ Cursor.at >= k THEN Cursor.at - 1 ELSE Cursor.at
    BY <1>21, <2>1 DEF gap
  <2> HIDE DEF h
  <2>3. rest = [Order EXCEPT ![b] = Lists!RemoveAt(Order[b], k)] BY SameOperators DEF rest
  <2>4. Order' = [rest EXCEPT ![c] = Lists!InsertAt(rest[c], g + 1, Order[b][k])]
    BY <1>19, SameOperators
  <2>5. {b, c} \subseteq Lists!Live BY <1>2, <1>4, <1>10
  <2>6. g + 1 \in 1..(Len(rest[c]) + 1) BY <1>17 DEF r
  <2>7. UNCHANGED <<Goes, arena.insts, arena.blocks>> BY <1>1, <1>20
  <2>8. \/ Cursor' = [Cursor EXCEPT !.at = IF Cursor.block = c /\ h >= g + 1 THEN h + 1 ELSE h]
        \/ /\ \/ Cursor.block = c /\ h = (g + 1) - 1
              \/ Cursor.block = b /\ Cursor.at \in {k - 1, k}
           /\ \E x \in {(g + 1) - 1, g + 1} : Cursor' = [block |-> c, at |-> x]
    BY <1>22, <2>1, <2>2
  <2> QED BY <1>23, <2>2, <2>3, <2>4, <2>5, <2>6, <2>7, <2>8 DEF Lists!Carry
<1> HIDE DEF e, h
<1> QED BY <1>2, <1>4, <1>10, <1>23, <1>24, <1>25 DEF Lists!Next

------------------------------------------------------------------------------
(***************************************************************************)
(* Blocks, parameters and terminators.                                     *)
(***************************************************************************)
LEMMA GoesNow ==
  /\ DOMAIN Goes = live
  /\ \A b \in live : /\ Goes[b].ended <=> b \in ended
                     /\ Goes[b].to = TargetsOf(b)
                     /\ Goes[b] = [ended |-> b \in ended, to |-> TargetsOf(b)]
<1>1. Goes = [b \in live |-> [ended |-> b \in ended, to |-> TargetsOf(b)]] BY DEF Goes
<1>2. DOMAIN Goes = live /\ \A b \in live : Goes[b] = [ended |-> b \in ended, to |-> TargetsOf(b)]
  BY <1>1
<1> HIDE DEF Goes, TargetsOf
<1>3. ASSUME NEW b \in live PROVE (Goes[b].ended <=> b \in ended) /\ Goes[b].to = TargetsOf(b)
  <2>1. Goes[b] = [ended |-> b \in ended, to |-> TargetsOf(b)] BY <1>2
  <2>2. Goes[b].ended = (b \in ended) /\ Goes[b].to = TargetsOf(b) BY <2>1
  <2> QED BY <2>2
<1> QED BY <1>2, <1>3

\* What has ended, and what has not.
LEMMA WhetherEnded ==
  /\ \A b \in ended : \A t : [ended |-> b \in ended, to |-> t] = Lists!Leading(t)
  /\ \A b : b \notin ended => [ended |-> b \in ended, to |-> <<>>] = Lists!Open
<1>1. ASSUME NEW b \in ended, NEW t PROVE [ended |-> b \in ended, to |-> t] = Lists!Leading(t)
  <2>1. (b \in ended) = TRUE OBVIOUS
  <2> QED BY <2>1 DEF Lists!Leading
<1>2. ASSUME NEW b, b \notin ended PROVE [ended |-> b \in ended, to |-> <<>>] = Lists!Open
  <2>1. (b \in ended) = FALSE BY <1>2
  <2> QED BY <2>1 DEF Lists!Open
<1> QED BY <1>1, <1>2

LEMMA GoesThen ==
  ASSUME NEW X, X = [b \in live' |-> X[b]],
         \A b \in live' : X[b] = [ended |-> b \in ended', to |-> (TargetsOf(b))']
  PROVE  Goes' = X
<1>1. Goes' = [b \in live' |-> [ended |-> b \in ended', to |-> (TargetsOf(b))']] BY DEF Goes
<1> HIDE DEF TargetsOf
<1> QED BY <1>1

LEMMA EmptyList ==
  ASSUME NEW l, Sound(l), NEW b \in Block, \A i \in Inst : l.block[i] # b
  PROVE  ListOf(l, b, <<>>)
<1> USE NoneIsNothing
<1>1. l.first \in [Block -> Inst \cup {NONE}] /\ EndsFit(l) BY DEF Sound, ListType
<1>2. l.first[b] = NONE /\ l.last[b] = NONE BY <1>1 DEF EndsFit
<1>3. <<>> \in Seq(Inst) /\ Len(<<>>) = 0 /\ 0 <= MaxInsts BY Bounds
<1> QED BY <1>2, <1>3 DEF ListOf

LEMMA CreateBlockSeen ==
  ASSUME Kept, NEW k \in 0..MaxValues, CreateBlock(k), BodyInv' PROVE Lists!Next
<1> DEFINE new == arena.blocks + 1
<1> USE NoneIsNothing
<1>1. /\ Grow(1, 0, k) /\ live' = live \cup {new} /\ list' = list /\ ended' = ended
      /\ edges' = edges /\ pos' = pos /\ BodyInv /\ DeadEdgesGone
  BY DEF CreateBlock, Kept
<1>2. /\ arena'.insts = arena.insts /\ arena'.blocks = new /\ new \in Block /\ new \notin live
  <2>0. arena.blocks \in Nat /\ arena.insts \in Nat /\ live \subseteq 1..arena.blocks
    BY <1>1, ArenaFacts DEF BodyInv, LiveOK
  <2>1. k \in Nat BY Bounds
  <2>2. ArenaOK' /\ arena'.blocks = new /\ arena'.insts = arena.insts + 0
    BY <1>1, <2>1, GrowFacts DEF BodyInv
  <2>3. new \notin 1..arena.blocks BY <2>0
  <2>4. arena'.blocks \in Block BY <2>2 DEF ArenaOK
  <2>5. arena'.insts = arena.insts BY <2>0, <2>2
  <2> HIDE DEF new
  <2> QED BY <2>0, <2>2, <2>3, <2>4, <2>5
<1> HIDE DEF new
<1>3. /\ DOMAIN Order = live /\ \A b \in live : Order[b] = Walk(b) /\ ListOf(list, b, Walk(b))
  BY <1>1, OrderNow
<1>4. ListOf(list', new, <<>>)
  <2>1. \A i \in Inst : list.block[i] # new BY <1>1, <1>2 DEF BodyInv, ListsOK
  <2> QED BY <1>1, <1>2, <2>1, EmptyList, LiveNow
<1>5. Order' = Lists!Plus(Order, new, <<>>)
  <2> DEFINE X == Lists!Plus(Order, new, <<>>)
  <2>1. /\ X = [b \in live' |-> X[b]]
        /\ \A b \in live' : X[b] = IF b = new THEN <<>> ELSE Order[b]
    BY <1>1, <1>3 DEF Lists!Plus
  <2> HIDE DEF X
  <2>2. \A b \in live' : ListOf(list', b, X[b]) BY <1>1, <1>3, <1>4, <2>1
  <2>3. Order' = X BY <2>1, <2>2, OrderNext
  <2> QED BY <2>3 DEF X
<1>6. Goes' = Lists!Plus(Goes, new, Lists!Open)
  <2> DEFINE X == Lists!Plus(Goes, new, Lists!Open)
  <2>1. /\ X = [b \in live' |-> X[b]]
        /\ \A b \in live' : X[b] = IF b = new THEN Lists!Open ELSE Goes[b]
    BY <1>1, GoesNow DEF Lists!Plus
  <2> HIDE DEF X
  <2>2. \A b : (TargetsOf(b))' = TargetsOf(b) BY <1>1 DEF TargetsOf
  <2>3. TargetsOf(new) = <<>> /\ new \notin ended
    <3>1. edges[new] = <<>> BY <1>1, <1>2 DEF DeadEdgesGone
    <3>2. TargetsOf(new) = <<>> BY <3>1 DEF TargetsOf
    <3> QED BY <1>1, <1>2, <3>2, LiveNow
  <2>4. \A b \in live' : X[b] = [ended |-> b \in ended', to |-> (TargetsOf(b))']
    <3> SUFFICES ASSUME NEW b \in live' PROVE X[b] = [ended |-> b \in ended', to |-> (TargetsOf(b))']
      OBVIOUS
    <3>1. CASE b = new
      <4>1. X[b] = [ended |-> b \in ended, to |-> TargetsOf(b)] BY <2>1, <2>3, <3>1, WhetherEnded
      <4> QED BY <1>1, <2>2, <4>1
    <3>2. CASE b # new
      <4>1. X[b] = [ended |-> b \in ended, to |-> TargetsOf(b)] BY <1>1, <2>1, <3>2, GoesNow
      <4> QED BY <1>1, <2>2, <4>1
    <3> QED BY <3>1, <3>2
  <2>5. Goes' = X BY <2>1, <2>4, GoesThen
  <2> QED BY <2>5 DEF X
<1>7. Cursor' = Cursor
  <2>1. /\ Cursor = [block |-> Cursor.block, at |-> Cursor.at] /\ Cursor.block \in live
        /\ Stands(pos, Cursor.block, Walk(Cursor.block), Cursor.at)
    BY <1>1, CursorStands
  <2>2. ListOf(list', Cursor.block, Walk(Cursor.block)) /\ Cursor.block \in Block
    BY <1>1, <1>3, <2>1, LiveNow
  <2>3. Cursor' = [block |-> Cursor.block, at |-> Cursor.at] BY <1>1, <2>1, <2>2, CursorNext
  <2> QED BY <2>1, <2>3
<1>8. Lists!NewBlock BY <1>2, <1>5, <1>6, <1>7 DEF Lists!NewBlock, new
<1> QED BY <1>8 DEF Lists!Next

\* Parameters are not seen.
LEMMA ParamsUnseen ==
  ASSUME BodyInv,
         (\E b : AddBlockParam(b)) \/ (\E b, k : RemoveBlockParam(b, k)) \/ (\E vs : RemoveBlockParams(vs))
  PROVE  UNCHANGED Lists!vars
<1>1. /\ list' = list /\ live' = live /\ ended' = ended /\ pos' = pos
  BY DEF AddBlockParam, RemoveBlockParam, RemoveBlockParams
<1>2. arena'.blocks = arena.blocks /\ arena'.insts = arena.insts
  <2>0. arena.blocks \in Nat /\ arena.insts \in Nat BY ArenaFacts DEF BodyInv
  <2>1. ASSUME NEW b, AddBlockParam(b) PROVE arena'.blocks = arena.blocks /\ arena'.insts = arena.insts
    <3>1. Grow(0, 0, 1) BY <2>1 DEF AddBlockParam
    <3>2. arena'.blocks = arena.blocks + 0 /\ arena'.insts = arena.insts + 0
      BY <3>1, GrowFacts DEF BodyInv
    <3> QED BY <2>0, <3>2
  <2>2. ASSUME NEW b, NEW k, RemoveBlockParam(b, k) PROVE arena' = arena
    BY <2>2 DEF RemoveBlockParam
  <2>3. ASSUME NEW vs, RemoveBlockParams(vs) PROVE arena' = arena BY <2>3 DEF RemoveBlockParams
  <2> QED BY <2>1, <2>2, <2>3
<1>3. \A b \in live : /\ DOMAIN edges'[b] = DOMAIN edges[b]
                      /\ \A e \in DOMAIN edges[b] : edges'[b][e].to = edges[b][e].to
  <2>1. live \subseteq Block BY LiveNow
  <2>2. ASSUME NEW b, AddBlockParam(b) PROVE edges' = edges BY <2>2 DEF AddBlockParam
  <2>3. ASSUME NEW b, NEW k, RemoveBlockParam(b, k), NEW c \in live
        PROVE  /\ DOMAIN edges'[c] = DOMAIN edges[c]
               /\ \A e \in DOMAIN edges[c] : edges'[c][e].to = edges[c][e].to
    <3> DEFINE q(a, e) == IF edges[a][e].to = b THEN WithoutArg(edges[a][e].args, k) ELSE edges[a][e].args
    <3>1. edges' = [a \in Block |-> [e \in DOMAIN edges[a] |-> [to |-> edges[a][e].to, args |-> q(a, e)]]]
      BY <2>3, RemoveBlockParamFields
    <3> HIDE DEF q
    <3> QED BY <2>1, <3>1
  <2>4. ASSUME NEW vs, RemoveBlockParams(vs), NEW c \in live
        PROVE  /\ DOMAIN edges'[c] = DOMAIN edges[c]
               /\ \A e \in DOMAIN edges[c] : edges'[c][e].to = edges[c][e].to
    <3> DEFINE q(a, e) == IF Len(edges[a][e].args) = Len(params[edges[a][e].to])
                          THEN Without(edges[a][e].args, Gone(vs, edges[a][e].to))
                          ELSE edges[a][e].args
    <3>1. edges' = [a \in Block |-> [e \in DOMAIN edges[a] |-> [to |-> edges[a][e].to, args |-> q(a, e)]]]
      BY <2>4, RemoveBlockParamsFields
    <3> HIDE DEF q
    <3> QED BY <2>1, <3>1
  <2> QED BY <2>2, <2>3, <2>4
<1>4. Order' = Order BY <1>1, SameLists
<1>5. Goes' = Goes BY <1>1, <1>3, SameGoes
<1>6. Cursor' = Cursor BY <1>1, SameCursor
<1> QED BY <1>2, <1>4, <1>5, <1>6 DEF Lists!vars

\* A change of what one block leads to.
LEMMA GoesAt ==
  ASSUME BodyInv, live' = live, NEW b \in live, \A c \in live : c # b => (c \in ended' <=> c \in ended),
         NEW x, edges' = [edges EXCEPT ![b] = x], NEW y,
         y = [ended |-> b \in ended', to |-> [e \in DOMAIN x |-> x[e].to]]
  PROVE  Goes' = [Goes EXCEPT ![b] = y]
<1> DEFINE X == [Goes EXCEPT ![b] = y]
<1>0. DOMAIN edges = Block /\ live \subseteq Block BY LiveNow DEF BodyInv, EdgesOK
<1>1. X = [c \in live' |-> X[c]] /\ \A c \in live' : X[c] = IF c = b THEN y ELSE Goes[c] BY GoesNow
<1> HIDE DEF X
<1>2. ASSUME NEW c \in live' PROVE X[c] = [ended |-> c \in ended', to |-> (TargetsOf(c))']
  <2>1. CASE c = b
    <3>1. edges'[c] = x BY <1>0, <2>1
    <3>2. (TargetsOf(c))' = [e \in DOMAIN x |-> x[e].to] BY <3>1 DEF TargetsOf
    <3> HIDE DEF TargetsOf
    <3> QED BY <1>1, <2>1, <3>2
  <2>2. CASE c # b
    <3>1. edges'[c] = edges[c] BY <1>0, <2>2
    <3>2. (TargetsOf(c))' = TargetsOf(c) BY <3>1 DEF TargetsOf
    <3>3. (c \in ended') = (c \in ended) BY <2>2
    <3>4. Goes[c] = [ended |-> c \in ended, to |-> TargetsOf(c)] BY GoesNow
    <3>5. X[c] = Goes[c] BY <1>1, <2>2
    <3> HIDE DEF TargetsOf
    <3> QED BY <3>2, <3>3, <3>4, <3>5
  <2> QED BY <2>1, <2>2
<1>3. Goes' = X BY <1>1, <1>2, GoesThen
<1> QED BY <1>3 DEF X

LEMMA EndedNext ==
  /\ \A b \in ended' : \A t : [ended |-> b \in ended', to |-> t] = Lists!Leading(t)
  /\ \A b : b \notin ended' => [ended |-> b \in ended', to |-> <<>>] = Lists!Open
<1>1. ASSUME NEW b \in ended', NEW t PROVE [ended |-> b \in ended', to |-> t] = Lists!Leading(t)
  <2>1. (b \in ended') = TRUE OBVIOUS
  <2> QED BY <2>1 DEF Lists!Leading
<1>2. ASSUME NEW b, b \notin ended' PROVE [ended |-> b \in ended', to |-> <<>>] = Lists!Open
  <2>1. (b \in ended') = FALSE BY <1>2
  <2> QED BY <2>1 DEF Lists!Open
<1> QED BY <1>1, <1>2

LEMMA SetTerminatorSeen ==
  ASSUME BodyInv, NEW n \in 0..MaxEdges, NEW dests \in [1..n -> live], SetTerminator(dests)
  PROVE  Lists!Next
<1> DEFINE b == CurrentBlock
           x == [k \in DOMAIN dests |-> [to |-> dests[k], args |-> params[dests[k]]]]
<1>1. /\ b \in live /\ b \notin ended /\ ended' = ended \cup {b} /\ edges' = [edges EXCEPT ![b] = x]
      /\ arena' = arena /\ list' = list /\ live' = live /\ pos' = pos
  BY DEF SetTerminator
<1>2. [e \in DOMAIN x |-> x[e].to] = dests
  <2>1. DOMAIN x = 1..n /\ DOMAIN dests = 1..n /\ \A e \in 1..n : x[e].to = dests[e] OBVIOUS
  <2>2. dests = [e \in 1..n |-> dests[e]] OBVIOUS
  <2> HIDE DEF x
  <2> QED BY <2>1, <2>2
<1> HIDE DEF b, x
<1>3. [ended |-> b \in ended', to |-> [e \in DOMAIN x |-> x[e].to]] = Lists!Leading(dests)
  BY <1>1, <1>2, EndedNext
<1>4. Goes' = [Goes EXCEPT ![b] = Lists!Leading(dests)]
  <2> DEFINE y == [ended |-> b \in ended', to |-> [e \in DOMAIN x |-> x[e].to]]
  <2>1. \A c \in live : c # b => (c \in ended' <=> c \in ended) BY <1>1
  <2>2. \A z : z = y => Goes' = [Goes EXCEPT ![b] = z] BY <1>1, <2>1, GoesAt
  <2>3. y = Lists!Leading(dests) BY <1>3
  <2> QED BY <2>2, <2>3
<1>5. Order' = Order /\ Cursor' = Cursor BY <1>1, SameLists, SameCursor
<1>6. Lists!Live = live /\ ~Goes[b].ended BY <1>1, OrderNow, GoesNow
<1>7. Lists!Finish(b, dests) BY <1>1, <1>4, <1>5, <1>6 DEF Lists!Finish
<1>8. dests \in [1..n -> 1..arena.blocks]
  <2>1. live \subseteq 1..arena.blocks BY DEF BodyInv, LiveOK
  <2> QED BY <2>1
<1> QED BY <1>1, <1>6, <1>7, <1>8 DEF Lists!Next

LEMMA RemoveTerminatorSeen == ASSUME BodyInv, NEW b, RemoveTerminator(b) PROVE Lists!Next
<1>1. /\ b \in live /\ ended' = ended \ {b} /\ edges' = [edges EXCEPT ![b] = <<>>]
      /\ arena' = arena /\ list' = list /\ live' = live /\ pos' = pos
  BY LiveNow DEF RemoveTerminator, EndedWithout
<1>2. [e \in DOMAIN <<>> |-> <<>>[e].to] = <<>> OBVIOUS
<1>3. [ended |-> b \in ended', to |-> [e \in DOMAIN <<>> |-> <<>>[e].to]] = Lists!Open
  BY <1>1, <1>2, EndedNext
<1>4. Goes' = [Goes EXCEPT ![b] = Lists!Open]
  <2> DEFINE y == [ended |-> b \in ended', to |-> [e \in DOMAIN <<>> |-> <<>>[e].to]]
  <2>1. \A c \in live : c # b => (c \in ended' <=> c \in ended) BY <1>1
  <2>2. \A z : z = y => Goes' = [Goes EXCEPT ![b] = z] BY <1>1, <2>1, GoesAt
  <2>3. y = Lists!Open BY <1>3
  <2> QED BY <2>2, <2>3
<1>5. Order' = Order /\ Cursor' = Cursor BY <1>1, SameLists, SameCursor
<1>6. Lists!Live = live BY OrderNow
<1>7. Lists!Unfinish(b) BY <1>1, <1>4, <1>5, <1>6 DEF Lists!Unfinish
<1> QED BY <1>1, <1>6, <1>7 DEF Lists!Next

LEMMA RemoveBlockSeen == ASSUME BodyInv, NEW b, RemoveBlock(b), BodyInv' PROVE Lists!Next
<1> DEFINE w == Walk(b)
<1> USE NoneIsNothing
<1>1. /\ b \in live /\ b # Entry /\ list' = InTurn(Unlink, list, w)
      /\ live' = live \ {b} /\ ended' = ended \ {b} /\ edges' = [edges EXCEPT ![b] = <<>>]
      /\ pos' = IF CurrentBlock \in {b, NONE} THEN End(Entry) ELSE pos
      /\ arena' = arena
  BY DEF RemoveBlock, EndedWithout, PosAfterRemove
<1>2. /\ b \in Block /\ Entry \in live /\ live \subseteq Block /\ Sound(list) /\ Lists!Live = live
      /\ DOMAIN Order = live /\ \A c \in live : Order[c] = Walk(c) /\ ListOf(list, c, Walk(c))
  BY <1>1, OrderNow, LiveNow
<1>3. \A c \in live' : ListOf(list', c, Order[c])
  <2>1. ListOf(list, b, w) BY <1>1, <1>2
  <2> HIDE DEF w
  <2>2. /\ w \in Seq(Inst) /\ \A n \in 1..Len(w) : list.block[w[n]] = b
        /\ \A n, k \in 1..Len(w) : w[n] = w[k] => n = k
    BY <2>1, ListOfFacts DEF Distinct
  <2>3. \A n \in 1..Len(w) : list.block[w[n]] # NONE BY <1>2, <2>2
  <2>4. \A c \in Block : \A v : ListOf(list, c, v) /\ (\A n \in 1..Len(w) : list.block[w[n]] # c)
                                => ListOf(list', c, v)
    BY <1>1, <1>2, <2>2, <2>3, UnlinkAllKeeps
  <2> SUFFICES ASSUME NEW c \in live' PROVE ListOf(list', c, Order[c]) OBVIOUS
  <2>5. c \in live /\ c # b /\ c \in Block BY <1>1, <1>2
  <2>6. \A n \in 1..Len(w) : list.block[w[n]] # c BY <2>2, <2>5
  <2> QED BY <1>2, <2>4, <2>5, <2>6
<1> HIDE DEF w
<1>4. Order' = [c \in live \ {b} |-> Order[c]]
  <2> DEFINE X == [c \in live \ {b} |-> Order[c]]
  <2>1. X = [c \in live' |-> X[c]] /\ \A c \in live' : ListOf(list', c, X[c]) BY <1>1, <1>3
  <2> HIDE DEF X
  <2>2. Order' = X BY <2>1, OrderNext
  <2> QED BY <2>2 DEF X
<1>5. Goes' = [c \in live \ {b} |-> Goes[c]]
  <2> DEFINE X == [c \in live \ {b} |-> Goes[c]]
  <2>1. X = [c \in live' |-> X[c]] /\ \A c \in live' : X[c] = Goes[c] BY <1>1
  <2> HIDE DEF X
  <2>2. ASSUME NEW c \in live' PROVE X[c] = [ended |-> c \in ended', to |-> (TargetsOf(c))']
    <3>1. c \in live /\ c # b BY <1>1
    <3>2. edges'[c] = edges[c] BY <1>1, <1>2, <3>1 DEF BodyInv, EdgesOK
    <3>3. (TargetsOf(c))' = TargetsOf(c) BY <3>2 DEF TargetsOf
    <3>4. (c \in ended') = (c \in ended) BY <1>1, <3>1
    <3>5. X[c] = [ended |-> c \in ended, to |-> TargetsOf(c)] BY <2>1, <3>1, GoesNow
    <3> HIDE DEF TargetsOf
    <3> QED BY <3>3, <3>4, <3>5
  <2>3. Goes' = X BY <2>1, <2>2, GoesThen
  <2> QED BY <2>3 DEF X
<1> DEFINE e == Cursor.block
           a == Cursor.at
<1>6. /\ Cursor = [block |-> e, at |-> a] /\ e \in live /\ e = CurrentBlock /\ e # NONE
      /\ Stands(pos, e, Walk(e), a)
  BY <1>2, CursorStands
<1>7. Cursor' = IF e = b THEN [block |-> Entry, at |-> Len(Order[Entry])] ELSE Cursor
  <2> HIDE DEF e, a
  <2>1. CASE e = b
    <3>1. pos' = End(Entry) BY <1>1, <1>6, <2>1
    <3>2. ListOf(list', Entry, Order[Entry]) /\ Entry \in Block BY <1>1, <1>2, <1>3
    <3>3. Stands(pos', Entry, Order[Entry], Len(Order[Entry])) BY <3>1 DEF Stands
    <3> QED BY <2>1, <3>2, <3>3, CursorNext
  <2>2. CASE e # b
    <3>1. pos' = pos BY <1>1, <1>6, <2>2
    <3>2. ListOf(list', e, Walk(e)) /\ e \in Block BY <1>1, <1>2, <1>3, <1>6, <2>2
    <3>3. Cursor' = [block |-> e, at |-> a] BY <1>6, <3>1, <3>2, CursorNext
    <3> QED BY <1>6, <2>2, <3>3
  <2> QED BY <2>1, <2>2
<1>8. Lists!DropBlock(b)
  <2>1. Lists!Entry = Entry BY DEF Lists!Entry, Entry
  <2> QED BY <1>1, <1>2, <1>4, <1>5, <1>7, <2>1 DEF Lists!DropBlock
<1> QED BY <1>1, <1>2, <1>8 DEF Lists!Next

------------------------------------------------------------------------------
(***************************************************************************)
(* Splitting a block.                                                      *)
(***************************************************************************)
\* w without n elements from the k-th on, and these.
Cut(w, k, n) == [j \in 1..(Len(w) - n) |-> IF j < k THEN w[j] ELSE w[j + n]]
Part(w, k, n) == [j \in 1..n |-> w[k + j - 1]]

LEMMA CutFacts ==
  ASSUME NEW w \in Seq(Inst), NEW k \in 1..Len(w), NEW n \in 0..(Len(w) - k + 1)
  PROVE  /\ Cut(w, k, n) \in Seq(Inst) /\ Len(Cut(w, k, n)) = Len(w) - n
         /\ Part(w, k, n) \in Seq(Inst) /\ Len(Part(w, k, n)) = n
         /\ n = 0 => Cut(w, k, n) = w /\ Part(w, k, n) = <<>>
         /\ n # Len(w) - k + 1 =>
               /\ k \in 1..Len(Cut(w, k, n)) /\ Cut(w, k, n)[k] = w[k + n]
               /\ Less(Cut(w, k, n), k) = Cut(w, k, n + 1)
               /\ With(Part(w, k, n), n, w[k + n]) = Part(w, k, n + 1)
<1> DEFINE L == Len(w)
           c == Cut(w, k, n)
           p == Part(w, k, n)
<1>0. L \in Nat /\ \A j \in 1..L : w[j] \in Inst BY LenProperties, ElementOfSeq
<1>1. k \in Nat /\ n \in Nat /\ 1 <= k /\ k + n - 1 <= L /\ L - n \in Nat BY <1>0
<1>2. /\ c = [j \in 1..(L - n) |-> IF j < k THEN w[j] ELSE w[j + n]]
      /\ p = [j \in 1..n |-> w[k + j - 1]]
  BY DEF Cut, Part
<1>3. c \in [1..(L - n) -> Inst]
  <2>1. ASSUME NEW j \in 1..(L - n) PROVE c[j] \in Inst
    <3>1. j \in 1..L /\ j + n \in 1..L BY <1>0, <1>1
    <3>2. c[j] = IF j < k THEN w[j] ELSE w[j + n] BY <1>2
    <3> HIDE DEF c
    <3> QED BY <1>0, <3>1, <3>2
  <2> QED BY <1>2, <2>1
<1>4. p \in [1..n -> Inst]
  <2>1. ASSUME NEW j \in 1..n PROVE w[k + j - 1] \in Inst
    <3>1. k + j - 1 \in 1..L BY <1>0, <1>1
    <3> QED BY <1>0, <3>1
  <2> QED BY <1>2, <2>1
<1> HIDE DEF c, p
<1>5. c \in Seq(Inst) /\ Len(c) = L - n
  <2>1. c \in Seq(Inst) BY <1>1, <1>3, FunctionSeq
  <2>2. DOMAIN c = 1..(L - n) /\ DOMAIN c = 1..Len(c) /\ Len(c) \in Nat BY <1>3, <2>1, LenProperties
  <2> QED BY <1>1, <2>1, <2>2
<1>6. p \in Seq(Inst) /\ Len(p) = n
  <2>1. p \in Seq(Inst) BY <1>1, <1>4, FunctionSeq
  <2>2. DOMAIN p = 1..n /\ DOMAIN p = 1..Len(p) /\ Len(p) \in Nat BY <1>4, <2>1, LenProperties
  <2> QED BY <1>1, <2>1, <2>2
<1>7. ASSUME n = 0 PROVE c = w /\ p = <<>>
  <2>1. Len(c) = L BY <1>0, <1>5, <1>7
  <2>2. \A j \in 1..L : c[j] = w[j] BY <1>0, <1>2, <1>7
  <2>3. c = w BY <1>5, <2>1, <2>2, SeqEqual
  <2>4. Len(p) = 0 BY <1>6, <1>7
  <2> QED BY <1>6, <2>3, <2>4, EmptySeq
<1>8. ASSUME n # L - k + 1
      PROVE  /\ k \in 1..Len(c) /\ c[k] = w[k + n] /\ Less(c, k) = Cut(w, k, n + 1)
             /\ With(p, n, w[k + n]) = Part(w, k, n + 1)
  <2>1. /\ k + n <= L /\ k \in 1..(L - n) /\ ~(k < k) /\ (L - n) - 1 = L - (n + 1) /\ k + n \in 1..L
        /\ (L - n) - 1 \in Nat
    BY <1>0, <1>1, <1>8
  <2>2. c[k] = w[k + n] BY <1>2, <2>1
  <2>3. Less(c, k) = Cut(w, k, n + 1)
    <3>1. ASSUME NEW j \in 1..(L - (n + 1))
          PROVE  (IF j < k THEN c[j] ELSE c[j + 1]) = IF j < k THEN w[j] ELSE w[j + (n + 1)]
      <4>1. /\ j \in 1..(L - n) /\ j + 1 \in 1..(L - n) /\ (j + 1) + n = j + (n + 1)
            /\ ~(j < k) => ~(j + 1 < k)
        BY <1>0, <1>1, <2>1
      <4>2. /\ c[j] = IF j < k THEN w[j] ELSE w[j + n]
            /\ c[j + 1] = IF j + 1 < k THEN w[j + 1] ELSE w[(j + 1) + n]
        BY <1>2, <4>1
      <4> QED BY <4>1, <4>2
    <3>2. Less(c, k) = [j \in 1..(L - (n + 1)) |-> IF j < k THEN c[j] ELSE c[j + 1]]
      BY <1>5, <2>1 DEF Less
    <3>3. Cut(w, k, n + 1) = [j \in 1..(L - (n + 1)) |-> IF j < k THEN w[j] ELSE w[j + (n + 1)]]
      BY DEF Cut
    <3> QED BY <3>1, <3>2, <3>3
  <2>4. With(p, n, w[k + n]) = Part(w, k, n + 1)
    <3>1. ASSUME NEW j \in 1..(n + 1)
          PROVE  (IF j <= n THEN p[j] ELSE IF j = n + 1 THEN w[k + n] ELSE p[j - 1]) = w[k + j - 1]
      <4>1. CASE j <= n
        <5>1. j \in 1..n BY <1>1, <4>1
        <5> QED BY <1>2, <4>1, <5>1
      <4>2. CASE ~(j <= n)
        <5>1. j = n + 1 /\ k + j - 1 = k + n BY <1>1, <4>2
        <5> QED BY <4>2, <5>1
      <4> QED BY <4>1, <4>2
    <3>2. With(p, n, w[k + n])
          = [j \in 1..(n + 1) |-> IF j <= n THEN p[j] ELSE IF j = n + 1 THEN w[k + n] ELSE p[j - 1]]
      BY <1>6 DEF With
    <3>3. Part(w, k, n + 1) = [j \in 1..(n + 1) |-> w[k + j - 1]] BY DEF Part
    <3> QED BY <3>1, <3>2, <3>3
  <2> QED BY <1>5, <2>1, <2>2, <2>3, <2>4
<1> QED BY <1>5, <1>6, <1>7, <1>8 DEF c, p

LEMMA MoveSteps ==
  ASSUME NEW l, NEW f, NEW n \in Nat, Len(f) = n, Len(f) \in Nat, NEW new
  PROVE  \E done : /\ done[0] = l /\ MovedAll(l, f, new) = done[n]
                  /\ \A j \in 1..n : done[j] = LinkAt(Unlink(done[j - 1], f[j]), f[j], End(new))
<1>1. \E done : /\ done = [j \in 0..Len(f) |-> IF j = 0 THEN l ELSE LinkAt(Unlink(done[j - 1], f[j]), f[j], End(new))]
                /\ MovedAll(l, f, new) = done[Len(f)]
  BY SMTT(30), MoveAllDef
<1>2. PICK done : /\ done = [j \in 0..Len(f) |-> IF j = 0 THEN l ELSE LinkAt(Unlink(done[j - 1], f[j]), f[j], End(new))]
                  /\ MovedAll(l, f, new) = done[Len(f)]
  BY <1>1
<1>3. \A j \in 0..n : done[j] = IF j = 0 THEN l ELSE LinkAt(Unlink(done[j - 1], f[j]), f[j], End(new))
  BY <1>2
<1> QED BY <1>2, <1>3

\* The end of a block's list moved to a new block, one after the other.
LEMMA MoveAllWalks ==
  ASSUME NEW l, Sound(l), NEW b \in Block, NEW new \in Block, b # new, NEW w, ListOf(l, b, w),
         ListOf(l, new, <<>>), NEW k \in 1..Len(w), NEW f, f = Part(w, k, Len(w) - k + 1),
         NEW m, m = MovedAll(l, f, new)
  PROVE  /\ ListOf(m, b, Cut(w, k, Len(w) - k + 1)) /\ ListOf(m, new, f)
         /\ \A c \in Block : \A v : c \notin {b, new} /\ ListOf(l, c, v) => ListOf(m, c, v)
<1> USE NoneIsNothing
<1> DEFINE L == Len(w)
           N == L - k + 1
<1>0. w \in Seq(Inst) /\ L \in Nat /\ \A j \in 1..L : w[j] \in Inst BY ListOfFacts
<1>1. N \in Nat /\ N \in 0..N /\ 0 \in 0..N /\ k + N = L + 1 BY <1>0
<1>2. f \in Seq(Inst) /\ Len(f) = N /\ \A n \in 1..N : f[n] = w[k + n - 1]
  <2>3. \A n \in 0..(L - k + 1) : Part(w, k, n) \in Seq(Inst) /\ Len(Part(w, k, n)) = n
    BY <1>0, CutFacts
  <2>4. N \in 0..(L - k + 1) BY <1>1
  <2>1. f \in Seq(Inst) /\ Len(f) = N
    <3>1. f = Part(w, k, N) OBVIOUS
    <3> HIDE DEF N
    <3> QED BY <2>3, <2>4, <3>1
  <2>2. f = [n \in 1..N |-> w[k + n - 1]] BY DEF Part
  <2> QED BY <2>1, <2>2
<1> HIDE DEF N
<1>8. Len(f) = N /\ Len(f) \in Nat BY <1>1, <1>2
<1>3. PICK done : /\ done[0] = l /\ m = done[N]
                  /\ \A j \in 1..N : done[j] = LinkAt(Unlink(done[j - 1], f[j]), f[j], End(new))
  BY <1>1, <1>8, MoveSteps
<1> DEFINE Ok(x, n) ==
             /\ Sound(x) /\ ListOf(x, b, Cut(w, k, n)) /\ ListOf(x, new, Part(w, k, n))
             /\ \A c \in Block : \A v : c \notin {b, new} /\ ListOf(l, c, v) => ListOf(x, c, v)
           T == {n \in Nat : n <= N => Ok(done[n], n)}
<1>4. 0 \in T
  <2>1. done[0] = l BY <1>1, <1>3
  <2>2. Cut(w, k, 0) = w /\ Part(w, k, 0) = <<>> BY <1>0, <1>1, CutFacts DEF N
  <2> QED BY <2>1, <2>2
<1>5. ASSUME NEW n \in Nat, n \in T PROVE n + 1 \in T
  <2> SUFFICES ASSUME n + 1 <= N PROVE Ok(done[n + 1], n + 1) OBVIOUS
  <2>1. /\ n + 1 \in 0..N /\ n + 1 # 0 /\ (n + 1) - 1 = n /\ n <= N /\ n \in 0..N /\ n # N
        /\ n + 1 \in 1..N /\ k + (n + 1) - 1 = k + n /\ k + n \in 1..L
    BY <1>0, <1>1
  <2> DEFINE x == done[n]
             i == f[n + 1]
             y == done[n + 1]
             u == Unlink(x, i)
             s == Cut(w, k, n)
             v == Part(w, k, n)
  <2>2. /\ Sound(x) /\ ListOf(x, b, s) /\ ListOf(x, new, v)
        /\ \A c \in Block : \A z : c \notin {b, new} /\ ListOf(l, c, z) => ListOf(x, c, z)
    BY <1>5, <2>1
  <2>3. y = LinkAt(Unlink(x, i), i, End(new)) BY <1>3, <2>1
  <2> HIDE DEF x, y
  <2>4. i = w[k + n] /\ i \in Inst BY <1>0, <1>2, <2>1
  <2> HIDE DEF i
  <2>5. /\ s \in Seq(Inst) /\ v \in Seq(Inst) /\ Len(v) = n /\ k \in 1..Len(s) /\ s[k] = i
        /\ Less(s, k) = Cut(w, k, n + 1) /\ With(v, n, i) = Part(w, k, n + 1)
    BY <1>0, <2>1, <2>4, CutFacts DEF N
  <2> HIDE DEF s, v
  <2>6. x.block[i] = b /\ ListType(x) BY <2>2, <2>5 DEF ListOf, Sound
  <2>7. TakenFrom(x, u, s[k]) BY <2>4, <2>5, <2>6, UnlinkFields
  <2>8. ListType(u) /\ u.block[i] = NONE BY <2>4, <2>5, <2>7 DEF TakenFrom
  <2> HIDE DEF u
  <2>9. /\ ListOf(u, b, Less(s, k))
        /\ \A c \in Block : \A z : c # b /\ ListOf(x, c, z) => ListOf(u, c, z)
    BY <2>2, <2>5, <2>7, UnlinkWalks
  <2>10. ListOf(u, new, v) BY <2>2, <2>9
  <2>11. Stands(End(new), new, v, n) BY <2>5 DEF Stands
  <2>12. y = LinkAt(u, i, End(new)) BY <2>3 DEF u
  <2>13. /\ ListOf(y, new, With(v, n, i))
         /\ \A c \in Block : \A z : c # new /\ ListOf(u, c, z) => ListOf(y, c, z)
    BY <2>4, <2>8, <2>10, <2>11, <2>12, LinkAtWalks
  <2>14. Sound(y)
    <3>1. Place(x, End(new)) BY DEF Place
    <3>2. End(new) \notin {Before(i), After(i)}
      <4>1. End(new).where # Before(i).where /\ End(new).where # After(i).where BY PositionFields
      <4> QED BY <4>1
    <3> QED BY <2>2, <2>3, <2>4, <2>6, <3>1, <3>2, MoveKeeps
  <2>15. ListOf(y, b, Cut(w, k, n + 1)) BY <2>5, <2>9, <2>13
  <2>16. ListOf(y, new, Part(w, k, n + 1)) BY <2>5, <2>13
  <2>17. \A c \in Block : \A z : c \notin {b, new} /\ ListOf(l, c, z) => ListOf(y, c, z)
    BY <2>2, <2>9, <2>13
  <2> QED BY <2>14, <2>15, <2>16, <2>17 DEF y
<1>6. N \in T
  <2> HIDE DEF T
  <2> QED BY <1>1, <1>4, <1>5, SetInduction
<1>7. Ok(m, N) BY <1>1, <1>3, <1>6
<1> QED BY <1>7 DEF N

LEMMA FromIsPart ==
  ASSUME BodyInv, NEW i \in Linked, NEW k \in 1..Len(Walk(list.block[i])), Walk(list.block[i])[k] = i
  PROVE  LET w == Walk(list.block[i]) IN
         /\ From(i) = Part(w, k, Len(w) - k + 1)
         /\ Part(w, k, Len(w) - k + 1) = SubSeq(w, k, Len(w))
         /\ Cut(w, k, Len(w) - k + 1) = SubSeq(w, 1, k - 1)
<1> DEFINE w == Walk(list.block[i])
           N == Len(w) - k + 1
<1>1. ListOf(list, list.block[i], w) BY PlaceOf, OrderNow
<1> HIDE DEF w
<1>2. /\ w \in Seq(Inst) /\ Len(w) \in Nat /\ DOMAIN w = 1..Len(w)
      /\ \A n, h \in 1..Len(w) : w[n] = w[h] => n = h
      /\ \A n \in 1..Len(w) : w[n] \in Inst
  BY <1>1, ListOfFacts DEF Distinct
<1>3. k \in 1..Len(w) /\ w[k] = i BY DEF w
<1>0. Len(w) \in Nat /\ k \in Nat /\ 1 <= k /\ k <= Len(w) BY <1>2, <1>3
<1>4. (CHOOSE n \in DOMAIN w : w[n] = i) = k BY <1>2, <1>3
<1>5. From(i) = SubSeq(w, k, Len(w)) BY <1>4 DEF From, w
<1>6. N \in 0..N /\ N \in Nat /\ Len(w) - N = k - 1 BY <1>0
<1>7. /\ Part(w, k, N) \in Seq(Inst) /\ Len(Part(w, k, N)) = N
      /\ Cut(w, k, N) \in Seq(Inst) /\ Len(Cut(w, k, N)) = k - 1
  <2>1. \A n \in 0..(Len(w) - k + 1) :
           /\ Part(w, k, n) \in Seq(Inst) /\ Len(Part(w, k, n)) = n
           /\ Cut(w, k, n) \in Seq(Inst) /\ Len(Cut(w, k, n)) = Len(w) - n
    BY ZenonT(40), <1>2, <1>3, CutFacts
  <2>2. N \in 0..(Len(w) - k + 1) BY <1>6
  <2> HIDE DEF N
  <2> QED BY SMTT(30), <1>6, <2>1, <2>2
<1>8. Part(w, k, N) = SubSeq(w, k, Len(w))
  <2> DEFINE s == SubSeq(w, k, Len(w))
             p == Part(w, k, N)
  <2>1. k \in Int /\ Len(w) \in Int /\ \A j \in k..Len(w) : w[j] \in Inst BY <1>0, <1>2
  <2>2. /\ s \in Seq(Inst) /\ Len(s) = IF k <= Len(w) THEN Len(w) - k + 1 ELSE 0
        /\ \A j \in 1..(Len(w) - k + 1) : s[j] = w[k + j - 1]
    BY SMTT(30), <2>1, SubSeqProperties
  <2>3. \A j \in 1..N : p[j] = w[k + j - 1] BY DEF Part
  <2> HIDE DEF s, p
  <2>4. Len(s) = N /\ \A j \in 1..N : s[j] = p[j] BY <1>0, <2>2, <2>3
  <2>5. p \in Seq(Inst) /\ Len(p) = N BY <1>7 DEF p
  <2> HIDE DEF N
  <2>6. p = s BY <2>2, <2>4, <2>5, SeqEqual
  <2> QED BY <2>6 DEF p, s
<1>9. Cut(w, k, N) = SubSeq(w, 1, k - 1)
  <2> DEFINE s == SubSeq(w, 1, k - 1)
             c == Cut(w, k, N)
  <2>1. 1 \in Int /\ k - 1 \in Int /\ \A j \in 1..(k - 1) : w[j] \in Inst BY <1>0, <1>2
  <2>2. /\ s \in Seq(Inst) /\ Len(s) = IF 1 <= k - 1 THEN (k - 1) - 1 + 1 ELSE 0
        /\ \A j \in 1..((k - 1) - 1 + 1) : s[j] = w[1 + j - 1]
    BY <2>1, SubSeqProperties
  <2>3. ASSUME NEW j \in 1..(k - 1) PROVE c[j] = w[j]
    <3>1. j \in 1..(Len(w) - N) /\ j < k BY <1>0, <1>6
    <3> QED BY <3>1 DEF Cut
  <2> HIDE DEF s, c
  <2>4. Len(s) = k - 1 /\ \A j \in 1..(k - 1) : s[j] = w[j] BY <1>0, <2>2
  <2>5. c \in Seq(Inst) /\ Len(c) = k - 1 BY <1>7 DEF c
  <2>6. c = s BY <2>2, <2>3, <2>4, <2>5, SeqEqual
  <2> QED BY <2>6 DEF c, s
<1> QED BY <1>5, <1>8, <1>9 DEF w

LEMMA SplitBlockSeen == ASSUME BodyInv, NEW i, SplitBlock(i), BodyInv' PROVE Lists!Next
<1> DEFINE b == list.block[i]
           new == arena.blocks + 1
           w == Walk(b)
           jump == <<[to |-> new, args |-> <<>>]>>
<1> USE NoneIsNothing
<1>1. /\ i \in Linked /\ Grow(1, 0, 0) /\ live' = live \cup {new}
      /\ list' = MovedAll(list, From(i), new)
      /\ ended' = ended \cup {b} \cup (IF b \in ended THEN {new} ELSE {})
      /\ edges' = [edges EXCEPT ![new] = edges[b], ![b] = jump]
      /\ pos' = pos
  BY DEF SplitBlock, MovedAll
<1>2. /\ arena'.blocks = new /\ arena'.insts = arena.insts
      /\ new \in Block /\ new \notin live
  <2>0. /\ arena.blocks \in Nat /\ arena.insts \in Nat /\ arena.values \in Nat
        /\ live \subseteq 1..arena.blocks
    BY ArenaFacts DEF BodyInv, LiveOK
  <2>1. ArenaOK' /\ arena'.blocks = arena.blocks + 1 /\ arena'.insts = arena.insts + 0
    BY <1>1, <2>0, GrowFacts DEF BodyInv
  <2>2. arena'.blocks \in Block BY <2>1 DEF ArenaOK
  <2>3. new \notin 1..arena.blocks BY <2>0
  <2>4. arena'.insts = arena.insts BY <2>0, <2>1
  <2> HIDE DEF new
  <2> QED BY <2>0, <2>1, <2>2, <2>3, <2>4 DEF new
<1>3. i \in Inst /\ b \in live /\ b \in Block /\ b # new BY <1>1, <1>2, PlaceOf
<1>4. PICK k \in 1..Len(w) : w[k] = i BY <1>1, PlaceOf
<1> DEFINE N == Len(w) - k + 1
           head == Cut(w, k, N)
           rest == Part(w, k, N)
<1>5. /\ From(i) = rest /\ rest = SubSeq(w, k, Len(w)) /\ head = SubSeq(w, 1, k - 1)
  BY <1>1, <1>4, FromIsPart
<1>6. /\ Sound(list) /\ live \subseteq Block /\ Lists!Live = live /\ DOMAIN Order = live
      /\ \A c \in live : Order[c] = Walk(c) /\ ListOf(list, c, Walk(c))
      /\ ListOf(list, b, w) /\ Order[b] = w
  BY <1>3, OrderNow, LiveNow
<1> HIDE DEF b, new, w
<1>7. ListOf(list, new, <<>>)
  <2>1. \A j \in Inst : list.block[j] # new BY <1>2 DEF BodyInv, ListsOK
  <2> QED BY <1>2, <1>6, <2>1, EmptyList
<1>8. /\ ListOf(list', b, head) /\ ListOf(list', new, rest)
      /\ \A c \in Block : \A v : c \notin {b, new} /\ ListOf(list, c, v) => ListOf(list', c, v)
  <2>1. list' = MovedAll(list, rest, new) BY <1>1, <1>5
  <2> QED BY <1>2, <1>3, <1>4, <1>6, <1>7, <2>1, MoveAllWalks
<1>9. Len(w) \in Nat /\ k \in Nat /\ 1 <= k /\ k <= Len(w) BY <1>4, <1>6, ListOfFacts
<1>10. w \in Seq(Inst) /\ Distinct(w) BY <1>6, ListOfFacts
<1>11. Len(head) = k - 1 /\ Len(rest) = N
       /\ (\A j \in 1..(k - 1) : head[j] = w[j])
       /\ \A j \in 1..N : rest[j] = w[k + j - 1]
  <2>1. N \in 0..N /\ Len(w) - N = k - 1 BY <1>9
  <2>6. \A n \in 0..(Len(w) - k + 1) : Len(Part(w, k, n)) = n /\ Len(Cut(w, k, n)) = Len(w) - n
    BY <1>4, <1>10, CutFacts
  <2>7. N \in 0..(Len(w) - k + 1) BY <2>1
  <2>2. Len(head) = k - 1 /\ Len(rest) = N
    <3> HIDE DEF N
    <3> QED BY <2>1, <2>6, <2>7
  <2>3. \A j \in 1..(k - 1) : j \in 1..(Len(w) - N) /\ j < k BY <1>9, <2>1
  <2>4. \A j \in 1..(k - 1) : head[j] = w[j] BY <2>3 DEF Cut
  <2>5. \A j \in 1..N : rest[j] = w[k + j - 1] BY DEF Part
  <2> QED BY <2>2, <2>4, <2>5
<1> HIDE DEF head, rest
<1>12. Order' = Lists!Plus([Order EXCEPT ![b] = head], new, rest)
  <2> DEFINE Y == [Order EXCEPT ![b] = head]
             X == Lists!Plus(Y, new, rest)
  <2>0. DOMAIN Y = live /\ \A c \in live : Y[c] = IF c = b THEN head ELSE Order[c] BY <1>6
  <2> HIDE DEF Y
  <2>1. /\ X = [c \in live' |-> X[c]]
        /\ \A c \in live' : X[c] = IF c = new THEN rest ELSE Y[c]
    BY <1>1, <2>0 DEF Lists!Plus
  <2> HIDE DEF X
  <2>2. \A c \in live' : ListOf(list', c, X[c])
    <3> SUFFICES ASSUME NEW c \in live' PROVE ListOf(list', c, X[c]) OBVIOUS
    <3>1. CASE c = new BY <1>8, <2>1, <3>1
    <3>2. CASE c = b BY <1>3, <1>8, <2>0, <2>1, <3>2
    <3>3. CASE c \notin {b, new}
      <4>1. c \in live /\ c \in Block BY <1>1, <1>6, <3>3
      <4>2. X[c] = Order[c] /\ ListOf(list, c, Order[c]) BY <1>6, <2>0, <2>1, <3>3, <4>1
      <4> QED BY <1>8, <3>3, <4>1, <4>2
    <3> QED BY <3>1, <3>2, <3>3
  <2>3. Order' = X BY <2>1, <2>2, OrderNext
  <2> QED BY <2>3 DEF X, Y
<1>13. Goes' = Lists!Plus([Goes EXCEPT ![b] = Lists!Leading(<<new>>)], new, Goes[b])
  <2> DEFINE Y == [Goes EXCEPT ![b] = Lists!Leading(<<new>>)]
             X == Lists!Plus(Y, new, Goes[b])
  <2>0. DOMAIN Y = live /\ \A c \in live : Y[c] = IF c = b THEN Lists!Leading(<<new>>) ELSE Goes[c]
    BY GoesNow
  <2> HIDE DEF Y
  <2>1. /\ X = [c \in live' |-> X[c]]
        /\ \A c \in live' : X[c] = IF c = new THEN Goes[b] ELSE Y[c]
    BY <1>1, <2>0 DEF Lists!Plus
  <2> HIDE DEF X
  <2>2. DOMAIN edges = Block /\ ended \subseteq live BY LiveNow DEF BodyInv, EdgesOK
  <2>3. ASSUME NEW c \in live' PROVE X[c] = [ended |-> c \in ended', to |-> (TargetsOf(c))']
    <3>1. CASE c = new
      <4>1. edges'[c] = edges[b] BY <1>1, <1>2, <1>3, <2>2, <3>1
      <4>2. (TargetsOf(c))' = TargetsOf(b) BY <4>1 DEF TargetsOf
      <4>3. c \in ended' <=> b \in ended BY <1>1, <1>2, <1>3, <2>2, <3>1
      <4>4. (c \in ended') = (b \in ended) BY <4>3
      <4>5. Goes[b] = [ended |-> b \in ended, to |-> TargetsOf(b)] BY <1>3, GoesNow
      <4> HIDE DEF TargetsOf
      <4> QED BY <2>1, <3>1, <4>2, <4>4, <4>5
    <3>2. CASE c = b
      <4>1. edges'[c] = jump BY <1>1, <1>3, <2>2, <3>2
      <4>2. (TargetsOf(c))' = <<new>> BY <4>1 DEF TargetsOf
      <4>3. c \in ended' BY <1>1, <3>2
      <4>4. X[c] = Lists!Leading(<<new>>) BY <1>3, <2>0, <2>1, <3>2
      <4> HIDE DEF TargetsOf
      <4> QED BY <4>2, <4>3, <4>4, EndedNext
    <3>3. CASE c \notin {b, new}
      <4>1. c \in live BY <1>1, <3>3
      <4>2. edges'[c] = edges[c] BY <1>1, <1>6, <2>2, <3>3, <4>1
      <4>3. (TargetsOf(c))' = TargetsOf(c) BY <4>2 DEF TargetsOf
      <4>4. c \in ended' <=> c \in ended BY <1>1, <3>3
      <4>5. (c \in ended') = (c \in ended) BY <4>4
      <4>6. X[c] = [ended |-> c \in ended, to |-> TargetsOf(c)] BY <2>0, <2>1, <3>3, <4>1, GoesNow
      <4> HIDE DEF TargetsOf
      <4> QED BY <4>3, <4>5, <4>6
    <3> QED BY <3>1, <3>2, <3>3
  <2>4. Goes' = X BY <2>1, <2>3, GoesThen
  <2> QED BY <2>4 DEF X, Y
<1> DEFINE e == Cursor.block
           a == Cursor.at
<1>14. /\ Cursor = [block |-> e, at |-> a] /\ e \in live
       /\ a \in 0..Len(Walk(e)) /\ Stands(pos, e, Walk(e), a)
  BY CursorStands
<1> HIDE DEF e, a
<1>15. \/ Cursor' = IF e = b /\ a >= k THEN [block |-> b, at |-> k - 1] ELSE Cursor
       \/ e = b /\ a >= k - 1 /\ Cursor' = [block |-> new, at |-> a - (k - 1)]
  <2>1. CASE e # b
    <3>1. ListOf(list', e, Walk(e)) /\ e \in Block BY <1>2, <1>6, <1>8, <1>14, <2>1
    <3>2. Cursor' = [block |-> e, at |-> a] BY <1>1, <1>14, <3>1, CursorNext
    <3> QED BY <1>14, <2>1, <3>2
  <2>2. CASE e = b
    <3>0. a \in 0..Len(w) /\ Stands(pos, b, w, a) BY <1>14, <2>2 DEF w
    <3>a. a \in Nat BY <1>9, <3>0
    <3>9. N \in Nat /\ N = Len(w) - k + 1 BY <1>9
    <3> HIDE DEF N
    <3>1. \/ a >= k /\ Stands(pos, b, head, k - 1)
          \/ a < k /\ Stands(pos, b, head, a)
          \/ a >= k - 1 /\ Stands(pos, new, rest, a - (k - 1))
      <4>1. CASE pos = End(b) /\ a = Len(w)
        <5>1. a >= k BY <1>9, <4>1
        <5> QED BY <1>11, <4>1, <5>1 DEF Stands
      <4>2. CASE \E n \in 1..Len(w) : pos = Before(w[n]) /\ a = n - 1
        <5>1. PICK n \in 1..Len(w) : pos = Before(w[n]) /\ a = n - 1 BY <4>2
        <5>2. CASE n < k
          <6>1. n \in 1..(k - 1) /\ a < k BY <1>9, <5>1, <5>2
          <6> QED BY <1>11, <5>1, <6>1 DEF Stands
        <5>3. CASE ~(n < k)
          <6>1. /\ n - k + 1 \in 1..N /\ k + (n - k + 1) - 1 = n /\ a - (k - 1) = (n - k + 1) - 1
                /\ a >= k - 1
            BY <1>9, <3>9, <5>1, <5>3
          <6>2. rest[n - k + 1] = w[n] BY <1>11, <6>1
          <6> QED BY <1>11, <5>1, <6>1, <6>2 DEF Stands
        <5> QED BY <5>2, <5>3
      <4>3. CASE \E n \in 1..Len(w) : pos = After(w[n]) /\ a = n
        <5>1. PICK n \in 1..Len(w) : pos = After(w[n]) /\ a = n BY <4>3
        <5>2. CASE n < k
          <6>1. n \in 1..(k - 1) /\ a < k BY <1>9, <5>1, <5>2
          <6> QED BY <1>11, <5>1, <6>1 DEF Stands
        <5>3. CASE ~(n < k)
          <6>1. /\ n - k + 1 \in 1..N /\ k + (n - k + 1) - 1 = n /\ a - (k - 1) = n - k + 1
                /\ a >= k - 1
            BY <1>9, <3>9, <5>1, <5>3
          <6>2. rest[n - k + 1] = w[n] BY <1>11, <6>1
          <6> QED BY <1>11, <5>1, <6>1, <6>2 DEF Stands
        <5> QED BY <5>2, <5>3
      <4> QED BY <3>0, <4>1, <4>2, <4>3 DEF Stands
    <3>2. CASE a >= k /\ Stands(pos, b, head, k - 1)
      <4>1. Cursor' = [block |-> b, at |-> k - 1] BY <1>1, <1>3, <1>8, <3>2, CursorNext
      <4> QED BY <2>2, <3>2, <4>1
    <3>3. CASE a < k /\ Stands(pos, b, head, a)
      <4>1. Cursor' = [block |-> b, at |-> a] BY <1>1, <1>3, <1>8, <3>3, CursorNext
      <4>2. ~(a >= k) BY <1>9, <3>a, <3>3
      <4> QED BY <1>14, <2>2, <4>1, <4>2
    <3>4. CASE a >= k - 1 /\ Stands(pos, new, rest, a - (k - 1))
      <4>1. Cursor' = [block |-> new, at |-> a - (k - 1)] BY <1>1, <1>2, <1>8, <3>4, CursorNext
      <4> QED BY <2>2, <3>4, <4>1
    <3> QED BY <3>1, <3>2, <3>3, <3>4
  <2> QED BY <2>1, <2>2
<1>16. k \in DOMAIN Order[b] /\ k \in 0..Len(Order[b])
  BY <1>4, <1>6, <1>9, <1>10, LenProperties
<1>17. Lists!Split(b, k)
  <2>1. arena'.blocks = arena.blocks + 1 /\ arena'.blocks = new BY <1>2 DEF new
  <2>2. /\ head = SubSeq(Order[b], 1, k - 1) /\ rest = SubSeq(Order[b], k, Len(Order[b]))
    BY <1>5, <1>6
  <2>3. Order' = Lists!Plus([Order EXCEPT ![b] = SubSeq(Order[b], 1, k - 1)],
                            arena'.blocks, SubSeq(Order[b], k, Len(Order[b])))
    BY <1>12, <2>1, <2>2
  <2>4. Goes' = Lists!Plus([Goes EXCEPT ![b] = Lists!Leading(<<arena'.blocks>>)], arena'.blocks, Goes[b])
    BY <1>13, <2>1
  <2>5. Cursor.block = e /\ Cursor.at = a BY <1>14
  <2>7. \/ Cursor' = IF Cursor.block = b /\ Cursor.at >= k
                     THEN [block |-> b, at |-> k - 1] ELSE Cursor
        \/ /\ Cursor.block = b /\ Cursor.at >= k - 1
           /\ Cursor' = [block |-> arena'.blocks, at |-> Cursor.at - (k - 1)]
    BY <1>15, <2>1, <2>5
  <2> QED BY <1>2, <1>3, <1>6, <1>16, <2>1, <2>3, <2>4, <2>7 DEF Lists!Split
<1> QED BY <1>3, <1>6, <1>16, <1>17 DEF Lists!Next

------------------------------------------------------------------------------
(***************************************************************************)
(* Compaction numbers anew in layout order.                                *)
(***************************************************************************)
\* What comes before each place of o, where w tells the sequence of each.
NumbersBefore(o, w) == CHOOSE g : g = [n \in 0..Len(o) |-> IF n = 0 THEN 0 ELSE g[n - 1] + Len(w[o[n]])]

\* before counts the members of the sequences w that come before each place of o.
CountsBefore(before, o, w) ==
    /\ \A n \in 0..Len(o) : before[n] \in Nat
    /\ before[0] = 0
    /\ \A n \in 1..Len(o) : before[n] = before[n - 1] + Len(w[o[n]])

LEMMA BeforeFacts ==
  ASSUME NEW o, NEW w, Len(o) \in Nat, \A n \in 1..Len(o) : Len(w[o[n]]) \in Nat
  PROVE  CountsBefore(NumbersBefore(o, w), o, w)
<1> DEFINE N == Len(o)
           before == NumbersBefore(o, w)
<1>0. N \in Nat /\ \A n \in 1..N : Len(w[o[n]]) \in Nat OBVIOUS
<1>n. before = NumbersBefore(o, w) OBVIOUS
<1> DEFINE Step(g, n) == IF n = 0 THEN 0 ELSE g[n - 1] + Len(w[o[n]])
           T == {m \in Nat : \E g : g = [n \in 0..m |-> Step(g, n)]}
<1>1. 0 \in T
  <2> DEFINE g == [n \in 0..0 |-> 0]
  <2>1. \A n : n \in 0..0 <=> n = 0 OBVIOUS
  <2>2. g = [n \in 0..0 |-> Step(g, n)] BY <2>1
  <2> HIDE DEF g, Step
  <2> QED BY <2>2
<1>2. ASSUME NEW m \in Nat, m \in T PROVE m + 1 \in T
  <2>1. PICK f : f = [n \in 0..m |-> Step(f, n)] BY <1>2
  <2> DEFINE g == [n \in 0..(m + 1) |-> IF n <= m THEN f[n] ELSE Step(f, n)]
  <2>2. ASSUME NEW n \in 0..(m + 1) PROVE g[n] = Step(g, n)
    <3>1. n # 0 => g[n - 1] = f[n - 1] OBVIOUS
    <3>2. Step(g, n) = Step(f, n) BY <3>1
    <3> HIDE DEF Step
    <3>3. n <= m => f[n] = Step(f, n) BY <2>1
    <3> QED BY <3>2, <3>3
  <2>3. g = [n \in 0..(m + 1) |-> Step(g, n)]
    <3>1. g = [n \in 0..(m + 1) |-> g[n]] OBVIOUS
    <3> HIDE DEF g, Step
    <3> QED BY <2>2, <3>1
  <2> HIDE DEF g, Step
  <2> QED BY <2>3
<1>3. N \in T
  <2> HIDE DEF T, N
  <2> QED BY <1>0, <1>1, <1>2, SetInduction
<1> HIDE DEF before
<1>4. before = [n \in 0..N |-> Step(before, n)]
  <2>1. \E g : g = [n \in 0..N |-> Step(g, n)] BY <1>3
  <2>2. before = CHOOSE g : g = [n \in 0..N |-> Step(g, n)] BY <1>n DEF NumbersBefore
  <2> HIDE DEF Step
  <2> QED BY <2>1, <2>2
<1>5. before[0] = 0 /\ \A n \in 1..N : before[n] = before[n - 1] + Len(w[o[n]])
  <2> HIDE DEF N
  <2>1. 0 \in 0..N /\ \A n \in 1..N : n \in 0..N /\ n # 0 BY <1>0
  <2> QED BY <1>4, <2>1
<1> HIDE DEF N
<1>6. \A m \in Nat : m \in 0..N => before[m] \in Nat
  <2> DEFINE U == {m \in Nat : m \in 0..N => before[m] \in Nat}
  <2>1. 0 \in U BY <1>5
  <2>2. ASSUME NEW m \in Nat, m \in U PROVE m + 1 \in U
    <3>1. CASE m + 1 \in 0..N
      <4>0. N \in Nat BY <1>0
      <4>1. m + 1 \in 1..N /\ (m + 1) - 1 = m /\ before[m] \in Nat BY <2>2, <3>1, <4>0
      <4>2. before[m + 1] = before[m] + Len(w[o[m + 1]]) /\ Len(w[o[m + 1]]) \in Nat BY <1>0, <1>5, <4>1
      <4> QED BY <4>1, <4>2
    <3>2. CASE m + 1 \notin 0..N BY <3>2
    <3> QED BY <3>1, <3>2
  <2> HIDE DEF U
  <2>3. Nat \subseteq U BY <2>1, <2>2, SetInduction
  <2> QED BY <2>3 DEF U
<1>7. \A n \in 0..N : before[n] \in Nat
  <2>1. \A n \in 0..N : n \in Nat BY <1>0
  <2> QED BY <1>6, <2>1
<1>8. CountsBefore(before, o, w) BY <1>5, <1>7 DEF N, CountsBefore
<1> QED BY <1>8 DEF before

\* The members of the parts ss are in s, those of the n-th behind place
\* before[n - 1].
Laid(ss, before, s) ==
    /\ Len(s) = before[Len(ss)]
    /\ \A n \in 1..Len(ss) : \A k \in 1..Len(ss[n]) : \A j : j = before[n - 1] + k =>
          j \in 1..before[Len(ss)] /\ s[j] = ss[n][k]

LEMMA FlattenPlaces ==
  ASSUME NEW T, NEW ss \in Seq(Seq(T)), Len(ss) # 0,
         NEW before, before[0] = 0, \A n \in 0..Len(ss) : before[n] \in Nat,
         \A n \in 1..Len(ss) : before[n] = before[n - 1] + Len(ss[n])
  PROVE  Laid(ss, before, FlattenSeq(ss))
<1> DEFINE N == Len(ss)
           L == [n \in 1..N |-> Len(ss[n])]
<1>0. N \in Nat /\ N # 0 /\ \A n \in 1..N : ss[n] \in Seq(T) BY LenProperties, ElementOfSeq
<1>1. L \in [1..N -> Nat] /\ \A n \in 1..N : L[n] = Len(ss[n])
  <2>1. \A n \in 1..N : Len(ss[n]) \in Nat BY <1>0, LenProperties
  <2> QED BY <2>1
<1>2. PICK fl : /\ fl = [i \in 1..N |-> IF i = 1 THEN ss[i] ELSE fl[i - 1] \o ss[i]]
                /\ FlattenSeq(ss) = fl[N]
  BY <1>0, FlattenDef
<1>4. /\ \A n \in 0..N : before[n] \in Nat
      /\ before[0] = 0
      /\ \A n \in 1..N : before[n] = before[n - 1] + L[n]
  OBVIOUS
<1> HIDE DEF N, L
<1>5. fl[1] = ss[1] /\ \A i \in 1..N : i # 1 => fl[i] = fl[i - 1] \o ss[i]
  <2>1. ASSUME NEW i \in 1..N PROVE fl[i] = IF i = 1 THEN ss[i] ELSE fl[i - 1] \o ss[i] BY <1>2
  <2>2. 1 \in 1..N BY <1>0
  <2> QED BY <2>1, <2>2
<1> DEFINE Ok(m) == /\ fl[m] \in Seq(T) /\ Len(fl[m]) = before[m]
                    /\ \A n \in 1..m : \A k \in 1..L[n] :
                          /\ before[n - 1] + k \in 1..before[m]
                          /\ fl[m][before[n - 1] + k] = ss[n][k]
           U == {m \in Nat : m + 1 \in 1..N => Ok(m + 1)}
<1>6. 0 \in U
  <2>1. 0 + 1 = 1 /\ 1 \in 1..N /\ 1 - 1 = 0 /\ \A n : n \in 1..1 <=> n = 1 BY <1>0
  <2>2. fl[1] = ss[1] /\ ss[1] \in Seq(T) /\ Len(ss[1]) = L[1] /\ L[1] \in Nat BY <1>0, <1>1, <1>5, <2>1
  <2>3. before[1] = before[0] + L[1] BY <1>4, <2>1
  <2>4. before[1] = L[1] BY <1>4, <2>2, <2>3
  <2>5. ASSUME NEW k \in 1..L[1] PROVE before[0] + k = k /\ k \in 1..before[1] BY <1>4, <2>2, <2>4
  <2>6. Ok(1) BY <2>1, <2>2, <2>4, <2>5
  <2> HIDE DEF Ok
  <2> QED BY <2>1, <2>6
<1>7. ASSUME NEW m \in Nat, m \in U PROVE m + 1 \in U
  <2> SUFFICES ASSUME (m + 1) + 1 \in 1..N PROVE Ok((m + 1) + 1) OBVIOUS
  <2> DEFINE j == m + 1
             a == before[j]
             s == fl[j]
             t == ss[j + 1]
  <2>1. j \in Nat /\ j \in 1..N /\ j \in 0..N /\ j + 1 \in 1..N /\ j + 1 # 1 /\ (j + 1) - 1 = j BY <1>0
  <2>2. Ok(j) BY <1>7, <2>1
  <2>3. s \in Seq(T) /\ Len(s) = a BY <2>2
  <2>4. ASSUME NEW n \in 1..j, NEW k \in 1..L[n]
        PROVE  before[n - 1] + k \in 1..a /\ s[before[n - 1] + k] = ss[n][k]
    BY <2>2
  <2> HIDE DEF Ok, j
  <2>5. fl[j + 1] = s \o t /\ before[j + 1] = a + L[j + 1] /\ a \in Nat BY <1>4, <1>5, <2>1
  <2>6. t \in Seq(T) /\ Len(t) = L[j + 1] /\ L[j + 1] \in Nat BY <1>0, <1>1, <2>1
  <2>7. /\ s \o t \in Seq(T) /\ Len(s \o t) = Len(s) + Len(t)
        /\ \A i \in 1..(Len(s) + Len(t)) : (s \o t)[i] = IF i <= Len(s) THEN s[i] ELSE t[i - Len(s)]
    <3> HIDE DEF s, t
    <3>1. s \in Seq(T) /\ t \in Seq(T) BY <2>3, <2>6
    <3> QED BY ONLY <3>1, ConcatProperties
  <2> DEFINE u == s \o t
             l == L[j + 1]
  <2>8. ASSUME NEW n \in 1..(j + 1), NEW k \in 1..L[n]
        PROVE  before[n - 1] + k \in 1..(a + l) /\ u[before[n - 1] + k] = ss[n][k]
    <3>1. CASE n = j + 1
      <4>1. before[n - 1] = a /\ ss[n] = t /\ k \in 1..l BY <2>1, <3>1
      <4> HIDE DEF a, t, s, u, l
      <4>2. \A x \in 1..l : a + x \in 1..(a + l) /\ ~(a + x <= a) /\ (a + x) - a = x
        BY <2>5, <2>6 DEF l
      <4>3. a + k \in 1..(a + l) /\ ~(a + k <= a) /\ (a + k) - a = k BY <4>1, <4>2
      <4>4. Len(s) = a /\ Len(t) = l BY <2>3, <2>6 DEF l
      <4>5. u[a + k] = t[(a + k) - a]
        <5> DEFINE x == a + k
        <5> HIDE DEF x
        <5>1. x \in 1..(a + l) /\ ~(x <= a) BY <4>3 DEF x
        <5>2. u[x] = t[x - a] BY <2>7, <4>4, <5>1 DEF u
        <5> QED BY <5>2 DEF x
      <4> QED BY <4>1, <4>3, <4>5
    <3>2. CASE n # j + 1
      <4>1. n \in 1..j BY <2>1, <3>2
      <4> DEFINE x == before[n - 1] + k
      <4>2. x \in 1..a /\ s[x] = ss[n][k] BY <2>4, <4>1
      <4> HIDE DEF x, a, s, t, u, l
      <4>3. Len(s) = a /\ Len(t) = l /\ a \in Nat /\ l \in Nat BY <2>3, <2>5, <2>6 DEF l
      <4>4. x \in 1..(a + l) /\ x <= a BY <4>2, <4>3
      <4>5. u[x] = s[x] BY <2>7, <4>3, <4>4 DEF u
      <4> QED BY <4>2, <4>4, <4>5 DEF x
    <3> QED BY <3>1, <3>2
  <2>9. fl[j + 1] = u /\ u \in Seq(T) /\ Len(u) = before[j + 1] /\ before[j + 1] = a + l
    BY <2>3, <2>5, <2>6, <2>7
  <2> HIDE DEF u, a, l
  <2>10. Ok(j + 1) BY <2>8, <2>9 DEF Ok
  <2> QED BY <2>10 DEF j
<1>8. N - 1 \in U
  <2> HIDE DEF U
  <2>1. Nat \subseteq U BY <1>6, <1>7, SetInduction
  <2> QED BY <1>0, <2>1
<1>9. Ok(N)
  <2>1. (N - 1) + 1 = N /\ N \in 1..N BY <1>0
  <2> HIDE DEF Ok
  <2> QED BY <1>8, <2>1
<1>10. \A n \in 1..N : \A k \in 1..Len(ss[n]) : \A j : j = before[n - 1] + k =>
          j \in 1..before[N] /\ fl[N][j] = ss[n][k]
  BY SMTT(30), <1>1, <1>9
<1>11. Len(fl[N]) = before[N] BY <1>9
<1>12. FlattenSeq(ss) = fl[N] BY <1>2
<1>13. Laid(ss, before, fl[N]) BY ONLY <1>10, <1>11 DEF N, Laid
<1> QED BY ONLY <1>12, <1>13

\* m is l numbered anew, all that is in a list keeping a number.
Renaming(l, m, is, bs) ==
    /\ ListType(l) /\ ListType(m) /\ Renumbered(l, m, is, bs)
    /\ is \in Seq(Inst) /\ Distinct(is) /\ Len(is) \in 0..MaxInsts
    /\ bs \in Seq(Block) /\ Distinct(bs) /\ Len(bs) \in Block
    /\ \A n \in 1..Len(is) : l.block[is[n]] # NONE

LEMMA RenumberedWalks ==
  ASSUME NEW l, NEW m, NEW is, NEW bs, Renaming(l, m, is, bs), NEW c \in 1..Len(bs),
         NEW w, ListOf(l, bs[c], w),
         NEW v \in [1..Len(w) -> 1..Len(is)], \A k \in 1..Len(w) : is[v[k]] = w[k]
  PROVE  ListOf(m, c, v) /\ Len(v) = Len(w)
<1>r. /\ ListType(l) /\ ListType(m) /\ Renumbered(l, m, is, bs)
      /\ is \in Seq(Inst) /\ Distinct(is) /\ Len(is) \in 0..MaxInsts
      /\ bs \in Seq(Block) /\ Distinct(bs) /\ Len(bs) \in Block
      /\ \A n \in 1..Len(is) : l.block[is[n]] # NONE
  BY DEF Renaming
<1> USE NoneIsNothing
<1> DEFINE N == Len(w)
<1>0. \A k \in 1..N : v[k] \in 1..Len(is) /\ is[v[k]] = w[k] OBVIOUS
<1>w. v \in [1..N -> 1..Len(is)] OBVIOUS
<1>1. /\ w \in Seq(Inst) /\ N \in Nat /\ N <= MaxInsts /\ DOMAIN w = 1..N
      /\ \A n \in 1..N : w[n] \in Inst /\ l.block[w[n]] = bs[c]
  BY ListOfFacts DEF ListOf
<1>2. /\ \A i \in Inst : l.block[i] = bs[c] => \E n \in 1..N : w[n] = i
      /\ \A n \in 1..N : /\ l.prev[w[n]] = IF n = 1 THEN NONE ELSE w[n - 1]
                         /\ l.next[w[n]] = IF n = N THEN NONE ELSE w[n + 1]
      /\ l.first[bs[c]] = IF N = 0 THEN NONE ELSE w[1]
      /\ l.last[bs[c]] = IF N = 0 THEN NONE ELSE w[N]
      /\ \A n, k \in 1..N : w[n] = w[k] => n = k
  BY DEF ListOf
<1> HIDE DEF N
<1>3. 1..Len(is) \subseteq Inst /\ 1..Len(bs) \subseteq Block /\ Len(is) \in Nat /\ Len(bs) \in Nat
  BY <1>r, Bounds DEF Inst, Block
<1>4. NONE \notin 1..Len(is) /\ NONE \notin 1..Len(bs) BY DEF NONE
<1>5. v \in Seq(Inst) /\ Len(v) = N
  <2>1. \A k \in 1..N : v[k] \in Inst BY <1>0, <1>3
  <2>2. v \in [1..N -> Inst] BY <1>w, <2>1
  <2>3. N \in Nat BY <1>1
  <2> QED BY ONLY <2>2, <2>3, FunctionSeq
<1>6. /\ \A n \in 1..Len(is) : /\ Names(bs, m.block[n], l.block[is[n]])
                               /\ Names(is, m.prev[n], l.prev[is[n]])
                               /\ Names(is, m.next[n], l.next[is[n]])
      /\ \A n \in Inst : n \notin 1..Len(is) => m.block[n] = NONE
      /\ Names(is, m.first[c], l.first[bs[c]])
      /\ Names(is, m.last[c], l.last[bs[c]])
  BY <1>r DEF Renumbered
\* What has the number of a member of w has the number v gives.
<1>7. ASSUME NEW k \in 1..N, NEW n, Names(is, n, w[k]) PROVE n = v[k]
  <2>1. w[k] # NONE BY <1>1
  <2>2. n \in 1..Len(is) /\ is[n] = w[k] BY <1>7, <2>1 DEF Names
  <2> QED BY SMTT(30), <1>r, <1>0, <2>2 DEF Distinct
<1>8. ASSUME NEW n, Names(is, n, NONE) PROVE n = NONE BY <1>8 DEF Names
<1>9. ASSUME NEW k \in 1..N PROVE m.block[v[k]] = c
  <2>1. v[k] \in 1..Len(is) /\ l.block[is[v[k]]] = bs[c] BY <1>0, <1>1
  <2>2. Names(bs, m.block[v[k]], bs[c]) BY <1>6, <2>1
  <2>3. bs[c] # NONE BY <1>r, <1>3, ElementOfSeq
  <2>4. m.block[v[k]] \in 1..Len(bs) /\ bs[m.block[v[k]]] = bs[c] BY <2>2, <2>3 DEF Names
  <2> QED BY <1>r, <2>4 DEF Distinct
<1>10. ASSUME NEW n \in 1..N, NEW k \in 1..N, v[n] = v[k] PROVE n = k
  BY <1>0, <1>2, <1>10
<1>11. ASSUME NEW i \in Inst, m.block[i] = c PROVE \E k \in 1..N : v[k] = i
  <2>1. i \in 1..Len(is) BY <1>3, <1>4, <1>6, <1>11
  <2>2. Names(bs, c, l.block[is[i]]) BY <1>6, <1>11, <2>1
  <2>3. l.block[is[i]] = bs[c] BY <1>4, <2>2, <2>1 DEF Names
  <2>4. is[i] \in Inst BY <1>r, <2>1, ElementOfSeq
  <2>5. PICK k \in 1..N : w[k] = is[i] BY <1>2, <2>3, <2>4
  <2>6. v[k] \in 1..Len(is) /\ is[v[k]] = is[i] BY <1>0, <2>5
  <2> QED BY <1>r, <2>1, <2>6 DEF Distinct
<1>12. ASSUME NEW k \in 1..N
       PROVE  /\ m.prev[v[k]] = IF k = 1 THEN NONE ELSE v[k - 1]
              /\ m.next[v[k]] = IF k = N THEN NONE ELSE v[k + 1]
  <2>1. v[k] \in 1..Len(is) /\ is[v[k]] = w[k] BY <1>0
  <2>2. Names(is, m.prev[v[k]], l.prev[w[k]]) /\ Names(is, m.next[v[k]], l.next[w[k]]) BY <1>6, <2>1
  <2>3. l.prev[w[k]] = IF k = 1 THEN NONE ELSE w[k - 1] BY <1>2
  <2>4. l.next[w[k]] = IF k = N THEN NONE ELSE w[k + 1] BY <1>2
  <2>5. (k # 1 => k - 1 \in 1..N) /\ (k # N => k + 1 \in 1..N) BY <1>1
  <2>6. k = 1 => m.prev[v[k]] = NONE BY <1>8, <2>2, <2>3
  <2>7. m.prev[v[k]] = IF k = 1 THEN NONE ELSE v[k - 1] BY <1>7, <2>2, <2>3, <2>5, <2>6
  <2>8. m.next[v[k]] = IF k = N THEN NONE ELSE v[k + 1]
    <3>1. CASE k = N BY <1>8, <2>2, <2>4, <3>1
    <3>2. CASE k # N BY <1>7, <2>2, <2>4, <2>5, <3>2
    <3> QED BY <3>1, <3>2
  <2> QED BY <2>7, <2>8
<1>13. /\ m.first[c] = IF N = 0 THEN NONE ELSE v[1]
       /\ m.last[c] = IF N = 0 THEN NONE ELSE v[N]
  <2>1. CASE N = 0 BY <1>2, <1>6, <1>8, <2>1
  <2>2. CASE N # 0
    <3>1. 1 \in 1..N /\ N \in 1..N BY <1>1, <2>2
    <3> QED BY ZenonT(40), <1>2, <1>6, <1>7, <2>2, <3>1
  <2> QED BY <2>1, <2>2
<1>14. /\ \A n \in 1..N : m.block[v[n]] = c
       /\ \A n, k \in 1..N : v[n] = v[k] => n = k
       /\ \A i \in Inst : m.block[i] = c => \E n \in 1..N : v[n] = i
  BY <1>9, <1>10, <1>11
<1>15. \A n \in 1..N : /\ m.prev[v[n]] = IF n = 1 THEN NONE ELSE v[n - 1]
                       /\ m.next[v[n]] = IF n = N THEN NONE ELSE v[n + 1]
  BY <1>12
<1>16. N <= MaxInsts BY <1>1
<1>17. ListOf(m, c, v) BY ONLY <1>5, <1>13, <1>14, <1>15, <1>16 DEF ListOf
<1> QED BY ONLY <1>5, <1>17 DEF N

\* is has the instructions of the blocks bo one after the other, those of the
\* n-th behind place before[n - 1].
LaidOut(before, bo, is) ==
    /\ Len(is) = before[Len(bo)]
    /\ \A n \in 1..Len(bo) : before[n - 1] \in Nat
    /\ \A n \in 1..Len(bo) : \A k \in 1..Len(Walk(bo[n])) : \A j : j = before[n - 1] + k =>
          j \in 1..Len(is) /\ is[j] = Walk(bo[n])[k]

LEMMA LayoutPlaces ==
  ASSUME BodyInv PROVE LaidOut(NumbersBefore(BlockOrder, Order), BlockOrder, InstOrder)
<1> DEFINE bo == BlockOrder
           N == Len(bo)
           before == NumbersBefore(bo, Order)
           ss == [n \in DOMAIN bo |-> Walk(bo[n])]
<1>1. DOMAIN bo = 1..N /\ N \in Nat /\ N # 0 /\ bo \in Seq(Block) /\ \A b : Has(bo, b) <=> b \in live
  BY BlockOrderFacts
<1>2. InstOrder = FlattenSeq(ss) BY DEF InstOrder, InOrder
<1>3. \A n \in 1..N : bo[n] \in live BY <1>1 DEF Has
<1>4. \A b \in live : Order[b] = Walk(b) /\ Walk(b) \in Seq(Inst) BY OrderNow DEF ListOf
<1>5. ss \in [1..N -> Seq(Inst)] /\ \A n \in 1..N : ss[n] = Walk(bo[n])
  <2> HIDE DEF bo
  <2> QED BY <1>1, <1>3, <1>4
<1>6. \A n \in 1..N : Order[bo[n]] = ss[n]
  <2> HIDE DEF bo, ss
  <2> QED BY <1>3, <1>4, <1>5
<1>n. N \in Nat /\ N # 0 BY <1>1
<1>b. before = NumbersBefore(bo, Order) /\ N = Len(bo) OBVIOUS
<1> HIDE DEF ss, before, N, bo
<1>7. ss \in Seq(Seq(Inst)) /\ Len(ss) = N BY <1>1, <1>5, FunctionSeq
<1>8. \A n \in 1..N : Len(Order[bo[n]]) \in Nat /\ Len(Order[bo[n]]) = Len(ss[n])
  <2>1. \A n \in 1..N : ss[n] \in Seq(Inst) BY <1>5
  <2> QED BY <1>6, <2>1, LenProperties
<1>9. /\ before[0] = 0 /\ \A n \in 0..N : before[n] \in Nat
      /\ \A n \in 1..N : before[n] = before[n - 1] + Len(ss[n])
  <2>1. /\ before[0] = 0 /\ \A n \in 0..N : before[n] \in Nat
        /\ \A n \in 1..N : before[n] = before[n - 1] + Len(Order[bo[n]])
    <3>1. Len(bo) \in Nat BY <1>n, <1>b
    <3>2. \A n \in 1..Len(bo) : Len(Order[bo[n]]) \in Nat BY <1>8, <1>b
    <3>3. CountsBefore(NumbersBefore(bo, Order), bo, Order) BY ONLY <3>1, <3>2, BeforeFacts
    <3>4. CountsBefore(before, bo, Order) BY ONLY <3>3, <1>b
    <3> QED BY ONLY <1>b, <3>4 DEF CountsBefore
  <2> QED BY ONLY <1>8, <2>1
<1>10. Laid(ss, before, InstOrder)
  <2>1. Len(ss) = N BY <1>7
  <2>2. ss \in Seq(Seq(Inst)) BY <1>7
  <2>3. before[0] = 0 BY <1>9
  <2>4. \A n \in 0..Len(ss) : before[n] \in Nat BY ONLY <2>1, <1>9
  <2>5. \A n \in 1..Len(ss) : before[n] = before[n - 1] + Len(ss[n]) BY ONLY <2>1, <1>9
  <2>6. Len(ss) # 0 BY ONLY <2>1, <1>n
  <2>7. Laid(ss, before, FlattenSeq(ss))
    BY ONLY <2>2, <2>3, <2>4, <2>5, <2>6, FlattenPlaces
  <2> QED BY <1>2, <2>7
<1>11. Len(InstOrder) = before[N] BY ONLY <1>7, <1>10 DEF Laid
<1>12. ASSUME NEW n \in 1..N, NEW k \in 1..Len(Walk(bo[n])), NEW j, j = before[n - 1] + k
       PROVE  j \in 1..Len(InstOrder) /\ InstOrder[j] = Walk(bo[n])[k]
  <2>1. ss[n] = Walk(bo[n]) BY <1>5
  <2>2. n \in 1..Len(ss) /\ k \in 1..Len(ss[n]) BY <1>7, <2>1
  <2>3. j \in 1..before[Len(ss)] /\ InstOrder[j] = ss[n][k] BY ONLY <1>10, <1>12, <2>2 DEF Laid
  <2> QED BY ONLY <1>7, <1>11, <2>1, <2>3
<1>13. \A n \in 1..N : before[n - 1] \in Nat
  <2>1. \A n \in 1..N : n - 1 \in 0..N BY <1>n
  <2> QED BY <1>9, <2>1
<1>14. LaidOut(before, bo, InstOrder) BY ONLY <1>11, <1>12, <1>13 DEF N, LaidOut
<1> QED BY <1>14 DEF before, bo

\* A block that is led to is that of an edge.
LEMMA LedTo ==
  ASSUME BodyInv
  PROVE  \A x : x \in UNION {Lists!ToSet(Goes[b].to) : b \in live}
                <=> \E b \in live : \E e \in DOMAIN edges[b] : edges[b][e].to = x
<1>1. ASSUME NEW b \in live, NEW x
      PROVE  x \in Lists!ToSet(Goes[b].to) <=> \E e \in DOMAIN edges[b] : edges[b][e].to = x
  <2>1. Goes[b].to = TargetsOf(b) BY GoesNow
  <2>2. DOMAIN TargetsOf(b) = DOMAIN edges[b]
        /\ \A e \in DOMAIN edges[b] : TargetsOf(b)[e] = edges[b][e].to
    BY DEF TargetsOf
  <2>3. x \in ToSet(TargetsOf(b)) <=> \E e \in DOMAIN TargetsOf(b) : TargetsOf(b)[e] = x
    BY DEF ToSet
  <2> HIDE DEF TargetsOf
  <2> QED BY <2>1, <2>2, <2>3, SameOperators
<1>2. ASSUME NEW x
      PROVE  x \in UNION {Lists!ToSet(Goes[b].to) : b \in live}
             <=> \E b \in live : x \in Lists!ToSet(Goes[b].to)
  OBVIOUS
<1> QED BY <1>1, <1>2

\* The dead targets are the blocks led to and not live.
LEMMA DeadTargetsLedTo ==
  ASSUME BodyInv
  PROVE  \A x : Has(DeadTargets, x) =>
            x \notin live /\ \E b \in live : \E e \in DOMAIN edges[b] : edges[b][e].to = x
<1> DEFINE R == [to : 1..arena.blocks, args : Seq(1..arena.values)]
           eo == EdgeOrder
           s == [e \in DOMAIN eo |-> eo[e].to]
<1>1. eo \in Seq(R) /\ \A x : Has(eo, x) <=> \E b \in live : Has(edges[b], x) BY EdgeOrderFacts
<1>2. DeadTargets = FirstUses(s, live) BY DEF DeadTargets
<1> HIDE DEF eo
<1>3. DOMAIN eo = 1..Len(eo) /\ Len(eo) \in Nat /\ \A e \in 1..Len(eo) : eo[e] \in R
  <2> HIDE DEF R
  <2> QED BY <1>1, LenProperties, ElementOfSeq
<1>4. s \in [1..Len(eo) -> 1..arena.blocks] /\ \A e \in 1..Len(eo) : s[e] = eo[e].to BY <1>3
<1> HIDE DEF s
<1>5. s \in Seq(1..arena.blocks) /\ Len(s) = Len(eo) BY <1>3, <1>4, FunctionSeq
<1>6. \A x : Has(FirstUses(s, live), x) <=> Has(s, x) /\ x \notin live BY <1>5, FirstUsesFacts
<1>7. ASSUME NEW x, Has(s, x) PROVE \E b \in live : \E e \in DOMAIN edges[b] : edges[b][e].to = x
  <2>1. PICK k \in 1..Len(eo) : s[k] = x BY <1>5, <1>7 DEF Has
  <2>2. eo[k].to = x /\ Has(eo, eo[k]) BY <1>4, <2>1 DEF Has
  <2>3. PICK b \in live : Has(edges[b], eo[k]) BY <1>1, <2>2
  <2>4. DOMAIN edges[b] = 1..Len(edges[b]) BY EdgeFacts, PosFacts
  <2>5. PICK e \in 1..Len(edges[b]) : edges[b][e] = eo[k] BY <2>3 DEF Has
  <2> QED BY <2>2, <2>4, <2>5
<1> QED BY <1>2, <1>6, <1>7

LEMMA DeadNumbers ==
  ASSUME BodyInv, NEW bs, bs = NewBlocks, NEW N, N = Len(BlockOrder),
         NEW dead, dead = (UNION {Lists!ToSet(Goes[b].to) : b \in live}) \ live,
         NEW f, f = [b \in dead |-> No(bs, b)]
  PROVE  /\ f \in Lists!Bijection(dead, (N + 1)..Len(bs))
         /\ Len(bs) = N + Lists!Cardinality(dead)
<1>1. /\ N \in Nat /\ Len(bs) \in Nat /\ N <= Len(bs)
      /\ \A n \in 1..Len(bs) : No(bs, bs[n]) = n
      /\ \A n \in 1..Len(bs) : bs[n] \in live <=> n \in 1..N
      /\ \A b \in live : \A e \in DOMAIN edges[b] :
            No(bs, edges[b][e].to) \in 1..Len(bs) /\ bs[No(bs, edges[b][e].to)] = edges[b][e].to
  BY SMTT(30), NewNumbers, BlockNumbers DEF Block
<1>2. \A x : x \in dead <=> x \notin live
                 /\ \E b \in live : \E e \in DOMAIN edges[b] : edges[b][e].to = x
  BY LedTo
<1> DEFINE R == (N + 1)..Len(bs)
<1>3. ASSUME NEW b \in dead PROVE f[b] \in R /\ bs[f[b]] = b
  <2>1. No(bs, b) \in 1..Len(bs) /\ bs[No(bs, b)] = b /\ b \notin live BY <1>1, <1>2
  <2>2. No(bs, b) \notin 1..N BY <1>1, <2>1
  <2>3. f[b] = No(bs, b) OBVIOUS
  <2> QED BY <1>1, <2>1, <2>2, <2>3
<1>4. ASSUME NEW n \in R PROVE bs[n] \in dead /\ f[bs[n]] = n
  <2>1. n \in 1..Len(bs) /\ n \notin 1..N BY <1>1
  <2>2. bs[n] \notin live /\ No(bs, bs[n]) = n BY <1>1, <2>1
  <2>3. Has(DeadTargets, bs[n])
    <3>1. bs = BlockOrder \o DeadTargets BY DEF NewBlocks
    <3>2. BlockOrder \in Seq(Block) /\ \A b : Has(BlockOrder, b) <=> b \in live BY BlockOrderFacts
    <3>3. DeadTargets \in Seq(Block)
      <4>1. 1..arena.blocks \subseteq Block BY ArenaFacts DEF BodyInv, LiveOK
      <4> QED BY <4>1, DeadTargetFacts, SeqMonotonic
    <3>4. Has(bs, bs[n]) BY <2>1 DEF Has
    <3>5. \A x : Has(bs, x) <=> Has(BlockOrder, x) \/ Has(DeadTargets, x)
      BY <3>1, <3>2, <3>3, ConcatFacts
    <3> QED BY <2>2, <3>2, <3>4, <3>5
  <2>4. bs[n] \in dead BY <1>2, <2>3, DeadTargetsLedTo
  <2> QED BY <2>2, <2>4
<1>5. f \in [dead -> R] BY <1>3
<1>s. DOMAIN f = dead OBVIOUS
<1> HIDE DEF R
<1>6. f \in Bijection(dead, R)
  <2>1. \A a, b \in dead : f[a] = f[b] => a = b BY <1>3
  <2>2. \A n \in R : \E b \in dead : f[b] = n BY <1>4
  <2> QED BY ONLY <1>5, <1>s, <2>1, <2>2 DEF Bijection, Injection, Surjection, IsInjective
<1>7. Lists!Bijection(dead, R) = Bijection(dead, R)
  BY DEF Lists!Bijection, Bijection, Lists!Injection, Injection, Lists!Surjection, Surjection,
         Lists!IsInjective, IsInjective
<1>8. Len(bs) = N + Cardinality(dead)
  <2>1. IsFiniteSet(R) /\ Cardinality(R) = Len(bs) - N
    <3>1. N + 1 \in Int /\ Len(bs) \in Int BY <1>1
    <3>2. IsFiniteSet((N + 1)..Len(bs))
          /\ Cardinality((N + 1)..Len(bs)) = IF N + 1 > Len(bs) THEN 0 ELSE Len(bs) - (N + 1) + 1
      BY <3>1, FS_Interval
    <3> QED BY <1>1, <3>2 DEF R
  <2> DEFINE g == [n \in R |-> bs[n]]
  <2>2. g \in [R -> dead] /\ \A n \in R : g[n] = bs[n] BY <1>4
  <2>3. DOMAIN g = R OBVIOUS
  <2> HIDE DEF g
  <2>4. \A n, m \in R : g[n] = g[m] => n = m BY <1>4, <2>2
  <2>5. ASSUME NEW b \in dead PROVE \E n \in R : g[n] = b
    <3>1. f[b] \in R /\ bs[f[b]] = b BY <1>3
    <3> QED BY <2>2, <3>1
  <2>6. g \in Bijection(R, dead)
    BY <2>2, <2>3, <2>4, <2>5 DEF Bijection, Injection, Surjection, IsInjective
  <2>7. ExistsBijection(R, dead) BY <2>6 DEF ExistsBijection
  <2>8. Cardinality(dead) = Cardinality(R) BY <2>1, <2>7, FS_Bijection
  <2> QED BY <1>1, <2>1, <2>8
<1>9. Lists!Cardinality(dead) = Cardinality(dead) BY DEF Lists!Cardinality, Cardinality
<1> QED BY <1>6, <1>7, <1>8, <1>9 DEF R

\* The order with the numbers that before gives.
InLayoutOrder(bo, before) ==
    [n \in DOMAIN bo |-> [k \in DOMAIN Order[bo[n]] |-> before[n - 1] + k]]

LEMMA CompactOrder ==
  ASSUME BodyInv, Compact, BodyInv'
  PROVE  /\ Order' = InLayoutOrder(BlockOrder, NumbersBefore(BlockOrder, Order))
         /\ Cursor' = [block |-> Entry, at |-> Len(Order[Entry])]
<1> DEFINE bo == BlockOrder
           N == Len(bo)
           before == NumbersBefore(bo, Order)
           bs == NewBlocks
           is == InstOrder
           X == [n \in DOMAIN bo |-> [k \in DOMAIN Order[bo[n]] |-> before[n - 1] + k]]
<1>1. /\ live' = DOMAIN bo /\ pos' = End(Entry) BY CompactFields
<1>2. /\ DOMAIN bo = 1..N /\ N \in Nat /\ N >= 1 /\ \A b : Has(bo, b) <=> b \in live
  BY BlockOrderFacts
<1>3. /\ bs \in Seq(Block) /\ Distinct(bs) /\ Len(bs) \in Block /\ \A n \in 1..N : n \in 1..Len(bs)
  BY <1>2, BlockNumbers
<1>4. /\ is \in Seq(Inst) /\ Distinct(is) /\ Len(is) \in 0..MaxInsts
      /\ \A n \in 1..Len(is) : list.block[is[n]] # NONE
  BY InstNumbers
<1>5. Renumbered(list, list', is, bs) BY CompactLists
<1>6. ListType(list) /\ ListType(list') BY LiveNow, LiveNext DEF Sound
<1>7. \A n \in 1..N : bs[n] = bo[n] /\ bo[n] \in live
  <2>1. BlockOrder \in Seq(Block) /\ DeadTargets \in Seq(Block)
    <3>1. 1..arena.blocks \subseteq Block BY ArenaFacts DEF BodyInv, LiveOK
    <3> QED BY <3>1, BlockOrderFacts, DeadTargetFacts, SeqMonotonic
  <2>2. bs = BlockOrder \o DeadTargets BY DEF NewBlocks
  <2>3. \A n \in 1..N : bs[n] = bo[n]
    <3>1. Len(DeadTargets) \in Nat BY <2>1, LenProperties
    <3>2. \A n \in 1..(N + Len(DeadTargets)) : bs[n] = IF n <= N THEN bo[n] ELSE DeadTargets[n - N]
      BY <2>1, <2>2, ConcatProperties
    <3> HIDE DEF bs, bo
    <3> QED BY <1>2, <3>1, <3>2
  <2>4. \A n \in 1..N : bo[n] \in live BY <1>2 DEF Has
  <2> QED BY <2>3, <2>4
<1>8. \A b \in live : Order[b] = Walk(b) /\ ListOf(list, b, Walk(b)) BY OrderNow
<1>9. \A n \in 1..N : before[n - 1] \in Nat /\ \A k \in 1..Len(Walk(bo[n])) : \A j : j = before[n - 1] + k =>
               j \in 1..Len(is) /\ is[j] = Walk(bo[n])[k]
  <2>1. LaidOut(before, bo, is) BY LayoutPlaces
  <2>2. N = Len(bo) OBVIOUS
  <2> HIDE DEF bo, is, before
  <2> QED BY ONLY <2>1, <2>2 DEF LaidOut
<1>r. Renaming(list, list', is, bs) BY <1>3, <1>4, <1>5, <1>6 DEF Renaming
<1> HIDE DEF bo, bs, is, N, before
<1>10. ASSUME NEW n \in 1..N
       PROVE  ListOf(list', n, X[n]) /\ Len(X[n]) = Len(Walk(bo[n]))
  <2> DEFINE w == Walk(bo[n])
             v == X[n]
             M == Len(w)
             a == before[n - 1]
  <2>1. ListOf(list, bs[n], w) /\ Order[bo[n]] = w BY <1>7, <1>8
  <2>2. DOMAIN w = 1..M BY <2>1, ListOfFacts
  <2>3. v = [k \in 1..M |-> a + k] BY <1>2, <2>1, <2>2
  <2>4. v = [k \in 1..M |-> v[k]] /\ \A k \in 1..M : v[k] = a + k
    <3> HIDE DEF v, w, a, M
    <3> QED BY <2>3
  <2>5. \A k \in 1..M : v[k] \in 1..Len(is) /\ is[v[k]] = w[k]
    <3> HIDE DEF v, X
    <3> QED BY SMTT(30), <1>9, <2>4
  <2>6. n \in 1..Len(bs) BY <1>3
  <2>8. v \in [1..Len(w) -> 1..Len(is)]
    <3> HIDE DEF v, w
    <3> QED BY <2>4, <2>5
  <2>9. \A k \in 1..Len(w) : is[v[k]] = w[k] BY <2>5
  <2>10. ListOf(list, bs[n], w) BY <2>1
  <2> HIDE DEF v, w, X
  <2>7. ListOf(list', n, v) /\ Len(v) = Len(w)
    BY ONLY <1>r, <2>6, <2>8, <2>9, <2>10, RenumberedWalks
  <2> QED BY <2>7 DEF v, w
<1>11. Order' = X
  <2>1. X = [n \in live' |-> X[n]] BY <1>1
  <2> HIDE DEF X
  <2>2. \A n \in live' : ListOf(list', n, X[n]) BY <1>1, <1>2, <1>10
  <2> QED BY <2>1, <2>2, OrderNext
<1>12. Cursor' = [block |-> Entry, at |-> Len(Order[Entry])]
  <2>1. bo[1] = Entry /\ 1 \in 1..N /\ Entry = 1
    <3>1. bo = <<Entry>> \o Sorted(live \ {Entry}) BY DEF bo, BlockOrder
    <3>2. Sorted(live \ {Entry}) \in Seq(Nat)
      <4> DEFINE K == live \ {Entry}
      <4>1. arena.blocks \in Nat /\ K \in SUBSET (1..arena.blocks) BY ArenaFacts DEF BodyInv, LiveOK
      <4> HIDE DEF K
      <4>2. Cardinality(K) \in Nat /\ \A j \in 1..Cardinality(K) : Nth(K, j) \in K BY <4>1, NthFacts
      <4>3. Sorted(K) \in [1..Cardinality(K) -> Nat]
        <5>0. K \subseteq Nat BY <4>1
        <5>1. \A j \in 1..Cardinality(K) : Nth(K, j) \in Nat BY <4>2, <5>0
        <5> QED BY <5>1 DEF Sorted
      <4>4. Sorted(K) \in Seq(Nat) BY ONLY <4>2, <4>3, FunctionSeq
      <4> QED BY <4>4 DEF K
    <3>3. <<Entry>> \in Seq(Nat) /\ Len(<<Entry>>) = 1 /\ <<Entry>>[1] = Entry BY DEF Entry
    <3> DEFINE s == Sorted(live \ {Entry})
               e == <<Entry>>
    <3>4. s \in Seq(Nat) /\ e \in Seq(Nat) /\ Len(e) = 1 /\ e[1] = Entry /\ Len(s) \in Nat
      BY <3>2, <3>3, LenProperties
    <3> HIDE DEF s, e
    <3>5. \A i \in 1..(Len(e) + Len(s)) : (e \o s)[i] = IF i <= Len(e) THEN e[i] ELSE s[i - Len(e)]
      BY <3>4, ConcatProperties
    <3>6. (e \o s)[1] = Entry BY <3>4, <3>5
    <3> QED BY <1>2, <3>1, <3>6 DEF e, s, Entry
  <2>2. ListOf(list', Entry, X[1]) /\ Len(X[1]) = Len(Walk(Entry)) BY <1>10, <2>1
  <2>3. Order[Entry] = Walk(Entry) BY <1>8, LiveNow
  <2>4. Stands(pos', Entry, X[1], Len(Order[Entry])) BY <1>1, <2>2, <2>3 DEF Stands
  <2>5. Entry \in Block BY LiveNow
  <2> HIDE DEF X
  <2> QED BY <2>2, <2>4, <2>5, CursorNext
<1>13. X = InLayoutOrder(bo, before) BY DEF InLayoutOrder
<1> HIDE DEF X
<1> QED BY <1>11, <1>12, <1>13 DEF bo, before

\* The place of x in o.
PlaceIn(o, x) == CHOOSE n \in DOMAIN o : o[n] = x

LEMMA CompactGoes ==
  ASSUME BodyInv, Compact, NEW dead,
         dead = (UNION {Lists!ToSet(Goes[b].to) : b \in live}) \ live,
         NEW f, f = [b \in dead |-> No(NewBlocks, b)]
  PROVE  Goes' = [n \in DOMAIN BlockOrder |->
                    [Goes[BlockOrder[n]] EXCEPT !.to =
                       [j \in DOMAIN @ |-> IF @[j] \in live THEN PlaceIn(BlockOrder, @[j]) ELSE f[@[j]]]]]
<1> USE NoneIsNothing
<1> DEFINE bo == BlockOrder
           bs == NewBlocks
           N == Len(bo)
           To(t) == [j \in DOMAIN t |-> IF t[j] \in live THEN PlaceIn(bo, t[j]) ELSE f[t[j]]]
           X == [n \in DOMAIN bo |-> [Goes[bo[n]] EXCEPT !.to = To(@)]]
<1>1. /\ live' = DOMAIN bo
      /\ ended' = {n \in live' : bs[n] \in ended}
      /\ edges' = [n \in Block |-> IF n \in DOMAIN bs
                THEN [e \in DOMAIN edges[bs[n]] |->
                        [to |-> No(bs, edges[bs[n]][e].to),
                         args |-> [k \in DOMAIN edges[bs[n]][e].args |->
                                     No(NewValues, edges[bs[n]][e].args[k])]]]
                ELSE <<>>]
  BY CompactFields
<1>2. /\ DOMAIN bo = 1..N /\ N \in Nat /\ \A b : Has(bo, b) <=> b \in live
      /\ bo \in Seq(Block) /\ Distinct(bo)
  BY BlockOrderFacts
<1>3. /\ bs \in Seq(Block) /\ Distinct(bs) /\ DOMAIN bs = 1..Len(bs) /\ Len(bs) \in Block
      /\ \A n \in 1..Len(bs) : bs[n] \in Block /\ No(bs, bs[n]) = n
      /\ \A b \in live : No(bs, b) \in DOMAIN bo /\ bs[No(bs, b)] = b
      /\ \A b \in live : \A e \in DOMAIN edges[b] :
            No(bs, edges[b][e].to) \in 1..Len(bs) /\ bs[No(bs, edges[b][e].to)] = edges[b][e].to
      /\ DOMAIN bo \subseteq 1..Len(bs)
  BY BlockNumbers
<1>4. \A n \in 1..N : bs[n] = bo[n] /\ bo[n] \in live
  <2>1. BlockOrder \in Seq(Block) /\ DeadTargets \in Seq(Block)
    <3>1. 1..arena.blocks \subseteq Block BY ArenaFacts DEF BodyInv, LiveOK
    <3> QED BY <3>1, BlockOrderFacts, DeadTargetFacts, SeqMonotonic
  <2>2. bs = BlockOrder \o DeadTargets BY DEF NewBlocks
  <2>3. \A n \in 1..N : bs[n] = bo[n]
    <3>1. Len(DeadTargets) \in Nat BY <2>1, LenProperties
    <3>2. \A n \in 1..(N + Len(DeadTargets)) : bs[n] = IF n <= N THEN bo[n] ELSE DeadTargets[n - N]
      BY <2>1, <2>2, ConcatProperties
    <3> HIDE DEF bs, bo
    <3> QED BY <1>2, <3>1, <3>2
  <2>4. \A n \in 1..N : bo[n] \in live BY <1>2 DEF Has
  <2> QED BY <2>3, <2>4
<1>5. \A b : b \in dead <=> b \notin live /\ \E c \in live : \E e \in DOMAIN edges[c] : edges[c][e].to = b
  BY LedTo
<1> HIDE DEF bs, bo, N
\* The number of a live block is its place.
<1>6. ASSUME NEW b \in live PROVE PlaceIn(bo, b) = No(bs, b)
  <2>1. No(bs, b) \in DOMAIN bo /\ bs[No(bs, b)] = b BY <1>3
  <2>2. bo[No(bs, b)] = b BY <1>2, <1>4, <2>1
  <2>3. PlaceIn(bo, b) \in DOMAIN bo /\ bo[PlaceIn(bo, b)] = b BY <2>1, <2>2 DEF PlaceIn
  <2> QED BY <1>2, <2>1, <2>2, <2>3 DEF Distinct
<1>7. \A n \in DOMAIN bo : X[n] = [ended |-> bo[n] \in ended, to |-> To(TargetsOf(bo[n]))]
  <2> HIDE DEF To
  <2> SUFFICES ASSUME NEW n \in DOMAIN bo
               PROVE  X[n] = [ended |-> bo[n] \in ended, to |-> To(TargetsOf(bo[n]))]
    OBVIOUS
  <2>1. bo[n] \in live BY <1>2, <1>4
  <2>2. Goes[bo[n]] = [ended |-> bo[n] \in ended, to |-> TargetsOf(bo[n])] BY <2>1, GoesNow
  <2>3. X[n] = [Goes[bo[n]] EXCEPT !.to = To(Goes[bo[n]].to)] BY <2>2
  <2> HIDE DEF X, TargetsOf
  <2> QED BY <2>2, <2>3
<1>8. ASSUME NEW n \in live'
      PROVE  X[n] = [ended |-> n \in ended', to |-> (TargetsOf(n))']
  <2> DEFINE b == bo[n]
  <2>1. n \in DOMAIN bo /\ n \in 1..Len(bs) /\ n \in Block /\ bs[n] = b /\ b \in live
    <3>1. n \in DOMAIN bo BY <1>1
    <3>2. n \in 1..Len(bs) BY <1>3, <3>1
    <3>3. 1..Len(bs) \subseteq Block BY <1>3, Bounds DEF Block
    <3> QED BY <1>2, <1>4, <3>1, <3>2, <3>3
  <2>2. (n \in ended') = (b \in ended) BY <1>1, <2>1
  <2>3. edges'[n] = [e \in DOMAIN edges[b] |->
                        [to |-> No(bs, edges[b][e].to),
                         args |-> [k \in DOMAIN edges[b][e].args |-> No(NewValues, edges[b][e].args[k])]]]
    BY <1>1, <1>3, <2>1
  <2> HIDE DEF b
  <2>4. (TargetsOf(n))' = [e \in DOMAIN edges[b] |-> No(bs, edges[b][e].to)]
    <3>1. (TargetsOf(n))' = [e \in DOMAIN edges'[n] |-> edges'[n][e].to] BY DEF TargetsOf
    <3>2. DOMAIN edges'[n] = DOMAIN edges[b]
          /\ \A e \in DOMAIN edges[b] : edges'[n][e].to = No(bs, edges[b][e].to)
      BY <2>3
    <3> HIDE DEF TargetsOf
    <3> QED BY <3>1, <3>2
  <2>5. DOMAIN TargetsOf(b) = DOMAIN edges[b]
        /\ \A e \in DOMAIN edges[b] : TargetsOf(b)[e] = edges[b][e].to
    BY DEF TargetsOf
  <2>6. ASSUME NEW e \in DOMAIN edges[b]
        PROVE  (IF edges[b][e].to \in live THEN PlaceIn(bo, edges[b][e].to) ELSE f[edges[b][e].to])
               = No(bs, edges[b][e].to)
    <3>1. CASE edges[b][e].to \in live BY <1>6, <3>1
    <3>2. CASE edges[b][e].to \notin live
      <4>1. edges[b][e].to \in dead BY <1>5, <2>1, <3>2
      <4> QED BY <3>2, <4>1 DEF bs
    <3> QED BY <3>1, <3>2
  <2>7. To(TargetsOf(b)) = [e \in DOMAIN edges[b] |-> No(bs, edges[b][e].to)]
    <3> HIDE DEF TargetsOf
    <3>1. To(TargetsOf(b)) = [e \in DOMAIN edges[b] |->
             IF edges[b][e].to \in live THEN PlaceIn(bo, edges[b][e].to) ELSE f[edges[b][e].to]]
      BY <2>5
    <3> QED BY ZenonT(40), <2>6, <3>1
  <2>8. X[n] = [ended |-> b \in ended, to |-> To(TargetsOf(b))] BY <1>7, <2>1 DEF b
  <2> HIDE DEF X, To, TargetsOf
  <2> QED BY <2>2, <2>4, <2>7, <2>8
<1>9. X = [n \in live' |-> X[n]] BY <1>1
<1>10. Goes' = X
  <2> HIDE DEF X
  <2> QED BY <1>8, <1>9, GoesThen
<1> QED BY <1>10 DEF bo

LEMMA CompactSeen == ASSUME BodyInv, Compact, BodyInv' PROVE Lists!Next
<1> DEFINE ord == <<Lists!Entry>> \o Lists!Sorted(Lists!Live \ {Lists!Entry})
           before == NumbersBefore(ord, Order)
           dead == (UNION {Lists!ToSet(Goes[b].to) : b \in Lists!Live}) \ Lists!Live
           f == [b \in dead |-> No(NewBlocks, b)]
<1>1. Lists!Live = live /\ Lists!Entry = Entry BY OrderNow DEF Lists!Entry, Entry
<1>2. ord = BlockOrder BY <1>1, SameOperators DEF BlockOrder
<1> HIDE DEF ord
<1>3. before = NumbersBefore(BlockOrder, Order) BY <1>2
<1>4. dead = (UNION {Lists!ToSet(Goes[b].to) : b \in live}) \ live BY <1>1
<1>5. /\ arena'.blocks = Len(NewBlocks) /\ arena'.insts = Len(InstOrder) BY CompactFields
<1>6. arena'.insts = before[Len(ord)]
  <2>1. LaidOut(before, BlockOrder, InstOrder) BY <1>3, LayoutPlaces
  <2> HIDE DEF before
  <2> QED BY <1>2, <1>5, <2>1 DEF LaidOut
<1>7. /\ Order' = InLayoutOrder(ord, before)
      /\ Cursor' = [block |-> Lists!Entry, at |-> Len(Order[Lists!Entry])]
  <2> HIDE DEF before
  <2> QED BY <1>1, <1>2, <1>3, CompactOrder
<1>f. f = [b \in dead |-> No(NewBlocks, b)] OBVIOUS
<1> HIDE DEF dead, f
<1>8. /\ f \in Lists!Bijection(dead, (Len(ord) + 1)..arena'.blocks)
      /\ arena'.blocks = Len(ord) + Lists!Cardinality(dead)
  BY <1>2, <1>4, <1>5, <1>f, DeadNumbers
<1>9. Goes' = [n \in DOMAIN ord |->
                 [Goes[ord[n]] EXCEPT !.to =
                    [j \in DOMAIN @ |-> IF @[j] \in Lists!Live THEN PlaceIn(ord, @[j]) ELSE f[@[j]]]]]
  <2>1. Goes' = [n \in DOMAIN BlockOrder |->
                   [Goes[BlockOrder[n]] EXCEPT !.to =
                      [j \in DOMAIN @ |-> IF @[j] \in live THEN PlaceIn(BlockOrder, @[j]) ELSE f[@[j]]]]]
    BY <1>4, <1>f, CompactGoes
  <2> QED BY ONLY <1>1, <1>2, <2>1
<1>10. \E g \in Lists!Bijection(dead, (Len(ord) + 1)..arena'.blocks) :
          Goes' = [n \in DOMAIN ord |->
                     [Goes[ord[n]] EXCEPT !.to =
                        [j \in DOMAIN @ |-> IF @[j] \in Lists!Live THEN PlaceIn(ord, @[j]) ELSE g[@[j]]]]]
  BY <1>8, <1>9
<1>11. Lists!Compact
  BY <1>6, <1>7, <1>8, <1>10 DEF Lists!Compact, ord, before, dead, NumbersBefore, PlaceIn,
     InLayoutOrder
<1> QED BY <1>11 DEF Lists!Next

------------------------------------------------------------------------------
(***************************************************************************)
(* The stored body is the sequences.                                       *)
(***************************************************************************)
LEMMA InitSeen == Init => Lists!Init
<1> SUFFICES ASSUME Init PROVE Lists!Init OBVIOUS
<1>1. /\ BodyInv /\ arena.insts = 0 /\ arena.blocks = 1 /\ live = {Entry} /\ ended = {}
      /\ edges = [b \in Block |-> <<>>] /\ pos = End(Entry)
      /\ list.block = [i \in Inst |-> NONE]
  BY InitBody DEF Init
<1>2. ListOf(list, Entry, <<>>) /\ Entry \in Block
  <2>1. Sound(list) /\ Entry \in Block /\ Entry # NONE BY <1>1, LiveNow, NoneIsNothing
  <2>2. \A i \in Inst : list.block[i] # Entry BY <1>1, <2>1
  <2> QED BY <2>1, <2>2, EmptyList
<1>3. Order = [b \in {Entry} |-> <<>>]
  <2>1. Walk(Entry) = <<>> BY <1>1, <1>2, LiveNow, WalkNow
  <2> QED BY <1>1, <2>1 DEF Order
<1>4. Goes = [b \in {Entry} |-> Lists!Open]
  <2>1. TargetsOf(Entry) = <<>>
    <3>1. edges[Entry] = <<>> BY <1>1, <1>2
    <3> QED BY <3>1 DEF TargetsOf
  <2>2. [ended |-> Entry \in ended, to |-> <<>>] = Lists!Open BY <1>1, WhetherEnded
  <2>3. DOMAIN Goes = {Entry} /\ Goes[Entry] = [ended |-> Entry \in ended, to |-> TargetsOf(Entry)]
    BY <1>1, GoesNow
  <2>4. Goes = [b \in live |-> Goes[b]] BY DEF Goes
  <2> HIDE DEF Goes, TargetsOf
  <2> QED BY <1>1, <2>1, <2>2, <2>3, <2>4
<1>5. Cursor = [block |-> Entry, at |-> 0]
  <2>1. Len(<<>>) = 0 OBVIOUS
  <2>2. Stands(pos, Entry, <<>>, 0) BY <1>1, <2>1 DEF Stands
  <2> QED BY <1>1, <1>2, <2>2, CursorNow
<1>6. Lists!Entry = Entry BY DEF Lists!Entry, Entry
<1> QED BY <1>1, <1>3, <1>4, <1>5, <1>6 DEF Lists!Init

LEMMA StutterSeen == UNCHANGED vars => UNCHANGED Lists!vars
<1> SUFFICES ASSUME UNCHANGED vars PROVE UNCHANGED Lists!vars OBVIOUS
<1>1. list' = list /\ live' = live /\ ended' = ended /\ edges' = edges /\ pos' = pos /\ arena' = arena
  BY DEF vars
<1>2. Order' = Order BY <1>1, SameLists
<1>3. Goes' = Goes BY <1>1, SameGoes
<1>4. Cursor' = Cursor BY <1>1, SameCursor
<1>5. arena.insts' = arena.insts /\ arena.blocks' = arena.blocks BY <1>1
<1> HIDE DEF Order, Goes, Cursor
<1> QED BY <1>2, <1>3, <1>4, <1>5 DEF Lists!vars

LEMMA StepSeen == ASSUME Kept, Kept', [Next]_vars PROVE [Lists!Next]_(Lists!vars)
<1>1. BodyInv /\ BodyInv' BY DEF Kept
<1>2. CASE SetPosition BY <1>1, <1>2, SetPositionSeen
<1>3. CASE Insert BY <1>1, <1>3, InsertSeen
<1>4. ASSUME NEW i \in Linked, \/ RemoveInst(i) \/ SplitBlock(i)
                               \/ \E to \in Positions : MoveInst(i, to)
      PROVE  Lists!Next
  <2>1. CASE RemoveInst(i) BY <1>1, <2>1, RemoveInstSeen
  <2>2. CASE SplitBlock(i) BY <1>1, <2>2, SplitBlockSeen
  <2>3. ASSUME NEW to \in Positions, MoveInst(i, to) PROVE Lists!Next
    BY <1>1, <2>3, MoveInstSeen
  <2> QED BY <1>4, <2>1, <2>2, <2>3
<1>5. ASSUME NEW k \in 0..MaxValues, CreateBlock(k) PROVE Lists!Next BY <1>1, <1>5, CreateBlockSeen
<1>6. ASSUME NEW b \in live, RemoveBlock(b) \/ RemoveTerminator(b) PROVE Lists!Next
  BY <1>1, <1>6, RemoveBlockSeen, RemoveTerminatorSeen
<1>7. ASSUME NEW b \in live,
             AddBlockParam(b) \/ \E k \in DOMAIN params[b] : RemoveBlockParam(b, k)
      PROVE  UNCHANGED Lists!vars
  BY <1>1, <1>7, ParamsUnseen
<1>8. ASSUME NEW vs \in SUBSET Value, RemoveBlockParams(vs) PROVE UNCHANGED Lists!vars
  BY <1>1, <1>8, ParamsUnseen
<1>9. ASSUME NEW n \in 0..MaxEdges, NEW dests \in [1..n -> live], SetTerminator(dests)
      PROVE  Lists!Next
  BY <1>1, <1>9, SetTerminatorSeen
<1>10. CASE Compact BY <1>1, <1>10, CompactSeen
<1>11. CASE UNCHANGED vars BY <1>11, StutterSeen
<1> QED BY <1>2, <1>3, <1>4, <1>5, <1>6, <1>7, <1>8, <1>9, <1>10, <1>11 DEF Next

\* For arenas of every size and every order of edits, a front end sees the
\* sequences of Layout: an instruction goes into the gap at the insertion point,
\* a removal closes up, a split cuts a block in two and a compaction numbers
\* anew in layout order (builder.rs set_position, insert, remove_inst,
\* remove_block, split_block, compact; ssa.rs move_inst).
THEOREM BodyIsSequences == Spec => ImplementsLayout
<1>1. Init => Lists!Init BY InitSeen
<1>2. Kept /\ Kept' /\ [Next]_vars => [Lists!Next]_(Lists!vars) BY StepSeen
<1> QED BY <1>1, <1>2, KeptAlways, PTL DEF Spec, ImplementsLayout, Lists!Spec
=============================================================================
