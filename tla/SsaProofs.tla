------------------------------ MODULE SsaProofs ------------------------------
(***************************************************************************)
(* What SSA construction keeps, for every program and every order of       *)
(* calls.                                                                  *)
(***************************************************************************)
EXTENDS SsaConstructProps, CountingProofs

------------------------------------------------------------------------------
(***************************************************************************)
(* Forwarding.  Root is Resolve for a given forwarding.                    *)
(***************************************************************************)
Root(al, v) == LET end[u \in Value] == IF al[u] = NONE THEN u ELSE end[al[u]] IN end[v]

Forwarding(al) ==
    /\ al \in [Value -> Value \cup {NONE}]
    /\ \A S \in (SUBSET Value) \ {{}} : \E v \in S : al[v] \notin S

LEMMA NoneIsNoValue == NONE \notin Value
BY DEF NONE, Value

\* What holds of a value once it holds of what the value forwards to, holds of all.
LEMMA ForwardInduction ==
  ASSUME NEW al, Forwarding(al), NEW T,
         \A v \in Value : al[v] = NONE \/ al[v] \in T => v \in T
  PROVE  Value \subseteq T
<1> DEFINE S == Value \ T
<1>1. ASSUME S # {} PROVE FALSE
  <2>1. PICK v \in S : al[v] \notin S BY <1>1 DEF Forwarding
  <2>2. al[v] \in Value \cup {NONE} BY <2>1 DEF Forwarding
  <2> QED BY <2>1, <2>2
<1> QED BY <1>1

\* The least relation that contains each end and is closed under forwarding is a
\* function.
LEMMA RootDef ==
  ASSUME NEW al, Forwarding(al)
  PROVE  \A v \in Value : Root(al, v) = IF al[v] = NONE THEN v ELSE Root(al, al[v])
<1> DEFINE Closed(R) ==
             /\ \A u \in Value : al[u] = NONE => <<u, u>> \in R
             /\ \A u, w \in Value : al[u] # NONE /\ <<al[u], w>> \in R => <<u, w>> \in R
           E == {q \in Value \X Value : \A R \in SUBSET (Value \X Value) : Closed(R) => q \in R}
           Ends(u) == {w \in Value : <<u, w>> \in E}
           T == {u \in Value : \E w \in Value : Ends(u) = {w}}
<1>1. Closed(E)
  <2>1. ASSUME NEW u \in Value, al[u] = NONE PROVE <<u, u>> \in E BY <2>1
  <2>2. ASSUME NEW u \in Value, NEW w \in Value, al[u] # NONE, <<al[u], w>> \in E
        PROVE <<u, w>> \in E
    <3>1. al[u] \in Value BY <2>2 DEF Forwarding
    <3> QED BY <2>2, <3>1
  <2> HIDE DEF E
  <2> QED BY <2>1, <2>2
<1>2. ASSUME NEW v \in Value, NEW w \in Value, NEW R \in SUBSET (Value \X Value), Closed(R),
             <<v, w>> \notin R
      PROVE <<v, w>> \notin E
  BY <1>2
<1>3. ASSUME NEW v \in Value, al[v] = NONE PROVE Ends(v) = {v}
  <2> DEFINE R == {q \in E : q[1] = v => q[2] = v}
  <2>1. R \in SUBSET (Value \X Value) OBVIOUS
  <2>2. Closed(R)
    <3>1. ASSUME NEW u \in Value, al[u] = NONE PROVE <<u, u>> \in R
      <4>1. <<u, u>> \in E
        <5> HIDE DEF E
        <5> QED BY <3>1, <1>1
      <4> HIDE DEF E
      <4> QED BY <4>1
    <3>2. ASSUME NEW u \in Value, NEW w \in Value, al[u] # NONE, <<al[u], w>> \in R
          PROVE <<u, w>> \in R
      <4>1. <<u, w>> \in E
        <5> HIDE DEF E
        <5> QED BY <3>2, <1>1
      <4>2. u # v BY <3>2, <1>3
      <4> HIDE DEF E
      <4> QED BY <4>1, <4>2
    <3> HIDE DEF R
    <3> QED BY <3>1, <3>2
  <2>3. ASSUME NEW w \in Value, w # v PROVE <<v, w>> \notin E
    <3>1. <<v, w>> \notin R BY <2>3
    <3> HIDE DEF E, R, Closed
    <3> QED BY <2>1, <2>2, <3>1, <1>2
  <2>4. <<v, v>> \in E
    <3> HIDE DEF E
    <3> QED BY <1>3, <1>1
  <2> HIDE DEF E
  <2> QED BY <2>3, <2>4
<1>4. ASSUME NEW v \in Value, al[v] # NONE, NEW r \in Value, Ends(al[v]) = {r}
      PROVE Ends(v) = {r}
  <2> DEFINE R == {q \in E : q[1] = v => q[2] = r}
  <2>0. al[v] \in Value BY <1>4 DEF Forwarding
  <2>1. R \in SUBSET (Value \X Value) OBVIOUS
  <2>2. Closed(R)
    <3>1. ASSUME NEW u \in Value, al[u] = NONE PROVE <<u, u>> \in R
      <4>1. <<u, u>> \in E
        <5> HIDE DEF E
        <5> QED BY <3>1, <1>1
      <4>2. u # v BY <3>1, <1>4
      <4> HIDE DEF E
      <4> QED BY <4>1, <4>2
    <3>2. ASSUME NEW u \in Value, NEW w \in Value, al[u] # NONE, <<al[u], w>> \in R
          PROVE <<u, w>> \in R
      <4>0. <<al[u], w>> \in E
        <5> HIDE DEF E
        <5> QED BY <3>2
      <4>1. <<u, w>> \in E
        <5> HIDE DEF E
        <5> QED BY <3>2, <1>1, <4>0
      <4>2. u = v => w = r
        <5> HIDE DEF E
        <5> QED BY <4>0, <1>4
      <4> HIDE DEF E
      <4> QED BY <4>1, <4>2
    <3> HIDE DEF R
    <3> QED BY <3>1, <3>2
  <2>3. ASSUME NEW w \in Value, w # r PROVE <<v, w>> \notin E
    <3>1. <<v, w>> \notin R BY <2>3
    <3> HIDE DEF E, R, Closed
    <3> QED BY <2>1, <2>2, <3>1, <1>2
  <2>4. <<v, r>> \in E
    <3>1. <<al[v], r>> \in E
      <4> HIDE DEF E
      <4> QED BY <1>4
    <3> HIDE DEF E
    <3> QED BY <1>4, <1>1, <3>1
  <2> HIDE DEF E
  <2> QED BY <2>3, <2>4
<1> HIDE DEF Ends
<1>5. Value \subseteq T
  <2>1. ASSUME NEW v \in Value, al[v] = NONE \/ al[v] \in T PROVE v \in T
    BY <2>1, <1>3, <1>4
  <2> HIDE DEF T
  <2> QED BY <2>1, ForwardInduction
<1> DEFINE f == [u \in Value |-> CHOOSE w \in Value : Ends(u) = {w}]
<1>6. ASSUME NEW u \in Value PROVE f[u] \in Value /\ Ends(u) = {f[u]}
  BY <1>5
<1>7. ASSUME NEW u \in Value PROVE f[u] = IF al[u] = NONE THEN u ELSE f[al[u]]
  <2>1. al[u] # NONE => al[u] \in Value BY DEF Forwarding
  <2> HIDE DEF f
  <2> QED BY <2>1, <1>3, <1>4, <1>6
<1>8. f = [u \in Value |-> IF al[u] = NONE THEN u ELSE f[al[u]]]
  <2>1. f = [u \in Value |-> f[u]] OBVIOUS
  <2> HIDE DEF f
  <2> QED BY <2>1, <1>7
<1> DEFINE end == CHOOSE g : g = [u \in Value |-> IF al[u] = NONE THEN u ELSE g[al[u]]]
<1>9. end = [u \in Value |-> IF al[u] = NONE THEN u ELSE end[al[u]]]
  <2> HIDE DEF f
  <2> QED BY <1>8
<1>10. \A v : Root(al, v) = end[v] BY DEF Root
<1> HIDE DEF end
<1> QED BY <1>9, <1>10

\* The end of a chain does not forward.
LEMMA RootFacts ==
  ASSUME NEW al, Forwarding(al)
  PROVE  \A v \in Value : Root(al, v) \in Value /\ al[Root(al, v)] = NONE
<1> DEFINE T == {v \in Value : Root(al, v) \in Value /\ al[Root(al, v)] = NONE}
<1>1. ASSUME NEW v \in Value, al[v] = NONE \/ al[v] \in T PROVE v \in T
  BY <1>1, RootDef
<1> HIDE DEF T
<1>2. Value \subseteq T BY <1>1, ForwardInduction
<1> QED BY <1>2 DEF T

\* A value made to forward to another end.
LEMMA Redirected ==
  ASSUME NEW al, Forwarding(al), NEW p \in Value, NEW r \in Value, al[r] = NONE, r # p
  PROVE  Forwarding([al EXCEPT ![p] = r])
<1> DEFINE a2 == [al EXCEPT ![p] = r]
<1>1. a2 \in [Value -> Value \cup {NONE}] BY DEF Forwarding
<1>2. \A u \in Value : a2[u] = IF u = p THEN r ELSE al[u] BY DEF Forwarding
<1> HIDE DEF a2
<1>3. ASSUME NEW S \in (SUBSET Value) \ {{}} PROVE \E v \in S : a2[v] \notin S
  <2>1. CASE r \in S BY <2>1, <1>2, NoneIsNoValue
  <2>2. CASE r \notin S /\ p \in S BY <2>2, <1>2
  <2>3. CASE p \notin S
    <3>1. PICK v \in S : al[v] \notin S BY DEF Forwarding
    <3> QED BY <3>1, <2>3, <1>2
  <2> QED BY <2>1, <2>2, <2>3
<1>4. Forwarding(a2) BY <1>1, <1>3 DEF Forwarding
<1> QED BY <1>4 DEF a2

\* An end made to forward takes with it what forwards to it.
LEMMA Joined ==
  ASSUME NEW al, Forwarding(al), NEW p \in Value, NEW r \in Value, al[r] = NONE, r # p,
         al[p] = NONE
  PROVE  \A v \in Value : Root([al EXCEPT ![p] = r], v) =
                            IF Root(al, v) = p THEN r ELSE Root(al, v)
<1> DEFINE a2 == [al EXCEPT ![p] = r]
           T == {v \in Value : Root(a2, v) = IF Root(al, v) = p THEN r ELSE Root(al, v)}
<1>1. \A u \in Value : a2[u] = IF u = p THEN r ELSE al[u] BY DEF Forwarding
<1>2. Forwarding(a2) BY Redirected
<1> HIDE DEF a2
<1>3. Root(a2, r) = r BY <1>1, <1>2, RootDef
<1>4. ASSUME NEW v \in Value, al[v] = NONE \/ al[v] \in T PROVE v \in T
  <2>1. CASE v = p
    <3>1. Root(al, v) = p BY <2>1, RootDef
    <3>2. Root(a2, v) = r BY <2>1, <1>1, <1>2, <1>3, RootDef, NoneIsNoValue
    <3> QED BY <3>1, <3>2
  <2>2. CASE v # p /\ al[v] = NONE
    <3>1. Root(al, v) = v BY <2>2, RootDef
    <3>2. Root(a2, v) = v BY <2>2, <1>1, <1>2, RootDef
    <3> QED BY <3>1, <3>2, <2>2
  <2>3. CASE v # p /\ al[v] # NONE
    <3>1. al[v] \in T BY <2>3, <1>4
    <3>2. Root(al, v) = Root(al, al[v]) BY <2>3, RootDef
    <3>3. Root(a2, v) = Root(a2, al[v]) BY <2>3, <1>1, <1>2, RootDef
    <3> QED BY <3>1, <3>2, <3>3
  <2> QED BY <2>1, <2>2, <2>3
<1> HIDE DEF T
<1>5. Value \subseteq T BY <1>4, ForwardInduction
<1> QED BY <1>5 DEF T, a2

\* A value that forwards, made to forward to its own end, changes nothing.
LEMMA Shortened ==
  ASSUME NEW al, Forwarding(al), NEW p \in Value, Root(al, p) # p
  PROVE  LET r == Root(al, p)
         IN  \A v \in Value : Root([al EXCEPT ![p] = r], v) = Root(al, v)
<1> DEFINE r == Root(al, p)
           a2 == [al EXCEPT ![p] = r]
           T == {v \in Value : Root(a2, v) = Root(al, v)}
<1>0. r \in Value /\ al[r] = NONE /\ r # p BY RootFacts
<1>1. \A u \in Value : a2[u] = IF u = p THEN r ELSE al[u] BY DEF Forwarding
<1>2. Forwarding(a2)
  <2> HIDE DEF r
  <2> QED BY <1>0, Redirected
<1> HIDE DEF a2
<1>3. Root(a2, r) = r
  <2> HIDE DEF r
  <2> QED BY <1>0, <1>1, <1>2, RootDef
<1>4. ASSUME NEW v \in Value, al[v] = NONE \/ al[v] \in T PROVE v \in T
  <2>1. CASE v = p
    <3>2. Root(a2, v) = r
      <4> HIDE DEF r
      <4> QED BY <2>1, <1>0, <1>1, <1>2, <1>3, RootDef, NoneIsNoValue
    <3> QED BY <2>1, <3>2
  <2>2. CASE v # p /\ al[v] = NONE
    <3>1. Root(al, v) = v BY <2>2, RootDef
    <3>2. Root(a2, v) = v BY <2>2, <1>1, <1>2, RootDef
    <3> QED BY <3>1, <3>2, <2>2
  <2>3. CASE v # p /\ al[v] # NONE
    <3>1. al[v] \in T BY <2>3, <1>4
    <3>2. Root(al, v) = Root(al, al[v]) BY <2>3, RootDef
    <3>3. Root(a2, v) = Root(a2, al[v]) BY <2>3, <1>1, <1>2, RootDef
    <3> QED BY <3>1, <3>2, <3>3
  <2> QED BY <2>1, <2>2, <2>3
<1> HIDE DEF T
<1>5. Value \subseteq T BY <1>4, ForwardInduction
<1> QED BY <1>5 DEF T, a2

------------------------------------------------------------------------------
(***************************************************************************)
(* Types, and what a call in progress is.                                  *)
(***************************************************************************)
Named == \A b \in Block : \A i \in DOMAIN params[b] : paramVar[params[b][i]] \in Var
CallShape ==
    /\ call.op = "sealall" => call.start = 0
    /\ call.op = "term" => call.block \in live \ terminated
    /\ pc = "newterm" \/ (pc = "read" /\ rd.for = "newterm") => call.op = "term"
    /\ pc = "idle" => call = NoCall
    /\ pc = "read" => rd.var \in Var /\ rd.for # "none"
Base ==
    /\ TypeOK
    /\ Forwarding(alias)
    /\ Named
    /\ CallShape

LEMMA ResolveFacts ==
  ASSUME Forwarding(alias)
  PROVE  \A v \in Value : /\ Resolve(v) = Root(alias, v)
                          /\ Resolve(v) \in Value /\ alias[Resolve(v)] = NONE
<1>1. \A v : Resolve(v) = Root(alias, v) BY DEF Resolve, Root
<1> QED BY <1>1, RootFacts

LEMMA EdgeFacts ==
  ASSUME Base
  PROVE  /\ \A b \in Block : term[b] \in Seq(Edge) /\ params[b] \in Seq(Value)
                              /\ preds[b] \in Seq(Block)
         /\ \A b \in Block : \A k \in DOMAIN term[b] :
               term[b][k] \in Edge /\ term[b][k].block \in Block
               /\ term[b][k].args \in Seq(Value)
         /\ \A b \in Block : \A i \in DOMAIN params[b] : params[b][i] \in Value
         /\ \A b \in Block : \A i \in DOMAIN preds[b] : preds[b][i] \in Block
         /\ \A k \in DOMAIN call.term : call.term[k] \in Edge
<1>1. /\ term \in [Block -> Seq(Edge)] /\ params \in [Block -> Seq(Value)]
      /\ preds \in [Block -> Seq(Block)] /\ call.term \in Seq(Edge)
  BY DEF Base, TypeOK, FuncOK, SsaOK, JobOK, CallOK
<1>2. \A b \in Block : term[b] \in Seq(Edge) /\ params[b] \in Seq(Value) /\ preds[b] \in Seq(Block)
  BY <1>1
<1>3. ASSUME NEW T, NEW s \in Seq(T), NEW k \in DOMAIN s PROVE s[k] \in T
  BY <1>3, LenProperties, ElementOfSeq
<1>4. ASSUME NEW b \in Block, NEW k \in DOMAIN term[b]
      PROVE term[b][k] \in Edge /\ term[b][k].block \in Block /\ term[b][k].args \in Seq(Value)
  <2>1. term[b][k] \in Edge BY <1>2, <1>3
  <2> QED BY <2>1 DEF Edge
<1>5. ASSUME NEW b \in Block, NEW k \in DOMAIN params[b] PROVE params[b][k] \in Value
  BY <1>2, <1>3
<1>6. ASSUME NEW b \in Block, NEW k \in DOMAIN preds[b] PROVE preds[b][k] \in Block
  BY <1>2, <1>3
<1>7. ASSUME NEW k \in DOMAIN call.term PROVE call.term[k] \in Edge
  BY <1>1, <1>3
<1> QED BY <1>2, <1>4, <1>5, <1>6, <1>7

\* Deliver goes back to whoever asked for the value; edges keep their targets, and an
\* argument list only grows.
LEMMA DeliverFacts ==
  ASSUME Base, pc = "read", NEW v \in Value, Deliver(v)
  PROVE  /\ rd' = NoRead /\ pc' \in {"drain", "complete", "newterm"}
         /\ pc' = "newterm" => rd.for = "newterm"
         /\ call' = call \/ (rd.for = "newterm" /\ call' = [call EXCEPT !.got = Append(call.got, v)])
         /\ term' \in [Block -> Seq(Edge)]
         /\ \A p \in Block : /\ DOMAIN term'[p] = DOMAIN term[p]
                              /\ \A k \in DOMAIN term[p] : term'[p][k].block = term[p][k].block
<1>1. rd' = NoRead BY DEF Deliver
<1>2. CASE rd.for # "complete" \/ term' = term
  <2>1. term' = term BY <1>2 DEF Deliver
  <2>2. term' \in [Block -> Seq(Edge)] BY <2>1 DEF Base, TypeOK, FuncOK
  <2>3. /\ pc' \in {"drain", "complete", "newterm"}
        /\ pc' = "newterm" => rd.for = "newterm"
        /\ call' = call \/ (rd.for = "newterm" /\ call' = [call EXCEPT !.got = Append(call.got, v)])
    BY DEF Deliver
  <2> QED BY <1>1, <2>1, <2>2, <2>3
<1>3. CASE rd.for = "complete"
  <2> DEFINE b == cursor.block
             p == preds[b][cursor.i]
             n == MinArgs(p, b)
             More(s) == Extended(s, b, n, v)
  <2>1. pc' = "complete" /\ call' = call /\ term' = [term EXCEPT ![p] = More(term[p])]
    BY <1>3 DEF Deliver
  <2>2. ASSUME NEW q \in Block
        PROVE /\ More(term[q]) \in Seq(Edge) /\ DOMAIN More(term[q]) = DOMAIN term[q]
              /\ \A k \in DOMAIN term[q] : More(term[q])[k].block = term[q][k].block
    <3> DEFINE s == term[q]
    <3>1. s \in Seq(Edge) /\ Len(s) \in Nat /\ DOMAIN s = 1..Len(s)
      BY EdgeFacts, LenProperties
    <3>0. More(s) = [k \in DOMAIN s |-> IF s[k].block = b /\ Len(s[k].args) = n
                                        THEN [s[k] EXCEPT !.args = Append(s[k].args, v)] ELSE s[k]]
      BY DEF Extended
    <3> HIDE DEF More, n
    <3>2. ASSUME NEW k \in DOMAIN s
          PROVE More(s)[k] \in Edge /\ More(s)[k].block = s[k].block
      <4>1. s[k] \in Edge BY EdgeFacts
      <4>2. s[k].args \in Seq(Value) BY <4>1 DEF Edge
      <4>3. Append(s[k].args, v) \in Seq(Value) BY <4>2, AppendProperties
      <4>4. [s[k] EXCEPT !.args = Append(s[k].args, v)] \in Edge BY <4>1, <4>3 DEF Edge
      <4>5. [s[k] EXCEPT !.args = Append(s[k].args, v)].block = s[k].block BY <4>1 DEF Edge
      <4> QED BY <3>0, <4>1, <4>4, <4>5
    <3>3. More(s) \in [1..Len(s) -> Edge]
      <4>1. More(s) = [k \in 1..Len(s) |-> More(s)[k]] BY <3>0, <3>1
      <4> QED BY <3>1, <3>2, <4>1
    <3>4. More(s) \in Seq(Edge) /\ DOMAIN More(s) = DOMAIN s
      <4> HIDE DEF s
      <4> QED BY <3>1, <3>3, FunctionSeq
    <3> QED BY <3>2, <3>4
  <2> HIDE DEF More, p
  <2>3. term \in [Block -> Seq(Edge)] BY DEF Base, TypeOK, FuncOK
  <2>4. term' \in [Block -> Seq(Edge)] BY <2>1, <2>2, <2>3
  <2>5. \A q \in Block : term'[q] = IF q = p THEN More(term[q]) ELSE term[q]
    BY <2>1, <2>3
  <2>6. \A q \in Block : /\ DOMAIN term'[q] = DOMAIN term[q]
                         /\ \A k \in DOMAIN term[q] : term'[q][k].block = term[q][k].block
    BY <2>2, <2>5
  <2> QED BY <1>1, <1>3, <2>1, <2>4, <2>6
<1> QED BY <1>2, <1>3

\* A call that returns leaves nothing in progress.
LEMMA ReturnFacts ==
  ASSUME Base, Return, pending' = pending
  PROVE  JobOK' /\ CallShape'
<1>1. <<>> \in Seq(Edge) /\ <<>> \in Seq([edge : Nat, var : Var]) /\ <<>> \in Seq(Value)
  BY EmptySeq
<1>2. Entry \in Block BY EntityAssumption
<1>3. pending \in Seq(Value) BY DEF Base, TypeOK, SsaOK
<1> USE DEF Return, NoCall, NoRead, NoCursor, NoElim
<1>4. Len(pending') \in Nat BY <1>3, LenProperties
<1>5. /\ pc' = "idle" /\ call' = NoCall
      /\ call' \in [op : {"none", "use", "seal", "sealall", "term"}, block : Block, start : Nat,
                   term : Seq(Edge), want : Seq([edge : Nat, var : Var]), got : Seq(Value)]
      /\ call'.start = 0 /\ call'.op = "none"
  BY <1>1, <1>2
<1>6. rd' \in [var : Var \cup {NONE}, at : Block, chain : SUBSET Block,
              for : {"none", "use", "complete", "newterm"}]
  BY <1>2
<1>7. cursor' \in [block : Block, i : Nat] BY <1>2
<1>8. todo' \in Seq(Value) BY <1>1
<1>9. ElimOK' BY DEF ElimOK
<1>10. CallOK' BY <1>4, <1>5 DEF CallOK
<1>11. JobOK' BY <1>5, <1>6, <1>7, <1>8, <1>9, <1>10 DEF JobOK
<1>12. CallShape' BY <1>5 DEF CallShape
<1> QED BY <1>11, <1>12


\* What the edges from p into b pass at least, when there is one.
LEMMA MinArgsFacts ==
  ASSUME Base, NEW p \in Block, NEW b \in Block, EdgesInto(p, b) # {}
  PROVE  /\ MinArgs(p, b) \in Nat
         /\ \E k \in EdgesInto(p, b) : Len(term[p][k].args) = MinArgs(p, b)
         /\ \A k \in EdgesInto(p, b) : MinArgs(p, b) <= Len(term[p][k].args)
<1> DEFINE S == {Len(term[p][k].args) : k \in EdgesInto(p, b)}
<1>1. S \in SUBSET Nat
  <2>1. ASSUME NEW k \in EdgesInto(p, b) PROVE Len(term[p][k].args) \in Nat
    <3>1. term[p][k].args \in Seq(Value) BY EdgeFacts DEF EdgesInto
    <3> QED BY <3>1, LenProperties
  <2> QED BY <2>1
<1>2. S # {} OBVIOUS
<1>3. \E n \in S : \A m \in S : n <= m
  <2> HIDE DEF S
  <2> QED BY <1>1, <1>2, LeastNumber
<1>4. \E n \in S : \A k \in EdgesInto(p, b) : n <= Len(term[p][k].args)
  BY <1>3
<1>5. /\ MinArgs(p, b) \in S
      /\ \A k \in EdgesInto(p, b) : MinArgs(p, b) <= Len(term[p][k].args)
  BY <1>4 DEF MinArgs
<1> QED BY <1>1, <1>5

\* The predecessor lists follow the installed terminators.
Edges ==
    /\ PredsCurrent
    /\ \A b \in Block \ terminated : term[b] = <<>>

LEMMA JobSeqs ==
  ASSUME Base
  PROVE  /\ <<>> \in Seq(Edge) /\ <<>> \in Seq([edge : Nat, var : Var]) /\ <<>> \in Seq(Value)
         /\ pending \in Seq(Value) /\ Len(pending) \in Nat
         /\ todo \in Seq(Value) /\ Len(todo) \in Nat
         /\ stack \in Seq(Block) /\ Len(stack) \in Nat /\ DOMAIN stack = 1..Len(stack)
         /\ Entry \in Block
         /\ call.op \in {"none", "use", "seal", "sealall", "term"} /\ call.block \in Block
         /\ call.start \in Nat /\ call.start <= Len(pending)
         /\ call.term \in Seq(Edge) /\ call.want \in Seq([edge : Nat, var : Var])
         /\ call.got \in Seq(Value)
         /\ rd.at \in Block /\ rd.chain \in SUBSET Block
         /\ cursor.block \in Block /\ cursor.i \in Nat
         /\ program.room \in Nat /\ program.room <= Capacity
<1>1. <<>> \in Seq(Edge) /\ <<>> \in Seq([edge : Nat, var : Var]) /\ <<>> \in Seq(Value)
  BY EmptySeq
<1>2. pending \in Seq(Value) /\ Len(pending) \in Nat /\ stack \in Seq(Block)
      /\ Len(stack) \in Nat /\ DOMAIN stack = 1..Len(stack)
  BY LenProperties DEF Base, TypeOK, SsaOK
<1>3. todo \in Seq(Value) /\ Len(todo) \in Nat BY LenProperties DEF Base, TypeOK, JobOK
<1>4. Entry \in Block BY EntityAssumption
<1>5. /\ call.op \in {"none", "use", "seal", "sealall", "term"} /\ call.block \in Block
      /\ call.start \in Nat /\ call.start <= Len(pending)
      /\ call.term \in Seq(Edge) /\ call.want \in Seq([edge : Nat, var : Var])
      /\ call.got \in Seq(Value)
  BY DEF Base, TypeOK, JobOK, CallOK
<1>6. rd.at \in Block /\ rd.chain \in SUBSET Block /\ cursor.block \in Block /\ cursor.i \in Nat
  BY DEF Base, TypeOK, JobOK
<1>7. program \in Programs BY DEF Base, TypeOK
<1>8. program.room \in Inputs..Capacity BY <1>7, FrontEndAssumption
<1> QED BY <1>1, <1>2, <1>3, <1>4, <1>5, <1>6, <1>8, CountAssumption

\* A call record is well typed when its fields are.
CallType == [op : {"none", "use", "seal", "sealall", "term"}, block : Block, start : Nat,
             term : Seq(Edge), want : Seq([edge : Nat, var : Var]), got : Seq(Value)]

\* A value read goes to a call that goes on.
LEMMA ReadDelivered ==
  ASSUME Base, pc = "read", NEW v \in Value, Deliver(v), UNCHANGED <<cursor, todo, elim>>,
         UNCHANGED <<live, terminated>>,
         Len(pending) <= Len(pending'), pending' \in Seq(Value)
  PROVE  JobOK' /\ CallShape' /\ term' \in [Block -> Seq(Edge)]
<1>1. /\ rd' = NoRead /\ pc' \in {"drain", "complete", "newterm"}
      /\ pc' = "newterm" => rd.for = "newterm"
      /\ call' = call \/ (rd.for = "newterm" /\ call' = [call EXCEPT !.got = Append(call.got, v)])
      /\ term' \in [Block -> Seq(Edge)]
  BY DeliverFacts
<1>2. Append(call.got, v) \in Seq(Value) BY JobSeqs, AppendProperties
<1>3. call \in CallType BY DEF Base, TypeOK, JobOK, CallOK, CallType
<1>4. call' \in CallType /\ call'.op = call.op /\ call'.block = call.block
      /\ call'.start = call.start
  BY <1>1, <1>2, <1>3 DEF CallType
<1>5. Len(pending') \in Nat BY LenProperties
<1>6. call'.start <= Len(pending') BY <1>4, <1>5, JobSeqs
<1>7. CallOK' BY <1>4, <1>6 DEF CallOK, CallType
<1>8. rd' \in [var : Var \cup {NONE}, at : Block, chain : SUBSET Block,
              for : {"none", "use", "complete", "newterm"}]
  BY <1>1, JobSeqs DEF NoRead
<1>9. cursor' \in [block : Block, i : Nat] /\ todo' \in Seq(Value) /\ ElimOK'
  BY DEF Base, TypeOK, JobOK, ElimOK
<1>10. JobOK' BY <1>1, <1>7, <1>8, <1>9 DEF JobOK
<1>11. CallShape' BY <1>1, <1>4 DEF CallShape, Base
<1> QED BY <1>1, <1>10, <1>11

LEMMA Recorded ==
  ASSUME NEW f, f \in [Var \X Block -> Value \cup {NONE}], NEW blocks, NEW v \in Value
  PROVE  Record(f, blocks, v) \in [Var \X Block -> Value \cup {NONE}]
BY DEF Record

LEMMA WithoutEdges ==
  ASSUME Base, NEW b \in Block
  PROVE  WithoutEdgesFrom(b) \in [Block -> Seq(Block)]
<1>1. ASSUME NEW d \in Block
      PROVE Pick(preds[d], {i \in DOMAIN preds[d] : preds[d][i] # b}) \in Seq(Block)
  <2>1. preds[d] \in Seq(Block) BY EdgeFacts
  <2> QED BY <2>1, PickFacts
<1> QED BY <1>1, EdgeFacts DEF WithoutEdgesFrom

\* An operand is the end of a chain.
LEMMA OperandEnds ==
  ASSUME Base, NEW b \in Block, NEW i, NEW v \in Operands(b, i), v # NONE
  PROVE  v \in Value /\ alias[v] = NONE
<1>1. PICK p \in Range(preds[b]) :
        v \in { IF i \in DOMAIN term[p][k].args
                THEN Resolve(term[p][k].args[i]) ELSE NONE : k \in EdgesInto(p, b) }
  BY DEF Operands
<1>2. p \in Block BY EdgeFacts DEF Range
<1>3. PICK k \in EdgesInto(p, b) : i \in DOMAIN term[p][k].args /\ v = Resolve(term[p][k].args[i])
  BY <1>1
<1>4. term[p][k].args \in Seq(Value) BY <1>2, EdgeFacts DEF EdgesInto
<1>5. term[p][k].args[i] \in Value BY <1>3, <1>4, ElementOfSeq, LenProperties
<1>6. Forwarding(alias) BY DEF Base
<1> QED BY <1>3, <1>5, <1>6, ResolveFacts

LEMMA SiteFacts ==
  ASSUME Base, NEW p, NEW s \in Sites(p)
  PROVE  s[1] \in Block /\ s[2] \in DOMAIN params[s[1]] /\ s[1] \in live
         /\ params[s[1]][s[2]] = p /\ p \in Value
<1>1. s[1] \in Block /\ IsSite(p, s[1], s[2]) BY DEF Sites
<1> QED BY <1>1, EdgeFacts DEF IsSite

\* remove_params and resolve_aliases leave an edge an edge, to the same block.
LEMMA WithoutRemovedFacts ==
  ASSUME Base, NEW p \in Block, NEW e \in Edge
  PROVE  WithoutRemoved(p, e) \in Edge /\ WithoutRemoved(p, e).block = e.block
<1> DEFINE args == IF p \in Range(preds[e.block]) /\ Len(e.args) = Len(params[e.block])
                   THEN Pick(e.args, Kept(e.block)) ELSE e.args
<1>0. e.block \in Block /\ e.args \in Seq(Value) BY DEF Edge
<1>1. args \in Seq(Value)
  <2>1. CASE Len(e.args) = Len(params[e.block])
    <3>1. Kept(e.block) \in SUBSET (DOMAIN params[e.block]) BY DEF Kept
    <3>2. params[e.block] \in Seq(Value) BY <1>0, EdgeFacts
    <3>3. DOMAIN params[e.block] = DOMAIN e.args BY <1>0, <2>1, <3>2, LenProperties
    <3>4. Pick(e.args, Kept(e.block)) \in Seq(Value) BY <1>0, <3>1, <3>3, PickFacts
    <3> QED BY <3>4, <1>0
  <2> QED BY <1>0, <2>1
<1> DEFINE new == [i \in DOMAIN args |-> Resolve(args[i])]
<1>2. WithoutRemoved(p, e) = [e EXCEPT !.args = new] BY DEF WithoutRemoved
<1> HIDE DEF args
<1>3. Len(args) \in Nat /\ DOMAIN args = 1..Len(args) BY <1>1, LenProperties
<1>4. ASSUME NEW i \in DOMAIN args PROVE Resolve(args[i]) \in Value
  <2>1. args[i] \in Value BY <1>1, <1>3, ElementOfSeq
  <2>2. Forwarding(alias) BY DEF Base
  <2> QED BY <2>1, <2>2, ResolveFacts
<1>5. new \in [1..Len(args) -> Value] BY <1>3, <1>4
<1> HIDE DEF new
<1>6. new \in Seq(Value) BY <1>3, <1>5, FunctionSeq
<1> QED BY <1>2, <1>6 DEF Edge

\* The value a read finds or makes is one.
LEMMA HitFacts ==
  ASSUME Base, ReadHit
  PROVE  /\ defs[<<rd.var, rd.at>>] \in Value
         /\ Resolve(defs[<<rd.var, rd.at>>]) \in Value
<1>1. rd.var \in Var /\ rd.at \in Block BY JobSeqs DEF ReadHit, Base, CallShape
<1>2. defs[<<rd.var, rd.at>>] \in Value BY <1>1 DEF ReadHit, Base, TypeOK, SsaOK
<1>3. Forwarding(alias) BY DEF Base
<1> QED BY <1>2, <1>3, ResolveFacts

LEMMA NewParamFacts ==
  ASSUME Base, ReadNewParam
  PROVE  nvals + 1 \in Value /\ nvals + 1 \in Inputs..Capacity /\ nvals \in Nat
BY JobSeqs, CountAssumption DEF ReadNewParam, Base, TypeOK, FuncOK, Value

LEMMA ZeroFacts ==
  ASSUME Base, ReadZero
  PROVE  /\ (IF zero = NONE THEN nvals + 1 ELSE zero) \in Value
         /\ nvals' \in Inputs..Capacity /\ nvals \in Nat
<1> DEFINE z == IF zero = NONE THEN nvals + 1 ELSE zero
<1>1. z <= program.room /\ nvals \in Inputs .. Capacity /\ zero \in Value \cup {NONE}
  BY DEF ReadZero, Base, TypeOK, FuncOK, SsaOK
<1>2. nvals' = IF zero = NONE THEN z ELSE nvals BY DEF ReadZero
<1> QED BY <1>1, <1>2, JobSeqs, CountAssumption DEF Value

LEMMA BaseDefVar ==
  ASSUME Base, program' = program, NEW x \in Var, NEW b \in Block, NEW v \in Value, DefVar(x, b, v)
  PROVE  Base'
<1>1. FuncOK' /\ Forwarding(alias') /\ Named'
  BY DEF DefVar, Base, TypeOK, FuncOK, SsaOK, Named, func, ssa
<1>2. SsaOK' /\ incoming' \in [Var \X Block -> Value \cup {NONE}] /\ failed' \in BOOLEAN
  BY DEF DefVar, Base, TypeOK, SsaOK, ssa, hist
<1>3. JobOK' /\ CallShape'
  BY DEF DefVar, Base, TypeOK, SsaOK, JobOK, CallOK, ElimOK, CallShape, ssa, job, NoCall
<1> QED BY <1>1, <1>2, <1>3 DEF Base, TypeOK

LEMMA BaseUseVar ==
  ASSUME Base, program' = program, NEW x \in Var, NEW b \in Block, UseVar(x, b)
  PROVE  Base'
<1>1. FuncOK' /\ Forwarding(alias') /\ Named'
  BY DEF UseVar, Base, TypeOK, FuncOK, SsaOK, Named, func, ssa
<1>2. SsaOK' /\ incoming' \in [Var \X Block -> Value \cup {NONE}] /\ failed' \in BOOLEAN
  BY DEF UseVar, Base, TypeOK, SsaOK, ssa, hist
<1>3. JobOK' /\ CallShape'
  <2>1. pc' \in {"idle", "read", "drain", "complete", "newterm", "forward", "eliminate"}
    BY DEF UseVar, Base, TypeOK, JobOK, job
  <2>2. CallOK'
    <3>1. call' = [NoCall EXCEPT !.op = "use", !.block = b, !.start = Len(pending)] /\ pending' = pending
      BY DEF UseVar, ssa
    <3>2. call' \in CallType /\ call'.start = Len(pending) BY <3>1, JobSeqs DEF NoCall, CallType
    <3> QED BY <3>1, <3>2, JobSeqs DEF CallOK, CallType
  <2>3. rd' \in [var : Var \cup {NONE}, at : Block, chain : SUBSET Block,
                for : {"none", "use", "complete", "newterm"}]
    BY DEF UseVar, Base, TypeOK, JobOK, job
  <2>4. cursor' \in [block : Block, i : Nat]
    BY DEF UseVar, Base, TypeOK, JobOK, job
  <2>5. todo' \in Seq(Value)
    BY DEF UseVar, Base, TypeOK, JobOK, job
  <2>6. ElimOK'
    BY DEF UseVar, Base, TypeOK, JobOK, ElimOK, job
  <2>7. CallShape'
    BY DEF UseVar, Base, TypeOK, JobOK, CallOK, CallShape, NoCall, func, ssa, job
  <2> QED BY <2>1, <2>2, <2>3, <2>4, <2>5, <2>6, <2>7 DEF JobOK
<1> QED BY <1>1, <1>2, <1>3 DEF Base, TypeOK

LEMMA BaseSetTerminator ==
  ASSUME Base, program' = program, NEW b \in Block, NEW dests \in Seq(Block), SetTerminator(b, dests)
  PROVE  Base'
<1>1. FuncOK' /\ Forwarding(alias') /\ Named'
  BY DEF SetTerminator, Base, TypeOK, FuncOK, SsaOK, Named, func, ssa
<1>2. SsaOK' /\ incoming' \in [Var \X Block -> Value \cup {NONE}] /\ failed' \in BOOLEAN
  BY DEF SetTerminator, Base, TypeOK, SsaOK, ssa, hist
<1>3. JobOK' /\ CallShape'
  <2>1. pc' \in {"idle", "read", "drain", "complete", "newterm", "forward", "eliminate"}
    BY DEF SetTerminator, Base, TypeOK, JobOK, job
  <2>2. CallOK'
    <3> DEFINE t == [k \in DOMAIN dests |-> [block |-> dests[k], args |-> <<>>]]
    <3>1. call' = [NoCall EXCEPT !.op = "term", !.block = b, !.term = t] BY DEF SetTerminator
    <3>2. Len(dests) \in Nat /\ DOMAIN dests = 1..Len(dests) BY LenProperties
    <3>3. t \in [1..Len(dests) -> Edge]
      <4>1. ASSUME NEW k \in DOMAIN dests PROVE [block |-> dests[k], args |-> <<>>] \in Edge
        <5>1. dests[k] \in Block BY <3>2, ElementOfSeq
        <5> QED BY <5>1, JobSeqs DEF Edge
      <4> QED BY <4>1, <3>2
    <3> HIDE DEF t
    <3>4. t \in Seq(Edge) BY <3>2, <3>3, FunctionSeq
    <3>5. pending' = pending BY DEF SetTerminator, ssa
    <3>6. call' \in CallType /\ call'.start = 0 BY <3>1, <3>4, JobSeqs DEF NoCall, CallType
    <3> QED BY <3>5, <3>6, JobSeqs DEF CallOK, CallType
  <2>3. rd' \in [var : Var \cup {NONE}, at : Block, chain : SUBSET Block,
                for : {"none", "use", "complete", "newterm"}]
    BY DEF SetTerminator, Base, TypeOK, JobOK, job
  <2>4. cursor' \in [block : Block, i : Nat]
    BY DEF SetTerminator, Base, TypeOK, JobOK, job
  <2>5. todo' \in Seq(Value)
    BY DEF SetTerminator, Base, TypeOK, JobOK, job
  <2>6. ElimOK'
    BY DEF SetTerminator, Base, TypeOK, JobOK, ElimOK, job
  <2>7. CallShape'
    BY DEF SetTerminator, Base, TypeOK, JobOK, CallOK, CallShape, NoCall, func, ssa, job
  <2> QED BY <2>1, <2>2, <2>3, <2>4, <2>5, <2>6, <2>7 DEF JobOK
<1> QED BY <1>1, <1>2, <1>3 DEF Base, TypeOK

LEMMA BaseRemoveTerminator ==
  ASSUME Base, program' = program, NEW b \in Block, RemoveTerminator(b)
  PROVE  Base'
<1>1. FuncOK' /\ Forwarding(alias') /\ Named'
  BY DEF RemoveTerminator, Base, TypeOK, FuncOK, SsaOK, Named, func, ssa
<1>2. SsaOK' /\ incoming' \in [Var \X Block -> Value \cup {NONE}] /\ failed' \in BOOLEAN
  BY WithoutEdges DEF RemoveTerminator, Base, TypeOK, SsaOK, hist
<1>3. JobOK' /\ CallShape'
  BY DEF RemoveTerminator, Base, TypeOK, SsaOK, JobOK, CallOK, ElimOK, CallShape, ssa, job, NoCall
<1> QED BY <1>1, <1>2, <1>3 DEF Base, TypeOK

LEMMA BaseRemoveBlock ==
  ASSUME Base, program' = program, NEW b \in Block, RemoveBlock(b)
  PROVE  Base'
<1>1. FuncOK' /\ Forwarding(alias') /\ Named'
  BY DEF RemoveBlock, Base, TypeOK, FuncOK, SsaOK, Named, func, ssa
<1>2. SsaOK' /\ incoming' \in [Var \X Block -> Value \cup {NONE}] /\ failed' \in BOOLEAN
  BY WithoutEdges DEF RemoveBlock, Base, TypeOK, SsaOK, hist
<1>3. JobOK' /\ CallShape'
  BY DEF RemoveBlock, Base, TypeOK, SsaOK, JobOK, CallOK, ElimOK, CallShape, ssa, job, NoCall
<1> QED BY <1>1, <1>2, <1>3 DEF Base, TypeOK

LEMMA BaseReplaceAllUses ==
  ASSUME Base, program' = program, NEW old \in Value, NEW new \in Value, ReplaceAllUses(old, new)
  PROVE  Base'
<1>1. FuncOK' /\ Forwarding(alias') /\ Named'
  <2>1. Resolve(new) \in Value /\ alias[Resolve(new)] = NONE /\ Resolve(new) # old
    <3>1. Forwarding(alias) BY DEF Base
    <3>2. Resolve(old) # Resolve(new) BY DEF ReplaceAllUses
    <3>3. Resolve(Resolve(new)) = Resolve(new) BY <3>1, ResolveFacts, RootDef
    <3> QED BY <3>1, <3>2, <3>3, ResolveFacts
  <2>2. Forwarding([alias EXCEPT ![old] = Resolve(new)])
    <3>1. ASSUME NEW r \in Value, alias[r] = NONE, r # old PROVE Forwarding([alias EXCEPT ![old] = r])
      BY <3>1, Redirected DEF Base
    <3> QED BY <2>1, <3>1
  <2>3. Forwarding(alias') BY <2>2 DEF ReplaceAllUses
  <2>4. alias' \in [Value -> Value \cup {NONE}] BY <2>3 DEF Forwarding
  <2> QED BY <2>3, <2>4 DEF ReplaceAllUses, Base, TypeOK, FuncOK, Named, func, ssa
<1>2. SsaOK' /\ incoming' \in [Var \X Block -> Value \cup {NONE}] /\ failed' \in BOOLEAN
  BY DEF ReplaceAllUses, Base, TypeOK, SsaOK, ssa, hist
<1>3. JobOK' /\ CallShape'
  BY DEF ReplaceAllUses, Base, TypeOK, SsaOK, JobOK, CallOK, ElimOK, CallShape, ssa, job, NoCall
<1> QED BY <1>1, <1>2, <1>3 DEF Base, TypeOK

LEMMA BaseSealBlock ==
  ASSUME Base, program' = program, NEW b \in Block, SealBlock(b)
  PROVE  Base'
<1>1. FuncOK' /\ Forwarding(alias') /\ Named'
  BY DEF SealBlock, Base, TypeOK, FuncOK, SsaOK, Named, func, ssa
<1>2. SsaOK' /\ incoming' \in [Var \X Block -> Value \cup {NONE}] /\ failed' \in BOOLEAN
  BY DEF SealBlock, Base, TypeOK, SsaOK, ssa, hist
<1>3. JobOK' /\ CallShape'
  <2>1. pc' \in {"idle", "read", "drain", "complete", "newterm", "forward", "eliminate"}
    BY DEF SealBlock, Base, TypeOK, JobOK, job
  <2>2. CallOK'
    <3>1. call' = [NoCall EXCEPT !.op = "seal", !.block = b, !.start = Len(pending)] /\ pending' = pending
      BY DEF SealBlock
    <3>2. call' \in CallType /\ call'.start = Len(pending) BY <3>1, JobSeqs DEF NoCall, CallType
    <3> QED BY <3>1, <3>2, JobSeqs DEF CallOK, CallType
  <2>3. rd' \in [var : Var \cup {NONE}, at : Block, chain : SUBSET Block,
                for : {"none", "use", "complete", "newterm"}]
    BY DEF SealBlock, Base, TypeOK, JobOK, job
  <2>4. cursor' \in [block : Block, i : Nat]
    BY DEF SealBlock, Base, TypeOK, JobOK, job
  <2>5. todo' \in Seq(Value)
    BY DEF SealBlock, Base, TypeOK, JobOK, job
  <2>6. ElimOK'
    BY DEF SealBlock, Base, TypeOK, JobOK, ElimOK, job
  <2>7. CallShape'
    BY DEF SealBlock, Base, TypeOK, JobOK, CallOK, CallShape, NoCall, func, ssa, job
  <2> QED BY <2>1, <2>2, <2>3, <2>4, <2>5, <2>6, <2>7 DEF JobOK
<1> QED BY <1>1, <1>2, <1>3 DEF Base, TypeOK

LEMMA BaseSealAllBlocks ==
  ASSUME Base, program' = program, SealAllBlocks
  PROVE  Base'
<1>1. FuncOK' /\ Forwarding(alias') /\ Named'
  BY DEF SealAllBlocks, Base, TypeOK, FuncOK, SsaOK, Named, func, ssa
<1>2. SsaOK' /\ incoming' \in [Var \X Block -> Value \cup {NONE}] /\ failed' \in BOOLEAN
  <2>1. live \subseteq Block /\ sealed \subseteq Block BY DEF Base, TypeOK, FuncOK, SsaOK
  <2>2. PICK order \in [1..Cardinality(live \ sealed) -> live \ sealed] : stack' = stack \o order
    BY DEF SealAllBlocks
  <2>3. Cardinality(live \ sealed) \in Nat
    BY <2>1, EntityAssumption, FS_Subset, FS_CardinalityType
  <2>4. order \in [1..Cardinality(live \ sealed) -> Block] BY <2>1
  <2>5. order \in Seq(Block) BY <2>3, <2>4, FunctionSeq
  <2>6. stack' \in Seq(Block) BY <2>2, <2>5, JobSeqs, ConcatProperties
  <2> QED BY <2>1, <2>6 DEF SealAllBlocks, Base, TypeOK, SsaOK, hist
<1>3. JobOK' /\ CallShape'
  BY DEF SealAllBlocks, Base, TypeOK, SsaOK, JobOK, CallOK, ElimOK, CallShape, ssa, job, NoCall
<1> QED BY <1>1, <1>2, <1>3 DEF Base, TypeOK

LEMMA BaseReadHit ==
  ASSUME Base, program' = program, ReadHit
  PROVE  Base'
<1> DEFINE d == defs[<<rd.var, rd.at>>]
<1>0. Resolve(d) \in Value /\ pc = "read" /\ Deliver(Resolve(d))
  BY HitFacts DEF ReadHit
<1>a. JobOK' /\ CallShape' /\ term' \in [Block -> Seq(Edge)]
  <2>1. UNCHANGED <<cursor, todo, elim>> /\ UNCHANGED <<live, terminated>> /\ pending' = pending
    BY DEF ReadHit
  <2>2. Len(pending) <= Len(pending') /\ pending' \in Seq(Value) BY <2>1, JobSeqs
  <2> HIDE DEF d
  <2> QED BY <1>0, <2>1, <2>2, ReadDelivered
<1>1. FuncOK' /\ Forwarding(alias') /\ Named'
  BY <1>a DEF ReadHit, Base, TypeOK, FuncOK, SsaOK, Named
<1>2. SsaOK' /\ incoming' \in [Var \X Block -> Value \cup {NONE}] /\ failed' \in BOOLEAN
  <2>1. defs' = Record(defs, ReadBlocks, Resolve(d))
        /\ incoming' = Record(incoming, rd.chain \ {rd.at}, Resolve(d))
    BY DEF ReadHit
  <2>2. defs \in [Var \X Block -> Value \cup {NONE}] /\ incoming \in [Var \X Block -> Value \cup {NONE}]
    BY DEF Base, TypeOK, SsaOK
  <2>3. defs' \in [Var \X Block -> Value \cup {NONE}] /\ incoming' \in [Var \X Block -> Value \cup {NONE}]
    <3> HIDE DEF d
    <3> QED BY <1>0, <2>1, <2>2, Recorded
  <2> QED BY <2>3 DEF ReadHit, Base, TypeOK, SsaOK
<1>3. JobOK' /\ CallShape'
  BY <1>a
<1> QED BY <1>1, <1>2, <1>3 DEF Base, TypeOK

LEMMA BaseReadNewParam ==
  ASSUME Base, program' = program, ReadNewParam
  PROVE  Base'
<1> DEFINE p == nvals + 1
<1>0. p \in Value /\ pc = "read" /\ Deliver(p) /\ rd.var \in Var /\ p \in Inputs..Capacity
  BY NewParamFacts DEF ReadNewParam, Base, CallShape
<1>b. pending' = Append(pending, p) /\ params' = [params EXCEPT ![rd.at] = Append(params[rd.at], p)]
      /\ paramVar' = [paramVar EXCEPT ![p] = rd.var]
  BY DEF ReadNewParam
<1>c. /\ pending' \in Seq(Value) /\ Len(pending) <= Len(pending')
      /\ Append(params[rd.at], p) \in Seq(Value)
      /\ \A i \in DOMAIN Append(params[rd.at], p) :
            \/ i \in DOMAIN params[rd.at] /\ Append(params[rd.at], p)[i] = params[rd.at][i]
            \/ Append(params[rd.at], p)[i] = p
  <2>1. params[rd.at] \in Seq(Value) BY EdgeFacts, JobSeqs
  <2>2. Len(params[rd.at]) \in Nat /\ DOMAIN params[rd.at] = 1..Len(params[rd.at])
    BY <2>1, LenProperties
  <2> HIDE DEF p
  <2>3. /\ Append(params[rd.at], p) \in Seq(Value)
        /\ Len(Append(params[rd.at], p)) = Len(params[rd.at]) + 1
        /\ DOMAIN Append(params[rd.at], p) = 1..(Len(params[rd.at]) + 1)
        /\ \A i \in 1..Len(params[rd.at]) : Append(params[rd.at], p)[i] = params[rd.at][i]
        /\ Append(params[rd.at], p)[Len(params[rd.at]) + 1] = p
    BY <1>0, <2>1, <2>2, AppendProperties, LenProperties
  <2>4. Append(pending, p) \in Seq(Value) /\ Len(Append(pending, p)) = Len(pending) + 1
    BY <1>0, JobSeqs, AppendProperties
  <2>5. Len(pending) <= Len(pending') BY <2>4, <1>b, JobSeqs
  <2>6. \A i \in DOMAIN Append(params[rd.at], p) : i \in DOMAIN params[rd.at] \/ i = Len(params[rd.at]) + 1
    BY <2>2, <2>3
  <2> QED BY <2>2, <2>3, <2>4, <2>5, <2>6, <1>b
<1>a. JobOK' /\ CallShape' /\ term' \in [Block -> Seq(Edge)]
  <2>1. UNCHANGED <<cursor, todo, elim>> /\ UNCHANGED <<live, terminated>>
    BY DEF ReadNewParam
  <2> HIDE DEF p
  <2> QED BY <1>0, <1>c, <2>1, ReadDelivered
<1>1. FuncOK' /\ Forwarding(alias') /\ Named'
  <2> HIDE DEF p
  <2>1. params \in [Block -> Seq(Value)] /\ paramVar \in [Value -> Var \cup {NONE}] /\ rd.at \in Block
    BY JobSeqs DEF Base, TypeOK, FuncOK, SsaOK
  <2>2. params' \in [Block -> Seq(Value)] BY <2>1, <1>b, <1>c
  <2>3. Named'
    <3>1. ASSUME NEW b \in Block, NEW i \in DOMAIN params'[b] PROVE paramVar'[params'[b][i]] \in Var
      <4>1. CASE params'[b][i] = p BY <4>1, <2>1, <1>0, <1>b
      <4>2. CASE params'[b][i] # p
        <5>1. i \in DOMAIN params[b] /\ params'[b][i] = params[b][i] BY <4>2, <1>b, <1>c, <2>1
        <5>2. params[b][i] \in Value BY <5>1, EdgeFacts
        <5>3. paramVar'[params[b][i]] = paramVar[params[b][i]] BY <5>1, <5>2, <4>2, <1>b, <2>1
        <5> QED BY <5>1, <5>3 DEF Base, Named
      <4> QED BY <4>1, <4>2
    <3> QED BY <3>1 DEF Named
  <2>4. nvals' \in Inputs..Capacity BY <1>0 DEF ReadNewParam, p
  <2>5. FuncOK' BY <1>a, <2>2, <2>4 DEF ReadNewParam, Base, TypeOK, FuncOK
  <2>6. Forwarding(alias') BY DEF ReadNewParam, Base
  <2> QED BY <2>3, <2>5, <2>6
<1>2. SsaOK' /\ incoming' \in [Var \X Block -> Value \cup {NONE}] /\ failed' \in BOOLEAN
  <2>1. defs' = Record(defs, ReadBlocks, p) /\ incoming' = Record(incoming, ReadBlocks, p)
    BY DEF ReadNewParam
  <2>2. defs \in [Var \X Block -> Value \cup {NONE}] /\ incoming \in [Var \X Block -> Value \cup {NONE}]
        /\ paramVar \in [Value -> Var \cup {NONE}]
    BY DEF Base, TypeOK, SsaOK
  <2> HIDE DEF p
  <2>3. defs' \in [Var \X Block -> Value \cup {NONE}] /\ incoming' \in [Var \X Block -> Value \cup {NONE}]
    BY <1>0, <2>1, <2>2, Recorded
  <2>4. paramVar' \in [Value -> Var \cup {NONE}] BY <1>0, <1>b, <2>2
  <2>5. stack' \in Seq(Block)
    <3>1. Append(stack, rd.at) \in Seq(Block) BY JobSeqs, AppendProperties
    <3> QED BY <3>1, JobSeqs DEF ReadNewParam
  <2> QED BY <2>3, <2>4, <2>5, <1>c DEF ReadNewParam, Base, TypeOK, SsaOK
<1>3. JobOK' /\ CallShape'
  BY <1>a
<1> QED BY <1>1, <1>2, <1>3 DEF Base, TypeOK

LEMMA BaseReadZero ==
  ASSUME Base, program' = program, ReadZero
  PROVE  Base'
<1> DEFINE z == IF zero = NONE THEN nvals + 1 ELSE zero
<1>0. z \in Value /\ pc = "read" /\ Deliver(z) /\ nvals' \in Inputs..Capacity
  BY ZeroFacts DEF ReadZero
<1>a. JobOK' /\ CallShape' /\ term' \in [Block -> Seq(Edge)]
  <2>1. UNCHANGED <<cursor, todo, elim>> /\ UNCHANGED <<live, terminated>> /\ pending' = pending
    BY DEF ReadZero
  <2>2. Len(pending) <= Len(pending') /\ pending' \in Seq(Value) BY <2>1, JobSeqs
  <2> HIDE DEF z
  <2> QED BY <1>0, <2>1, <2>2, ReadDelivered
<1>1. FuncOK' /\ Forwarding(alias') /\ Named'
  BY <1>0, <1>a DEF ReadZero, Base, TypeOK, FuncOK, SsaOK, Named
<1>2. SsaOK' /\ incoming' \in [Var \X Block -> Value \cup {NONE}] /\ failed' \in BOOLEAN
  <2>1. defs' = Record(defs, ReadBlocks, z) /\ incoming' = Record(incoming, ReadBlocks, z)
        /\ zero' = z
    BY DEF ReadZero
  <2>2. defs \in [Var \X Block -> Value \cup {NONE}] /\ incoming \in [Var \X Block -> Value \cup {NONE}]
    BY DEF Base, TypeOK, SsaOK
  <2> HIDE DEF z
  <2>3. defs' \in [Var \X Block -> Value \cup {NONE}] /\ incoming' \in [Var \X Block -> Value \cup {NONE}]
    BY <1>0, <2>1, <2>2, Recorded
  <2> QED BY <1>0, <2>1, <2>3 DEF ReadZero, Base, TypeOK, SsaOK
<1>3. JobOK' /\ CallShape'
  BY <1>a
<1> QED BY <1>1, <1>2, <1>3 DEF Base, TypeOK

LEMMA BaseReadThrough ==
  ASSUME Base, program' = program, ReadThrough
  PROVE  Base'
<1>1. FuncOK' /\ Forwarding(alias') /\ Named'
  BY DEF ReadThrough, Base, TypeOK, FuncOK, SsaOK, Named, func, ssa
<1>2. SsaOK' /\ incoming' \in [Var \X Block -> Value \cup {NONE}] /\ failed' \in BOOLEAN
  BY DEF ReadThrough, Base, TypeOK, SsaOK, ssa, hist
<1>3. JobOK' /\ CallShape'
  <2>1. pc' \in {"idle", "read", "drain", "complete", "newterm", "forward", "eliminate"}
    BY DEF ReadThrough, Base, TypeOK, JobOK, job
  <2>2. CallOK'
    BY DEF ReadThrough, Base, TypeOK, JobOK, CallOK, SsaOK, NoCall, ssa, job
  <2>3. rd' \in [var : Var \cup {NONE}, at : Block, chain : SUBSET Block,
                for : {"none", "use", "complete", "newterm"}]
    <3>1. rd' = [rd EXCEPT !.chain = rd.chain \cup {rd.at}, !.at = preds[rd.at][1]]
          /\ Len(preds[rd.at]) = 1
      BY DEF ReadThrough, LooksThrough
    <3>2. preds[rd.at] \in Seq(Block) BY JobSeqs, EdgeFacts
    <3>3. preds[rd.at][1] \in Block BY <3>1, <3>2, ElementOfSeq
    <3> QED BY <3>1, <3>3, JobSeqs DEF Base, TypeOK, JobOK
  <2>4. cursor' \in [block : Block, i : Nat]
    BY DEF ReadThrough, Base, TypeOK, JobOK, job
  <2>5. todo' \in Seq(Value)
    BY DEF ReadThrough, Base, TypeOK, JobOK, job
  <2>6. ElimOK'
    BY DEF ReadThrough, Base, TypeOK, JobOK, ElimOK, job
  <2>7. CallShape'
    BY DEF ReadThrough, Base, TypeOK, JobOK, CallOK, CallShape, NoCall, func, ssa, job
  <2> QED BY <2>1, <2>2, <2>3, <2>4, <2>5, <2>6, <2>7 DEF JobOK
<1> QED BY <1>1, <1>2, <1>3 DEF Base, TypeOK

LEMMA BaseReadFails ==
  ASSUME Base, program' = program, ReadFails
  PROVE  Base'
<1>1. FuncOK' /\ Forwarding(alias') /\ Named'
  BY DEF ReadFails, Base, TypeOK, FuncOK, SsaOK, Named, func, ssa
<1>2. SsaOK' /\ incoming' \in [Var \X Block -> Value \cup {NONE}] /\ failed' \in BOOLEAN
  BY DEF ReadFails, Base, TypeOK, SsaOK, ssa, hist
<1>3. JobOK' /\ CallShape'
  BY ReturnFacts DEF ReadFails, ssa
<1> QED BY <1>1, <1>2, <1>3 DEF Base, TypeOK

LEMMA BaseDrainPop ==
  ASSUME Base, program' = program, DrainPop
  PROVE  Base'
<1>1. FuncOK' /\ Forwarding(alias') /\ Named'
  BY DEF DrainPop, Base, TypeOK, FuncOK, SsaOK, Named, func, ssa
<1>2. SsaOK' /\ incoming' \in [Var \X Block -> Value \cup {NONE}] /\ failed' \in BOOLEAN
  BY DEF DrainPop, Base, TypeOK, SsaOK, ssa, hist
<1>3. JobOK' /\ CallShape'
  <2>1. pc' \in {"idle", "read", "drain", "complete", "newterm", "forward", "eliminate"}
    BY DEF DrainPop, Base, TypeOK, JobOK, job
  <2>2. CallOK'
    BY DEF DrainPop, Base, TypeOK, JobOK, CallOK, SsaOK, NoCall, ssa, job
  <2>3. rd' \in [var : Var \cup {NONE}, at : Block, chain : SUBSET Block,
                for : {"none", "use", "complete", "newterm"}]
    BY DEF DrainPop, Base, TypeOK, JobOK, job
  <2>4. cursor' \in [block : Block, i : Nat]
    <3>1. Len(stack) # 0 BY JobSeqs, EmptySeq DEF DrainPop
    <3>2. stack[Len(stack)] \in Block BY <3>1, JobSeqs, ElementOfSeq
    <3> QED BY <3>2 DEF DrainPop
  <2>5. todo' \in Seq(Value)
    BY DEF DrainPop, Base, TypeOK, JobOK, job
  <2>6. ElimOK'
    BY DEF DrainPop, Base, TypeOK, JobOK, ElimOK, job
  <2>7. CallShape'
    BY DEF DrainPop, Base, TypeOK, JobOK, CallOK, CallShape, NoCall, func, ssa, job
  <2> QED BY <2>1, <2>2, <2>3, <2>4, <2>5, <2>6, <2>7 DEF JobOK
<1> QED BY <1>1, <1>2, <1>3 DEF Base, TypeOK

LEMMA BaseCompleteRead ==
  ASSUME Base, Edges, program' = program, CompleteRead
  PROVE  Base'
<1>1. FuncOK' /\ Forwarding(alias') /\ Named'
  BY DEF CompleteRead, Base, TypeOK, FuncOK, SsaOK, Named, func, ssa
<1>2. SsaOK' /\ incoming' \in [Var \X Block -> Value \cup {NONE}] /\ failed' \in BOOLEAN
  BY DEF CompleteRead, Base, TypeOK, SsaOK, ssa, hist
<1>3. JobOK' /\ CallShape'
  <2>1. pc' \in {"idle", "read", "drain", "complete", "newterm", "forward", "eliminate"}
    BY DEF CompleteRead, Base, TypeOK, JobOK, job
  <2>2. CallOK'
    BY DEF CompleteRead, Base, TypeOK, JobOK, CallOK, SsaOK, NoCall, ssa, job
  <2>0. PICK q \in Value : paramVar[q] \in Var /\ CursorPred \in Block
                           /\ rd' = Read(paramVar[q], CursorPred, "complete")
    <3> DEFINE b == cursor.block
    <3>1. /\ cursor.i \in DOMAIN preds[b] /\ MinArgs(CursorPred, b) < Len(params[b])
          /\ rd' = Read(paramVar[params[b][MinArgs(CursorPred, b) + 1]], CursorPred, "complete")
      BY DEF CompleteRead, CursorLacks
    <3>2. b \in Block /\ CursorPred \in Block BY <3>1, JobSeqs, EdgeFacts DEF CursorPred
    <3>3. EdgesInto(CursorPred, b) # {} BY <3>1, <3>2 DEF Edges, PredsCurrent, CursorPred, Range
    <3> HIDE DEF b
    <3>4. MinArgs(CursorPred, b) \in Nat BY <3>2, <3>3, MinArgsFacts
    <3>5. params[b] \in Seq(Value) BY <3>2, EdgeFacts
    <3>6. Len(params[b]) \in Nat /\ DOMAIN params[b] = 1..Len(params[b]) BY <3>5, LenProperties
    <3>7. MinArgs(CursorPred, b) + 1 \in DOMAIN params[b] BY <3>1, <3>4, <3>6
    <3>8. params[b][MinArgs(CursorPred, b) + 1] \in Value BY <3>2, <3>7, EdgeFacts
    <3>9. paramVar[params[b][MinArgs(CursorPred, b) + 1]] \in Var
      BY <3>2, <3>7 DEF Base, Named
    <3> QED BY <3>1, <3>2, <3>8, <3>9
  <2>3. rd' \in [var : Var \cup {NONE}, at : Block, chain : SUBSET Block,
                for : {"none", "use", "complete", "newterm"}]
    BY <2>0 DEF Read
  <2>4. cursor' \in [block : Block, i : Nat]
    BY DEF CompleteRead, Base, TypeOK, JobOK, job
  <2>5. todo' \in Seq(Value)
    BY DEF CompleteRead, Base, TypeOK, JobOK, job
  <2>6. ElimOK'
    BY DEF CompleteRead, Base, TypeOK, JobOK, ElimOK, job
  <2>7. CallShape'
    BY <2>0 DEF CompleteRead, Read, Base, CallShape, func, ssa
  <2> QED BY <2>1, <2>2, <2>3, <2>4, <2>5, <2>6, <2>7 DEF JobOK
<1> QED BY <1>1, <1>2, <1>3 DEF Base, TypeOK

LEMMA BaseCompleteNext ==
  ASSUME Base, program' = program, CompleteNext
  PROVE  Base'
<1>1. FuncOK' /\ Forwarding(alias') /\ Named'
  BY DEF CompleteNext, Base, TypeOK, FuncOK, SsaOK, Named, func, ssa
<1>2. SsaOK' /\ incoming' \in [Var \X Block -> Value \cup {NONE}] /\ failed' \in BOOLEAN
  BY DEF CompleteNext, Base, TypeOK, SsaOK, ssa, hist
<1>3. JobOK' /\ CallShape'
  <2>1. pc' \in {"idle", "read", "drain", "complete", "newterm", "forward", "eliminate"}
    BY DEF CompleteNext, Base, TypeOK, JobOK, job
  <2>2. CallOK'
    BY DEF CompleteNext, Base, TypeOK, JobOK, CallOK, SsaOK, NoCall, ssa, job
  <2>3. rd' \in [var : Var \cup {NONE}, at : Block, chain : SUBSET Block,
                for : {"none", "use", "complete", "newterm"}]
    BY DEF CompleteNext, Base, TypeOK, JobOK, job
  <2>4. cursor' \in [block : Block, i : Nat]
    <3>1. [cursor EXCEPT !.i = cursor.i + 1] \in [block : Block, i : Nat]
      BY DEF Base, TypeOK, JobOK
    <3>2. NoCursor \in [block : Block, i : Nat] BY JobSeqs DEF NoCursor
    <3> QED BY <3>1, <3>2 DEF CompleteNext
  <2>5. todo' \in Seq(Value)
    BY DEF CompleteNext, Base, TypeOK, JobOK, job
  <2>6. ElimOK'
    BY DEF CompleteNext, Base, TypeOK, JobOK, ElimOK, job
  <2>7. CallShape'
    BY DEF CompleteNext, Base, TypeOK, JobOK, CallOK, CallShape, NoCall, func, ssa, job
  <2> QED BY <2>1, <2>2, <2>3, <2>4, <2>5, <2>6, <2>7 DEF JobOK
<1> QED BY <1>1, <1>2, <1>3 DEF Base, TypeOK

LEMMA BaseDrainedUse ==
  ASSUME Base, program' = program, DrainedUse
  PROVE  Base'
<1>1. FuncOK' /\ Forwarding(alias') /\ Named'
  BY DEF DrainedUse, Base, TypeOK, FuncOK, SsaOK, Named, func, ssa
<1>2. SsaOK' /\ incoming' \in [Var \X Block -> Value \cup {NONE}] /\ failed' \in BOOLEAN
  BY DEF DrainedUse, Base, TypeOK, SsaOK, ssa, hist
<1>3. JobOK' /\ CallShape'
  BY SMTT(30) DEF DrainedUse, Base, TypeOK, SsaOK, JobOK, CallOK, ElimOK, CallShape, ssa, job, NoCall
<1> QED BY <1>1, <1>2, <1>3 DEF Base, TypeOK

LEMMA BaseDrainedSeal ==
  ASSUME Base, program' = program, DrainedSeal
  PROVE  Base'
<1>1. FuncOK' /\ Forwarding(alias') /\ Named'
  BY DEF DrainedSeal, Base, TypeOK, FuncOK, SsaOK, Named, func, ssa
<1>2. SsaOK' /\ incoming' \in [Var \X Block -> Value \cup {NONE}] /\ failed' \in BOOLEAN
  BY DEF DrainedSeal, Base, TypeOK, SsaOK, ssa, hist
<1>3. JobOK' /\ CallShape'
  <2>1. pc' \in {"idle", "read", "drain", "complete", "newterm", "forward", "eliminate"}
    BY DEF DrainedSeal, Base, TypeOK, JobOK, job
  <2>2. CallOK'
    BY DEF DrainedSeal, Base, TypeOK, JobOK, CallOK, SsaOK, NoCall, ssa, job
  <2>3. rd' \in [var : Var \cup {NONE}, at : Block, chain : SUBSET Block,
                for : {"none", "use", "complete", "newterm"}]
    BY DEF DrainedSeal, Base, TypeOK, JobOK, job
  <2>4. cursor' \in [block : Block, i : Nat]
    BY DEF DrainedSeal, Base, TypeOK, JobOK, job
  <2>5. todo' \in Seq(Value)
    <3>1. params[call.block] \in Seq(Value) BY JobSeqs, EdgeFacts
    <3>2. SubSeq(pending, call.start + 1, Len(pending)) \in Seq(Value)
      <4>1. ASSUME NEW i \in (call.start + 1)..Len(pending) PROVE i \in 1..Len(pending)
        BY JobSeqs
      <4> QED BY <4>1, JobSeqs, SubSeqProperties
    <3>3. params[call.block] \o SubSeq(pending, call.start + 1, Len(pending)) \in Seq(Value)
      BY <3>1, <3>2, ConcatProperties
    <3> QED BY <3>3 DEF DrainedSeal
  <2>6. ElimOK'
    BY DEF DrainedSeal, Base, TypeOK, JobOK, ElimOK, job
  <2>7. CallShape'
    BY DEF DrainedSeal, Base, TypeOK, JobOK, CallOK, CallShape, NoCall, func, ssa, job
  <2> QED BY <2>1, <2>2, <2>3, <2>4, <2>5, <2>6, <2>7 DEF JobOK
<1> QED BY <1>1, <1>2, <1>3 DEF Base, TypeOK

LEMMA BaseDrainedTerm ==
  ASSUME Base, program' = program, DrainedTerm
  PROVE  Base'
<1>1. FuncOK' /\ Forwarding(alias') /\ Named'
  BY DEF DrainedTerm, Base, TypeOK, FuncOK, SsaOK, Named, func, ssa
<1>2. SsaOK' /\ incoming' \in [Var \X Block -> Value \cup {NONE}] /\ failed' \in BOOLEAN
  BY DEF DrainedTerm, Base, TypeOK, SsaOK, ssa, hist
<1>3. JobOK' /\ CallShape'
  <2>1. pc' \in {"idle", "read", "drain", "complete", "newterm", "forward", "eliminate"}
    BY DEF DrainedTerm, Base, TypeOK, JobOK, job
  <2>2. CallOK'
    BY DEF DrainedTerm, Base, TypeOK, JobOK, CallOK, SsaOK, NoCall, ssa, job
  <2>3. rd' \in [var : Var \cup {NONE}, at : Block, chain : SUBSET Block,
                for : {"none", "use", "complete", "newterm"}]
    BY DEF DrainedTerm, Base, TypeOK, JobOK, job
  <2>4. cursor' \in [block : Block, i : Nat]
    BY DEF DrainedTerm, Base, TypeOK, JobOK, job
  <2>5. todo' \in Seq(Value)
    BY DEF DrainedTerm, Base, TypeOK, JobOK, job
  <2>6. ElimOK'
    BY DEF DrainedTerm, Base, TypeOK, JobOK, ElimOK, job
  <2>7. CallShape'
    BY SMTT(30) DEF DrainedTerm, Base, TypeOK, JobOK, CallOK, CallShape, NoCall, func, ssa, job
  <2> QED BY <2>1, <2>2, <2>3, <2>4, <2>5, <2>6, <2>7 DEF JobOK
<1> QED BY <1>1, <1>2, <1>3 DEF Base, TypeOK

LEMMA BaseNewTermWant ==
  ASSUME Base, program' = program, NewTermWant
  PROVE  Base'
<1>1. FuncOK' /\ Forwarding(alias') /\ Named'
  BY SMTT(30) DEF NewTermWant, Base, TypeOK, FuncOK, SsaOK, Named, func, ssa
<1>2. SsaOK' /\ incoming' \in [Var \X Block -> Value \cup {NONE}] /\ failed' \in BOOLEAN
  BY DEF NewTermWant, Base, TypeOK, SsaOK, ssa, hist
<1>3. JobOK' /\ CallShape'
  <2>1. pc' \in {"idle", "read", "drain", "complete", "newterm", "forward", "eliminate"}
    BY DEF NewTermWant, Base, TypeOK, JobOK, job
  <2>2. CallOK'
    <3> DEFINE s == [k \in DOMAIN call.term |-> k]
               ks == Pick(s, Wanting)
               NextParam(e) == params[e.block][Len(e.args) + 1]
               want == [j \in DOMAIN ks |-> [edge |-> ks[j], var |-> paramVar[NextParam(call.term[ks[j]])]]]
    <3>1. call' = [call EXCEPT !.want = want] BY DEF NewTermWant
    <3>2. Len(call.term) \in Nat /\ DOMAIN call.term = 1..Len(call.term) BY JobSeqs, LenProperties
    <3>3. s \in Seq(Nat) /\ DOMAIN s = DOMAIN call.term /\ \A k \in DOMAIN call.term : s[k] = k
      <4>1. s \in [1..Len(call.term) -> Nat] /\ \A k \in DOMAIN call.term : s[k] = k BY <3>2
      <4> HIDE DEF s
      <4> QED BY <3>2, <4>1, FunctionSeq
    <3>4. Wanting \in SUBSET (DOMAIN call.term) BY DEF Wanting
    <3> HIDE DEF s
    <3>5. /\ Cardinality(Wanting) \in Nat /\ DOMAIN ks = 1..Cardinality(Wanting)
          /\ \A j \in DOMAIN ks : ks[j] \in Wanting
      BY SMTT(30), <3>3, <3>4, PickFacts
    <3> HIDE DEF ks
    <3>6. ASSUME NEW k \in Wanting PROVE k \in Nat /\ paramVar[NextParam(call.term[k])] \in Var
      <4>1. k \in DOMAIN call.term /\ Len(call.term[k].args) < Len(params[call.term[k].block])
        BY DEF Wanting
      <4>2. call.term[k].block \in Block /\ call.term[k].args \in Seq(Value) BY <4>1, EdgeFacts DEF Edge
      <4>3. params[call.term[k].block] \in Seq(Value) BY <4>2, EdgeFacts
      <4>4. Len(call.term[k].args) \in Nat BY <4>2, LenProperties
      <4>5. Len(params[call.term[k].block]) \in Nat
            /\ DOMAIN params[call.term[k].block] = 1..Len(params[call.term[k].block])
        BY <4>3, LenProperties
      <4>6. Len(call.term[k].args) + 1 \in DOMAIN params[call.term[k].block] BY <4>1, <4>4, <4>5
      <4> QED BY <4>1, <4>2, <4>6, <3>2 DEF Base, Named
    <3> HIDE DEF NextParam
    <3>7. want \in [1..Cardinality(Wanting) -> [edge : Nat, var : Var]] BY <3>5, <3>6
    <3> HIDE DEF want
    <3>8. want \in Seq([edge : Nat, var : Var]) BY <3>5, <3>7, FunctionSeq
    <3>9. call \in CallType BY DEF Base, TypeOK, JobOK, CallOK, CallType
    <3>10. call' \in CallType /\ call'.start = call.start BY <3>1, <3>8, <3>9 DEF CallType
    <3>11. pending' = pending BY DEF NewTermWant, ssa
    <3> QED BY <3>10, <3>11, JobSeqs DEF CallOK, CallType
  <2>3. rd' \in [var : Var \cup {NONE}, at : Block, chain : SUBSET Block,
                for : {"none", "use", "complete", "newterm"}]
    BY SMTT(30) DEF NewTermWant, Base, TypeOK, JobOK, job
  <2>4. cursor' \in [block : Block, i : Nat]
    BY SMTT(30) DEF NewTermWant, Base, TypeOK, JobOK, job
  <2>5. todo' \in Seq(Value)
    BY SMTT(30) DEF NewTermWant, Base, TypeOK, JobOK, job
  <2>6. ElimOK'
    BY DEF NewTermWant, Base, TypeOK, JobOK, ElimOK, job
  <2>7. CallShape'
    BY DEF NewTermWant, Base, TypeOK, JobOK, CallOK, CallShape, NoCall, func, ssa, job
  <2> QED BY <2>1, <2>2, <2>3, <2>4, <2>5, <2>6, <2>7 DEF JobOK
<1> QED BY <1>1, <1>2, <1>3 DEF Base, TypeOK

LEMMA BaseNewTermRead ==
  ASSUME Base, program' = program, NewTermRead
  PROVE  Base'
<1>1. FuncOK' /\ Forwarding(alias') /\ Named'
  BY DEF NewTermRead, Base, TypeOK, FuncOK, SsaOK, Named, func, ssa
<1>2. SsaOK' /\ incoming' \in [Var \X Block -> Value \cup {NONE}] /\ failed' \in BOOLEAN
  BY DEF NewTermRead, Base, TypeOK, SsaOK, ssa, hist
<1>3. JobOK' /\ CallShape'
  <2>1. pc' \in {"idle", "read", "drain", "complete", "newterm", "forward", "eliminate"}
    BY DEF NewTermRead, Base, TypeOK, JobOK, job
  <2>2. CallOK'
    BY DEF NewTermRead, Base, TypeOK, JobOK, CallOK, SsaOK, NoCall, ssa, job
  <2>0. call.want[Len(call.got) + 1].var \in Var /\ rd' = Read(call.want[Len(call.got) + 1].var, call.block, "newterm")
    <3>1. /\ rd' = Read(call.want[Len(call.got) + 1].var, call.block, "newterm")
          /\ Len(call.got) < Len(call.want) BY DEF NewTermRead
    <3>2. Len(call.got) \in Nat /\ Len(call.want) \in Nat /\ DOMAIN call.want = 1..Len(call.want)
      BY JobSeqs, LenProperties
    <3>3. Len(call.got) + 1 \in DOMAIN call.want BY <3>1, <3>2
    <3>4. call.want[Len(call.got) + 1] \in [edge : Nat, var : Var]
      BY <3>2, <3>3, JobSeqs, ElementOfSeq
    <3> QED BY <3>1, <3>4
  <2>3. rd' \in [var : Var \cup {NONE}, at : Block, chain : SUBSET Block,
                for : {"none", "use", "complete", "newterm"}]
    BY <2>0, JobSeqs DEF Read
  <2>4. cursor' \in [block : Block, i : Nat]
    BY DEF NewTermRead, Base, TypeOK, JobOK, job
  <2>5. todo' \in Seq(Value)
    BY DEF NewTermRead, Base, TypeOK, JobOK, job
  <2>6. ElimOK'
    BY DEF NewTermRead, Base, TypeOK, JobOK, ElimOK, job
  <2>7. CallShape'
    BY <2>0 DEF NewTermRead, Read, Base, CallShape, func, ssa
  <2> QED BY <2>1, <2>2, <2>3, <2>4, <2>5, <2>6, <2>7 DEF JobOK
<1> QED BY <1>1, <1>2, <1>3 DEF Base, TypeOK

LEMMA BaseNewTermPush ==
  ASSUME Base, program' = program, NewTermPush
  PROVE  Base'
<1>1. FuncOK' /\ Forwarding(alias') /\ Named'
  BY DEF NewTermPush, Base, TypeOK, FuncOK, SsaOK, Named, func, ssa
<1>2. SsaOK' /\ incoming' \in [Var \X Block -> Value \cup {NONE}] /\ failed' \in BOOLEAN
  BY DEF NewTermPush, Base, TypeOK, SsaOK, ssa, hist
<1>3. JobOK' /\ CallShape'
  <2>1. pc' \in {"idle", "read", "drain", "complete", "newterm", "forward", "eliminate"}
    BY DEF NewTermPush, Base, TypeOK, JobOK, job
  <2>2. CallOK'
    <3> DEFINE At(k) == {j \in DOMAIN call.want : call.want[j].edge = k}
               Pushed(k) == IF At(k) = {} THEN call.term[k]
                 ELSE [call.term[k] EXCEPT !.args = Append(call.term[k].args, call.got[CHOOSE j \in At(k) : TRUE])]
               new == [k \in DOMAIN call.term |-> Pushed(k)]
    <3>1. call' = [call EXCEPT !.want = <<>>, !.got = <<>>, !.term = new] /\ Len(call.got) = Len(call.want)
      BY DEF NewTermPush
    <3>2. ASSUME NEW k \in DOMAIN call.term PROVE Pushed(k) \in Edge
      <4>1. call.term[k] \in Edge BY EdgeFacts
      <4>2. CASE At(k) # {}
        <5>1. PICK j \in At(k) : j = CHOOSE i \in At(k) : TRUE BY <4>2
        <5>2. DOMAIN call.want = DOMAIN call.got BY <3>1, JobSeqs, LenProperties
        <5>3. j \in DOMAIN call.got BY <5>1, <5>2
        <5>4. call.got[j] \in Value BY <5>3, JobSeqs, LenProperties, ElementOfSeq
        <5>5. call.term[k].args \in Seq(Value) BY <4>1 DEF Edge
        <5>6. Append(call.term[k].args, call.got[j]) \in Seq(Value) BY <5>4, <5>5, AppendProperties
        <5>7. [call.term[k] EXCEPT !.args = Append(call.term[k].args, call.got[j])] \in Edge
          BY <5>6, <4>1 DEF Edge
        <5>8. Pushed(k) = [call.term[k] EXCEPT !.args = Append(call.term[k].args, call.got[j])]
          BY <4>2, <5>1
        <5> QED BY <5>7, <5>8
      <4> QED BY <4>1, <4>2
    <3>3. new \in Seq(Edge)
      <4>1. Len(call.term) \in Nat /\ DOMAIN call.term = 1..Len(call.term) BY JobSeqs, LenProperties
      <4> HIDE DEF Pushed
      <4>2. new \in [1..Len(call.term) -> Edge] BY <3>2, <4>1
      <4> HIDE DEF new
      <4> QED BY <4>1, <4>2, FunctionSeq
    <3> HIDE DEF new
    <3>4. call \in CallType BY DEF Base, TypeOK, JobOK, CallOK, CallType
    <3>5. call' \in CallType /\ call'.start = call.start BY <3>1, <3>3, <3>4, JobSeqs DEF CallType
    <3>6. pending' = pending BY DEF NewTermPush, ssa
    <3> QED BY <3>5, <3>6, JobSeqs DEF CallOK, CallType
  <2>3. rd' \in [var : Var \cup {NONE}, at : Block, chain : SUBSET Block,
                for : {"none", "use", "complete", "newterm"}]
    BY DEF NewTermPush, Base, TypeOK, JobOK, job
  <2>4. cursor' \in [block : Block, i : Nat]
    BY DEF NewTermPush, Base, TypeOK, JobOK, job
  <2>5. todo' \in Seq(Value)
    BY DEF NewTermPush, Base, TypeOK, JobOK, job
  <2>6. ElimOK'
    BY DEF NewTermPush, Base, TypeOK, JobOK, ElimOK, job
  <2>7. CallShape'
    BY DEF NewTermPush, Base, TypeOK, JobOK, CallOK, CallShape, NoCall, func, ssa, job
  <2> QED BY <2>1, <2>2, <2>3, <2>4, <2>5, <2>6, <2>7 DEF JobOK
<1> QED BY <1>1, <1>2, <1>3 DEF Base, TypeOK

LEMMA BaseNewTermInstall ==
  ASSUME Base, program' = program, NewTermInstall
  PROVE  Base'
<1>1. FuncOK' /\ Forwarding(alias') /\ Named'
  <2>1. term \in [Block -> Seq(Edge)] /\ terminated \subseteq live BY DEF Base, TypeOK, FuncOK
  <2>2. call.block \in live BY DEF NewTermInstall, Base, CallShape
  <2>3. term' \in [Block -> Seq(Edge)] BY <2>1, JobSeqs DEF NewTermInstall
  <2>4. terminated' \subseteq live BY <2>1, <2>2 DEF NewTermInstall
  <2> QED BY <2>3, <2>4 DEF NewTermInstall, Base, TypeOK, FuncOK, Named
<1>2. SsaOK' /\ incoming' \in [Var \X Block -> Value \cup {NONE}] /\ failed' \in BOOLEAN
  <2>1. ASSUME NEW d \in Block PROVE preds[d] \in Seq(Block) /\ Append(preds[d], call.block) \in Seq(Block)
    <3>1. preds[d] \in Seq(Block) BY EdgeFacts
    <3> QED BY <3>1, JobSeqs, AppendProperties
  <2>2. preds' \in [Block -> Seq(Block)] BY <2>1 DEF NewTermInstall
  <2> QED BY <2>2 DEF NewTermInstall, Base, TypeOK, SsaOK, hist
<1>3. JobOK' /\ CallShape'
  BY ReturnFacts DEF NewTermInstall, ssa
<1> QED BY <1>1, <1>2, <1>3 DEF Base, TypeOK

LEMMA BaseNewTermRefuse ==
  ASSUME Base, program' = program, NewTermRefuse
  PROVE  Base'
<1>1. FuncOK' /\ Forwarding(alias') /\ Named'
  BY DEF NewTermRefuse, Base, TypeOK, FuncOK, SsaOK, Named, func, ssa
<1>2. SsaOK' /\ incoming' \in [Var \X Block -> Value \cup {NONE}] /\ failed' \in BOOLEAN
  BY DEF NewTermRefuse, Base, TypeOK, SsaOK, ssa, hist
<1>3. JobOK' /\ CallShape'
  BY ReturnFacts DEF NewTermRefuse, ssa
<1> QED BY <1>1, <1>2, <1>3 DEF Base, TypeOK

LEMMA BaseForwardParam ==
  ASSUME Base, program' = program, ForwardParam
  PROVE  Base'
<1>1. FuncOK' /\ Forwarding(alias') /\ Named'
  <2> DEFINE p == Head(todo)
  <2>1. PICK v \in Value : CanForward(p, v) /\ alias' = [alias EXCEPT ![p] = v] BY DEF ForwardParam
  <2>2. PICK s \in Sites(p) : TrivialAs(p, s[1], s[2], v) BY <2>1 DEF CanForward
  <2>3. p \in Value /\ s[1] \in Block
    <3> HIDE DEF p
    <3> QED BY SiteFacts
  <2>4. v \in Operands(s[1], s[2]) /\ v # NONE /\ v # p BY <2>2 DEF TrivialAs
  <2>5. alias[v] = NONE BY <2>3, <2>4, OperandEnds
  <2> HIDE DEF p
  <2>6. Forwarding(alias') BY <2>1, <2>3, <2>4, <2>5, Redirected DEF Base
  <2>7. alias' \in [Value -> Value \cup {NONE}] BY <2>6 DEF Forwarding
  <2> QED BY <2>6, <2>7 DEF ForwardParam, Base, TypeOK, FuncOK, Named, ssa
<1>2. SsaOK' /\ incoming' \in [Var \X Block -> Value \cup {NONE}] /\ failed' \in BOOLEAN
  BY DEF ForwardParam, Base, TypeOK, SsaOK, ssa, hist
<1>3. JobOK' /\ CallShape'
  <2>1. pc' \in {"idle", "read", "drain", "complete", "newterm", "forward", "eliminate"}
    BY DEF ForwardParam, Base, TypeOK, JobOK, job
  <2>2. CallOK'
    BY DEF ForwardParam, Base, TypeOK, JobOK, CallOK, SsaOK, NoCall, ssa, job
  <2>3. rd' \in [var : Var \cup {NONE}, at : Block, chain : SUBSET Block,
                for : {"none", "use", "complete", "newterm"}]
    BY DEF ForwardParam, Base, TypeOK, JobOK, job
  <2>4. cursor' \in [block : Block, i : Nat]
    BY DEF ForwardParam, Base, TypeOK, JobOK, job
  <2>5. todo' \in Seq(Value)
    BY DEF ForwardParam, Base, TypeOK, JobOK, job
  <2>6. ElimOK'
    BY DEF ForwardParam, Base, TypeOK, JobOK, ElimOK, job
  <2>7. CallShape'
    BY DEF ForwardParam, Base, TypeOK, JobOK, CallOK, CallShape, NoCall, func, ssa, job
  <2> QED BY <2>1, <2>2, <2>3, <2>4, <2>5, <2>6, <2>7 DEF JobOK
<1> QED BY <1>1, <1>2, <1>3 DEF Base, TypeOK

LEMMA BaseForwardSkip ==
  ASSUME Base, program' = program, ForwardSkip
  PROVE  Base'
<1>1. FuncOK' /\ Forwarding(alias') /\ Named'
  BY DEF ForwardSkip, Base, TypeOK, FuncOK, SsaOK, Named, func, ssa
<1>2. SsaOK' /\ incoming' \in [Var \X Block -> Value \cup {NONE}] /\ failed' \in BOOLEAN
  BY DEF ForwardSkip, Base, TypeOK, SsaOK, ssa, hist
<1>3. JobOK' /\ CallShape'
  <2>1. pc' \in {"idle", "read", "drain", "complete", "newterm", "forward", "eliminate"}
    BY DEF ForwardSkip, Base, TypeOK, JobOK, job
  <2>2. CallOK'
    BY DEF ForwardSkip, Base, TypeOK, JobOK, CallOK, SsaOK, NoCall, ssa, job
  <2>3. rd' \in [var : Var \cup {NONE}, at : Block, chain : SUBSET Block,
                for : {"none", "use", "complete", "newterm"}]
    BY DEF ForwardSkip, Base, TypeOK, JobOK, job
  <2>4. cursor' \in [block : Block, i : Nat]
    BY DEF ForwardSkip, Base, TypeOK, JobOK, job
  <2>5. todo' \in Seq(Value)
    BY DEF ForwardSkip, Base, TypeOK, JobOK, job
  <2>6. ElimOK'
    BY DEF ForwardSkip, Base, TypeOK, JobOK, ElimOK, job
  <2>7. CallShape'
    BY DEF ForwardSkip, Base, TypeOK, JobOK, CallOK, CallShape, NoCall, func, ssa, job
  <2> QED BY <2>1, <2>2, <2>3, <2>4, <2>5, <2>6, <2>7 DEF JobOK
<1> QED BY <1>1, <1>2, <1>3 DEF Base, TypeOK

LEMMA BaseForwardDone ==
  ASSUME Base, program' = program, ForwardDone
  PROVE  Base'
<1>1. FuncOK' /\ Forwarding(alias') /\ Named'
  BY DEF ForwardDone, Base, TypeOK, FuncOK, SsaOK, Named, func, ssa
<1>2. SsaOK' /\ incoming' \in [Var \X Block -> Value \cup {NONE}] /\ failed' \in BOOLEAN
  BY DEF ForwardDone, Base, TypeOK, SsaOK, ssa, hist
<1>3. JobOK' /\ CallShape'
  BY ReturnFacts DEF ForwardDone, ssa
<1> QED BY <1>1, <1>2, <1>3 DEF Base, TypeOK

LEMMA BaseDrainedSealAll ==
  ASSUME Base, program' = program, DrainedSealAll
  PROVE  Base'
<1>1. FuncOK' /\ Forwarding(alias') /\ Named'
  BY DEF DrainedSealAll, Base, TypeOK, FuncOK, SsaOK, Named, func, ssa
<1>2. SsaOK' /\ incoming' \in [Var \X Block -> Value \cup {NONE}] /\ failed' \in BOOLEAN
  BY DEF DrainedSealAll, Base, TypeOK, SsaOK, ssa, hist
<1>3. JobOK' /\ CallShape'
  <2>1. pc' \in {"idle", "read", "drain", "complete", "newterm", "forward", "eliminate"}
    BY DEF DrainedSealAll, Base, TypeOK, JobOK, job
  <2>2. CallOK'
    <3>1. call' = call /\ call.start = 0 /\ pending' = <<>> BY DEF DrainedSealAll, Base, CallShape
    <3>2. Len(pending') \in Nat BY <3>1, JobSeqs, LenProperties
    <3> QED BY <3>1, <3>2 DEF CallOK, Base, TypeOK, JobOK
  <2>3. rd' \in [var : Var \cup {NONE}, at : Block, chain : SUBSET Block,
                for : {"none", "use", "complete", "newterm"}]
    BY DEF DrainedSealAll, Base, TypeOK, JobOK, job
  <2>4. cursor' \in [block : Block, i : Nat]
    BY DEF DrainedSealAll, Base, TypeOK, JobOK, job
  <2>5. todo' \in Seq(Value)
    BY DEF DrainedSealAll, Base, TypeOK, JobOK, job
  <2>6. ElimOK'
    <3>1. Range(pending) \subseteq Value
      <4>1. ASSUME NEW i \in DOMAIN pending PROVE pending[i] \in Value
        BY JobSeqs, LenProperties, ElementOfSeq
      <4> QED BY <4>1 DEF Range
    <3>2. /\ elim'.work = Range(pending) /\ elim'.removed = {} /\ DOMAIN elim'.users = Range(pending)
          /\ elim' = [work |-> elim'.work, users |-> elim'.users, removed |-> elim'.removed]
          /\ \A q \in Range(pending) : elim'.users[q] \subseteq Range(pending)
          /\ elim'.users = [q \in DOMAIN elim'.users |-> elim'.users[q]]
      BY DEF DrainedSealAll
    <3>3. elim'.users \in [DOMAIN elim'.users -> SUBSET DOMAIN elim'.users]
      BY <3>2
    <3> QED BY <3>1, <3>2, <3>3 DEF ElimOK
  <2>7. CallShape'
    BY DEF DrainedSealAll, Base, TypeOK, JobOK, CallOK, CallShape, NoCall, func, ssa, job
  <2> QED BY <2>1, <2>2, <2>3, <2>4, <2>5, <2>6, <2>7 DEF JobOK
<1> QED BY <1>1, <1>2, <1>3 DEF Base, TypeOK

LEMMA BaseDrainedSealAllNone ==
  ASSUME Base, program' = program, DrainedSealAllNone
  PROVE  Base'
<1>1. FuncOK' /\ Forwarding(alias') /\ Named'
  BY DEF DrainedSealAllNone, Base, TypeOK, FuncOK, SsaOK, Named, func, ssa
<1>2. SsaOK' /\ incoming' \in [Var \X Block -> Value \cup {NONE}] /\ failed' \in BOOLEAN
  BY DEF DrainedSealAllNone, Base, TypeOK, SsaOK, ssa, hist
<1>3. JobOK' /\ CallShape'
  BY ReturnFacts DEF DrainedSealAllNone, ssa
<1> QED BY <1>1, <1>2, <1>3 DEF Base, TypeOK

LEMMA BaseElimSkip ==
  ASSUME Base, program' = program, NEW p \in Value, ElimSkip(p)
  PROVE  Base'
<1>1. FuncOK' /\ Forwarding(alias') /\ Named'
  BY DEF ElimSkip, Base, TypeOK, FuncOK, SsaOK, Named, func, ssa
<1>2. SsaOK' /\ incoming' \in [Var \X Block -> Value \cup {NONE}] /\ failed' \in BOOLEAN
  BY DEF ElimSkip, Base, TypeOK, SsaOK, ssa, hist
<1>3. JobOK' /\ CallShape'
  <2>1. pc' \in {"idle", "read", "drain", "complete", "newterm", "forward", "eliminate"}
    BY DEF ElimSkip, Base, TypeOK, JobOK, job
  <2>2. CallOK'
    BY DEF ElimSkip, Base, TypeOK, JobOK, CallOK, SsaOK, NoCall, ssa, job
  <2>3. rd' \in [var : Var \cup {NONE}, at : Block, chain : SUBSET Block,
                for : {"none", "use", "complete", "newterm"}]
    BY DEF ElimSkip, Base, TypeOK, JobOK, job
  <2>4. cursor' \in [block : Block, i : Nat]
    BY DEF ElimSkip, Base, TypeOK, JobOK, job
  <2>5. todo' \in Seq(Value)
    BY DEF ElimSkip, Base, TypeOK, JobOK, job
  <2>6. ElimOK'
    BY DEF ElimSkip, Base, TypeOK, JobOK, ElimOK, job
  <2>7. CallShape'
    BY DEF ElimSkip, Base, TypeOK, JobOK, CallOK, CallShape, NoCall, func, ssa, job
  <2> QED BY <2>1, <2>2, <2>3, <2>4, <2>5, <2>6, <2>7 DEF JobOK
<1> QED BY <1>1, <1>2, <1>3 DEF Base, TypeOK

LEMMA BaseElimForward ==
  ASSUME Base, program' = program, NEW p \in Value, NEW v \in Value, ElimForward(p, v)
  PROVE  Base'
<1>1. FuncOK' /\ Forwarding(alias') /\ Named'
  <2>1. alias' = [alias EXCEPT ![p] = v] BY DEF ElimForward
  <2>2. PICK s \in Sites(p) : TrivialAs(p, s[1], s[2], v) BY DEF ElimForward, IsTrivial
  <2>3. s[1] \in Block BY SiteFacts
  <2>4. v \in Operands(s[1], s[2]) /\ v # NONE /\ v # p BY <2>2 DEF TrivialAs
  <2>5. alias[v] = NONE BY <2>3, <2>4, OperandEnds
  <2>6. Forwarding(alias') BY <2>1, <2>4, <2>5, Redirected DEF Base
  <2>7. alias' \in [Value -> Value \cup {NONE}] BY <2>6 DEF Forwarding
  <2> QED BY <2>6, <2>7 DEF ElimForward, Base, TypeOK, FuncOK, Named, ssa
<1>2. SsaOK' /\ incoming' \in [Var \X Block -> Value \cup {NONE}] /\ failed' \in BOOLEAN
  BY DEF ElimForward, Base, TypeOK, SsaOK, ssa, hist
<1>3. JobOK' /\ CallShape'
  <2>1. pc' \in {"idle", "read", "drain", "complete", "newterm", "forward", "eliminate"}
    BY DEF ElimForward, Base, TypeOK, JobOK, job
  <2>2. CallOK'
    BY DEF ElimForward, Base, TypeOK, JobOK, CallOK, SsaOK, NoCall, ssa, job
  <2>3. rd' \in [var : Var \cup {NONE}, at : Block, chain : SUBSET Block,
                for : {"none", "use", "complete", "newterm"}]
    BY DEF ElimForward, Base, TypeOK, JobOK, job
  <2>4. cursor' \in [block : Block, i : Nat]
    BY DEF ElimForward, Base, TypeOK, JobOK, job
  <2>5. todo' \in Seq(Value)
    BY DEF ElimForward, Base, TypeOK, JobOK, job
  <2>6. ElimOK'
    <3>1. ElimOK /\ p \in elim.work BY DEF Base, TypeOK, JobOK, ElimForward
    <3>2. p \in DOMAIN elim.users /\ elim.users[p] \in SUBSET DOMAIN elim.users BY <3>1 DEF ElimOK
    <3>3. /\ elim'.work = Requeue(p) /\ elim'.removed = elim.removed \cup {p}
          /\ DOMAIN elim'.users = DOMAIN elim.users
          /\ \A q \in DOMAIN elim.users :
                elim'.users[q] \in {{}, elim.users[q], elim.users[q] \cup elim.users[p]}
          /\ elim' = [work |-> elim'.work, users |-> elim'.users, removed |-> elim'.removed]
          /\ elim'.users = [q \in DOMAIN elim'.users |-> elim'.users[q]]
      BY DEF ElimForward
    <3>4. \A q \in DOMAIN elim.users : elim'.users[q] \in SUBSET DOMAIN elim.users
      BY <3>1, <3>2, <3>3 DEF ElimOK
    <3>5. elim'.users \in [DOMAIN elim'.users -> SUBSET DOMAIN elim'.users]
      BY <3>3, <3>4
    <3>6. Requeue(p) \subseteq DOMAIN elim.users BY <3>1, <3>2 DEF ElimOK, Requeue
    <3> QED BY <3>1, <3>2, <3>3, <3>5, <3>6 DEF ElimOK
  <2>7. CallShape'
    BY DEF ElimForward, Base, TypeOK, JobOK, CallOK, CallShape, NoCall, func, ssa, job
  <2> QED BY <2>1, <2>2, <2>3, <2>4, <2>5, <2>6, <2>7 DEF JobOK
<1> QED BY <1>1, <1>2, <1>3 DEF Base, TypeOK

LEMMA BaseElimRemove ==
  ASSUME Base, program' = program, ElimRemove
  PROVE  Base'
<1>1. FuncOK' /\ Forwarding(alias') /\ Named'
  <2>1. ASSUME NEW b \in Block
        PROVE /\ Pick(params[b], Kept(b)) \in Seq(Value)
              /\ \A j \in DOMAIN Pick(params[b], Kept(b)) :
                    paramVar[Pick(params[b], Kept(b))[j]] \in Var
    <3>1. params[b] \in Seq(Value) BY EdgeFacts
    <3>2. Kept(b) \in SUBSET (DOMAIN params[b]) BY DEF Kept
    <3>3. /\ Pick(params[b], Kept(b)) \in Seq(Value)
          /\ DOMAIN Pick(params[b], Kept(b)) = 1..Cardinality(Kept(b))
          /\ \A j \in 1..Cardinality(Kept(b)) : Nth(Kept(b), j) \in Kept(b)
                 /\ Pick(params[b], Kept(b))[j] = params[b][Nth(Kept(b), j)]
      BY <3>1, <3>2, PickFacts
    <3> QED BY <3>2, <3>3 DEF Base, Named
  <2>2. params' \in [Block -> Seq(Value)] BY <2>1 DEF ElimRemove
  <2>3. Named'
    <3>1. \A b \in Block : params'[b] = Pick(params[b], Kept(b)) BY DEF ElimRemove
    <3>2. paramVar' = paramVar BY DEF ElimRemove, ssa
    <3> QED BY <2>1, <3>1, <3>2 DEF Named
  <2>4. term' \in [Block -> Seq(Edge)]
    <3>1. ASSUME NEW p \in Block
          PROVE [k \in DOMAIN term[p] |-> WithoutRemoved(p, term[p][k])] \in Seq(Edge)
      <4>1. Len(term[p]) \in Nat /\ DOMAIN term[p] = 1..Len(term[p]) BY EdgeFacts, LenProperties
      <4>2. ASSUME NEW k \in DOMAIN term[p] PROVE WithoutRemoved(p, term[p][k]) \in Edge
        BY EdgeFacts, WithoutRemovedFacts
      <4>3. [k \in DOMAIN term[p] |-> WithoutRemoved(p, term[p][k])] \in [1..Len(term[p]) -> Edge]
        BY <4>1, <4>2
      <4> QED BY <4>1, <4>3, FunctionSeq
    <3> QED BY <3>1 DEF ElimRemove
  <2>5. alias' = alias BY DEF ElimRemove, AliasesKept
  <2> QED BY <2>2, <2>3, <2>4, <2>5 DEF ElimRemove, Base, TypeOK, FuncOK
<1>2. SsaOK' /\ incoming' \in [Var \X Block -> Value \cup {NONE}] /\ failed' \in BOOLEAN
  BY DEF ElimRemove, Base, TypeOK, SsaOK, ssa, hist
<1>3. JobOK' /\ CallShape'
  BY ReturnFacts DEF ElimRemove, ssa
<1> QED BY <1>1, <1>2, <1>3 DEF Base, TypeOK

LEMMA BaseElimNone ==
  ASSUME Base, program' = program, ElimNone
  PROVE  Base'
<1>1. FuncOK' /\ Forwarding(alias') /\ Named'
  BY DEF ElimNone, Base, TypeOK, FuncOK, SsaOK, Named, func, ssa
<1>2. SsaOK' /\ incoming' \in [Var \X Block -> Value \cup {NONE}] /\ failed' \in BOOLEAN
  BY DEF ElimNone, Base, TypeOK, SsaOK, ssa, hist
<1>3. JobOK' /\ CallShape'
  BY ReturnFacts DEF ElimNone, ssa
<1> QED BY <1>1, <1>2, <1>3 DEF Base, TypeOK

------------------------------------------------------------------------------
(***************************************************************************)
(* A step is one of these.                                                 *)
(***************************************************************************)
Call ==
    \/ \E x \in Var, b \in Block : UseVar(x, b)
    \/ \E x \in Var, b \in Block, v \in Value : v \in Existing /\ DefVar(x, b, v)
    \/ \E b \in Block, dests \in Seq(Block) : SetTerminator(b, dests)
    \/ \E b \in Block : SealBlock(b) \/ RemoveTerminator(b) \/ RemoveBlock(b)
    \/ \E old \in Value, new \in Value :
          old \in Existing /\ new \in Existing /\ ReplaceAllUses(old, new)
    \/ SealAllBlocks
ReadStep == ReadHit \/ ReadNewParam \/ ReadZero \/ ReadThrough \/ ReadFails
DrainStep == DrainPop \/ CompleteRead \/ CompleteNext \/ DrainedUse \/ DrainedSeal \/ DrainedTerm
TermStep == NewTermWant \/ NewTermRead \/ NewTermPush \/ NewTermInstall \/ NewTermRefuse
ForwardStep == ForwardParam \/ ForwardSkip \/ ForwardDone
ElimStep ==
    \/ DrainedSealAll \/ DrainedSealAllNone
    \/ \E p \in Value : ElimSkip(p)
    \/ \E p \in Value, v \in Value : ElimForward(p, v)
    \/ ElimRemove \/ ElimNone

LEMMA Steps ==
  ASSUME Base, Next
  PROVE  program' = program /\ (Call \/ ReadStep \/ DrainStep \/ TermStep \/ ForwardStep \/ ElimStep)
<1> DEFINE D == DOMAIN program.shape
<1>1. /\ D \subseteq Block /\ \A b \in D : program.shape[b] \subseteq Seq(D)
      /\ program.assigns \subseteq Var \X D /\ program.uses \subseteq Var \X D
      /\ program.editable \subseteq D
  BY FrontEndAssumption DEF Base, TypeOK
<1>2. Existing \subseteq Value
  BY CountAssumption DEF Base, TypeOK, FuncOK, Existing, Value
<1>3. Seq(D) \subseteq Seq(Block)
  <2>1. ASSUME NEW s \in Seq(D) PROVE s \in Seq(Block)
    <3>1. Len(s) \in Nat /\ s \in [1..Len(s) -> D] BY LenProperties
    <3>2. s \in [1..Len(s) -> Block] BY <3>1, <1>1
    <3> QED BY <3>1, <3>2, SeqDef
  <2> QED BY <2>1
<1>4. elim.work \subseteq Value BY DEF Base, TypeOK, JobOK, ElimOK
<1>5. program' = program /\ (FrontEnd \/ Internal) BY DEF Next
<1>6. CASE FrontEnd
  <2> HIDE DEF D
  <2>1. \/ \E xb \in program.uses : UseVar(xb[1], xb[2])
        \/ \E xb \in program.assigns, v \in Existing : DefVar(xb[1], xb[2], v)
        \/ \E b \in D : \E dests \in program.shape[b] : SetTerminator(b, dests)
        \/ \E b \in D : SealBlock(b)
        \/ \E b \in program.editable : RemoveTerminator(b) \/ RemoveBlock(b)
        \/ \E old \in Existing, new \in Existing : ReplaceAllUses(old, new)
        \/ SealAllBlocks
    BY <1>6 DEF FrontEnd, D
  <2>2. CASE \E xb \in program.uses : UseVar(xb[1], xb[2])
    <3>1. PICK xb \in program.uses : UseVar(xb[1], xb[2]) BY <2>2
    <3>2. xb[1] \in Var /\ xb[2] \in Block BY <1>1
    <3> QED BY <1>5, <3>1, <3>2 DEF Call
  <2>3. CASE \E xb \in program.assigns, v \in Existing : DefVar(xb[1], xb[2], v)
    <3>1. PICK xb \in program.assigns, v \in Existing : DefVar(xb[1], xb[2], v) BY <2>3
    <3>2. xb[1] \in Var /\ xb[2] \in Block /\ v \in Value BY <1>1, <1>2
    <3> QED BY <1>5, <3>1, <3>2 DEF Call
  <2>4. CASE \E b \in D : \E dests \in program.shape[b] : SetTerminator(b, dests)
    BY <1>1, <1>3, <1>5, <2>4 DEF Call
  <2>5. CASE \E b \in D : SealBlock(b)
    BY <1>1, <1>5, <2>5 DEF Call
  <2>6. CASE \E b \in program.editable : RemoveTerminator(b) \/ RemoveBlock(b)
    BY <1>1, <1>5, <2>6 DEF Call
  <2>7. CASE \E old \in Existing, new \in Existing : ReplaceAllUses(old, new)
    BY <1>2, <1>5, <2>7 DEF Call
  <2>8. CASE SealAllBlocks BY <1>5, <2>8 DEF Call
  <2> QED BY <2>1, <2>2, <2>3, <2>4, <2>5, <2>6, <2>7, <2>8
<1>7. CASE Internal
  BY <1>4, <1>5, <1>7
     DEF Internal, ReadStep, DrainStep, TermStep, ForwardStep, ElimStep
<1> QED BY <1>5, <1>6, <1>7

LEMMA BaseStep ==
  ASSUME Base, Edges, Next
  PROVE  Base'
<1>1. program' = program /\ (Call \/ ReadStep \/ DrainStep \/ TermStep \/ ForwardStep \/ ElimStep)
  BY Steps
<1>2. CASE Call
  BY <1>1, <1>2, BaseUseVar, BaseDefVar, BaseSetTerminator, BaseSealBlock, BaseRemoveTerminator,
     BaseRemoveBlock, BaseReplaceAllUses, BaseSealAllBlocks DEF Call
<1>3. CASE ReadStep
  BY <1>1, <1>3, BaseReadHit, BaseReadNewParam, BaseReadZero, BaseReadThrough, BaseReadFails
     DEF ReadStep
<1>4. CASE DrainStep
  BY <1>1, <1>4, BaseDrainPop, BaseCompleteRead, BaseCompleteNext, BaseDrainedUse, BaseDrainedSeal,
     BaseDrainedTerm DEF DrainStep
<1>5. CASE TermStep
  BY <1>1, <1>5, BaseNewTermWant, BaseNewTermRead, BaseNewTermPush, BaseNewTermInstall,
     BaseNewTermRefuse DEF TermStep
<1>6. CASE ForwardStep
  BY <1>1, <1>6, BaseForwardParam, BaseForwardSkip, BaseForwardDone DEF ForwardStep
<1>7. CASE ElimStep
  BY <1>1, <1>7, BaseDrainedSealAll, BaseDrainedSealAllNone, BaseElimSkip, BaseElimForward,
     BaseElimRemove, BaseElimNone DEF ElimStep
<1> QED BY <1>1, <1>2, <1>3, <1>4, <1>5, <1>6, <1>7

------------------------------------------------------------------------------
(***************************************************************************)
(* The predecessor lists.                                                  *)
(***************************************************************************)

\* The edges go where they went.
SameTargets ==
    \A p \in Block : /\ DOMAIN term'[p] = DOMAIN term[p]
                     /\ \A k \in DOMAIN term[p] : term'[p][k].block = term[p][k].block

LEMMA SameTargetsEdges ==
  ASSUME Base, Base', Edges, SameTargets, UNCHANGED <<preds, terminated>>
  PROVE  Edges'
<1>1. \A p, b \in Block : EdgesInto(p, b)' = EdgesInto(p, b) BY DEF SameTargets, EdgesInto
<1>2. PredsCurrent' BY <1>1 DEF Edges, PredsCurrent
<1>3. ASSUME NEW b \in Block \ terminated PROVE term'[b] = <<>>
  <2>1. term[b] = <<>> BY <1>3 DEF Edges
  <2>2. DOMAIN term'[b] = {} BY <2>1 DEF SameTargets
  <2>3. term'[b] \in Seq(Edge) BY DEF Base, TypeOK, FuncOK
  <2>4. Len(term'[b]) \in Nat /\ DOMAIN term'[b] = 1..Len(term'[b]) BY <2>3, LenProperties
  <2>5. Len(term'[b]) = 0
    <3>1. ASSUME Len(term'[b]) > 0 PROVE FALSE
      <4>1. 1 \in DOMAIN term'[b] BY <3>1, <2>4
      <4> QED BY <4>1, <2>2
    <3> QED BY <3>1, <2>4
  <2> QED BY <2>3, <2>5, EmptySeq
<1> QED BY <1>2, <1>3 DEF Edges

\* Taking a terminator off takes its block out of every list.
LEMMA TermOffEdges ==
  ASSUME Base, Edges, NEW b \in Block, preds' = WithoutEdgesFrom(b),
         term' = [term EXCEPT ![b] = <<>>], terminated' = terminated \ {b}
  PROVE  Edges'
<1>0. /\ term \in [Block -> Seq(Edge)]
  BY DEF Base, TypeOK, FuncOK
<1>1. \A p \in Block : term'[p] = IF p = b THEN <<>> ELSE term[p] BY <1>0
<1>2. \A p, d \in Block : EdgesInto(p, d)' = IF p = b THEN {} ELSE EdgesInto(p, d)
  BY <1>1 DEF EdgesInto
<1>3. ASSUME NEW d \in Block
      PROVE /\ Range(preds'[d]) = Range(preds[d]) \ {b}
            /\ \A i, j \in DOMAIN preds'[d] : preds'[d][i] = preds'[d][j] => i = j
  <2>0. \A i, j \in DOMAIN preds[d] : preds[d][i] = preds[d][j] => i = j
    BY DEF Edges, PredsCurrent
  <2>1. CASE d \in Dests(term[b])
    <3> DEFINE K == {i \in DOMAIN preds[d] : preds[d][i] # b}
               s == Pick(preds[d], K)
    <3>1. preds'[d] = s BY <2>1 DEF WithoutEdgesFrom
    <3>2. preds[d] \in Seq(Block) /\ K \in SUBSET (DOMAIN preds[d]) BY EdgeFacts
    <3>3. /\ DOMAIN s = 1..Cardinality(K)
          /\ \A j \in 1..Cardinality(K) : Nth(K, j) \in K /\ s[j] = preds[d][Nth(K, j)]
          /\ \A i \in K : \E j \in 1..Cardinality(K) : Nth(K, j) = i
          /\ \A i, j \in 1..Cardinality(K) : Nth(K, i) = Nth(K, j) => i = j
      <4> HIDE DEF K
      <4> QED BY <3>2, PickFacts
    <3>4. ASSUME NEW v \in Range(preds[d]) \ {b} PROVE v \in Range(s)
      <4>1. PICK i \in DOMAIN preds[d] : preds[d][i] = v BY DEF Range
      <4>2. i \in K BY <4>1
      <4>3. PICK j \in 1..Cardinality(K) : Nth(K, j) = i BY <4>2, <3>3
      <4>4. j \in DOMAIN s /\ s[j] = v BY <4>1, <4>3, <3>3
      <4> HIDE DEF s
      <4> QED BY <4>4 DEF Range
    <3>5. ASSUME NEW v \in Range(s) PROVE v \in Range(preds[d]) \ {b}
      <4>1. PICK j \in DOMAIN s : s[j] = v BY DEF Range
      <4>2. Nth(K, j) \in K /\ v = preds[d][Nth(K, j)]
        <5> HIDE DEF K
        <5> QED BY <4>1, <3>3
      <4> QED BY <4>2 DEF Range
    <3>6. ASSUME NEW i \in DOMAIN s, NEW j \in DOMAIN s, s[i] = s[j] PROVE i = j
      <4>1. preds[d][Nth(K, i)] = preds[d][Nth(K, j)] /\ Nth(K, i) \in K /\ Nth(K, j) \in K
        <5> HIDE DEF K
        <5> QED BY <3>3, <3>6
      <4>2. Nth(K, i) = Nth(K, j) BY <4>1, <2>0
      <4> HIDE DEF K, s
      <4> QED BY <4>2, <3>3
    <3> HIDE DEF s
    <3> QED BY <3>1, <3>4, <3>5, <3>6
  <2>2. CASE d \notin Dests(term[b])
    <3>1. preds'[d] = preds[d] BY <2>2 DEF WithoutEdgesFrom
    <3>2. EdgesInto(b, d) = {} BY <2>2 DEF EdgesInto, Dests
    <3>3. b \notin Range(preds[d]) BY <3>2 DEF Edges, PredsCurrent
    <3> QED BY <2>0, <3>1, <3>3
  <2> QED BY <2>1, <2>2
<1>4. PredsCurrent'
  <2>1. ASSUME NEW d \in Block
        PROVE Range(preds'[d]) = {p \in Block : EdgesInto(p, d)' # {}}
    <3>1. Range(preds[d]) = {p \in Block : EdgesInto(p, d) # {}} BY DEF Edges, PredsCurrent
    <3>2. {p \in Block : EdgesInto(p, d)' # {}} = {p \in Block : EdgesInto(p, d) # {}} \ {b}
      <4>1. \A p \in Block : EdgesInto(p, d)' # {} <=> EdgesInto(p, d) # {} /\ p # b
        BY <1>2
      <4> QED BY <4>1
    <3> QED BY <3>1, <3>2, <1>3
  <2> QED BY <2>1, <1>3 DEF PredsCurrent
<1>5. \A d \in Block \ terminated' : term'[d] = <<>> BY <1>1 DEF Edges
<1> QED BY <1>4, <1>5 DEF Edges

\* A block whose terminator is installed had none, so it is new to every list.
LEMMA TermOnEdges ==
  ASSUME Base, Edges, NewTermInstall
  PROVE  Edges'
<1> SUFFICES ASSUME NEW b \in Block, b = call.block PROVE Edges'
  BY JobSeqs
<1>0. term \in [Block -> Seq(Edge)] /\ b \in Block /\ b \notin terminated
  BY JobSeqs DEF Base, TypeOK, FuncOK, CallShape, NewTermInstall
<1>a. term[b] = <<>> BY <1>0 DEF Edges
<1>b. /\ preds' = [d \in Block |-> IF d \in Dests(call.term) THEN Append(preds[d], b) ELSE preds[d]]
      /\ term' = [term EXCEPT ![b] = call.term] /\ terminated' = terminated \cup {b}
  BY DEF NewTermInstall
<1>1. \A p \in Block : term'[p] = IF p = b THEN call.term ELSE term[p] BY <1>0, <1>b
<1>2. \A p, d \in Block : p # b => EdgesInto(p, d)' = EdgesInto(p, d)
  BY <1>1 DEF EdgesInto
<1>3. \A d \in Block : EdgesInto(b, d) = {} /\ (EdgesInto(b, d)' # {} <=> d \in Dests(call.term))
  <2>1. DOMAIN term[b] = {} BY <1>a, EmptySeq, LenProperties
  <2>2. term'[b] = call.term BY <1>0, <1>1
  <2>3. ASSUME NEW d \in Block PROVE EdgesInto(b, d)' # {} <=> d \in Dests(call.term)
    <3>1. EdgesInto(b, d)' = {k \in DOMAIN call.term : call.term[k].block = d}
      BY <2>2 DEF EdgesInto
    <3> QED BY <3>1 DEF Dests
  <2> QED BY <2>1, <2>3 DEF EdgesInto
<1>4. ASSUME NEW d \in Block
      PROVE /\ Range(preds'[d]) = IF d \in Dests(call.term) THEN Range(preds[d]) \cup {b}
                                                            ELSE Range(preds[d])
            /\ \A i, j \in DOMAIN preds'[d] : preds'[d][i] = preds'[d][j] => i = j
  <2>0. /\ \A i, j \in DOMAIN preds[d] : preds[d][i] = preds[d][j] => i = j
        /\ b \notin Range(preds[d])
    BY <1>3 DEF Edges, PredsCurrent
  <2>1. CASE d \notin Dests(call.term) BY <2>0, <2>1, <1>b
  <2>2. CASE d \in Dests(call.term)
    <3> DEFINE s == preds[d]
               n == Len(s)
    <3>1. s \in Seq(Block) /\ n \in Nat /\ DOMAIN s = 1..n BY EdgeFacts, LenProperties
    <3>2. preds'[d] = Append(s, b) BY <2>2, <1>b
    <3> HIDE DEF s
    <3>3. /\ DOMAIN Append(s, b) = 1..(n + 1) /\ Append(s, b)[n + 1] = b
          /\ \A i \in 1..n : Append(s, b)[i] = s[i]
      BY <3>1, <1>0, AppendProperties, LenProperties
    <3> HIDE DEF n
    <3>4. \A i \in DOMAIN s : s[i] # b BY <2>0 DEF s, Range
    <3>5. Range(Append(s, b)) = Range(s) \cup {b}
      <4>1. ASSUME NEW v \in Range(Append(s, b)) PROVE v \in Range(s) \cup {b}
        <5>1. PICK i \in 1..(n + 1) : Append(s, b)[i] = v BY <3>3 DEF Range
        <5>2. i \in 1..n \/ i = n + 1 BY <3>1
        <5> QED BY <5>1, <5>2, <3>1, <3>3 DEF Range
      <4>2. ASSUME NEW v \in Range(s) PROVE v \in Range(Append(s, b))
        <5>1. PICK i \in 1..n : s[i] = v BY <3>1 DEF Range
        <5>2. i \in 1..(n + 1) /\ Append(s, b)[i] = v BY <5>1, <3>1, <3>3
        <5> QED BY <5>2, <3>3 DEF Range
      <4>3. b \in Range(Append(s, b))
        <5>1. n + 1 \in 1..(n + 1) BY <3>1
        <5> QED BY <5>1, <3>3 DEF Range
      <4> QED BY <4>1, <4>2, <4>3
    <3>6. \A i, j \in 1..(n + 1) : Append(s, b)[i] = Append(s, b)[j] => i = j
      <4>1. \A i \in 1..(n + 1) : i \in 1..n \/ i = n + 1 BY <3>1
      <4>2. \A i, j \in 1..n : s[i] = s[j] => i = j BY <2>0, <3>1 DEF s
      <4> QED BY <4>1, <4>2, <3>1, <3>3, <3>4
    <3> QED BY <2>2, <3>2, <3>3, <3>5, <3>6 DEF s
  <2> QED BY <2>1, <2>2
<1>5. PredsCurrent'
  <2>1. ASSUME NEW d \in Block
        PROVE Range(preds'[d]) = {p \in Block : EdgesInto(p, d)' # {}}
    <3>1. Range(preds[d]) = {p \in Block : EdgesInto(p, d) # {}} BY DEF Edges, PredsCurrent
    <3>2. \A p \in Block : EdgesInto(p, d)' # {} <=>
                             EdgesInto(p, d) # {} \/ (p = b /\ d \in Dests(call.term))
      <4>1. ASSUME NEW p \in Block, p # b
            PROVE EdgesInto(p, d)' # {} <=> EdgesInto(p, d) # {}
        <5>1. EdgesInto(p, d)' = EdgesInto(p, d) BY <4>1, <1>2
        <5> QED BY <5>1
      <4>2. EdgesInto(b, d)' # {} <=> d \in Dests(call.term) BY <1>3
      <4>3. EdgesInto(b, d) = {} BY <1>3
      <4> QED BY <4>1, <4>2, <4>3
    <3> QED BY <3>1, <3>2, <1>0, <1>4
  <2> QED BY <2>1, <1>4 DEF PredsCurrent
<1>6. \A d \in Block \ terminated' : term'[d] = <<>> BY <1>1, <1>b DEF Edges
<1> QED BY <1>5, <1>6 DEF Edges

LEMMA EdgesStep ==
  ASSUME Base, Base', Edges, Next
  PROVE  Edges'
<1>1. Call \/ ReadStep \/ DrainStep \/ TermStep \/ ForwardStep \/ ElimStep BY Steps
<1>a. ASSUME term' = term, UNCHANGED <<preds, terminated>> PROVE Edges'
  BY <1>a, SameTargetsEdges DEF SameTargets
<1>b. ASSUME NEW v \in Value, pc = "read", Deliver(v), UNCHANGED <<preds, terminated>> PROVE Edges'
  <2>1. SameTargets BY <1>b, DeliverFacts DEF SameTargets
  <2> QED BY <2>1, <1>b, SameTargetsEdges
<1>2. CASE Call
  <2>1. ASSUME NEW b \in Block, RemoveTerminator(b) PROVE Edges'
    BY <2>1, TermOffEdges DEF RemoveTerminator
  <2>2. ASSUME NEW b \in Block, RemoveBlock(b) PROVE Edges'
    BY <2>2, TermOffEdges DEF RemoveBlock
  <2>3. CASE \E x \in Var, b \in Block : UseVar(x, b)
    BY <2>3, <1>a DEF UseVar, func, ssa
  <2>4. CASE \E x \in Var, b \in Block, v \in Value : v \in Existing /\ DefVar(x, b, v)
    BY <2>4, <1>a DEF DefVar, func
  <2>5. CASE \E b \in Block, dests \in Seq(Block) : SetTerminator(b, dests)
    BY <2>5, <1>a DEF SetTerminator, func, ssa
  <2>6. CASE \E b \in Block : SealBlock(b) BY <2>6, <1>a DEF SealBlock, func
  <2>7. CASE \E old \in Value, new \in Value :
               old \in Existing /\ new \in Existing /\ ReplaceAllUses(old, new)
    BY <2>7, <1>a DEF ReplaceAllUses, ssa
  <2>8. CASE SealAllBlocks BY <2>8, <1>a DEF SealAllBlocks, func
  <2> QED BY <1>2, <2>1, <2>2, <2>3, <2>4, <2>5, <2>6, <2>7, <2>8 DEF Call
<1>3. CASE ReadStep
  <2>1. CASE ReadHit
    <3>1. Resolve(defs[<<rd.var, rd.at>>]) \in Value BY <2>1, HitFacts
    <3> QED BY <2>1, <3>1, <1>b DEF ReadHit
  <2>2. CASE ReadNewParam
    <3>1. nvals + 1 \in Value BY <2>2, NewParamFacts
    <3> QED BY <2>2, <3>1, <1>b DEF ReadNewParam
  <2>3. CASE ReadZero
    <3> DEFINE z == IF zero = NONE THEN nvals + 1 ELSE zero
    <3>1. z \in Value BY <2>3, ZeroFacts
    <3> QED BY <2>3, <3>1, <1>b DEF ReadZero
  <2>4. CASE ReadThrough BY <2>4, <1>a DEF ReadThrough, func, ssa
  <2>5. CASE ReadFails BY <2>5, <1>a DEF ReadFails, func, ssa
  <2> QED BY <1>3, <2>1, <2>2, <2>3, <2>4, <2>5 DEF ReadStep
<1>4. CASE DrainStep
  BY <1>4, <1>a
     DEF DrainStep, DrainPop, CompleteRead, CompleteNext, DrainedUse, DrainedSeal, DrainedTerm,
         func, ssa
<1>5. CASE TermStep
  BY <1>5, <1>a, TermOnEdges
     DEF TermStep, NewTermWant, NewTermRead, NewTermPush, NewTermRefuse, func, ssa
<1>6. CASE ForwardStep
  BY <1>6, <1>a DEF ForwardStep, ForwardParam, ForwardSkip, ForwardDone, func, ssa
<1>7. CASE ElimStep
  <2>1. CASE ElimRemove
    <3>1. \A p \in Block : term'[p] = [k \in DOMAIN term[p] |-> WithoutRemoved(p, term[p][k])]
      BY <2>1 DEF ElimRemove
    <3>2. \A p \in Block : \A k \in DOMAIN term[p] :
            WithoutRemoved(p, term[p][k]).block = term[p][k].block
      BY EdgeFacts, WithoutRemovedFacts
    <3>3. SameTargets BY <3>1, <3>2 DEF SameTargets
    <3> QED BY <3>3, <2>1, SameTargetsEdges DEF ElimRemove, ssa
  <2>2. CASE ~ElimRemove
    BY <1>7, <2>2, <1>a DEF ElimStep, DrainedSealAll, DrainedSealAllNone, ElimSkip, ElimForward,
                            ElimNone, func, ssa
  <2> QED BY <2>1, <2>2
<1> QED BY <1>1, <1>2, <1>3, <1>4, <1>5, <1>6, <1>7

Core == Base /\ Edges

LEMMA CoreInit == Init => Core
<1> SUFFICES ASSUME Init PROVE Core OBVIOUS
<1> USE DEF Init
<1>0. /\ <<>> \in Seq(Edge) /\ <<>> \in Seq(Value) /\ <<>> \in Seq(Block)
      /\ <<>> \in Seq([edge : Nat, var : Var]) /\ Len(<<>>) = 0 /\ DOMAIN <<>> = {}
  BY EmptySeq
<1>1. DOMAIN program.shape \subseteq Block BY FrontEndAssumption
<1>2. FuncOK BY <1>0, <1>1, CountAssumption DEF FuncOK
<1>3. SsaOK BY <1>0, EntityAssumption DEF SsaOK
<1>4. CallOK BY <1>0, EntityAssumption DEF CallOK, NoCall
<1>5. ElimOK BY DEF ElimOK, NoElim
<1>6. JobOK BY <1>0, <1>4, <1>5, EntityAssumption DEF JobOK, NoRead, NoCursor
<1>7. TypeOK BY <1>2, <1>3, <1>6 DEF TypeOK
<1>8. Forwarding(alias)
  <2>1. ASSUME NEW S \in (SUBSET Value) \ {{}} PROVE \E v \in S : alias[v] \notin S
    BY NoneIsNoValue
  <2> QED BY <2>1 DEF Forwarding
<1>9. Named BY <1>0 DEF Named
<1>10. CallShape BY DEF CallShape, NoCall
<1>11. Base BY <1>7, <1>8, <1>9, <1>10 DEF Base
<1>12. PredsCurrent BY <1>0 DEF PredsCurrent, EdgesInto, Range
<1> QED BY <1>11, <1>12 DEF Core, Edges

LEMMA CoreStep == Core /\ [Next]_vars => Core'
<1>1. ASSUME Core, Next PROVE Core' BY <1>1, BaseStep, EdgesStep DEF Core
<1>2. ASSUME Core, UNCHANGED vars PROVE Core'
  <2> USE <1>2 DEF vars, func, ssa, job, hist
  <2>1. Base'
    <3>1. TypeOK' BY SMTT(30) DEF Core, Base, TypeOK, FuncOK, SsaOK, JobOK, CallOK, ElimOK
    <3>2. Forwarding(alias') BY DEF Core, Base
    <3>3. Named' /\ CallShape' BY DEF Core, Base, Named, CallShape
    <3> QED BY <3>1, <3>2, <3>3 DEF Base
  <2>2. Edges' BY DEF Core, Edges, PredsCurrent, EdgesInto
  <2> QED BY <2>1, <2>2 DEF Core
<1> QED BY <1>1, <1>2

LEMMA CoreHolds == Spec => []Core
BY CoreInit, CoreStep, PTL DEF Spec

\* The variables keep their types, for every program and any number of blocks,
\* variables and values.
THEOREM TypesHold == Spec => []TypeOK
<1>1. Core => TypeOK BY DEF Core, Base
<1> QED BY <1>1, CoreHolds, PTL

\* Function::resolve always ends: whatever replace_all_uses, forward_trivial and
\* eliminate_trivial make forward, and in whatever order, no chain closes.
THEOREM ChainsEnd == Spec => []ForwardingAcyclic
<1>1. Core => ForwardingAcyclic
  <2>1. Core => Existing \subseteq Value
    BY CountAssumption DEF Core, Base, TypeOK, FuncOK, Existing, Value
  <2> QED BY <2>1 DEF Core, Base, Forwarding, ForwardingAcyclic
<1> QED BY <1>1, CoreHolds, PTL

\* The lists add_edges and remove_edges keep by hand are the predecessors of the
\* installed terminators, each once.
THEOREM PredecessorsCurrent == Spec => []PredsCurrent
<1>1. Core => PredsCurrent BY DEF Core, Edges
<1> QED BY <1>1, CoreHolds, PTL

------------------------------------------------------------------------------
(***************************************************************************)
(* Reading keeps assignments.                                              *)
(***************************************************************************)

\* The walk goes through blocks where the variable has no value.
Chain == pc = "read" => \A c \in rd.chain : defs[<<rd.var, c>>] = NONE

LEMMA ChainStep ==
  ASSUME Core, Chain, Next
  PROVE  Chain'
<1>1. Call \/ ReadStep \/ DrainStep \/ TermStep \/ ForwardStep \/ ElimStep BY Steps DEF Core
<1>2. CASE Call
  <2>1. ASSUME NEW x \in Var, NEW b \in Block, UseVar(x, b) PROVE Chain'
    BY <2>1 DEF UseVar, Chain
  <2>2. CASE ~\E x \in Var, b \in Block : UseVar(x, b)
    <3>1. pc' # "read"
      BY <1>2, <2>2 DEF Call, DefVar, SetTerminator, SealBlock, RemoveTerminator, RemoveBlock,
                        ReplaceAllUses, SealAllBlocks, job
    <3> QED BY <3>1 DEF Chain
  <2> QED BY <2>1, <2>2
<1>3. CASE ReadStep
  <2>1. CASE ReadThrough
    <3>1. rd' = [rd EXCEPT !.chain = rd.chain \cup {rd.at}, !.at = preds[rd.at][1]]
          /\ defs[<<rd.var, rd.at>>] = NONE /\ defs' = defs /\ pc = "read"
      BY <2>1 DEF ReadThrough, ssa
    <3>2. rd \in [var : Var \cup {NONE}, at : Block, chain : SUBSET Block,
                  for : {"none", "use", "complete", "newterm"}]
      BY DEF Core, Base, TypeOK, JobOK
    <3>3. rd'.chain = rd.chain \cup {rd.at} /\ rd'.var = rd.var BY <3>1, <3>2
    <3> QED BY <3>1, <3>3 DEF Chain
  <2>2. CASE ~ReadThrough
    BY <1>3, <2>2 DEF ReadStep, ReadHit, ReadNewParam, ReadZero, ReadFails, Deliver, Return, Chain
  <2> QED BY <2>1, <2>2
<1>4. CASE DrainStep
  BY <1>4 DEF DrainStep, DrainPop, CompleteRead, CompleteNext, DrainedUse, DrainedSeal, DrainedTerm,
              Chain, Read
<1>5. CASE TermStep
  <2>1. CASE NewTermRead BY <2>1 DEF NewTermRead, Read, Chain
  <2>2. CASE ~NewTermRead
    <3>1. pc' # "read"
      BY <1>5, <2>2 DEF TermStep, NewTermWant, NewTermPush, NewTermInstall, NewTermRefuse, Return
    <3> QED BY <3>1 DEF Chain
  <2> QED BY <2>1, <2>2
<1>6. CASE ForwardStep
  BY <1>6 DEF ForwardStep, ForwardParam, ForwardSkip, ForwardDone, Chain, Return
<1>7. CASE ElimStep
  BY <1>7 DEF ElimStep, DrainedSealAll, DrainedSealAllNone, ElimSkip, ElimForward, ElimRemove,
              ElimNone, Chain, Return
<1> QED BY <1>1, <1>2, <1>3, <1>4, <1>5, <1>6, <1>7

LEMMA ChainHolds == Spec => [](Core /\ Chain)
<1>1. Init => Core /\ Chain BY CoreInit DEF Init, Chain
<1>2. Core /\ Chain /\ [Next]_vars => (Core /\ Chain)'
  <2>1. Core /\ Chain /\ UNCHANGED vars => Chain' BY DEF Chain, vars, ssa, job
  <2> QED BY <2>1, CoreStep, ChainStep
<1> QED BY <1>1, <1>2, PTL DEF Spec

\* What a read records: the value it found where it stopped, in blocks that had none.
LEMMA ReadRecords ==
  ASSUME Core, Chain, ReadStep, NEW x \in Var, NEW b \in Block, defs[<<x, b>>] # NONE
  PROVE  \/ defs'[<<x, b>>] = defs[<<x, b>>]
         \/ /\ ReadHit /\ x = rd.var /\ b = rd.at
            /\ defs'[<<x, b>>] = Resolve(defs[<<x, b>>])
<1>1. CASE ReadHit
  BY <1>1 DEF ReadHit, Record, ReadBlocks, Chain
<1>2. CASE ReadNewParam
  BY <1>2 DEF ReadNewParam, Record, ReadBlocks, Chain
<1>3. CASE ReadZero
  BY <1>3 DEF ReadZero, Record, ReadBlocks, Chain
<1>4. CASE ReadThrough \/ ReadFails
  BY <1>4 DEF ReadThrough, ReadFails, ssa
<1> QED BY <1>1, <1>2, <1>3, <1>4 DEF ReadStep

\* Completing edges and reading variables never replaces an assignment: only def_var
\* changes what a variable with a value in a block stands for there.
THEOREM ReadsKeep == Spec => ReadsKeepAssignments
<1>1. ASSUME Core, Chain, [Next]_vars, pc # "idle",
             NEW x \in Var, NEW b \in Block, NEW v \in Existing, defs[<<x, b>>] = v
      PROVE  Resolve(v)' = Resolve(defs[<<x, b>>])'
  <2>0. v \in Value /\ v # NONE
    BY <1>1, CountAssumption, NoneIsNoValue DEF Core, Base, TypeOK, FuncOK, Existing, Value
  <2>1. CASE defs' = defs BY <2>1, <1>1
  <2>2. CASE ReadStep
    <3>1. CASE defs'[<<x, b>>] = v BY <3>1
    <3>2. CASE ReadHit /\ defs'[<<x, b>>] = Resolve(v)
      <4>1. alias' = alias BY <3>2 DEF ReadHit
      <4>2. Forwarding(alias) BY <1>1 DEF Core, Base
      <4>3. Resolve(Resolve(v)) = Resolve(v)
        <5>1. Resolve(v) \in Value /\ alias[Resolve(v)] = NONE BY <2>0, <4>2, ResolveFacts
        <5>2. Resolve(Resolve(v)) = Root(alias, Resolve(v)) BY <5>1, <4>2, ResolveFacts
        <5>3. Root(alias, Resolve(v)) = Resolve(v) BY <5>1, <4>2, RootDef
        <5> QED BY <5>2, <5>3
      <4>4. \A u : Resolve(u)' = Root(alias', u') BY DEF Resolve, Root
      <4>5. Resolve(v)' = Root(alias, v) /\ Resolve(defs[<<x, b>>])' = Root(alias, Resolve(v))
        BY <3>2, <4>1, <4>4
      <4>6. Root(alias, v) = Resolve(v) /\ Root(alias, Resolve(v)) = Resolve(Resolve(v))
        BY DEF Resolve, Root
      <4> QED BY <4>3, <4>5, <4>6
    <3> QED BY <1>1, <2>0, <2>2, <3>1, <3>2, ReadRecords
  <2>3. CASE Next /\ ~ReadStep
    <3>1. Call \/ DrainStep \/ TermStep \/ ForwardStep \/ ElimStep BY <1>1, <2>3, Steps DEF Core
    <3>2. ~Call
      BY <1>1 DEF Call, UseVar, DefVar, SetTerminator, SealBlock, RemoveTerminator, RemoveBlock,
                  ReplaceAllUses, SealAllBlocks
    <3>3. defs' = defs
      BY <3>1, <3>2
         DEF DrainStep, DrainPop, CompleteRead, CompleteNext, DrainedUse, DrainedSeal, DrainedTerm,
             TermStep, NewTermWant, NewTermRead, NewTermPush, NewTermInstall, NewTermRefuse,
             ForwardStep, ForwardParam, ForwardSkip, ForwardDone,
             ElimStep, DrainedSealAll, DrainedSealAllNone, ElimSkip, ElimForward, ElimRemove,
             ElimNone, ssa
    <3> QED BY <3>3, <2>1
  <2>4. CASE UNCHANGED vars BY <2>4, <2>1 DEF vars, ssa
  <2> QED BY <1>1, <2>2, <2>3, <2>4
<1>2. Core /\ Chain /\ [Next]_vars =>
        [pc # "idle" => \A xb \in Var \X Block, v \in Existing :
            defs[xb] = v => Resolve(v)' = Resolve(defs[xb])']_vars
  <2> SUFFICES ASSUME Core, Chain, [Next]_vars, pc # "idle", NEW xb \in Var \X Block, NEW v \in Existing,
                      defs[xb] = v
               PROVE  Resolve(v)' = Resolve(defs[xb])'
    OBVIOUS
  <2>1. PICK x \in Var, b \in Block : xb = <<x, b>> OBVIOUS
  <2> QED BY <1>1, <2>1
<1>3. Spec => []( Core /\ Chain) BY ChainHolds
<1> QED BY <1>2, <1>3, PTL DEF Spec, ReadsKeepAssignments

------------------------------------------------------------------------------
(***************************************************************************)
(* Which steps change what.                                                *)
(***************************************************************************)
Replaces == \E old \in Value, new \in Value :
               old \in Existing /\ new \in Existing /\ ReplaceAllUses(old, new)
Assigns == \E x \in Var, b \in Block, v \in Value : v \in Existing /\ DefVar(x, b, v)
TakesOff == \E b \in Block : RemoveTerminator(b)
Removes == \E b \in Block : RemoveBlock(b)
Seals == (\E b \in Block : SealBlock(b)) \/ SealAllBlocks
Finds == ReadHit \/ ReadNewParam \/ ReadZero
Eliminates == \E p \in Value, v \in Value : ElimForward(p, v)

LEMMA Changes ==
  ASSUME Core, Next
  PROVE  /\ alias' = alias \/ Replaces \/ ForwardParam \/ Eliminates
         /\ params' = params \/ ReadNewParam \/ Removes \/ ElimRemove
         /\ nvals' = nvals \/ ReadNewParam \/ ReadZero
         /\ paramVar' = paramVar \/ ReadNewParam
         /\ sealed' = sealed \/ Seals
         /\ live' = live \/ Removes
         /\ preds' = preds \/ TakesOff \/ Removes \/ NewTermInstall
         /\ term' = term \/ TakesOff \/ Removes \/ NewTermInstall \/ Finds \/ ElimRemove
         /\ pending' = pending \/ ReadNewParam \/ DrainedSealAll
         /\ defs' = defs \/ Assigns \/ Finds
         /\ incoming' = incoming \/ Finds
         /\ stack' = stack \/ Seals \/ ReadNewParam \/ DrainPop
         /\ zero' = zero \/ ReadZero
         /\ failed' = failed \/ ReadFails
         /\ rewrites' = rewrites \/ Replaces
<1>1. Call \/ ReadStep \/ DrainStep \/ TermStep \/ ForwardStep \/ ElimStep BY Steps DEF Core
<1>2. CASE Call
  <2>1. ASSUME NEW b \in Block,
               SealBlock(b) \/ RemoveTerminator(b) \/ RemoveBlock(b)
        PROVE  TakesOff \/ Removes \/ Seals
    BY <2>1 DEF TakesOff, Removes, Seals
  <2>2. CASE TakesOff BY <2>2 DEF TakesOff, RemoveTerminator, hist
  <2>3. CASE Removes BY <2>3 DEF Removes, RemoveBlock, hist
  <2>4. CASE Seals BY <2>4 DEF Seals, SealBlock, SealAllBlocks, func, hist
  <2>5. CASE \E x \in Var, b \in Block : UseVar(x, b) BY <2>5 DEF UseVar, func, ssa, hist
  <2>6. CASE Assigns BY <2>6 DEF Assigns, DefVar, func, hist
  <2>7. CASE \E b \in Block, dests \in Seq(Block) : SetTerminator(b, dests)
    BY <2>7 DEF SetTerminator, func, ssa, hist
  <2>8. CASE Replaces BY <2>8 DEF Replaces, ReplaceAllUses, ssa
  <2>9. CASE SealAllBlocks BY <2>4, <2>9 DEF Seals
  <2> QED BY <1>2, <2>1, <2>2, <2>3, <2>4, <2>5, <2>6, <2>7, <2>8, <2>9 DEF Call, Assigns, Replaces
<1>3. CASE ReadStep
  BY <1>3 DEF ReadStep, ReadHit, ReadNewParam, ReadZero, ReadThrough, ReadFails, Finds, func, ssa, hist
<1>4. CASE DrainStep
  BY <1>4 DEF DrainStep, DrainPop, CompleteRead, CompleteNext, DrainedUse, DrainedSeal, DrainedTerm,
              func, ssa, hist
<1>5. CASE TermStep
  BY <1>5 DEF TermStep, NewTermWant, NewTermRead, NewTermPush, NewTermInstall, NewTermRefuse,
              func, ssa, hist
<1>6. CASE ForwardStep
  BY <1>6 DEF ForwardStep, ForwardParam, ForwardSkip, ForwardDone, func, ssa, hist
<1>7. CASE ElimStep
  BY <1>7 DEF ElimStep, DrainedSealAll, DrainedSealAllNone, ElimSkip, ElimForward, ElimRemove,
              ElimNone, Eliminates, AliasesKept, func, ssa, hist
<1> QED BY <1>1, <1>2, <1>3, <1>4, <1>5, <1>6, <1>7

\* The same of the call in progress.
LEMMA CallChanges ==
  ASSUME Core, Next
  PROVE  /\ pc = "idle" \/ Call => ~ReadStep /\ ~DrainStep /\ ~TermStep /\ ~ForwardStep /\ ~ElimStep
         /\ pc = "idle" <=> Call
         /\ call' = call \/ Call \/ call' = NoCall \/ (Finds /\ rd.for = "newterm")
              \/ NewTermWant \/ NewTermPush
         /\ elim' = elim \/ elim' = NoElim \/ DrainedSealAll \/ Eliminates
              \/ \E p \in Value : ElimSkip(p)
         /\ cursor' = cursor \/ cursor' = NoCursor \/ DrainPop \/ CompleteNext
<1>1. Call \/ ReadStep \/ DrainStep \/ TermStep \/ ForwardStep \/ ElimStep BY Steps DEF Core
<1>a. Call => pc = "idle"
  BY DEF Call, UseVar, DefVar, SetTerminator, SealBlock, RemoveTerminator, RemoveBlock,
         ReplaceAllUses, SealAllBlocks
<1>b. ReadStep => pc = "read"
  BY DEF ReadStep, ReadHit, ReadNewParam, ReadZero, ReadThrough, ReadFails
<1>c. DrainStep => pc \in {"drain", "complete"}
  BY DEF DrainStep, DrainPop, CompleteRead, CompleteNext, DrainedUse, DrainedSeal, DrainedTerm
<1>d. TermStep => pc = "newterm"
  BY DEF TermStep, NewTermWant, NewTermRead, NewTermPush, NewTermInstall, NewTermRefuse
<1>e. ForwardStep => pc = "forward"
  BY DEF ForwardStep, ForwardParam, ForwardSkip, ForwardDone
<1>f. ElimStep => pc \in {"drain", "eliminate"}
  BY DEF ElimStep, DrainedSealAll, DrainedSealAllNone, ElimSkip, ElimForward, ElimRemove, ElimNone
<1>2. pc = "idle" <=> Call BY <1>1, <1>a, <1>b, <1>c, <1>d, <1>e, <1>f
<1>3. CASE Call
  <2>1. elim' = elim /\ cursor' = cursor
    BY <1>3 DEF Call, UseVar, DefVar, SetTerminator, SealBlock, RemoveTerminator, RemoveBlock,
         ReplaceAllUses, SealAllBlocks, job
  <2> QED BY <1>2, <1>3, <2>1, <1>a, <1>b, <1>c, <1>d, <1>e, <1>f
<1>4. CASE ReadStep
  <2>1. /\ call' = call \/ call' = NoCall \/ (Finds /\ rd.for = "newterm")
        /\ elim' = elim \/ elim' = NoElim
        /\ cursor' = cursor \/ cursor' = NoCursor
    BY <1>4 DEF ReadStep, ReadHit, ReadNewParam, ReadZero, ReadThrough, ReadFails, Finds, Deliver,
                Return
  <2> QED BY <1>2, <1>4, <2>1, <1>a, <1>b
<1>5. CASE DrainStep
  <2>1. /\ call' = call /\ elim' = elim
        /\ cursor' = cursor \/ cursor' = NoCursor \/ DrainPop \/ CompleteNext
    BY <1>5 DEF DrainStep, DrainPop, CompleteRead, CompleteNext, DrainedUse, DrainedSeal, DrainedTerm
  <2> QED BY <1>2, <1>5, <2>1, <1>a, <1>c
<1>6. CASE TermStep
  <2>1. /\ call' = call \/ call' = NoCall \/ NewTermWant \/ NewTermPush
        /\ elim' = elim \/ elim' = NoElim
        /\ cursor' = cursor \/ cursor' = NoCursor
    BY <1>6 DEF TermStep, NewTermWant, NewTermRead, NewTermPush, NewTermInstall, NewTermRefuse, Return
  <2> QED BY <1>2, <1>6, <2>1, <1>a, <1>d
<1>7. CASE ForwardStep
  <2>1. /\ call' = call \/ call' = NoCall
        /\ elim' = elim \/ elim' = NoElim
        /\ cursor' = cursor \/ cursor' = NoCursor
    BY <1>7 DEF ForwardStep, ForwardParam, ForwardSkip, ForwardDone, Return
  <2> QED BY <1>2, <1>7, <2>1, <1>a, <1>e
<1>8. CASE ElimStep
  <2>1. /\ call' = call \/ call' = NoCall
        /\ elim' = elim \/ elim' = NoElim \/ DrainedSealAll \/ Eliminates
              \/ \E p \in Value : ElimSkip(p)
        /\ cursor' = cursor \/ cursor' = NoCursor
    BY <1>8 DEF ElimStep, DrainedSealAll, DrainedSealAllNone, ElimSkip, ElimForward, ElimRemove,
              ElimNone, Eliminates, Return
  <2> QED BY <1>2, <1>8, <2>1, <1>a, <1>f
<1> QED BY <1>1, <1>3, <1>4, <1>5, <1>6, <1>7, <1>8

\* What finding a value changes.
LEMMA FindFacts ==
  ASSUME Base, Finds
  PROVE  /\ pc = "read" /\ alias' = alias /\ live' = live /\ terminated' = terminated
         /\ preds' = preds /\ sealed' = sealed /\ cursor' = cursor /\ elim' = elim
         /\ todo' = todo /\ failed' = failed
         /\ \E v \in Value : Deliver(v)
<1>1. CASE ReadHit BY <1>1, HitFacts DEF ReadHit
<1>2. CASE ReadNewParam BY <1>2, NewParamFacts DEF ReadNewParam
<1>3. CASE ReadZero
  <2> DEFINE z == IF zero = NONE THEN nvals + 1 ELSE zero
  <2>1. z \in Value /\ Deliver(z) BY <1>3, ZeroFacts DEF ReadZero
  <2> HIDE DEF z
  <2> QED BY <1>3, <2>1 DEF ReadZero
<1> QED BY <1>1, <1>2, <1>3 DEF Finds

\* The value goes to the end of the shortest argument lists into the block that is
\* being completed, or nowhere.
LEMMA Delivered ==
  ASSUME Base, pc = "read", NEW v \in Value, Deliver(v)
  PROVE  \A p \in Block : \A k \in DOMAIN term[p] :
           \/ term'[p][k] = term[p][k]
           \/ /\ rd.for = "complete" /\ p = CursorPred /\ k \in EdgesInto(p, cursor.block)
              /\ Len(term[p][k].args) = MinArgs(p, cursor.block)
              /\ term'[p][k].args = Append(term[p][k].args, v)
<1>1. CASE term' = term BY <1>1
<1>2. CASE term' # term
  <2> DEFINE b == cursor.block
             q == preds[b][cursor.i]
             n == MinArgs(q, b)
             new == Extended(term[q], b, n, v)
  <2>1. rd.for = "complete" /\ term' = [term EXCEPT ![q] = new]
    BY <1>2 DEF Deliver
  <2>2. \A k \in DOMAIN term[q] :
          new[k] = IF term[q][k].block = b /\ Len(term[q][k].args) = n
                   THEN [term[q][k] EXCEPT !.args = Append(term[q][k].args, v)] ELSE term[q][k]
    BY DEF Extended
  <2>3. q = CursorPred BY DEF CursorPred
  <2> HIDE DEF new, n, q
  <2>4. term \in [Block -> Seq(Edge)] BY DEF Base, TypeOK, FuncOK
  <2> SUFFICES ASSUME NEW p \in Block, NEW k \in DOMAIN term[p], term'[p][k] # term[p][k]
               PROVE  /\ p = q /\ k \in EdgesInto(p, b) /\ Len(term[p][k].args) = MinArgs(p, b)
                      /\ term'[p][k].args = Append(term[p][k].args, v)
    BY <2>1, <2>3
  <2>5. p = q /\ term'[p][k] = new[k] BY <2>1, <2>4
  <2>6. /\ term[p][k].block = b /\ Len(term[p][k].args) = n
        /\ term'[p][k] = [term[p][k] EXCEPT !.args = Append(term[p][k].args, v)]
    BY <2>2, <2>5
  <2>7. term[p][k] \in Edge BY EdgeFacts
  <2>8. term'[p][k].args = Append(term[p][k].args, v) BY <2>6, <2>7 DEF Edge
  <2> QED BY <2>5, <2>6, <2>8 DEF EdgesInto, n
<1> QED BY <1>1, <1>2

\* One round of arguments for the new terminator.
LEMMA PushFacts ==
  ASSUME Base, NewTermPush
  PROVE  /\ call'.op = call.op /\ call'.block = call.block
         /\ call'.want = <<>> /\ call'.got = <<>>
         /\ DOMAIN call'.term = DOMAIN call.term
         /\ \A k \in DOMAIN call.term :
              /\ call'.term[k].block = call.term[k].block
              /\ \/ /\ \A j \in DOMAIN call.want : call.want[j].edge # k
                    /\ call'.term[k] = call.term[k]
                 \/ \E j \in DOMAIN call.want :
                       /\ call.want[j].edge = k
                       /\ call'.term[k].args = Append(call.term[k].args, call.got[j])
<1> DEFINE At(k) == {j \in DOMAIN call.want : call.want[j].edge = k}
           Pushed(k) == IF At(k) = {} THEN call.term[k]
             ELSE [call.term[k] EXCEPT !.args = Append(call.term[k].args, call.got[CHOOSE j \in At(k) : TRUE])]
           new == [k \in DOMAIN call.term |-> Pushed(k)]
<1>1. call' = [call EXCEPT !.want = <<>>, !.got = <<>>, !.term = new] BY DEF NewTermPush
<1>2. ASSUME NEW k \in DOMAIN call.term
      PROVE /\ Pushed(k).block = call.term[k].block
            /\ \/ /\ \A j \in DOMAIN call.want : call.want[j].edge # k
                  /\ Pushed(k) = call.term[k]
               \/ \E j \in DOMAIN call.want :
                     /\ call.want[j].edge = k
                     /\ Pushed(k).args = Append(call.term[k].args, call.got[j])
  <2>1. CASE At(k) = {} BY <2>1
  <2>2. CASE At(k) # {}
    <3>1. PICK j \in At(k) : j = CHOOSE i \in At(k) : TRUE BY <2>2
    <3>2. Pushed(k) = [call.term[k] EXCEPT !.args = Append(call.term[k].args, call.got[j])]
      BY <2>2, <3>1
    <3>3. call.term[k] \in Edge BY EdgeFacts
    <3>4. Pushed(k).block = call.term[k].block /\ Pushed(k).args = Append(call.term[k].args, call.got[j])
      BY <3>2, <3>3 DEF Edge
    <3>5. j \in DOMAIN call.want /\ call.want[j].edge = k BY <3>1
    <3> HIDE DEF Pushed, At
    <3> QED BY <3>4, <3>5
  <2> QED BY <2>1, <2>2
<1>3. DOMAIN new = DOMAIN call.term /\ \A k \in DOMAIN call.term : new[k] = Pushed(k) OBVIOUS
<1> HIDE DEF Pushed, new
<1>4. call \in CallType BY DEF Base, TypeOK, JobOK, CallOK, CallType
<1>5. /\ call'.op = call.op /\ call'.block = call.block
      /\ call'.want = <<>> /\ call'.got = <<>> /\ call'.term = new
  BY <1>1, <1>4 DEF CallType
<1> QED BY <1>2, <1>3, <1>5

------------------------------------------------------------------------------
(***************************************************************************)
(* Equalities between values.  A parameter that still awaits a check may   *)
(* have been made to forward already, by forward_trivial; Justified says   *)
(* that checking it again finds nothing new.                               *)
(***************************************************************************)

\* No value made later is listed, awaits a check or forwards yet.
Numbered ==
    /\ \A v \in Value : v > nvals => alias[v] = NONE
    /\ \A b \in Block : \A i \in DOMAIN params[b] : params[b][i] <= nvals
    /\ \A i \in DOMAIN pending : pending[i] <= nvals

\* Each parameter is listed once.
ListedOnce ==
    \A b, c \in Block : \A i \in DOMAIN params[b], j \in DOMAIN params[c] :
        params[b][i] = params[c][j] => b = c /\ i = j

\* A new terminator goes to unsealed blocks only; eliminate_trivial runs when every
\* block is sealed and has taken the parameters over.
CallSealed ==
    /\ call.op = "term" => Dests(call.term) \cap sealed \subseteq {Entry}
    /\ call.op = "sealall" => live \subseteq sealed
    /\ pc = "eliminate" => call.op = "sealall" /\ pending = <<>>

LEMMA NumberedStep ==
  ASSUME Core, Numbered, Next
  PROVE  Numbered'
<1>b. Base BY DEF Core
<1>0. nvals \in Nat /\ nvals' \in Nat /\ nvals <= nvals'
  <2>1. CASE ReadNewParam BY <1>b, <2>1, NewParamFacts DEF ReadNewParam
  <2>2. CASE ReadZero
    <3>1. nvals' = nvals \/ nvals' = nvals + 1 BY <2>2 DEF ReadZero
    <3> QED BY <1>b, <2>2, <3>1, ZeroFacts
  <2>3. CASE nvals' = nvals BY <2>3, CountAssumption DEF Core, Base, TypeOK, FuncOK
  <2> QED BY <2>1, <2>2, <2>3, Changes
<1>1. ASSUME NEW v \in Value, v > nvals' PROVE alias'[v] = NONE
  <2>0. v > nvals /\ alias[v] = NONE BY <1>0, <1>1 DEF Numbered, Value
  <2>a. alias \in [Value -> Value \cup {NONE}] BY DEF Core, Base, TypeOK, FuncOK
  <2>s. ASSUME NEW p, Sites(p) # {} PROVE p <= nvals
    <3>1. PICK s \in Sites(p) : TRUE BY <2>s
    <3>2. s[1] \in Block /\ s[2] \in DOMAIN params[s[1]] /\ params[s[1]][s[2]] = p
      BY <1>b, SiteFacts
    <3> QED BY <3>2 DEF Numbered
  <2>1. CASE Replaces
    <3>1. PICK old \in Value, new \in Value : old \in Existing /\ ReplaceAllUses(old, new)
      BY <2>1 DEF Replaces
    <3>2. alias' = [alias EXCEPT ![old] = Resolve(new)] /\ old <= nvals
      BY <3>1, <1>0 DEF ReplaceAllUses, Existing
    <3>3. old # v BY <3>2, <2>0, <1>0 DEF Value
    <3> QED BY <3>2, <3>3, <2>0, <2>a
  <2>2. CASE ForwardParam
    <3>1. PICK w \in Value : CanForward(Head(todo), w) /\ alias' = [alias EXCEPT ![Head(todo)] = w]
      BY <2>2 DEF ForwardParam
    <3>2. Head(todo) <= nvals BY <3>1, <2>s DEF CanForward
    <3>3. Head(todo) # v BY <3>2, <2>0, <1>0 DEF Value
    <3> QED BY <3>1, <3>3, <2>0, <2>a
  <2>3. CASE Eliminates
    <3>1. PICK p \in Value, w \in Value : IsTrivial(p, w) /\ alias' = [alias EXCEPT ![p] = w]
      BY <2>3 DEF Eliminates, ElimForward
    <3>2. p <= nvals BY <3>1, <2>s DEF IsTrivial
    <3>3. p # v BY <3>2, <2>0, <1>0 DEF Value
    <3> QED BY <3>1, <3>3, <2>0, <2>a
  <2>4. CASE alias' = alias BY <2>0, <2>4
  <2> QED BY <2>1, <2>2, <2>3, <2>4, Changes
<1>2. ASSUME NEW b \in Block, NEW i \in DOMAIN params'[b] PROVE params'[b][i] <= nvals'
  <2>a. \A c \in Block : \A j \in DOMAIN params[c] : params[c][j] \in Nat /\ params[c][j] <= nvals
    <3>1. ASSUME NEW c \in Block, NEW j \in DOMAIN params[c] PROVE params[c][j] \in Nat
      BY <1>b, EdgeFacts DEF Value
    <3> QED BY <3>1 DEF Numbered
  <2>t. params \in [Block -> Seq(Value)] BY DEF Core, Base, TypeOK, FuncOK
  <2>1. CASE params' = params BY <2>1, <2>a, <1>0
  <2>2. CASE ReadNewParam
    <3>1. params' = [params EXCEPT ![rd.at] = Append(params[rd.at], nvals + 1)] /\ nvals' = nvals + 1
      BY <2>2 DEF ReadNewParam
    <3>2. rd.at \in Block BY <1>b, JobSeqs
    <3>3. params[rd.at] \in Seq(Value) /\ nvals + 1 \in Value BY <1>b, <2>2, <3>2, EdgeFacts, NewParamFacts
    <3>4. ASSUME b = rd.at, i \notin DOMAIN params[b] PROVE params'[b][i] = nvals + 1
      BY <3>1, <3>2, <3>3, <3>4, <2>t, AppendProperties, LenProperties
    <3>5. ASSUME b = rd.at, i \in DOMAIN params[b] PROVE params'[b][i] = params[b][i]
      BY <3>1, <3>2, <3>3, <3>5, <2>t, AppendProperties, LenProperties
    <3>6. ASSUME b # rd.at PROVE params'[b] = params[b] BY <3>1, <3>6, <2>t
    <3> QED BY <3>1, <3>4, <3>5, <3>6, <2>a, <1>0
  <2>3. CASE Removes
    <3>1. PICK c \in Block : params' = [params EXCEPT ![c] = <<>>] BY <2>3 DEF Removes, RemoveBlock
    <3>2. DOMAIN <<>> = {} BY EmptySeq, LenProperties
    <3>3. b # c /\ params'[b] = params[b] BY <3>1, <3>2, <2>t
    <3> QED BY <3>3, <2>a, <1>0
  <2>4. CASE ElimRemove
    <3>1. params'[b] = Pick(params[b], Kept(b)) BY <2>4 DEF ElimRemove
    <3>2. params[b] \in Seq(Value) /\ Kept(b) \in SUBSET (DOMAIN params[b]) BY <1>b, EdgeFacts DEF Kept
    <3>3. \E j \in DOMAIN params[b] : params'[b][i] = params[b][j] BY <3>1, <3>2, PickFacts
    <3> QED BY <3>3, <2>a, <1>0
  <2> QED BY <2>1, <2>2, <2>3, <2>4, Changes
<1>3. ASSUME NEW i \in DOMAIN pending' PROVE pending'[i] <= nvals'
  <2>a. \A j \in DOMAIN pending : pending[j] \in Nat /\ pending[j] <= nvals
    <3>1. ASSUME NEW j \in DOMAIN pending PROVE pending[j] \in Nat
      <4>1. pending[j] \in Value BY <1>b, JobSeqs, LenProperties, ElementOfSeq
      <4> QED BY <4>1 DEF Value
    <3> QED BY <3>1 DEF Numbered
  <2>1. CASE pending' = pending BY <2>1, <2>a, <1>0
  <2>2. CASE ReadNewParam
    <3>1. pending' = Append(pending, nvals + 1) /\ nvals' = nvals + 1 BY <2>2 DEF ReadNewParam
    <3>2. nvals + 1 \in Value /\ pending \in Seq(Value) BY <1>b, <2>2, NewParamFacts, JobSeqs
    <3>3. (i \in DOMAIN pending /\ pending'[i] = pending[i]) \/ pending'[i] = nvals + 1
      BY <3>1, <3>2, AppendProperties, LenProperties
    <3> QED BY <3>1, <3>3, <2>a, <1>0
  <2>3. CASE DrainedSealAll
    <3>1. DOMAIN pending' = {} BY <2>3, EmptySeq, LenProperties DEF DrainedSealAll
    <3> QED BY <3>1
  <2> QED BY <2>1, <2>2, <2>3, Changes
<1> QED BY <1>1, <1>2, <1>3 DEF Numbered

LEMMA ListedOnceStep ==
  ASSUME Core, Numbered, ListedOnce, Next
  PROVE  ListedOnce'
<1>b. Base BY DEF Core
<1>t. params \in [Block -> Seq(Value)] BY DEF Core, Base, TypeOK, FuncOK
<1>1. CASE params' = params BY <1>1 DEF ListedOnce
<1>2. CASE ReadNewParam
  <2> DEFINE p == nvals + 1
  <2>1. params' = [params EXCEPT ![rd.at] = Append(params[rd.at], p)] BY <1>2 DEF ReadNewParam
  <2>2. rd.at \in Block /\ p \in Value /\ nvals \in Nat BY <1>b, <1>2, JobSeqs, NewParamFacts
  <2>3. params[rd.at] \in Seq(Value) BY <2>2, <1>t
  <2>4. \A b \in Block : \A i \in DOMAIN params[b] : params[b][i] # p
    <3>1. ASSUME NEW b \in Block, NEW i \in DOMAIN params[b] PROVE params[b][i] \in Nat
      BY <1>b, EdgeFacts DEF Value
    <3> QED BY <3>1, <2>2 DEF Numbered
  <2> HIDE DEF p
  <2>5. ASSUME NEW b \in Block, NEW i \in DOMAIN params'[b]
        PROVE \/ i \in DOMAIN params[b] /\ params'[b][i] = params[b][i]
              \/ b = rd.at /\ i = Len(params[rd.at]) + 1 /\ params'[b][i] = p
    <3>1. CASE b # rd.at BY <3>1, <2>1, <1>t
    <3>2. CASE b = rd.at
      BY <3>2, <2>1, <2>2, <2>3, <1>t, AppendProperties, LenProperties
    <3> QED BY <3>1, <3>2
  <2>6. ASSUME NEW b \in Block, NEW c \in Block, NEW i \in DOMAIN params'[b], NEW j \in DOMAIN params'[c],
               params'[b][i] = params'[c][j]
        PROVE  b = c /\ i = j
    <3>1. \/ i \in DOMAIN params[b] /\ params'[b][i] = params[b][i]
          \/ b = rd.at /\ i = Len(params[rd.at]) + 1 /\ params'[b][i] = p
      BY <2>5
    <3>2. \/ j \in DOMAIN params[c] /\ params'[c][j] = params[c][j]
          \/ c = rd.at /\ j = Len(params[rd.at]) + 1 /\ params'[c][j] = p
      BY <2>5
    <3> QED BY <3>1, <3>2, <2>4, <2>6 DEF ListedOnce
  <2> QED BY <2>6 DEF ListedOnce
<1>3. CASE Removes
  <2>1. PICK r \in Block : params' = [params EXCEPT ![r] = <<>>] BY <1>3 DEF Removes, RemoveBlock
  <2>2. DOMAIN <<>> = {} BY EmptySeq, LenProperties
  <2>3. \A b \in Block : \A i \in DOMAIN params'[b] : b # r /\ params'[b] = params[b]
    BY <2>1, <2>2, <1>t
  <2> QED BY <2>3 DEF ListedOnce
<1>4. CASE ElimRemove
  <2>1. ASSUME NEW b \in Block
        PROVE /\ \A i \in DOMAIN params'[b] : Nth(Kept(b), i) \in DOMAIN params[b]
                                              /\ params'[b][i] = params[b][Nth(Kept(b), i)]
              /\ \A i, j \in DOMAIN params'[b] : Nth(Kept(b), i) = Nth(Kept(b), j) => i = j
    <3>1. params'[b] = Pick(params[b], Kept(b)) BY <1>4 DEF ElimRemove
    <3>2. params[b] \in Seq(Value) /\ Kept(b) \in SUBSET (DOMAIN params[b]) BY <1>b, EdgeFacts DEF Kept
    <3> QED BY <3>1, <3>2, PickFacts
  <2>2. ASSUME NEW b \in Block, NEW c \in Block, NEW i \in DOMAIN params'[b], NEW j \in DOMAIN params'[c],
               params'[b][i] = params'[c][j]
        PROVE  b = c /\ i = j
    <3>1. params[b][Nth(Kept(b), i)] = params[c][Nth(Kept(c), j)]
          /\ Nth(Kept(b), i) \in DOMAIN params[b] /\ Nth(Kept(c), j) \in DOMAIN params[c]
      BY <2>1, <2>2
    <3>2. b = c /\ Nth(Kept(b), i) = Nth(Kept(c), j) BY <3>1 DEF ListedOnce
    <3> QED BY <3>2, <2>1
  <2> QED BY <2>2 DEF ListedOnce
<1> QED BY <1>1, <1>2, <1>3, <1>4, Changes

LEMMA CallSealedStep ==
  ASSUME Core, CallSealed, Next
  PROVE  CallSealed'
<1>b. Base BY DEF Core
<1>t. call \in CallType BY DEF Core, Base, TypeOK, JobOK, CallOK, CallType
<1>1. CASE Call
  <2>1. pc = "idle" /\ call = NoCall BY <1>1, CallChanges DEF Core, Base, CallShape
  <2>2. ASSUME NEW b \in Block, NEW dests \in Seq(Block), SetTerminator(b, dests) PROVE CallSealed'
    <3>1. /\ call'.op = "term" /\ pc' = "newterm" /\ sealed' = sealed
          /\ call'.term = [k \in DOMAIN dests |-> [block |-> dests[k], args |-> <<>>]]
          /\ \A k \in DOMAIN dests : AcceptsEdge(dests[k])
      BY <2>2 DEF SetTerminator, NoCall, ssa
    <3>2. Dests(call'.term) \cap sealed \subseteq {Entry} BY <3>1 DEF Dests, AcceptsEdge
    <3>3. (Dests(call.term))' = Dests(call'.term) BY DEF Dests
    <3> QED BY <3>1, <3>2, <3>3 DEF CallSealed
  <2>3. CASE SealAllBlocks
    <3>1. call'.op = "sealall" /\ pc' = "drain" /\ sealed' = sealed \cup live /\ live' = live
      BY <2>3 DEF SealAllBlocks, NoCall, func
    <3> QED BY <3>1 DEF CallSealed
  <2>4. ASSUME NEW b \in Block, SealBlock(b) PROVE CallSealed'
    BY <2>4 DEF SealBlock, NoCall, CallSealed
  <2>5. CASE \E x \in Var, b \in Block : UseVar(x, b) BY <2>5 DEF UseVar, NoCall, CallSealed
  <2>6. ASSUME call' = NoCall, pc' = "idle" PROVE CallSealed' BY <2>6 DEF NoCall, CallSealed
  <2>7. CASE Assigns BY <2>1, <2>6, <2>7 DEF Assigns, DefVar, job
  <2>8. ASSUME NEW b \in Block, RemoveTerminator(b) PROVE CallSealed'
    BY <2>1, <2>6, <2>8 DEF RemoveTerminator, job
  <2>9. ASSUME NEW b \in Block, RemoveBlock(b) PROVE CallSealed'
    BY <2>1, <2>6, <2>9 DEF RemoveBlock, job
  <2>10. CASE Replaces BY <2>1, <2>6, <2>10 DEF Replaces, ReplaceAllUses, job
  <2> QED BY <1>1, <2>2, <2>3, <2>4, <2>5, <2>7, <2>8, <2>9, <2>10 DEF Call, Assigns, Replaces
<1>2. CASE ~Call
  <2>1. live' = live /\ sealed' = sealed
    <3>1. ~Removes /\ ~Seals BY <1>2 DEF Removes, Seals, Call
    <3> QED BY <3>1, Changes
  <2>2. call'.op = "none" \/ (call'.op = call.op /\ Dests(call'.term) = Dests(call.term))
    <3>1. CASE call' = NoCall BY <3>1 DEF NoCall
    <3>2. CASE call' = call BY <3>2
    <3>3. CASE Finds
      <4>1. call' = call \/ \E v : call' = [call EXCEPT !.got = Append(call.got, v)]
        BY <3>3, <1>b, FindFacts, DeliverFacts
      <4>2. call'.op = call.op /\ call'.term = call.term BY <4>1, <1>t DEF CallType
      <4> QED BY <4>2
    <3>4. CASE NewTermWant
      <4>1. \E w : call' = [call EXCEPT !.want = w] BY <3>4 DEF NewTermWant
      <4>2. call'.op = call.op /\ call'.term = call.term BY <4>1, <1>t DEF CallType
      <4> QED BY <4>2
    <3>5. CASE NewTermPush
      <4>1. Dests(call'.term) = Dests(call.term) /\ call'.op = call.op
        BY <3>5, <1>b, PushFacts DEF Dests
      <4> QED BY <4>1
    <3> QED BY <1>2, <3>1, <3>2, <3>3, <3>4, <3>5, CallChanges
  <2>3. pc' = "eliminate" => DrainedSealAll \/ (pc = "eliminate" /\ pending' = pending /\ call' = call)
    <3>1. ReadStep \/ DrainStep \/ TermStep \/ ForwardStep => pc' # "eliminate"
      BY DEF ReadStep, ReadHit, ReadNewParam, ReadZero, ReadThrough, ReadFails, Deliver, Return,
             DrainStep, DrainPop, CompleteRead, CompleteNext, DrainedUse, DrainedSeal, DrainedTerm,
             TermStep, NewTermWant, NewTermRead, NewTermPush, NewTermInstall, NewTermRefuse,
             ForwardStep, ForwardParam, ForwardSkip, ForwardDone
    <3>2. ElimStep /\ pc' = "eliminate" =>
            DrainedSealAll \/ (pc = "eliminate" /\ pending' = pending /\ call' = call)
      BY DEF ElimStep, DrainedSealAllNone, ElimSkip, ElimForward, ElimRemove, ElimNone, Return, ssa
    <3> QED BY <1>b, <1>2, <3>1, <3>2, Steps
  <2>4. DrainedSealAll => call' = call /\ call.op = "sealall" /\ pending' = <<>>
    BY DEF DrainedSealAll
  <2>5. (Dests(call.term))' = Dests(call'.term) BY DEF Dests
  <2> QED BY <2>1, <2>2, <2>3, <2>4, <2>5 DEF CallSealed
<1> QED BY <1>1, <1>2

\* The parameters that still await a check.
Awaiting == Range(pending) \cup (DOMAIN elim.users \ elim.removed)

\* Such a parameter forwards only where all it receives ends: checking it again finds
\* nothing new.
Justified ==
    \A b \in live : \A i \in DOMAIN params[b] :
        params[b][i] \in Awaiting /\ alias[params[b][i]] # NONE =>
            b \in sealed /\ Operands(b, i) \subseteq {Resolve(params[b][i])}

LEMMA ResolvePrime == \A u : Resolve(u)' = Root(alias', u)
BY DEF Resolve, Root

\* An end made to forward takes with it what forwards to it.
LEMMA EndForwarded ==
  ASSUME Base, NEW p \in Value, NEW r \in Value, alias[p] = NONE, alias[r] = NONE, p # r,
         alias' = [alias EXCEPT ![p] = r]
  PROVE  \A v \in Value : Resolve(v)' = IF Resolve(v) = p THEN r ELSE Resolve(v)
<1>1. Forwarding(alias) BY DEF Base
<1>2. \A v \in Value : Root([alias EXCEPT ![p] = r], v) = IF Root(alias, v) = p THEN r ELSE Root(alias, v)
  <2>1. ASSUME NEW al, Forwarding(al), al[p] = NONE, al[r] = NONE
        PROVE \A v \in Value : Root([al EXCEPT ![p] = r], v) = IF Root(al, v) = p THEN r ELSE Root(al, v)
    <3>1. r # p OBVIOUS
    <3> QED BY <2>1, <3>1, Joined
  <2> QED BY <1>1, <2>1
<1>3. \A v \in Value : Resolve(v) = Root(alias, v) BY <1>1, ResolveFacts
<1> QED BY <1>2, <1>3, ResolvePrime

\* A value that forwards, made to forward to its own end, changes nothing.
LEMMA EndRepeated ==
  ASSUME Base, NEW p \in Value, NEW r \in Value, alias[p] # NONE, r = Resolve(p),
         alias' = [alias EXCEPT ![p] = r]
  PROVE  \A v \in Value : Resolve(v)' = Resolve(v)
<1>1. Forwarding(alias) BY DEF Base
<1>2. \A v \in Value : Resolve(v) = Root(alias, v) BY <1>1, ResolveFacts
<1>3. Root(alias, p) # p BY <1>1, RootFacts
<1>4. \A v \in Value : Root([alias EXCEPT ![p] = Root(alias, p)], v) = Root(alias, v)
  BY <1>1, <1>3, Shortened
<1>5. r = Root(alias, p) BY <1>2
<1>6. \A v \in Value : Root(alias', v) = Root(alias, v) BY <1>4, <1>5
<1> QED BY <1>2, <1>6, ResolvePrime

\* What a parameter that receives only v (and itself) is made to forward to.
LEMMA TrivialFacts ==
  ASSUME Base, NEW p, NEW v \in Value, NEW s \in Sites(p), TrivialAs(p, s[1], s[2], v)
  PROVE  /\ p \in Value /\ p # v /\ alias[v] = NONE
         /\ v \in Operands(s[1], s[2]) /\ Operands(s[1], s[2]) \subseteq {p, v}
<1>1. s[1] \in Block /\ p \in Value BY SiteFacts
<1>2. v # NONE /\ v \in Operands(s[1], s[2]) /\ v # p /\ Operands(s[1], s[2]) \subseteq {p, v}
  BY DEF TrivialAs
<1> QED BY <1>1, <1>2, OperandEnds

\* What the i-th parameter of b receives on the k-th edge of p.
Arg(p, k, i) == IF i \in DOMAIN term[p][k].args THEN Resolve(term[p][k].args[i]) ELSE NONE

LEMMA OperandIs ==
  ASSUME NEW b, NEW i, NEW v
  PROVE  v \in Operands(b, i) <=> \E p \in Range(preds[b]) : \E k \in EdgesInto(p, b) : v = Arg(p, k, i)
BY DEF Operands, Arg

LEMMA ArgFacts ==
  ASSUME Base, NEW p \in Block, NEW k \in DOMAIN term[p], NEW i \in DOMAIN term[p][k].args
  PROVE  term[p][k].args[i] \in Value
<1>1. term[p][k].args \in Seq(Value) BY EdgeFacts
<1> QED BY <1>1, LenProperties, ElementOfSeq

LEMMA PredFacts ==
  ASSUME Base, NEW b \in Block, NEW p \in Range(preds[b])
  PROVE  p \in Block
BY EdgeFacts DEF Range

\* The function unchanged but for forwarding.
LEMMA OperandsMapped ==
  ASSUME Base, term' = term, preds' = preds, NEW p \in Value, NEW r \in Value,
         \A v \in Value : Resolve(v)' = IF Resolve(v) = p THEN r ELSE Resolve(v),
         NEW b \in Block, NEW i, NEW w \in Operands(b, i)'
  PROVE  \E v \in Operands(b, i) : w = IF v = p THEN r ELSE v
<1>0. \A q : EdgesInto(q, b)' = EdgesInto(q, b) BY DEF EdgesInto
<1>1. PICK q \in Range(preds[b]) : \E k \in EdgesInto(q, b) :
        w = IF i \in DOMAIN term[q][k].args THEN Resolve(term[q][k].args[i])' ELSE NONE
  BY <1>0 DEF Operands
<1>2. PICK k \in EdgesInto(q, b) :
        w = IF i \in DOMAIN term[q][k].args THEN Resolve(term[q][k].args[i])' ELSE NONE
  BY <1>1
<1>3. q \in Block BY PredFacts
<1>4. CASE i \in DOMAIN term[q][k].args
  <2>1. term[q][k].args[i] \in Value BY <1>3, <1>4, ArgFacts DEF EdgesInto
  <2>2. PICK u \in Value : u = term[q][k].args[i] BY <2>1
  <2>3. Resolve(term[q][k].args[i])' = Root(alias', u) BY <2>2, ResolvePrime
  <2>4. w = IF Resolve(u) = p THEN r ELSE Resolve(u) BY <1>2, <1>4, <2>3, ResolvePrime
  <2>5. Resolve(u) \in Operands(b, i) BY <1>4, <2>2, OperandIs DEF Arg
  <2> QED BY <2>4, <2>5
<1>5. CASE i \notin DOMAIN term[q][k].args
  <2>1. NONE \in Operands(b, i) BY <1>5, OperandIs DEF Arg
  <2> QED BY <1>2, <1>5, <2>1, NoneIsNoValue
<1> QED BY <1>4, <1>5

\* Nothing moves where every argument is there.
LEMMA OperandsDelivered ==
  ASSUME Base, Finds, NEW b \in Block, NEW i, NONE \notin Operands(b, i)
  PROVE  Operands(b, i)' = Operands(b, i)
<1>0. PICK v \in Value : Deliver(v) BY FindFacts
<1>f. pc = "read" /\ alias' = alias /\ preds' = preds BY FindFacts
<1>1. \A p \in Block : /\ DOMAIN term'[p] = DOMAIN term[p]
                       /\ \A k \in DOMAIN term[p] : term'[p][k].block = term[p][k].block
  BY <1>0, <1>f, DeliverFacts
<1>2. \A p \in Block : EdgesInto(p, b)' = EdgesInto(p, b) BY <1>1 DEF EdgesInto
<1>3. ASSUME NEW p \in Range(preds[b]), NEW k \in EdgesInto(p, b)
      PROVE /\ i \in DOMAIN term'[p][k].args
            /\ term'[p][k].args[i] = term[p][k].args[i] /\ i \in DOMAIN term[p][k].args
  <2>1. p \in Block /\ k \in DOMAIN term[p] BY PredFacts DEF EdgesInto
  <2>2. i \in DOMAIN term[p][k].args BY OperandIs DEF Arg
  <2>3. term[p][k].args \in Seq(Value) BY <2>1, EdgeFacts
  <2>4. term'[p][k] = term[p][k] \/ term'[p][k].args = Append(term[p][k].args, v)
    BY <1>0, <1>f, <2>1, Delivered
  <2> QED BY <2>2, <2>3, <2>4, AppendProperties, LenProperties
<1>4. \A u : Resolve(u)' = Root(alias, u) /\ Resolve(u) = Root(alias, u)
  BY <1>f, ResolvePrime DEF Resolve, Root
<1>6. ASSUME NEW w PROVE w \in Operands(b, i)' <=> w \in Operands(b, i)
  <2>1. w \in Operands(b, i)' <=>
          \E p \in Range(preds[b]) : \E k \in EdgesInto(p, b) :
             w = IF i \in DOMAIN term'[p][k].args THEN Root(alias, term'[p][k].args[i]) ELSE NONE
    <3>1. Range(preds[b])' = Range(preds[b]) BY <1>f
    <3>2. \A p \in Range(preds[b]) : p \in Block BY PredFacts
    <3> QED BY <1>2, <1>f, <3>1, <3>2 DEF Operands, Resolve, Root
  <2>2. w \in Operands(b, i) <=>
          \E p \in Range(preds[b]) : \E k \in EdgesInto(p, b) :
             w = IF i \in DOMAIN term[p][k].args THEN Root(alias, term[p][k].args[i]) ELSE NONE
    BY OperandIs, <1>4 DEF Arg
  <2> QED BY <2>1, <2>2, <1>3
<1> QED BY <1>6

LEMMA RangeAppend ==
  ASSUME NEW T, NEW s \in Seq(T), NEW e \in T
  PROVE  Range(Append(s, e)) = Range(s) \cup {e}
<1>1. Len(s) \in Nat /\ DOMAIN s = 1..Len(s) BY LenProperties
<1>2. /\ DOMAIN Append(s, e) = 1..(Len(s) + 1) /\ Append(s, e)[Len(s) + 1] = e
      /\ \A i \in 1..Len(s) : Append(s, e)[i] = s[i]
  BY <1>1, AppendProperties, LenProperties
<1>3. ASSUME NEW v \in Range(Append(s, e)) PROVE v \in Range(s) \cup {e}
  <2>1. PICK i \in 1..(Len(s) + 1) : Append(s, e)[i] = v BY <1>2 DEF Range
  <2>2. i \in 1..Len(s) \/ i = Len(s) + 1 BY <1>1
  <2> QED BY <2>1, <2>2, <1>1, <1>2 DEF Range
<1>4. ASSUME NEW v \in Range(s) PROVE v \in Range(Append(s, e))
  <2>1. PICK i \in 1..Len(s) : s[i] = v BY <1>1 DEF Range
  <2>2. i \in 1..(Len(s) + 1) /\ Append(s, e)[i] = v BY <2>1, <1>1, <1>2
  <2> QED BY <2>2, <1>2 DEF Range
<1>5. e \in Range(Append(s, e))
  <2>1. Len(s) + 1 \in 1..(Len(s) + 1) BY <1>1
  <2> QED BY <2>1, <1>2 DEF Range
<1> QED BY <1>3, <1>4, <1>5

\* Steps that touch no listed parameter and bring no new operand to a sealed block.
LEMMA JustifiedKept ==
  ASSUME Base, Justified, alias' = alias, Awaiting' \subseteq Awaiting, sealed \subseteq sealed',
         live' \subseteq live, \A b \in live' : params'[b] = params[b],
         \A b \in live' : \A i \in DOMAIN params[b] :
            b \in sealed /\ NONE \notin Operands(b, i) => Operands(b, i)' \subseteq Operands(b, i)
  PROVE  Justified'
<1>0. Forwarding(alias) /\ live \subseteq Block BY DEF Base, TypeOK, FuncOK
<1> SUFFICES ASSUME NEW b \in live', NEW i \in DOMAIN params'[b],
                    params'[b][i] \in Awaiting', alias'[params'[b][i]] # NONE
             PROVE  b \in sealed' /\ Operands(b, i)' \subseteq {Resolve(params[b][i])'}
  BY DEF Justified
<1> DEFINE p == params[b][i]
<1>1. p \in Awaiting /\ alias[p] # NONE /\ b \in live /\ i \in DOMAIN params[b] OBVIOUS
<1>2. b \in sealed /\ Operands(b, i) \subseteq {Resolve(p)} BY <1>1 DEF Justified
<1>3. p \in Value BY <1>0, <1>1, EdgeFacts
<1>4. Resolve(p) \in Value /\ Resolve(p) = Root(alias, p) BY <1>0, <1>3, ResolveFacts
<1>5. NONE \notin Operands(b, i) BY <1>2, <1>4, NoneIsNoValue
<1>6. Operands(b, i)' \subseteq Operands(b, i) BY <1>1, <1>2, <1>5
<1>7. Resolve(params[b][i])' = Root(alias, p) BY DEF Resolve, Root
<1> QED BY <1>2, <1>4, <1>6, <1>7

\* An end made to forward to the only other operand of one of its sites.
LEMMA JustifiedForwarded ==
  ASSUME Base, ListedOnce, Justified, NEW p \in Value, NEW v \in Value, NEW s \in Sites(p),
         s[1] \in sealed, TrivialAs(p, s[1], s[2], v), alias[p] = NONE,
         alias' = [alias EXCEPT ![p] = v],
         UNCHANGED <<live, params, sealed, preds, term>>, Awaiting' \subseteq Awaiting
  PROVE  Justified'
<1>1. /\ p # v /\ alias[v] = NONE /\ Operands(s[1], s[2]) \subseteq {p, v} BY TrivialFacts
<1>2. \A u \in Value : Resolve(u)' = IF Resolve(u) = p THEN v ELSE Resolve(u)
  BY <1>1, EndForwarded
<1>0. live \subseteq Block /\ Forwarding(alias) /\ alias \in [Value -> Value \cup {NONE}]
  BY DEF Base, TypeOK, FuncOK
<1> SUFFICES ASSUME NEW b \in live, NEW i \in DOMAIN params[b], NEW q \in Value, q = params[b][i],
                    q \in Awaiting', alias'[q] # NONE
             PROVE  b \in sealed /\ Operands(b, i)' \subseteq {Resolve(q)'}
  <2>1. \A b \in live : \A i \in DOMAIN params[b] : params[b][i] \in Value BY <1>0, EdgeFacts
  <2>2. ASSUME NEW b \in live, NEW i \in DOMAIN params[b], NEW q \in Value, q = params[b][i]
        PROVE Resolve(params[b][i])' = Resolve(q)'
    BY <2>2 DEF Resolve
  <2> QED BY <2>1, <2>2 DEF Justified
<1>3. ASSUME NEW w \in Operands(b, i)' PROVE \E u \in Operands(b, i) : w = IF u = p THEN v ELSE u
  BY <1>0, <1>2, OperandsMapped
<1>4. CASE q = p
  <2>1. s[1] \in Block /\ s[2] \in DOMAIN params[s[1]] /\ params[s[1]][s[2]] = p BY SiteFacts
  <2>2. b = s[1] /\ i = s[2]
    <3>1. \A c \in Block : \A j \in DOMAIN params[c] : params[c][j] = p => b = c /\ i = j
      BY <1>0, <1>4 DEF ListedOnce
    <3> QED BY <2>1, <3>1
  <2>3. Resolve(p) = p BY <1>0, ResolveFacts, RootDef
  <2>4. Resolve(q)' = v BY <1>2, <1>4, <2>3
  <2> QED BY <1>1, <1>3, <2>2, <2>4
<1>5. CASE q # p
  <2>1. alias[q] # NONE /\ q \in Awaiting BY <1>0, <1>5
  <2>2. b \in sealed /\ Operands(b, i) \subseteq {Resolve(q)} BY <2>1 DEF Justified
  <2>3. Resolve(q)' = IF Resolve(q) = p THEN v ELSE Resolve(q) BY <1>2
  <2> QED BY <1>3, <2>2, <2>3
<1> QED BY <1>4, <1>5

\* A parameter that forwards already can only be made to forward where it does.
LEMMA ElimForwardAgain ==
  ASSUME Base, Justified, NEW p \in Value, NEW v \in Value, ElimForward(p, v), alias[p] # NONE
  PROVE  v = Resolve(p)
<1>1. PICK s \in Sites(p) : TrivialAs(p, s[1], s[2], v) BY DEF ElimForward, IsTrivial
<1>2. s[1] \in live /\ s[2] \in DOMAIN params[s[1]] /\ params[s[1]][s[2]] = p BY SiteFacts
<1>3. p \in Awaiting
  <2>1. elim.work \subseteq DOMAIN elim.users BY DEF Base, TypeOK, JobOK, ElimOK
  <2> QED BY <2>1 DEF ElimForward, Awaiting
<1>4. Operands(s[1], s[2]) \subseteq {Resolve(p)} BY <1>2, <1>3 DEF Justified
<1> QED BY <1>1, <1>4, TrivialFacts

LEMMA AwaitingStep ==
  ASSUME Core, CallSealed, Next, ~ReadNewParam
  PROVE  Awaiting' \subseteq Awaiting
<1>b. Base BY DEF Core
<1>e. ElimOK BY DEF Core, Base, TypeOK, JobOK
<1>1. CASE DrainedSealAll
  <2>1. /\ pending' = <<>> /\ DOMAIN elim'.users = Range(pending) /\ elim'.removed = {}
    BY <1>1 DEF DrainedSealAll
  <2>2. Range(<<>>) = {} BY EmptySeq, LenProperties DEF Range
  <2> QED BY <2>1, <2>2 DEF Awaiting
<1>2. CASE pending' = pending
  <2>1. CASE elim' = elim BY <2>1, <1>2 DEF Awaiting
  <2>2. CASE elim' = NoElim BY <2>2, <1>2 DEF Awaiting, NoElim
  <2>3. CASE DrainedSealAll BY <2>3, <1>1
  <2>4. CASE Eliminates
    <3>1. DOMAIN elim'.users = DOMAIN elim.users /\ elim.removed \subseteq elim'.removed
      BY <2>4 DEF Eliminates, ElimForward
    <3> QED BY <3>1, <1>2 DEF Awaiting
  <2>5. ASSUME NEW p \in Value, ElimSkip(p) PROVE Awaiting' \subseteq Awaiting
    <3>1. elim' = [elim EXCEPT !.work = elim.work \ {p}] BY <2>5 DEF ElimSkip
    <3>2. elim'.users = elim.users /\ elim'.removed = elim.removed BY <3>1, <1>e DEF ElimOK
    <3> QED BY <3>2, <1>2 DEF Awaiting
  <2> QED BY <2>1, <2>2, <2>3, <2>4, <2>5, CallChanges
<1> QED BY <1>1, <1>2, Changes

LEMMA JustifiedStep ==
  ASSUME Core, Numbered, ListedOnce, CallSealed, Justified, Next, ~Replaces
  PROVE  Justified'
<1>b. Base BY DEF Core
<1>t. /\ live \subseteq Block /\ term \in [Block -> Seq(Edge)] /\ params \in [Block -> Seq(Value)]
      /\ preds \in [Block -> Seq(Block)] /\ Forwarding(alias)
  BY DEF Core, Base, TypeOK, FuncOK, SsaOK
<1>1. CASE ForwardParam
  <2>1. PICK v \in Value : CanForward(Head(todo), v) /\ alias' = [alias EXCEPT ![Head(todo)] = v]
    BY <1>1 DEF ForwardParam
  <2>2. PICK p : p = Head(todo) OBVIOUS
  <2>3. PICK s \in Sites(p) : s[1] \in sealed /\ TrivialAs(p, s[1], s[2], v) BY <2>1, <2>2 DEF CanForward
  <2>4. p \in Value /\ alias[p] = NONE BY <1>b, <2>1, <2>2, <2>3, TrivialFacts DEF CanForward
  <2>5. UNCHANGED <<live, params, sealed, preds, term>> BY <1>1 DEF ForwardParam, ssa
  <2>6. Awaiting' \subseteq Awaiting BY <1>1, AwaitingStep DEF ForwardParam, ReadNewParam
  <2>7. alias' = [alias EXCEPT ![p] = v] BY <2>1, <2>2
  <2> QED BY <1>b, <2>3, <2>4, <2>5, <2>6, <2>7, JustifiedForwarded
<1>2. CASE Eliminates
  <2>1. PICK p \in Value, v \in Value : ElimForward(p, v) BY <1>2 DEF Eliminates
  <2>2. PICK s \in Sites(p) : TrivialAs(p, s[1], s[2], v) BY <2>1 DEF ElimForward, IsTrivial
  <2>3. UNCHANGED <<live, params, sealed, preds, term>> /\ alias' = [alias EXCEPT ![p] = v]
        /\ pc = "eliminate"
    BY <2>1 DEF ElimForward, ssa
  <2>4. Awaiting' \subseteq Awaiting BY <2>3, AwaitingStep DEF ReadNewParam
  <2>5. s[1] \in sealed
    <3>1. s[1] \in live BY <1>b, SiteFacts
    <3> QED BY <2>3, <3>1 DEF CallSealed
  <2>6. CASE alias[p] = NONE
    BY <1>b, <2>2, <2>3, <2>4, <2>5, <2>6, JustifiedForwarded
  <2>7. CASE alias[p] # NONE
    <3>1. v = Resolve(p) BY <1>b, <2>1, <2>7, ElimForwardAgain
    <3>2. \A u \in Value : Resolve(u)' = Resolve(u) BY <1>b, <2>3, <2>7, <3>1, EndRepeated
    <3>3. \A q \in Value : alias'[q] # NONE => alias[q] # NONE
      <4>1. alias \in [Value -> Value \cup {NONE}] BY <1>t DEF Forwarding
      <4> QED BY <2>3, <2>7, <4>1
    <3> SUFFICES ASSUME NEW b \in live, NEW i \in DOMAIN params[b], NEW q \in Value, q = params[b][i],
                        q \in Awaiting', alias'[q] # NONE
                 PROVE  b \in sealed /\ Operands(b, i)' \subseteq {Resolve(q)'}
      <4>1. \A b \in live : \A i \in DOMAIN params[b] : params[b][i] \in Value BY <1>b, <1>t, EdgeFacts
      <4>2. ASSUME NEW b \in live, NEW i \in DOMAIN params[b], NEW q \in Value, q = params[b][i]
            PROVE Resolve(params[b][i])' = Resolve(q)'
        BY <2>3, <4>2 DEF Resolve
      <4> QED BY <2>3, <4>1, <4>2 DEF Justified
    <3>4. b \in sealed /\ Operands(b, i) \subseteq {Resolve(q)} BY <2>4, <3>3 DEF Justified
    <3>5. \A u \in Value : Resolve(u)' = IF Resolve(u) = p THEN p ELSE Resolve(u) BY <3>2
    <3>6. ASSUME NEW w \in Operands(b, i)' PROVE w \in Operands(b, i)
      <4>1. b \in Block /\ p \in Value BY <1>t, <2>1
      <4>2. term' = term /\ preds' = preds BY <2>3
      <4>3. \E u \in Operands(b, i) : w = IF u = p THEN p ELSE u
        BY <1>b, <3>5, <4>1, <4>2, OperandsMapped
      <4> QED BY <4>3
    <3> QED BY <3>2, <3>4, <3>6
  <2> QED BY <2>6, <2>7
<1>3. ASSUME ~ForwardParam, ~Eliminates PROVE alias' = alias
  BY <1>3, Changes
<1>4. CASE Finds /\ ~ReadNewParam
  <2>1. params' = params BY <1>4 DEF Finds, ReadHit, ReadZero
  <2>2. Awaiting' \subseteq Awaiting BY <1>4, AwaitingStep
  <2>3. \A b \in live' : \A i \in DOMAIN params[b] :
            b \in sealed /\ NONE \notin Operands(b, i) => Operands(b, i)' \subseteq Operands(b, i)
    BY <1>4, <1>b, <1>t, OperandsDelivered, FindFacts
  <2> QED BY <1>4, <1>b, <2>1, <2>2, <2>3, FindFacts, JustifiedKept
<1>5. CASE ReadNewParam
  <2>0. Finds /\ nvals + 1 \in Value /\ nvals \in Nat BY <1>5, <1>b, NewParamFacts DEF Finds
  <2>1. UNCHANGED <<live, sealed, alias, preds, elim>> BY <2>0, <1>b, FindFacts
  <2>2. params' = [params EXCEPT ![rd.at] = Append(params[rd.at], nvals + 1)]
        /\ pending' = Append(pending, nvals + 1)
    BY <1>5 DEF ReadNewParam
  <2>3. Awaiting' = Awaiting \cup {nvals + 1}
    <3>1. Range(pending') = Range(pending) \cup {nvals + 1}
      BY <1>b, <2>0, <2>2, JobSeqs, RangeAppend
    <3> QED BY <2>1, <3>1 DEF Awaiting
  <2>4. alias[nvals + 1] = NONE
    <3>1. nvals + 1 > nvals BY <2>0
    <3> QED BY <2>0, <3>1 DEF Numbered
  <2>5. ASSUME NEW b \in live, NEW i \in DOMAIN params'[b], params'[b][i] # nvals + 1
        PROVE  i \in DOMAIN params[b] /\ params'[b][i] = params[b][i]
    <3>1. CASE b # rd.at BY <3>1, <2>2, <1>t
    <3>2. CASE b = rd.at
      <4>1. params[b] \in Seq(Value) BY <1>t
      <4>2. params'[b] = Append(params[b], nvals + 1) BY <3>2, <2>2, <1>t
      <4> QED BY <4>1, <4>2, <2>0, <2>5, AppendProperties, LenProperties
    <3> QED BY <3>1, <3>2
  <2> SUFFICES ASSUME NEW b \in live, NEW i \in DOMAIN params'[b],
                      params'[b][i] \in Awaiting', alias[params'[b][i]] # NONE
               PROVE  b \in sealed /\ Operands(b, i)' \subseteq {Root(alias, params'[b][i])}
    <3>1. \A b \in live, i \in Nat : Resolve(params[b][i])' = Root(alias, params'[b][i])
      BY <2>1 DEF Resolve, Root
    <3>2. \A b \in live : DOMAIN params'[b] \subseteq Nat
      <4>1. params' \in [Block -> Seq(Value)]
        BY <1>5, <1>b, BaseReadNewParam, Steps DEF Base, TypeOK, FuncOK
      <4>2. ASSUME NEW b \in live PROVE DOMAIN params'[b] \subseteq Nat
        BY <1>t, <4>1, LenProperties
      <4> QED BY <4>2
    <3> QED BY <2>1, <3>1, <3>2 DEF Justified
  <2>6. params'[b][i] # nvals + 1 BY <2>4
  <2>7. i \in DOMAIN params[b] /\ params'[b][i] = params[b][i] BY <2>5, <2>6
  <2>8. params[b][i] \in Value BY <1>b, <1>t, <2>7, EdgeFacts
  <2>9. b \in sealed /\ Operands(b, i) \subseteq {Resolve(params[b][i])}
    BY <2>3, <2>6, <2>7 DEF Justified
  <2>10. Resolve(params[b][i]) \in Value /\ Resolve(params[b][i]) = Root(alias, params[b][i])
    BY <1>t, <2>8, ResolveFacts
  <2>11. NONE \notin Operands(b, i) BY <2>9, <2>10, NoneIsNoValue
  <2>12. b \in Block BY <1>t
  <2>13. Operands(b, i)' = Operands(b, i) BY <1>b, <2>0, <2>11, <2>12, OperandsDelivered
  <2> QED BY <2>7, <2>9, <2>10, <2>13
<1>6. ASSUME NEW r \in Block, RemoveTerminator(r) \/ RemoveBlock(r) PROVE Justified'
  <2>1. /\ preds' = WithoutEdgesFrom(r) /\ term' = [term EXCEPT ![r] = <<>>]
        /\ UNCHANGED <<alias, sealed, pending, elim>>
        /\ live' \subseteq live /\ \A b \in live' : params'[b] = params[b]
    <3>1. CASE RemoveTerminator(r) BY <3>1 DEF RemoveTerminator, job
    <3>2. CASE RemoveBlock(r)
      <4>1. live' = live \ {r} /\ params' = [params EXCEPT ![r] = <<>>] BY <3>2 DEF RemoveBlock
      <4>2. \A b \in live' : params'[b] = params[b] BY <4>1, <1>t
      <4> QED BY <3>2, <4>1, <4>2 DEF RemoveBlock, job
    <3> QED BY <1>6, <3>1, <3>2
  <2>2. Awaiting' = Awaiting BY <2>1 DEF Awaiting
  <2>3. Edges' BY <2>1, <1>6, TermOffEdges DEF Core, RemoveTerminator, RemoveBlock
  <2>4. ASSUME NEW b \in live', NEW i, NEW w \in Operands(b, i)' PROVE w \in Operands(b, i)
    <3>0. b \in Block BY <1>t, <2>1
    <3>1. PICK q \in Range(preds'[b]) : \E k \in EdgesInto(q, b)' :
            w = IF i \in DOMAIN term'[q][k].args THEN Resolve(term[q][k].args[i])' ELSE NONE
      BY DEF Operands
    <3>2. EdgesInto(q, b)' # {} /\ q \in Block BY <2>3, <3>0, <3>1 DEF Edges, PredsCurrent
    <3>3. q # r
      <4>1. ASSUME q = r PROVE FALSE
        <5>1. term'[q] = <<>> BY <4>1, <2>1, <1>t
        <5>2. EdgesInto(q, b)' = {} BY <5>1, EmptySeq, LenProperties DEF EdgesInto
        <5> QED BY <3>2, <5>2
      <4> QED BY <4>1
    <3>4. term'[q] = term[q] /\ EdgesInto(q, b)' = EdgesInto(q, b) BY <3>2, <3>3, <2>1, <1>t DEF EdgesInto
    <3>5. PICK k \in EdgesInto(q, b) :
            w = IF i \in DOMAIN term'[q][k].args THEN Resolve(term[q][k].args[i])' ELSE NONE
      BY <3>1, <3>4
    <3>6. q \in Range(preds[b]) BY <3>0, <3>2, <3>4 DEF Core, Edges, PredsCurrent
    <3>7. Resolve(term[q][k].args[i])' = Root(alias, term'[q][k].args[i]) BY <2>1 DEF Resolve, Root
    <3>8. w = Arg(q, k, i) BY <3>4, <3>5, <3>7 DEF Arg, Resolve, Root
    <3> QED BY <3>5, <3>6, <3>8, OperandIs
  <2>5. sealed \subseteq sealed' /\ alias' = alias /\ Awaiting' \subseteq Awaiting
        /\ live' \subseteq live /\ \A b \in live' : params'[b] = params[b]
    BY <2>1, <2>2
  <2>6. \A b \in live' : \A i \in DOMAIN params[b] :
            b \in sealed /\ NONE \notin Operands(b, i) => Operands(b, i)' \subseteq Operands(b, i)
    BY <2>4
  <2> QED BY <1>b, <2>5, <2>6, JustifiedKept
<1>7. CASE NewTermInstall
  <2>1. /\ preds' = [d \in Block |-> IF d \in Dests(call.term) THEN Append(preds[d], call.block) ELSE preds[d]]
        /\ term' = [term EXCEPT ![call.block] = call.term]
        /\ Dests(call.term) \subseteq live \ {Entry} /\ pc = "newterm"
        /\ UNCHANGED <<alias, sealed, pending, live, params>>
    BY <1>7 DEF NewTermInstall
  <2>2. call.op = "term" /\ call.block \notin terminated BY <2>1 DEF Core, Base, CallShape
  <2>3. Dests(call.term) \cap sealed = {} BY <2>1, <2>2 DEF CallSealed
  <2>4. Awaiting' \subseteq Awaiting BY <2>1, AwaitingStep DEF ReadNewParam
  <2>5. ASSUME NEW b \in live, b \in sealed, NEW i PROVE Operands(b, i)' = Operands(b, i)
    <3>0. b \in Block BY <1>t
    <3>1. preds'[b] = preds[b] BY <2>1, <2>3, <2>5, <3>0
    <3>2. call.block \notin Range(preds[b])
      <4>1. call.block \in Block /\ term[call.block] = <<>> BY <1>b, <2>2, JobSeqs DEF Core, Edges
      <4>2. EdgesInto(call.block, b) = {} BY <4>1, EmptySeq, LenProperties DEF EdgesInto
      <4> QED BY <3>0, <4>2 DEF Core, Edges, PredsCurrent
    <3>3. ASSUME NEW q \in Range(preds[b]) PROVE term'[q] = term[q] /\ EdgesInto(q, b)' = EdgesInto(q, b)
      <4>1. q \in Block /\ q # call.block BY <1>b, <3>0, <3>2, PredFacts
      <4> QED BY <4>1, <2>1, <1>t DEF EdgesInto
    <3>4. ASSUME NEW w PROVE w \in Operands(b, i)' <=> w \in Operands(b, i)
      <4>1. w \in Operands(b, i)' <=>
              \E p \in Range(preds[b]) : \E k \in EdgesInto(p, b) :
                 w = IF i \in DOMAIN term'[p][k].args THEN Root(alias, term'[p][k].args[i]) ELSE NONE
        <5>1. Range(preds[b])' = Range(preds[b]) BY <3>1
        <5>2. alias' = alias BY <2>1
        <5> QED BY <3>3, <5>1, <5>2 DEF Operands, Resolve, Root
      <4>2. w \in Operands(b, i) <=>
              \E p \in Range(preds[b]) : \E k \in EdgesInto(p, b) :
                 w = IF i \in DOMAIN term[p][k].args THEN Root(alias, term[p][k].args[i]) ELSE NONE
        BY DEF Operands, Resolve, Root
      <4> QED BY <4>1, <4>2, <3>3
    <3> QED BY <3>4
  <2> QED BY <1>b, <2>1, <2>4, <2>5, JustifiedKept
<1>8. CASE ElimRemove
  <2>1. pc = "eliminate" /\ pending' = pending /\ elim' = NoElim BY <1>8 DEF ElimRemove, ssa, Return
  <2>2. pending' = <<>> BY <2>1 DEF CallSealed
  <2>3. Awaiting' = {} BY <2>1, <2>2, EmptySeq, LenProperties DEF Awaiting, NoElim, Range
  <2> QED BY <2>3 DEF Justified
<1>9. ASSUME ~ForwardParam, ~Eliminates, ~Finds, ~TakesOff, ~Removes, ~NewTermInstall, ~ElimRemove
      PROVE  Justified'
  <2>1. UNCHANGED <<alias, params, live, preds, term>> /\ ~ReadNewParam
    BY <1>9, Changes DEF Finds
  <2>2. sealed \subseteq sealed' BY Changes DEF Seals, SealBlock, SealAllBlocks
  <2>3. Awaiting' \subseteq Awaiting BY <2>1, AwaitingStep
  <2>4. \A b, i : Operands(b, i)' = Operands(b, i)
    BY <2>1 DEF Operands, EdgesInto, Resolve
  <2> QED BY <1>b, <2>1, <2>2, <2>3, <2>4, JustifiedKept
<1> QED BY <1>1, <1>2, <1>4, <1>5, <1>6, <1>7, <1>8, <1>9 DEF TakesOff, Removes

\* Without calls of replace_all_uses, no step takes back an equality between values.
Settled == Core /\ Numbered /\ ListedOnce /\ CallSealed

LEMMA SettledHolds == Spec => []Settled
<1>1. Init => Settled
  <2> SUFFICES ASSUME Init PROVE Settled OBVIOUS
  <2>0. DOMAIN <<>> = {} BY EmptySeq, LenProperties
  <2>1. Core BY CoreInit
  <2>2. Numbered BY <2>0 DEF Init, Numbered
  <2>3. ListedOnce BY <2>0 DEF Init, ListedOnce
  <2>4. CallSealed BY DEF Init, CallSealed, NoCall
  <2> QED BY <2>1, <2>2, <2>3, <2>4 DEF Settled
<1>2. Settled /\ [Next]_vars => Settled'
  <2>1. ASSUME Settled, Next PROVE Settled'
    BY <2>1, CoreStep, NumberedStep, ListedOnceStep, CallSealedStep DEF Settled
  <2>2. ASSUME Settled, UNCHANGED vars PROVE Settled'
    <3>1. Core' BY <2>2, CoreStep DEF Settled
    <3>2. Numbered' /\ ListedOnce' /\ CallSealed'
      BY <2>2 DEF Settled, Numbered, ListedOnce, CallSealed, Dests, vars, func, ssa, job
    <3> QED BY <3>1, <3>2 DEF Settled
  <2> QED BY <2>1, <2>2
<1> QED BY <1>1, <1>2, PTL DEF Spec

Plain == Settled /\ Justified /\ rewrites = {}

LEMMA PlainStep ==
  ASSUME MaxReplace = 0, Plain, [Next]_vars
  PROVE  /\ Plain'
         /\ ~Replaces
<1>1. ~Replaces
  <2>1. Cardinality(rewrites) = 0 BY FS_EmptySet DEF Plain
  <2> QED BY <2>1 DEF Replaces, ReplaceAllUses
<1>2. CASE Next
  <2>1. Settled'
    BY <1>2, CoreStep, NumberedStep, ListedOnceStep, CallSealedStep DEF Plain, Settled
  <2>2. Justified' BY <1>1, <1>2, JustifiedStep DEF Plain, Settled
  <2>3. rewrites' = {} BY <1>1, <1>2, Changes DEF Plain, Settled
  <2> QED BY <1>1, <2>1, <2>2, <2>3 DEF Plain
<1>3. CASE UNCHANGED vars
  <2>1. Core' BY <1>3, CoreStep DEF Plain, Settled
  <2>2. Numbered' /\ ListedOnce' /\ CallSealed' /\ rewrites' = {}
    BY <1>3 DEF Plain, Settled, Numbered, ListedOnce, CallSealed, Dests, vars, func, ssa, job, hist
  <2>3. Justified'
    BY <1>3 DEF Plain, Justified, Awaiting, Operands, EdgesInto, Resolve, vars, func, ssa, job
  <2> QED BY <1>1, <2>1, <2>2, <2>3 DEF Plain, Settled
<1> QED BY <1>2, <1>3

LEMMA PlainHolds == MaxReplace = 0 => (Spec => []Plain)
<1> SUFFICES ASSUME MaxReplace = 0 PROVE Spec => []Plain OBVIOUS
<1>1. Init => Plain
  <2> SUFFICES ASSUME Init PROVE Plain OBVIOUS
  <2>0. DOMAIN <<>> = {} BY EmptySeq, LenProperties
  <2>1. Core BY CoreInit
  <2>2. Numbered BY <2>0 DEF Init, Numbered
  <2>3. ListedOnce BY <2>0 DEF Init, ListedOnce
  <2>4. CallSealed BY DEF Init, CallSealed, NoCall
  <2>5. Justified
    <3>1. \A b \in live : DOMAIN params[b] = {} BY <2>0, <2>1 DEF Init, Core, Base, TypeOK, FuncOK
    <3> QED BY <3>1 DEF Justified
  <2>6. rewrites = {} BY DEF Init
  <2> QED BY <2>1, <2>2, <2>3, <2>4, <2>5, <2>6 DEF Settled, Plain
<1>2. Plain /\ [Next]_vars => Plain' BY PlainStep
<1> QED BY <1>1, <1>2, PTL DEF Spec

LEMMA EqualKept ==
  ASSUME MaxReplace = 0, Plain, [Next]_vars, NEW u \in Value, NEW v \in Value,
         Root(alias, u) = Root(alias, v)
  PROVE  Root(alias', u) = Root(alias', v)
<1>b. Base /\ Core /\ Justified /\ ~Replaces BY PlainStep DEF Plain, Settled, Core
<1>r. Resolve(u) = Root(alias, u) /\ Resolve(v) = Root(alias, v) BY <1>b, ResolveFacts DEF Base
<1>1. CASE alias' = alias BY <1>1
<1>2. ASSUME NEW p \in Value, NEW r \in Value, NEW s \in Sites(p), TrivialAs(p, s[1], s[2], r),
             alias[p] = NONE, alias' = [alias EXCEPT ![p] = r]
      PROVE  Root(alias', u) = Root(alias', v)
  <2>1. p # r /\ alias[r] = NONE BY <1>2, <1>b, TrivialFacts
  <2>2. \A w \in Value : Resolve(w)' = IF Resolve(w) = p THEN r ELSE Resolve(w)
    BY <1>2, <1>b, <2>1, EndForwarded
  <2> QED BY <1>r, <2>2, ResolvePrime
<1>3. CASE ForwardParam
  <2>1. PICK r \in Value : CanForward(Head(todo), r) /\ alias' = [alias EXCEPT ![Head(todo)] = r]
    BY <1>3 DEF ForwardParam
  <2>2. PICK p : p = Head(todo) OBVIOUS
  <2>3. PICK s \in Sites(p) : TrivialAs(p, s[1], s[2], r) BY <2>1, <2>2 DEF CanForward
  <2>4. p \in Value /\ alias[p] = NONE BY <1>b, <2>1, <2>2, <2>3, TrivialFacts DEF CanForward
  <2>5. alias' = [alias EXCEPT ![p] = r] BY <2>1, <2>2
  <2> QED BY <1>2, <2>3, <2>4, <2>5
<1>4. CASE Eliminates
  <2>1. PICK p \in Value, r \in Value : ElimForward(p, r) BY <1>4 DEF Eliminates
  <2>2. PICK s \in Sites(p) : TrivialAs(p, s[1], s[2], r) BY <2>1 DEF ElimForward, IsTrivial
  <2>3. alias' = [alias EXCEPT ![p] = r] BY <2>1 DEF ElimForward
  <2>4. CASE alias[p] = NONE BY <1>2, <2>2, <2>3, <2>4
  <2>5. CASE alias[p] # NONE
    <3>1. r = Resolve(p) BY <1>b, <2>1, <2>5, ElimForwardAgain
    <3>2. \A w \in Value : Resolve(w)' = Resolve(w) BY <1>b, <2>3, <2>5, <3>1, EndRepeated
    <3> QED BY <1>r, <3>2, ResolvePrime
  <2> QED BY <2>4, <2>5
<1>5. alias' = alias \/ ForwardParam \/ Eliminates
  <2>1. CASE UNCHANGED vars BY <2>1 DEF vars, func
  <2>2. CASE Next BY <1>b, <2>2, Changes
  <2> QED BY <2>1, <2>2
<1> QED BY <1>1, <1>3, <1>4, <1>5

\* No step takes back an equality between values: a parameter found trivial is made to
\* forward to what resolves like each of its operands, and one that forwards already is
\* found trivial only as what it forwards to.  (replace_all_uses is the front end's own
\* way of making values equal, and it may change its mind: the hypothesis leaves it out.)
THEOREM EqualitiesStay == MaxReplace = 0 => (Spec => EqualitiesKept)
<1> SUFFICES ASSUME MaxReplace = 0 PROVE Spec => EqualitiesKept OBVIOUS
<1>1. ASSUME Plain, [Next]_vars, NEW u \in Existing, NEW v \in Existing, Resolve(u) = Resolve(v)
      PROVE  Resolve(u)' = Resolve(v)'
  <2>1. u \in Value /\ v \in Value
    BY <1>1, CountAssumption DEF Plain, Settled, Core, Base, TypeOK, FuncOK, Existing, Value
  <2>2. Root(alias, u) = Root(alias, v)
    BY <1>1, <2>1, ResolveFacts DEF Plain, Settled, Core, Base
  <2> QED BY <1>1, <2>1, <2>2, EqualKept, ResolvePrime
<1>2. Plain /\ [Next]_vars =>
        [\A u, v \in Existing : Resolve(u) = Resolve(v) => Resolve(u)' = Resolve(v)']_vars
  BY <1>1
<1>3. Spec => []Plain BY PlainHolds
<1> QED BY <1>2, <1>3, PTL DEF Spec, EqualitiesKept

\* What the front end replaced, and what with, are values.
Rewritten == rewrites \subseteq Value \X Value

LEMMA RewrittenHolds == Spec => []Rewritten
<1>1. Init => Rewritten BY DEF Init, Rewritten
<1>2. ASSUME Core, Rewritten, [Next]_vars PROVE Rewritten'
  <2>1. CASE rewrites' = rewrites BY <1>2, <2>1 DEF Rewritten
  <2>2. CASE Replaces
    <3>1. PICK old \in Value, new \in Value : ReplaceAllUses(old, new) BY <2>2 DEF Replaces
    <3>2. Resolve(new) \in Value BY <1>2, ResolveFacts DEF Core, Base
    <3>3. rewrites' = {r \in rewrites : r[1] # old} \cup {<<old, Resolve(new)>>}
      BY <3>1 DEF ReplaceAllUses
    <3> QED BY <1>2, <3>2, <3>3 DEF Rewritten
  <2>3. CASE UNCHANGED vars BY <2>1, <2>3 DEF vars, hist
  <2> QED BY <1>2, <2>1, <2>2, <2>3, Changes
<1>3. Spec => []Core BY CoreHolds
<1> QED BY <1>1, <1>2, <1>3, PTL DEF Spec

\* Only the final pass of seal_all_blocks can take back a replacement the front end asked
\* for: forward_trivial makes no value forward that forwards already, and what forwarded
\* to the one it chooses goes along.
THEOREM RewritesStay == Spec => RewritesKeptOutsideElimination
<1>1. ASSUME Core, Rewritten, [Next]_vars, pc # "eliminate", rewrites' = rewrites, RewritesKept
      PROVE  RewritesKept'
  <2>b. Base /\ Forwarding(alias) BY <1>1 DEF Core, Base
  <2>1. CASE alias' = alias BY <1>1, <2>1 DEF RewritesKept, Resolve
  <2>2. CASE ForwardParam
    <3>1. PICK r \in Value : CanForward(Head(todo), r) /\ alias' = [alias EXCEPT ![Head(todo)] = r]
      BY <2>2 DEF ForwardParam
    <3>2. PICK p : p = Head(todo) OBVIOUS
    <3>3. PICK s \in Sites(p) : TrivialAs(p, s[1], s[2], r) BY <3>1, <3>2 DEF CanForward
    <3>4. p \in Value /\ p # r /\ alias[p] = NONE /\ alias[r] = NONE
      BY <2>b, <3>1, <3>2, <3>3, TrivialFacts DEF CanForward
    <3>5. alias' = [alias EXCEPT ![p] = r] BY <3>1, <3>2
    <3>6. \A v \in Value : Resolve(v)' = IF Resolve(v) = p THEN r ELSE Resolve(v)
      BY <2>b, <3>1, <3>4, <3>5, EndForwarded
    <3>7. ASSUME NEW v \in Value, NEW w \in Value, Resolve(v) = Resolve(w)
          PROVE  Root(alias', v) = Root(alias', w)
      BY <3>6, <3>7, ResolvePrime
    <3>8. \A d \in rewrites : Root(alias', d[1]) = Root(alias', d[2])
      BY <1>1, <3>7 DEF Rewritten, RewritesKept
    <3> QED BY <1>1, <3>8 DEF RewritesKept, Resolve, Root
  <2>3. CASE Replaces
    <3>1. PICK old \in Value, new \in Value : ReplaceAllUses(old, new) BY <2>3 DEF Replaces
    <3>2. <<old, Resolve(new)>> \in rewrites BY <1>1, <3>1 DEF ReplaceAllUses
    <3>3. Resolve(old) = Resolve(Resolve(new)) BY <1>1, <3>2 DEF RewritesKept
    <3>4. Resolve(new) \in Value /\ alias[Resolve(new)] = NONE BY <2>b, <3>1, ResolveFacts
    <3>5. Root(alias, Resolve(new)) = Resolve(new) BY <2>b, <3>4, RootDef
    <3>6. Resolve(Resolve(new)) = Resolve(new) BY <2>b, <3>4, <3>5, ResolveFacts
    <3> QED BY <3>1, <3>3, <3>6 DEF ReplaceAllUses
  <2>4. CASE Eliminates BY <1>1, <2>4 DEF Eliminates, ElimForward
  <2>5. CASE UNCHANGED vars BY <2>1, <2>5 DEF vars, func
  <2> QED BY <1>1, <2>1, <2>2, <2>3, <2>4, <2>5, Changes
<1>2. Core /\ Rewritten /\ [Next]_vars =>
        [pc # "eliminate" /\ rewrites' = rewrites /\ RewritesKept => RewritesKept']_vars
  BY <1>1
<1> QED BY <1>2, CoreHolds, RewrittenHolds, PTL DEF Spec, RewritesKeptOutsideElimination

------------------------------------------------------------------------------
(***************************************************************************)
(* What the edges of a function under construction carry, and that it is   *)
(* what the variables stand for: every edge into a sealed block has its    *)
(* arguments, each argument is its predecessor's final value, what a       *)
(* variable was found to be on entry to a block is what every predecessor  *)
(* hands it, and what a reachable block reads comes in by every path.      *)
(***************************************************************************)
Uses == \E x \in Var, b \in Block : UseVar(x, b)
Terminates == \E b \in Block, dests \in Seq(Block) : SetTerminator(b, dests)

\* What has just happened, by what comes next.
LEMMA CameFrom ==
  ASSUME Core, Next
  PROVE  /\ pc' = "read" => Uses \/ CompleteRead \/ NewTermRead \/ ReadThrough
         /\ pc' = "complete" => DrainPop \/ CompleteNext \/ (Finds /\ rd.for = "complete")
         /\ pc' = "newterm" =>
              Terminates \/ DrainedTerm \/ NewTermWant \/ (Finds /\ rd.for = "newterm")
         /\ pc' = "drain" => Seals \/ CompleteNext \/ NewTermPush \/ (Finds /\ rd.for = "use")
         /\ pc' = "eliminate" => pc = "eliminate" \/ DrainedSealAll
         /\ pc' = "forward" => pc = "forward" \/ DrainedUse \/ DrainedSeal
         /\ pc' = "idle" => pc = "idle" \/ ReadFails \/ NewTermInstall \/ NewTermRefuse
                             \/ ForwardDone \/ DrainedSealAllNone \/ ElimRemove \/ ElimNone
<1>1. Call \/ ReadStep \/ DrainStep \/ TermStep \/ ForwardStep \/ ElimStep BY Steps DEF Core
<1>2. CASE Call
  <2>1. Assigns \/ TakesOff \/ Removes \/ Replaces => pc' = "idle"
    BY DEF Assigns, TakesOff, Removes, Replaces, DefVar, RemoveTerminator, RemoveBlock, ReplaceAllUses, job
  <2>2. Seals => pc' = "drain" BY DEF Seals, SealBlock, SealAllBlocks
  <2>3. Terminates => pc' = "newterm" BY DEF Terminates, SetTerminator
  <2>4. Uses => pc' = "read" BY DEF Uses, UseVar
  <2>5. Assigns \/ TakesOff \/ Removes \/ Replaces \/ Seals \/ Terminates \/ Uses
    BY <1>2 DEF Call, Assigns, TakesOff, Removes, Replaces, Seals, Terminates, Uses
  <2>6. pc = "idle" BY <1>2, CallChanges
  <2> QED BY <2>1, <2>2, <2>3, <2>4, <2>5, <2>6
<1>3. CASE ReadStep
  BY <1>3 DEF ReadStep, ReadHit, ReadNewParam, ReadZero, ReadThrough, ReadFails, Finds, Deliver, Return, ssa, func
<1>4. CASE DrainStep
  BY <1>4 DEF DrainStep, DrainPop, CompleteRead, CompleteNext, DrainedUse, DrainedSeal, DrainedTerm
<1>5. CASE TermStep
  BY <1>5 DEF TermStep, NewTermWant, NewTermRead, NewTermPush, NewTermInstall, NewTermRefuse, Return
<1>6. CASE ForwardStep
  BY <1>6 DEF ForwardStep, ForwardParam, ForwardSkip, ForwardDone, Return
<1>7. CASE ElimStep
  BY <1>7 DEF ElimStep, DrainedSealAll, DrainedSealAllNone, ElimSkip, ElimForward, ElimRemove,
              ElimNone, Return
<1> QED BY <1>1, <1>2, <1>3, <1>4, <1>5, <1>6, <1>7

\* A call starts with nothing read for it yet.
LEMMA FreshCall ==
  ASSUME Core, Next, Call
  PROVE  /\ call'.want = <<>> /\ call'.got = <<>>
         /\ call'.op # "term" => call'.term = <<>>
         /\ \A k \in DOMAIN call'.term : call'.term[k].args = <<>>
<1>0. DOMAIN <<>> = {} BY EmptySeq, LenProperties
<1>a. pc = "idle" BY CallChanges
<1>1. call = NoCall BY <1>a DEF Core, Base, CallShape
<1>2. CASE Terminates
  BY <1>0, <1>2 DEF Terminates, SetTerminator, NoCall
<1>3. CASE Uses BY <1>0, <1>3 DEF Uses, UseVar, NoCall
<1>4. CASE Seals BY <1>0, <1>4 DEF Seals, SealBlock, SealAllBlocks, NoCall
<1>5. CASE Assigns \/ TakesOff \/ Removes \/ Replaces
  <2>1. call' = NoCall
    BY <1>1, <1>5 DEF Assigns, TakesOff, Removes, Replaces, DefVar, RemoveTerminator, RemoveBlock,
                      ReplaceAllUses, job
  <2> QED BY <2>1, <1>0 DEF NoCall
<1> QED BY <1>2, <1>3, <1>4, <1>5
      DEF Call, Assigns, TakesOff, Removes, Replaces, Seals, Terminates, Uses

\* Where a read came through, it goes on to record what it finds.
Origin == rd.chain \cup {rd.at}

\* A read in progress answers the question that complete, or complete_new, asked.
Reading ==
    pc = "read" =>
        /\ rd.at \in live
        /\ \A c \in rd.chain : c \in sealed /\ Len(preds[c]) = 1 /\ preds[c][1] \in Origin
        /\ rd.for = "complete" =>
              /\ cursor.i \in DOMAIN preds[cursor.block]
              /\ MinArgs(CursorPred, cursor.block) < Len(params[cursor.block])
              /\ rd.var = paramVar[params[cursor.block][MinArgs(CursorPred, cursor.block) + 1]]
              /\ CursorPred \in Origin
        /\ rd.for = "newterm" =>
              /\ Len(call.got) < Len(call.want)
              /\ rd.var = call.want[Len(call.got) + 1].var
              /\ call.block \in Origin

LEMMA PredLive ==
  ASSUME Core, NEW b \in Block, NEW i \in DOMAIN preds[b]
  PROVE  /\ preds[b][i] \in live /\ preds[b][i] \in terminated
         /\ preds[b][i] \in Block /\ EdgesInto(preds[b][i], b) # {}
<1>1. preds[b][i] \in Range(preds[b]) BY DEF Range
<1>2. preds[b][i] \in Block /\ EdgesInto(preds[b][i], b) # {} BY <1>1 DEF Core, Edges, PredsCurrent
<1>3. term[preds[b][i]] # <<>> BY <1>2, EmptySeq, LenProperties DEF EdgesInto
<1>4. preds[b][i] \in terminated BY <1>2, <1>3 DEF Core, Edges
<1>5. terminated \subseteq live BY DEF Core, Base, TypeOK, FuncOK
<1> QED BY <1>2, <1>4, <1>5

LEMMA ReadingStep ==
  ASSUME Core, Reading, Next
  PROVE  Reading'
<1>b. Base BY DEF Core
<1>1. CASE pc' # "read" BY <1>1 DEF Reading
<1>2. CASE Uses
  <2>1. PICK x \in Var, b \in Block : UseVar(x, b) BY <1>2 DEF Uses
  <2> QED BY <2>1 DEF UseVar, Reading, func
<1>3. CASE CompleteRead
  <2>1. cursor.i \in DOMAIN preds[cursor.block] BY <1>3 DEF CompleteRead, CursorLacks
  <2>2. CursorPred \in live BY <2>1, <1>b, PredLive, JobSeqs DEF CursorPred
  <2>3. /\ rd'.at = CursorPred /\ rd'.chain = {} /\ rd'.for = "complete"
        /\ rd'.var = paramVar[params[cursor.block][MinArgs(CursorPred, cursor.block) + 1]]
        /\ UNCHANGED <<live, preds, params, paramVar, cursor, term>>
    BY <1>3 DEF CompleteRead, Read, func, ssa
  <2>u. UNCHANGED <<preds, cursor, term>> BY <2>3
  <2>4. CursorPred' = CursorPred /\ MinArgs(CursorPred, cursor.block)' = MinArgs(CursorPred, cursor.block)
    BY <2>u DEF CursorPred, MinArgs, EdgesInto
  <2>5. MinArgs(CursorPred, cursor.block) < Len(params[cursor.block])
    BY <1>3 DEF CompleteRead, CursorLacks
  <2> QED BY <2>1, <2>2, <2>3, <2>4, <2>5 DEF Reading, Origin
<1>4. CASE NewTermRead
  <2>1. /\ rd'.at = call.block /\ rd'.chain = {} /\ rd'.for = "newterm"
        /\ rd'.var = call.want[Len(call.got) + 1].var
        /\ UNCHANGED <<live, call>> /\ Len(call.got) < Len(call.want) /\ pc = "newterm"
    BY <1>4 DEF NewTermRead, Read, func
  <2>2. call.block \in live BY <2>1, <1>b DEF Base, CallShape
  <2> QED BY <2>1, <2>2 DEF Reading, Origin
<1>5. CASE ReadThrough
  <2>1. /\ rd' = [rd EXCEPT !.chain = rd.chain \cup {rd.at}, !.at = preds[rd.at][1]]
        /\ rd.at \in sealed /\ Len(preds[rd.at]) = 1 /\ pc = "read"
        /\ UNCHANGED <<live, preds, params, paramVar, cursor, term, call, sealed>>
    BY <1>5 DEF ReadThrough, LooksThrough, func, ssa
  <2>2. /\ rd'.chain = rd.chain \cup {rd.at} /\ rd'.at = preds[rd.at][1]
        /\ rd'.for = rd.for /\ rd'.var = rd.var
    BY <2>1, <1>b DEF Base, TypeOK, JobOK
  <2>3. preds[rd.at][1] \in live
    <3>1. rd.at \in Block /\ preds[rd.at] \in Seq(Block) BY <1>b, JobSeqs, EdgeFacts
    <3>2. 1 \in DOMAIN preds[rd.at] BY <2>1, <3>1, LenProperties
    <3> QED BY <3>1, <3>2, PredLive
  <2>4. CursorPred' = CursorPred /\ MinArgs(CursorPred, cursor.block)' = MinArgs(CursorPred, cursor.block)
    BY <2>1 DEF CursorPred, MinArgs, EdgesInto
  <2>5. Origin' = Origin \cup {preds[rd.at][1]} BY <2>2 DEF Origin
  <2>6. \A c \in rd'.chain : c \in sealed' /\ Len(preds'[c]) = 1 /\ preds'[c][1] \in Origin'
    BY <2>1, <2>2, <2>5 DEF Reading
  <2> QED BY <2>1, <2>2, <2>3, <2>4, <2>5, <2>6 DEF Reading
<1> QED BY <1>1, <1>2, <1>3, <1>4, <1>5, CameFrom

\* Parameters are only added while a call runs, up to the final pass of seal_all_blocks.
LEMMA ParamsKept ==
  ASSUME Settled, Next, ~Removes, ~ElimRemove, NEW b \in Block
  PROVE  /\ Len(params[b]) <= Len(params'[b])
         /\ Len(params[b]) \in Nat /\ Len(params'[b]) \in Nat
         /\ \A i \in DOMAIN params[b] : /\ i \in DOMAIN params'[b] /\ params'[b][i] = params[b][i]
                                        /\ paramVar'[params[b][i]] = paramVar[params[b][i]]
<1>b. Core /\ Base /\ Numbered BY DEF Settled, Core
<1>1. params[b] \in Seq(Value) BY <1>b, EdgeFacts
<1>2. Len(params[b]) \in Nat /\ DOMAIN params[b] = 1..Len(params[b]) BY <1>1, LenProperties
<1>3. CASE ReadNewParam
  <2>1. nvals + 1 \in Value /\ nvals \in Nat BY <1>b, <1>3, NewParamFacts
  <2>2. params' = [params EXCEPT ![rd.at] = Append(params[rd.at], nvals + 1)]
        /\ paramVar' = [paramVar EXCEPT ![nvals + 1] = rd.var]
    BY <1>3 DEF ReadNewParam
  <2>3. params'[b] = params[b] \/ params'[b] = Append(params[b], nvals + 1)
    BY <2>2, <1>b DEF Base, TypeOK, FuncOK
  <2>4. /\ Len(params[b]) <= Len(params'[b]) /\ Len(params'[b]) \in Nat
        /\ \A i \in DOMAIN params[b] : i \in DOMAIN params'[b] /\ params'[b][i] = params[b][i]
    BY <1>1, <1>2, <2>1, <2>3, AppendProperties, LenProperties
  <2>5. ASSUME NEW i \in DOMAIN params[b] PROVE paramVar'[params[b][i]] = paramVar[params[b][i]]
    <3>1. params[b][i] <= nvals /\ params[b][i] \in Value BY <1>b, EdgeFacts DEF Numbered
    <3>2. params[b][i] # nvals + 1 BY <2>1, <3>1 DEF Value
    <3>3. paramVar \in [Value -> Var \cup {NONE}] BY <1>b DEF Base, TypeOK, SsaOK
    <3> QED BY <2>2, <3>1, <3>2, <3>3
  <2> QED BY <1>2, <2>4, <2>5
<1>4. CASE ~ReadNewParam
  <2>1. params' = params /\ paramVar' = paramVar BY <1>b, <1>4, Changes
  <2> QED BY <1>2, <2>1
<1> QED BY <1>3, <1>4

\* What complete_new has found out and has still to find out: for which edges of the new
\* terminator, which variables.
Wanted ==
    /\ call.op # "term" => call.term = <<>>
    /\ Len(call.got) <= Len(call.want)
    /\ call.want # <<>> => pc = "newterm" \/ (pc = "read" /\ rd.for = "newterm")
    /\ \A j \in DOMAIN call.want :
          LET e == call.term[call.want[j].edge] IN
          /\ call.want[j].edge \in DOMAIN call.term
          /\ Len(e.args) < Len(params[e.block])
          /\ call.want[j].var = paramVar[params[e.block][Len(e.args) + 1]]

LEMMA WantFacts ==
  ASSUME Base, NewTermWant
  PROVE  /\ call'.term = call.term /\ call'.op = call.op /\ call'.got = call.got
         /\ call'.block = call.block
         /\ \A j \in DOMAIN call'.want :
               LET e == call.term[call'.want[j].edge] IN
               /\ call'.want[j].edge \in Wanting
               /\ call'.want[j].var = paramVar[params[e.block][Len(e.args) + 1]]
<1> DEFINE s == [k \in DOMAIN call.term |-> k]
           ks == Pick(s, Wanting)
           NextParam(e) == params[e.block][Len(e.args) + 1]
           want == [j \in DOMAIN ks |-> [edge |-> ks[j], var |-> paramVar[NextParam(call.term[ks[j]])]]]
<1>1. call' = [call EXCEPT !.want = want] BY DEF NewTermWant
<1>2. Len(call.term) \in Nat /\ DOMAIN call.term = 1..Len(call.term) BY JobSeqs, LenProperties
<1>3. s \in Seq(Nat) /\ DOMAIN s = DOMAIN call.term /\ \A k \in DOMAIN call.term : s[k] = k
  <2>1. s \in [1..Len(call.term) -> Nat] /\ \A k \in DOMAIN call.term : s[k] = k BY <1>2
  <2> HIDE DEF s
  <2> QED BY <1>2, <2>1, FunctionSeq
<1>4. Wanting \in SUBSET (DOMAIN call.term) BY DEF Wanting
<1> HIDE DEF s
<1>5. \A j \in DOMAIN ks : ks[j] \in Wanting
  <2>1. /\ DOMAIN ks = 1..Cardinality(Wanting)
        /\ \A j \in 1..Cardinality(Wanting) : Nth(Wanting, j) \in Wanting
                                             /\ ks[j] = s[Nth(Wanting, j)]
    BY <1>3, <1>4, PickFacts
  <2> HIDE DEF ks
  <2> QED BY <1>3, <1>4, <2>1
<1> HIDE DEF ks
<1>6. \A j \in DOMAIN want : /\ want[j].edge \in Wanting
                              /\ want[j].var = paramVar[NextParam(call.term[want[j].edge])]
  BY <1>5
<1>7. call \in CallType BY DEF Base, TypeOK, JobOK, CallOK, CallType
<1> HIDE DEF want
<1>8. /\ call'.want = want /\ call'.term = call.term /\ call'.op = call.op /\ call'.got = call.got
      /\ call'.block = call.block
  BY <1>1, <1>7 DEF CallType
<1> QED BY <1>6, <1>8

LEMMA WantedStep ==
  ASSUME Settled, Reading, Wanted, Next
  PROVE  Wanted'
<1>b. Core /\ Base BY DEF Settled, Core
<1>0. DOMAIN <<>> = {} /\ Len(<<>>) = 0 BY EmptySeq, LenProperties
<1>t. call \in CallType BY SMTT(30), <1>b DEF Base, TypeOK, JobOK, CallOK, CallType
<1>e. ASSUME call'.want = <<>>, call'.got = <<>>, call'.op # "term" => call'.term = <<>>
      PROVE  Wanted'
  <2>1. DOMAIN call'.want = {} BY <1>e, <1>0
  <2>2. Len(call'.got) <= Len(call'.want) BY <1>e, <1>0
  <2>3. \A j \in DOMAIN call'.want :
          LET e == call'.term[call'.want[j].edge] IN
          /\ call'.want[j].edge \in DOMAIN call'.term
          /\ Len(e.args) < Len(params'[e.block])
          /\ call'.want[j].var = paramVar'[params'[e.block][Len(e.args) + 1]]
    BY <2>1
  <2> QED BY <1>e, <2>2, <2>3 DEF Wanted
<1>1. CASE Call
  <2>1. call'.want = <<>> /\ call'.got = <<>> /\ (call'.op # "term" => call'.term = <<>>)
    BY <1>1, <1>b, FreshCall
  <2> QED BY <2>1, <1>e
<1>2. CASE call' = NoCall
  <2>1. call'.want = <<>> /\ call'.got = <<>> /\ call'.term = <<>> BY <1>2 DEF NoCall
  <2> QED BY <2>1, <1>e
<1>k. ASSUME ~Call, call' # NoCall, NEW e \in Edge, Len(e.args) < Len(params[e.block])
      PROVE  /\ Len(e.args) < Len(params'[e.block])
             /\ paramVar'[params'[e.block][Len(e.args) + 1]] = paramVar[params[e.block][Len(e.args) + 1]]
  <2>1. ~Removes /\ ~ElimRemove BY <1>k DEF Call, Removes, ElimRemove, Return
  <2>2. e.block \in Block /\ e.args \in Seq(Value) BY DEF Edge
  <2>3. Len(e.args) \in Nat /\ params[e.block] \in Seq(Value) BY <1>b, <2>2, LenProperties, EdgeFacts
  <2>4. Len(e.args) + 1 \in DOMAIN params[e.block] BY <1>k, <2>3, LenProperties
  <2>5. /\ Len(params[e.block]) <= Len(params'[e.block])
        /\ Len(params[e.block]) \in Nat /\ Len(params'[e.block]) \in Nat
        /\ params'[e.block][Len(e.args) + 1] = params[e.block][Len(e.args) + 1]
        /\ paramVar'[params[e.block][Len(e.args) + 1]] = paramVar[params[e.block][Len(e.args) + 1]]
    BY <2>1, <2>2, <2>4, ParamsKept
  <2> QED BY <1>k, <2>3, <2>5
<1>w. ASSUME ~Call, call' # NoCall, call'.want = call.want, call'.term = call.term,
             NEW j \in DOMAIN call.want
      PROVE  LET e == call'.term[call'.want[j].edge] IN
             /\ call'.want[j].edge \in DOMAIN call'.term
             /\ Len(e.args) < Len(params'[e.block])
             /\ call'.want[j].var = paramVar'[params'[e.block][Len(e.args) + 1]]
  <2>1. PICK e : e = call.term[call.want[j].edge] OBVIOUS
  <2>2. /\ call.want[j].edge \in DOMAIN call.term
        /\ Len(e.args) < Len(params[e.block])
        /\ call.want[j].var = paramVar[params[e.block][Len(e.args) + 1]]
    BY <2>1 DEF Wanted
  <2>3. e \in Edge BY <2>1, <2>2, <1>b, EdgeFacts
  <2>4. /\ Len(e.args) < Len(params'[e.block])
        /\ paramVar'[params'[e.block][Len(e.args) + 1]] = paramVar[params[e.block][Len(e.args) + 1]]
    BY <1>w, <1>k, <2>2, <2>3
  <2> QED BY <1>w, <2>1, <2>2, <2>4
<1>3. CASE ~Call /\ call' = call /\ call' # NoCall
  <2>1. call.want # <<>> => pc' = "newterm" \/ (pc' = "read" /\ rd'.for = "newterm")
    <3>1. CASE pc = "newterm" /\ call.want # <<>>
      <4>1. TermStep /\ pc \notin {"read", "drain", "complete", "forward", "eliminate"}
        BY <1>3, <1>b, <3>1, Steps
           DEF ReadStep, ReadHit, ReadNewParam, ReadZero, ReadThrough, ReadFails,
               DrainStep, DrainPop, CompleteRead, CompleteNext, DrainedUse, DrainedSeal, DrainedTerm,
               ForwardStep, ForwardParam, ForwardSkip, ForwardDone,
               ElimStep, DrainedSealAll, DrainedSealAllNone, ElimSkip, ElimForward, ElimRemove, ElimNone
      <4>2. NewTermRead \/ NewTermPush
        BY <3>1, <4>1 DEF TermStep, NewTermWant, NewTermInstall, NewTermRefuse
      <4>3. NewTermPush => call'.want = <<>> BY <1>b, PushFacts
      <4> QED BY <1>3, <3>1, <4>2, <4>3 DEF NewTermRead, Read
    <3>2. CASE pc = "read" /\ rd.for = "newterm"
      <4>1. ReadStep
        BY <1>3, <1>b, <3>2, Steps
           DEF TermStep, NewTermWant, NewTermRead, NewTermPush, NewTermInstall, NewTermRefuse,
               DrainStep, DrainPop, CompleteRead, CompleteNext, DrainedUse, DrainedSeal, DrainedTerm,
               ForwardStep, ForwardParam, ForwardSkip, ForwardDone,
               ElimStep, DrainedSealAll, DrainedSealAllNone, ElimSkip, ElimForward, ElimRemove, ElimNone
      <4>2. ~ReadFails BY <1>3 DEF ReadFails, Return
      <4>3. Finds => pc' = "newterm"
        <5>1. ASSUME Finds PROVE pc' = "newterm"
          <6>1. PICK v \in Value : Deliver(v) BY <5>1, <1>b, FindFacts
          <6> QED BY <3>2, <6>1 DEF Deliver
        <5> QED BY <5>1
      <4>4. ReadThrough => pc' = "read" /\ rd'.for = "newterm"
        BY <3>2, <1>b DEF ReadThrough, Base, TypeOK, JobOK
      <4> QED BY <4>1, <4>2, <4>3, <4>4 DEF ReadStep, Finds
    <3> QED BY <3>1, <3>2 DEF Wanted
  <2>2. \A j \in DOMAIN call.want :
          LET e == call'.term[call'.want[j].edge] IN
          /\ call'.want[j].edge \in DOMAIN call'.term
          /\ Len(e.args) < Len(params'[e.block])
          /\ call'.want[j].var = paramVar'[params'[e.block][Len(e.args) + 1]]
    BY <1>3, <1>w
  <2> QED BY <1>3, <2>1, <2>2 DEF Wanted
<1>4. CASE ~Call /\ Finds /\ rd.for = "newterm" /\ call' # NoCall /\ call' # call
  <2>1. PICK v \in Value : Deliver(v) BY <1>4, <1>b, FindFacts
  <2>2. call' = [call EXCEPT !.got = Append(call.got, v)] /\ pc' = "newterm" /\ pc = "read"
    BY <1>4, <2>1, <1>b, FindFacts DEF Deliver
  <2>3. call'.want = call.want /\ call'.term = call.term /\ call'.got = Append(call.got, v)
        /\ call'.op = call.op
    BY <2>2, <1>t DEF CallType
  <2>4. Len(call'.got) <= Len(call'.want)
    <3>1. Len(call.got) < Len(call.want) BY <1>4, <2>2 DEF Reading
    <3>2. call.got \in Seq(Value) /\ call.want \in Seq([edge : Nat, var : Var]) BY <1>b, JobSeqs
    <3>3. Len(call.got) \in Nat /\ Len(call.want) \in Nat BY <3>2, LenProperties
    <3>4. Len(Append(call.got, v)) = Len(call.got) + 1 BY <3>2, AppendProperties, LenProperties
    <3> QED BY <2>3, <3>1, <3>3, <3>4
  <2>5. \A j \in DOMAIN call.want :
          LET e == call'.term[call'.want[j].edge] IN
          /\ call'.want[j].edge \in DOMAIN call'.term
          /\ Len(e.args) < Len(params'[e.block])
          /\ call'.want[j].var = paramVar'[params'[e.block][Len(e.args) + 1]]
    BY <1>4, <1>w, <2>3
  <2> QED BY <2>2, <2>3, <2>4, <2>5 DEF Wanted
<1>5. CASE NewTermWant
  <2>1. pc' = "newterm" /\ params' = params /\ paramVar' = paramVar /\ pc = "newterm"
    BY <1>5 DEF NewTermWant, func, ssa
  <2>2. call.op = "term" BY SMTT(30), <2>1, <1>b DEF Base, CallShape
  <2>3. call'.term = call.term /\ call'.op = call.op /\ call'.got = call.got BY <1>5, <1>b, WantFacts
  <2>4. Len(call'.got) <= Len(call'.want)
    <3>1. Len(call.got) <= 0 BY <1>5, <1>0 DEF NewTermWant, Wanted
    <3>2. call'.want \in Seq([edge : Nat, var : Var])
      BY SMTT(30), <1>b, CoreStep, JobSeqs DEF Core, Base, TypeOK, JobOK, CallOK
    <3>3. Len(call'.want) \in Nat /\ Len(call.got) \in Nat BY <3>2, <1>b, JobSeqs, LenProperties
    <3> QED BY <2>3, <3>1, <3>3
  <2>5. ASSUME NEW j \in DOMAIN call'.want
        PROVE LET e == call'.term[call'.want[j].edge] IN
          /\ call'.want[j].edge \in DOMAIN call'.term
          /\ Len(e.args) < Len(params'[e.block])
          /\ call'.want[j].var = paramVar'[params'[e.block][Len(e.args) + 1]]
    <3>1. call'.want[j].edge \in Wanting
          /\ call'.want[j].var =
               paramVar[params[call.term[call'.want[j].edge].block][Len(call.term[call'.want[j].edge].args) + 1]]
      BY <1>5, <1>b, <2>5, WantFacts
    <3> QED BY <2>1, <2>3, <3>1 DEF Wanting
  <2> QED BY <2>1, <2>2, <2>3, <2>4, <2>5 DEF Wanted
<1>6. CASE NewTermPush
  <2>1. call'.want = <<>> /\ call'.got = <<>> /\ call'.op = call.op BY <1>6, <1>b, PushFacts
  <2>2. call.op = "term" BY <1>6, <1>b DEF Base, CallShape, NewTermPush
  <2> QED BY <2>1, <2>2, <1>e
<1> QED BY <1>1, <1>2, <1>3, <1>4, <1>5, <1>6, <1>b, CallChanges

------------------------------------------------------------------------------
(***************************************************************************)
(* Every edge into a sealed block gets its arguments: what drain has still *)
(* to do is on the stack or ahead of the cursor.                           *)
(***************************************************************************)
CursorAt == pc = "complete" \/ (pc = "read" /\ rd.for = "complete")

Owed(b, i) == \/ b \in Range(stack)
              \/ CursorAt /\ cursor.block = b /\ cursor.i <= i

Completed ==
    \A b \in live \cap sealed : \A i \in DOMAIN preds[b] : \A k \in EdgesInto(preds[b][i], b) :
        Len(term[preds[b][i]][k].args) < Len(params[b]) => Owed(b, i)

\* No edge passes more arguments than its target has parameters.
Within ==
    \A p \in Block : \A k \in DOMAIN term[p] :
        term[p][k].block \in live => Len(term[p][k].args) <= Len(params[term[p][k].block])
CallWithin ==
    \A k \in DOMAIN call.term : Len(call.term[k].args) <= Len(params[call.term[k].block])

StackInUse == stack # <<>> => pc \in {"read", "drain", "complete"} \/ call.want # <<>>

\* A call that failed for lack of room leaves edges short.
Passing ==
    /\ Settled /\ Reading /\ Wanted /\ CallWithin
    /\ failed \/ (Within /\ StackInUse /\ Completed)

LEMMA StackInUseStep ==
  ASSUME Settled, Reading, Wanted, StackInUse, Next, ~ReadFails
  PROVE  StackInUse'
<1>b. Core /\ Base BY DEF Settled, Core
<1>t. call \in CallType BY <1>b DEF Base, TypeOK, JobOK, CallOK, CallType
<1>0. DOMAIN <<>> = {} /\ Len(<<>>) = 0 BY EmptySeq, LenProperties
<1>i. pc = "idle" => stack = <<>>
  <2>1. ASSUME pc = "idle" PROVE call.want = <<>> BY <2>1, <1>b DEF Base, CallShape, NoCall
  <2> QED BY <2>1 DEF StackInUse
<1>1. CASE pc' \in {"read", "drain", "complete"} BY <1>1 DEF StackInUse
<1>s. ASSUME stack = <<>>, stack' = stack PROVE StackInUse' BY <1>s DEF StackInUse
<1>2. CASE pc' = "newterm"
  <2>1. CASE Terminates
    <3>1. pc = "idle" /\ stack' = stack BY <2>1 DEF Terminates, SetTerminator, ssa
    <3> QED BY <3>1, <1>i, <1>s
  <2>2. CASE DrainedTerm BY <2>2, <1>s DEF DrainedTerm, ssa
  <2>3. CASE NewTermWant
    <3>1. pc = "newterm" /\ call.want = <<>> /\ stack' = stack BY <2>3 DEF NewTermWant, ssa
    <3> QED BY <3>1, <1>s DEF StackInUse
  <2>4. CASE Finds /\ rd.for = "newterm"
    <3>1. PICK v \in Value : Deliver(v) BY <2>4, <1>b, FindFacts
    <3>2. call' = [call EXCEPT !.got = Append(call.got, v)] /\ pc = "read"
      BY <2>4, <3>1, <1>b, FindFacts DEF Deliver
    <3>3. call'.want = call.want BY <3>2, <1>t DEF CallType
    <3>4. Len(call.got) < Len(call.want) BY <2>4, <3>2 DEF Reading
    <3>5. Len(call.got) \in Nat BY <1>b, JobSeqs, LenProperties
    <3>6. call.want # <<>> BY <1>0, <3>4, <3>5
    <3> QED BY <3>3, <3>6 DEF StackInUse
  <2> QED BY <1>2, <1>b, <2>1, <2>2, <2>3, <2>4, CameFrom
<1>3. CASE pc' \in {"forward", "eliminate"}
  <2>1. CASE DrainedUse \/ DrainedSeal \/ DrainedSealAll
    BY <2>1, <1>s DEF DrainedUse, DrainedSeal, DrainedSealAll, ssa
  <2>2. CASE pc \in {"forward", "eliminate"}
    <3>1. ~Seals /\ ~ReadNewParam /\ ~DrainPop
      BY <2>2 DEF Seals, SealBlock, SealAllBlocks, ReadNewParam, DrainPop
    <3>2. stack' = stack BY SMTT(30), <1>b, <3>1, Changes
    <3>3. stack = <<>> BY <2>2 DEF StackInUse, Wanted
    <3> QED BY <3>2, <3>3, <1>s
  <2> QED BY <1>3, <1>b, <2>1, <2>2, CameFrom
<1>4. CASE pc' = "idle"
  <2>1. CASE pc = "idle"
    <3>1. ~Seals /\ ~ReadNewParam /\ ~DrainPop
      BY <1>4, <2>1 DEF Seals, SealBlock, SealAllBlocks, ReadNewParam, DrainPop
    <3> QED BY <2>1, <1>b, <3>1, <1>i, <1>s, Changes
  <2>2. CASE NewTermInstall \/ NewTermRefuse
    <3>1. pc = "newterm" /\ call.want = <<>> /\ stack' = stack
      BY <2>2 DEF NewTermInstall, NewTermRefuse, ssa
    <3> QED BY <3>1, <1>s DEF StackInUse
  <2>3. CASE DrainedSealAllNone BY <2>3, <1>s DEF DrainedSealAllNone, ssa
  <2>4. CASE ForwardDone \/ ElimRemove \/ ElimNone
    <3>1. pc \in {"forward", "eliminate"} /\ stack' = stack
      BY SMTT(30), <2>4 DEF ForwardDone, ElimRemove, ElimNone, ssa
    <3>2. stack = <<>> BY <3>1 DEF StackInUse, Wanted
    <3> QED BY <3>1, <3>2, <1>s
  <2> QED BY <1>4, <1>b, <2>1, <2>2, <2>3, <2>4, CameFrom
<1>5. pc' \in {"idle", "read", "drain", "complete", "newterm", "forward", "eliminate"}
  BY <1>b, CoreStep DEF Core, Base, TypeOK, JobOK
<1> QED BY <1>1, <1>2, <1>3, <1>4, <1>5

\* When nothing is being completed, every edge into a sealed block is complete.
LEMMA AllPassed ==
  ASSUME Core, Within, StackInUse, Completed,
         pc \notin {"read", "drain", "complete"}, call.want = <<>>,
         NEW p \in Block, NEW k \in DOMAIN term[p], term[p][k].block \in live \cap sealed
  PROVE  Len(term[p][k].args) = Len(params[term[p][k].block])
<1>b. Base BY DEF Core
<1>1. PICK b \in Block : b = term[p][k].block BY <1>b, EdgeFacts
<1>2. k \in EdgesInto(p, b) BY <1>1 DEF EdgesInto
<1>3. p \in Range(preds[b]) BY <1>2 DEF Core, Edges, PredsCurrent
<1>4. PICK i \in DOMAIN preds[b] : p = preds[b][i] BY <1>3 DEF Range
<1>5. Range(<<>>) = {} BY EmptySeq, LenProperties DEF Range
<1>6. ~Owed(b, i) BY <1>5 DEF StackInUse, Owed, CursorAt
<1>7. ~(Len(term[p][k].args) < Len(params[b])) BY <1>1, <1>2, <1>4, <1>6 DEF Completed
<1>8. Len(term[p][k].args) <= Len(params[b]) BY <1>1 DEF Within
<1>9. Len(term[p][k].args) \in Nat /\ Len(params[b]) \in Nat
  <2>1. term[p][k].args \in Seq(Value) /\ params[b] \in Seq(Value) BY SMTT(30), <1>b, EdgeFacts
  <2> QED BY <2>1, LenProperties
<1> QED BY <1>1, <1>7, <1>8, <1>9

\* remove_params and resolve_aliases, where every parameter has its argument.
LEMMA RemoveFacts ==
  ASSUME Core, ElimRemove, NEW p \in Block, NEW k \in DOMAIN term[p],
         Len(term[p][k].args) = Len(params[term[p][k].block])
  PROVE  LET b == term[p][k].block IN
         /\ k \in DOMAIN term'[p] /\ term'[p][k].block = b
         /\ Len(term'[p][k].args) = Len(params'[b])
         /\ \A i \in DOMAIN term'[p][k].args :
               /\ i \in DOMAIN params'[b]
               /\ Nth(Kept(b), i) \in DOMAIN params[b] /\ Nth(Kept(b), i) \in DOMAIN term[p][k].args
               /\ params'[b][i] = params[b][Nth(Kept(b), i)]
               /\ term'[p][k].args[i] = Resolve(term[p][k].args[Nth(Kept(b), i)])
<1>b. Base BY DEF Core
<1>1. PICK e \in Edge : e = term[p][k] BY <1>b, EdgeFacts
<1>2. PICK b \in Block : b = e.block BY <1>1 DEF Edge
<1>3. p \in Range(preds[b])
  <2>1. k \in EdgesInto(p, b) BY <1>1, <1>2 DEF EdgesInto
  <2> QED BY <2>1 DEF Core, Edges, PredsCurrent
<1>4. params[b] \in Seq(Value) /\ e.args \in Seq(Value) BY <1>b, EdgeFacts DEF Edge
<1>5. Kept(b) \subseteq DOMAIN params[b] /\ DOMAIN params[b] = DOMAIN e.args
  BY <1>1, <1>2, <1>4, LenProperties DEF Kept
<1>6. PICK args : args = Pick(e.args, Kept(b)) OBVIOUS
<1>7. /\ DOMAIN args = 1..Cardinality(Kept(b)) /\ Cardinality(Kept(b)) \in Nat
      /\ \A j \in DOMAIN args : /\ Nth(Kept(b), j) \in Kept(b) /\ args[j] = e.args[Nth(Kept(b), j)]
                                /\ args[j] \in Value
  <2>1. args \in Seq(Value) BY <1>4, <1>5, <1>6, PickFacts
  <2> QED BY <1>4, <1>5, <1>6, <2>1, PickFacts, ElementOfSeq, LenProperties
<1>8. WithoutRemoved(p, e) = [e EXCEPT !.args = [i \in DOMAIN args |-> Resolve(args[i])]]
  BY <1>1, <1>2, <1>3, <1>6 DEF WithoutRemoved
<1>9. term'[p][k] = WithoutRemoved(p, e) /\ k \in DOMAIN term'[p] BY <1>1 DEF ElimRemove
<1>10. term'[p][k].block = b /\ term'[p][k].args = [i \in DOMAIN args |-> Resolve(args[i])]
  BY <1>2, <1>8, <1>9 DEF Edge
<1>11. /\ params'[b] = Pick(params[b], Kept(b)) /\ DOMAIN params'[b] = 1..Cardinality(Kept(b))
       /\ Len(params'[b]) = Cardinality(Kept(b))
       /\ \A j \in 1..Cardinality(Kept(b)) : params'[b][j] = params[b][Nth(Kept(b), j)]
  <2>1. params'[b] = Pick(params[b], Kept(b)) BY DEF ElimRemove
  <2> QED BY <1>4, <1>5, <2>1, PickFacts
<1>12. Len(term'[p][k].args) = Cardinality(Kept(b)) /\ DOMAIN term'[p][k].args = DOMAIN args
  <2>1. \A i \in DOMAIN args : Resolve(args[i]) \in Value BY <1>b, <1>7, ResolveFacts DEF Base
  <2>2. term'[p][k].args \in [1..Cardinality(Kept(b)) -> Value] BY <1>7, <1>10, <2>1
  <2> QED BY <1>7, <1>10, <2>2, FunctionSeq
<1>13. ASSUME NEW i \in DOMAIN term'[p][k].args
       PROVE /\ i \in DOMAIN params'[b]
             /\ Nth(Kept(b), i) \in DOMAIN params[b] /\ Nth(Kept(b), i) \in DOMAIN e.args
             /\ params'[b][i] = params[b][Nth(Kept(b), i)]
             /\ term'[p][k].args[i] = Resolve(e.args[Nth(Kept(b), i)])
  BY <1>5, <1>7, <1>10, <1>11, <1>12
<1> QED BY <1>1, <1>2, <1>9, <1>10, <1>11, <1>12, <1>13

\* What is owed stays owed, until a block is taken off the stack or the cursor goes on.
LEMMA OwedKept ==
  ASSUME Core, Next, ~DrainPop, ~CompleteNext, ~ReadFails, NEW b \in Block, NEW i, Owed(b, i)
  PROVE  Owed(b, i)'
<1>b. Base BY DEF Core
<1>s. stack \in Seq(Block) /\ Len(stack) \in Nat /\ DOMAIN stack = 1..Len(stack) BY <1>b, JobSeqs
<1>1. ASSUME b \in Range(stack) PROVE b \in Range(stack')
  <2>1. PICK j \in 1..Len(stack) : stack[j] = b BY <1>1, <1>s DEF Range
  <2>2. CASE stack' = stack BY <1>1, <2>2
  <2>3. ASSUME NEW c \in Block, stack' = Append(stack, c) PROVE b \in Range(stack')
    BY <1>1, <1>s, <2>3, RangeAppend
  <2>4. CASE SealAllBlocks
    <3>1. PICK order \in [1..Cardinality(live \ sealed) -> live \ sealed] : stack' = stack \o order
      BY <2>4 DEF SealAllBlocks
    <3>2. Cardinality(live \ sealed) \in Nat
      <4>1. live \ sealed \subseteq Block BY <1>b DEF Base, TypeOK, FuncOK
      <4> QED BY <4>1, EntityAssumption, FS_Subset, FS_CardinalityType
    <3>3. order \in Seq(live \ sealed) /\ Len(order) \in Nat BY <3>1, <3>2, FunctionSeq
    <3>4. order \in Seq(Block)
      <4>1. live \ sealed \subseteq Block BY <1>b DEF Base, TypeOK, FuncOK
      <4>2. order \in [1..Cardinality(live \ sealed) -> Block] BY <3>1, <4>1
      <4> QED BY <3>2, <4>2, FunctionSeq
    <3>5. j \in DOMAIN (stack \o order) /\ (stack \o order)[j] = stack[j]
      BY <1>s, <2>1, <3>3, <3>4, ConcatProperties, LenProperties
    <3> QED BY <2>1, <3>1, <3>5 DEF Range
  <2>5. ASSUME NEW c \in Block, SealBlock(c) PROVE b \in Range(stack')
    BY <2>3, <2>5 DEF SealBlock
  <2>6. CASE ReadNewParam
    <3>1. rd.at \in Block BY <1>b, JobSeqs
    <3> QED BY <2>2, <2>3, <2>6, <3>1 DEF ReadNewParam
  <2> QED BY <2>2, <2>4, <2>5, <2>6, Changes DEF Seals
<1>2. ASSUME CursorAt PROVE CursorAt' /\ cursor' = cursor
  <2>1. CASE pc = "complete"
    <3>1. DrainStep
      BY <1>b, <2>1, Steps, CallChanges
         DEF ReadStep, ReadHit, ReadNewParam, ReadZero, ReadThrough, ReadFails,
             TermStep, NewTermWant, NewTermRead, NewTermPush, NewTermInstall, NewTermRefuse,
             ForwardStep, ForwardParam, ForwardSkip, ForwardDone,
             ElimStep, DrainedSealAll, DrainedSealAllNone, ElimSkip, ElimForward, ElimRemove, ElimNone
    <3>2. CompleteRead BY <2>1, <3>1 DEF DrainStep, DrainPop, DrainedUse, DrainedSeal, DrainedTerm
    <3> QED BY <3>2 DEF CompleteRead, CursorAt, Read
  <2>2. CASE pc = "read" /\ rd.for = "complete"
    <3>1. ReadStep
      BY <1>b, <2>2, Steps, CallChanges
         DEF TermStep, NewTermWant, NewTermRead, NewTermPush, NewTermInstall, NewTermRefuse,
             DrainStep, DrainPop, CompleteRead, CompleteNext, DrainedUse, DrainedSeal, DrainedTerm,
             ForwardStep, ForwardParam, ForwardSkip, ForwardDone,
             ElimStep, DrainedSealAll, DrainedSealAllNone, ElimSkip, ElimForward, ElimRemove, ElimNone
    <3>2. CASE Finds
      <4>1. PICK v \in Value : Deliver(v) BY <3>2, <1>b, FindFacts
      <4>2. cursor' = cursor BY <3>2, <1>b, FindFacts
      <4> QED BY <2>2, <4>1, <4>2 DEF Deliver, CursorAt
    <3>3. CASE ReadThrough
      BY <2>2, <3>3, <1>b DEF ReadThrough, CursorAt, Base, TypeOK, JobOK
    <3> QED BY <3>1, <3>2, <3>3 DEF ReadStep, Finds
  <2> QED BY <1>2, <2>1, <2>2 DEF CursorAt
<1>3. CASE b \in Range(stack)
  <2>1. b \in Range(stack') BY <1>1, <1>3
  <2> QED BY <2>1 DEF Owed
<1>4. CASE CursorAt /\ cursor.block = b /\ cursor.i <= i
  <2>1. CursorAt' /\ cursor' = cursor BY <1>2, <1>4
  <2> QED BY <1>4, <2>1 DEF Owed
<1> QED BY <1>3, <1>4 DEF Owed

\* A block just sealed is owed everything.
LEMMA SealedOwed ==
  ASSUME Core, Seals, NEW b \in live, b \in sealed' \ sealed
  PROVE  b \in Range(stack')
<1>b. Base BY DEF Core
<1>s. stack \in Seq(Block) /\ Len(stack) \in Nat /\ DOMAIN stack = 1..Len(stack) BY <1>b, JobSeqs
<1>1. ASSUME NEW c \in Block, SealBlock(c) PROVE b \in Range(stack')
  <2>1. c = b /\ stack' = Append(stack, c) BY <1>1 DEF SealBlock
  <2> QED BY <1>s, <2>1, RangeAppend
<1>2. CASE SealAllBlocks
  <2> DEFINE S == live \ sealed
             n == Cardinality(S)
  <2>1. PICK order \in [1..n -> S] : Ascending(order) /\ stack' = stack \o order
    BY <1>2 DEF SealAllBlocks
  <2>2. S \subseteq Block /\ S \subseteq Nat BY <1>b, EntityAssumption DEF Base, TypeOK, FuncOK
  <2>3. IsFiniteSet(S) /\ n \in Nat BY <2>2, EntityAssumption, FS_Subset, FS_CardinalityType
  <2>b. b \in S /\ n = Cardinality(S) OBVIOUS
  <2> HIDE DEF n, S
  <2>4. order \in Seq(Block) /\ Len(order) = n /\ DOMAIN order = 1..n
    <3>1. order \in [1..n -> Block] BY <2>1, <2>2
    <3> QED BY <2>3, <3>1, FunctionSeq
  <2>5. \A i, j \in 1..n : order[i] = order[j] => i = j
    <3>1. ASSUME NEW i \in 1..n, NEW j \in 1..n, i < j PROVE order[i] < order[j]
      BY <2>1, <2>4, <3>1 DEF Ascending
    <3>2. \A i \in 1..n : order[i] \in Nat BY <2>1, <2>2
    <3> QED BY <3>1, <3>2
  <2>6. \E j \in 1..n : order[j] = b
    <3>1. order \in Injection(1..n, S) BY <2>1, <2>5 DEF Injection, IsInjective
    <3>2. IsFiniteSet(1..n) /\ Cardinality(1..n) = n BY <2>3, FS_Interval
    <3>3. order \in Surjection(1..n, S)
      BY <2>3, <2>b, <3>1, <3>2, FS_Injection
    <3> QED BY <2>b, <3>3 DEF Surjection
  <2>7. PICK j \in 1..n : order[j] = b BY <2>6
  <2>8. Len(stack) + j \in DOMAIN (stack \o order) /\ (stack \o order)[Len(stack) + j] = b
    BY <1>s, <2>3, <2>4, <2>7, ConcatProperties, LenProperties
  <2> QED BY <2>1, <2>8 DEF Range
<1> QED BY <1>1, <1>2 DEF Seals

LEMMA CallWithinStep ==
  ASSUME Settled, Wanted, CallWithin, Next
  PROVE  CallWithin'
<1>b. Core /\ Base BY DEF Settled, Core
<1>0. DOMAIN <<>> = {} /\ Len(<<>>) = 0 BY EmptySeq, LenProperties
<1>t. call \in CallType BY <1>b DEF Base, TypeOK, JobOK, CallOK, CallType
<1>e. ASSUME \A k \in DOMAIN call'.term : call'.term[k].args = <<>> PROVE CallWithin'
  <2>1. Base' BY <1>b, CoreStep DEF Core
  <2>2. \A k \in DOMAIN call'.term : call'.term[k].block \in Block
    <3>1. \A k \in DOMAIN call'.term : call'.term[k] \in Edge
      <4>1. call'.term \in Seq(Edge) BY <2>1, JobSeqs DEF Base, TypeOK, JobOK, CallOK
      <4> QED BY <4>1, LenProperties, ElementOfSeq
    <3> QED BY <3>1 DEF Edge
  <2>3. \A b \in Block : Len(params'[b]) \in Nat
    <3>1. \A b \in Block : params'[b] \in Seq(Value) BY <2>1 DEF Base, TypeOK, FuncOK
    <3> QED BY <3>1, LenProperties
  <2>4. ASSUME NEW k \in DOMAIN call'.term
        PROVE Len(call'.term[k].args) <= Len(params'[call'.term[k].block])
    <3>1. Len(call'.term[k].args) = 0 BY <1>e, <1>0
    <3>2. Len(params'[call'.term[k].block]) \in Nat BY <2>2, <2>3
    <3> QED BY <3>1, <3>2
  <2> QED BY <2>4 DEF CallWithin
<1>k. ASSUME ~Call, call' # NoCall, NEW k \in DOMAIN call.term
      PROVE  /\ Len(call.term[k].args) \in Nat /\ Len(params[call.term[k].block]) \in Nat
             /\ Len(params[call.term[k].block]) <= Len(params'[call.term[k].block])
             /\ Len(params'[call.term[k].block]) \in Nat
  <2>1. ~Removes /\ ~ElimRemove BY <1>k DEF Call, Removes, ElimRemove, Return
  <2>2. call.term[k] \in Edge BY <1>b, EdgeFacts
  <2>3. call.term[k].block \in Block /\ call.term[k].args \in Seq(Value) BY <2>2 DEF Edge
  <2>4. Len(call.term[k].args) \in Nat BY <2>3, LenProperties
  <2> QED BY <2>1, <2>3, <2>4, ParamsKept
<1>1. CASE Call BY <1>1, <1>b, <1>e, FreshCall
<1>2. CASE call' = NoCall
  <2>1. DOMAIN call'.term = {} BY <1>2, <1>0 DEF NoCall
  <2> QED BY <2>1, <1>e
<1>3. CASE ~Call /\ call' # NoCall /\ call'.term = call.term
  <2>1. ASSUME NEW k \in DOMAIN call.term
        PROVE Len(call.term[k].args) <= Len(params'[call.term[k].block])
    <3>1. Len(call.term[k].args) <= Len(params[call.term[k].block]) BY DEF CallWithin
    <3> QED BY <3>1, <1>3, <1>k
  <2> QED BY <1>3, <2>1 DEF CallWithin
<1>4. CASE Finds /\ rd.for = "newterm" /\ call' # NoCall
  <2>1. PICK v \in Value : Deliver(v) BY <1>4, <1>b, FindFacts
  <2>2. call' = [call EXCEPT !.got = Append(call.got, v)] /\ pc = "read"
    BY <1>4, <2>1, <1>b, FindFacts DEF Deliver
  <2>3. call'.term = call.term BY <2>2, <1>t DEF CallType
  <2>4. ~Call BY <2>2, <1>b, CallChanges
  <2> QED BY <1>3, <1>4, <2>3, <2>4
<1>5. CASE NewTermWant /\ call' # NoCall
  <2>1. call'.term = call.term BY <1>5, <1>b, WantFacts
  <2>2. pc = "newterm" BY <1>5 DEF NewTermWant
  <2>3. ~Call BY <2>2, <1>b, CallChanges
  <2> QED BY SMTT(30), <1>3, <1>5, <2>1, <2>3
<1>6. CASE NewTermPush /\ call' # NoCall
  <2>0. pc = "newterm" /\ params' = params BY <1>6 DEF NewTermPush, func
  <2>1. ~Call BY <2>0, <1>b, CallChanges
  <2>2. DOMAIN call'.term = DOMAIN call.term BY <1>6, <1>b, PushFacts
  <2>3. ASSUME NEW k \in DOMAIN call.term
        PROVE Len(call'.term[k].args) <= Len(params[call'.term[k].block])
    <3>1. call'.term[k].block = call.term[k].block BY <1>6, <1>b, PushFacts
    <3>2. CASE call'.term[k] = call.term[k] BY <3>2 DEF CallWithin
    <3>3. CASE \E j \in DOMAIN call.want :
                 /\ call.want[j].edge = k
                 /\ call'.term[k].args = Append(call.term[k].args, call.got[j])
      <4>1. PICK j \in DOMAIN call.want :
                 /\ call.want[j].edge = k
                 /\ call'.term[k].args = Append(call.term[k].args, call.got[j])
        BY <3>3
      <4>2. Len(call.term[k].args) < Len(params[call.term[k].block]) BY <4>1 DEF Wanted
      <4>3. Len(call.term[k].args) \in Nat /\ Len(params[call.term[k].block]) \in Nat
        BY <1>6, <2>1, <1>k
      <4>4. call.term[k].args \in Seq(Value) BY <1>b, EdgeFacts DEF Edge
      <4>5. Len(Append(call.term[k].args, call.got[j])) = Len(call.term[k].args) + 1
        <5>1. j \in DOMAIN call.got
          <6>1. call.got \in Seq(Value) /\ call.want \in Seq([edge : Nat, var : Var]) BY <1>b, JobSeqs
          <6>2. Len(call.got) = Len(call.want) BY <1>6 DEF NewTermPush
          <6> QED BY <6>1, <6>2, LenProperties
        <5>2. call.got[j] \in Value
          <6>1. call.got \in Seq(Value) BY <1>b, JobSeqs
          <6> QED BY <5>1, <6>1, ElementOfSeq, LenProperties
        <5> QED BY <4>4, <5>2, AppendProperties
      <4> QED BY <3>1, <4>1, <4>2, <4>3, <4>5
    <3> QED BY <3>2, <3>3, <1>6, <1>b, PushFacts
  <2> QED BY <2>0, <2>2, <2>3 DEF CallWithin
<1> QED BY <1>1, <1>2, <1>3, <1>4, <1>5, <1>6, <1>b, CallChanges

\* What a read adds to the edges keeps within the parameters.
LEMMA FindWithin ==
  ASSUME Settled, Reading, Within, Finds
  PROVE  \A p \in Block : \A k \in DOMAIN term'[p] :
            /\ k \in DOMAIN term[p] /\ term'[p][k].block = term[p][k].block
            /\ Len(term[p][k].args) \in Nat /\ Len(term'[p][k].args) \in Nat
            /\ Len(term[p][k].args) <= Len(term'[p][k].args)
            /\ term[p][k].block \in live =>
                  Len(term'[p][k].args) <= Len(params[term[p][k].block])
<1>b. Core /\ Base BY DEF Settled, Core
<1> SUFFICES ASSUME NEW p \in Block, NEW k \in DOMAIN term'[p]
             PROVE  /\ k \in DOMAIN term[p] /\ term'[p][k].block = term[p][k].block
                    /\ Len(term[p][k].args) \in Nat /\ Len(term'[p][k].args) \in Nat
                    /\ Len(term[p][k].args) <= Len(term'[p][k].args)
                    /\ term[p][k].block \in live =>
                          Len(term'[p][k].args) <= Len(params[term[p][k].block])
  OBVIOUS
<1>1. PICK v \in Value : Deliver(v) BY <1>b, FindFacts
<1>2. pc = "read" BY <1>b, FindFacts
<1>3. k \in DOMAIN term[p] /\ term'[p][k].block = term[p][k].block
  BY <1>1, <1>2, <1>b, DeliverFacts
<1>4. term[p][k].args \in Seq(Value) /\ Len(term[p][k].args) \in Nat
  BY <1>3, <1>b, EdgeFacts, LenProperties
<1>5. CASE term'[p][k] = term[p][k] BY <1>3, <1>4, <1>5 DEF Within
<1>6. CASE /\ rd.for = "complete" /\ p = CursorPred /\ k \in EdgesInto(p, cursor.block)
           /\ Len(term[p][k].args) = MinArgs(p, cursor.block)
           /\ term'[p][k].args = Append(term[p][k].args, v)
  <2>1. Len(term'[p][k].args) = Len(term[p][k].args) + 1 BY <1>4, <1>6, AppendProperties
  <2>2. Len(term[p][k].args) < Len(params[cursor.block]) /\ term[p][k].block = cursor.block
    BY <1>2, <1>6 DEF Reading, EdgesInto
  <2>3. Len(params[cursor.block]) \in Nat BY <1>b, JobSeqs, EdgeFacts, LenProperties
  <2> QED BY <1>3, <1>4, <2>1, <2>2, <2>3
<1> QED BY <1>1, <1>2, <1>3, <1>5, <1>6, <1>b, Delivered

\* Where the final pass of seal_all_blocks ends, every edge is complete, and stays so.
LEMMA RemovePasses ==
  ASSUME Settled, Wanted, Within, StackInUse, Completed, ElimRemove,
         NEW p \in Block, NEW k \in DOMAIN term'[p], term'[p][k].block \in live
  PROVE  /\ k \in DOMAIN term[p] /\ term'[p][k].block = term[p][k].block
         /\ Len(term[p][k].args) = Len(params[term[p][k].block])
         /\ Len(term'[p][k].args) = Len(params'[term[p][k].block])
<1>b. Core /\ Base BY DEF Settled, Core
<1>1. k \in DOMAIN term[p] /\ term'[p][k] = WithoutRemoved(p, term[p][k]) BY DEF ElimRemove
<1>2. term'[p][k].block = term[p][k].block BY <1>1, <1>b, EdgeFacts, WithoutRemovedFacts
<1>3. pc = "eliminate" BY SMTT(30) DEF ElimRemove
<1>4. live \subseteq sealed /\ call.want = <<>>
  BY <1>3 DEF Settled, CallSealed, Wanted
<1>5. Len(term[p][k].args) = Len(params[term[p][k].block]) BY <1>b, <1>1, <1>2, <1>3, <1>4, AllPassed
<1>6. Len(term'[p][k].args) = Len(params'[term[p][k].block]) BY <1>b, <1>1, <1>5, RemoveFacts
<1> QED BY <1>1, <1>2, <1>5, <1>6

\* A terminator or a block that goes takes only edges with it.
LEMMA GoneFacts ==
  ASSUME Base, TakesOff \/ Removes
  PROVE  /\ pc = "idle" /\ live' \subseteq live
         /\ UNCHANGED <<job, sealed, stack, paramVar, defs, incoming, alias, failed>>
         /\ \A b \in live' : params'[b] = params[b]
         /\ \A p \in Block : term'[p] = <<>> \/ term'[p] = term[p]
<1>t. live \subseteq Block /\ params \in [Block -> Seq(Value)] /\ term \in [Block -> Seq(Edge)]
  BY DEF Base, TypeOK, FuncOK
<1>1. ASSUME NEW r \in Block, RemoveTerminator(r)
      PROVE  /\ pc = "idle" /\ live' \subseteq live
             /\ UNCHANGED <<job, sealed, stack, paramVar, defs, incoming, alias, failed>>
             /\ \A b \in live' : params'[b] = params[b]
             /\ \A p \in Block : term'[p] = <<>> \/ term'[p] = term[p]
  BY <1>t, <1>1 DEF RemoveTerminator, hist
<1>2. ASSUME NEW r \in Block, RemoveBlock(r)
      PROVE  /\ pc = "idle" /\ live' \subseteq live
             /\ UNCHANGED <<job, sealed, stack, paramVar, defs, incoming, alias, failed>>
             /\ \A b \in live' : params'[b] = params[b]
             /\ \A p \in Block : term'[p] = <<>> \/ term'[p] = term[p]
  BY <1>t, <1>2 DEF RemoveBlock, hist
<1> QED BY <1>1, <1>2 DEF TakesOff, Removes

LEMMA WithinStep ==
  ASSUME Settled, Reading, Wanted, CallWithin, Within, StackInUse, Completed, Next
  PROVE  Within'
<1>b. Core /\ Base BY DEF Settled, Core
<1>l. \A b \in Block : Len(params'[b]) \in Nat
  <2>1. Base' BY <1>b, CoreStep DEF Core
  <2>2. \A b \in Block : params'[b] \in Seq(Value) BY <2>1 DEF Base, TypeOK, FuncOK
  <2> QED BY <2>2, LenProperties
<1>t. live \subseteq Block /\ term \in [Block -> Seq(Edge)] BY <1>b DEF Base, TypeOK, FuncOK
<1> SUFFICES ASSUME NEW p \in Block, NEW k \in DOMAIN term'[p], term'[p][k].block \in live'
             PROVE  Len(term'[p][k].args) <= Len(params'[term'[p][k].block])
  BY DEF Within
<1>1. CASE ElimRemove
  <2>1. live' = live BY <1>1 DEF ElimRemove
  <2>2. term'[p][k].block = term[p][k].block /\ Len(term'[p][k].args) = Len(params'[term[p][k].block])
    BY <1>1, <2>1, RemovePasses
  <2>3. term'[p][k].block \in Block BY <1>t, <2>1
  <2> QED BY <1>l, <2>2, <2>3
<1>2. CASE TakesOff \/ Removes
  <2>1. term'[p] = term[p]
    <3>1. DOMAIN <<>> = {} BY EmptySeq, LenProperties
    <3> QED BY <1>2, <1>b, <3>1, GoneFacts
  <2>2. live' \subseteq live /\ \A b \in live' : params'[b] = params[b] BY <1>2, <1>b, GoneFacts
  <2> QED BY <2>1, <2>2 DEF Within
<1>3. CASE NewTermInstall
  <2>1. term' = [term EXCEPT ![call.block] = call.term] /\ params' = params /\ live' = live
    BY <1>3 DEF NewTermInstall
  <2>2. CASE p = call.block BY <1>t, <2>1, <2>2 DEF CallWithin
  <2>3. CASE p # call.block BY <1>t, <2>1, <2>3 DEF Within
  <2> QED BY <2>2, <2>3
<1>4. CASE Finds
  <2>1. live' = live BY <1>4, <1>b, FindFacts
  <2>2. /\ k \in DOMAIN term[p] /\ term'[p][k].block = term[p][k].block
        /\ Len(term'[p][k].args) \in Nat /\ Len(term'[p][k].args) <= Len(params[term[p][k].block])
    BY <1>4, <2>1, FindWithin
  <2>3. ~Removes /\ ~ElimRemove
    BY <1>4, <1>b, FindFacts DEF Removes, RemoveBlock, ElimRemove
  <2>4. term[p][k].block \in Block BY <2>1, <2>2, <1>t
  <2>5. /\ Len(params[term[p][k].block]) <= Len(params'[term[p][k].block])
        /\ Len(params[term[p][k].block]) \in Nat
    BY <2>3, <2>4, ParamsKept
  <2> QED BY <1>l, <2>2, <2>4, <2>5
<1>5. ASSUME ~ElimRemove, ~TakesOff, ~Removes, ~NewTermInstall, ~Finds
      PROVE  Len(term'[p][k].args) <= Len(params'[term'[p][k].block])
  <2>1. term' = term /\ live' = live /\ params' = params BY <1>5, <1>b, Changes DEF Finds
  <2> QED BY <2>1 DEF Within
<1> QED BY <1>1, <1>2, <1>3, <1>4, <1>5

LEMMA CompletedStep ==
  ASSUME Settled, Reading, Wanted, Within, StackInUse, Completed, Next, ~ReadFails
  PROVE  Completed'
<1>b. Core /\ Base /\ Core' BY CoreStep DEF Settled, Core
<1>t. live \subseteq Block /\ term \in [Block -> Seq(Edge)] /\ params \in [Block -> Seq(Value)]
  BY <1>b DEF Base, TypeOK, FuncOK
<1>l. live' \subseteq Block /\ (\A b \in Block : Len(params'[b]) \in Nat)
  <2>1. \A b \in Block : params'[b] \in Seq(Value) BY <1>b DEF Core, Base, TypeOK, FuncOK
  <2> QED BY <1>b, <2>1, LenProperties DEF Core, Base, TypeOK, FuncOK
<1> SUFFICES ASSUME NEW b \in live' \cap sealed', NEW i \in DOMAIN preds'[b], NEW p \in Block,
                    p = preds'[b][i], NEW k \in DOMAIN term'[p], term'[p][k].block = b,
                    Len(term'[p][k].args) < Len(params'[b])
             PROVE  Owed(b, i)'
  <2> SUFFICES ASSUME NEW b \in (live \cap sealed)', NEW i \in DOMAIN (preds')[b],
                      NEW k \in EdgesInto(preds[b][i], b)',
                      Len(term'[(preds')[b][i]][k].args) < Len(params'[b])
               PROVE  Owed(b, i)'
    BY DEF Completed
  <2>1. PICK p \in Block : p = preds'[b][i]
    <3>1. preds'[b] \in Seq(Block) BY <1>b, <1>l DEF Core, Base, TypeOK, SsaOK
    <3>2. preds'[b][i] \in Block BY <3>1, LenProperties, ElementOfSeq
    <3> QED BY <3>2
  <2>2. k \in DOMAIN term'[p] /\ term'[p][k].block = b BY <2>1 DEF EdgesInto
  <2> QED BY <2>1, <2>2
<1>1. CASE ElimRemove
  <2>1. live' = live BY <1>1 DEF ElimRemove
  <2>2. Len(term'[p][k].args) = Len(params'[b]) BY <1>1, <2>1, RemovePasses
  <2>3. Len(params'[b]) \in Nat BY <1>l
  <2> QED BY <2>2, <2>3
<1>2. CASE TakesOff \/ Removes
  <2>0. DOMAIN <<>> = {} BY EmptySeq, LenProperties
  <2>1. term'[p] = term[p] /\ live' \subseteq live /\ params'[b] = params[b] /\ sealed' = sealed
        /\ pc = "idle"
    BY <1>2, <1>b, <2>0, GoneFacts
  <2>2. call.want = <<>> BY <2>1, <1>b DEF Base, CallShape, NoCall
  <2>3. Len(term[p][k].args) = Len(params[b]) BY <1>b, <2>1, <2>2, AllPassed
  <2>4. Len(params'[b]) \in Nat BY <1>l
  <2> QED BY <2>1, <2>3, <2>4
<1>3. ASSUME sealed' = sealed, live' = live, b \in live \cap sealed, preds'[b] = preds[b],
             k \in DOMAIN term[p], term[p][k].block = b,
             Len(term[p][k].args) < Len(params[b])
      PROVE  Owed(b, i)
  <2>1. k \in EdgesInto(p, b) BY <1>3 DEF EdgesInto
  <2> QED BY <1>3, <2>1 DEF Completed
<1>4. CASE NewTermInstall
  <2>1. /\ preds' = [d \in Block |-> IF d \in Dests(call.term) THEN Append(preds[d], call.block) ELSE preds[d]]
        /\ term' = [term EXCEPT ![call.block] = call.term]
        /\ Dests(call.term) \subseteq live \ {Entry} /\ pc = "newterm"
        /\ UNCHANGED <<sealed, live, params>>
    BY <1>4 DEF NewTermInstall
  <2>2. call.op = "term" BY <2>1, <1>b DEF Base, CallShape
  <2>3. Dests(call.term) \cap sealed = {} BY <2>1, <2>2 DEF Settled, CallSealed
  <2>4. preds'[b] = preds[b] BY <2>1, <2>3, <1>l
  <2>5. p # call.block
    <3>1. ASSUME p = call.block PROVE b \in Dests(call.term)
      <4>1. term'[p] = call.term BY SMTT(30), <3>1, <2>1, <1>t
      <4> QED BY <4>1 DEF Dests
    <3> QED BY <2>1, <2>3, <3>1
  <2>6. term'[p] = term[p] BY <2>1, <2>5, <1>t
  <2>7. Owed(b, i) BY <2>1, <2>4, <2>6, <1>3
  <2>8. ~DrainPop /\ ~CompleteNext BY <2>1 DEF DrainPop, CompleteNext
  <2> QED BY <2>7, <2>8, <1>b, <1>l, OwedKept
<1>5. CASE Finds
  <2>1. live' = live /\ preds' = preds /\ sealed' = sealed /\ pc = "read" BY <1>5, <1>b, FindFacts
  <2>2. /\ k \in DOMAIN term[p] /\ term'[p][k].block = term[p][k].block
        /\ Len(term[p][k].args) \in Nat /\ Len(term'[p][k].args) \in Nat
        /\ Len(term[p][k].args) <= Len(term'[p][k].args)
    BY <1>5, FindWithin
  <2>3. CASE params'[b] = params[b]
    <3>1. Len(term[p][k].args) < Len(params[b])
      <4>1. Len(params'[b]) \in Nat /\ Len(params'[b]) = Len(params[b]) BY <2>3, <1>l
      <4>2. Len(term'[p][k].args) < Len(params'[b]) OBVIOUS
      <4>3. \A m, n, r \in Nat : m <= n /\ n < r => m < r OBVIOUS
      <4> QED BY <2>2, <4>1, <4>2, <4>3
    <3>2. Owed(b, i) BY <2>1, <2>2, <3>1, <1>3
    <3>3. ~DrainPop /\ ~CompleteNext BY <2>1 DEF DrainPop, CompleteNext
    <3> QED BY <3>2, <3>3, <1>b, <1>l, OwedKept
  <2>4. CASE ReadNewParam /\ b = rd.at
    <3>1. stack' = Append(stack, b) BY <2>1, <2>4 DEF ReadNewParam
    <3>2. stack \in Seq(Block) BY <1>b, JobSeqs
    <3>3. b \in Range(stack') BY <3>1, <3>2, <1>l, RangeAppend
    <3> QED BY <3>3 DEF Owed
  <2>5. params'[b] = params[b] \/ (ReadNewParam /\ b = rd.at)
    <3>1. CASE ReadNewParam
      <4>1. params' = [params EXCEPT ![rd.at] = Append(params[rd.at], nvals + 1)]
        BY <3>1 DEF ReadNewParam
      <4> QED BY <3>1, <4>1, <1>t, <1>l
    <3>2. CASE ReadHit \/ ReadZero BY <3>2 DEF ReadHit, ReadZero
    <3> QED BY <1>5, <3>1, <3>2 DEF Finds
  <2> QED BY <2>3, <2>4, <2>5
<1>6. ASSUME ~ElimRemove, ~TakesOff, ~Removes, ~NewTermInstall, ~Finds
      PROVE  Owed(b, i)'
  <2>1. term' = term /\ live' = live /\ params' = params /\ preds' = preds
    BY <1>6, <1>b, Changes DEF Finds
  <2>2. CASE Seals
    <3>1. CASE b \in sealed
      <4>1. Owed(b, i)
        <5>1. k \in EdgesInto(p, b) BY <2>1 DEF EdgesInto
        <5> QED BY <2>1, <3>1, <5>1 DEF Completed
      <4>2. ~DrainPop /\ ~CompleteNext
        BY <2>2 DEF Seals, SealBlock, SealAllBlocks, DrainPop, CompleteNext
      <4> QED BY <4>1, <4>2, <1>b, <1>l, OwedKept
    <3>2. CASE b \notin sealed
      <4>1. b \in Range(stack') BY <2>1, <2>2, <3>2, <1>b, SealedOwed
      <4> QED BY <4>1 DEF Owed
    <3> QED BY <3>1, <3>2
  <2>3. CASE ~Seals
    <3>1. sealed' = sealed BY <2>3, <1>b, Changes
    <3>2. Owed(b, i) BY <2>1, <3>1, <1>3
    <3>3. CASE DrainPop
      <4>1. /\ stack # <<>> /\ stack' = SubSeq(stack, 1, Len(stack) - 1)
            /\ cursor' = [block |-> stack[Len(stack)], i |-> 1] /\ pc' = "complete" /\ pc = "drain"
        BY <3>3 DEF DrainPop
      <4>2. b \in Range(stack) BY <3>2, <4>1 DEF Owed, CursorAt
      <4>s. stack \in Seq(Block) /\ Len(stack) \in Nat /\ DOMAIN stack = 1..Len(stack) BY <1>b, JobSeqs
      <4>3. PICK j \in 1..Len(stack) : stack[j] = b BY <4>2, <4>s DEF Range
      <4>4. CASE j = Len(stack)
        <5>1. cursor'.block = b /\ cursor'.i = 1 BY <4>1, <4>3, <4>4
        <5>2. i \in Nat /\ 1 <= i
          <6>1. preds'[b] \in Seq(Block) BY <1>b, <1>l DEF Core, Base, TypeOK, SsaOK
          <6> QED BY <6>1, LenProperties
        <5> QED BY <4>1, <5>1, <5>2 DEF Owed, CursorAt
      <4>5. CASE j # Len(stack)
        <5>1. j \in 1..(Len(stack) - 1) /\ Len(stack) - 1 \in Nat
          <6>1. \A n \in Nat : \A h \in 1..n : h # n => h \in 1..(n - 1) /\ n - 1 \in Nat OBVIOUS
          <6> QED BY <4>s, <4>3, <4>5, <6>1
        <5>2. Len(SubSeq(stack, 1, Len(stack) - 1)) = Len(stack) - 1
              /\ SubSeq(stack, 1, Len(stack) - 1)[j] = stack[j]
              /\ SubSeq(stack, 1, Len(stack) - 1) \in Seq(Block)
          BY <4>s, <5>1, SubSeqProperties
        <5>3. j \in DOMAIN stack' /\ stack'[j] = b BY <4>1, <4>3, <5>1, <5>2, LenProperties
        <5>4. b \in Range(stack') BY <5>3 DEF Range
        <5> QED BY SMTT(30), <5>4 DEF Owed
      <4> QED BY <4>4, <4>5
    <3>4. CASE CompleteNext
      <4>1. pc = "complete" /\ ~CursorLacks /\ stack' = stack BY <3>4 DEF CompleteNext, ssa
      <4>2. CASE b \in Range(stack) BY <4>1, <4>2 DEF Owed
      <4>3. CASE cursor.block = b /\ cursor.i <= i
        <5>0. preds[b] \in Seq(Block) /\ i \in Nat /\ cursor.i \in Nat /\ i <= Len(preds[b])
              /\ Len(preds[b]) \in Nat
          <6>1. preds[b] \in Seq(Block) BY <1>b, <1>l, EdgeFacts
          <6> QED BY <6>1, <2>1, <1>b, JobSeqs, LenProperties
        <5>1. CASE cursor.i = i
          <6>1. k \in EdgesInto(p, b) BY <2>1 DEF EdgesInto
          <6>2. MinArgs(p, b) \in Nat /\ MinArgs(p, b) <= Len(term[p][k].args)
            BY <6>1, <1>b, <1>l, MinArgsFacts
          <6>3. ~(MinArgs(p, b) < Len(params[b]))
            BY <2>1, <4>1, <4>3, <5>1 DEF CursorLacks, CursorPred
          <6>4. Len(term[p][k].args) \in Nat /\ Len(params[b]) \in Nat
            BY <1>b, <1>l, <2>1, EdgeFacts, LenProperties
          <6> QED BY <2>1, <6>2, <6>3, <6>4
        <5>2. CASE cursor.i # i
          <6>1. ~CursorAtLast BY <4>3, <5>0, <5>2 DEF CursorAtLast
          <6>2. cursor' = [cursor EXCEPT !.i = cursor.i + 1] /\ pc' = "complete"
            BY <3>4, <4>1, <6>1 DEF CompleteNext
          <6>3. cursor'.block = b /\ cursor'.i = cursor.i + 1
            BY <4>3, <6>2, <1>b DEF Base, TypeOK, JobOK
          <6>4. cursor'.i <= i BY <4>3, <5>0, <5>2, <6>3
          <6> QED BY <6>2, <6>3, <6>4 DEF Owed, CursorAt
        <5> QED BY <5>1, <5>2
      <4> QED BY <3>2, <4>2, <4>3 DEF Owed
    <3>5. CASE ~DrainPop /\ ~CompleteNext BY <3>2, <3>5, <1>b, <1>l, OwedKept
    <3> QED BY <3>3, <3>4, <3>5
  <2> QED BY <2>2, <2>3
<1> QED BY <1>1, <1>2, <1>4, <1>5, <1>6

LEMMA PassingStep ==
  ASSUME Passing, [Next]_vars
  PROVE  Passing'
<1>1. CASE Next
  <2>1. Settled'
    BY <1>1, CoreStep, NumberedStep, ListedOnceStep, CallSealedStep DEF Passing, Settled
  <2>2. Reading' /\ Wanted' /\ CallWithin'
    BY <1>1, ReadingStep, WantedStep, CallWithinStep DEF Passing, Settled
  <2>3. CASE failed
    <3>1. failed' BY <1>1, <2>3, Changes DEF Passing, Settled, ReadFails
    <3> QED BY <2>1, <2>2, <3>1 DEF Passing
  <2>4. CASE ReadFails BY <2>1, <2>2, <2>4 DEF Passing, ReadFails
  <2>5. CASE ~failed /\ ~ReadFails
    <3>1. Within' /\ StackInUse' /\ Completed'
      BY <1>1, <2>5, WithinStep, StackInUseStep, CompletedStep DEF Passing
    <3> QED BY <2>1, <2>2, <3>1 DEF Passing
  <2> QED BY <2>3, <2>4, <2>5
<1>2. CASE UNCHANGED vars
  <2>1. Core' BY <1>2, CoreStep DEF Passing, Settled
  <2>2. Numbered' /\ ListedOnce' /\ CallSealed'
    BY <1>2 DEF Passing, Settled, Numbered, ListedOnce, CallSealed, Dests, vars, func, ssa, job
  <2>3. Reading'
    <3>1. UNCHANGED <<pc, rd, live, sealed, preds, cursor, params, paramVar, call, term>>
      BY <1>2 DEF vars, func, ssa, job
    <3>2. CursorPred' = CursorPred /\ MinArgs(CursorPred, cursor.block)' = MinArgs(CursorPred, cursor.block)
      BY <3>1 DEF CursorPred, MinArgs, EdgesInto
    <3>3. Origin' = Origin BY <3>1 DEF Origin
    <3>4. Reading BY DEF Passing
    <3> QED BY <3>1, <3>2, <3>3, <3>4 DEF Reading
  <2>4. Wanted' /\ CallWithin' BY <1>2 DEF Passing, Wanted, CallWithin, vars, func, ssa, job
  <2>5. failed' = failed /\ (Within <=> Within') /\ (StackInUse <=> StackInUse')
        /\ (Completed <=> Completed')
    BY <1>2 DEF Within, StackInUse, Completed, Owed, CursorAt, EdgesInto, vars, func, ssa, job, hist
  <2> QED BY <2>1, <2>2, <2>3, <2>4, <2>5 DEF Passing, Settled
<1> QED BY <1>1, <1>2

LEMMA PassingHolds == Spec => []Passing
<1>1. Init => Passing
  <2> SUFFICES ASSUME Init PROVE Passing OBVIOUS
  <2>0. DOMAIN <<>> = {} /\ Len(<<>>) = 0 BY EmptySeq, LenProperties
  <2>1. Core /\ Numbered /\ ListedOnce /\ CallSealed
    <3>1. Core BY CoreInit
    <3>2. Numbered BY <2>0 DEF Init, Numbered
    <3>3. ListedOnce BY <2>0 DEF Init, ListedOnce
    <3>4. CallSealed BY DEF Init, CallSealed, NoCall
    <3> QED BY <3>1, <3>2, <3>3, <3>4
  <2>2. Reading BY DEF Init, Reading
  <2>3. call.want = <<>> /\ call.got = <<>> /\ call.term = <<>> BY DEF Init, NoCall
  <2>4. Wanted /\ CallWithin BY <2>0, <2>3 DEF Wanted, CallWithin
  <2>5. live \subseteq Block /\ \A p \in Block : term[p] = <<>>
    <3>1. live \subseteq Block BY <2>1 DEF Core, Base, TypeOK, FuncOK
    <3> QED BY <3>1 DEF Init
  <2>6. Within BY <2>0, <2>5 DEF Within
  <2>7. StackInUse BY DEF Init, StackInUse
  <2>8. Completed
    <3>1. \A b \in Block : preds[b] = <<>> BY DEF Init
    <3> QED BY <2>0, <2>5, <3>1 DEF Completed
  <2> QED BY <2>1, <2>2, <2>4, <2>6, <2>7, <2>8 DEF Passing, Settled
<1>2. Passing /\ [Next]_vars => Passing' BY PassingStep
<1> QED BY <1>1, <1>2, PTL DEF Spec

\* Between calls every edge into a sealed block passes one argument for each construction
\* parameter, in whatever order the blocks were filled, terminated and sealed, whatever
\* parameters completing one edge added to blocks completed before, and whatever was
\* taken off or removed.
THEOREM SealedEdgesPass == Spec => []SealedEdgesComplete
<1>1. Passing => SealedEdgesComplete
  <2> SUFFICES ASSUME Passing, pc = "idle", ~failed, NEW p \in Block, NEW k \in DOMAIN term[p],
                      term[p][k].block \in live \cap sealed
               PROVE  Len(term[p][k].args) = Len(params[term[p][k].block])
    BY DEF SealedEdgesComplete
  <2>1. Core /\ Base /\ Within /\ StackInUse /\ Completed BY DEF Passing, Settled, Core
  <2>2. call.want = <<>> BY <2>1 DEF Base, CallShape, NoCall
  <2> QED BY <2>1, <2>2, AllPassed
<1> QED BY <1>1, PassingHolds, PTL

------------------------------------------------------------------------------
(***************************************************************************)
(* What the arguments stand for.  Without calls of replace_all_uses, which *)
(* change what values mean on purpose.                                     *)
(***************************************************************************)

\* v is what x stands for at the end of p.
Stands(df, al, x, p, v) == df[<<x, p>>] # NONE /\ Root(al, v) = Root(al, df[<<x, p>>])

\* While p cannot be assigned to, what its variables stand for stays.
LEMMA StandsKept ==
  ASSUME MaxReplace = 0, Plain, Chain, Next, NEW x \in Var, NEW p \in Block, NEW v \in Value,
         pc # "idle" \/ p \in terminated, Stands(defs, alias, x, p, v)
  PROVE  Stands(defs', alias', x, p, v)
<1>b. Core /\ Base /\ Core' BY CoreStep DEF Plain, Settled, Core
<1>t. defs \in [Var \X Block -> Value \cup {NONE}] /\ Forwarding(alias) /\ Forwarding(alias')
  BY <1>b DEF Core, Base, TypeOK, SsaOK
<1>1. PICK d \in Value : d = defs[<<x, p>>] /\ Root(alias, v) = Root(alias, d)
  BY <1>t DEF Stands
<1>2. d # NONE BY NoneIsNoValue
<1>3. Root(alias', v) = Root(alias', d) BY <1>1, EqualKept
<1>4. CASE defs'[<<x, p>>] = d BY <1>2, <1>3, <1>4 DEF Stands
<1>5. CASE Finds
  <2>1. CASE ReadHit /\ defs'[<<x, p>>] = Resolve(d)
    <3>1. alias' = alias BY <2>1 DEF ReadHit
    <3>2. Resolve(d) \in Value /\ alias[Resolve(d)] = NONE /\ Resolve(d) = Root(alias, d)
      BY <1>t, ResolveFacts
    <3>3. Root(alias, Resolve(d)) = Resolve(d) BY <1>t, <3>2, RootDef
    <3>4. Resolve(d) # NONE BY <3>2, NoneIsNoValue
    <3> QED BY <1>1, <2>1, <3>1, <3>2, <3>3, <3>4 DEF Stands
  <2>2. ReadStep BY <1>5 DEF Finds, ReadStep
  <2> QED BY <1>b, <1>1, <1>2, <1>4, <2>1, <2>2, ReadRecords
<1>6. CASE Assigns
  <2>1. PICK y \in Var, b \in Block, w \in Value : DefVar(y, b, w) BY <1>6 DEF Assigns
  <2>2. pc = "idle" /\ b \notin terminated /\ defs' = [defs EXCEPT ![<<y, b>>] = w]
    BY <2>1 DEF DefVar, MayAssign
  <2>3. b # p BY <2>2
  <2>4. defs'[<<x, p>>] = d BY <1>1, <1>t, <2>2, <2>3
  <2> QED BY <2>4, <1>4
<1>7. CASE defs' = defs BY <1>1, <1>7, <1>4
<1> QED BY <1>b, <1>5, <1>6, <1>7, Changes

\* What a read finds is what the variable stands for wherever it came through.
LEMMA FoundFacts ==
  ASSUME Core, Chain, Finds
  PROVE  \E v \in Value :
           /\ Deliver(v)
           /\ \A b \in Block : b \in Origin =>
                defs'[<<rd.var, b>>] = v /\ Stands(defs', alias', rd.var, b, v)
           /\ \A x \in Var, b \in Block :
                \/ incoming'[<<x, b>>] = incoming[<<x, b>>]
                \/ /\ x = rd.var /\ incoming'[<<x, b>>] = v
                   /\ b \in rd.chain \/ ReadZero \/ (ReadNewParam /\ v = nvals + 1)
                   /\ b \in rd.chain \/ b = rd.at
<1>b. Base BY DEF Core
<1>0. pc = "read" /\ alias' = alias BY <1>b, FindFacts
<1>1. rd.var \in Var /\ rd.chain \subseteq Block /\ rd.at \in Block
  BY <1>0, <1>b, JobSeqs DEF Base, CallShape
<1>2. ASSUME NEW v \in Value, defs' = Record(defs, ReadBlocks, v), NEW b \in Block, b \in Origin
      PROVE  defs'[<<rd.var, b>>] = v /\ Stands(defs', alias', rd.var, b, v)
  <2>1. defs'[<<rd.var, b>>] = v BY <1>1, <1>2 DEF Record, ReadBlocks, Origin
  <2>2. v # NONE BY NoneIsNoValue
  <2> QED BY <2>1, <2>2 DEF Stands
<1>3. CASE ReadHit
  <2>1. PICK v \in Value : v = Resolve(defs[<<rd.var, rd.at>>]) BY <1>3, <1>b, HitFacts
  <2>2. /\ Deliver(v) /\ defs' = Record(defs, ReadBlocks, v)
        /\ incoming' = Record(incoming, rd.chain \ {rd.at}, v)
    BY <1>3, <2>1 DEF ReadHit
  <2>3. ASSUME NEW x \in Var, NEW b \in Block
        PROVE \/ incoming'[<<x, b>>] = incoming[<<x, b>>]
              \/ x = rd.var /\ incoming'[<<x, b>>] = v /\ b \in rd.chain
    BY <2>2 DEF Record
  <2> QED BY <1>2, <2>2, <2>3
<1>4. CASE ReadNewParam
  <2>1. PICK v \in Value : v = nvals + 1 BY <1>4, <1>b, NewParamFacts
  <2>2. /\ Deliver(v) /\ defs' = Record(defs, ReadBlocks, v)
        /\ incoming' = Record(incoming, ReadBlocks, v)
    BY <1>4, <2>1 DEF ReadNewParam
  <2>3. ASSUME NEW x \in Var, NEW b \in Block
        PROVE \/ incoming'[<<x, b>>] = incoming[<<x, b>>]
              \/ x = rd.var /\ incoming'[<<x, b>>] = v /\ (b \in rd.chain \/ b = rd.at)
    BY <2>2 DEF Record, ReadBlocks
  <2> QED BY <1>2, <1>4, <2>1, <2>2, <2>3
<1>5. CASE ReadZero
  <2> DEFINE z == IF zero = NONE THEN nvals + 1 ELSE zero
  <2>1. PICK v \in Value : v = z BY <1>5, <1>b, ZeroFacts
  <2>2. /\ Deliver(v) /\ defs' = Record(defs, ReadBlocks, v)
        /\ incoming' = Record(incoming, ReadBlocks, v)
    BY <1>5, <2>1 DEF ReadZero
  <2>3. ASSUME NEW x \in Var, NEW b \in Block
        PROVE \/ incoming'[<<x, b>>] = incoming[<<x, b>>]
              \/ x = rd.var /\ incoming'[<<x, b>>] = v /\ (b \in rd.chain \/ b = rd.at)
    BY <2>2 DEF Record, ReadBlocks
  <2> HIDE DEF z
  <2> QED BY <1>2, <1>5, <2>2, <2>3
<1> QED BY <1>3, <1>4, <1>5 DEF Finds

\* What has been read for the new terminator, and what it passes already, stands for the
\* variables at the end of its block.
GotFinal ==
    \A j \in DOMAIN call.got : Stands(defs, alias, call.want[j].var, call.block, call.got[j])
CallFinal ==
    \A k \in DOMAIN call.term : \A i \in DOMAIN call.term[k].args :
        Stands(defs, alias, paramVar[params[call.term[k].block][i]], call.block, call.term[k].args[i])

LEMMA GotFacts ==
  ASSUME Base, Wanted, NEW j \in DOMAIN call.got
  PROVE  j \in DOMAIN call.want /\ call.want[j].var \in Var /\ call.got[j] \in Value
<1>1. call.got \in Seq(Value) /\ call.want \in Seq([edge : Nat, var : Var]) BY JobSeqs
<1>2. j \in DOMAIN call.want
  <2>1. Len(call.got) <= Len(call.want) BY DEF Wanted
  <2>2. /\ Len(call.got) \in Nat /\ DOMAIN call.got = 1..Len(call.got)
        /\ Len(call.want) \in Nat /\ DOMAIN call.want = 1..Len(call.want)
    BY <1>1, LenProperties
  <2> QED BY SMTT(30), <2>1, <2>2
<1>3. call.want[j] \in [edge : Nat, var : Var] BY <1>1, <1>2, ElementOfSeq, LenProperties
<1>4. call.got[j] \in Value BY <1>1, ElementOfSeq, LenProperties
<1> QED BY <1>2, <1>3, <1>4

LEMMA GotFinalStep ==
  ASSUME MaxReplace = 0, Plain, Chain, Reading, Wanted, GotFinal, Next
  PROVE  GotFinal'
<1>b. Core /\ Base BY DEF Plain, Settled, Core
<1>0. DOMAIN <<>> = {} /\ Len(<<>>) = 0 BY EmptySeq, LenProperties
<1>t. call \in CallType BY <1>b DEF Base, TypeOK, JobOK, CallOK, CallType
<1>e. ASSUME call'.got = <<>> PROVE GotFinal' BY <1>0, <1>e DEF GotFinal
<1>1. CASE Call BY <1>1, <1>b, <1>e, FreshCall
<1>2. CASE call' = NoCall
  <2>1. call'.got = <<>> BY <1>2 DEF NoCall
  <2> QED BY <2>1, <1>e
<1>3. CASE NewTermPush BY <1>3, <1>b, <1>e, PushFacts
<1>4. CASE NewTermWant
  <2>1. call'.got = call.got BY <1>4, <1>b, WantFacts
  <2>2. call.got = <<>>
    <3>1. Len(call.got) <= 0 BY <1>0, <1>4 DEF NewTermWant, Wanted
    <3>2. call.got \in Seq(Value) /\ Len(call.got) \in Nat BY <1>b, JobSeqs, LenProperties
    <3>3. Len(call.got) = 0 BY <3>1, <3>2
    <3> QED BY <3>2, <3>3, EmptySeq
  <2> QED BY SMTT(30), <2>1, <2>2, <1>e
<1>k. ASSUME ~Call, NEW j \in DOMAIN call.got
      PROVE  Stands(defs', alias', call.want[j].var, call.block, call.got[j])
  <2>1. pc # "idle" BY <1>k, <1>b, CallChanges
  <2>2. PICK x \in Var, v \in Value : x = call.want[j].var /\ v = call.got[j] BY <1>b, GotFacts
  <2>3. PICK p \in Block : p = call.block BY <1>b, JobSeqs
  <2>4. Stands(defs, alias, x, p, v) BY <2>2, <2>3 DEF GotFinal
  <2>5. Stands(defs', alias', x, p, v) BY <2>1, <2>4, StandsKept
  <2> QED BY <2>2, <2>3, <2>5
<1>5. CASE ~Call /\ call' = call BY <1>5, <1>k DEF GotFinal
<1>6. CASE ~Call /\ Finds /\ rd.for = "newterm" /\ call' # NoCall
  <2>1. PICK v \in Value :
          /\ Deliver(v)
          /\ \A b \in Block : b \in Origin => Stands(defs', alias', rd.var, b, v)
    BY <1>6, <1>b, FoundFacts
  <2>2. pc = "read" BY <1>6, <1>b, FindFacts
  <2>3. call' = [call EXCEPT !.got = Append(call.got, v)] BY <1>6, <2>1 DEF Deliver
  <2>4. call'.got = Append(call.got, v) /\ call'.want = call.want /\ call'.block = call.block
    BY <2>3, <1>t DEF CallType
  <2>5. call.got \in Seq(Value) /\ Len(call.got) \in Nat /\ call.block \in Block
    BY <1>b, JobSeqs, LenProperties
  <2>6. ASSUME NEW j \in DOMAIN call'.got
        PROVE Stands(defs', alias', call.want[j].var, call.block, call'.got[j])
    <3>0. /\ DOMAIN call.got = 1..Len(call.got) /\ DOMAIN call'.got = 1..(Len(call.got) + 1)
          /\ Append(call.got, v)[Len(call.got) + 1] = v
          /\ \A h \in 1..Len(call.got) : Append(call.got, v)[h] = call.got[h]
      BY <2>4, <2>5, AppendProperties, LenProperties
    <3>1. \/ j \in DOMAIN call.got /\ call'.got[j] = call.got[j]
          \/ j = Len(call.got) + 1 /\ call'.got[j] = v
      BY <2>4, <2>5, <3>0
    <3>2. CASE j = Len(call.got) + 1 /\ call'.got[j] = v
      <4>1. call.want[j].var = rd.var /\ call.block \in Origin BY <1>6, <2>2, <3>2 DEF Reading
      <4> QED BY <2>1, <2>5, <3>2, <4>1
    <3>3. CASE j \in DOMAIN call.got /\ call'.got[j] = call.got[j] BY <3>3, <1>6, <1>k
    <3> QED BY <3>1, <3>2, <3>3
  <2> QED BY <2>4, <2>6 DEF GotFinal
<1> QED BY <1>1, <1>2, <1>3, <1>4, <1>5, <1>6, <1>b, CallChanges

LEMMA CallArgFacts ==
  ASSUME Base, CallWithin, NEW k \in DOMAIN call.term, NEW i \in DOMAIN call.term[k].args
  PROVE  /\ call.term[k].block \in Block /\ i \in DOMAIN params[call.term[k].block]
         /\ call.term[k].args[i] \in Value
         /\ paramVar[params[call.term[k].block][i]] \in Var
<1>1. call.term[k] \in Edge BY EdgeFacts
<1>2. call.term[k].block \in Block /\ call.term[k].args \in Seq(Value) BY <1>1 DEF Edge
<1>3. params[call.term[k].block] \in Seq(Value) BY <1>2, EdgeFacts
<1>4. Len(call.term[k].args) <= Len(params[call.term[k].block]) BY DEF CallWithin
<1>5. i \in DOMAIN params[call.term[k].block] BY <1>2, <1>3, <1>4, LenProperties
<1>6. call.term[k].args[i] \in Value BY <1>2, ElementOfSeq, LenProperties
<1> QED BY <1>2, <1>5, <1>6 DEF Base, Named

LEMMA CallFinalStep ==
  ASSUME MaxReplace = 0, Plain, Chain, Wanted, CallWithin, GotFinal, CallFinal, Next
  PROVE  CallFinal'
<1>s. Settled BY DEF Plain
<1>b. Core /\ Base BY DEF Plain, Settled, Core
<1>0. DOMAIN <<>> = {} /\ Len(<<>>) = 0 BY EmptySeq, LenProperties
<1>t. call \in CallType BY <1>b DEF Base, TypeOK, JobOK, CallOK, CallType
<1>e. ASSUME \A k \in DOMAIN call'.term : call'.term[k].args = <<>> PROVE CallFinal'
  BY <1>0, <1>e DEF CallFinal
<1>1. CASE Call BY <1>1, <1>b, <1>e, FreshCall
<1>2. CASE call' = NoCall
  <2>1. DOMAIN call'.term = {} BY <1>2, <1>0 DEF NoCall
  <2> QED BY <2>1, <1>e
<1>k. ASSUME ~Call, call' # NoCall, NEW k \in DOMAIN call.term, NEW i \in DOMAIN call.term[k].args
      PROVE  Stands(defs', alias', paramVar'[params'[call.term[k].block][i]], call.block,
                    call.term[k].args[i])
  <2>1. pc # "idle" BY <1>k, <1>b, CallChanges
  <2>2. PICK b \in Block : b = call.term[k].block BY <1>b, CallArgFacts
  <2>3. i \in DOMAIN params[b] BY <1>b, <2>2, CallArgFacts
  <2>4. PICK x \in Var, v \in Value : x = paramVar[params[b][i]] /\ v = call.term[k].args[i]
    BY <1>b, <2>2, CallArgFacts
  <2>5. PICK p \in Block : p = call.block BY <1>b, JobSeqs
  <2>6. ~Removes /\ ~ElimRemove BY <1>k DEF Call, Removes, ElimRemove, Return
  <2>7. params'[b][i] = params[b][i] /\ paramVar'[params[b][i]] = paramVar[params[b][i]]
    BY <1>s, <2>3, <2>6, ParamsKept
  <2>8. Stands(defs, alias, x, p, v) BY <2>2, <2>4, <2>5 DEF CallFinal
  <2>9. Stands(defs', alias', x, p, v) BY <2>1, <2>8, StandsKept
  <2> QED BY <2>2, <2>4, <2>5, <2>7, <2>9
<1>3. CASE ~Call /\ call' # NoCall /\ call'.term = call.term /\ call'.block = call.block
  BY <1>3, <1>k DEF CallFinal
<1>4. CASE Finds /\ rd.for = "newterm" /\ call' # NoCall
  <2>1. PICK v \in Value : Deliver(v) BY <1>4, <1>b, FindFacts
  <2>2. call' = [call EXCEPT !.got = Append(call.got, v)] /\ pc = "read"
    BY <1>4, <2>1, <1>b, FindFacts DEF Deliver
  <2>3. call'.term = call.term /\ call'.block = call.block BY <2>2, <1>t DEF CallType
  <2>4. ~Call BY <2>2, <1>b, CallChanges
  <2> QED BY <1>3, <1>4, <2>3, <2>4
<1>5. CASE NewTermWant /\ call' # NoCall
  <2>1. call'.term = call.term /\ call'.block = call.block BY <1>5, <1>b, WantFacts
  <2>2. pc = "newterm" BY <1>5 DEF NewTermWant
  <2>3. ~Call BY <2>2, <1>b, CallChanges
  <2> QED BY SMTT(30), <1>3, <1>5, <2>1, <2>3
<1>6. CASE NewTermPush /\ call' # NoCall
  <2>0. pc = "newterm" /\ UNCHANGED <<params, paramVar>> BY <1>6 DEF NewTermPush, func, ssa
  <2>1. ~Call BY <2>0, <1>b, CallChanges
  <2>2. call'.block = call.block /\ DOMAIN call'.term = DOMAIN call.term BY <1>6, <1>b, PushFacts
  <2>3. ASSUME NEW k \in DOMAIN call.term, NEW i \in DOMAIN call'.term[k].args
        PROVE Stands(defs', alias', paramVar'[params'[call'.term[k].block][i]], call'.block,
                     call'.term[k].args[i])
    <3>1. call'.term[k].block = call.term[k].block BY <1>6, <1>b, PushFacts
    <3>2. CASE call'.term[k] = call.term[k] BY <1>6, <2>1, <2>2, <2>3, <3>2, <1>k
    <3>3. CASE \E j \in DOMAIN call.want :
                 /\ call.want[j].edge = k
                 /\ call'.term[k].args = Append(call.term[k].args, call.got[j])
      <4>1. PICK j \in DOMAIN call.want :
                 /\ call.want[j].edge = k
                 /\ call'.term[k].args = Append(call.term[k].args, call.got[j])
        BY <3>3
      <4>2. j \in DOMAIN call.got
        <5>1. call.got \in Seq(Value) /\ call.want \in Seq([edge : Nat, var : Var]) BY <1>b, JobSeqs
        <5>2. Len(call.got) = Len(call.want) BY <1>6 DEF NewTermPush
        <5> QED BY <5>1, <5>2, LenProperties
      <4>3. call.got[j] \in Value BY <1>b, <4>2, GotFacts
      <4>4. call.term[k].args \in Seq(Value) /\ Len(call.term[k].args) \in Nat
        BY <1>b, EdgeFacts, LenProperties DEF Edge
      <4>5. \/ i \in DOMAIN call.term[k].args /\ call'.term[k].args[i] = call.term[k].args[i]
            \/ i = Len(call.term[k].args) + 1 /\ call'.term[k].args[i] = call.got[j]
        BY <2>3, <4>1, <4>3, <4>4, AppendProperties, LenProperties
      <4>6. CASE i \in DOMAIN call.term[k].args /\ call'.term[k].args[i] = call.term[k].args[i]
        BY <1>6, <2>1, <2>2, <3>1, <4>6, <1>k
      <4>7. CASE i = Len(call.term[k].args) + 1 /\ call'.term[k].args[i] = call.got[j]
        <5>1. call.want[j].var = paramVar[params[call.term[k].block][i]] BY <4>1, <4>7 DEF Wanted
        <5>2. PICK x \in Var, v \in Value : x = call.want[j].var /\ v = call.got[j]
          BY <1>b, <4>2, GotFacts
        <5>3. PICK p \in Block : p = call.block BY <1>b, JobSeqs
        <5>4. Stands(defs, alias, x, p, v) BY <4>2, <5>2, <5>3 DEF GotFinal
        <5>5. Stands(defs', alias', x, p, v) BY <2>0, <5>4, StandsKept
        <5> QED BY <2>0, <2>2, <3>1, <4>7, <5>1, <5>2, <5>3, <5>5
      <4> QED BY <4>5, <4>6, <4>7
    <3> QED BY <3>2, <3>3, <1>6, <1>b, PushFacts
  <2> QED BY <2>2, <2>3 DEF CallFinal
<1>7. CASE ~Call /\ call' = call BY <1>2, <1>3, <1>7
<1> QED BY <1>1, <1>2, <1>4, <1>5, <1>6, <1>7, <1>b, CallChanges

\* The arguments of the installed terminators stand for the variables at the end of
\* their block.
FinalValues ==
    \A p \in Block : \A k \in DOMAIN term[p] : \A i \in DOMAIN term[p][k].args :
        term[p][k].block \in live =>
            Stands(defs, alias, paramVar[params[term[p][k].block][i]], p, term[p][k].args[i])

LEMMA PassedArgFacts ==
  ASSUME Base, Edges, Within, NEW p \in Block, NEW k \in DOMAIN term[p],
         NEW i \in DOMAIN term[p][k].args, term[p][k].block \in live
  PROVE  /\ term[p][k].block \in Block /\ i \in DOMAIN params[term[p][k].block]
         /\ term[p][k].args[i] \in Value
         /\ paramVar[params[term[p][k].block][i]] \in Var
         /\ p \in terminated
<1>1. term[p][k].block \in Block /\ term[p][k].args \in Seq(Value) BY EdgeFacts
<1>2. params[term[p][k].block] \in Seq(Value) BY <1>1, EdgeFacts
<1>3. Len(term[p][k].args) <= Len(params[term[p][k].block]) BY DEF Within
<1>4. i \in DOMAIN params[term[p][k].block] BY <1>1, <1>2, <1>3, LenProperties
<1>5. term[p][k].args[i] \in Value BY <1>1, ElementOfSeq, LenProperties
<1>6. paramVar[params[term[p][k].block][i]] \in Var BY <1>1, <1>4 DEF Base, Named
<1>7. term[p] # <<>> BY EmptySeq, LenProperties
<1>8. p \in terminated BY <1>7 DEF Edges
<1> QED BY <1>1, <1>4, <1>5, <1>6, <1>8

LEMMA FinalValuesStep ==
  ASSUME MaxReplace = 0, Plain, Chain, Reading, Wanted, CallWithin, Within, StackInUse, Completed,
         CallFinal, FinalValues, Next
  PROVE  FinalValues'
<1>s. Settled BY DEF Plain
<1>b. Core /\ Base /\ Edges BY DEF Plain, Settled, Core
<1>t. live \subseteq Block /\ term \in [Block -> Seq(Edge)] /\ Forwarding(alias)
  BY <1>b DEF Base, TypeOK, FuncOK
<1>0. DOMAIN <<>> = {} BY EmptySeq, LenProperties
<1> SUFFICES ASSUME NEW p \in Block, NEW k \in DOMAIN term'[p], NEW i \in DOMAIN term'[p][k].args,
                    NEW b, b = term'[p][k].block, b \in live'
             PROVE  Stands(defs', alias', paramVar'[params'[b][i]], p, term'[p][k].args[i])
  BY DEF FinalValues
\* What an edge passes already.
<1>k. ASSUME k \in DOMAIN term[p], term[p][k].block = b, b \in live, NEW j \in DOMAIN term[p][k].args
      PROVE  /\ b \in Block /\ j \in DOMAIN params[b] /\ term[p][k].args[j] \in Value
             /\ Stands(defs', alias', paramVar[params[b][j]], p, term[p][k].args[j])
  <2>1. /\ b \in Block /\ j \in DOMAIN params[b] /\ term[p][k].args[j] \in Value
        /\ paramVar[params[b][j]] \in Var /\ p \in terminated
    BY <1>k, <1>b, PassedArgFacts
  <2>2. PICK x \in Var, v \in Value : x = paramVar[params[b][j]] /\ v = term[p][k].args[j] BY <2>1
  <2>3. Stands(defs, alias, x, p, v) BY <1>k, <2>2 DEF FinalValues
  <2>4. Stands(defs', alias', x, p, v) BY <2>1, <2>3, StandsKept
  <2> QED BY <2>1, <2>2, <2>4
<1>1. CASE ElimRemove
  <2>1. live' = live /\ alias' = alias /\ paramVar' = paramVar
    BY <1>1 DEF ElimRemove, AliasesKept, ssa
  <2>2. /\ k \in DOMAIN term[p] /\ term[p][k].block = b
        /\ Len(term[p][k].args) = Len(params[b])
    BY <1>1, <1>s, <2>1, RemovePasses
  <2>3. PICK j : /\ j \in DOMAIN term[p][k].args /\ params'[b][i] = params[b][j]
                 /\ term'[p][k].args[i] = Resolve(term[p][k].args[j])
    <3>1. Len(term[p][k].args) = Len(params[term[p][k].block]) BY <2>2
    <3>2. \A h \in DOMAIN term'[p][k].args :
             /\ Nth(Kept(term[p][k].block), h) \in DOMAIN term[p][k].args
             /\ params'[term[p][k].block][h] = params[term[p][k].block][Nth(Kept(term[p][k].block), h)]
             /\ term'[p][k].args[h] = Resolve(term[p][k].args[Nth(Kept(term[p][k].block), h)])
      BY <1>1, <1>b, <2>2, <3>1, RemoveFacts
    <3> QED BY <2>2, <3>2
  <2>4. PICK v \in Value : v = term[p][k].args[j] BY <1>k, <2>1, <2>2, <2>3
  <2>5. Stands(defs', alias', paramVar[params[b][j]], p, v) BY <1>k, <2>1, <2>2, <2>3, <2>4
  <2>6. Root(alias, Resolve(v)) = Root(alias, v)
    <3>1. Resolve(v) \in Value /\ alias[Resolve(v)] = NONE /\ Resolve(v) = Root(alias, v)
      BY <1>t, ResolveFacts
    <3> QED BY <1>t, <3>1, RootDef
  <2> QED BY <2>1, <2>3, <2>4, <2>5, <2>6 DEF Stands
<1>2. CASE TakesOff \/ Removes
  <2>1. term'[p] = term[p] /\ live' \subseteq live /\ params'[b] = params[b] /\ paramVar' = paramVar
    BY <1>2, <1>b, <1>0, GoneFacts
  <2> QED BY <2>1, <1>k
<1>3. CASE NewTermInstall
  <2>1. term' = [term EXCEPT ![call.block] = call.term] /\ pc = "newterm"
        /\ UNCHANGED <<live, params, paramVar>>
    BY <1>3 DEF NewTermInstall
  <2>u. live' = live /\ params' = params /\ paramVar' = paramVar BY <2>1
  <2>2. CASE p = call.block
    <3>1. term'[p] = call.term BY <1>t, <2>1, <2>2
    <3>2. PICK x \in Var, v \in Value : x = paramVar[params[b][i]] /\ v = call.term[k].args[i]
      BY <1>b, <3>1, CallArgFacts
    <3>3. Stands(defs, alias, x, p, v) BY <2>2, <3>1, <3>2 DEF CallFinal
    <3>4. Stands(defs', alias', x, p, v) BY <2>1, <3>3, StandsKept
    <3> QED BY <2>u, <3>1, <3>2, <3>4
  <2>3. CASE p # call.block
    <3>1. term'[p] = term[p] BY <1>t, <2>1, <2>3
    <3> QED BY <2>u, <3>1, <1>k
  <2> QED BY <2>2, <2>3
<1>4. CASE Finds
  <2>1. live' = live /\ pc = "read" BY <1>4, <1>b, FindFacts
  <2>2. PICK v \in Value :
          /\ Deliver(v)
          /\ \A c \in Block : c \in Origin => Stands(defs', alias', rd.var, c, v)
    BY <1>4, <1>b, FoundFacts
  <2>3. k \in DOMAIN term[p] /\ term[p][k].block = b BY <2>1, <2>2, <1>b, DeliverFacts
  <2>4. ~Removes /\ ~ElimRemove BY <2>1 DEF Removes, RemoveBlock, ElimRemove
  <2>5. b \in Block BY <1>t, <2>1
  <2>6. \A j \in DOMAIN params[b] : params'[b][j] = params[b][j] /\ paramVar'[params[b][j]] = paramVar[params[b][j]]
    BY <1>s, <2>4, <2>5, ParamsKept
  <2>7. ASSUME i \in DOMAIN term[p][k].args, term'[p][k].args[i] = term[p][k].args[i]
        PROVE  Stands(defs', alias', paramVar'[params'[b][i]], p, term'[p][k].args[i])
    BY <1>k, <2>1, <2>3, <2>6, <2>7
  <2>8. CASE term'[p][k] = term[p][k] BY <2>7, <2>8
  <2>9. CASE /\ rd.for = "complete" /\ p = CursorPred /\ k \in EdgesInto(p, cursor.block)
             /\ Len(term[p][k].args) = MinArgs(p, cursor.block)
             /\ term'[p][k].args = Append(term[p][k].args, v)
    <3>1. term[p][k].args \in Seq(Value) /\ Len(term[p][k].args) \in Nat
      BY <1>b, <2>3, EdgeFacts, LenProperties
    <3>2. /\ DOMAIN term[p][k].args = 1..Len(term[p][k].args)
          /\ DOMAIN term'[p][k].args = 1..(Len(term[p][k].args) + 1)
          /\ Append(term[p][k].args, v)[Len(term[p][k].args) + 1] = v
          /\ \A h \in 1..Len(term[p][k].args) : Append(term[p][k].args, v)[h] = term[p][k].args[h]
      BY SMTT(30), <2>9, <3>1, AppendProperties, LenProperties
    <3>3. CASE i = Len(term[p][k].args) + 1
      <4>1. b = cursor.block BY <2>3, <2>9 DEF EdgesInto
      <4>2. /\ Len(term[p][k].args) < Len(params[b]) /\ rd.var = paramVar[params[b][i]]
            /\ p \in Origin
        BY <2>1, <2>9, <3>3, <4>1 DEF Reading
      <4>3. i \in DOMAIN params[b]
        <5>1. Len(params[b]) \in Nat /\ DOMAIN params[b] = 1..Len(params[b])
          BY <1>b, <2>5, EdgeFacts, LenProperties
        <5>2. \A m, n \in Nat : m < n => m + 1 \in 1..n OBVIOUS
        <5> QED BY <3>1, <3>3, <4>2, <5>1, <5>2
      <4>4. term'[p][k].args[i] = v BY <2>9, <3>2, <3>3
      <4>5. Stands(defs', alias', rd.var, p, v) BY <2>2, <4>2
      <4> QED BY <2>6, <4>2, <4>3, <4>4, <4>5
    <3>4. CASE i # Len(term[p][k].args) + 1
      <4>1. i \in 1..Len(term[p][k].args) BY <3>1, <3>2, <3>4
      <4> QED BY <2>7, <2>9, <3>2, <4>1
    <3> QED BY <3>3, <3>4
  <2> QED BY <1>b, <2>1, <2>2, <2>3, <2>8, <2>9, Delivered
<1>5. ASSUME ~ElimRemove, ~TakesOff, ~Removes, ~NewTermInstall, ~Finds
      PROVE  Stands(defs', alias', paramVar'[params'[b][i]], p, term'[p][k].args[i])
  <2>1. term' = term /\ live' = live /\ params' = params /\ paramVar' = paramVar
    BY <1>5, <1>b, Changes DEF Finds
  <2> QED BY <2>1, <1>k
<1> QED BY <1>1, <1>2, <1>3, <1>4, <1>5

\* What the edges carry, and what that stands for.
Meant ==
    /\ Plain /\ Passing /\ Chain /\ GotFinal /\ CallFinal
    /\ failed \/ FinalValues

LEMMA MeantStep ==
  ASSUME MaxReplace = 0, Meant, [Next]_vars
  PROVE  Meant'
<1>p. Plain' /\ Passing' BY PlainStep, PassingStep DEF Meant
<1>b. Core BY DEF Meant, Plain, Settled
<1>1. CASE Next
  <2>1. Chain' BY <1>1, <1>b, ChainStep DEF Meant
  <2>2. GotFinal' /\ CallFinal'
    BY <1>1, GotFinalStep, CallFinalStep DEF Meant, Passing
  <2>3. CASE failed
    <3>1. failed' BY <1>1, <1>b, <2>3, Changes DEF ReadFails
    <3> QED BY <1>p, <2>1, <2>2, <3>1 DEF Meant
  <2>4. CASE ~failed
    <3>1. FinalValues' BY <1>1, <2>4, FinalValuesStep DEF Meant, Passing
    <3> QED BY <1>p, <2>1, <2>2, <3>1 DEF Meant
  <2> QED BY <2>3, <2>4
<1>2. CASE UNCHANGED vars
  <2>1. UNCHANGED <<pc, rd, call, defs, alias, params, paramVar, term, live, failed>>
    BY <1>2 DEF vars, func, ssa, job, hist
  <2>2. Chain' BY <2>1 DEF Meant, Chain
  <2>3. GotFinal' /\ CallFinal' BY <2>1 DEF Meant, GotFinal, CallFinal
  <2>4. failed' \/ FinalValues' BY <2>1 DEF Meant, FinalValues
  <2> QED BY <1>p, <2>2, <2>3, <2>4 DEF Meant
<1> QED BY <1>1, <1>2

LEMMA MeantHolds == MaxReplace = 0 => (Spec => []Meant)
<1> SUFFICES ASSUME MaxReplace = 0 PROVE Spec => []Meant OBVIOUS
<1>1. Init /\ Plain /\ Passing => Meant
  <2> SUFFICES ASSUME Init, Plain, Passing PROVE Meant OBVIOUS
  <2>0. DOMAIN <<>> = {} BY EmptySeq, LenProperties
  <2>1. call.got = <<>> /\ call.term = <<>> /\ pc = "idle" BY DEF Init, NoCall
  <2>2. \A p \in Block : term[p] = <<>> BY DEF Init
  <2>3. Chain /\ GotFinal /\ CallFinal BY <2>0, <2>1 DEF Chain, GotFinal, CallFinal
  <2>4. FinalValues BY <2>0, <2>2 DEF FinalValues
  <2> QED BY <2>3, <2>4 DEF Meant
<1>2. Meant /\ [Next]_vars => Meant' BY MeantStep
<1>3. Spec => []Plain BY PlainHolds
<1> QED BY <1>1, <1>2, <1>3, PassingHolds, PTL DEF Spec

\* Each argument of an edge is what its variable is worth at the end of the predecessor,
\* whether it was read before the block was sealed or after, for an installed terminator
\* or for a new one, and whatever parameters were found trivial and taken out since.
THEOREM EdgesPassFinal == MaxReplace = 0 => (Spec => []EdgesPassFinalValues)
<1> SUFFICES ASSUME MaxReplace = 0 PROVE Spec => []EdgesPassFinalValues OBVIOUS
<1>1. Meant => EdgesPassFinalValues
  <2> SUFFICES ASSUME Meant, ~failed, NEW p \in Block, NEW k \in DOMAIN term[p],
                      NEW i \in DOMAIN term[p][k].args, NEW b, b = term[p][k].block, b \in live,
                      NEW x, x = paramVar[params[b][i]]
               PROVE  /\ i \in DOMAIN params[b]
                      /\ defs[<<x, p>>] # NONE
                      /\ Resolve(term[p][k].args[i]) = Resolve(defs[<<x, p>>])
    BY DEF EdgesPassFinalValues
  <2>1. Base /\ Edges /\ Within /\ FinalValues BY DEF Meant, Plain, Settled, Core, Passing
  <2>2. i \in DOMAIN params[b] BY <2>1, PassedArgFacts
  <2>3. Stands(defs, alias, x, p, term[p][k].args[i]) BY <2>1 DEF FinalValues
  <2>4. \A u : Resolve(u) = Root(alias, u) BY DEF Resolve, Root
  <2> QED BY <2>2, <2>3, <2>4 DEF Stands
<1> QED BY <1>1, MeantHolds, PTL

------------------------------------------------------------------------------
(***************************************************************************)
(* What a variable was found to be on entry to a block.                    *)
(***************************************************************************)

\* x's value on entry to b, told by the ends of the forwarding chains: b's parameter for
\* x, or what x stands for at the end of every predecessor.
ByParam(x, b, v) ==
    \E i \in DOMAIN params[b] :
        /\ paramVar[params[b][i]] = x
        /\ alias[params[b][i]] = NONE
        /\ Root(alias, v) = params[b][i]
ByPreds(x, b, v) == b \in sealed /\ \A p \in Range(preds[b]) : Stands(defs, alias, x, p, v)

EntryAgree ==
    \A x \in Var, b \in live : \A v \in Value :
        incoming[<<x, b>>] = v => ByParam(x, b, v) \/ ByPreds(x, b, v)

\* The parameters that the final pass takes out forward.
Discarded == \A p \in elim.removed : alias[p] # NONE

\* What forwards goes on forwarding.
LEMMA ForwardsStill ==
  ASSUME Core, Next, NEW p \in Value, alias[p] # NONE
  PROVE  alias'[p] # NONE
<1>0. alias \in [Value -> Value \cup {NONE}] BY DEF Core, Base, TypeOK, FuncOK
<1>1. ASSUME NEW v \in Value, NEW q, alias' = [alias EXCEPT ![q] = v] PROVE alias'[p] # NONE
  BY <1>0, <1>1, NoneIsNoValue
<1>2. CASE alias' = alias BY <1>2
<1>3. CASE Replaces
  <2>1. PICK old \in Value, new \in Value : alias' = [alias EXCEPT ![old] = Resolve(new)]
    BY <1>3 DEF Replaces, ReplaceAllUses
  <2>2. Resolve(new) \in Value BY ResolveFacts DEF Core, Base
  <2> QED BY <1>1, <2>1, <2>2
<1>4. CASE ForwardParam BY <1>1, <1>4 DEF ForwardParam
<1>5. CASE Eliminates BY <1>1, <1>5 DEF Eliminates, ElimForward
<1> QED BY <1>2, <1>3, <1>4, <1>5, Changes

LEMMA DiscardedStep ==
  ASSUME Core, Discarded, Next
  PROVE  Discarded'
<1>e. elim.removed \subseteq Value /\ elim = [work |-> elim.work, users |-> elim.users, removed |-> elim.removed]
  BY DEF Core, Base, TypeOK, JobOK, ElimOK
<1>1. \A p \in elim.removed : alias'[p] # NONE BY <1>e, ForwardsStill DEF Discarded
<1>2. CASE elim' = elim BY <1>1, <1>2 DEF Discarded
<1>3. CASE elim' = NoElim \/ DrainedSealAll
  <2>1. elim'.removed = {} BY <1>3 DEF NoElim, DrainedSealAll
  <2> QED BY <2>1 DEF Discarded
<1>4. CASE Eliminates
  <2>1. PICK p \in Value, v \in Value : ElimForward(p, v) BY <1>4 DEF Eliminates
  <2>2. elim'.removed = elim.removed \cup {p} /\ alias' = [alias EXCEPT ![p] = v]
    BY <2>1 DEF ElimForward
  <2>3. alias \in [Value -> Value \cup {NONE}] BY DEF Core, Base, TypeOK, FuncOK
  <2>4. alias'[p] # NONE BY <2>2, <2>3, NoneIsNoValue
  <2> QED BY <1>1, <2>2, <2>4 DEF Discarded
<1>5. ASSUME NEW p \in Value, ElimSkip(p) PROVE Discarded'
  <2>1. elim' = [elim EXCEPT !.work = elim.work \ {p}] BY <1>5 DEF ElimSkip
  <2>2. elim'.removed = elim.removed BY <2>1, <1>e
  <2> QED BY <1>1, <2>2 DEF Discarded
<1> QED BY <1>2, <1>3, <1>4, <1>5, CallChanges

\* A sealed block gets no new predecessor.
LEMMA SealedPreds ==
  ASSUME Settled, Next, NEW b \in Block, b \in sealed
  PROVE  b \in sealed' /\ Range(preds'[b]) \subseteq Range(preds[b])
<1>b. Core /\ Base /\ Core' BY CoreStep DEF Settled, Core
<1>1. b \in sealed'
  <2>1. sealed' = sealed \/ Seals BY <1>b, Changes
  <2> QED BY <2>1 DEF Seals, SealBlock, SealAllBlocks
<1>2. CASE TakesOff \/ Removes
  <2>1. \A p \in Block : term'[p] = <<>> \/ term'[p] = term[p] BY <1>2, <1>b, GoneFacts
  <2>2. DOMAIN <<>> = {} BY EmptySeq, LenProperties
  <2>3. \A p \in Block : EdgesInto(p, b)' \subseteq EdgesInto(p, b) BY <2>1, <2>2 DEF EdgesInto
  <2>4. Range(preds[b]) = {p \in Block : EdgesInto(p, b) # {}} BY <1>b DEF Core, Edges, PredsCurrent
  <2>5. Range(preds'[b]) = {p \in Block : EdgesInto(p, b)' # {}} BY <1>b DEF Core, Edges, PredsCurrent
  <2>6. ASSUME NEW p \in Range(preds'[b]) PROVE p \in Range(preds[b])
    <3>1. p \in Block /\ EdgesInto(p, b)' # {} BY <2>5
    <3>2. EdgesInto(p, b) # {} BY <2>3, <3>1
    <3> QED BY <2>4, <3>1, <3>2
  <2> QED BY <1>1, <2>6
<1>3. CASE NewTermInstall
  <2>1. /\ preds' = [d \in Block |-> IF d \in Dests(call.term) THEN Append(preds[d], call.block) ELSE preds[d]]
        /\ Dests(call.term) \subseteq live \ {Entry} /\ pc = "newterm"
    BY <1>3 DEF NewTermInstall
  <2>2. call.op = "term" BY <2>1, <1>b DEF Base, CallShape
  <2>3. Dests(call.term) \cap sealed = {} BY <2>1, <2>2 DEF Settled, CallSealed
  <2>4. preds'[b] = preds[b] BY <2>1, <2>3
  <2> QED BY <1>1, <2>4
<1>4. CASE preds' = preds BY <1>1, <1>4
<1> QED BY <1>b, <1>2, <1>3, <1>4, Changes

LEMMA ByPredsKept ==
  ASSUME MaxReplace = 0, Plain, Chain, Next, NEW x \in Var, NEW b \in Block, NEW v \in Value,
         ByPreds(x, b, v)
  PROVE  ByPreds(x, b, v)'
<1>b. Settled /\ Core BY DEF Plain, Settled
<1>1. b \in sealed' /\ Range(preds'[b]) \subseteq Range(preds[b]) BY <1>b, SealedPreds DEF ByPreds
<1>2. ASSUME NEW p \in Range(preds[b]) PROVE Stands(defs', alias', x, p, v)
  <2>1. p \in Block /\ p \in terminated
    <3>1. PICK i \in DOMAIN preds[b] : p = preds[b][i] BY DEF Range
    <3> QED BY <1>b, <3>1, PredLive
  <2>2. Stands(defs, alias, x, p, v) BY DEF ByPreds
  <2> QED BY <2>1, <2>2, StandsKept
<1> QED BY <1>1, <1>2 DEF ByPreds

\* The parameter still stands for itself.
LEMMA ByParamKept ==
  ASSUME MaxReplace = 0, Plain, Discarded, Next, NEW x \in Var, NEW b \in live, b \in live',
         NEW v \in Value,
         NEW i \in DOMAIN params[b], paramVar[params[b][i]] = x, alias[params[b][i]] = NONE,
         Root(alias, v) = params[b][i], alias'[params[b][i]] = NONE
  PROVE  ByParam(x, b, v)'
<1>b. Settled /\ Core /\ Base /\ Core' BY CoreStep DEF Plain, Settled, Core
<1>t. live \subseteq Block /\ Forwarding(alias) /\ Forwarding(alias')
  BY <1>b DEF Core, Base, TypeOK, FuncOK
<1>1. PICK q \in Value : q = params[b][i] BY <1>t, <1>b, EdgeFacts
<1>2. Root(alias, q) = q BY <1>1, <1>t, RootDef
<1>3. Root(alias', v) = Root(alias', q) BY <1>1, <1>2, EqualKept
<1>4. Root(alias', q) = q BY <1>1, <1>t, RootDef
<1>5. \E j \in DOMAIN params'[b] : params'[b][j] = q
  <2>1. CASE ElimRemove
    <3>1. params'[b] = Pick(params[b], Kept(b)) BY <2>1, <1>t DEF ElimRemove
    <3>2. params[b] \in Seq(Value) /\ Kept(b) \in SUBSET (DOMAIN params[b])
      BY <1>t, <1>b, EdgeFacts DEF Kept
    <3>3. i \in Kept(b) BY <1>1 DEF Kept, Discarded
    <3>4. PICK j \in 1..Cardinality(Kept(b)) : Nth(Kept(b), j) = i BY <3>2, <3>3, PickFacts
    <3>5. j \in DOMAIN params'[b] /\ params'[b][j] = params[b][i] BY <3>1, <3>2, <3>4, PickFacts
    <3> QED BY <1>1, <3>5
  <2>2. CASE Removes
    <3>1. params'[b] = params[b] BY <2>2, <1>b, GoneFacts
    <3> QED BY <1>1, <3>1
  <2>3. CASE ~ElimRemove /\ ~Removes BY <2>3, <1>1, <1>b, <1>t, ParamsKept
  <2> QED BY <2>1, <2>2, <2>3
<1>6. paramVar'[q] = x
  <2>1. CASE ReadNewParam
    <3>1. paramVar' = [paramVar EXCEPT ![nvals + 1] = rd.var] /\ nvals \in Nat
      BY <2>1, <1>b, NewParamFacts DEF ReadNewParam
    <3>2. q <= nvals BY <1>1, <1>b, <1>t DEF Settled, Numbered
    <3>3. q # nvals + 1 BY <3>1, <3>2 DEF Value
    <3>4. paramVar \in [Value -> Var \cup {NONE}] BY <1>b DEF Base, TypeOK, SsaOK
    <3> QED BY <1>1, <3>1, <3>3, <3>4
  <2>2. CASE paramVar' = paramVar BY <1>1, <2>2
  <2> QED BY <1>b, <2>1, <2>2, Changes
<1> QED BY <1>1, <1>3, <1>4, <1>5, <1>6 DEF ByParam

\* A parameter found trivial forwards to what the variable stands for at the end of
\* every predecessor.
LEMMA ParamToPreds ==
  ASSUME MaxReplace = 0, Plain, Chain, Within, FinalValues, Next, NEW x \in Var, NEW b \in live,
         NEW v \in Value,
         NEW i \in DOMAIN params[b], paramVar[params[b][i]] = x, alias[params[b][i]] = NONE,
         Root(alias, v) = params[b][i],
         NEW w \in Value, b \in sealed, TrivialAs(params[b][i], b, i, w),
         alias' = [alias EXCEPT ![params[b][i]] = w]
  PROVE  ByPreds(x, b, v)'
<1>b. Settled /\ Core /\ Base /\ Edges /\ Forwarding(alias) BY DEF Plain, Settled, Core, Base
<1>t. live \subseteq Block BY <1>b DEF Base, TypeOK, FuncOK
<1>1. PICK q \in Value : q = params[b][i] BY <1>t, <1>b, EdgeFacts
<1>2. w \in Operands(b, i) /\ w # q /\ Operands(b, i) \subseteq {q, w} BY <1>1 DEF TrivialAs
<1>3. alias[w] = NONE BY <1>b, <1>t, <1>2, OperandEnds, NoneIsNoValue
<1>a. alias[q] = NONE /\ alias' = [alias EXCEPT ![q] = w] BY <1>1
<1>4. \A u \in Value : Resolve(u)' = IF Resolve(u) = q THEN w ELSE Resolve(u)
  BY <1>a, <1>b, <1>2, <1>3, EndForwarded
<1>5. \A u \in Value : Root(alias', u) = IF Root(alias, u) = q THEN w ELSE Root(alias, u)
  BY <1>4, <1>b, ResolveFacts, ResolvePrime
<1>6. Root(alias', v) = w BY <1>1, <1>5
<1>7. ASSUME NEW p \in Range(preds[b]) PROVE Stands(defs', alias', x, p, v)
  <2>1. p \in Block /\ p \in terminated /\ EdgesInto(p, b) # {}
    <3>1. PICK h \in DOMAIN preds[b] : p = preds[b][h] BY DEF Range
    <3> QED BY <1>b, <1>t, <3>1, PredLive
  <2>2. PICK k \in DOMAIN term[p] : term[p][k].block = b /\ k \in EdgesInto(p, b) BY <2>1 DEF EdgesInto
  <2>3. Arg(p, k, i) \in {q, w} BY <1>2, <2>2, OperandIs
  <2>4. i \in DOMAIN term[p][k].args /\ Resolve(term[p][k].args[i]) \in {q, w}
    BY <2>3, NoneIsNoValue DEF Arg
  <2>5. PICK u \in Value : u = term[p][k].args[i] BY <1>b, <2>1, <2>2, <2>4, ArgFacts
  <2>6. Root(alias, u) \in {q, w} BY <2>4, <2>5, <1>b, ResolveFacts
  <2>7. Root(alias', u) = w BY <1>5, <2>6
  <2>8. Stands(defs, alias, x, p, u) BY <2>1, <2>2, <2>4, <2>5 DEF FinalValues
  <2>9. Stands(defs', alias', x, p, u) BY <2>1, <2>8, StandsKept
  <2> QED BY <1>6, <2>7, <2>9 DEF Stands
<1>8. b \in sealed' /\ Range(preds'[b]) \subseteq Range(preds[b]) BY <1>b, <1>t, SealedPreds
<1> QED BY <1>7, <1>8 DEF ByPreds

\* Where the walk of a read came through, and where it stopped.
LEMMA EntryFound ==
  ASSUME Settled, Chain, Reading, Finds, Core', NEW x \in Var, NEW b \in live, NEW w \in Value,
         incoming'[<<x, b>>] = w, incoming'[<<x, b>>] # incoming[<<x, b>>]
  PROVE  ByParam(x, b, w)' \/ ByPreds(x, b, w)'
<1>b. Core /\ Base BY DEF Settled, Core
<1>t. live \subseteq Block /\ Forwarding(alias') /\ params \in [Block -> Seq(Value)]
  BY <1>b DEF Core, Base, TypeOK, FuncOK
<1>f. preds' = preds /\ sealed' = sealed /\ alias' = alias /\ pc = "read" BY <1>b, FindFacts
<1>1. PICK v \in Value :
        /\ \A c \in Block : c \in Origin => Stands(defs', alias', rd.var, c, v)
        /\ x = rd.var /\ incoming'[<<x, b>>] = v
        /\ b \in rd.chain \/ ReadZero \/ (ReadNewParam /\ v = nvals + 1)
        /\ b \in rd.chain \/ b = rd.at
  BY <1>b, <1>t, FoundFacts
<1>2. v = w BY <1>1
<1>3. CASE b \in rd.chain
  <2>1. b \in sealed /\ Len(preds[b]) = 1 /\ preds[b][1] \in Origin BY <1>3, <1>f DEF Reading
  <2>2. Range(preds[b]) = {preds[b][1]} /\ preds[b][1] \in Block
    <3>1. preds[b] \in Seq(Block) BY <1>b, <1>t, EdgeFacts
    <3>2. DOMAIN preds[b] = 1..1 BY <2>1, <3>1, LenProperties
    <3>3. 1 \in DOMAIN preds[b] /\ \A h \in DOMAIN preds[b] : h = 1 BY <3>2
    <3> QED BY <3>1, <3>3, <1>b, <1>t, EdgeFacts DEF Range
  <2>3. Stands(defs', alias', x, preds[b][1], w) BY <1>1, <1>2, <2>1, <2>2
  <2> QED BY <1>f, <2>1, <2>2, <2>3 DEF ByPreds
<1>4. CASE b \notin rd.chain /\ ReadZero
  <2>1. b \in sealed /\ preds[b] = <<>> BY <1>1, <1>4 DEF ReadZero
  <2>2. Range(preds[b]) = {} BY <2>1, EmptySeq, LenProperties DEF Range
  <2> QED BY <1>f, <2>1, <2>2 DEF ByPreds
<1>5. CASE b \notin rd.chain /\ ReadNewParam /\ v = nvals + 1
  <2>1. params' = [params EXCEPT ![rd.at] = Append(params[rd.at], nvals + 1)]
        /\ paramVar' = [paramVar EXCEPT ![nvals + 1] = rd.var]
    BY <1>5 DEF ReadNewParam
  <2>2. b = rd.at /\ w = nvals + 1 BY <1>1, <1>2, <1>5
  <2>3. paramVar'[w] = x
    <3>1. paramVar \in [Value -> Var \cup {NONE}] BY <1>b DEF Base, TypeOK, SsaOK
    <3> QED BY <1>1, <2>1, <2>2, <3>1
  <2>4. alias'[w] = NONE
    <3>1. nvals \in Nat BY <1>b, <1>5, NewParamFacts
    <3>2. w > nvals BY <2>2, <3>1
    <3> QED BY <1>f, <3>2 DEF Settled, Numbered
  <2>5. Root(alias', w) = w BY <1>t, <2>4, RootDef
  <2>6. \E j \in DOMAIN params'[b] : params'[b][j] = w
    <3>1. params'[b] = Append(params[b], w) BY <1>t, <2>1, <2>2
    <3>2. params[b] \in Seq(Value) BY <1>t
    <3>3. Len(params[b]) \in Nat /\ DOMAIN params'[b] = 1..(Len(params[b]) + 1)
          /\ params'[b][Len(params[b]) + 1] = w
      BY <3>1, <3>2, AppendProperties, LenProperties
    <3> QED BY <3>3
  <2> QED BY <2>3, <2>4, <2>5, <2>6 DEF ByParam
<1> QED BY <1>1, <1>3, <1>4, <1>5

LEMMA EntryAgreeStep ==
  ASSUME MaxReplace = 0, Plain, Chain, Reading, Within, FinalValues, Discarded, EntryAgree, Next
  PROVE  EntryAgree'
<1>b. Settled /\ Core /\ Base /\ ListedOnce /\ Core' /\ ~Replaces
  BY CoreStep, PlainStep DEF Plain, Settled, Core
<1>t. live \subseteq Block /\ incoming \in [Var \X Block -> Value \cup {NONE}]
      /\ alias \in [Value -> Value \cup {NONE}]
  BY <1>b DEF Base, TypeOK, FuncOK
<1>l. live' \subseteq live
  <2>1. live' = live \/ Removes BY <1>b, Changes
  <2> QED BY <2>1 DEF Removes, RemoveBlock
<1> SUFFICES ASSUME NEW x \in Var, NEW b \in live', NEW v \in Value, incoming'[<<x, b>>] = v
             PROVE  ByParam(x, b, v)' \/ ByPreds(x, b, v)'
  BY DEF EntryAgree
<1>0. b \in live /\ b \in Block BY <1>l, <1>t
<1>1. CASE Finds /\ incoming'[<<x, b>>] # incoming[<<x, b>>]
  BY <1>0, <1>1, <1>b, EntryFound
<1>2. CASE incoming'[<<x, b>>] = incoming[<<x, b>>]
  <2>1. CASE ByPreds(x, b, v) BY <1>0, <2>1, ByPredsKept
  <2>2. CASE ByParam(x, b, v)
    <3>1. PICK i \in DOMAIN params[b] : /\ paramVar[params[b][i]] = x
                                        /\ alias[params[b][i]] = NONE
                                        /\ Root(alias, v) = params[b][i]
      BY <2>2 DEF ByParam
    <3>q. PICK q \in Value : q = params[b][i] BY <1>0, <1>b, EdgeFacts
    <3>2. CASE alias'[params[b][i]] = NONE BY <1>0, <3>1, <3>2, ByParamKept
    <3>3. ASSUME NEW p \in Value, NEW w \in Value, NEW s \in Sites(p), TrivialAs(p, s[1], s[2], w),
                 s[1] \in sealed, alias' = [alias EXCEPT ![p] = w], alias'[q] # NONE
          PROVE  ByPreds(x, b, v)'
      <4>1. p = q BY <3>1, <3>3, <3>q, <1>t
      <4>2. s[1] \in Block /\ s[2] \in DOMAIN params[s[1]] /\ params[s[1]][s[2]] = q
        BY <1>b, <4>1, SiteFacts
      <4>3. s[1] = b /\ s[2] = i
        <5>1. \A c \in Block : \A j \in DOMAIN params[c] : params[c][j] = q => b = c /\ i = j
          BY <1>b, <1>0, <3>q DEF ListedOnce
        <5> QED BY <4>2, <5>1
      <4>4. TrivialAs(params[b][i], b, i, w) /\ b \in sealed
            /\ alias' = [alias EXCEPT ![params[b][i]] = w]
        BY <3>3, <3>q, <4>1, <4>3
      <4> QED BY <1>0, <3>1, <4>4, ParamToPreds
    <3>4. CASE ForwardParam /\ alias'[q] # NONE
      <4>1. PICK w \in Value : CanForward(Head(todo), w) /\ alias' = [alias EXCEPT ![Head(todo)] = w]
        BY <3>4 DEF ForwardParam
      <4>2. PICK p : p = Head(todo) OBVIOUS
      <4>3. PICK s \in Sites(p) : s[1] \in sealed /\ TrivialAs(p, s[1], s[2], w)
        BY <4>1, <4>2 DEF CanForward
      <4>4. p \in Value BY <1>b, <4>3, TrivialFacts
      <4>5. alias' = [alias EXCEPT ![p] = w] BY <4>1, <4>2
      <4> QED BY <3>3, <3>4, <4>3, <4>4, <4>5
    <3>5. CASE Eliminates /\ alias'[q] # NONE
      <4>1. PICK p \in Value, w \in Value : ElimForward(p, w) BY <3>5 DEF Eliminates
      <4>2. PICK s \in Sites(p) : TrivialAs(p, s[1], s[2], w) BY <4>1 DEF ElimForward, IsTrivial
      <4>3. alias' = [alias EXCEPT ![p] = w] /\ pc = "eliminate" BY <4>1 DEF ElimForward
      <4>4. s[1] \in sealed
        <5>1. s[1] \in live BY <1>b, SiteFacts
        <5> QED BY <1>b, <4>3, <5>1 DEF Settled, CallSealed
      <4> QED BY <3>3, <3>5, <4>2, <4>3, <4>4
    <3>6. alias'[q] = NONE \/ ForwardParam \/ Eliminates BY <1>b, <3>1, <3>q, Changes
    <3> QED BY <3>2, <3>4, <3>5, <3>6, <3>q
  <2> QED BY <1>0, <1>2, <2>1, <2>2 DEF EntryAgree
<1>3. incoming' = incoming \/ Finds BY <1>b, Changes
<1> QED BY <1>1, <1>2, <1>3

LEMMA EntryAgreeHolds == MaxReplace = 0 => (Spec => [](Meant /\ Discarded /\ (failed \/ EntryAgree)))
<1> SUFFICES ASSUME MaxReplace = 0 PROVE Spec => [](Meant /\ Discarded /\ (failed \/ EntryAgree))
  OBVIOUS
<1>1. Init /\ Meant => Discarded /\ EntryAgree
  <2> SUFFICES ASSUME Init, Meant PROVE Discarded /\ EntryAgree OBVIOUS
  <2>1. elim.removed = {} BY DEF Init, NoElim
  <2>2. live \subseteq Block BY DEF Meant, Plain, Settled, Core, Base, TypeOK, FuncOK
  <2>3. \A x \in Var, b \in live : incoming[<<x, b>>] = NONE BY <2>2 DEF Init
  <2> QED BY <2>1, <2>3, NoneIsNoValue DEF Discarded, EntryAgree
<1>2. ASSUME Meant, Discarded, failed \/ EntryAgree, [Next]_vars
      PROVE  (Discarded /\ (failed \/ EntryAgree))'
  <2>b. Core BY <1>2 DEF Meant, Plain, Settled
  <2>1. CASE Next
    <3>1. Discarded' BY <1>2, <2>1, <2>b, DiscardedStep
    <3>2. CASE failed
      <4>1. failed' BY <2>1, <2>b, <3>2, Changes DEF ReadFails
      <4> QED BY <3>1, <4>1
    <3>3. CASE ~failed
      <4>1. EntryAgree' BY <1>2, <2>1, <3>3, EntryAgreeStep DEF Meant, Passing
      <4> QED BY <3>1, <4>1
    <3> QED BY <3>2, <3>3
  <2>2. CASE UNCHANGED vars
    <3>1. UNCHANGED <<elim, alias, live, incoming, params, paramVar, sealed, preds, defs, failed>>
      BY <2>2 DEF vars, func, ssa, job, hist
    <3>2. Discarded' BY <1>2, <3>1 DEF Discarded
    <3>3. EntryAgree => EntryAgree' BY <3>1 DEF EntryAgree, ByParam, ByPreds
    <3> QED BY <1>2, <3>1, <3>2, <3>3
  <2> QED BY <1>2, <2>1, <2>2
<1>3. Spec => []Meant BY MeantHolds
<1> QED BY <1>1, <1>2, <1>3, PTL DEF Spec

\* The value equations of the control-flow graph hold after every step: what a variable
\* was found to be on entry to a block is the block's parameter for it, or what the
\* variable is at the end of every predecessor, in whatever order blocks were filled,
\* terminated, sealed and taken off, and whatever was found trivial since.
THEOREM EntriesAgree == MaxReplace = 0 => (Spec => []EntryValuesAgree)
<1> SUFFICES ASSUME MaxReplace = 0 PROVE Spec => []EntryValuesAgree OBVIOUS
<1>1. Meant /\ (failed \/ EntryAgree) => EntryValuesAgree
  <2> SUFFICES ASSUME Meant, EntryAgree, NEW x \in Var, NEW b \in live, incoming[<<x, b>>] # NONE
               PROVE  EntryValueAgrees(x, b)
    BY DEF EntryValuesAgree
  <2>1. incoming \in [Var \X Block -> Value \cup {NONE}] /\ live \subseteq Block
    BY DEF Meant, Plain, Settled, Core, Base, TypeOK, FuncOK
  <2>2. PICK v \in Value : v = incoming[<<x, b>>] BY <2>1
  <2>3. ByParam(x, b, v) \/ ByPreds(x, b, v) BY <2>2 DEF EntryAgree
  <2>4. \A u : Resolve(u) = Root(alias, u) BY DEF Resolve, Root
  <2>5. CASE ByParam(x, b, v) BY <2>2, <2>4, <2>5 DEF ByParam, EntryValueAgrees
  <2>6. CASE ByPreds(x, b, v)
    <3>1. b \in sealed BY <2>6 DEF ByPreds
    <3>2. ASSUME NEW p \in Range(preds[b])
          PROVE  defs[<<x, p>>] # NONE /\ Resolve(defs[<<x, p>>]) = Resolve(v)
      BY <2>4, <2>6 DEF ByPreds, Stands
    <3> QED BY <2>2, <3>1, <3>2 DEF EntryValueAgrees
  <2> QED BY <2>3, <2>5, <2>6
<1> QED BY <1>1, EntryAgreeHolds, PTL

------------------------------------------------------------------------------
(***************************************************************************)
(* Strictness: what a variable stands for comes in by every path.          *)
(***************************************************************************)

\* The blocks reached from the entry block without going through a, step by step.
LEMMA ReachFacts ==
  ASSUME Base, NEW a
  PROVE  \E w \in [Nat -> SUBSET Block] :
           /\ w[0] = {Entry} \ {a}
           /\ \A n \in Nat : w[n + 1] = w[n] \cup ((UNION {Dests(term[p]) : p \in w[n]}) \ {a})
           /\ ReachableAvoiding(a) = w[Cardinality(Block)]
<1> DEFINE D == SUBSET Block
           Further(S) == S \cup ((UNION {Dests(term[p]) : p \in S}) \ {a})
           G == [S \in D |-> Further(S)]
           e == {Entry} \ {a}
<1>1. e \in D BY EntityAssumption
<1>2. ASSUME NEW S \in D PROVE Further(S) \in D
  <2>1. \A p \in Block : Dests(term[p]) \subseteq Block BY EdgeFacts DEF Dests
  <2> QED BY <2>1
<1>3. G \in [D -> D] /\ \A S \in D : G[S] = Further(S) BY <1>2
<1>4. PICK f \in [Nat -> D] : f[0] = e /\ \A n \in Nat : f[n + 1] = G[f[n]]
  <2> HIDE DEF D, G, e
  <2> QED BY SMTT(30), <1>1, <1>3, Iteration
<1> HIDE DEF G, D
<1>5. \A n \in Nat : f[n + 1] = Further(f[n]) BY <1>3, <1>4
<1> DEFINE Body(g) == [n \in Nat |-> IF n = 0 THEN e ELSE Further(g[n - 1])]
<1>6. ASSUME NEW n \in Nat PROVE f[n] = IF n = 0 THEN e ELSE Further(f[n - 1])
  <2>1. CASE n = 0 BY <2>1, <1>4
  <2>2. CASE n # 0
    <3>1. n - 1 \in Nat /\ (n - 1) + 1 = n BY <2>2
    <3>2. f[(n - 1) + 1] = Further(f[n - 1])
      <4> HIDE DEF Further
      <4> QED BY <3>1, <1>5
    <3> HIDE DEF Further
    <3> QED BY <2>2, <3>1, <3>2
  <2> QED BY <2>1, <2>2
<1>7. f = Body(f)
  <2>1. f = [n \in Nat |-> f[n]] OBVIOUS
  <2> HIDE DEF Further, e
  <2> QED BY <1>6, <2>1
<1> DEFINE within == CHOOSE g : g = Body(g)
<1>8. within = Body(within)
  <2> HIDE DEF Body
  <2> QED BY <1>7
<1>9. ReachableAvoiding(a) = within[Cardinality(Block)] BY DEF ReachableAvoiding
<1> HIDE DEF within
<1>10. within[0] = e BY <1>8
<1>11. ASSUME NEW n \in Nat PROVE within[n + 1] = Further(within[n])
  <2>1. n + 1 \in Nat /\ n + 1 # 0 /\ (n + 1) - 1 = n OBVIOUS
  <2>2. within[n + 1] = Further(within[(n + 1) - 1])
    <3> HIDE DEF Further, e
    <3> QED BY <1>8, <2>1
  <2> QED BY <2>1, <2>2
<1>12. within \in [Nat -> D]
  <2> DEFINE T == {n \in Nat : within[n] \in D}
  <2>1. 0 \in T BY <1>1, <1>10
  <2>2. ASSUME NEW n \in Nat, n \in T PROVE n + 1 \in T
    <3> HIDE DEF Further
    <3> QED BY <2>2, <1>2, <1>11
  <2>3. Nat \subseteq T
    <3> HIDE DEF T
    <3> QED BY <2>1, <2>2, SetInduction
  <2>4. within = [n \in Nat |-> within[n]] BY <1>8
  <2> QED BY <2>3, <2>4
<1> QED BY <1>9, <1>10, <1>11, <1>12 DEF D

\* What is closed under predecessors, but for a, and has the entry block only as a, is out
\* of reach.
LEMMA OutOfReach ==
  ASSUME Base, NEW a, NEW C \in SUBSET Block, Entry \in C => Entry = a,
         \A c \in C, p \in Block : c # a /\ c \in Dests(term[p]) => p \in C
  PROVE  C \cap ReachableAvoiding(a) = {}
<1>1. PICK w \in [Nat -> SUBSET Block] :
           /\ w[0] = {Entry} \ {a}
           /\ \A n \in Nat : w[n + 1] = w[n] \cup ((UNION {Dests(term[p]) : p \in w[n]}) \ {a})
           /\ ReachableAvoiding(a) = w[Cardinality(Block)]
  BY ReachFacts
<1> DEFINE T == {n \in Nat : C \cap w[n] = {}}
<1>2. 0 \in T BY <1>1
<1>3. ASSUME NEW n \in Nat, n \in T PROVE n + 1 \in T
  <2>1. ASSUME NEW c \in C, c \in w[n + 1] PROVE FALSE
    <3>0. w[n + 1] = w[n] \cup ((UNION {Dests(term[p]) : p \in w[n]}) \ {a}) BY <1>1
    <3>1. c \in w[n] \/ (c # a /\ \E p \in w[n] : c \in Dests(term[p])) BY <2>1, <3>0
    <3>2. \A p \in w[n] : p \in Block BY <1>1
    <3> QED BY <1>3, <3>1, <3>2
  <2> QED BY <2>1
<1>4. Nat \subseteq T
  <2> HIDE DEF T
  <2> QED BY <1>2, <1>3, SetInduction
<1>5. Cardinality(Block) \in Nat BY EntityAssumption, FS_CardinalityType
<1> QED BY <1>1, <1>4, <1>5

\* Parameters are numbered as they are made; only parameters forward.
Fresh ==
    /\ zero # NONE => zero <= nvals /\ paramVar[zero] = NONE
    /\ \A v \in Value : v > nvals => paramVar[v] = NONE
    /\ \A v \in Value : alias[v] # NONE => paramVar[v] # NONE
    /\ \A v \in 1..Inputs : paramVar[v] = NONE

\* Nothing comes into the entry block: there a variable is what was assigned, or zero.
EntryReads ==
    /\ preds[Entry] = <<>> /\ Entry \in sealed
    /\ \A y \in Var : incoming[<<y, Entry>>] \in {NONE, zero}

\* Some variable was found to be v on entry to b.
Carries(b, v) == \E y \in Var, w \in Value : incoming[<<y, b>>] = w /\ Root(alias, w) = v

\* A variable that stands for a parameter got it from what came in.
Sourced ==
    /\ \A x \in Var, b \in Block, d \in Value :
          defs[<<x, b>>] = d =>
              /\ Root(alias, d) <= nvals
              /\ paramVar[Root(alias, d)] = NONE \/ Carries(b, Root(alias, d))
    /\ \A x \in Var, b \in Block : incoming[<<x, b>>] # NONE => defs[<<x, b>>] # NONE

\* A parameter found trivial is made to forward to what it receives.
LEMMA TurnsTrivial ==
  ASSUME Settled, ForwardParam \/ Eliminates
  PROVE  \E p \in Value, w \in Value : \E s \in Sites(p) :
            /\ TrivialAs(p, s[1], s[2], w)
            /\ alias' = [alias EXCEPT ![p] = w]
            /\ UNCHANGED <<nvals, zero, paramVar, defs, incoming>>
<1>b. Base BY DEF Settled, Core
<1>1. CASE ForwardParam
  <2>1. PICK w \in Value : CanForward(Head(todo), w) /\ alias' = [alias EXCEPT ![Head(todo)] = w]
    BY <1>1 DEF ForwardParam
  <2>2. PICK p : p = Head(todo) OBVIOUS
  <2>3. PICK s \in Sites(p) : TrivialAs(p, s[1], s[2], w) BY <2>1, <2>2 DEF CanForward
  <2>4. p \in Value BY <1>b, <2>3, TrivialFacts
  <2>5. alias' = [alias EXCEPT ![p] = w] BY <2>1, <2>2
  <2>6. UNCHANGED <<nvals, zero, paramVar, defs, incoming>> BY <1>1 DEF ForwardParam, ssa, hist
  <2> QED BY <2>3, <2>4, <2>5, <2>6
<1>2. CASE Eliminates
  <2>1. PICK p \in Value, w \in Value : ElimForward(p, w) BY <1>2 DEF Eliminates
  <2>2. PICK s \in Sites(p) : TrivialAs(p, s[1], s[2], w) BY <2>1 DEF ElimForward, IsTrivial
  <2>3. alias' = [alias EXCEPT ![p] = w] BY <2>1 DEF ElimForward
  <2>4. UNCHANGED <<nvals, zero, paramVar, defs, incoming>> BY <2>1 DEF ElimForward, ssa, hist
  <2> QED BY <2>2, <2>3, <2>4
<1> QED BY <1>1, <1>2

LEMMA SiteVar ==
  ASSUME Base, NEW p, NEW s \in Sites(p)
  PROVE  paramVar[p] # NONE
<1>1. s[1] \in Block /\ s[2] \in DOMAIN params[s[1]] /\ params[s[1]][s[2]] = p BY SiteFacts
<1>2. paramVar[p] \in Var BY <1>1 DEF Base, Named
<1> QED BY <1>2, EntityAssumption DEF NONE

LEMMA FreshStep ==
  ASSUME MaxReplace = 0, Plain, Fresh, Next
  PROVE  Fresh'
<1>b. Settled /\ Core /\ Base /\ ~Replaces BY PlainStep DEF Plain, Settled, Core
<1>t. /\ alias \in [Value -> Value \cup {NONE}] /\ paramVar \in [Value -> Var \cup {NONE}]
      /\ zero \in Value \cup {NONE} /\ nvals \in Inputs..Capacity
  BY <1>b DEF Base, TypeOK, FuncOK, SsaOK
<1>n. nvals \in Nat /\ Inputs \in Nat /\ Inputs <= nvals BY <1>t, CountAssumption
<1>v. \A v \in Value : v \in Nat BY DEF Value
<1>1. CASE ReadNewParam
  <2>1. nvals + 1 \in Value BY <1>1, <1>b, NewParamFacts
  <2>2. nvals' = nvals + 1 /\ paramVar' = [paramVar EXCEPT ![nvals + 1] = rd.var]
        /\ zero' = zero /\ alias' = alias
    BY <1>1 DEF ReadNewParam
  <2>3. \A v \in Value : v # nvals + 1 => paramVar'[v] = paramVar[v] BY <1>t, <2>2
  <2>4. zero' # NONE => zero' <= nvals' /\ paramVar'[zero'] = NONE
    <3> SUFFICES ASSUME zero # NONE PROVE zero <= nvals + 1 /\ paramVar'[zero] = NONE BY <2>2
    <3>1. zero \in Value /\ zero <= nvals /\ zero \in Nat BY <1>t, <1>v DEF Fresh
    <3>2. zero # nvals + 1 /\ zero <= nvals + 1 BY <3>1, <1>n
    <3> QED BY <2>3, <3>1, <3>2 DEF Fresh
  <2>5. ASSUME NEW v \in Value, v > nvals' PROVE paramVar'[v] = NONE
    <3>1. v > nvals /\ v # nvals + 1 BY <2>2, <2>5, <1>n, <1>v
    <3> QED BY <2>3, <3>1 DEF Fresh
  <2>6. ASSUME NEW v \in Value, alias'[v] # NONE PROVE paramVar'[v] # NONE
    <3>1. alias[v] # NONE /\ ~(v > nvals) BY <2>2, <2>6, <1>b DEF Settled, Numbered
    <3>2. v # nvals + 1 BY <3>1, <1>n
    <3> QED BY <2>3, <3>1, <3>2 DEF Fresh
  <2>7. ASSUME NEW v \in 1..Inputs PROVE paramVar'[v] = NONE
    <3>1. v \in Value /\ v # nvals + 1 BY <1>n, CountAssumption DEF Value
    <3> QED BY <2>3, <3>1 DEF Fresh
  <2> QED BY <2>4, <2>5, <2>6, <2>7 DEF Fresh
<1>2. CASE ReadZero
  <2>0. paramVar' = paramVar /\ alias' = alias BY <1>2 DEF ReadZero
  <2>1. CASE zero = NONE
    <3>1. zero' = nvals + 1 /\ nvals' = nvals + 1 BY <1>2, <2>1 DEF ReadZero
    <3>2. nvals + 1 \in Value BY <1>2, <2>1, <1>b, ZeroFacts
    <3>3. nvals + 1 > nvals BY <1>n
    <3>4. paramVar[nvals + 1] = NONE BY <3>2, <3>3 DEF Fresh
    <3>5. \A v \in Value : v > nvals + 1 => v > nvals BY <1>n, <1>v
    <3>6. nvals + 1 <= nvals + 1 BY <1>n
    <3> QED BY <2>0, <3>1, <3>4, <3>5, <3>6 DEF Fresh
  <2>2. CASE zero # NONE
    <3>1. zero' = zero /\ nvals' = nvals BY <1>2, <2>2 DEF ReadZero
    <3> QED BY <2>0, <3>1 DEF Fresh
  <2> QED BY <2>1, <2>2
<1>3. CASE ForwardParam \/ Eliminates
  <2>1. PICK p \in Value, w \in Value : \E s \in Sites(p) :
            /\ TrivialAs(p, s[1], s[2], w)
            /\ alias' = [alias EXCEPT ![p] = w]
            /\ UNCHANGED <<nvals, zero, paramVar, defs, incoming>>
    BY <1>3, <1>b, TurnsTrivial
  <2>2. paramVar[p] # NONE BY <2>1, <1>b, SiteVar
  <2>3. alias' = [alias EXCEPT ![p] = w] /\ UNCHANGED <<nvals, zero, paramVar>> BY <2>1
  <2>4. ASSUME NEW v \in Value, alias'[v] # NONE PROVE paramVar[v] # NONE
    BY <1>t, <2>2, <2>3, <2>4 DEF Fresh
  <2> QED BY <2>3, <2>4 DEF Fresh
<1>4. CASE UNCHANGED <<nvals, zero, paramVar, alias>> BY <1>4 DEF Fresh
<1> QED BY <1>b, <1>1, <1>2, <1>3, <1>4, Changes

LEMMA EntryReadsStep ==
  ASSUME Settled, Chain, Reading, EntryReads, Next
  PROVE  EntryReads'
<1>b. Core /\ Base /\ Core' BY CoreStep DEF Settled, Core
<1>0. Entry \in Block BY EntityAssumption
<1>1. Entry \in sealed' /\ Range(preds'[Entry]) \subseteq Range(preds[Entry])
  BY <1>0, SealedPreds DEF EntryReads
<1>2. preds'[Entry] = <<>>
  <2>1. Range(preds[Entry]) = {} BY EmptySeq, LenProperties DEF Range, EntryReads
  <2>2. preds'[Entry] \in Seq(Block) BY <1>b, <1>0 DEF Core, Base, TypeOK, SsaOK
  <2>3. DOMAIN preds'[Entry] = {} BY <1>1, <2>1 DEF Range
  <2>4. Len(preds'[Entry]) = 0
    <3>1. Len(preds'[Entry]) \in Nat /\ 1..Len(preds'[Entry]) = {} BY <2>2, <2>3, LenProperties
    <3>2. \A n \in Nat : n # 0 => 1 \in 1..n OBVIOUS
    <3> QED BY <3>1, <3>2
  <2> QED BY <2>2, <2>4, EmptySeq
<1>3. ASSUME NEW y \in Var PROVE incoming'[<<y, Entry>>] \in {NONE, zero'}
  <2>1. incoming[<<y, Entry>>] \in {NONE, zero} BY DEF EntryReads
  <2>2. CASE ReadZero
    <3>1. PICK z : z = zero' OBVIOUS
    <3>2. incoming' = Record(incoming, ReadBlocks, z) /\ (zero = NONE \/ zero' = zero)
      BY <2>2, <3>1 DEF ReadZero
    <3>3. incoming'[<<y, Entry>>] \in {incoming[<<y, Entry>>], z} BY <1>0, <3>2 DEF Record
    <3> QED BY <2>1, <3>1, <3>2, <3>3
  <2>3. CASE Finds /\ ~ReadZero
    <3>0. zero' = zero BY <2>3, <1>b, Changes
    <3>1. pc = "read" BY <2>3, <1>b, FindFacts
    <3>2. Entry \notin rd.chain
      <4>1. Len(preds[Entry]) = 0 BY EmptySeq DEF EntryReads
      <4> QED BY <3>1, <4>1 DEF Reading
    <3>3. ~(ReadNewParam /\ rd.at = Entry)
      BY DEF ReadNewParam, NeedsParam, EntryReads
    <3>4. incoming'[<<y, Entry>>] = incoming[<<y, Entry>>]
      BY <2>3, <3>2, <3>3, <1>0, <1>b, FoundFacts
    <3> QED BY <2>1, <3>0, <3>4
  <2>4. CASE UNCHANGED <<incoming, zero>> BY <2>1, <2>4
  <2> QED BY <1>b, <2>2, <2>3, <2>4, Changes DEF Finds
<1> QED BY <1>1, <1>2, <1>3 DEF EntryReads

\* What Sourced says of a value assigned in b.
Told(b, d) ==
    /\ Root(alias, d) <= nvals
    /\ paramVar[Root(alias, d)] = NONE \/ Carries(b, Root(alias, d))

\* A value found goes where none was: what was carried is carried still.
LEMMA CarriesFound ==
  ASSUME Core, Chain, Finds, Sourced, NEW b \in Block, NEW v \in Value, Carries(b, v)
  PROVE  Carries(b, v)'
<1>b. Base BY DEF Core
<1>0. pc = "read" /\ alias' = alias BY <1>b, FindFacts
<1>1. PICK y \in Var, w \in Value : incoming[<<y, b>>] = w /\ Root(alias, w) = v BY DEF Carries
<1>2. defs[<<y, b>>] # NONE BY <1>1, NoneIsNoValue DEF Sourced
<1>3. y = rd.var => b \notin rd.chain BY <1>0, <1>2 DEF Chain
<1>4. ~((ReadZero \/ ReadNewParam) /\ y = rd.var /\ b = rd.at) BY <1>2 DEF ReadZero, ReadNewParam
<1>5. incoming'[<<y, b>>] = incoming[<<y, b>>] BY <1>3, <1>4, FoundFacts
<1> QED BY <1>0, <1>1, <1>5 DEF Carries

LEMMA ToldFound ==
  ASSUME Core, Chain, Finds, Sourced, NEW b \in Block, NEW d \in Value, Told(b, d)
  PROVE  Told(b, d)'
<1>b. Base BY DEF Core
<1>t. nvals \in Nat /\ paramVar \in [Value -> Var \cup {NONE}]
  BY <1>b, CountAssumption DEF Base, TypeOK, FuncOK, SsaOK
<1>0. alias' = alias BY <1>b, FindFacts
<1>1. PICK r \in Value : r = Root(alias, d) BY <1>b, RootFacts DEF Base
<1>2. r <= nvals /\ (paramVar[r] = NONE \/ Carries(b, r)) BY <1>1 DEF Told
<1>3. Root(alias', d) = r BY <1>0, <1>1
<1>4. nvals' = nvals \/ nvals' = nvals + 1
  BY DEF Finds, ReadHit, ReadNewParam, ReadZero
<1>5. r \in Nat BY DEF Value
<1>6. r <= nvals' BY <1>2, <1>4, <1>5, <1>t
<1>7. paramVar'[r] = paramVar[r]
  <2>1. CASE ReadNewParam
    <3>1. paramVar' = [paramVar EXCEPT ![nvals + 1] = rd.var] BY <2>1 DEF ReadNewParam
    <3>2. r # nvals + 1 BY <1>2, <1>5, <1>t
    <3> QED BY <1>t, <3>1, <3>2
  <2>2. CASE ReadHit \/ ReadZero BY <2>2 DEF ReadHit, ReadZero
  <2> QED BY <2>1, <2>2 DEF Finds
<1>8. Carries(b, r) => Carries(b, r)' BY CarriesFound
<1> QED BY <1>2, <1>3, <1>6, <1>7, <1>8 DEF Told

\* What a read records for a block where the variable had no value is what it was found
\* to be on entry.
LEMMA RecordedFacts ==
  ASSUME Core, Chain, Fresh, Sourced, Finds, NEW x \in Var, NEW b \in Block, NEW d \in Value,
         defs[<<x, b>>] = NONE, defs'[<<x, b>>] = d
  PROVE  incoming'[<<x, b>>] = d /\ alias[d] = NONE /\ d <= nvals'
<1>b. Base BY DEF Core
<1>t. /\ nvals \in Nat /\ rd.at \in Block /\ rd.var \in Var /\ rd.chain \subseteq Block
      /\ zero \in Value \cup {NONE} /\ Forwarding(alias)
  <2>1. pc = "read" BY <1>b, FindFacts
  <2> QED BY <1>b, <2>1, JobSeqs, CountAssumption DEF Base, TypeOK, FuncOK, SsaOK, CallShape
<1>d. d # NONE BY NoneIsNoValue
<1>1. CASE ReadHit
  <2>1. PICK d0 \in Value : d0 = defs[<<rd.var, rd.at>>] BY <1>1, <1>b, HitFacts
  <2>2. PICK v \in Value : v = Resolve(d0) /\ alias[v] = NONE /\ v = Root(alias, d0)
    BY <1>t, ResolveFacts
  <2>3. /\ defs' = Record(defs, ReadBlocks, v) /\ incoming' = Record(incoming, rd.chain \ {rd.at}, v)
        /\ nvals' = nvals
    BY <1>1, <2>1, <2>2 DEF ReadHit
  <2>4. x = rd.var /\ b \in ReadBlocks /\ d = v BY <1>d, <2>3 DEF Record
  <2>5. b # rd.at BY <2>1, <2>4, NoneIsNoValue
  <2>6. incoming'[<<x, b>>] = v BY <2>3, <2>4, <2>5 DEF Record, ReadBlocks
  <2>7. v <= nvals BY <1>t, <2>1, <2>2 DEF Sourced
  <2> QED BY <2>2, <2>3, <2>4, <2>6, <2>7
<1>2. CASE ReadNewParam
  <2>1. PICK v \in Value : v = nvals + 1 BY <1>2, <1>b, NewParamFacts
  <2>2. /\ defs' = Record(defs, ReadBlocks, v) /\ incoming' = Record(incoming, ReadBlocks, v)
        /\ nvals' = v
    BY <1>2, <2>1 DEF ReadNewParam
  <2>3. x = rd.var /\ b \in ReadBlocks /\ d = v BY <1>d, <2>2 DEF Record
  <2>4. incoming'[<<x, b>>] = v BY <2>2, <2>3 DEF Record
  <2>5. paramVar[v] = NONE /\ v <= v
    <3>1. v > nvals /\ v <= v BY <1>t, <2>1
    <3> QED BY <3>1 DEF Fresh
  <2>6. alias[v] = NONE BY <2>5 DEF Fresh
  <2> QED BY <2>2, <2>3, <2>4, <2>5, <2>6
<1>3. CASE ReadZero
  <2> DEFINE z == IF zero = NONE THEN nvals + 1 ELSE zero
  <2>1. PICK v \in Value : v = z BY <1>3, <1>b, ZeroFacts
  <2>2. /\ defs' = Record(defs, ReadBlocks, v) /\ incoming' = Record(incoming, ReadBlocks, v)
        /\ nvals' = IF zero = NONE THEN v ELSE nvals
    BY <1>3, <2>1 DEF ReadZero
  <2>3. x = rd.var /\ b \in ReadBlocks /\ d = v BY <1>d, <2>2 DEF Record
  <2>4. incoming'[<<x, b>>] = v BY <2>2, <2>3 DEF Record
  <2>5. paramVar[v] = NONE /\ v <= nvals'
    <3>1. CASE zero = NONE
      <4>1. v = nvals + 1 /\ nvals' = v BY <2>1, <2>2, <3>1
      <4>2. v > nvals /\ v <= v BY <1>t, <4>1
      <4> QED BY <4>1, <4>2 DEF Fresh
    <3>2. CASE zero # NONE BY <2>1, <2>2, <3>2 DEF Fresh
    <3> QED BY <3>1, <3>2
  <2>6. alias[v] = NONE BY <2>5 DEF Fresh
  <2> QED BY <2>3, <2>4, <2>5, <2>6
<1> QED BY <1>1, <1>2, <1>3 DEF Finds

\* A value assigned, found or made.
LEMMA ToldFinds ==
  ASSUME Core, Chain, Fresh, Sourced, Finds, NEW x \in Var, NEW b \in Block, NEW d \in Value,
         defs'[<<x, b>>] = d
  PROVE  Told(b, d)'
<1>b. Base /\ Forwarding(alias) BY DEF Core, Base
<1>t. defs \in [Var \X Block -> Value \cup {NONE}] BY <1>b DEF Base, TypeOK, SsaOK
<1>0. alias' = alias BY <1>b, FindFacts
<1>1. CASE defs[<<x, b>>] = NONE
  <2>1. incoming'[<<x, b>>] = d /\ alias[d] = NONE /\ d <= nvals' BY <1>1, RecordedFacts
  <2>2. Root(alias', d) = d BY <1>0, <1>b, <2>1, RootDef
  <2> QED BY <2>1, <2>2 DEF Told, Carries
<1>2. CASE defs[<<x, b>>] # NONE
  <2>1. PICK d0 \in Value : d0 = defs[<<x, b>>] BY <1>2, <1>t
  <2>2. Told(b, d0) BY <2>1 DEF Sourced, Told
  <2>3. Told(b, d0)' BY <2>2, ToldFound
  <2>4. Root(alias, d) = Root(alias, d0)
    <3>1. d = d0 \/ d = Resolve(d0)
      <4>1. ReadStep BY DEF Finds, ReadStep
      <4> QED BY <1>2, <2>1, <4>1, ReadRecords
    <3>2. PICK r \in Value : r = Resolve(d0) /\ alias[r] = NONE /\ r = Root(alias, d0)
      BY <1>b, ResolveFacts
    <3>3. Root(alias, r) = r BY <1>b, <3>2, RootDef
    <3> QED BY <3>1, <3>2, <3>3
  <2>5. Root(alias', d) = Root(alias', d0) BY <1>0, <2>4
  <2> QED BY <2>3, <2>5 DEF Told
<1> QED BY <1>1, <1>2

\* What a parameter receives has been made.
LEMMA OperandMade ==
  ASSUME Plain, Within, FinalValues, Sourced, NEW p \in Value, NEW w \in Value, NEW s \in Sites(p),
         TrivialAs(p, s[1], s[2], w)
  PROVE  w <= nvals
<1>b. Settled /\ Core /\ Base /\ Edges /\ Forwarding(alias) BY DEF Plain, Settled, Core, Base
<1>t. defs \in [Var \X Block -> Value \cup {NONE}] BY <1>b DEF Base, TypeOK, SsaOK
<1>1. PICK b \in Block, i \in DOMAIN params[s[1]] : b = s[1] /\ i = s[2] /\ b \in live /\ i \in DOMAIN params[b]
  BY <1>b, SiteFacts
<1>2. w \in Operands(b, i) BY <1>b, <1>1, TrivialFacts
<1>3. PICK q \in Range(preds[b]) : \E k \in EdgesInto(q, b) : w = Arg(q, k, i) BY <1>2, OperandIs
<1>4. PICK k \in EdgesInto(q, b) : w = Arg(q, k, i) BY <1>3
<1>5. q \in Block BY <1>b, <1>3, PredFacts
<1>6. k \in DOMAIN term[q] /\ term[q][k].block = b BY <1>4 DEF EdgesInto
<1>7. i \in DOMAIN term[q][k].args /\ w = Resolve(term[q][k].args[i])
  BY <1>4, NoneIsNoValue DEF Arg
<1>8. PICK u \in Value : u = term[q][k].args[i] BY <1>b, <1>5, <1>6, <1>7, ArgFacts
<1>9. PICK y \in Var : y = paramVar[params[b][i]] BY <1>1, <1>b DEF Base, Named
<1>10. Stands(defs, alias, y, q, u) BY <1>1, <1>5, <1>6, <1>7, <1>8, <1>9 DEF FinalValues
<1>11. PICK d \in Value : d = defs[<<y, q>>] /\ Root(alias, u) = Root(alias, d)
  BY <1>5, <1>10, <1>t DEF Stands
<1>12. Root(alias, d) <= nvals BY <1>5, <1>11 DEF Sourced
<1>13. w = Root(alias, u) BY <1>7, <1>8, <1>b, ResolveFacts
<1> QED BY <1>11, <1>12, <1>13

LEMMA ToldForwarded ==
  ASSUME MaxReplace = 0, Plain, Within, FinalValues, Sourced, ForwardParam \/ Eliminates, Next,
         NEW b \in Block, NEW d \in Value, Told(b, d)
  PROVE  Told(b, d)'
<1>b. Settled /\ Core /\ Base /\ Forwarding(alias) /\ Forwarding(alias')
  BY CoreStep DEF Plain, Settled, Core, Base
<1>1. PICK p \in Value, w \in Value : \E s \in Sites(p) :
            /\ TrivialAs(p, s[1], s[2], w)
            /\ alias' = [alias EXCEPT ![p] = w]
            /\ UNCHANGED <<nvals, zero, paramVar, defs, incoming>>
  BY <1>b, TurnsTrivial
<1>2. PICK s \in Sites(p) : TrivialAs(p, s[1], s[2], w) BY <1>1
<1>3. alias' = [alias EXCEPT ![p] = w] /\ UNCHANGED <<nvals, paramVar, incoming>> BY <1>1
<1>4. p # w /\ alias[w] = NONE /\ w <= nvals BY <1>b, <1>2, TrivialFacts, OperandMade
<1>5. PICK r \in Value : r = Root(alias, d) /\ alias[r] = NONE BY <1>b, RootFacts
<1>6. r <= nvals /\ (paramVar[r] = NONE \/ Carries(b, r)) BY <1>5 DEF Told
<1>7. Root(alias, r) = r BY <1>b, <1>5, RootDef
<1>8. \A u \in Value : Root(alias, u) = r => Root(alias', u) = Root(alias', r)
  BY <1>7, EqualKept
<1>9. PICK r2 \in Value : r2 = Root(alias', r) BY <1>b, RootFacts
<1>10. r2 <= nvals /\ (paramVar[r2] = NONE \/ Carries(b, r))
  <2>1. CASE r = p
    <3>1. r2 = w
      <4>1. alias \in [Value -> Value \cup {NONE}] BY <1>b DEF Forwarding
      <4>2. alias'[r] = w /\ alias'[w] = NONE BY <2>1, <1>3, <1>4, <4>1
      <4>3. w # NONE BY NoneIsNoValue
      <4>4. Root(alias', r) = Root(alias', w) BY <4>2, <4>3, <1>b, RootDef
      <4>5. Root(alias', w) = w BY <4>2, <1>b, RootDef
      <4> QED BY <1>9, <4>4, <4>5
    <3>2. paramVar[r] # NONE BY <2>1, <1>b, <1>2, SiteVar
    <3> QED BY <1>4, <1>6, <3>1, <3>2
  <2>2. CASE r # p
    <3>1. alias'[r] = NONE
      <4>1. alias \in [Value -> Value \cup {NONE}] BY <1>b DEF Forwarding
      <4> QED BY <2>2, <1>3, <1>5, <4>1
    <3>2. r2 = r BY <1>9, <1>b, <3>1, RootDef
    <3> QED BY <1>6, <3>2
  <2> QED BY <2>1, <2>2
<1>11. Carries(b, r) => Carries(b, r2)'
  <2> SUFFICES ASSUME Carries(b, r) PROVE Carries(b, r2)' OBVIOUS
  <2>1. PICK y \in Var, u \in Value : incoming[<<y, b>>] = u /\ Root(alias, u) = r BY DEF Carries
  <2>2. incoming'[<<y, b>>] = u /\ Root(alias', u) = r2 BY <2>1, <1>3, <1>8, <1>9
  <2> QED BY <2>2 DEF Carries
<1>12. Root(alias', d) = r2 BY <1>5, <1>8, <1>9
<1> QED BY <1>3, <1>10, <1>11, <1>12 DEF Told

LEMMA SourcedStep ==
  ASSUME MaxReplace = 0, Plain, Chain, Within, FinalValues, Fresh, Sourced, Next
  PROVE  Sourced'
<1>b. Settled /\ Core /\ Base /\ Forwarding(alias) /\ ~Replaces /\ Core'
  BY PlainStep, CoreStep DEF Plain, Settled, Core, Base
<1>t. /\ defs \in [Var \X Block -> Value \cup {NONE}]
      /\ defs' \in [Var \X Block -> Value \cup {NONE}]
      /\ Inputs <= nvals /\ nvals \in Nat /\ Inputs \in Nat
  BY <1>b, CountAssumption DEF Core, Base, TypeOK, SsaOK, FuncOK
<1>1. ASSUME NEW x \in Var, NEW b \in Block, NEW d \in Value, defs'[<<x, b>>] = d PROVE Told(b, d)'
  <2>1. CASE Finds BY <1>1, <1>b, <2>1, ToldFinds
  <2>2. CASE ForwardParam \/ Eliminates
    <3>1. defs' = defs
      <4>1. PICK p \in Value, w \in Value : \E s \in Sites(p) :
              /\ TrivialAs(p, s[1], s[2], w)
              /\ alias' = [alias EXCEPT ![p] = w]
              /\ UNCHANGED <<nvals, zero, paramVar, defs, incoming>>
        BY <2>2, <1>b, TurnsTrivial
      <4> QED BY <4>1
    <3>2. Told(b, d) BY <1>1, <3>1 DEF Sourced, Told
    <3> QED BY <2>2, <3>2, ToldForwarded
  <2>3. CASE Assigns
    <3>1. PICK y \in Var, c \in Block, v \in Value : DefVar(y, c, v) BY <2>3 DEF Assigns
    <3>2. UNCHANGED <<alias, nvals, paramVar, incoming>> /\ defs' = [defs EXCEPT ![<<y, c>>] = v]
      BY <3>1 DEF DefVar, func, hist
    <3>3. v \in 1..Inputs \/ \E z \in Var : v = defs[<<z, c>>] BY <3>1 DEF DefVar
    <3>4. CASE x = y /\ b = c
      <4>1. d = v BY <1>1, <1>t, <3>2, <3>4
      <4>2. CASE v \in 1..Inputs
        <5>1. paramVar[v] = NONE BY <4>2 DEF Fresh
        <5>2. alias[v] = NONE BY <5>1 DEF Fresh
        <5>3. Root(alias, v) = v BY <5>2, <1>b, RootDef
        <5>4. v <= nvals BY <4>2, <1>t
        <5>5. Told(b, d) BY <4>1, <5>1, <5>3, <5>4 DEF Told
        <5>6. Told(b, d)' <=> Told(b, d) BY <3>2 DEF Told, Carries
        <5> QED BY <5>5, <5>6
      <4>3. CASE \E z \in Var : v = defs[<<z, c>>]
        <5>1. Told(b, d) BY <3>4, <4>1, <4>3 DEF Sourced, Told
        <5>2. Told(b, d)' <=> Told(b, d) BY <3>2 DEF Told, Carries
        <5> QED BY <5>1, <5>2
      <4> QED BY <3>3, <4>2, <4>3
    <3>5. CASE ~(x = y /\ b = c)
      <4>1. defs[<<x, b>>] = d BY <1>1, <1>t, <3>2, <3>5
      <4>2. Told(b, d) BY <4>1 DEF Sourced, Told
      <4>3. Told(b, d)' <=> Told(b, d) BY <3>2 DEF Told, Carries
      <4> QED BY <4>2, <4>3
    <3> QED BY <3>4, <3>5
  <2>4. CASE UNCHANGED <<alias, nvals, paramVar, incoming, defs>>
    <3>1. Told(b, d) BY <1>1, <2>4 DEF Sourced, Told
    <3>2. Told(b, d)' <=> Told(b, d) BY <2>4 DEF Told, Carries
    <3> QED BY <3>1, <3>2
  <2> QED BY <1>b, <2>1, <2>2, <2>3, <2>4, Changes DEF Finds
<1>2. ASSUME NEW x \in Var, NEW b \in Block, incoming'[<<x, b>>] # NONE PROVE defs'[<<x, b>>] # NONE
  <2>1. CASE incoming'[<<x, b>>] = incoming[<<x, b>>]
    <3>1. defs[<<x, b>>] # NONE BY <1>2, <2>1 DEF Sourced
    <3>2. CASE Finds
      <4>1. ReadStep BY <3>2 DEF Finds, ReadStep
      <4>2. PICK d \in Value : d = defs[<<x, b>>] BY <1>t, <3>1
      <4>3. Resolve(d) \in Value BY <1>b, ResolveFacts
      <4>4. defs'[<<x, b>>] = d \/ defs'[<<x, b>>] = Resolve(d) BY <1>b, <3>1, <4>1, <4>2, ReadRecords
      <4> QED BY <4>3, <4>4, NoneIsNoValue
    <3>3. CASE Assigns
      <4>1. PICK y \in Var, c \in Block, v \in Value : DefVar(y, c, v) BY <3>3 DEF Assigns
      <4>2. defs' = [defs EXCEPT ![<<y, c>>] = v] BY <4>1 DEF DefVar
      <4>3. v # NONE BY NoneIsNoValue
      <4> QED BY <1>t, <3>1, <4>2, <4>3
    <3>4. CASE defs' = defs BY <3>1, <3>4
    <3> QED BY <1>b, <3>2, <3>3, <3>4, Changes
  <2>2. CASE Finds /\ incoming'[<<x, b>>] # incoming[<<x, b>>]
    <3>1. PICK v \in Value :
            /\ \A c \in Block : c \in Origin => defs'[<<rd.var, c>>] = v
            /\ x = rd.var /\ b \in Origin
      BY <1>b, <2>2, FoundFacts DEF Origin
    <3> QED BY <3>1, NoneIsNoValue
  <2> QED BY <1>b, <2>1, <2>2, Changes
<1> QED BY <1>1, <1>2 DEF Sourced, Told

\* What the entry block, the blocks a read came through and the others know of a variable.
Strict == Fresh /\ EntryReads /\ (failed \/ Sourced)

LEMMA StrictHolds == MaxReplace = 0 => (Spec => [](Meant /\ Strict))
<1> SUFFICES ASSUME MaxReplace = 0 PROVE Spec => [](Meant /\ Strict)
  OBVIOUS
<1>1. Init => Strict
  <2> SUFFICES ASSUME Init PROVE Strict OBVIOUS
  <2>1. Fresh
    <3>1. zero = NONE /\ (\A v \in Value : paramVar[v] = NONE /\ alias[v] = NONE) BY DEF Init
    <3>2. 1..Inputs \subseteq Value BY CountAssumption DEF Value
    <3> QED BY <3>1, <3>2 DEF Fresh
  <2>2. EntryReads BY EntityAssumption DEF EntryReads, Init
  <2>3. Sourced BY NoneIsNoValue DEF Sourced, Init
  <2> QED BY <2>1, <2>2, <2>3 DEF Strict
<1>2. ASSUME Meant, Strict, [Next]_vars PROVE Strict'
  <2>b. Core /\ Plain /\ Settled /\ Chain /\ Reading BY <1>2 DEF Meant, Plain, Passing, Settled
  <2>1. CASE Next
    <3>1. Fresh' BY <1>2, <2>1, <2>b, FreshStep DEF Strict
    <3>2. EntryReads' BY <1>2, <2>1, <2>b, EntryReadsStep DEF Strict
    <3>3. CASE failed
      <4>1. failed' BY <2>1, <2>b, <3>3, Changes DEF ReadFails
      <4> QED BY <3>1, <3>2, <4>1 DEF Strict
    <3>4. CASE ~failed
      <4>1. Sourced' BY <1>2, <2>1, <2>b, <3>4, SourcedStep DEF Meant, Passing, Strict
      <4> QED BY <3>1, <3>2, <4>1 DEF Strict
    <3> QED BY <3>3, <3>4
  <2>2. CASE UNCHANGED vars
    <3>1. UNCHANGED <<alias, incoming, paramVar, sealed, preds, defs, failed, zero, nvals>>
      BY <2>2 DEF vars, func, ssa, job, hist
    <3>2. Fresh => Fresh' BY <3>1 DEF Fresh
    <3>3. EntryReads => EntryReads' BY <3>1 DEF EntryReads
    <3>4. Sourced => Sourced' BY <3>1 DEF Sourced, Carries
    <3> QED BY <1>2, <3>1, <3>2, <3>3, <3>4 DEF Strict
  <2> QED BY <1>2, <2>1, <2>2
<1>3. Spec => []Meant BY MeantHolds
<1> QED BY <1>1, <1>2, <1>3, PTL DEF Spec

\* No parameter comes in at the entry block.
LEMMA EntryCarries ==
  ASSUME Base, Fresh, EntryReads, NEW v \in Value, Carries(Entry, v)
  PROVE  paramVar[v] = NONE
<1>1. PICK y \in Var, w \in Value : incoming[<<y, Entry>>] = w /\ Root(alias, w) = v BY DEF Carries
<1>2. w = zero /\ zero # NONE BY <1>1, NoneIsNoValue DEF EntryReads
<1>3. paramVar[w] = NONE BY <1>2 DEF Fresh
<1>4. alias[w] = NONE BY <1>3 DEF Fresh
<1>5. Root(alias, w) = w BY <1>4, RootDef DEF Base
<1> QED BY <1>1, <1>3, <1>5

\* What comes in at a sealed block that does not list it came from every predecessor.
LEMMA CarriesBack ==
  ASSUME Settled, EntryAgree, Sourced, NEW c \in live, NEW v \in Value, Carries(c, v),
         paramVar[v] # NONE, \A i \in DOMAIN params[c] : params[c][i] # v,
         NEW p \in Block, c \in Dests(term[p])
  PROVE  p \in live /\ Carries(p, v)
<1>b. Core /\ Base /\ PredsCurrent BY DEF Settled, Core, Edges
<1>t. live \subseteq Block /\ defs \in [Var \X Block -> Value \cup {NONE}]
  BY <1>b DEF Base, TypeOK, FuncOK, SsaOK
<1>1. PICK y \in Var, w \in Value : incoming[<<y, c>>] = w /\ Root(alias, w) = v BY DEF Carries
<1>2. ~ByParam(y, c, w) BY <1>1 DEF ByParam
<1>3. ByPreds(y, c, w) BY <1>1, <1>2 DEF EntryAgree
<1>4. p \in Range(preds[c])
  <2>1. EdgesInto(p, c) # {} BY DEF Dests, EdgesInto
  <2> QED BY <1>b, <1>t, <2>1 DEF PredsCurrent
<1>5. p \in live
  <2>1. PICK i \in DOMAIN preds[c] : p = preds[c][i] BY <1>4 DEF Range
  <2> QED BY <1>b, <1>t, <2>1, PredLive
<1>6. PICK d \in Value : d = defs[<<y, p>>] /\ Root(alias, w) = Root(alias, d)
  BY <1>3, <1>4, <1>t DEF ByPreds, Stands
<1>7. Carries(p, v) BY <1>1, <1>6 DEF Sourced
<1> QED BY <1>5, <1>7

\* Strict SSA: once every block is sealed, a parameter that a reachable block reads is
\* still listed, by a block on every path to the reader, in whatever order blocks were
\* filled, terminated, sealed and taken off, and whatever was found trivial since.
THEOREM ReadsAreDominated == MaxReplace = 0 => (Spec => []ReadsDominated)
<1> SUFFICES ASSUME MaxReplace = 0 PROVE Spec => []ReadsDominated OBVIOUS
<1>1. Meant /\ Strict /\ (failed \/ EntryAgree) => ReadsDominated
  <2> SUFFICES ASSUME Meant, Fresh, EntryReads, Sourced, EntryAgree,
                      NEW x \in Var, NEW b \in Reachable \cap live, NEW v, v = Resolve(defs[<<x, b>>]),
                      defs[<<x, b>>] # NONE, paramVar[v] # NONE
               PROVE  \E d \in live : v \in Range(params[d]) /\ Dominates(d, b)
    BY DEF Strict, ReadsDominated
  <2>b. Settled /\ Base /\ ListedOnce BY DEF Meant, Plain, Settled, Core
  <2>t. live \subseteq Block /\ defs \in [Var \X Block -> Value \cup {NONE}]
    BY <2>b DEF Base, TypeOK, FuncOK, SsaOK
  <2>1. PICK d \in Value : d = defs[<<x, b>>] BY <2>t
  <2>2. v \in Value /\ v = Root(alias, d) BY <2>b, <2>1, ResolveFacts DEF Base
  <2>3. Carries(b, v) BY <2>t, <2>1, <2>2 DEF Sourced
  <2> DEFINE C == {c \in live : Carries(c, v)}
  <2>4. C \in SUBSET Block /\ b \in C /\ Entry \notin C BY <2>3, <2>2, <2>b, <2>t, EntryCarries
  <2>5. ASSUME NEW a, \A c \in live : \A i \in DOMAIN params[c] : params[c][i] = v => c = a
        PROVE  b \notin ReachableAvoiding(a)
    <3>1. \A c \in C, p \in Block : c # a /\ c \in Dests(term[p]) => p \in C
      BY <2>2, <2>5, <2>b, CarriesBack
    <3> HIDE DEF C
    <3>2. C \cap ReachableAvoiding(a) = {} BY <2>4, <2>b, <3>1, OutOfReach
    <3> QED BY <2>4, <3>2
  <2>6. CASE \E a \in live : v \in Range(params[a])
    <3>1. PICK a \in live : v \in Range(params[a]) BY <2>6
    <3>2. PICK j \in DOMAIN params[a] : params[a][j] = v BY <3>1 DEF Range
    <3>3. \A c \in live : \A i \in DOMAIN params[c] : params[c][i] = v => c = a
      BY <2>b, <2>t, <3>2 DEF ListedOnce
    <3>4. Dominates(a, b) BY <2>5, <3>3 DEF Dominates
    <3> QED BY <3>1, <3>4
  <2>7. CASE ~\E a \in live : v \in Range(params[a])
    <3>1. \A c \in live : \A i \in DOMAIN params[c] : params[c][i] # v BY <2>7 DEF Range
    <3>2. b \notin ReachableAvoiding(-1) BY <2>5, <3>1
    <3> QED BY <3>2 DEF Reachable
  <2> QED BY <2>6, <2>7
<1> QED BY <1>1, EntryAgreeHolds, StrictHolds, PTL

------------------------------------------------------------------------------
(***************************************************************************)
(* The result is minimal: eliminate_trivial reaches the fixpoint.          *)
(***************************************************************************)

\* What has been looked at is not trivial, and who receives a candidate is recorded as
\* its user.
Worked ==
    pc = "eliminate" =>
        LET left == DOMAIN elim.users \ elim.removed IN
        /\ \A p \in left \ elim.work : \A v \in Value : ~IsTrivial(p, v)
        /\ \A q \in left : \A c \in left \ {q} : Receives(c, q) => c \in elim.users[q]

\* Where nothing but forwarding changes, the sites stay.
LEMMA SitesKept ==
  ASSUME UNCHANGED <<live, params, nvals>>, NEW p
  PROVE  Sites(p)' = Sites(p)
BY DEF Sites, IsSite

LEMMA OperandsKept ==
  ASSUME Base, term' = term, preds' = preds, \A u \in Value : Resolve(u)' = Resolve(u),
         NEW b \in Block, NEW i
  PROVE  Operands(b, i)' = Operands(b, i)
<1>0. \A q : EdgesInto(q, b)' = EdgesInto(q, b) BY DEF EdgesInto
<1>1. ASSUME NEW q \in Range(preds[b]), NEW k \in EdgesInto(q, b) PROVE Arg(q, k, i)' = Arg(q, k, i)
  <2>1. q \in Block BY PredFacts
  <2>2. CASE i \in DOMAIN term[q][k].args
    <3>1. PICK u \in Value : u = term[q][k].args[i] BY <2>1, <2>2, ArgFacts DEF EdgesInto
    <3>2. Arg(q, k, i) = Resolve(u) BY <2>2, <3>1 DEF Arg
    <3>3. Arg(q, k, i)' = Root(alias', u) BY <2>2, <3>1, ResolvePrime DEF Arg
    <3>4. Resolve(u) = Root(alias', u) BY <3>1, ResolvePrime
    <3> QED BY <3>2, <3>3, <3>4
  <2>3. CASE i \notin DOMAIN term[q][k].args BY <2>3 DEF Arg
  <2> QED BY <2>2, <2>3
<1>2. ASSUME NEW v
      PROVE  v \in Operands(b, i)' <=> \E q \in Range(preds[b]) : \E k \in EdgesInto(q, b) : v = Arg(q, k, i)'
  BY <1>0 DEF Operands, Arg
<1>3. ASSUME NEW v PROVE v \in Operands(b, i)' <=> v \in Operands(b, i)
  BY <1>1, <1>2, OperandIs
<1> QED BY <1>3

\* Forwarding a parameter that forwards already changes nothing; an end takes its users
\* along, and they are looked at again.
LEMMA WorkedForward ==
  ASSUME Plain, Worked, NEW p \in Value, NEW v \in Value, ElimForward(p, v)
  PROVE  Worked'
<1>b. Settled /\ Core /\ Base /\ Justified /\ Forwarding(alias) BY DEF Plain, Settled, Core, Base
<1>t. /\ elim.work \subseteq DOMAIN elim.users /\ elim.removed \subseteq DOMAIN elim.users
      /\ elim.users \in [DOMAIN elim.users -> SUBSET DOMAIN elim.users]
  BY <1>b DEF Base, TypeOK, JobOK, ElimOK
<1>1. /\ pc = "eliminate" /\ p \in elim.work /\ p \notin elim.removed /\ IsTrivial(p, v)
      /\ alias' = [alias EXCEPT ![p] = v] /\ UNCHANGED <<live, params, nvals, term, preds>>
  BY DEF ElimForward, ssa
<1>2. /\ elim'.work = Requeue(p) /\ elim'.removed = elim.removed \cup {p}
      /\ elim'.users = [q \in DOMAIN elim.users |->
                    IF q = p THEN {}
                    ELSE IF q = v /\ q \notin elim.removed \cup {p} THEN elim.users[q] \cup elim.users[p]
                    ELSE elim.users[q]]
  BY DEF ElimForward
<1>3. p \in DOMAIN elim.users BY <1>1, <1>t
<1> DEFINE left == DOMAIN elim.users \ elim.removed
<1>4. DOMAIN elim'.users \ elim'.removed = left \ {p} BY <1>2
<1>5. \A q \in left \ {p} : /\ elim.users[q] \subseteq elim'.users[q]
                            /\ q = v => elim.users[p] \subseteq elim'.users[q]
  BY <1>2
<1>6. elim.work \ {p} \subseteq elim'.work /\ elim.users[p] \subseteq elim'.work BY <1>2 DEF Requeue
<1>7. /\ \A q \in left \ elim.work : \A u \in Value : ~IsTrivial(q, u)
      /\ \A q \in left : \A c \in left \ {q} : Receives(c, q) => c \in elim.users[q]
  BY <1>1 DEF Worked
<1>s. PICK r \in Value : r = v /\ (alias[p] # NONE => r = Resolve(p)) BY <1>b, ElimForwardAgain
<1>8. \A c : Sites(c)' = Sites(c) BY <1>1, SitesKept
\* What a candidate receives now, it received before, or it received p.
<1>9. ASSUME NEW c, NEW s \in Sites(c), p \notin Operands(s[1], s[2]) \/ alias[p] # NONE
      PROVE  Operands(s[1], s[2])' = Operands(s[1], s[2])
  <2>1. PICK b \in Block, i \in DOMAIN params[s[1]] : b = s[1] /\ i = s[2] BY <1>b, SiteFacts
  <2>2. CASE alias[p] # NONE
    <3>1. \A u \in Value : Resolve(u)' = Resolve(u) BY <2>2, <1>b, <1>1, <1>s, EndRepeated
    <3>2. Operands(b, i)' = Operands(b, i) BY <1>1, <1>b, <3>1, OperandsKept
    <3> QED BY <2>1, <3>2
  <2>3. CASE alias[p] = NONE
    <3>1. PICK z \in Sites(p) : TrivialAs(p, z[1], z[2], v) BY <1>1 DEF IsTrivial
    <3>2. p # v /\ alias[v] = NONE BY <1>b, <3>1, TrivialFacts
    <3>3. \A u \in Value : Resolve(u)' = IF Resolve(u) = p THEN v ELSE Resolve(u)
      BY <1>b, <1>1, <2>3, <3>2, EndForwarded
    <3>4. p \notin Operands(b, i) BY <1>9, <2>1, <2>3
    <3>5. Operands(b, i)' \subseteq Operands(b, i)
      BY <1>1, <1>b, <3>3, <3>4, OperandsMapped
    <3>6. ASSUME NEW w \in Operands(b, i) PROVE w \in Operands(b, i)'
      <4>1. PICK q \in Range(preds[b]) : \E k \in EdgesInto(q, b) : w = Arg(q, k, i) BY OperandIs
      <4>2. PICK k \in EdgesInto(q, b) : w = Arg(q, k, i) BY <4>1
      <4>3. Arg(q, k, i)' = w
        <5>1. q \in Block BY <1>b, <2>1, PredFacts
        <5>2. CASE i \in DOMAIN term[q][k].args
          <6>1. PICK u \in Value : u = term[q][k].args[i] BY <5>1, <5>2, <1>b, ArgFacts DEF EdgesInto
          <6>2. w = Resolve(u) /\ w # p BY <3>4, <4>2, <5>2, <6>1 DEF Arg
          <6>3. Root(alias', u) = w BY <3>3, <6>2, ResolvePrime
          <6> QED BY <1>1, <5>2, <6>1, <6>3, ResolvePrime DEF Arg
        <5>3. CASE i \notin DOMAIN term[q][k].args BY <1>1, <4>2, <5>3 DEF Arg
        <5> QED BY <5>2, <5>3
      <4>4. k \in EdgesInto(q, b)' /\ preds' = preds BY <1>1 DEF EdgesInto
      <4> QED BY <4>3, <4>4 DEF Operands, Arg
    <3> QED BY <2>1, <3>5, <3>6
  <2> QED BY <2>2, <2>3
<1>10. ASSUME NEW q \in left \ {p}, q \notin elim'.work, NEW u \in Value PROVE ~IsTrivial(q, u)'
  <2>1. q \notin elim.work /\ q \notin elim.users[p] BY <1>6, <1>10
  <2>2. ~IsTrivial(q, u) BY <1>7, <2>1
  <2>3. ~Receives(q, p) BY <1>1, <1>3, <1>7, <2>1
  <2>4. \A s \in Sites(q) : Operands(s[1], s[2])' = Operands(s[1], s[2]) BY <1>9, <2>3 DEF Receives
  <2>5. ASSUME NEW s \in Sites(q) PROVE ~TrivialAs(q, s[1], s[2], u)'
    BY <2>2, <2>4 DEF IsTrivial, TrivialAs
  <2> QED BY <1>8, <2>5 DEF IsTrivial
<1>11. ASSUME NEW q \in left \ {p}, NEW c \in left \ {p, q}, Receives(c, q)' PROVE c \in elim'.users[q]
  <2>1. PICK s \in Sites(c) : q \in Operands(s[1], s[2])' BY <1>8, <1>11 DEF Receives
  <2>2. CASE q \in Operands(s[1], s[2])
    <3>1. Receives(c, q) BY <2>2 DEF Receives
    <3> QED BY <1>5, <1>7, <3>1
  <2>3. CASE q \notin Operands(s[1], s[2])
    <3>1. p \in Operands(s[1], s[2]) /\ alias[p] = NONE BY <1>9, <2>1, <2>3
    <3>2. c \in elim.users[p]
      <4>1. Receives(c, p) BY <3>1 DEF Receives
      <4> QED BY <1>1, <1>3, <1>7, <4>1
    <3>3. q = v
      <4>1. PICK z \in Sites(p) : TrivialAs(p, z[1], z[2], v) BY <1>1 DEF IsTrivial
      <4>2. p # v /\ alias[v] = NONE BY <1>b, <4>1, TrivialFacts
      <4>3. \A x \in Value : Resolve(x)' = IF Resolve(x) = p THEN v ELSE Resolve(x)
        BY <1>b, <1>1, <3>1, <4>2, EndForwarded
      <4>4. PICK b \in Block, i \in DOMAIN params[s[1]] : b = s[1] /\ i = s[2] BY <1>b, SiteFacts
      <4>5. q \in Operands(b, i)' BY <2>1, <4>4
      <4>6. PICK w \in Operands(b, i) : q = IF w = p THEN v ELSE w
        BY <1>b, <1>1, <4>3, <4>5, OperandsMapped
      <4> QED BY <2>3, <4>4, <4>6
    <3> QED BY <1>5, <3>2, <3>3
  <2> QED BY <2>2, <2>3
<1> HIDE DEF left
<1>12. /\ \A q \in (left \ {p}) \ elim'.work : \A u \in Value : ~IsTrivial(q, u)'
       /\ \A q \in left \ {p} : \A c \in (left \ {p}) \ {q} : Receives(c, q)' => c \in elim'.users[q]
  BY <1>10, <1>11
<1> QED BY <1>4, <1>12 DEF Worked

\* With nothing of the function changed, nothing becomes trivial or receives more.
LEMMA TrivialKept ==
  ASSUME UNCHANGED <<live, params, nvals, term, preds, alias>>
  PROVE  \A p, v : (IsTrivial(p, v)' <=> IsTrivial(p, v)) /\ (Receives(p, v)' <=> Receives(p, v))
<1>1. \A p : Sites(p)' = Sites(p) BY SitesKept
<1>2. \A b, i : Operands(b, i)' = Operands(b, i) BY DEF Operands, EdgesInto, Resolve
<1> QED BY <1>1, <1>2 DEF IsTrivial, TrivialAs, Receives

LEMMA WorkedStep ==
  ASSUME Plain, Worked, Next
  PROVE  Worked'
<1>b. Settled /\ Core /\ Base BY DEF Plain, Settled, Core
<1> SUFFICES ASSUME pc' = "eliminate" PROVE Worked' BY DEF Worked
<1>e. elim = [work |-> elim.work, users |-> elim.users, removed |-> elim.removed]
  BY <1>b DEF Base, TypeOK, JobOK, ElimOK
<1>1. CASE DrainedSealAll
  <2>1. /\ elim'.work = Range(pending) /\ elim'.removed = {}
        /\ elim'.users = [q \in Range(pending) |-> {c \in Range(pending) \ {q} : Receives(c, q)}]
        /\ UNCHANGED <<live, params, nvals, term, preds, alias>>
    BY <1>1 DEF DrainedSealAll, func
  <2>2. \A c, q : Receives(c, q)' <=> Receives(c, q) BY <2>1, TrivialKept
  <2> QED BY <2>1, <2>2 DEF Worked
<1>2. ASSUME NEW p \in Value, ElimSkip(p) PROVE Worked'
  <2>1. /\ elim' = [elim EXCEPT !.work = elim.work \ {p}] /\ pc = "eliminate"
        /\ p \in elim.removed \/ \A v \in Value : ~IsTrivial(p, v)
        /\ UNCHANGED <<live, params, nvals, term, preds, alias>>
    BY <1>2 DEF ElimSkip, func, ssa
  <2>2. elim'.work = elim.work \ {p} /\ elim'.users = elim.users /\ elim'.removed = elim.removed
    BY <2>1, <1>e
  <2>3. \A c, q : (IsTrivial(c, q)' <=> IsTrivial(c, q)) /\ (Receives(c, q)' <=> Receives(c, q))
    BY <2>1, TrivialKept
  <2> QED BY <2>1, <2>2, <2>3 DEF Worked
<1>3. CASE Eliminates
  <2>1. PICK p \in Value, v \in Value : ElimForward(p, v) BY <1>3 DEF Eliminates
  <2> QED BY <2>1, WorkedForward
<1>4. ASSUME pc = "eliminate" PROVE DrainedSealAll \/ Eliminates \/ \E p \in Value : ElimSkip(p)
  <2>1. Call \/ ReadStep \/ DrainStep \/ TermStep \/ ForwardStep \/ ElimStep BY <1>b, Steps
  <2>2. ~Call BY <1>4, <1>b, CallChanges
  <2>3. ~ReadStep BY <1>4 DEF ReadStep, ReadHit, ReadNewParam, ReadZero, ReadThrough, ReadFails
  <2>4. ~DrainStep
    BY <1>4 DEF DrainStep, DrainPop, CompleteRead, CompleteNext, DrainedUse, DrainedSeal, DrainedTerm
  <2>5. ~TermStep
    BY <1>4 DEF TermStep, NewTermWant, NewTermRead, NewTermPush, NewTermInstall, NewTermRefuse
  <2>6. ~ForwardStep BY <1>4 DEF ForwardStep, ForwardParam, ForwardSkip, ForwardDone
  <2>7. ElimStep BY <2>1, <2>2, <2>3, <2>4, <2>5, <2>6
  <2>8. ~ElimRemove /\ ~ElimNone /\ ~DrainedSealAllNone BY DEF ElimRemove, ElimNone, DrainedSealAllNone, Return
  <2> QED BY <2>7, <2>8 DEF ElimStep, Eliminates
<1>5. pc = "eliminate" \/ DrainedSealAll BY <1>b, CameFrom
<1> QED BY <1>1, <1>2, <1>3, <1>4, <1>5

LEMMA WorkedHolds == MaxReplace = 0 => (Spec => [](Meant /\ Worked))
<1> SUFFICES ASSUME MaxReplace = 0 PROVE Spec => [](Meant /\ Worked) OBVIOUS
<1>1. Init => Worked BY DEF Init, Worked
<1>2. ASSUME Meant, Worked, [Next]_vars PROVE Worked'
  <2>1. CASE Next BY <1>2, <2>1, WorkedStep DEF Meant
  <2>2. CASE UNCHANGED vars
    <3>1. UNCHANGED <<live, params, nvals, term, preds, alias, pc, elim>>
      BY <2>2 DEF vars, func, ssa, job
    <3>2. \A c, q : (IsTrivial(c, q)' <=> IsTrivial(c, q)) /\ (Receives(c, q)' <=> Receives(c, q))
      BY <3>1, TrivialKept
    <3> QED BY <1>2, <3>1, <3>2 DEF Worked
  <2> QED BY <1>2, <2>1, <2>2
<1>3. Spec => []Meant BY MeantHolds
<1> QED BY <1>1, <1>2, <1>3, PTL DEF Spec

\* A block has no more parameters than there are values.
LEMMA FewParams ==
  ASSUME Settled, NEW b \in Block
  PROVE  DOMAIN params[b] \subseteq 1..nvals
<1>b. Base BY DEF Settled, Core
<1>1. params[b] \in Seq(Value) BY <1>b, EdgeFacts
<1>2. /\ Len(params[b]) \in Nat /\ DOMAIN params[b] = 1..Len(params[b])
      /\ \A i \in DOMAIN params[b] : params[b][i] \in Value
  BY <1>1, LenProperties, ElementOfSeq
<1>3. nvals \in Nat BY <1>b, CountAssumption DEF Base, TypeOK, FuncOK
<1> DEFINE f == params[b]
           S == 1..Len(params[b])
           T == 1..nvals
<1>4. \A i \in S : f[i] \in T
  <2>1. \A i \in S : f[i] \in Value /\ f[i] <= nvals BY <1>2 DEF Settled, Numbered
  <2>2. \A v \in Value : v <= nvals => v \in 1..nvals BY <1>3 DEF Value
  <2> QED BY <2>1, <2>2
<1>5. f \in [S -> T]
  <2>1. f = [i \in S |-> f[i]] BY <1>1, <1>2
  <2> QED BY <1>4, <2>1
<1>6. \A i, j \in S : f[i] = f[j] => i = j BY <1>2 DEF Settled, ListedOnce
<1>7. f \in Injection(S, T)
  <2> HIDE DEF f, S, T
  <2> QED BY <1>5, <1>6 DEF Injection, IsInjective
<1>8. /\ IsFiniteSet(T) /\ Cardinality(T) = nvals /\ Cardinality(S) = Len(params[b])
  <2>1. /\ IsFiniteSet(1..nvals)
        /\ Cardinality(1..nvals) = IF 1 > nvals THEN 0 ELSE (nvals - 1) + 1
        /\ Cardinality(1..Len(params[b])) = IF 1 > Len(params[b]) THEN 0
                                            ELSE (Len(params[b]) - 1) + 1
    <3> DEFINE m == Len(params[b])
    <3>1. 1 \in Int /\ nvals \in Int /\ m \in Int BY <1>2, <1>3
    <3> HIDE DEF m, S, T, f
    <3>2. IsFiniteSet(1..nvals) /\ Cardinality(1..nvals) = IF 1 > nvals THEN 0 ELSE (nvals - 1) + 1
      BY <3>1, FS_Interval
    <3>3. Cardinality(1..m) = IF 1 > m THEN 0 ELSE (m - 1) + 1 BY <3>1, FS_Interval
    <3> QED BY <3>2, <3>3 DEF m
  <2> QED BY <1>2, <1>3, <2>1
<1>9. Cardinality(S) <= Cardinality(T)
  <2> HIDE DEF f, S, T
  <2> QED BY <1>7, <1>8, FS_Injection
<1>10. Len(params[b]) <= nvals BY <1>8, <1>9
<1>11. \A m, n \in Nat : m <= n => 1..m \subseteq 1..n OBVIOUS
<1> QED BY <1>2, <1>3, <1>10, <1>11

\* What remove_params leaves is what was there, at the index it had.
LEMMA RemainsTrivial ==
  ASSUME Settled, Wanted, Within, StackInUse, Completed, ElimRemove, Base',
         NEW p, NEW v, IsTrivial(p, v)'
  PROVE  p \notin elim.removed /\ IsTrivial(p, v)
<1>b. Core /\ Base BY DEF Settled, Core
<1>1. PICK s \in Sites(p)' : TrivialAs(p, s[1], s[2], v)' BY DEF IsTrivial
<1>0. s[1] \in Block /\ IsSite(p, s[1], s[2])' BY <1>1 DEF Sites
<1>a. PICK b \in Block : b = s[1] BY <1>0
<1>2. PICK j \in DOMAIN params'[b] : j = s[2] /\ b \in live /\ params'[b][j] = p
  BY <1>0, <1>a DEF IsSite, ElimRemove
<1>3. params[b] \in Seq(Value) /\ Kept(b) \subseteq DOMAIN params[b] BY <1>b, EdgeFacts DEF Kept
<1>4. params'[b] = Pick(params[b], Kept(b)) BY DEF ElimRemove
<1>5. DOMAIN params'[b] = 1..Cardinality(Kept(b)) BY <1>3, <1>4, PickFacts
<1>6. PICK i \in Kept(b) : i = Nth(Kept(b), j) /\ params[b][i] = p
  BY <1>2, <1>3, <1>4, <1>5, PickFacts
<1>7. p \notin elim.removed BY <1>6 DEF Kept
<1>8. alias' = alias /\ preds' = preds BY DEF ElimRemove, AliasesKept, ssa
<1>9. ASSUME NEW q \in Range(preds[b]), NEW k \in EdgesInto(q, b)'
      PROVE  k \in EdgesInto(q, b) /\ Arg(q, k, j)' = Arg(q, k, i)
  <2>1. q \in Block BY <1>b, PredFacts
  <2>2. k \in DOMAIN term'[q] /\ term'[q][k].block = b BY DEF EdgesInto
  <2>3. /\ k \in DOMAIN term[q] /\ term[q][k].block = b
        /\ Len(term[q][k].args) = Len(params[b])
        /\ Len(term'[q][k].args) = Len(params'[b])
    BY <1>2, <2>1, <2>2, RemovePasses
  <2>4. term[q][k].args \in Seq(Value) BY <1>b, <2>1, <2>3, EdgeFacts
  <2>5. j \in DOMAIN term'[q][k].args
    <3>1. term' \in [Block -> Seq(Edge)] /\ params' \in [Block -> Seq(Value)]
      BY DEF Base, TypeOK, FuncOK
    <3>2. term'[q] \in Seq(Edge) /\ params'[b] \in Seq(Value) BY <3>1, <2>1
    <3>3. term'[q][k] \in Edge BY <3>2, <2>2, ElementOfSeq, LenProperties
    <3>4. term'[q][k].args \in Seq(Value) BY <3>3 DEF Edge
    <3> QED BY <3>2, <3>4, <1>2, <2>3, LenProperties
  <2>6. /\ i \in DOMAIN term[q][k].args
        /\ term'[q][k].args[j] = Resolve(term[q][k].args[i])
    BY <1>b, <1>6, <2>1, <2>3, <2>5, RemoveFacts
  <2>7. PICK u \in Value : u = term[q][k].args[i] BY <1>b, <2>1, <2>3, <2>6, ArgFacts
  <2>8. Resolve(u) \in Value /\ alias[Resolve(u)] = NONE BY <1>b, ResolveFacts DEF Base
  <2>9. Root(alias', Resolve(u)) = Resolve(u) BY <1>8, <2>8, <1>b, RootDef DEF Base
  <2>10. Arg(q, k, j)' = Resolve(u)
    BY <2>5, <2>6, <2>7, <2>9, ResolvePrime DEF Arg
  <2>11. Arg(q, k, i) = Resolve(u) BY <2>6, <2>7 DEF Arg
  <2>12. k \in EdgesInto(q, b) BY <2>3 DEF EdgesInto
  <2> QED BY <2>10, <2>11, <2>12
<1>10. ASSUME NEW q \in Range(preds[b]), NEW k \in EdgesInto(q, b) PROVE k \in EdgesInto(q, b)'
  <2>1. q \in Block BY <1>b, PredFacts
  <2>2. k \in DOMAIN term[q] /\ term[q][k].block = b BY DEF EdgesInto
  <2>3. term'[q][k] = WithoutRemoved(q, term[q][k]) /\ k \in DOMAIN term'[q]
    BY <2>1, <2>2 DEF ElimRemove
  <2>4. term'[q][k].block = b BY <1>b, <2>1, <2>2, <2>3, EdgeFacts, WithoutRemovedFacts
  <2> QED BY <2>3, <2>4 DEF EdgesInto
<1>11. Operands(b, j)' = Operands(b, i)
  <2>1. ASSUME NEW w
        PROVE  w \in Operands(b, j)' <=> \E q \in Range(preds[b]) : \E k \in EdgesInto(q, b)' : w = Arg(q, k, j)'
    BY <1>8 DEF Operands, Arg
  <2>2. ASSUME NEW w PROVE w \in Operands(b, j)' <=> w \in Operands(b, i)
    BY <1>9, <1>10, <2>1, OperandIs
  <2> QED BY <2>2
<1>12. <<b, i>> \in Sites(p)
  <2>1. i \in 1..nvals BY <1>3, FewParams
  <2>2. IsSite(p, b, i) BY <1>2, <1>3, <1>6 DEF IsSite
  <2> QED BY <2>1, <2>2 DEF Sites
<1>13. TrivialAs(p, b, i, v) BY <1>1, <1>a, <1>2, <1>11 DEF TrivialAs
<1> QED BY <1>7, <1>12, <1>13 DEF IsTrivial

\* seal_all_blocks leaves none of the parameters it was given trivial: following the users
\* it recorded reaches the fixpoint, in whatever order the worklist is taken, and what
\* remove_params takes out makes no other parameter trivial.
THEOREM EliminationReachesFixpoint == MaxReplace = 0 => (Spec => NoTrivialCandidateLeft)
<1> SUFFICES ASSUME MaxReplace = 0 PROVE Spec => NoTrivialCandidateLeft OBVIOUS
<1> DEFINE Left == pc = "eliminate" /\ pc' = "idle" /\ ~failed =>
                      \A p \in DOMAIN elim.users, v \in Value : ~IsTrivial(p, v)'
<1>1. ASSUME Meant, Worked, [Next]_vars, Meant' PROVE Left
  <2> SUFFICES ASSUME pc = "eliminate", pc' = "idle", ~failed,
                      NEW p \in DOMAIN elim.users, NEW v \in Value, IsTrivial(p, v)'
               PROVE  FALSE
    OBVIOUS
  <2>b. Settled /\ Core /\ Base /\ Base' BY <1>1 DEF Meant, Plain, Settled, Core
  <2>1. Next BY <1>1 DEF vars, job
  <2>2. ElimRemove \/ ElimNone
    <3>1. pc # "idle" OBVIOUS
    <3>2. ~ReadFails /\ ~NewTermInstall /\ ~NewTermRefuse /\ ~ForwardDone /\ ~DrainedSealAllNone
      BY DEF ReadFails, NewTermInstall, NewTermRefuse, ForwardDone, DrainedSealAllNone
    <3> QED BY <2>b, <2>1, <3>1, <3>2, CameFrom
  <2>3. elim.work = {} BY <2>2 DEF ElimRemove, ElimNone
  <2>4. p \notin elim.removed => ~IsTrivial(p, v) BY <1>1, <2>3 DEF Worked
  <2>5. CASE ElimRemove
    <3>1. Wanted /\ Within /\ StackInUse /\ Completed BY <1>1 DEF Meant, Passing
    <3>2. p \notin elim.removed /\ IsTrivial(p, v) BY <2>b, <2>5, <3>1, RemainsTrivial
    <3> QED BY <2>4, <3>2
  <2>6. CASE ElimNone
    <3>1. elim.removed = {} /\ UNCHANGED <<live, params, nvals, term, preds, alias>>
      BY <2>6 DEF ElimNone, func, ssa
    <3>2. IsTrivial(p, v) BY <3>1, TrivialKept
    <3> QED BY <2>4, <3>1, <3>2
  <2> QED BY <2>2, <2>5, <2>6
<1>2. Meant /\ Worked /\ [Next]_vars /\ (Meant /\ Worked)' => [Left]_vars BY <1>1
<1>3. Spec => [](Meant /\ Worked) BY WorkedHolds
<1>4. Spec => [][Left]_vars BY <1>2, <1>3, PTL DEF Spec
<1> QED BY <1>4 DEF NoTrivialCandidateLeft
=============================================================================
