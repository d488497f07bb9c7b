-------------------------- MODULE SsaConstructProps --------------------------
(***************************************************************************)
(* What SSA construction promises, over the specification in SsaConstruct. *)
(***************************************************************************)
EXTENDS SsaConstruct, Integers

\* Type correctness of the function, of the construction state and of the
\* call in progress (the struct fields of Function and SsaState).
FuncOK ==
    /\ live \subseteq Block
    /\ terminated \subseteq live
    /\ term \in [Block -> Seq(Edge)]
    /\ params \in [Block -> Seq(Value)]
    /\ alias \in [Value -> Value \cup {NONE}]
    /\ nvals \in Inputs..Capacity
SsaOK ==
    /\ sealed \subseteq Block
    /\ preds \in [Block -> Seq(Block)]
    /\ paramVar \in [Value -> Var \cup {NONE}]
    /\ defs \in [Var \X Block -> Value \cup {NONE}]
    /\ zero \in Value \cup {NONE}
    /\ pending \in Seq(Value)
    /\ stack \in Seq(Block)
CallOK ==
    /\ call \in [op : {"none", "use", "seal", "sealall", "term"}, block : Block, start : Nat,
                 term : Seq(Edge), want : Seq([edge : Nat, var : Var]), got : Seq(Value)]
    /\ call.start <= Len(pending)
ElimOK ==
    /\ elim = [work |-> elim.work, users |-> elim.users, removed |-> elim.removed]
    /\ elim.work \subseteq DOMAIN elim.users
    /\ elim.removed \subseteq DOMAIN elim.users
    /\ DOMAIN elim.users \subseteq Value
    /\ elim.users \in [DOMAIN elim.users -> SUBSET DOMAIN elim.users]
JobOK ==
    /\ pc \in {"idle", "read", "drain", "complete", "newterm", "forward", "eliminate"}
    /\ CallOK
    /\ rd \in [var : Var \cup {NONE}, at : Block, chain : SUBSET Block,
               for : {"none", "use", "complete", "newterm"}]
    /\ cursor \in [block : Block, i : Nat]
    /\ todo \in Seq(Value)
    /\ ElimOK
TypeOK ==
    /\ FuncOK /\ SsaOK /\ JobOK
    /\ program \in Programs
    /\ incoming \in [Var \X Block -> Value \cup {NONE}]
    /\ failed \in BOOLEAN

------------------------------------------------------------------------------
(***************************************************************************)
(* The shape of the function under construction.                           *)
(***************************************************************************)

\* Forwarding has no cycle, so Function::resolve ends at a value that does
\* not forward (function.rs: "alias chains are acyclic by construction").
ForwardingAcyclic ==
    \A S \in (SUBSET Existing) \ {{}} : \E v \in S : alias[v] \notin S

\* The predecessor lists are the edges of the installed terminators, each
\* predecessor once: what add_edges and remove_edges keep up by hand is what
\* distinct_preds would compute afresh.
PredsCurrent ==
    \A b \in Block :
        /\ Range(preds[b]) = {p \in Block : EdgesInto(p, b) # {}}
        /\ \A i, j \in DOMAIN preds[b] : preds[b][i] = preds[b][j] => i = j

\* Between calls, every edge into a sealed block passes one argument for each
\* construction parameter: drain left nothing on the stack's account.
SealedEdgesComplete ==
    pc = "idle" /\ ~failed =>
        \A p \in Block : \A k \in DOMAIN term[p] :
            LET e == term[p][k] IN
            e.block \in live \cap sealed => Len(e.args) = Len(params[e.block])

------------------------------------------------------------------------------
(***************************************************************************)
(* The meaning of the variables: the value equations of the control-flow   *)
(* graph.  Whatever order blocks are filled, terminated and sealed in, the *)
(* solution the construction records satisfies them after every step.      *)
(***************************************************************************)

\* The i-th argument of an edge p -> b is p's final value of the variable the
\* i-th parameter of b stands for.
EdgesPassFinalValues ==
    ~failed =>
        \A p \in Block : \A k \in DOMAIN term[p] : \A i \in DOMAIN term[p][k].args :
            LET b == term[p][k].block
                x == paramVar[params[b][i]]
            IN  b \in live =>
                  /\ i \in DOMAIN params[b]
                  /\ defs[<<x, p>>] # NONE
                  /\ Resolve(term[p][k].args[i]) = Resolve(defs[<<x, p>>])

\* What x was found to be on entry to b is b's parameter for x, or is what x
\* is at the end of every predecessor of b.  An assignment after the block was
\* terminated, an edge into a sealed block, or a parameter forwarded before
\* all its arguments are known would each break it.
EntryValueAgrees(x, b) ==
    LET v == incoming[<<x, b>>] IN
    \/ \E i \in DOMAIN params[b] :
          /\ paramVar[params[b][i]] = x
          /\ alias[params[b][i]] = NONE
          /\ Resolve(v) = params[b][i]
    \/ /\ b \in sealed
       /\ \A p \in Range(preds[b]) :
             defs[<<x, p>>] # NONE /\ Resolve(defs[<<x, p>>]) = Resolve(v)

EntryValuesAgree ==
    ~failed => \A x \in Var, b \in live :
        incoming[<<x, b>>] # NONE => EntryValueAgrees(x, b)

\* No step takes back an equality between values: what resolved alike keeps
\* resolving alike, so a value the front end holds keeps its meaning.
EqualitiesKept ==
    [][\A u, v \in Existing : Resolve(u) = Resolve(v) => Resolve(u)' = Resolve(v)']_vars

\* Completing edges and reading variables never replaces an assignment: only
\* def_var changes what a variable with a value in a block stands for there.
ReadsKeepAssignments ==
    [][pc # "idle" => \A xb \in Var \X Block, v \in Existing :
          defs[xb] = v => Resolve(v)' = Resolve(defs[xb])']_vars

------------------------------------------------------------------------------
(***************************************************************************)
(* The result: strict SSA, and minimal.                                    *)
(***************************************************************************)

\* The blocks reachable from the entry block without going through a.
ReachableAvoiding(a) ==
    LET within[n \in Nat] ==
          IF n = 0 THEN {Entry} \ {a}
          ELSE LET prev == within[n - 1]
               IN  prev \cup ((UNION {Dests(term[p]) : p \in prev}) \ {a})
    IN  within[Cardinality(Block)]
Reachable == ReachableAvoiding(-1)
Dominates(a, b) == b \notin ReachableAvoiding(a)

\* Once every block is sealed, what a reachable block reads is defined on
\* every path to it: a variable that stands for a parameter stands for one
\* that is still listed, by a block that dominates the reader.
ReadsDominated ==
    pc = "idle" /\ live \subseteq sealed /\ ~failed =>
        \A x \in Var, b \in Reachable \cap live :
            LET v == Resolve(defs[<<x, b>>]) IN
            defs[<<x, b>>] # NONE /\ paramVar[v] # NONE =>
                \E d \in live : v \in Range(params[d]) /\ Dominates(d, b)

\* When eliminate_trivial is done, none of the parameters it was given is
\* trivial: following the users it recorded reaches the fixpoint.  (A call that failed
\* for lack of room leaves edges short, and remove_params leaves those as they are.)
NoTrivialCandidateLeft ==
    [][pc = "eliminate" /\ pc' = "idle" /\ ~failed =>
          \A p \in DOMAIN elim.users, v \in Value : ~IsTrivial(p, v)']_vars

\* Every call of the front end returns: the walk of read ends on cycles of
\* single-predecessor blocks, and completing edges runs out of parameters.
CallReturns == pc # "idle" ~> pc = "idle"

------------------------------------------------------------------------------
(***************************************************************************)
(* What the documentation says and the code does not do.                   *)
(***************************************************************************)

\* builder.rs, replace_all_uses: "Makes every use of old read new instead ...
\* Uses added later also forward."
RewritesKept == \A r \in rewrites : Resolve(r[1]) = Resolve(r[2])

\* forward_trivial leaves alone a parameter that already forwards, so whatever the
\* front end calls, short of another replace_all_uses, only the final pass of
\* seal_all_blocks can lose a rewrite of the front end's.
RewritesKeptOutsideElimination ==
    [][pc # "eliminate" /\ rewrites' = rewrites /\ RewritesKept => RewritesKept']_vars

=============================================================================
