------------------------ MODULE LeafLiquidityProofs -------------------------
(***************************************************************************)
(* The safety of LeafLiquidity for every set of leaves, of payouts and of  *)
(* swaps, every planner of splits that proposes a leaf of the SSP, and     *)
(* every number of faults.                                                 *)
(*                                                                         *)
(* SplitInv says what the operators and the database know of a split in    *)
(* each of its statuses, KeyInv that the key of a child is in one of the   *)
(* two key tables at each of them, and PlanInv that the split of the       *)
(* handler in the lock is the only one under way once it has recovered.    *)
(***************************************************************************)
EXTENDS LeafLiquidity, DataTheorems

IsSplit(p) == at[p] = "split"

(* The children of a split node are nodes of their own, of one parent.     *)
TreeInv ==
  /\ \A p \in Nodes :
       /\ IsSplit(p) <=> kids[p] # NoChildren
       /\ IsSplit(p) => \E c, d \in Nodes : c # d /\ kids[p] = <<c, d>>
       /\ IsSplit(p) => \A n \in Children(p) : at[n] # "none"
  /\ \A p, q \in Nodes : IsSplit(p) /\ IsSplit(q) /\ Children(p) \cap Children(q) # {} => p = q
  /\ \A n \in Nodes : at[n] = "signing" => \E p \in Nodes : IsSplit(p) /\ n \in Children(p)

(* What the stored status says of the split.                               *)
SplitInv ==
  \A p \in Nodes :
    /\ IsSplit(p) => status[p] \in {"SUBMITTING", "SUBMITTED", "COMPLETED"}
    /\ status[p] \in {"SUBMITTED", "COMPLETED"} => IsSplit(p)
    /\ p \in bound => status[p] \in {"SUBMITTED", "COMPLETED"}
    /\ status[p] = "COMPLETED" => p \in bound /\ \A n \in Children(p) : at[n] # "signing"

(* The keys of a split that is not bound are those in its pending row; the *)
(* signer resolves every other leaf to the key that the operators have.    *)
KeyInv ==
  /\ \A p \in Nodes : status[p] # "none" /\ p \notin bound => pending[p] = plankey[p] /\ pending[p] # 0
  /\ \A p \in Nodes : IsSplit(p) =>
       \A n \in Children(p) : IF p \in bound THEN override[n] = nodekey[n]
                              ELSE nodekey[n] = plankey[p]
  /\ \A n \in Nodes : (\A p \in Nodes : IsSplit(p) => n \notin Children(p)) =>
       nodekey[n] = 0 /\ override[n] = 0

(* A leaf on its way through a swap is in no other, and comes back only    *)
(* after the split that made it is bound.                                  *)
SwapInv ==
  /\ \A j \in Swaps :
       /\ pstate[j] \in {"sent", "tweaked", "claiming"} =>
            primary[j] \in Nodes /\ at[primary[j]] = "primary"
       /\ pstate[j] \in {"tweaked", "claiming"} =>
            \A p \in Nodes : IsSplit(p) /\ primary[j] \in Children(p) => p \in bound
  /\ \A j, k \in Swaps :
       /\ pstate[j] \in {"sent", "tweaked", "claiming"} /\ pstate[k] \in {"sent", "tweaked", "claiming"}
       /\ primary[j] = primary[k]
       => j = k

Settled(p) == status[p] \in {"none", "DRAFT", "COMPLETED"}

(* The handler in the lock: where it is in its split, and that no other    *)
(* split is under way once it has recovered.                               *)
PlanInv ==
  /\ ctl.pc \in {"plan", "insert", "pay", "counter"} => ctl.job \in Jobs
  /\ ctl.pc = "counter" => ctl.job \in Swaps
  /\ ctl.pc \in {"insert", "resume", "submit", "saveSubmitted"} => ctl.op \in Nodes
  /\ ctl.pc = "insert" => status[ctl.op] = "none" /\ pending[ctl.op] # 0
  /\ ctl.pc \in {"resume", "submit", "saveSubmitted"} => status[ctl.op] # "none"
  /\ ctl.pc \in {"submit", "saveSubmitted"} => status[ctl.op] = "SUBMITTING"
  /\ ctl.pc = "saveSubmitted" => IsSplit(ctl.op)
  /\ ctl.pc \in {"plan", "insert"} => \A p \in Nodes : Settled(p)
  /\ ctl.pc = "pay" /\ Kind[ctl.job] # "refund" => \A p \in Nodes : Settled(p)
  /\ ctl.pc \in {"resume", "submit", "saveSubmitted"} =>
       ctl.back = "recover" \/ (ctl.back = "plan" /\ ctl.job \in Jobs /\ \A p \in Nodes \ {ctl.op} : Settled(p))
  /\ ctl.job \in Jobs /\ ctl.pc \notin {"idle", "pay", "counter"} => Kind[ctl.job] # "refund"

IndInv == TypeOK /\ TreeInv /\ SplitInv /\ KeyInv /\ SwapInv /\ PlanInv

-----------------------------------------------------------------------------
(* The planners *)

(* The least member of a set of natural numbers is one of its members.     *)
LEMMA MinIsMember ==
  ASSUME NEW S, S \subseteq Nat, S # {}
  PROVE  Min(S) \in S
BY LeastNatural DEF Min

(* A sum of leaves is a natural number.                                    *)
LEMMA TotalIsNat ==
  ASSUME NEW A, IsFiniteSet(A), NEW v, \A n \in A : v[n] \in Nat, NEW S \in SUBSET A
  PROVE  Total(S, v) \in Nat
BY SumIsNat, FS_Subset DEF Total

(* A plan for an exact payout splits one of the leaves.                    *)
LEMMA ExactPlan ==
  ASSUME NEW A, IsFiniteSet(A), NEW v, \A n \in A : v[n] \in Nat, NEW target \in Nat,
         NEW s \in plan_just_in_time_split(A, v, target)
  PROVE  /\ s.parent \in A
         /\ s.needed \in Nat \ {0} /\ s.change \in Nat \ {0}
         /\ \E W \in SUBSET (A \ {s.parent}) :
              Total(W, v) + s.needed = target /\ v[s.parent] = s.needed + s.change
<1>1. s \in PlansFor(A, v, target)
  BY DEF plan_just_in_time_split
<1>2. PICK p \in A : \E U \in WholeLeaves(A, v, p, target) :
                 /\ target - Total(U, v) >= MinChild
                 /\ v[p] + Total(U, v) >= target + MinChild
                 /\ s = Plan(p, U, v, target)
  BY <1>1 DEF PlansFor
<1>3. PICK U \in WholeLeaves(A, v, p, target) :
                 /\ target - Total(U, v) >= MinChild
                 /\ v[p] + Total(U, v) >= target + MinChild
                 /\ s = Plan(p, U, v, target)
  BY <1>2
<1>4. U \in SUBSET (A \ {p})
  BY DEF WholeLeaves, Greedy
<1>5. Total(U, v) \in Nat
  BY <1>4, TotalIsNat
<1>6. s.parent = p /\ s.needed = target - Total(U, v) /\ s.change = (v[p] + Total(U, v)) - target
  BY <1>3 DEF Plan
<1>7. v[p] \in Nat /\ MinChild \in Nat /\ MinChild # 0
  BY MinChildAssumption
<1>8. s.needed \in Nat \ {0} /\ s.change \in Nat \ {0}
  BY <1>3, <1>5, <1>6, <1>7
<1>9. Total(U, v) + s.needed = target /\ v[p] = s.needed + s.change
  BY <1>5, <1>6, <1>7
<1> QED
  BY <1>4, <1>6, <1>8, <1>9

(* So does a plan for denominations.                                       *)
LEMMA DenominationPlan ==
  ASSUME NEW A, NEW v, \A n \in A : v[n] \in Nat, NEW denominations \in Seq(Nat),
         NEW s \in plan_denomination_split(A, v, denominations)
  PROVE  s.parent \in A /\ s.needed \in Nat /\ s.change \in Nat
<1> DEFINE short   == Unmatched(A, v, denominations)
           missing == denominations[Min(short)]
<1>1. /\ short # {}
      /\ \E p \in A : v[p] >= missing + MinChild
           /\ s = [parent |-> p, needed |-> missing, change |-> v[p] - missing]
  BY DEF plan_denomination_split
<1>2. short \subseteq DOMAIN denominations /\ DOMAIN denominations \subseteq Nat
  BY DEF Unmatched
<1>3. Min(short) \in DOMAIN denominations
  <2> HIDE DEF short
  <2> QED BY <1>1, <1>2, MinIsMember
<1>4. missing \in Nat
  BY <1>3
<1> HIDE DEF missing
<1> QED
  BY <1>1, <1>4, MinChildAssumption

(* The plans of a handler are for a leaf of the SSP.                       *)
LEMMA PlanIsForALeaf ==
  ASSUME TypeOK, ctl.job \in Jobs, NEW s \in BestSplits
  PROVE  s.parent \in Available /\ <<s.needed, s.change>> \in Pair
<1>1. /\ IsFiniteSet(Available)
      /\ \A n \in Available : value[n] \in Nat
  <2>1. IsFiniteSet(Nodes) /\ Available \subseteq Nodes
    BY LeafLiquidityAssumption DEF Available
  <2> QED BY <2>1, FS_Subset DEF TypeOK
<1>2. Amounts[ctl.job] \in Seq(Nat \ {0})
  BY LeafLiquidityAssumption
<1>3. CASE Kind[ctl.job] = "swap"
  <2>1. s \in plan_denomination_split(Available, value, Amounts[ctl.job])
    BY <1>3 DEF BestSplits
  <2>2. Amounts[ctl.job] \in Seq(Nat)
    BY <1>2
  <2> QED BY <1>1, <2>1, <2>2, DenominationPlan DEF Pair
<1>4. CASE Kind[ctl.job] # "swap"
  <2>1. s \in plan_just_in_time_split(Available, value, Amounts[ctl.job][1])
    BY <1>4 DEF BestSplits
  <2>2. Amounts[ctl.job][1] \in Nat
    BY <1>2, <1>4, LeafLiquidityAssumption DEF Swaps
  <2> QED BY <1>1, <2>1, <2>2, ExactPlan DEF Pair
<1> QED
  BY <1>3, <1>4

(* The leaves of a payout are the SSP's.                                   *)
LEMMA PaidIsAvailable ==
  ASSUME NEW S \in Selectable
  PROVE  S \subseteq Available
BY DEF Selectable, Selections

(* The operators have two ids for the children of a split.                 *)
LEMMA FreshPair ==
  ASSUME Cardinality(Fresh) >= 2
  PROVE  Min(Fresh) \in Fresh /\ Min(Fresh \ {Min(Fresh)}) \in Fresh \ {Min(Fresh)}
<1>1. Fresh \subseteq Nat
  BY LeafLiquidityAssumption DEF Fresh
<1>2. Fresh # {}
  BY FS_EmptySet
<1>3. Min(Fresh) \in Fresh
  BY <1>1, <1>2, MinIsMember
<1>4. Fresh \ {Min(Fresh)} # {}
  <2>1. SUFFICES ASSUME Fresh = {Min(Fresh)} PROVE FALSE
    BY <1>3
  <2>2. Cardinality({Min(Fresh)}) = 1
    BY FS_Singleton
  <2> QED BY <2>1, <2>2
<1> QED
  BY <1>1, <1>3, <1>4, MinIsMember
-----------------------------------------------------------------------------
(* What the steps do to the leaves *)

(* A split, as the operators make it.                                      *)
SplitInto(p, c, d) ==
  /\ ctl.pc = "submit" /\ p = ctl.op /\ at[p] = "ssp"
  /\ c \in Fresh /\ d \in Fresh \ {c}
  /\ at' = [at EXCEPT ![p] = "split", ![c] = "signing", ![d] = "signing"]
  /\ value' = [value EXCEPT ![c] = vals[p][1], ![d] = vals[p][2]]
  /\ nodekey' = [nodekey EXCEPT ![c] = plankey[p], ![d] = plankey[p]]
  /\ kids' = [kids EXCEPT ![p] = <<c, d>>]
  /\ ctl' = [ctl EXCEPT !.pc = "saveSubmitted"]
  /\ UNCHANGED <<split, keys, jobs, swap>>

(* Every other step only moves leaves that exist between their holders.    *)
Moves ==
  /\ \A n \in Nodes : at'[n] # at[n] =>
       at[n] \notin {"none", "split"} /\ at'[n] \in {"ssp", "user", "primary"}
  /\ UNCHANGED kids

(* The operators answer the repeated request for a split.                  *)
SplitAgain ==
  /\ ctl.pc = "submit" /\ at[ctl.op] = "split"
  /\ ctl' = [ctl EXCEPT !.pc = "saveSubmitted"]
  /\ UNCHANGED <<spark, split, keys, jobs, swap>>

LEMMA SubmitIsSplit ==
  ASSUME ctl.op \in Nodes, SubmitSplit
  PROVE  SplitAgain \/ \E p, c, d \in Nodes : SplitInto(p, c, d)
<1> DEFINE c == Min(Fresh)
           d == Min(Fresh \ {c})
<1>1. CASE at[ctl.op] = "ssp"
  <2>1. Cardinality(Fresh) >= 2
    BY <1>1 DEF SubmitSplit
  <2>2. c \in Fresh /\ d \in Fresh \ {c}
    BY <2>1, FreshPair
  <2>3. SplitInto(ctl.op, c, d)
    BY <1>1, <2>2 DEF SubmitSplit, SplitInto, Goto
  <2>4. c \in Nodes /\ d \in Nodes
    BY <2>2 DEF Fresh
  <2> HIDE DEF c, d
  <2> QED BY <2>3, <2>4
<1>2. CASE at[ctl.op] # "ssp"
  BY <1>2 DEF SubmitSplit, SplitAgain, Goto
<1> QED
  BY <1>1, <1>2

(* No other step makes a leaf.                                             *)
LEMMA OthersMove ==
  ASSUME TypeOK, SwapInv, ctl.op \in Nodes \/ ctl.pc # "submit", Next
  PROVE  Moves \/ \E p, c, d \in Nodes : SplitInto(p, c, d)
<1> USE DEF Moves
<1>1. ASSUME NEW j \in Jobs, BeginPayout(j) \/ BeginSwap(j) PROVE Moves
  BY <1>1 DEF BeginPayout, BeginSwap, spark
<1>2. CASE SubmitSplit
  BY <1>2, SubmitIsSplit DEF SplitAgain, spark, SubmitSplit
<1>3. CASE ActivateChildren
  BY <1>3 DEF ActivateChildren, TypeOK
<1>4. CASE Pay \/ PayCounter
  <2>1. PICK S \in Selectable : at' = [n \in Nodes |-> IF n \in S THEN "user" ELSE at[n]]
    BY <1>4 DEF Pay, PayCounter
  <2>2. \A n \in S : at[n] = "ssp"
    BY PaidIsAvailable DEF Available
  <2>3. UNCHANGED kids
    BY <1>4 DEF Pay, PayCounter
  <2> QED BY <2>1, <2>2, <2>3 DEF TypeOK
<1>5. ASSUME NEW j \in Swaps, CollectPrimary(j) \/ ExpirePrimary(j) PROVE Moves
  <2>1. at[primary[j]] = "primary" /\ primary[j] \in Nodes
    BY <1>5 DEF SwapInv, CollectPrimary, ExpirePrimary
  <2> QED BY <1>5, <2>1 DEF CollectPrimary, ExpirePrimary, TypeOK
<1>6. ASSUME NEW j \in Swaps, NEW n \in Nodes, SendPrimary(j, n) PROVE Moves
  BY <1>6 DEF SendPrimary, TypeOK
<1>7. CASE /\ Abort \/ Crash \/ Recover \/ PlanDone \/ Refuse \/ UseStoredSplit \/ DraftSplit
              \/ InsertSplit \/ ProgressLimit \/ PrepareSplit \/ MarkSubmitting \/ SaveSubmitted
              \/ BindKeys \/ CompleteSplit \/ FillSwap
  BY <1>7 DEF Abort, Crash, Recover, PlanDone, Refuse, UseStoredSplit, DraftSplit, InsertSplit,
     ProgressLimit, PrepareSplit, MarkSubmitting, SaveSubmitted, BindKeys, CompleteSplit, FillSwap, spark
<1>8. ASSUME NEW j \in Swaps,
             StoreRequest(j) \/ DropRequest(j) \/ ClaimTimeout(j) \/ TweakPrimary(j) \/ MarkSucceeded(j)
      PROVE  Moves
  BY <1>8 DEF StoreRequest, DropRequest, ClaimTimeout, TweakPrimary, MarkSucceeded, spark
<1> QED
  BY <1>1, <1>2, <1>3, <1>4, <1>5, <1>6, <1>7, <1>8 DEF Next, HandlerStep, SplitStep
-----------------------------------------------------------------------------
(* The invariant *)

(* What a split changes in the tree.                                       *)
Grows(p, c, d) ==
  /\ c # d /\ p # c /\ p # d /\ at[p] = "ssp" /\ at[c] = "none" /\ at[d] = "none"
  /\ at'[p] = "split" /\ at'[c] = "signing" /\ at'[d] = "signing"
  /\ \A n \in Nodes \ {p, c, d} : at'[n] = at[n]
  /\ kids'[p] = <<c, d>> /\ \A n \in Nodes \ {p} : kids'[n] = kids[n]

LEMMA SplitGrows ==
  ASSUME TypeOK, NEW p \in Nodes, NEW c \in Nodes, NEW d \in Nodes, SplitInto(p, c, d)
  PROVE  Grows(p, c, d)
BY DEF SplitInto, Grows, TypeOK, Fresh

LEMMA TreeStep ==
  ASSUME TypeOK, TreeInv, Moves \/ \E p, c, d \in Nodes : SplitInto(p, c, d)
  PROVE  TreeInv'
<1>1. CASE Moves
  BY <1>1 DEF Moves, TreeInv, IsSplit, Children
<1>2. CASE \E p, c, d \in Nodes : SplitInto(p, c, d)
  <2>1. PICK p, c, d \in Nodes : SplitInto(p, c, d)
    BY <1>2
  <2>2. Grows(p, c, d)
    BY <2>1, SplitGrows
  <2> USE DEF Grows
  <2>3. <<c, d>> # NoChildren
    BY LeafLiquidityAssumption DEF NoChildren
  <2>4. \A q \in Nodes \ {p} : (IsSplit(q)' <=> IsSplit(q)) /\ Children(q)' = Children(q)
    BY <2>2 DEF IsSplit, Children
  <2>5. Children(p)' = {c, d} /\ IsSplit(p)' /\ ~IsSplit(p)
    BY <2>2 DEF IsSplit, Children
  <2>6. \A q \in Nodes : IsSplit(q) => c \notin Children(q) /\ d \notin Children(q)
    BY <2>2 DEF TreeInv
  <2>7. \A q \in Nodes :
          /\ IsSplit(q)' <=> kids'[q] # NoChildren
          /\ IsSplit(q)' => \E a, b \in Nodes : a # b /\ kids'[q] = <<a, b>>
    <3>1. TAKE q \in Nodes
    <3>2. CASE q = p
      BY <3>2, <2>2, <2>3, <2>5
    <3>3. CASE q # p
      BY <3>3, <2>2, <2>4 DEF TreeInv
    <3> QED BY <3>2, <3>3
  <2>8. \A q \in Nodes : IsSplit(q)' => \A n \in Children(q)' : at'[n] # "none"
    <3>1. TAKE q \in Nodes
    <3>2. CASE q = p
      BY <3>2, <2>2, <2>5
    <3>3. CASE q # p
      <4>1. IsSplit(q) => Children(q) \subseteq Nodes
        BY DEF TreeInv, Children
      <4> QED BY <3>3, <2>2, <2>4, <4>1 DEF TreeInv
    <3> QED BY <3>2, <3>3
  <2>9. \A q, r \in Nodes : IsSplit(q)' /\ IsSplit(r)' /\ Children(q)' \cap Children(r)' # {} => q = r
    <3>1. TAKE q, r \in Nodes
    <3>2. CASE q = p \/ r = p
      BY <3>2, <2>4, <2>5, <2>6
    <3>3. CASE q # p /\ r # p
      BY <3>3, <2>4 DEF TreeInv
    <3> QED BY <3>2, <3>3
  <2>10. \A n \in Nodes : at'[n] = "signing" => \E q \in Nodes : IsSplit(q)' /\ n \in Children(q)'
    <3>1. TAKE n \in Nodes
    <3>2. CASE n \in {c, d}
      BY <3>2, <2>5
    <3>3. CASE n \notin {c, d}
      BY <3>3, <2>2, <2>4, <2>5 DEF TreeInv
    <3> QED BY <3>2, <3>3
  <2> QED BY <2>7, <2>8, <2>9, <2>10 DEF TreeInv
<1> QED
  BY <1>1, <1>2

(* The steps that write the split table.                                   *)
LEMMA StatusSteps ==
  ASSUME Next
  PROVE  \/ UNCHANGED <<status, bound, plankey>>
         \/ InsertSplit \/ PrepareSplit \/ MarkSubmitting \/ SaveSubmitted \/ BindKeys \/ CompleteSplit
BY DEF Next, HandlerStep, SplitStep, split, BeginPayout, BeginSwap, Abort, Crash, Recover, PlanDone,
   Refuse, UseStoredSplit, DraftSplit, ProgressLimit, SubmitSplit, ActivateChildren, Pay, PayCounter,
   FillSwap, StoreRequest, DropRequest, ClaimTimeout, TweakPrimary, CollectPrimary, MarkSucceeded,
   ExpirePrimary, SendPrimary

(* Where the handler is when it writes a status, and which.                *)
Writes(s) ==
  /\ status' = [status EXCEPT ![ctl.op] = s] /\ ctl.op \in Nodes
  /\ UNCHANGED spark
  /\ \/ s = "DRAFT" /\ status[ctl.op] = "none" /\ UNCHANGED bound
     \/ s = "PREPARED" /\ status[ctl.op] = "DRAFT" /\ UNCHANGED bound
     \/ s = "SUBMITTING" /\ status[ctl.op] \in {"PREPARED", "SUBMITTING"} /\ UNCHANGED bound
     \/ s = "SUBMITTED" /\ status[ctl.op] = "SUBMITTING" /\ IsSplit(ctl.op) /\ UNCHANGED bound
     \/ s = "SUBMITTED" /\ status[ctl.op] = "SUBMITTED" /\ bound' = bound \cup {ctl.op}
     \/ s = "COMPLETED" /\ status[ctl.op] = "SUBMITTED" /\ ctl.op \in bound /\ UNCHANGED bound
          /\ \A n \in Children(ctl.op) : at[n] # "signing"

LEMMA StatusIsWritten ==
  ASSUME TypeOK, PlanInv, Next
  PROVE  UNCHANGED <<status, bound>> \/ \E s \in Statuses : Writes(s)
<1>1. CASE InsertSplit
  BY <1>1 DEF InsertSplit, Writes, PlanInv, Statuses
<1>2. CASE PrepareSplit
  BY <1>2 DEF PrepareSplit, SetStatus, Writes, PlanInv, Statuses
<1>3. CASE MarkSubmitting
  BY <1>3 DEF MarkSubmitting, SetStatus, Writes, PlanInv, Statuses
<1>4. CASE SaveSubmitted
  BY <1>4 DEF SaveSubmitted, SetStatus, Writes, PlanInv, Statuses
<1>5. CASE BindKeys
  BY <1>5 DEF BindKeys, Finalizing, Writes, PlanInv, Statuses, TypeOK
<1>6. CASE CompleteSplit
  BY <1>6 DEF CompleteSplit, Finalizing, SetStatus, Writes, PlanInv, Statuses
<1> QED
  BY <1>1, <1>2, <1>3, <1>4, <1>5, <1>6, StatusSteps

LEMMA SplitInvStep ==
  ASSUME TypeOK, TreeInv, SplitInv, PlanInv, Next,
         Moves \/ \E p, c, d \in Nodes : SplitInto(p, c, d)
  PROVE  SplitInv'
<1>1. CASE \E s \in Statuses : Writes(s)
  BY <1>1 DEF Writes, SplitInv, IsSplit, Children, spark, TypeOK, Statuses
<1>2. CASE UNCHANGED <<status, bound>> /\ Moves
  BY <1>2 DEF Moves, SplitInv, TreeInv, IsSplit, Children
<1>3. CASE UNCHANGED <<status, bound>> /\ \E p, c, d \in Nodes : SplitInto(p, c, d)
  <2>1. PICK p, c, d \in Nodes : SplitInto(p, c, d)
    BY <1>3
  <2>2. Grows(p, c, d) /\ status[p] = "SUBMITTING" /\ p \notin bound
    BY <2>1, SplitGrows DEF SplitInto, PlanInv, SplitInv
  <2>3. \A q \in Nodes \ {p} : (IsSplit(q)' <=> IsSplit(q)) /\ Children(q)' = Children(q)
    BY <2>2 DEF Grows, IsSplit, Children
  <2>4. \A q \in Nodes : IsSplit(q) => c \notin Children(q) /\ d \notin Children(q) /\ Children(q) \subseteq Nodes
    BY <2>2 DEF TreeInv, Grows, Children
  <2> QED BY <1>3, <2>2, <2>3, <2>4 DEF SplitInv, Grows, IsSplit
<1> QED
  BY <1>1, <1>2, <1>3, StatusIsWritten

(* A step that moves leaves does not change the tree.                      *)
LEMMA MovesKeepTree ==
  ASSUME Moves, NEW p \in Nodes
  PROVE  (IsSplit(p)' <=> IsSplit(p)) /\ Children(p)' = Children(p)
BY DEF Moves, IsSplit, Children

(* The steps that write a key.                                             *)
LEMMA KeySteps ==
  ASSUME TypeOK, PlanInv, Next
  PROVE  \/ /\ UNCHANGED <<pending, override, nodekey, plankey, bound>>
            /\ \A p \in Nodes : status'[p] = "none" <=> status[p] = "none"
         \/ DraftSplit \/ InsertSplit \/ BindKeys \/ SubmitSplit \/ \E j \in Swaps : CollectPrimary(j)
<1>1. CASE PrepareSplit \/ MarkSubmitting \/ SaveSubmitted \/ CompleteSplit
  BY <1>1 DEF PrepareSplit, MarkSubmitting, SaveSubmitted, CompleteSplit, SetStatus, Finalizing, PlanInv,
     TypeOK, keys, spark
<1>2. CASE ~(PrepareSplit \/ MarkSubmitting \/ SaveSubmitted \/ CompleteSplit)
  BY <1>2 DEF Next, HandlerStep, SplitStep, split, keys, spark, BeginPayout, BeginSwap, Abort, Crash, Recover,
     PlanDone, Refuse, UseStoredSplit, ProgressLimit, ActivateChildren, Pay, PayCounter, FillSwap,
     StoreRequest, DropRequest, ClaimTimeout, TweakPrimary, MarkSucceeded, ExpirePrimary, SendPrimary
<1> QED
  BY <1>1, <1>2

LEMMA KeyInvStep ==
  ASSUME IndInv, Next, Moves \/ \E p, c, d \in Nodes : SplitInto(p, c, d)
  PROVE  KeyInv'
<1> USE DEF IndInv
<1>1. CASE /\ UNCHANGED <<pending, override, nodekey, plankey, bound>>
           /\ \A p \in Nodes : status'[p] = "none" <=> status[p] = "none"
           /\ Moves
  BY <1>1, MovesKeepTree DEF KeyInv
<1>2. CASE DraftSplit
  <2>1. PICK s \in BestSplits : status[s.parent] = "none"
          /\ pending' = [pending EXCEPT ![s.parent] = IF @ = 0 THEN minted + 1 ELSE @]
    BY <1>2 DEF DraftSplit
  <2>2. UNCHANGED <<at, kids, nodekey, override, status, plankey, bound>>
    BY <1>2 DEF DraftSplit, spark, split
  <2>3. \A p \in Nodes : status[p] # "none" => pending'[p] = pending[p]
    BY <2>1 DEF TypeOK
  <2> QED BY <2>2, <2>3 DEF KeyInv, IsSplit, Children
<1>3. CASE InsertSplit
  <2>1. /\ ctl.op \in Nodes /\ status[ctl.op] = "none" /\ pending[ctl.op] # 0
        /\ status' = [status EXCEPT ![ctl.op] = "DRAFT"]
        /\ plankey' = [plankey EXCEPT ![ctl.op] = pending[ctl.op]]
        /\ UNCHANGED <<at, kids, nodekey, bound, pending, override>>
    BY <1>3 DEF InsertSplit, PlanInv, spark, keys
  <2>2. ~IsSplit(ctl.op)
    BY <2>1 DEF SplitInv
  <2>3. \A p \in Nodes : IsSplit(p)' = IsSplit(p) /\ Children(p)' = Children(p)
    BY <2>1 DEF IsSplit, Children
  <2> QED BY <2>1, <2>2, <2>3 DEF KeyInv, TypeOK
<1>4. CASE BindKeys
  <2>1. /\ ctl.op \in Nodes /\ status[ctl.op] = "SUBMITTED" /\ ctl.op \notin bound
        /\ override' = [n \in Nodes |-> IF n \in Children(ctl.op) THEN pending[ctl.op] ELSE override[n]]
        /\ pending' = [pending EXCEPT ![ctl.op] = 0]
        /\ bound' = bound \cup {ctl.op}
        /\ UNCHANGED <<at, kids, nodekey, status, plankey>>
    BY <1>4 DEF BindKeys, Finalizing, PlanInv, spark
  <2>2. /\ IsSplit(ctl.op)
        /\ \A n \in Children(ctl.op) : n \in Nodes /\ nodekey[n] = plankey[ctl.op]
        /\ pending[ctl.op] = plankey[ctl.op]
    BY <2>1 DEF SplitInv, KeyInv, TreeInv, Children
  <2>3. \A p \in Nodes : IsSplit(p)' = IsSplit(p) /\ Children(p)' = Children(p)
    BY <2>1 DEF IsSplit, Children
  <2>4. \A p \in Nodes \ {ctl.op} : IsSplit(p) =>
          \A n \in Children(p) : n \in Nodes /\ n \notin Children(ctl.op)
    <3>1. \A p \in Nodes : IsSplit(p) => Children(p) \subseteq Nodes
      BY DEF TreeInv, Children
    <3>2. \A p \in Nodes \ {ctl.op} : IsSplit(p) => Children(p) \cap Children(ctl.op) = {}
      BY <2>1, <2>2 DEF TreeInv
    <3> QED BY <3>1, <3>2
  <2>5. \A p \in Nodes : status'[p] # "none" /\ p \notin bound' => pending'[p] = plankey'[p] /\ pending'[p] # 0
    BY <2>1 DEF KeyInv, TypeOK
  <2>6. \A p \in Nodes : IsSplit(p) =>
          \A n \in Children(p) : IF p \in bound' THEN override'[n] = nodekey[n] ELSE nodekey[n] = plankey[p]
    <3>1. TAKE p \in Nodes
    <3>2. CASE p = ctl.op
      BY <3>2, <2>1, <2>2
    <3>3. CASE p # ctl.op
      BY <3>3, <2>1, <2>4 DEF KeyInv
    <3> QED BY <3>2, <3>3
  <2>7. \A n \in Nodes : (\A p \in Nodes : IsSplit(p) => n \notin Children(p)) =>
          nodekey[n] = 0 /\ override'[n] = 0
    BY <2>1, <2>2 DEF KeyInv
  <2> QED BY <2>1, <2>3, <2>5, <2>6, <2>7 DEF KeyInv
<1>5. ASSUME NEW j \in Swaps, CollectPrimary(j), Moves PROVE KeyInv'
  <2> DEFINE n == primary[j]
  <2>1. n \in Nodes /\ \A p \in Nodes : IsSplit(p) /\ n \in Children(p) => p \in bound
    BY <1>5 DEF CollectPrimary, SwapInv
  <2>2. /\ nodekey' = [nodekey EXCEPT ![n] = 0] /\ override' = [override EXCEPT ![n] = 0]
        /\ UNCHANGED <<status, bound, plankey, pending>>
    BY <1>5 DEF CollectPrimary, split
  <2> HIDE DEF n
  <2>3. \A p \in Nodes : (IsSplit(p)' <=> IsSplit(p)) /\ Children(p)' = Children(p)
    BY <1>5, MovesKeepTree
  <2>4. \A p \in Nodes : IsSplit(p) => Children(p) \subseteq Nodes
    BY DEF TreeInv, Children
  <2> QED BY <2>1, <2>2, <2>3, <2>4 DEF KeyInv, TypeOK
<1>6. CASE \E p, c, d \in Nodes : SplitInto(p, c, d)
  <2>1. PICK p, c, d \in Nodes : SplitInto(p, c, d)
    BY <1>6
  <2>2. Grows(p, c, d) /\ p \notin bound
    BY <2>1, SplitGrows DEF SplitInto, PlanInv, SplitInv
  <2>3. /\ nodekey' = [nodekey EXCEPT ![c] = plankey[p], ![d] = plankey[p]]
        /\ UNCHANGED <<status, bound, plankey, pending, override>>
    BY <2>1 DEF SplitInto, split, keys
  <2>4. \A q \in Nodes \ {p} : (IsSplit(q)' <=> IsSplit(q)) /\ Children(q)' = Children(q)
    BY <2>2 DEF Grows, IsSplit, Children
  <2>5. \A q \in Nodes : IsSplit(q) => c \notin Children(q) /\ d \notin Children(q) /\ Children(q) \subseteq Nodes
    BY <2>2 DEF TreeInv, Grows, Children
  <2>6. Children(p)' = {c, d} /\ IsSplit(p)' /\ ~IsSplit(p)
    BY <2>2 DEF Grows, IsSplit, Children
  <2>7. nodekey'[c] = plankey[p] /\ nodekey'[d] = plankey[p] /\ \A n \in Nodes \ {c, d} : nodekey'[n] = nodekey[n]
    BY <2>2, <2>3 DEF TypeOK
  <2>8. \A q \in Nodes : IsSplit(q)' =>
          \A n \in Children(q)' : IF q \in bound THEN override[n] = nodekey'[n] ELSE nodekey'[n] = plankey[q]
    <3>1. TAKE q \in Nodes
    <3>2. CASE q = p
      BY <3>2, <2>2, <2>6, <2>7
    <3>3. CASE q # p
      BY <3>3, <2>4, <2>5, <2>7 DEF KeyInv
    <3> QED BY <3>2, <3>3
  <2>9. \A n \in Nodes : (\A q \in Nodes : IsSplit(q)' => n \notin Children(q)') =>
          nodekey'[n] = 0 /\ override[n] = 0
    <3>1. SUFFICES ASSUME NEW n \in Nodes, \A q \in Nodes : IsSplit(q)' => n \notin Children(q)'
                   PROVE  nodekey'[n] = 0 /\ override[n] = 0
      OBVIOUS
    <3>2. n \notin {c, d} /\ \A q \in Nodes : IsSplit(q) => n \notin Children(q)
      BY <3>1, <2>4, <2>6
    <3> QED BY <3>2, <2>7 DEF KeyInv
  <2> QED BY <2>3, <2>8, <2>9 DEF KeyInv
<1>7. CASE SubmitSplit /\ Moves
  <2>1. SplitAgain
    BY <1>7, SubmitIsSplit, SplitGrows DEF PlanInv, SubmitSplit, Moves, Grows
  <2> QED BY <1>1, <1>7, <2>1 DEF SplitAgain, spark, split, keys
<1> QED
  BY <1>1, <1>2, <1>3, <1>4, <1>5, <1>6, <1>7, KeySteps

(* The steps that write a swap's transfer.                                 *)
LEMMA SwapSteps ==
  ASSUME Next
  PROVE  \/ UNCHANGED <<primary, pstate>>
         \/ PayCounter
         \/ \E j \in Swaps : TweakPrimary(j) \/ CollectPrimary(j) \/ ExpirePrimary(j)
                              \/ \E n \in Nodes : SendPrimary(j, n)
BY DEF Next, HandlerStep, SplitStep, swap, BeginPayout, BeginSwap, Abort, Crash, Recover, PlanDone,
   Refuse, UseStoredSplit, DraftSplit, InsertSplit, ProgressLimit, PrepareSplit, MarkSubmitting, SubmitSplit,
   SaveSubmitted, ActivateChildren, BindKeys, CompleteSplit, Pay, FillSwap, StoreRequest, DropRequest,
   ClaimTimeout, MarkSucceeded

(* Only the steps of a swap move its primary.                              *)
LEMMA PrimaryStays ==
  ASSUME TypeOK, PlanInv, Next, UNCHANGED <<primary, pstate>>, NEW n \in Nodes, at[n] = "primary"
  PROVE  at'[n] = "primary"
<1>1. CASE SubmitSplit
  <2>1. SplitAgain \/ \E p, c, d \in Nodes : SplitInto(p, c, d)
    BY <1>1, SubmitIsSplit DEF PlanInv, SubmitSplit
  <2> QED BY <2>1, SplitGrows DEF SplitAgain, Grows, spark
<1>2. CASE ActivateChildren
  BY <1>2 DEF ActivateChildren
<1>3. CASE Pay
  BY <1>3, PaidIsAvailable DEF Pay, Available
<1>4. CASE UNCHANGED at
  BY <1>4
<1>5. ~PayCounter
  BY DEF PayCounter, PlanInv, TypeOK, Swaps
<1>6. ASSUME NEW j \in Swaps, CollectPrimary(j) \/ ExpirePrimary(j) \/ \E m \in Nodes : SendPrimary(j, m)
      PROVE FALSE
  BY <1>6 DEF CollectPrimary, ExpirePrimary, SendPrimary, TypeOK
<1> QED
  BY <1>1, <1>2, <1>3, <1>4, <1>5, <1>6 DEF Next, HandlerStep, SplitStep, spark, BeginPayout, BeginSwap, Abort,
     Crash, Recover, PlanDone, Refuse, UseStoredSplit, DraftSplit, InsertSplit, ProgressLimit, PrepareSplit,
     MarkSubmitting, SaveSubmitted, BindKeys, CompleteSplit, FillSwap, StoreRequest, DropRequest,
     ClaimTimeout, TweakPrimary, MarkSucceeded

LEMMA SwapInvStep ==
  ASSUME IndInv, Next, Moves \/ \E p, c, d \in Nodes : SplitInto(p, c, d)
  PROVE  SwapInv'
<1> USE DEF IndInv
<1> DEFINE Open(j) == pstate[j] \in {"sent", "tweaked", "claiming"}
<1>1. bound \subseteq bound'
  BY StatusIsWritten DEF Writes
<1>2. CASE UNCHANGED <<primary, pstate>>
  <2>1. \A j \in Swaps : Open(j) => primary[j] \in Nodes /\ at'[primary[j]] = "primary"
    BY <1>2, PrimaryStays DEF SwapInv
  <2>2. ASSUME NEW j \in Swaps, pstate[j] \in {"tweaked", "claiming"},
               NEW p \in Nodes, IsSplit(p)', primary[j] \in Children(p)'
        PROVE  p \in bound'
    <3>1. CASE Moves
      BY <1>1, <2>2, <3>1, MovesKeepTree DEF SwapInv
    <3>2. CASE \E q, c, d \in Nodes : SplitInto(q, c, d)
      <4>1. PICK q, c, d \in Nodes : SplitInto(q, c, d)
        BY <3>2
      <4>2. Grows(q, c, d)
        BY <4>1, SplitGrows
      <4>3. p # q
        BY <2>2, <4>2 DEF Grows, SwapInv, Children
      <4>4. IsSplit(p) /\ Children(p)' = Children(p)
        BY <2>2, <4>2, <4>3 DEF Grows, IsSplit, Children
      <4> QED BY <1>1, <2>2, <4>4 DEF SwapInv
    <3> QED BY <3>1, <3>2
  <2> QED BY <1>2, <2>1, <2>2 DEF SwapInv
<1>3. ASSUME Moves, ~UNCHANGED <<primary, pstate>>
      PROVE  SwapInv'
  <2>1. \A p \in Nodes : (IsSplit(p)' <=> IsSplit(p)) /\ Children(p)' = Children(p)
    BY <1>3, MovesKeepTree
  <2>2. CASE PayCounter
    <3> DEFINE j == ctl.job
    <3>1. /\ j \in Swaps /\ pstate[j] = "sent" /\ pstate' = [pstate EXCEPT ![j] = "tweaked"]
          /\ UNCHANGED primary
      BY <2>2 DEF PayCounter, PlanInv, Swaps
    <3>2. PICK S \in Selectable : at' = [n \in Nodes |-> IF n \in S THEN "user" ELSE at[n]]
      BY <2>2 DEF PayCounter
    <3>3. \A n \in Nodes : at[n] = "primary" => at'[n] = "primary"
      BY <3>2, PaidIsAvailable DEF Available
    <3>4. \A p \in Nodes : Settled(p)
      BY <2>2 DEF PayCounter, PlanInv
    <3>5. \A p \in Nodes : IsSplit(p) => p \in bound
      BY <3>4 DEF SplitInv, Settled
    <3> HIDE DEF j
    <3> QED BY <1>1, <2>1, <3>1, <3>3, <3>5 DEF SwapInv, TypeOK
  <2>3. ASSUME NEW j \in Swaps, TweakPrimary(j) PROVE SwapInv'
    <3>1. /\ pstate[j] = "tweaked" /\ pstate' = [pstate EXCEPT ![j] = "claiming"]
          /\ UNCHANGED <<primary, at>>
      BY <2>3 DEF TweakPrimary, spark
    <3> QED BY <1>1, <2>1, <3>1 DEF SwapInv, TypeOK
  <2>4. ASSUME NEW j \in Swaps, CollectPrimary(j) \/ ExpirePrimary(j) PROVE SwapInv'
    <3>1. PICK s \in {"completed", "expired"}, h \in {"ssp", "user"} :
            /\ pstate' = [pstate EXCEPT ![j] = s] /\ at' = [at EXCEPT ![primary[j]] = h]
            /\ UNCHANGED primary
      BY <2>4 DEF CollectPrimary, ExpirePrimary
    <3>2. Open(j)
      BY <2>4 DEF CollectPrimary, ExpirePrimary
    <3>3. \A k \in Swaps \ {j} : Open(k) => primary[k] # primary[j]
      BY <3>2 DEF SwapInv
    <3>4. \A k \in Swaps : pstate'[k] \in {"sent", "tweaked", "claiming"} => k # j /\ pstate'[k] = pstate[k]
      BY <3>1 DEF TypeOK
    <3>5. primary[j] \in Nodes
      BY <3>2 DEF SwapInv
    <3>6. \A k \in Swaps \ {j} : Open(k) => at'[primary[k]] = "primary"
      BY <3>1, <3>3, <3>5 DEF SwapInv, TypeOK
    <3> QED BY <1>1, <2>1, <3>1, <3>4, <3>6 DEF SwapInv
  <2>5. ASSUME NEW j \in Swaps, NEW n \in Nodes, SendPrimary(j, n) PROVE SwapInv'
    <3>1. /\ at[n] = "user" /\ primary' = [primary EXCEPT ![j] = n]
          /\ pstate[j] = "none" /\ pstate' = [pstate EXCEPT ![j] = "sent"] /\ at' = [at EXCEPT ![n] = "primary"]
      BY <2>5 DEF SendPrimary
    <3>2. \A k \in Swaps : Open(k) => k # j /\ primary[k] # n
      BY <3>1 DEF SwapInv
    <3> QED BY <1>1, <2>1, <3>1, <3>2 DEF SwapInv, TypeOK
  <2> QED BY <1>3, <2>2, <2>3, <2>4, <2>5, SwapSteps
<1>4. ASSUME NEW p \in Nodes, NEW c \in Nodes, NEW d \in Nodes, SplitInto(p, c, d)
      PROVE  UNCHANGED <<primary, pstate>>
  BY <1>4 DEF SplitInto, swap
<1> QED
  BY <1>2, <1>3, <1>4

LEMMA TypeStep ==
  ASSUME TypeOK, SwapInv, PlanInv, Next
  PROVE  TypeOK'
<1> USE DEF TypeOK, Pair, NoChildren, Startup, Idle, spark, split, keys, jobs, swap
<1>1. ASSUME NEW j \in Jobs, BeginPayout(j) PROVE TypeOK'
  BY <1>1 DEF BeginPayout
<1>2. ASSUME NEW j \in Jobs, BeginSwap(j) PROVE TypeOK'
  BY <1>2 DEF BeginSwap
<1>3. CASE Abort
  BY <1>3 DEF Abort
<1>4. CASE Crash
  BY <1>4 DEF Crash
<1>5. CASE Recover
  <2>1. CASE \E p \in Resumable : Resume(p, "recover")
    BY <1>5, <2>1 DEF Recover, Resume, Resumable
  <2>2. CASE Goto(IF ctl.job = NULL THEN "idle" ELSE "plan")
    BY <1>5, <2>2 DEF Recover, Goto
  <2> QED BY <1>5, <2>1, <2>2 DEF Recover
<1>6. CASE PlanDone
  BY <1>6 DEF PlanDone, Goto
<1>7. CASE Refuse
  BY <1>7 DEF Refuse
<1>8. CASE UseStoredSplit
  <2>1. PICK s \in BestSplits : Resume(s.parent, "plan") \/ ctl' = Idle
    BY <1>8 DEF UseStoredSplit
  <2>2. s.parent \in Nodes
    BY <1>8, PlanIsForALeaf DEF UseStoredSplit, CanPlan, PlanInv, Available
  <2>3. CASE Resume(s.parent, "plan")
    BY <1>8, <2>2, <2>3 DEF UseStoredSplit, Resume
  <2>4. CASE ctl' = Idle
    BY <1>8, <2>4 DEF UseStoredSplit
  <2> QED BY <2>1, <2>3, <2>4
<1>9. CASE DraftSplit
  <2>1. PICK s \in BestSplits :
          /\ pending' = [pending EXCEPT ![s.parent] = IF @ = 0 THEN minted + 1 ELSE @]
          /\ minted' = IF pending[s.parent] = 0 THEN minted + 1 ELSE minted
          /\ ctl' = [ctl EXCEPT !.pc = "insert", !.op = s.parent, !.vals = <<s.needed, s.change>>]
    BY <1>9 DEF DraftSplit
  <2>2. s.parent \in Nodes /\ <<s.needed, s.change>> \in Nat \X Nat
    BY <1>9, PlanIsForALeaf DEF DraftSplit, CanPlan, PlanInv, Available
  <2>3. pending' \in [Nodes -> Nat] /\ minted' \in Nat
    BY <2>1, <2>2
  <2> QED BY <1>9, <2>1, <2>2, <2>3 DEF DraftSplit
<1>10. CASE InsertSplit
  BY <1>10 DEF InsertSplit, Resume, PlanInv, Statuses
<1>11. CASE ProgressLimit
  BY <1>11 DEF ProgressLimit
<1>12. CASE PrepareSplit
  BY <1>12 DEF PrepareSplit, SetStatus, Statuses
<1>13. CASE MarkSubmitting
  BY <1>13 DEF MarkSubmitting, SetStatus, Statuses, Goto
<1>14. CASE SubmitSplit
  <2>1. SplitAgain \/ \E p, c, d \in Nodes : SplitInto(p, c, d)
    BY <1>14, SubmitIsSplit DEF PlanInv, SubmitSplit
  <2>2. CASE SplitAgain
    BY <2>2 DEF SplitAgain
  <2>3. ASSUME NEW p \in Nodes, NEW c \in Nodes, NEW d \in Nodes, SplitInto(p, c, d) PROVE TypeOK'
    <3>1. /\ at' \in [Nodes -> Holders] /\ value' \in [Nodes -> Nat] /\ nodekey' \in [Nodes -> Nat]
      BY <2>3 DEF SplitInto, Holders
    <3>2. kids' \in [Nodes -> Nat \X Nat]
      BY <2>3, LeafLiquidityAssumption DEF SplitInto
    <3> QED BY <2>3, <3>1, <3>2 DEF SplitInto
  <2> QED BY <2>1, <2>2, <2>3
<1>15. CASE SaveSubmitted
  BY <1>15 DEF SaveSubmitted, SetStatus, Statuses, Goto
<1>16. CASE ActivateChildren
  BY <1>16 DEF ActivateChildren, Holders
<1>17. CASE BindKeys
  BY <1>17 DEF BindKeys, Finalizing, PlanInv
<1>18. CASE CompleteSplit
  <2>1. status' \in [Nodes -> Statuses]
    BY <1>18 DEF CompleteSplit, SetStatus, Statuses
  <2>2. ctl.round \in Nat /\ ctl.round + 1 \in Nat
    OBVIOUS
  <2>3. \E r \in Nat : ctl' = [ctl EXCEPT !.pc = ctl.back, !.op = NULL, !.vals = NoChildren, !.round = r]
    BY <1>18, <2>2 DEF CompleteSplit
  <2> QED BY <1>18, <2>1, <2>3 DEF CompleteSplit
<1>19. CASE Pay
  <2>1. PICK S \in Selectable : /\ sent' = [sent EXCEPT ![ctl.job] = S]
                                /\ at' = [n \in Nodes |-> IF n \in S THEN "user" ELSE at[n]]
    BY <1>19 DEF Pay
  <2>2. S \subseteq Nodes
    BY PaidIsAvailable DEF Available
  <2> QED BY <1>19, <2>1, <2>2 DEF Pay, Holders
<1>20. CASE PayCounter
  <2>1. PICK S \in Selectable : /\ sent' = [sent EXCEPT ![ctl.job] = S]
                                /\ at' = [n \in Nodes |-> IF n \in S THEN "user" ELSE at[n]]
    BY <1>20 DEF PayCounter
  <2>2. S \subseteq Nodes
    BY PaidIsAvailable DEF Available
  <2> QED BY <1>20, <2>1, <2>2 DEF PayCounter, Holders, Goto
<1>21. CASE FillSwap
  <2>1. ctl.job \in Swaps
    BY <1>21 DEF FillSwap, PlanInv, Swaps
  <2> QED BY <1>21, <2>1 DEF FillSwap
<1>22. ASSUME NEW j \in Swaps,
              StoreRequest(j) \/ DropRequest(j) \/ ClaimTimeout(j) \/ TweakPrimary(j) \/ MarkSucceeded(j)
       PROVE  TypeOK'
  BY <1>22 DEF StoreRequest, DropRequest, ClaimTimeout, TweakPrimary, MarkSucceeded
<1>23. ASSUME NEW j \in Swaps, CollectPrimary(j) \/ ExpirePrimary(j) PROVE TypeOK'
  <2>1. primary[j] \in Nodes
    BY <1>23 DEF CollectPrimary, ExpirePrimary, SwapInv
  <2>2. CASE CollectPrimary(j)
    BY <2>1, <2>2 DEF CollectPrimary, Holders
  <2>3. CASE ExpirePrimary(j)
    BY <2>1, <2>3 DEF ExpirePrimary, Holders
  <2> QED BY <1>23, <2>2, <2>3
<1>24. ASSUME NEW j \in Swaps, NEW n \in Nodes, SendPrimary(j, n) PROVE TypeOK'
  BY <1>24 DEF SendPrimary, Holders
<1> QED
  BY <1>1, <1>2, <1>3, <1>4, <1>5, <1>6, <1>7, <1>8, <1>9, <1>10, <1>11, <1>12, <1>13, <1>14, <1>15, <1>16,
     <1>17, <1>18, <1>19, <1>20, <1>21, <1>22, <1>23, <1>24 DEF Next, HandlerStep, SplitStep

(* A step that leaves the handler and the split table alone.               *)
LEMMA PlanInvStays ==
  ASSUME TypeOK, PlanInv, UNCHANGED <<ctl, status, pending>>, Moves
  PROVE  PlanInv'
BY DEF PlanInv, Settled, Moves, IsSplit

LEMMA PlanInvStep ==
  ASSUME IndInv, Next, Moves \/ \E p, c, d \in Nodes : SplitInto(p, c, d)
  PROVE  PlanInv'
<1> USE DEF IndInv
<1>0. NULL \notin Jobs /\ NULL \notin Nodes
  BY LeafLiquidityAssumption
<1>1. ASSUME NEW j \in Jobs, BeginPayout(j) PROVE PlanInv'
  BY <1>0, <1>1 DEF BeginPayout, PlanInv, Startup, split, keys
<1>2. ASSUME NEW j \in Jobs, BeginSwap(j) PROVE PlanInv'
  BY <1>0, <1>2 DEF BeginSwap, PlanInv, Startup, split, keys, Swaps
<1>3. CASE Abort \/ Crash \/ Refuse \/ ProgressLimit \/ Pay \/ FillSwap
  <2>1. ctl' = Startup \/ ctl' = Idle
    BY <1>3 DEF Abort, Crash, Refuse, ProgressLimit, Pay, FillSwap
  <2> QED BY <1>0, <2>1 DEF PlanInv, Startup, Idle
<1>4. CASE Recover
  <2>1. CASE \E p \in Resumable : Resume(p, "recover")
    <3>1. PICK p \in Nodes : status[p] # "none" /\ Resume(p, "recover")
      BY <2>1 DEF Resumable
    <3>2. /\ ctl'.pc = "resume" /\ ctl'.op = p /\ ctl'.back = "recover" /\ ctl'.job = ctl.job
          /\ UNCHANGED <<status, pending>> /\ ctl.pc = "recover"
      BY <1>4, <3>1 DEF Recover, Resume, TypeOK, split, keys
    <3> QED BY <3>1, <3>2 DEF PlanInv
  <2>2. CASE Resumable = {} /\ Goto(IF ctl.job = NULL THEN "idle" ELSE "plan")
    <3>1. \A p \in Nodes : Settled(p)
      BY <2>2 DEF Resumable, Settled, TypeOK, Statuses
    <3> QED BY <1>4, <2>2, <3>1 DEF Recover, Goto, PlanInv, TypeOK, split, keys, Settled
  <2> QED BY <1>4, <2>1, <2>2 DEF Recover
<1>5. CASE PlanDone
  BY <1>5 DEF PlanDone, CanPlan, Goto, PlanInv, TypeOK, split, keys, Settled
<1>6. CASE UseStoredSplit
  <2>1. PICK s \in BestSplits : status[s.parent] # "none" /\ (Resume(s.parent, "plan") \/ ctl' = Idle)
    BY <1>6 DEF UseStoredSplit
  <2>2. s.parent \in Nodes
    BY <1>6, PlanIsForALeaf DEF UseStoredSplit, CanPlan, PlanInv, Available
  <2>3. CASE Resume(s.parent, "plan")
    BY <1>6, <2>1, <2>2, <2>3 DEF UseStoredSplit, CanPlan, Resume, PlanInv, TypeOK, split, keys, Settled
  <2>4. CASE ctl' = Idle
    BY <1>0, <2>4 DEF PlanInv, Startup, Idle
  <2> QED BY <2>1, <2>3, <2>4
<1>7. CASE DraftSplit
  <2>1. PICK s \in BestSplits :
          /\ status[s.parent] = "none"
          /\ pending' = [pending EXCEPT ![s.parent] = IF @ = 0 THEN minted + 1 ELSE @]
          /\ ctl' = [ctl EXCEPT !.pc = "insert", !.op = s.parent, !.vals = <<s.needed, s.change>>]
    BY <1>7 DEF DraftSplit
  <2>2. s.parent \in Nodes
    BY <1>7, PlanIsForALeaf DEF DraftSplit, CanPlan, PlanInv, Available
  <2>3. pending'[s.parent] # 0
    BY <2>1, <2>2 DEF TypeOK
  <2> QED BY <1>7, <2>1, <2>2, <2>3 DEF DraftSplit, CanPlan, PlanInv, TypeOK, split, Settled
<1>8. CASE InsertSplit
  BY <1>8 DEF InsertSplit, Resume, PlanInv, TypeOK, Settled
<1>9. CASE PrepareSplit
  BY <1>9 DEF PrepareSplit, SetStatus, PlanInv, TypeOK, Settled, keys
<1>10. CASE MarkSubmitting
  BY <1>10 DEF MarkSubmitting, SetStatus, Goto, PlanInv, TypeOK, Settled, keys
<1>11. CASE SubmitSplit
  <2>1. SplitAgain \/ \E p, c, d \in Nodes : SplitInto(p, c, d)
    BY <1>11, SubmitIsSplit DEF PlanInv, SubmitSplit
  <2>2. at'[ctl.op] = "split"
    BY <2>1, SplitGrows DEF SplitAgain, SplitInto, Grows, spark
  <2>3. /\ ctl.pc = "submit" /\ ctl' = [ctl EXCEPT !.pc = "saveSubmitted"]
        /\ UNCHANGED <<status, pending>>
    BY <1>11 DEF SubmitSplit, Goto, split, keys
  <2>4. ctl'.op = ctl.op
    BY <2>3
  <2> QED BY <2>2, <2>3, <2>4 DEF PlanInv, TypeOK, Settled, IsSplit
<1>12. CASE SaveSubmitted
  BY <1>12 DEF SaveSubmitted, SetStatus, Goto, PlanInv, TypeOK, Settled, keys
<1>13. CASE ActivateChildren
  <2>1. Moves
    BY <1>13 DEF ActivateChildren, Moves, TypeOK
  <2> QED BY <1>13, <2>1, PlanInvStays DEF ActivateChildren, split, keys
<1>14. CASE BindKeys
  BY <1>14 DEF BindKeys, Finalizing, PlanInv, Settled
<1>15. CASE CompleteSplit
  <2>1. /\ ctl.op \in Nodes /\ status' = [status EXCEPT ![ctl.op] = "COMPLETED"]
        /\ ctl'.pc = ctl.back /\ ctl'.job = ctl.job /\ ctl.pc = "resume"
    BY <1>15 DEF CompleteSplit, Finalizing, SetStatus, PlanInv, TypeOK
  <2>2. CASE ctl.back = "recover"
    BY <2>1, <2>2 DEF PlanInv, TypeOK
  <2>3. CASE ctl.back = "plan"
    <3>1. \A p \in Nodes : Settled(p)'
      BY <2>1, <2>3 DEF PlanInv, Settled, TypeOK
    <3> QED BY <2>1, <2>3, <3>1 DEF PlanInv
  <2> QED BY <2>2, <2>3 DEF TypeOK
<1>16. CASE PayCounter
  <2>1. /\ ctl'.pc = "counter" /\ ctl'.job = ctl.job /\ ctl.job \in Swaps /\ ctl.job \in Jobs
    BY <1>16 DEF PayCounter, Goto, PlanInv, TypeOK, Swaps
  <2> QED BY <2>1 DEF PlanInv
<1>17. ASSUME NEW j \in Swaps,
              \/ StoreRequest(j) \/ DropRequest(j) \/ ClaimTimeout(j) \/ TweakPrimary(j) \/ CollectPrimary(j)
              \/ MarkSucceeded(j) \/ ExpirePrimary(j) \/ \E n \in Nodes : SendPrimary(j, n)
       PROVE  PlanInv'
  <2>1. UNCHANGED <<ctl, status, pending>>
    BY <1>17 DEF StoreRequest, DropRequest, ClaimTimeout, TweakPrimary, CollectPrimary, MarkSucceeded,
       ExpirePrimary, SendPrimary, split, keys
  <2>2. Moves
    <3>1. ~\E p, c, d \in Nodes : SplitInto(p, c, d)
      BY <2>1 DEF SplitInto, TypeOK
    <3> QED BY <3>1
  <2> QED BY <2>1, <2>2, PlanInvStays
<1> QED
  BY <1>1, <1>2, <1>3, <1>4, <1>5, <1>6, <1>7, <1>8, <1>9, <1>10, <1>11, <1>12, <1>13, <1>14, <1>15, <1>16, <1>17
     DEF Next, HandlerStep, SplitStep

LEMMA StartsInvariant == Init => IndInv
<1> SUFFICES ASSUME Init PROVE IndInv
  OBVIOUS
<1> USE LeafLiquidityAssumption DEF Init
<1>1. TypeOK
  BY DEF TypeOK, Startup, NoChildren, Pair, Holders, Statuses
<1>2. \A n \in Nodes : at[n] \notin {"split", "signing"}
  OBVIOUS
<1>3. TreeInv /\ SplitInv
  BY <1>2 DEF TreeInv, SplitInv, IsSplit
<1>4. KeyInv /\ SwapInv
  BY <1>2 DEF KeyInv, SwapInv, IsSplit
<1>5. PlanInv
  BY DEF PlanInv, Startup
<1> QED
  BY <1>1, <1>3, <1>4, <1>5 DEF IndInv

(* IndInv is inductive.                                                    *)
THEOREM Invariance == Spec => []IndInv
<1>1. Init => IndInv
  BY StartsInvariant
<1>2. IndInv /\ [Next]_vars => IndInv'
  <2> SUFFICES ASSUME IndInv, [Next]_vars PROVE IndInv'
    OBVIOUS
  <2>1. CASE Next
    <3>1. Moves \/ \E p, c, d \in Nodes : SplitInto(p, c, d)
      BY <2>1, OthersMove DEF IndInv, PlanInv
    <3> QED BY <2>1, <3>1, TypeStep, TreeStep, SplitInvStep, KeyInvStep, SwapInvStep, PlanInvStep DEF IndInv
  <2>2. CASE UNCHANGED vars
    BY <2>2 DEF vars, spark, split, keys, jobs, swap, IndInv, TypeOK, TreeInv, SplitInv, KeyInv, SwapInv,
       PlanInv, IsSplit, Children, Settled
  <2> QED BY <2>1, <2>2
<1> QED
  BY <1>1, <1>2, PTL DEF Spec

(* Leaves, splits, keys and swaps keep their types: the children that a    *)
(* split asks for have natural values (plan_just_in_time_split,            *)
(* plan_denomination_split).                                               *)
THEOREM TypeCorrect == Spec => []TypeOK
<1>1. IndInv => TypeOK
  BY DEF IndInv
<1> QED
  BY <1>1, Invariance, PTL

(* The database holds the key of every leaf that a split made and that the *)
(* SSP has or is about to have.                                            *)
THEOREM LeafKeysAreDurable == Spec => []LeafKeysDurable
<1>1. IndInv => LeafKeysDurable
  BY DEF IndInv, TreeInv, SplitInv, KeyInv, LeafKeysDurable
<1> QED
  BY <1>1, Invariance, PTL

(* A payout that recovers first sees every leaf of the SSP, under the key  *)
(* that the operators have for it.                                         *)
THEOREM PayoutsAreRecovered == Spec => []RecoveredBeforePayout
<1>1. IndInv => RecoveredBeforePayout
  <2> SUFFICES ASSUME IndInv, ctl.pc \in {"plan", "pay"}, Kind[ctl.job] # "refund"
               PROVE  /\ \A n \in Nodes : at[n] # "signing"
                      /\ \A n \in Available : nodekey[n] = override[n]
    BY DEF RecoveredBeforePayout
  <2>1. \A p \in Nodes : Settled(p)
    BY DEF IndInv, PlanInv
  <2>2. \A p \in Nodes : IsSplit(p) => p \in bound /\ \A n \in Children(p) : at[n] # "signing"
    BY <2>1 DEF IndInv, SplitInv, Settled
  <2>3. \A n \in Nodes : at[n] # "signing"
    BY <2>2 DEF IndInv, TreeInv
  <2>4. \A n \in Nodes : nodekey[n] = override[n]
    BY <2>2 DEF IndInv, KeyInv
  <2> QED BY <2>3, <2>4 DEF Available
<1> QED
  BY <1>1, Invariance, PTL
-----------------------------------------------------------------------------
(* One split is enough *)

Exact     == ctl.job \in Jobs /\ Kind[ctl.job] = "exact"
Target    == Amounts[ctl.job][1]
Splitting == ctl.pc \in {"resume", "submit", "saveSubmitted"}
First     == kids[ctl.op][1]

(* The handler of an exact payout that is in a split has the rest of the   *)
(* amount in whole leaves, and after it all of the amount.                 *)
CoverInv ==
  /\ ctl.pc = "recover" \/ (Splitting /\ ctl.back = "recover") => ctl.round = 0
  /\ Exact /\ ctl.pc = "insert" =>
       \E W \in SUBSET (Available \ {ctl.op}) : Total(W, value) + ctl.vals[1] = Target
  /\ Exact /\ Splitting /\ ctl.back = "plan" =>
       /\ \E W \in SUBSET (Available \ {ctl.op, First}) : Total(W, value) + vals[ctl.op][1] = Target
       /\ IsSplit(ctl.op) => value[First] = vals[ctl.op][1] /\ at[First] \in {"signing", "ssp"}
  /\ Exact /\ ctl.pc = "plan" /\ ctl.round > 0 =>
       \E W \in SUBSET Available : Total(W, value) = Target

(* Leaves that make the amount can be selected for it.                     *)
LEMMA CoverIsSelectable ==
  ASSUME TypeOK, Exact, NEW W \in SUBSET Available, Total(W, value) = Target
  PROVE  W \in Selectable
<1> DEFINE a == Amounts[ctl.job]
           f == [n \in W |-> 1]
<1>1. a \in Seq(Nat) /\ Len(a) = 1 /\ DOMAIN a = {1} /\ a[1] \in Nat
  BY LeafLiquidityAssumption DEF Exact, Swaps
<1> HIDE DEF a
<1>2. SumOf(a) = a[1]
  <2>1. SumFunctionOnSet(a, {} \cup {1}) = a[1] + SumFunctionOnSet(a, {})
    BY <1>1, SumAdd, FS_EmptySet
  <2> QED BY <1>1, <2>1, SumEmpty DEF SumOf
<1>3. Total(W, value) = a[1]
  BY DEF Target, a
<1>4. f \in [W -> DOMAIN a] /\ {n \in W : f[n] = 1} = W
  BY <1>1
<1>5. \A i \in DOMAIN a : Total({n \in W : f[n] = i}, value) = a[i]
  BY <1>1, <1>3, <1>4
<1> HIDE DEF f
<1>6. W \in Selections(Available, value, a)
  BY <1>2, <1>3, <1>4, <1>5 DEF Selections
<1> QED
  BY <1>6 DEF Selectable, a

(* A step that keeps the leaves of the SSP, and where the handler is.      *)
Keeps ==
  /\ \A n \in Nodes : at[n] = "ssp" => at'[n] = "ssp"
  /\ \A n \in Nodes : at[n] = "signing" => at'[n] \in {"signing", "ssp"}
  /\ UNCHANGED <<value, vals>>

LEMMA CoverStays ==
  ASSUME IndInv, CoverInv, Moves, Keeps, ctl' = ctl \/ (Splitting /\ Splitting'),
         ctl'.job = ctl.job, ctl'.op = ctl.op, ctl'.back = ctl.back, ctl'.round = ctl.round
  PROVE  CoverInv'
<1>1. Available \subseteq Available' /\ UNCHANGED value /\ UNCHANGED vals /\ UNCHANGED kids
  BY DEF Available, Keeps, Moves
<1>2. (Exact' <=> Exact) /\ Target' = Target /\ First' = First
  BY <1>1 DEF Exact, Target, First
<1>3. CASE Splitting /\ Splitting'
  <2>1. ctl'.back = "recover" => ctl'.round = 0
    BY <1>3 DEF CoverInv
  <2>2. ASSUME Exact, ctl.back = "plan"
        PROVE  /\ \E W \in SUBSET (Available' \ {ctl.op, First}) : Total(W, value) + vals[ctl.op][1] = Target
               /\ at'[ctl.op] = "split" => value[First] = vals[ctl.op][1] /\ at'[First] \in {"signing", "ssp"}
    <3>1. ctl.op \in Nodes
      BY <1>3 DEF IndInv, PlanInv, Splitting
    <3>2. IsSplit(ctl.op) => First \in Nodes
      BY <3>1 DEF IndInv, TreeInv, First
    <3>3. at'[ctl.op] = "split" => IsSplit(ctl.op)
      BY <3>1, MovesKeepTree DEF Moves, IsSplit
    <3> QED BY <1>1, <1>3, <2>2, <3>2, <3>3 DEF CoverInv, Keeps
  <2> QED BY <1>1, <1>2, <1>3, <2>1, <2>2 DEF CoverInv, Splitting, IsSplit
<1>4. CASE ctl' = ctl /\ ~Splitting
  BY <1>1, <1>2, <1>4 DEF CoverInv, Splitting
<1> QED
  BY <1>3, <1>4 DEF Splitting

(* The leaves that a handler of an exact payout plans a split around.      *)
LEMMA PlanCovers ==
  ASSUME TypeOK, Exact, NEW s \in BestSplits
  PROVE  \E W \in SUBSET (Available \ {s.parent}) : Total(W, value) + s.needed = Target
<1>1. /\ IsFiniteSet(Available)
      /\ \A n \in Available : value[n] \in Nat
  <2>1. IsFiniteSet(Nodes) /\ Available \subseteq Nodes
    BY LeafLiquidityAssumption DEF Available
  <2> QED BY <2>1, FS_Subset DEF TypeOK
<1>2. Target \in Nat
  BY LeafLiquidityAssumption DEF Exact, Target, Swaps
<1>3. s \in plan_just_in_time_split(Available, value, Target)
  BY DEF Exact, BestSplits, Target
<1> QED
  BY <1>1, <1>2, <1>3, ExactPlan

LEMMA CoverSplit ==
  ASSUME IndInv, CoverInv, NEW p \in Nodes, NEW c \in Nodes, NEW d \in Nodes, SplitInto(p, c, d)
  PROVE  CoverInv'
<1>1. Grows(p, c, d)
  BY SplitGrows DEF IndInv
<1>2. /\ p = ctl.op /\ Splitting /\ Splitting' /\ UNCHANGED vals
      /\ ctl'.job = ctl.job /\ ctl'.op = ctl.op /\ ctl'.back = ctl.back /\ ctl'.round = ctl.round
      /\ ctl'.pc = "saveSubmitted"
  BY DEF SplitInto, Splitting, IndInv, TypeOK, split
<1>3. value'[c] = vals[p][1] /\ \A n \in Nodes \ {c, d} : value'[n] = value[n]
  BY <1>1 DEF SplitInto, Grows, IndInv, TypeOK
<1>4. kids'[p][1] = c
  BY <1>1 DEF Grows
<1>5. ASSUME Exact, ctl.back = "plan"
      PROVE  \E W \in SUBSET (Available' \ {p, c}) : Total(W, value') + vals[p][1] = Target
  <2>1. PICK W \in SUBSET (Available \ {p}) : Total(W, value) + vals[p][1] = Target
    BY <1>2, <1>5 DEF CoverInv
  <2>2. \A n \in W : n \in Nodes /\ at[n] = "ssp" /\ n \notin {p, c, d}
    BY <1>1 DEF Available, Grows
  <2>3. W \in SUBSET (Available' \ {p, c})
    BY <1>1, <2>2 DEF Available, Grows
  <2>4. IsFiniteSet(W)
    <3>1. W \subseteq Nodes
      BY <2>2
    <3> QED BY <3>1, FS_Subset, LeafLiquidityAssumption
  <2>5. Total(W, value') = Total(W, value)
    BY <1>3, <2>2, <2>4, SumCongruent DEF Total
  <2> QED BY <2>1, <2>3, <2>5
<1>6. (Exact' <=> Exact) /\ Target' = Target /\ First' = c
  BY <1>2, <1>4 DEF Exact, Target, First
<1>7. value'[c] = vals[p][1] /\ at'[c] = "signing"
  BY <1>1, <1>3 DEF Grows
<1>8. ctl'.back = "recover" => ctl'.round = 0
  BY <1>2 DEF CoverInv
<1> QED
  BY <1>2, <1>5, <1>6, <1>7, <1>8 DEF CoverInv

LEMMA CoverStep ==
  ASSUME IndInv, CoverInv, Next
  PROVE  CoverInv'
<1> USE DEF IndInv
<1>0. Moves \/ \E p, c, d \in Nodes : SplitInto(p, c, d)
  BY OthersMove DEF PlanInv
<1>1. CASE \E p, c, d \in Nodes : SplitInto(p, c, d)
  BY <1>1, CoverSplit
<1>2. ASSUME ctl'.pc \in {"idle", "recover", "pay", "counter"}, ctl'.round = 0 \/ ctl'.pc # "recover"
      PROVE  CoverInv'
  BY <1>2 DEF CoverInv, Splitting
<1>3. ASSUME NEW j \in Jobs, BeginPayout(j) \/ BeginSwap(j) PROVE CoverInv'
  BY <1>2, <1>3 DEF BeginPayout, BeginSwap, Startup
<1>4. CASE Abort \/ Crash \/ Refuse \/ ProgressLimit \/ Pay \/ FillSwap
  <2>1. ctl' = Startup \/ ctl' = Idle
    BY <1>4 DEF Abort, Crash, Refuse, ProgressLimit, Pay, FillSwap
  <2> QED BY <1>2, <2>1 DEF Startup, Idle
<1>5. CASE PlanDone \/ PayCounter
  <2>1. ctl'.pc \in {"pay", "counter"}
    BY <1>5 DEF PlanDone, PayCounter, Goto, TypeOK
  <2> QED BY <1>2, <2>1
<1>6. CASE Recover
  <2>1. ctl.round = 0
    BY <1>6 DEF Recover, CoverInv
  <2>2. /\ ctl'.pc \in {"idle", "plan", "resume"} /\ ctl'.round = 0
        /\ ctl'.pc = "resume" => ctl'.back = "recover"
    BY <1>6, <2>1 DEF Recover, Resume, Goto, TypeOK
  <2> QED BY <2>2 DEF CoverInv, Splitting
<1>7. CASE UseStoredSplit
  <2>1. PICK s \in BestSplits :
          /\ status[s.parent] # "none"
          /\ \/ vals[s.parent] = <<s.needed, s.change>> /\ Resume(s.parent, "plan")
             \/ ctl' = Idle
    BY <1>7 DEF UseStoredSplit
  <2>2. CASE ctl' = Idle
    BY <1>2, <2>2 DEF Idle, Startup
  <2>3. CASE vals[s.parent] = <<s.needed, s.change>> /\ Resume(s.parent, "plan")
    <3>1. /\ ctl'.pc = "resume" /\ ctl'.op = s.parent /\ ctl'.back = "plan" /\ ctl'.job = ctl.job
          /\ UNCHANGED <<at, value, kids, vals>>
      BY <1>7, <2>3 DEF UseStoredSplit, Resume, TypeOK, spark, split
    <3>2. s.parent \in Nodes /\ ~IsSplit(s.parent)
      BY <1>7, PlanIsForALeaf DEF UseStoredSplit, CanPlan, PlanInv, Available, IsSplit
    <3>3. kids[s.parent] = <<0, 0>>
      BY <3>2 DEF TreeInv, NoChildren
    <3>4. 0 \notin Available
      BY LeafLiquidityAssumption DEF Available
    <3>5. (Exact' <=> Exact) /\ Target' = Target /\ First' = 0 /\ Available' = Available /\ value' = value
      BY <3>1, <3>3 DEF Exact, Target, First, Available
    <3>6. Exact => \E W \in SUBSET (Available \ {s.parent, 0}) : Total(W, value) + vals[s.parent][1] = Target
      BY <2>3, <3>4, PlanCovers
    <3> QED BY <3>1, <3>2, <3>5, <3>6 DEF CoverInv, Splitting, IsSplit
  <2> QED BY <2>1, <2>2, <2>3
<1>8. CASE DraftSplit
  <2>1. PICK s \in BestSplits :
          ctl' = [ctl EXCEPT !.pc = "insert", !.op = s.parent, !.vals = <<s.needed, s.change>>]
    BY <1>8 DEF DraftSplit
  <2>2. /\ ctl'.pc = "insert" /\ ctl'.op = s.parent /\ ctl'.job = ctl.job /\ ctl'.vals[1] = s.needed
        /\ UNCHANGED <<at, value>>
    BY <1>8, <2>1 DEF DraftSplit, TypeOK, spark
  <2>3. (Exact' <=> Exact) /\ Target' = Target /\ Available' = Available /\ value' = value
    BY <2>2 DEF Exact, Target, Available
  <2>4. Exact => \E W \in SUBSET (Available \ {s.parent}) : Total(W, value) + s.needed = Target
    BY PlanCovers
  <2> QED BY <2>2, <2>3, <2>4 DEF CoverInv, Splitting
<1>9. CASE InsertSplit
  <2>1. /\ ctl.pc = "insert" /\ ctl.op \in Nodes /\ status[ctl.op] = "none"
        /\ ctl'.pc = "resume" /\ ctl'.op = ctl.op /\ ctl'.back = "plan" /\ ctl'.job = ctl.job
        /\ vals'[ctl.op] = ctl.vals /\ UNCHANGED <<at, value, kids>>
    BY <1>9 DEF InsertSplit, Resume, PlanInv, TypeOK, spark
  <2>2. ~IsSplit(ctl.op) /\ kids[ctl.op] = <<0, 0>>
    BY <2>1 DEF SplitInv, TreeInv, NoChildren
  <2>3. 0 \notin Available
    BY LeafLiquidityAssumption DEF Available
  <2>4. (Exact' <=> Exact) /\ Target' = Target /\ First' = 0 /\ Available' = Available /\ value' = value
    BY <2>1, <2>2 DEF Exact, Target, First, Available
  <2>5. Exact => \E W \in SUBSET (Available \ {ctl.op, 0}) : Total(W, value) + ctl.vals[1] = Target
    BY <2>1, <2>3 DEF CoverInv
  <2> QED BY <2>1, <2>2, <2>4, <2>5 DEF CoverInv, Splitting, IsSplit
<1>10. CASE PrepareSplit \/ MarkSubmitting \/ SaveSubmitted \/ BindKeys \/ SplitAgain
  <2>1. /\ ctl.pc \in {"resume", "submit", "saveSubmitted"} /\ ctl'.pc \in {"resume", "submit", "saveSubmitted"}
        /\ ctl'.job = ctl.job /\ ctl'.op = ctl.op /\ ctl'.back = ctl.back /\ ctl'.round = ctl.round
        /\ UNCHANGED spark /\ UNCHANGED vals
    BY <1>10 DEF PrepareSplit, MarkSubmitting, SaveSubmitted, BindKeys, SplitAgain, Finalizing, Goto, TypeOK, split
  <2>2. Moves /\ Keeps
    BY <2>1 DEF Moves, Keeps, spark
  <2> QED BY <2>1, <2>2, CoverStays DEF Splitting
<1>11. CASE ActivateChildren
  <2>1. Keeps /\ ctl' = ctl /\ Moves
    BY <1>11 DEF ActivateChildren, Keeps, Moves, split, TypeOK
  <2> QED BY <2>1, CoverStays
<1>12. CASE CompleteSplit
  <2>1. /\ ctl.op \in Nodes /\ status[ctl.op] = "SUBMITTED" /\ \A n \in Children(ctl.op) : at[n] # "signing"
        /\ ctl.pc = "resume" /\ ctl'.pc = ctl.back /\ ctl'.job = ctl.job
        /\ ctl.back = "recover" => ctl'.round = ctl.round
        /\ UNCHANGED <<at, value, kids>>
    BY <1>12 DEF CompleteSplit, Finalizing, PlanInv, TypeOK, spark
  <2>2. CASE ctl.back = "recover"
    BY <1>2, <2>1, <2>2 DEF CoverInv, Splitting
  <2>3. CASE ctl.back = "plan"
    <3>1. (Exact' <=> Exact) /\ Target' = Target /\ Available' = Available /\ value' = value
      BY <2>1 DEF Exact, Target, Available
    <3>2. ASSUME Exact PROVE \E W \in SUBSET Available : Total(W, value) = Target
      <4>1. IsSplit(ctl.op)
        BY <2>1 DEF SplitInv
      <4>2. First \in Nodes /\ First \in Children(ctl.op)
        BY <2>1, <4>1 DEF TreeInv, First, Children
      <4>3. value[First] = vals[ctl.op][1] /\ at[First] = "ssp"
        BY <2>1, <2>3, <3>2, <4>1, <4>2 DEF CoverInv, Splitting
      <4>4. PICK W \in SUBSET (Available \ {ctl.op, First}) : Total(W, value) + vals[ctl.op][1] = Target
        BY <2>1, <2>3, <3>2 DEF CoverInv, Splitting
      <4>5. IsFiniteSet(W) /\ \A n \in W \cup {First} : value[n] \in Nat
        <5>1. W \subseteq Nodes
          BY DEF Available
        <5> QED BY <5>1, <4>2, FS_Subset, LeafLiquidityAssumption DEF TypeOK
      <4>6. Total(W \cup {First}, value) = value[First] + Total(W, value)
        BY <4>5, SumAdd DEF Total
      <4>7. Total(W, value) \in Nat /\ value[First] \in Nat
        BY <4>5, SumIsNat DEF Total
      <4>8. W \cup {First} \in SUBSET Available
        BY <4>2, <4>3 DEF Available
      <4>9. Total(W \cup {First}, value) = Target
        BY <4>3, <4>4, <4>6, <4>7
      <4> QED BY <4>8, <4>9
    <3> QED BY <2>1, <2>3, <3>1, <3>2 DEF CoverInv, Splitting
  <2> QED BY <2>2, <2>3 DEF TypeOK
<1>13. ASSUME NEW j \in Swaps,
              \/ StoreRequest(j) \/ DropRequest(j) \/ ClaimTimeout(j) \/ TweakPrimary(j) \/ CollectPrimary(j)
              \/ MarkSucceeded(j) \/ ExpirePrimary(j) \/ \E n \in Nodes : SendPrimary(j, n)
       PROVE  CoverInv'
  <2>1. ctl' = ctl /\ UNCHANGED value /\ UNCHANGED vals
    BY <1>13 DEF StoreRequest, DropRequest, ClaimTimeout, TweakPrimary, CollectPrimary, MarkSucceeded,
       ExpirePrimary, SendPrimary, spark, split
  <2>2. \A n \in Nodes : at[n] \in {"ssp", "signing"} => at'[n] = at[n]
    BY <1>13 DEF StoreRequest, DropRequest, ClaimTimeout, TweakPrimary, CollectPrimary, MarkSucceeded,
       ExpirePrimary, SendPrimary, spark, SwapInv, TypeOK
  <2>3. Keeps
    BY <2>1, <2>2 DEF Keeps
  <2>4. Moves
    <3>1. ~\E p, c, d \in Nodes : SplitInto(p, c, d)
      BY <2>1 DEF SplitInto, TypeOK
    <3> QED BY <1>0, <3>1
  <2> QED BY <2>1, <2>3, <2>4, CoverStays
<1>14. CASE SubmitSplit
  BY <1>1, <1>10, <1>14, SubmitIsSplit DEF PlanInv, SubmitSplit
<1> QED
  BY <1>3, <1>4, <1>5, <1>6, <1>7, <1>8, <1>9, <1>10, <1>11, <1>12, <1>13, <1>14 DEF Next, HandlerStep, SplitStep

(* An exact payout splits at most once: when it has split a leaf, it has   *)
(* the leaves that make its amount, whatever is claimed or recovered       *)
(* meanwhile.                                                              *)
THEOREM ExactPayoutsSplitOnce == Spec => []ExactSplitsOnce
<1>1. Init => CoverInv
  BY DEF Init, Startup, CoverInv, Splitting
<1>2. IndInv /\ CoverInv /\ [Next]_vars => CoverInv'
  <2> SUFFICES ASSUME IndInv, CoverInv, [Next]_vars PROVE CoverInv'
    OBVIOUS
  <2>1. CASE UNCHANGED vars
    <3>1. UNCHANGED <<at, value, kids, vals, ctl>>
      BY <2>1 DEF vars, spark, split
    <3>2. Available' = Available
      BY <3>1 DEF Available
    <3> QED BY <3>1, <3>2 DEF CoverInv, Exact, Target, Splitting, First, IsSplit
  <2> QED BY <2>1, CoverStep
<1>3. IndInv /\ CoverInv => ExactSplitsOnce
  <2> SUFFICES ASSUME IndInv, CoverInv, ctl.job # NULL, ctl.round > 0, Kind[ctl.job] = "exact", ctl.pc = "plan"
               PROVE  Selectable # {}
    BY DEF ExactSplitsOnce
  <2>1. Exact
    BY DEF IndInv, TypeOK, Exact
  <2>2. PICK W \in SUBSET Available : Total(W, value) = Target
    BY <2>1 DEF CoverInv
  <2> QED BY <2>1, <2>2, CoverIsSelectable DEF IndInv
<1> QED
  BY <1>1, <1>2, <1>3, Invariance, PTL DEF Spec
=============================================================================
