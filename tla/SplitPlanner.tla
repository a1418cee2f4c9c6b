---------------------------- MODULE SplitPlanner ----------------------------
(***************************************************************************)
(* Which leaf the SSP splits when it has no exact leaves for a payout      *)
(* (plan_just_in_time_split, plan_denomination_split in spark.rs).         *)
(*                                                                         *)
(* `A` is a set of leaves and `v` gives the value of each.  A planner      *)
(* returns the set of its best plans: leaves of one value are              *)
(* interchangeable, and no plan is the empty set.                          *)
(***************************************************************************)
EXTENDS Naturals, FiniteSets, FiniteSetsExt, Functions, Sequences

CONSTANT MinChild  \* minimum_split_child_sats

ASSUME MinChildAssumption == MinChild \in Nat \ {0}

Total(A, v)    == SumFunctionOnSet(v, A)
SumOf(amounts) == SumFunctionOnSet(amounts, DOMAIN amounts)

(* External: select_leaves_by_exact_amounts.  Disjoint sets of whole       *)
(* leaves, one for each amount.                                            *)
Selections(A, v, amounts) ==
  {S \in SUBSET A :
     /\ Total(S, v) = SumOf(amounts)
     /\ \E f \in [S -> DOMAIN amounts] :
          \A i \in DOMAIN amounts : Total({n \in S : f[n] = i}, v) = amounts[i]}

-----------------------------------------------------------------------------
(* The leaves taken whole: largest first, while they stay under the cap.   *)
Greedy(A, v, cap) ==
  LET Before(U, n) == {m \in U : v[m] > v[n] \/ (v[m] = v[n] /\ m < n)} IN
  {U \in SUBSET A : \A n \in A : n \in U <=> Total(Before(U, n), v) + v[n] <= cap}

(* target.saturating_sub(minimum_child)                                    *)
Cap(target) == IF target > MinChild THEN target - MinChild ELSE 0

(* Mutant: the parent may also be one of the leaves that are taken whole.  *)
WholeLeavesAndParent(A, v, p, target) == Greedy(A, v, Cap(target))

(* The leaves that p's `needed` child is to complete.                      *)
WholeLeaves(A, v, p, target) == Greedy(A \ {p}, v, Cap(target))

(* To split p next to the whole leaves U.                                  *)
Plan(p, U, v, target) ==
  [parent |-> p, needed |-> target - Total(U, v), change |-> (v[p] + Total(U, v)) - target,
   whole |-> Cardinality(U)]

(* The plans whose children both reach the floor.                          *)
PlansFor(A, v, target) ==
  UNION {{Plan(p, U, v, target) :
            U \in {W \in WholeLeaves(A, v, p, target) :
                    /\ target - Total(W, v) >= MinChild
                    /\ v[p] + Total(W, v) >= target + MinChild}} : p \in A}

(* Least change, then fewest whole leaves, then the smallest parent.       *)
plan_just_in_time_split(A, v, target) ==
  LET plans == PlansFor(A, v, target)
      Better(x, y) == \/ x.change < y.change
                      \/ x.change = y.change /\ x.whole < y.whole
                      \/ x.change = y.change /\ x.whole = y.whole
                           /\ v[x.parent] < v[y.parent]
  IN  {x \in plans : \A y \in plans : ~Better(y, x)}

-----------------------------------------------------------------------------
(* Each denomination takes a leaf of its own value: the ones that find     *)
(* none left,                                                              *)
Unmatched(A, v, denominations) ==
  {i \in DOMAIN denominations :
     Cardinality({j \in 1..i : denominations[j] = denominations[i]})
       > Cardinality({n \in A : v[n] = denominations[i]})}

(* and the leaves that those in front of the i-th take.                    *)
MatchLeaves(A, v, denominations, i) ==
  CHOOSE T \in SUBSET A :
    \A n \in A : Cardinality({m \in T : v[m] = v[n]})
                  = Cardinality({j \in 1..(i - 1) : denominations[j] = v[n]})

(* For the first that is missing: an unmatched leaf that covers it, and    *)
(* leaves the least change.                                                *)
plan_denomination_split(A, v, denominations) ==
  LET short   == Unmatched(A, v, denominations)
      missing == denominations[Min(short)]
      parents == {p \in A \ MatchLeaves(A, v, denominations, Min(short)) :
                    v[p] >= missing + MinChild} IN
  IF short = {} \/ missing < MinChild THEN {}
  ELSE {[parent |-> p, needed |-> missing, change |-> v[p] - missing] :
          p \in {q \in parents : \A r \in parents : v[q] <= v[r]}}
=============================================================================
