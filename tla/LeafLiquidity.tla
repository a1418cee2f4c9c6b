--------------------------- MODULE LeafLiquidity ----------------------------
(***************************************************************************)
(* The SSP's Spark leaves: payouts from exact leaves, leaf splitting when  *)
(* there are none, and leaf swaps (spark.rs, the split tables of db.rs,    *)
(* RequestSwap of graphql.rs).                                             *)
(*                                                                         *)
(* A split turns a leaf into two.  Their keys are random, so the database  *)
(* has to hold them before the operators know the new leaves, until the    *)
(* leaf comes back in a transfer that puts it under the wallet's derived   *)
(* key again.  The split itself is a checkpoint in the database.           *)
(*                                                                         *)
(* Every payout runs under liquidity_lock; `ctl` is the one inside.  Each  *)
(* step is one database transaction or one call, and between two of them   *)
(* the handler may end: a call fails, the client goes away, the process    *)
(* crashes.                                                                *)
(***************************************************************************)
EXTENDS SplitPlanner

CONSTANTS
  Nodes,    \* leaf ids that the operators can assign: 1 .. a bound
  Opening,  \* the value and the holder of the leaves that exist at first
  Jobs,     \* payouts, by their deterministic transfer id
  Kind,     \* of each: "exact", "swap" or "refund"
  Amounts,  \* of each: its amounts, for a swap with the change at the end
  Rounds,   \* splits in one attempt (32)
  NULL

Swaps == {j \in Jobs : Kind[j] = "swap"}

ASSUME LeafLiquidityAssumption ==
  /\ Nodes \subseteq Nat \ {0} /\ IsFiniteSet(Nodes) /\ NULL \notin Jobs \cup Nodes
  /\ DOMAIN Opening \subseteq Nodes
  /\ \A n \in DOMAIN Opening : Opening[n].holder \in {"ssp", "user"} /\ Opening[n].value \in Nat
  /\ Kind \in [Jobs -> {"exact", "swap", "refund"}]
  /\ Amounts \in [Jobs -> Seq(Nat \ {0})]
  /\ \A j \in Jobs \ Swaps : Len(Amounts[j]) = 1
  /\ Rounds \in Nat

VARIABLES
  at,        \* operators: where each node is
  value,     \* operators: its value
  nodekey,   \* operators: the key it is under; 0 is the derived key
  kids,      \* operators: the two children of a split node
  status,    \* spark_split_operations, by parent: status,
  vals,      \*   child_values_sats,
  plankey,   \*   the keys in the plan,
  bound,     \*   and the parents whose child_node_ids are set
  pending,   \* spark_pending_split_keys, by parent; 0: no row
  override,  \* spark_leaf_key_overrides, by node; 0: no row
  minted,    \* keys generated so far
  sent,      \* operators: the leaves of each payout, {} before it exists
  ask,       \* what has become of each payout
  primary,   \* the leaf of each swap's outbound transfer
  pstate,    \* operators: the status of that transfer
  row,       \* the LEAVES_SWAP request
  watch,     \* swaps with a reconcile_swap_claim task
  filled,    \* swaps whose handler has the counter and not yet the request
  ctl        \* the handler that holds the lock

spark == <<at, value, nodekey, kids>>
split == <<status, vals, plankey, bound>>
keys  == <<pending, override, minted>>
jobs  == <<sent, ask>>
swap  == <<primary, pstate, row, watch, filled>>
vars  == <<spark, split, keys, jobs, swap, ctl>>

NoChildren == <<0, 0>>
Startup == [pc |-> "recover", job |-> NULL, op |-> NULL, back |-> "recover",
            vals |-> NoChildren, round |-> 0]
Idle    == [Startup EXCEPT !.pc = "idle"]

Holders  == {"none", "ssp", "user", "primary", "split", "signing"}
Statuses == {"none", "DRAFT", "PREPARED", "SUBMITTING", "SUBMITTED", "COMPLETED"}
Pair     == Nat \X Nat

TypeOK ==
  /\ at \in [Nodes -> Holders] /\ value \in [Nodes -> Nat]
  /\ nodekey \in [Nodes -> Nat] /\ kids \in [Nodes -> Pair]
  /\ status \in [Nodes -> Statuses] /\ vals \in [Nodes -> Pair]
  /\ plankey \in [Nodes -> Nat] /\ bound \subseteq Nodes
  /\ pending \in [Nodes -> Nat] /\ override \in [Nodes -> Nat] /\ minted \in Nat
  /\ sent \in [Jobs -> SUBSET Nodes]
  /\ ask \in [Jobs -> {"new", "asked", "refused"}]
  /\ primary \in [Swaps -> Nodes \cup {NULL}]
  /\ pstate \in [Swaps -> {"none", "sent", "tweaked", "claiming", "completed", "expired"}]
  /\ row \in [Swaps -> {"none", "pending", "SUCCEEDED"}]
  /\ watch \subseteq Swaps /\ filled \subseteq Swaps
  /\ ctl \in [pc : {"idle", "recover", "plan", "insert", "resume", "submit",
                    "saveSubmitted", "pay", "counter"},
              job : Jobs \cup {NULL}, op : Nodes \cup {NULL},
              back : {"recover", "plan"}, vals : Pair, round : Nat]

Init ==
  /\ at = [n \in Nodes |-> IF n \in DOMAIN Opening THEN Opening[n].holder ELSE "none"]
  /\ value = [n \in Nodes |-> IF n \in DOMAIN Opening THEN Opening[n].value ELSE 0]
  /\ nodekey = [n \in Nodes |-> 0] /\ kids = [n \in Nodes |-> NoChildren]
  /\ status = [n \in Nodes |-> "none"] /\ vals = [n \in Nodes |-> NoChildren]
  /\ plankey = [n \in Nodes |-> 0] /\ bound = {}
  /\ pending = [n \in Nodes |-> 0] /\ override = [n \in Nodes |-> 0] /\ minted = 0
  /\ sent = [j \in Jobs |-> {}] /\ ask = [j \in Jobs |-> "new"]
  /\ primary = [j \in Swaps |-> NULL] /\ pstate = [j \in Swaps |-> "none"]
  /\ row = [j \in Swaps |-> "none"] /\ watch = {} /\ filled = {}
  /\ ctl = Startup

Available == {n \in Nodes : at[n] = "ssp"}
Running   == ctl.pc = "idle" \/ ctl.job # NULL
Goto(pc)  == ctl' = [ctl EXCEPT !.pc = pc]
Resume(p, back) == ctl' = [ctl EXCEPT !.pc = "resume", !.op = p, !.back = back]

-----------------------------------------------------------------------------
(* Taking the lock *)

(* An exact payout, or the static-deposit and Lightning paths to it: the   *)
(* transfer id is looked up first, so a retry finds what was paid.         *)
(* refund_bolt12_send goes to the transfer at once.                        *)
BeginPayout(j) ==
  /\ ctl.pc = "idle" /\ Kind[j] # "swap"
  /\ ask[j] # "refused" /\ sent[j] = {}
  /\ ask' = [ask EXCEPT ![j] = "asked"]
  /\ ctl' = [Startup EXCEPT !.job = j, !.pc = IF Kind[j] = "refund" THEN "pay" ELSE "recover"]
  /\ UNCHANGED <<spark, split, keys, sent, swap>>

(* fill_swap: the outbound transfer is validated before the lock and again *)
(* inside it; a counter transfer that exists is used again.                *)
BeginSwap(j) ==
  /\ ctl.pc = "idle" /\ j \in Swaps
  /\ pstate[j] \notin {"none", "expired"}
  /\ value[primary[j]] = SumOf(Amounts[j])
  /\ ask[j] # "refused"
  /\ ask' = [ask EXCEPT ![j] = "asked"]
  /\ ctl' = [Startup EXCEPT !.job = j, !.pc = IF sent[j] = {} THEN "recover" ELSE "counter"]
  /\ UNCHANGED <<spark, split, keys, sent, swap>>

(* The handler ends with an error, or its client is gone.  At startup the  *)
(* process ends, and starts again.                                         *)
Abort ==
  /\ ctl.pc # "idle"
  /\ ctl' = IF ctl.job = NULL THEN Startup ELSE Idle
  /\ UNCHANGED <<spark, split, keys, jobs, swap>>

Crash ==
  /\ ctl' = Startup
  /\ watch' = {} /\ filled' = {}
  /\ UNCHANGED <<spark, split, keys, jobs, primary, pstate, row>>

-----------------------------------------------------------------------------
(* recover_incomplete_splits *)

(* Mutant: a draft whose parent is gone is resumed too.                    *)
ResumableWithoutParent == {p \in Nodes : status[p] \notin {"none", "COMPLETED"}}

(* A draft waits for its parent; everything else goes on without it.       *)
Resumable == {p \in Nodes : /\ status[p] \notin {"none", "COMPLETED"}
                            /\ status[p] = "DRAFT" => p \in Available}

(* Mutant: only the startup recovers.                                      *)
RecoverAtStartup ==
  /\ ctl.pc = "recover"
  /\ \/ \E p \in Resumable : ctl.job = NULL /\ Resume(p, "recover")
     \/ Resumable = {} /\ ctl.job = NULL /\ Goto("idle")
     \/ ctl.job # NULL /\ Goto("plan")
  /\ UNCHANGED <<spark, split, keys, jobs, swap>>

Recover ==
  /\ ctl.pc = "recover"
  /\ \/ \E p \in Resumable : Resume(p, "recover")
     \/ Resumable = {} /\ Goto(IF ctl.job = NULL THEN "idle" ELSE "plan")
  /\ UNCHANGED <<spark, split, keys, jobs, swap>>

-----------------------------------------------------------------------------
(* ensure_exact_liquidity, ensure_denominated_liquidity *)

Selectable == Selections(Available, value, Amounts[ctl.job])

BestSplits == IF Kind[ctl.job] = "swap"
              THEN plan_denomination_split(Available, value, Amounts[ctl.job])
              ELSE plan_just_in_time_split(Available, value, Amounts[ctl.job][1])

CanPlan == ctl.pc = "plan" /\ ctl.round < Rounds

PlanDone ==
  /\ CanPlan /\ Selectable # {}
  /\ Goto("pay")
  /\ UNCHANGED <<spark, split, keys, jobs, swap>>

Refuse ==
  /\ CanPlan /\ Selectable = {} /\ BestSplits = {}
  /\ ask' = [ask EXCEPT ![ctl.job] = "refused"]
  /\ ctl' = Idle
  /\ UNCHANGED <<spark, split, keys, sent, swap>>

(* execute_leaf_split with a row for the parent: it has to be the same     *)
(* split.                                                                  *)
UseStoredSplit ==
  /\ CanPlan /\ Selectable = {}
  /\ \E s \in BestSplits :
       /\ status[s.parent] # "none"
       /\ IF vals[s.parent] = <<s.needed, s.change>> THEN Resume(s.parent, "plan")
          ELSE ctl' = Idle
  /\ UNCHANGED <<spark, split, keys, jobs, swap>>

(* draft_split: the pending keys of the parent, or new ones stored before  *)
(* they are used (get and put_pending_spark_split_keys).                   *)
DraftSplit ==
  /\ CanPlan /\ Selectable = {}
  /\ \E s \in BestSplits :
       /\ status[s.parent] = "none"
       /\ pending' = [pending EXCEPT ![s.parent] = IF @ = 0 THEN minted + 1 ELSE @]
       /\ minted' = IF pending[s.parent] = 0 THEN minted + 1 ELSE minted
       /\ ctl' = [ctl EXCEPT !.pc = "insert", !.op = s.parent,
                             !.vals = <<s.needed, s.change>>]
  /\ UNCHANGED <<spark, split, override, jobs, swap>>

(* get_or_insert_spark_split                                               *)
InsertSplit ==
  /\ ctl.pc = "insert"
  /\ status' = [status EXCEPT ![ctl.op] = "DRAFT"]
  /\ vals' = [vals EXCEPT ![ctl.op] = ctl.vals]
  /\ plankey' = [plankey EXCEPT ![ctl.op] = pending[ctl.op]]
  /\ Resume(ctl.op, "plan")
  /\ UNCHANGED <<spark, bound, keys, jobs, swap>>

(* The loop ends after Rounds splits, without another look at the leaves.  *)
ProgressLimit ==
  /\ ctl.pc = "plan" /\ ctl.round = Rounds
  /\ ctl' = Idle
  /\ UNCHANGED <<spark, split, keys, jobs, swap>>

-----------------------------------------------------------------------------
(* resume_leaf_split: one step for each status *)

SetStatus(s) == status' = [status EXCEPT ![ctl.op] = s]

(* prepare_split, save_prepared_spark_split                                *)
PrepareSplit ==
  /\ ctl.pc = "resume" /\ status[ctl.op] = "DRAFT"
  /\ ctl.op \in Available
  /\ SetStatus("PREPARED")
  /\ UNCHANGED <<spark, vals, plankey, bound, keys, jobs, swap, ctl>>

(* mark_spark_split_submitting                                             *)
MarkSubmitting ==
  /\ ctl.pc = "resume" /\ status[ctl.op] \in {"PREPARED", "SUBMITTING"}
  /\ SetStatus("SUBMITTING")
  /\ Goto("submit")
  /\ UNCHANGED <<spark, vals, plankey, bound, keys, jobs, swap>>

Fresh == {n \in Nodes : at[n] = "none"}

(* submit_split.  The operators split a leaf of the SSP once, and answer a *)
(* repeated request for it with the same children.                         *)
SubmitSplit ==
  LET p == ctl.op
      c == Min(Fresh)
      d == Min(Fresh \ {c}) IN
  /\ ctl.pc = "submit"
  /\ \/ /\ at[p] = "ssp" /\ Cardinality(Fresh) >= 2
        /\ at' = [at EXCEPT ![p] = "split", ![c] = "signing", ![d] = "signing"]
        /\ value' = [value EXCEPT ![c] = vals[p][1], ![d] = vals[p][2]]
        /\ nodekey' = [nodekey EXCEPT ![c] = plankey[p], ![d] = plankey[p]]
        /\ kids' = [kids EXCEPT ![p] = <<c, d>>]
     \/ at[p] = "split" /\ UNCHANGED spark
  /\ Goto("saveSubmitted")
  /\ UNCHANGED <<split, keys, jobs, swap>>

(* Mutant: the pending keys go when the operators have answered.           *)
SaveSubmittedDropsKeys ==
  /\ ctl.pc = "saveSubmitted"
  /\ SetStatus("SUBMITTED")
  /\ pending' = [pending EXCEPT ![ctl.op] = 0]
  /\ Goto("resume")
  /\ UNCHANGED <<spark, vals, plankey, bound, override, minted, jobs, swap>>

(* save_submitted_spark_split                                              *)
SaveSubmitted ==
  /\ ctl.pc = "saveSubmitted"
  /\ SetStatus("SUBMITTED")
  /\ Goto("resume")
  /\ UNCHANGED <<spark, vals, plankey, bound, keys, jobs, swap>>

Finalizing == ctl.pc = "resume" /\ status[ctl.op] = "SUBMITTED"
Children(p) == {kids[p][1], kids[p][2]}

(* finalize_split, with the operators: the children become leaves.         *)
ActivateChildren ==
  /\ Finalizing /\ \E n \in Children(ctl.op) : at[n] = "signing"
  /\ at' = [n \in Nodes |-> IF n \in Children(ctl.op) /\ at[n] = "signing" THEN "ssp" ELSE at[n]]
  /\ UNCHANGED <<value, nodekey, kids, split, keys, jobs, swap, ctl>>

(* finalize_split, with the store (bind_pending_spark_split_keys): keys    *)
(* and child ids in one transaction, before or after the operators' part.  *)
BindKeys ==
  /\ Finalizing /\ ctl.op \notin bound /\ pending[ctl.op] # 0
  /\ override' = [n \in Nodes |-> IF n \in Children(ctl.op) THEN pending[ctl.op]
                                  ELSE override[n]]
  /\ pending' = [pending EXCEPT ![ctl.op] = 0]
  /\ bound' = bound \cup {ctl.op}
  /\ UNCHANGED <<spark, status, vals, plankey, minted, jobs, swap, ctl>>

(* mark_spark_split_completed, and back to the caller of the split.        *)
CompleteSplit ==
  /\ Finalizing /\ ctl.op \in bound
  /\ \A n \in Children(ctl.op) : at[n] # "signing"
  /\ SetStatus("COMPLETED")
  /\ ctl' = [ctl EXCEPT !.pc = ctl.back, !.op = NULL, !.vals = NoChildren,
                        !.round = IF ctl.back = "plan" THEN @ + 1 ELSE @]
  /\ UNCHANGED <<spark, vals, plankey, bound, keys, jobs, swap>>

-----------------------------------------------------------------------------
(* Payouts *)

(* wallet.transfer, InitiatePreimageSwapV3: whole leaves, exactly the      *)
(* amount.                                                                 *)
Pay ==
  /\ ctl.pc = "pay" /\ Kind[ctl.job] # "swap"
  /\ \E S \in Selectable :
       /\ sent' = [sent EXCEPT ![ctl.job] = S]
       /\ at' = [n \in Nodes |-> IF n \in S THEN "user" ELSE at[n]]
  /\ ctl' = Idle
  /\ UNCHANGED <<value, nodekey, kids, split, keys, ask, swap>>

(* transfer_swap_counter: the operators exchange counter and primary in    *)
(* one step.                                                               *)
PayCounter ==
  /\ ctl.pc = "pay" /\ Kind[ctl.job] = "swap"
  /\ pstate[ctl.job] = "sent"
  /\ \E S \in Selectable :
       /\ sent' = [sent EXCEPT ![ctl.job] = S]
       /\ at' = [n \in Nodes |-> IF n \in S THEN "user" ELSE at[n]]
  /\ pstate' = [pstate EXCEPT ![ctl.job] = "tweaked"]
  /\ Goto("counter")
  /\ UNCHANGED <<value, nodekey, kids, split, keys, ask, primary, row, watch, filled>>

(* The claim task is started and the lock released.                        *)
FillSwap ==
  /\ ctl.pc = "counter"
  /\ watch' = watch \cup {ctl.job} /\ filled' = filled \cup {ctl.job}
  /\ ctl' = Idle
  /\ UNCHANGED <<spark, split, keys, jobs, primary, pstate, row>>

(* RequestSwap: store_request.  A retry stores a request of its own.       *)
StoreRequest(j) ==
  /\ j \in filled
  /\ row' = [row EXCEPT ![j] = "pending"]
  /\ filled' = filled \ {j}
  /\ UNCHANGED <<spark, split, keys, jobs, primary, pstate, watch, ctl>>

(* The client of RequestSwap goes away before its request is stored.       *)
DropRequest(j) ==
  /\ j \in filled
  /\ filled' = filled \ {j}
  /\ UNCHANGED <<spark, split, keys, jobs, primary, pstate, row, watch, ctl>>

-----------------------------------------------------------------------------
(* Claiming the primary *)

(* Mutant: the claim lives as long as the task that fill_swap started.     *)
WatchedByTask(j) == j \in watch

(* reconcile_swap_claim for 300 s, run_swap_history for every open request.*)
Watched(j) == j \in watch \/ row[j] = "pending"

ClaimTimeout(j) ==
  /\ j \in watch
  /\ watch' = watch \ {j}
  /\ UNCHANGED <<spark, split, keys, jobs, primary, pstate, row, filled, ctl>>

(* process_transfer, first half: the receiver's key tweak.                 *)
TweakPrimary(j) ==
  /\ Running /\ pstate[j] = "tweaked"
  /\ pstate' = [pstate EXCEPT ![j] = "claiming"]
  /\ UNCHANGED <<spark, split, keys, jobs, primary, row, watch, filled, ctl>>

(* process_transfer, second half: the leaf is the SSP's again, under the   *)
(* derived key; retire_spark_leaf_keys drops the override it may have.     *)
CollectPrimary(j) ==
  /\ Running /\ pstate[j] = "claiming"
  /\ pstate' = [pstate EXCEPT ![j] = "completed"]
  /\ at' = [at EXCEPT ![primary[j]] = "ssp"]
  /\ nodekey' = [nodekey EXCEPT ![primary[j]] = 0]
  /\ override' = [override EXCEPT ![primary[j]] = 0]
  /\ UNCHANGED <<value, kids, split, pending, minted, jobs, primary, row, watch, filled, ctl>>

(* run_swap_history finds the primary completed.                           *)
MarkSucceeded(j) ==
  /\ Running /\ row[j] = "pending" /\ pstate[j] = "completed"
  /\ row' = [row EXCEPT ![j] = "SUCCEEDED"]
  /\ UNCHANGED <<spark, split, keys, jobs, primary, pstate, watch, filled, ctl>>

(* External: a wallet sends one of its leaves as a swap's primary, and     *)
(* the transfer can expire until the counter exists.                       *)
SendPrimary(j, n) ==
  /\ pstate[j] = "none" /\ at[n] = "user"
  /\ primary' = [primary EXCEPT ![j] = n]
  /\ pstate' = [pstate EXCEPT ![j] = "sent"]
  /\ at' = [at EXCEPT ![n] = "primary"]
  /\ UNCHANGED <<value, nodekey, kids, split, keys, jobs, row, watch, filled, ctl>>

ExpirePrimary(j) ==
  /\ pstate[j] = "sent"
  /\ pstate' = [pstate EXCEPT ![j] = "expired"]
  /\ at' = [at EXCEPT ![primary[j]] = "user"]
  /\ UNCHANGED <<value, nodekey, kids, split, keys, jobs, primary, row, watch, filled, ctl>>

-----------------------------------------------------------------------------
SplitStep ==
  \/ PrepareSplit \/ MarkSubmitting \/ SubmitSplit \/ SaveSubmitted
  \/ ActivateChildren \/ BindKeys \/ CompleteSplit

HandlerStep ==
  \/ Recover \/ PlanDone \/ Refuse \/ UseStoredSplit \/ DraftSplit \/ InsertSplit
  \/ ProgressLimit \/ SplitStep \/ Pay \/ PayCounter \/ FillSwap

Next ==
  \/ \E j \in Jobs : BeginPayout(j) \/ BeginSwap(j)
  \/ HandlerStep \/ Abort \/ Crash
  \/ \E j \in Swaps :
       \/ StoreRequest(j) \/ DropRequest(j) \/ ClaimTimeout(j)
       \/ TweakPrimary(j) \/ CollectPrimary(j) \/ MarkSucceeded(j)
       \/ ExpirePrimary(j) \/ \E n \in Nodes : SendPrimary(j, n)

Spec == Init /\ [][Next]_vars

-----------------------------------------------------------------------------
(* Properties *)

(* No leaf's key is lost: a leaf that a split made, and that is the SSP's  *)
(* or about to be, is under a key that the database holds, wherever the    *)
(* split was interrupted and however often it is taken up again            *)
(* (put_pending_spark_split_keys, bind_pending_spark_split_keys).          *)
LeafKeysDurable ==
  \A p \in Nodes : kids[p] # NoChildren =>
    \A n \in Children(p) :
      (at[n] \in {"signing", "ssp"} /\ nodekey[n] # 0) =>
        nodekey[n] \in {override[n], pending[p]}

(* A payout is planned and made with all that the SSP owns, and the signer *)
(* resolves every leaf to the key that the operators have for it: no value *)
(* is left in an interrupted split, its children are bound, and a leaf     *)
(* that was sent away and came back has lost its override                  *)
(* (recover_incomplete_splits before a payout, retire_spark_leaf_keys).    *)
RecoveredBeforePayout ==
  (ctl.pc \in {"plan", "pay"} /\ Kind[ctl.job] # "refund") =>
    /\ \A n \in Nodes : at[n] # "signing"
    /\ \A n \in Available : nodekey[n] = override[n]

(* One split is enough for an exact payout: with the leaves it was planned *)
(* around, its first child makes the amount, whatever is claimed or        *)
(* recovered meanwhile (plan_just_in_time_split).                          *)
ExactSplitsOnce ==
  (ctl.job # NULL /\ ctl.round > 0 /\ Kind[ctl.job] = "exact" /\ ctl.pc = "plan") =>
    Selectable # {}
=============================================================================
