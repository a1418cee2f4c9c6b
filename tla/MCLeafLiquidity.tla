-------------------------- MODULE MCLeafLiquidity ---------------------------
(***************************************************************************)
(* One leaf of the SSP, of value 12, for two exact payouts, a refund and a *)
(* swap, which can bring back a leaf that a split made.  MaxFaults         *)
(* handlers end early, by an error, a lost client or a crash, or lose the  *)
(* claim task.                                                             *)
(***************************************************************************)
EXTENDS LeafLiquidity, TLC

CONSTANTS x, y, r, s, MaxFaults
VARIABLE faults

OpeningOf == 1 :> [holder |-> "ssp", value |-> 12]
KindOf    == (x :> "exact") @@ (y :> "exact") @@ (r :> "refund") @@ (s :> "swap")
AmountsOf == (x :> <<5>>) @@ (y :> <<3>>) @@ (r :> <<5>>) @@ (s :> <<2, 3>>)
NodeIds   == 1..12

Payouts == {j \in Jobs : Kind[j] # "refund"}

liveVars == <<vars, faults>>
Good(A)  == A /\ UNCHANGED faults

(* An operator call that can only be refused: the parent of a prepared     *)
(* split is gone, the primary has expired, or a refund has no leaves.      *)
Refused ==
  \/ ctl.pc = "submit" /\ at[ctl.op] \notin {"ssp", "split"}
  \/ ctl.pc = "resume" /\ status[ctl.op] = "DRAFT" /\ ctl.op \notin Available
  \/ ctl.pc = "pay" /\ (Selectable = {} \/ (Kind[ctl.job] = "swap" /\ pstate[ctl.job] # "sent"))

Claim(j) == Watched(j) /\ (TweakPrimary(j) \/ CollectPrimary(j))

LiveInit == Init /\ faults = 0

LiveNext ==
  \/ /\ \/ Abort /\ ~Refused
        \/ Crash
        \/ \E j \in Swaps : DropRequest(j) \/ ClaimTimeout(j)
     /\ faults < MaxFaults /\ faults' = faults + 1
  \/ Refused /\ Good(Abort)
  \/ Good(HandlerStep)
  \/ \E j \in Jobs : Good(BeginPayout(j)) \/ Good(BeginSwap(j))
  \/ \E j \in Swaps :
       \/ Good(StoreRequest(j))
       \/ Good(TweakPrimary(j)) \/ Good(CollectPrimary(j)) \/ Good(MarkSucceeded(j))
       \/ Good(ExpirePrimary(j)) \/ \E n \in Nodes : Good(SendPrimary(j, n))

(* The task in the lock goes on; a payout that has been asked for is asked *)
(* for again until it is made, by the reconciler or its wallet, between    *)
(* the other users of the lock; run_swap_history comes to every open       *)
(* request.                                                                *)
LiveSpec ==
  /\ LiveInit /\ [][LiveNext]_liveVars
  /\ WF_liveVars(Good(HandlerStep) \/ (Refused /\ Good(Abort)))
  /\ \A j \in Payouts :
       SF_liveVars(/\ ask[j] = "asked" /\ sent[j] = {}
                   /\ Good(BeginPayout(j)) \/ Good(BeginSwap(j)))
  /\ \A j \in Swaps : SF_liveVars(Good(Claim(j)) \/ Good(MarkSucceeded(j)))

(* A refund, which does not finish interrupted splits first, has spent the *)
(* parent of a prepared one: every later recovery fails on it, the one at  *)
(* startup too.                                                            *)
Stuck == \E p \in Nodes : status[p] \in {"PREPARED", "SUBMITTING"} /\ at[p] \notin {"ssp", "split"}

Answered(j) == \/ sent[j] # {} \/ ask[j] = "refused"
               \/ Kind[j] = "swap" /\ pstate[j] = "expired"

(* A payout that was asked for is made or refused in the end, through      *)
(* interrupted splits, lost replies and restarts, unless a split stays     *)
(* Stuck or the swap's primary expires (ensure_exact_liquidity,            *)
(* ensure_denominated_liquidity, recover_incomplete_splits).               *)
AskedIsAnswered ==
  \/ <>[](\A j \in Payouts : ask[j] = "asked" => Answered(j))
  \/ <>[]Stuck

(* No recorded swap stays open: it is collected and reported, also after   *)
(* the claim task is gone (run_swap_history, reconcile_swap_claim).        *)
RecordedSwapSucceeds ==
  \/ \A j \in Swaps : []<>(row[j] # "pending")
  \/ <>[]Stuck
=============================================================================
