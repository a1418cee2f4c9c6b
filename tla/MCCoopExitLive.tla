--------------------------- MODULE MCCoopExitLive ---------------------------
(***************************************************************************)
(* Cooperative withdrawals, in one of two scenes.  "protocol": the steps   *)
(* of CoopExit with their liveness.  A fault is a crash, an error of a     *)
(* call that could have succeeded, or a transaction that the network drops *)
(* or reorganises away; MaxFaults of them happen, at any step.             *)
(*                                                                         *)
(* "amounts": ExitFunds, two withdrawals of a wallet with two leaves, one  *)
(* of which it can split to separate the fees.  The values stand at the    *)
(* edges: at the lower rate a leaf of 541 is the dust limit of a payout    *)
(* and its fees, a coin of 1481 is just enough for that payout, and one of *)
(* 2000 would leave too little change after one of the larger leaf.        *)
(***************************************************************************)
EXTENDS MCCoopExit, Withdrawals, TLC

CONSTANT MaxFaults
VARIABLES faults, scene

LeavesOf == (1 :> 541) @@ (2 :> 1100)
CoinsOf  == (<<0, 1>> :> [value |-> 1481, script |-> "p2wpkh"])
         @@ (<<0, 2>> :> [value |-> 2000, script |-> "p2tr"])
         @@ (<<0, 3>> :> [value |-> 6000, script |-> "p2wpkh"])

amounts  == <<leaves, minted, quotes, exits, bump, coins, collected>>
liveVars == <<vars, faults, scene, amounts>>
Protocol(A) == scene = "protocol" /\ A /\ UNCHANGED <<scene, amounts>>
Good(A)     == Protocol(A) /\ UNCHANGED faults

(* The handler in the lock takes a step: the calls that can succeed do.    *)
HandlerStep ==
  \/ CheckTransferExists /\ ctl'.pc # "idle"
  \/ MarkExpired
  \/ Verify /\ (transfer[ctl.req] = "locked" => ctl'.pc = "sign")
  \/ Sign /\ ctl'.pc = "observe"
  \/ Observe /\ (tx[ctl.req] = "confirmed" => ctl'.pc = "markConfirmed")
  \/ Broadcast /\ (tx[ctl.req] # "confirmed" => ctl'.pc = "markBroadcast")
  \/ MarkBroadcast \/ MarkConfirmed \/ MarkSucceeded
  \/ Claim /\ (transfer[ctl.req] \in {"tweaked", "completed"} => ctl'.pc = "markSucceeded")
  \/ StoreBump /\ (tx[ctl.req] \in {"mempool", "confirmed"} => ctl'.pc = "sendBump")
  \/ SendBump

Fault ==
  \/ Crash
  \/ CheckTransferExists \/ Verify \/ Sign \/ Observe \/ Broadcast \/ Claim \/ StoreBump
  \/ \E r \in Requests : Evict(r) \/ Reorg(r)

(* One pass of the loop over the record of r.                              *)
Pass(r) == IF r \notin signed /\ r \in expired THEN BeginExpiry(r) ELSE BeginAdvance(r)

LiveInit == Init /\ faults = 0 /\ scene \in {"protocol", "amounts"} /\ Funds!Init

LiveNext ==
  \/ Protocol(Fault) /\ faults < MaxFaults /\ faults' = faults + 1
  \/ Good(HandlerStep)
  \/ \E r \in Requests :
       \/ \E o \in Outpoints : Good(Request(r, o))
       \/ Good(Pass(r))
       \/ Good(BeginAdvance(r)) \/ Good(BeginBump(r))
       \/ Good(TimeUp(r)) \/ Good(Confirm(r)) \/ Good(OperatorsTweak(r))
       \/ Good(WalletSubmits(r)) \/ Good(OperatorsLock(r)) \/ Good(TransferReturns(r))
  \/ scene = "amounts" /\ Funds!Next /\ UNCHANGED <<vars, faults, scene>>

(* CoopExitService::run passes over every pending record each 5 seconds,   *)
(* between other holders of the lock: strong fairness.  The task in the    *)
(* lock goes on, clocks run, miners take what stays in the mempool, and    *)
(* the operators act on a confirmation.  Nothing obliges the wallet.       *)
LiveSpec ==
  /\ LiveInit /\ [][LiveNext]_liveVars
  /\ WF_liveVars(Good(HandlerStep))
  /\ \A r \in Requests :
       /\ SF_liveVars(Good(Pass(r)))
       /\ WF_liveVars(Good(TimeUp(r)))
       /\ WF_liveVars(Good(Confirm(r)))
       /\ WF_liveVars(Good(OperatorsTweak(r)))

(* Once the SSP has signed a payout the withdrawal completes: a lost       *)
(* reply, an eviction, a reorganisation or a restart never strands it      *)
(* between the two ledgers (advance).                                      *)
SignedSucceeds == \A r \in Requests : r \in signed ~> status[r] = "SUCCEEDED"

(* A transfer that was locked before the request's time was up is paid,    *)
(* also when the wallet's completion call never arrives (run).             *)
SubmittedIsPaid ==
  \A r \in Requests :
    Pending(r) /\ r \notin expired /\ transfer[r] = "locked" ~> status[r] = "SUCCEEDED"

(* The coin of a request that the wallet never followed up is freed (run). *)
UnusedCoinFreed ==
  \A r \in Requests :
    [](transfer[r] = "none") => (status[r] = "INITIATED" ~> status[r] = "EXPIRED")
=============================================================================
