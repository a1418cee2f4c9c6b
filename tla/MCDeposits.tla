----------------------------- MODULE MCDeposits -----------------------------
(***************************************************************************)
(* Deposits of one wallet to one address, of one value.  A fault is a      *)
(* crash, an error or a lost reply of a call that could have succeeded, a  *)
(* reorganisation, or a recovery transaction dropped from the mempool;     *)
(* MaxFaults of them happen, at any step.                                  *)
(***************************************************************************)
EXTENDS Deposits

CONSTANTS a, b, MaxFaults
VARIABLE faults

SlotOf   == [c \in Coins |-> 1]
OwnerOf  == [c \in Coins |-> 1]
ValueOf  == [c \in Coins |-> 2]
CreditOf == [c \in Coins |-> 1]

liveVars == <<vars, faults>>
Good(A)  == A /\ UNCHANGED faults

(* What a call could do, were it not for a fault.                          *)
CanFind == \/ Unspent(Coin(ctl.claim)) /\ chain[Coin(ctl.claim)] \in {"mined", "deep"}
           \/ ~Unspent(Coin(ctl.claim)) /\ Replacements(Coin(ctl.claim)) # {}
CanSign == /\ held[point[ctl.claim]] \in {NULL, ctl.claim}
           /\ chain[point[ctl.claim]] \in
                (IF ctl.claim \in Fixed THEN {"deep"} ELSE {"mined", "deep"})
CanSend == Unspent(point[ctl.claim]) \/ spend[ctl.claim] = "mempool"

(* The handler in the lock takes a step: the calls that can succeed do.    *)
HandlerStep ==
  \/ Reserve /\ ctl'.pc = "savePaid"
  \/ FindOutpoint /\ (CanFind => ctl'.pc = "freeze")
  \/ Submit /\ (CanSign => ctl'.pc = "saveSigned")
  \/ Observe /\ (spend[ctl.claim] \in {"mined", "deep"} => ctl'.pc # "broadcast")
  \/ Broadcast /\ (CanSend => ctl'.pc = "saveBroadcast")
  \/ SavePaid \/ Freeze \/ SaveSigned \/ SaveBroadcast \/ SaveConfirmed

Fault ==
  \/ Crash
  \/ Reserve \/ FindOutpoint \/ Submit \/ Observe \/ Broadcast
  \/ \E c \in Coins : Reorg(c)
  \/ \E k \in Claims : ReorgSpend(k) \/ EvictSpend(k)

(* A miner takes a transaction of the mempool, or adds a block on top.     *)
Blocks == \/ \E c \in Coins : Mine(c) \/ Bury(c)
          \/ \E k \in Claims : MineSpend(k) \/ BurySpend(k)

LiveInit == Init /\ faults = 0

LiveNext ==
  \/ Fault /\ faults < MaxFaults /\ faults' = faults + 1
  \/ Good(HandlerStep)
  \/ \E c \in Coins :
       \/ Good(QuoteFixed(c)) \/ Good(QuoteInstant(c))
       \/ Good(ClaimFixed(c)) \/ Good(ClaimInstant(c))
       \/ Good(Arrive(c)) \/ Good(Lose(c)) \/ \E d \in Coins : Good(Replace(c, d))
  \/ \E k \in Claims : Good(QuoteExpires(k)) \/ Good(BeginAdvance(k))
  \/ Good(Blocks)

(* run and run_instant come to every pending record again and again,       *)
(* between other holders of the lock: strong fairness.  The task in the    *)
(* lock goes on, and blocks are found until nothing is left for them: the  *)
(* faults aside, each is final, so one fairness condition serves them all. *)
LiveSpec ==
  /\ LiveInit /\ [][LiveNext]_liveVars
  /\ WF_liveVars(Good(HandlerStep))
  /\ WF_liveVars(Good(Blocks))
  /\ \A k \in Claims : SF_liveVars(Good(BeginAdvance(k)))

(* The cases that the documentation leaves to an operator: the deposit was *)
(* lost, the frozen outpoint was reorganised away or belongs to another    *)
(* claim, or a fixed claim's recovery left the chain after it was reported *)
(* confirmed.                                                              *)
Stranded(k) ==
  \/ /\ phase[k] = "TRANSFER_COMPLETED"
     /\ chain[Coin(k)] \in {"gone", "replaced"} /\ Replacements(Coin(k)) = {}
  \/ phase[k] \in Phases \ {"none", "CREATED", "TRANSFER_COMPLETED"}
     /\ (chain[point[k]] \in {"gone", "replaced"} \/ held[point[k]] \notin {k, NULL})
  \/ k \in Fixed /\ phase[k] = "SPEND_TX_CONFIRMED" /\ spend[k] = "dropped"

(* Every payout is brought back on chain in the end, through lost replies, *)
(* evictions, replacements and restarts, except for the cases in Stranded  *)
(* (run, run_instant, advance, advance_instant).                           *)
PaidIsRecovered == <>[](\A k \in paid : spend[k] = "deep" \/ Stranded(k))
=============================================================================
