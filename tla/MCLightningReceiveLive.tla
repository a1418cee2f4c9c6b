---------------------- MODULE MCLightningReceiveLive ----------------------
(***************************************************************************)
(* Liveness of LightningReceive.  A fault is a crash, or an error of a     *)
(* call that could have succeeded; MaxFaults of them happen, in any order  *)
(* and at any step, and then the backends answer.  The reconciler keeps    *)
(* looking at every payment with its current LDK status.                   *)
(***************************************************************************)
EXTENDS LightningReceive

CONSTANT MaxFaults
VARIABLE faults

(* What the world outside does of its own accord.                          *)
Outside ==
  \/ StoreRequest \/ SetInvoiceCreated \/ PrepareInternalSend
  \/ \E p \in Payments : HtlcArrives(p) \/ HtlcTimesOut(p)
  \/ FundingMarginEnds \/ FundingReturns

(* The handler in the lock takes a step: the calls that can succeed do.    *)
HandlerStep ==
  \/ RejectHtlc /\ (htlc[ctl.pay] = "claimable" => htlc' # htlc)
  \/ FailHtlc \/ MarkFailed
  \/ SwapRecovered \/ SwapInitiate \/ CommitSwap
  \/ ctl.pc = "await" /\ swap = "none" /\ SwapAmbiguous
  \/ ClaimHtlc \/ MarkClaimSubmitted \/ CompleteReceive
  \/ ClaimError /\ htlc[ctl.pay] \notin {"claimable", "claimed"}
  \/ VerifySender /\ (funding = "locked" => ctl'.pc = "swap")
  \/ SettleSender \/ FinishInternal
  \/ SettleSenderError /\ funding = "returned"

(* One pass of the reconciler over p, with the status LDK lists now.       *)
Reconcile(p) ==
  \/ htlc[p] = "claimable" /\ (BeginReject(p) \/ BeginReceive(p))
  \/ BeginFinish(p)
  \/ FailExternal(p)

(* An observation of p that is no longer true.                             *)
StaleEvent(p) == htlc[p] # "claimable" /\ (BeginReject(p) \/ BeginReceive(p))

Fault ==
  \/ Crash \/ OperatorRefuse
  \/ RejectHtlc \/ FailHtlcError
  \/ SwapAmbiguous \/ SwapInsufficient
  \/ ClaimError \/ VerifySender \/ SettleSenderError
  \/ \E p \in Payments : StaleEvent(p)

LiveInit == Init /\ faults = 0

Good(A) == A /\ UNCHANGED faults

LiveNext ==
  \/ Fault /\ faults < MaxFaults /\ faults' = faults + 1
  \/ Good(Outside)
  \/ Good(HandlerStep)
  \/ \E p \in Payments : Good(Reconcile(p))
  \/ Good(SweepExpired)
  \/ Good(BeginInternal)
  \/ Good(OperatorCommit)
  \/ Good(InvoiceExpires)

liveVars == <<vars, faults>>

(* run_reconciler passes over every payment and every expired invoice each *)
(* 30 seconds, between other holders of the lock: strong fairness.  A task *)
(* in the lock goes on; a request the operators have is answered; clocks   *)
(* run.                                                                    *)
LiveSpec ==
  /\ LiveInit /\ [][LiveNext]_liveVars
  /\ \A p \in Payments : SF_liveVars(Good(Reconcile(p)))
  /\ SF_liveVars(Good(SweepExpired))
  /\ SF_liveVars(Good(BeginInternal))
  /\ WF_liveVars(Good(HandlerStep))
  /\ WF_liveVars(Good(OperatorCommit))
  /\ WF_liveVars(Good(InvoiceExpires))

(* Every HTLC the SSP holds is eventually claimed or failed: whatever      *)
(* faults hit process_standard_receive, no payer's money is held forever.  *)
HeldHtlcReleased == []<>(\A p \in Payments : htlc[p] # "claimable")

(* A claimed HTLC leads to a completed receive, also when the claim's own  *)
(* checkpoint was lost (finish_received_payment).                          *)
ClaimedCompletes ==
  <>[](\A p \in Payments : htlc[p] = "claimed" => rcv.status = "TRANSFER_COMPLETED")

(* A reserved local payment is settled in the end, unless its funding has  *)
(* lost the margin verify_sender asks for: recovery finds a payout or a    *)
(* claim that an error hid (process_internal_send).                        *)
LocalSendSettles ==
  <>[](internal => send = "SUCCEEDED" \/ funding \in {"expiring", "returned"})
=============================================================================
