----------------------- MODULE LightningReceiveProofs -----------------------
(***************************************************************************)
(* The safety of LightningReceive for every set of payments and every      *)
(* number of attempts.  The invariants the runs check are not inductive:   *)
(* they say nothing of the handler in the lock.  IndInv adds what is known *)
(* at each of its program points.                                          *)
(***************************************************************************)
EXTENDS LightningReceive, TLAPS

(* Which task is at which point, and whose payment it works for.           *)
TaskInv ==
  /\ ctl.pc = "idle" => ctl = Idle
  /\ ctl.pc \in {"reject", "claim", "markClaimed", "complete"} => ctl.task = "receive"
  /\ ctl.pc \in {"failHtlc", "markFailed"} => ctl.task \in {"receive", "sweep"}
  /\ ctl.pc \in {"swap", "await", "commit"} => ctl.task \in {"receive", "internal"}
  /\ ctl.pc \in {"verify", "settle", "finish"} => ctl.task = "internal"
  /\ ctl.task = "internal" => internal /\ send = "SETTLING"
  /\ ctl.task \in {"receive", "sweep"} =>
       /\ ctl.pay \in Payments
       /\ ctl.pc # "reject" => rcv.payment = ctl.pay /\ ~internal

(* An invoice that has not left the SSP has no payer yet.                  *)
UnsentInv ==
  invoice # "ready" =>
    /\ \A p \in Payments : htlc[p] = "none"
    /\ rcv.payment = NULL /\ ~internal
    /\ send = "NONE" /\ funding = "none" /\ ctl = Idle

(* One payer, known before the payout.                                     *)
PayerInv ==
  /\ OnePayer
  /\ rcv.payment # NULL => Has("claimable_amount")
  /\ PayoutHasPayer

(* The payout is committed, then checkpointed, then collected.             *)
PayoutInv ==
  /\ Has("transfer_id") => swap = "committed" /\ transfer # "none"
  /\ ctl.pc = "commit" => swap = "committed"
  /\ ctl.pc \in {"claim", "markClaimed", "complete", "settle", "finish"} => Has("transfer_id")

CollectInv ==
  /\ \A p \in Payments : htlc[p] = "claimed" => rcv.payment = p /\ Has("transfer_id")
  /\ funding = "claimed" => internal /\ Has("transfer_id")
  /\ ctl.pc \in {"markClaimed", "complete"} => htlc[ctl.pay] = "claimed"
  /\ ctl.pc = "markFailed" => htlc[ctl.pay] # "claimed"
  /\ ctl.pc = "finish" => funding = "claimed"

(* A final status is final, and true.                                      *)
StatusInv ==
  /\ CompletedIsSettled
  /\ rcv.status = "HTLC_FAILED" => ~internal /\ Collected = {}
  /\ ctl.pc \notin {"idle", "reject", "complete"} => ~Final(rcv.status)
  /\ ctl.pc = "complete" => transfer = "TRANSFER_COMPLETED"

LocalInv ==
  /\ internal => send \in {"SETTLING", "SUCCEEDED"}
  /\ internal /\ rcv.status = "TRANSFER_COMPLETED" => send = "SUCCEEDED"
  /\ send = "SUCCEEDED" => internal /\ funding = "claimed" /\ rcv.status = "TRANSFER_COMPLETED"

IndInv ==
  /\ TypeOK /\ TaskInv /\ UnsentInv /\ PayerInv /\ PayoutInv
  /\ CollectInv /\ StatusInv /\ LocalInv

USE PaymentsAssumption, AttemptsAssumption

-----------------------------------------------------------------------------
(* The program starts in IndInv.                                           *)
LEMMA InitInv == Init => IndInv
<1> SUFFICES ASSUME Init PROVE IndInv
  OBVIOUS
<1> USE DEF Init, Idle
<1>1. expired \in BOOLEAN /\ internal \in BOOLEAN
  BY Zenon
<1>2. rcv \in ReceiveRow /\ ctl \in Handler
  BY DEF ReceiveRow, ReceiveStatus, Handler, Pc
<1>3. TypeOK
  BY <1>1, <1>2 DEF TypeOK, SendStatus
<1>4. TaskInv /\ UnsentInv /\ PayerInv /\ PayoutInv /\ LocalInv
  BY DEF TaskInv, UnsentInv, PayerInv, OnePayer, PayoutHasPayer, PayoutInv, Has, LocalInv
<1>5. CollectInv /\ StatusInv
  BY DEF CollectInv, StatusInv, CompletedIsSettled, Final
<1> QED
  BY <1>3, <1>4, <1>5 DEF IndInv

(* Every operation, every step of the world outside and every crash keeps  *)
(* IndInv.                                                                 *)
LEMMA StepInv == IndInv /\ [Next]_vars => IndInv'
<1> SUFFICES ASSUME IndInv, [Next]_vars PROVE IndInv'
  OBVIOUS
<1> USE DEF IndInv, TypeOK, ReceiveRow, ReceiveStatus, SendStatus, Handler, Pc, Idle, Has,
            Final, db, env, OnePayer, PayoutHasPayer, CompletedIsSettled, Collected,
            TaskInv, UnsentInv, PayerInv, PayoutInv, CollectInv, StatusInv, LocalInv
<1>1. CASE StoreRequest
  BY <1>1 DEF StoreRequest
<1>2. CASE SetInvoiceCreated
  BY <1>2 DEF SetInvoiceCreated
<1>3. CASE PrepareInternalSend
  BY <1>3 DEF PrepareInternalSend
<1>4. CASE InvoiceExpires
  BY <1>4 DEF InvoiceExpires
<1>5. CASE OperatorCommit
  BY <1>5 DEF OperatorCommit
<1>6. CASE OperatorRefuse
  BY <1>6 DEF OperatorRefuse
<1>7. CASE FundingMarginEnds
  BY <1>7 DEF FundingMarginEnds
<1>8. CASE FundingReturns
  BY <1>8 DEF FundingReturns
<1>9. CASE RejectHtlc
  BY <1>9 DEF RejectHtlc, FailLands, Return
<1>10. CASE FailHtlc
  BY <1>10 DEF FailHtlc, FailLands, Goto
<1>11. CASE FailHtlcError
  BY <1>11 DEF FailHtlcError, FailLands, Return
<1>12. CASE MarkFailed
  BY <1>12 DEF MarkFailed, Return
<1>13. CASE SwapRecovered
  BY <1>13 DEF SwapRecovered, Goto
<1>14. CASE SwapInitiate
  BY <1>14 DEF SwapInitiate, Goto
<1>15. CASE SwapAmbiguous
  BY <1>15 DEF SwapAmbiguous, AttemptError, Goto, Return
<1>16. CASE SwapInsufficient
  BY <1>16 DEF SwapInsufficient, AttemptError, Goto, Return
<1>17. CASE CommitSwap
  BY <1>17 DEF CommitSwap, Recovered, Goto
<1>18. CASE ClaimHtlc
  BY <1>18 DEF ClaimHtlc, Goto
<1>19. CASE ClaimError
  BY <1>19 DEF ClaimError, Return
<1>20. CASE MarkClaimSubmitted
  BY <1>20 DEF MarkClaimSubmitted, Recovered, Return
<1>21. CASE CompleteReceive
  BY <1>21 DEF CompleteReceive, Return
<1>22. CASE SweepExpired
  BY <1>22 DEF SweepExpired, LockFree, Enter
<1>23. CASE BeginInternal
  <2>1. internal' \in BOOLEAN
    BY <1>23, Zenon DEF BeginInternal
  <2>2. ctl' \in Handler /\ send' \in SendStatus
    BY <1>23 DEF BeginInternal, Enter
  <2> QED
    BY <1>23, <2>1, <2>2 DEF BeginInternal, LockFree, Reservable, Enter
<1>24. CASE VerifySender
  BY <1>24 DEF VerifySender, Goto, Return
<1>25. CASE SettleSender
  BY <1>25 DEF SettleSender, Goto
<1>26. CASE SettleSenderError
  BY <1>26 DEF SettleSenderError, Return
<1>27. CASE FinishInternal
  BY <1>27 DEF FinishInternal, Return
<1>28. CASE Crash
  BY <1>28 DEF Crash
<1>29. ASSUME NEW p \in Payments, HtlcArrives(p) PROVE IndInv'
  BY <1>29 DEF HtlcArrives
<1>30. ASSUME NEW p \in Payments, HtlcTimesOut(p) PROVE IndInv'
  BY <1>30 DEF HtlcTimesOut
<1>31. ASSUME NEW p \in Payments, BeginReject(p) PROVE IndInv'
  BY <1>31 DEF BeginReject, LockFree, Enter
<1>32. ASSUME NEW p \in Payments, BeginReceive(p) PROVE IndInv'
  BY <1>32 DEF BeginReceive, LockFree, Rejected, Enter, Claimable
<1>33. ASSUME NEW p \in Payments, BeginFinish(p) PROVE IndInv'
  BY <1>33 DEF BeginFinish, LockFree, Enter
<1>34. ASSUME NEW p \in Payments, FailExternal(p) PROVE IndInv'
  BY <1>34 DEF FailExternal, LockFree
<1>35. CASE UNCHANGED vars
  BY <1>35 DEF vars
<1> QED
  BY <1>1, <1>2, <1>3, <1>4, <1>5, <1>6, <1>7, <1>8, <1>9, <1>10, <1>11,
     <1>12, <1>13, <1>14, <1>15, <1>16, <1>17, <1>18, <1>19, <1>20, <1>21,
     <1>22, <1>23, <1>24, <1>25, <1>26, <1>27, <1>28, <1>29, <1>30, <1>31,
     <1>32, <1>33, <1>34, <1>35 DEF Next

(* IndInv holds throughout.                                                *)
THEOREM Invariance == Spec => []IndInv
  BY InitInv, StepInv, PTL DEF Spec

(* Every variable keeps its type.                                          *)
THEOREM TypeCorrect == Spec => []TypeOK
<1>1. IndInv => TypeOK
  BY DEF IndInv
<1> QED
  BY <1>1, Invariance, PTL

(* A local payer's reservation and an external payment never meet.         *)
THEOREM OnePayerHolds == Spec => []OnePayer
<1>1. IndInv => OnePayer
  BY DEF IndInv, PayerInv
<1> QED
  BY <1>1, Invariance, PTL

(* The invoice is collected at most once, over any number of attempts.     *)
THEOREM CollectsOnce == Spec => []CollectOnce
<1>1. IndInv => CollectOnce
  BY DEF IndInv, PayerInv, OnePayer, CollectInv, CollectOnce, Collected
<1> QED
  BY <1>1, Invariance, PTL

(* Nothing is collected before the wallet's payout is committed and saved. *)
THEOREM CollectsAfterPayout == Spec => []CollectAfterPayout
<1>1. IndInv => CollectAfterPayout
  BY DEF IndInv, PayoutInv, CollectInv, CollectAfterPayout, Collected
<1> QED
  BY <1>1, Invariance, PTL

(* TRANSFER_COMPLETED is only reported of a payout that was made and       *)
(* collected.                                                              *)
THEOREM CompletionIsTrue == Spec => []CompletedIsSettled
<1>1. IndInv => CompletedIsSettled
  BY DEF IndInv, StatusInv
<1> QED
  BY <1>1, Invariance, PTL

(* The local payer's SUCCEEDED and FAILED are true of its funding.         *)
THEOREM LocalPayerIsTold == Spec => []LocalPayerTold
<1>1. IndInv => LocalPayerTold
  BY DEF IndInv, StatusInv, LocalInv, CollectInv, LocalPayerTold
<1> QED
  BY <1>1, Invariance, PTL

(* The SSP pays only when it knows who pays it.                            *)
THEOREM PayoutsHavePayers == Spec => []PayoutHasPayer
<1>1. IndInv => PayoutHasPayer
  BY DEF IndInv, PayerInv
<1> QED
  BY <1>1, Invariance, PTL

-----------------------------------------------------------------------------
(* Each step is a step of InvoiceCredit or leaves its variables alone.     *)
LEMMA StepKeepsPromise == IndInv /\ [Next]_vars => [Promise!Next]_(Promise!vars)
<1> SUFFICES ASSUME IndInv, [Next]_vars PROVE [Promise!Next]_(Promise!vars)
  OBVIOUS
<1> USE DEF IndInv, TypeOK, ReceiveRow, ReceiveStatus, SendStatus, Handler, Pc, Idle, Has,
            Final, db, env, OnePayer, PayoutHasPayer, CompletedIsSettled, Collected,
            TaskInv, UnsentInv, PayerInv, PayoutInv, CollectInv, StatusInv, LocalInv,
            Promise!Next, Promise!vars, Promise!Credit, Promise!Charge,
            Promise!Complete, Promise!Fail
<1>1. CASE StoreRequest
  BY <1>1 DEF StoreRequest
<1>2. CASE SetInvoiceCreated
  BY <1>2 DEF SetInvoiceCreated
<1>3. CASE PrepareInternalSend
  BY <1>3 DEF PrepareInternalSend
<1>4. CASE InvoiceExpires
  BY <1>4 DEF InvoiceExpires
<1>5. CASE OperatorCommit
  BY <1>5 DEF OperatorCommit
<1>6. CASE OperatorRefuse
  BY <1>6 DEF OperatorRefuse
<1>7. CASE FundingMarginEnds
  BY <1>7 DEF FundingMarginEnds
<1>8. CASE FundingReturns
  BY <1>8 DEF FundingReturns
<1>9. CASE RejectHtlc
  BY <1>9 DEF RejectHtlc, FailLands, Return
<1>10. CASE FailHtlc
  BY <1>10 DEF FailHtlc, FailLands, Goto
<1>11. CASE FailHtlcError
  BY <1>11 DEF FailHtlcError, FailLands, Return
<1>12. CASE MarkFailed
  BY <1>12 DEF MarkFailed, Return
<1>13. CASE SwapRecovered
  BY <1>13 DEF SwapRecovered, Goto
<1>14. CASE SwapInitiate
  BY <1>14 DEF SwapInitiate, Goto
<1>15. CASE SwapAmbiguous
  BY <1>15 DEF SwapAmbiguous, AttemptError, Goto, Return
<1>16. CASE SwapInsufficient
  BY <1>16 DEF SwapInsufficient, AttemptError, Goto, Return
<1>17. CASE CommitSwap
  BY <1>17 DEF CommitSwap, Recovered, Goto
<1>18. CASE ClaimHtlc
  BY <1>18 DEF ClaimHtlc, Goto
<1>19. CASE ClaimError
  BY <1>19 DEF ClaimError, Return
<1>20. CASE MarkClaimSubmitted
  BY <1>20 DEF MarkClaimSubmitted, Recovered, Return
<1>21. CASE CompleteReceive
  BY <1>21 DEF CompleteReceive, Return
<1>22. CASE SweepExpired
  BY <1>22 DEF SweepExpired, LockFree, Enter
<1>23. CASE BeginInternal
  BY <1>23 DEF BeginInternal, LockFree, Reservable, Enter
<1>24. CASE VerifySender
  BY <1>24 DEF VerifySender, Goto, Return
<1>25. CASE SettleSender
  BY <1>25 DEF SettleSender, Goto
<1>26. CASE SettleSenderError
  BY <1>26 DEF SettleSenderError, Return
<1>27. CASE FinishInternal
  BY <1>27 DEF FinishInternal, Return
<1>28. CASE Crash
  BY <1>28 DEF Crash
<1>29. ASSUME NEW p \in Payments, HtlcArrives(p) PROVE [Promise!Next]_(Promise!vars)
  BY <1>29 DEF HtlcArrives
<1>30. ASSUME NEW p \in Payments, HtlcTimesOut(p) PROVE [Promise!Next]_(Promise!vars)
  BY <1>30 DEF HtlcTimesOut
<1>31. ASSUME NEW p \in Payments, BeginReject(p) PROVE [Promise!Next]_(Promise!vars)
  BY <1>31 DEF BeginReject, LockFree, Enter
<1>32. ASSUME NEW p \in Payments, BeginReceive(p) PROVE [Promise!Next]_(Promise!vars)
  BY <1>32 DEF BeginReceive, LockFree, Rejected, Enter, Claimable
<1>33. ASSUME NEW p \in Payments, BeginFinish(p) PROVE [Promise!Next]_(Promise!vars)
  BY <1>33 DEF BeginFinish, LockFree, Enter
<1>34. ASSUME NEW p \in Payments, FailExternal(p) PROVE [Promise!Next]_(Promise!vars)
  BY <1>34 DEF FailExternal, LockFree
<1>35. CASE UNCHANGED vars
  BY <1>35 DEF vars
<1> QED
  BY <1>1, <1>2, <1>3, <1>4, <1>5, <1>6, <1>7, <1>8, <1>9, <1>10, <1>11,
     <1>12, <1>13, <1>14, <1>15, <1>16, <1>17, <1>18, <1>19, <1>20, <1>21,
     <1>22, <1>23, <1>24, <1>25, <1>26, <1>27, <1>28, <1>29, <1>30, <1>31,
     <1>32, <1>33, <1>34, <1>35 DEF Next

(* The receive implements InvoiceCredit.                                   *)
THEOREM Implementation == Spec => KeepsPromise
<1>1. Init => Promise!Init
  BY DEF Init, Promise!Init, Collected
<1> QED
  BY <1>1, StepKeepsPromise, Invariance, PTL DEF Spec, KeepsPromise, Promise!Spec
=============================================================================
