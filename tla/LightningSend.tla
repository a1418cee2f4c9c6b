--------------------------- MODULE LightningSend ---------------------------
(***************************************************************************)
(* One outgoing Lightning payment of a wallet (BOLT11 or BOLT12), paid by  *)
(* the SSP's LDK node and funded by a Spark transfer.                      *)
(*                                                                         *)
(* The request handler, the reconciler, every status query, the admin      *)
(* call and the event pump all work on the same lightning_sends row with   *)
(* no lock between them: each is a worker that reads a snapshot of the row *)
(* and then acts on it, one database statement or one call at a time.      *)
(***************************************************************************)
EXTENDS Naturals

CONSTANT Workers   \* concurrent tasks: handlers, reconciler, status queries

VARIABLES
  kind,     \* BOLT11 (hash-locked funding) or BOLT12 (prepaid)
  row,      \* lightning_sends: status, and whether payment_id is set
  ldk,      \* LDK's record of the payment
  failed,   \* LDK has reported a failure (an event or a listed status)
  sent,     \* submissions LDK has accepted
  call,     \* each worker's submission: on the wire, answered, or none
  funding,  \* BOLT11: the sender's conditional transfer at the operators
  refund,   \* BOLT12: the deterministic refund transfer exists
  work      \* each worker: its next step and its snapshot of the row

vars == <<kind, row, ldk, failed, sent, call, funding, refund, work>>

SendStatus == {"NONE", "PREPARED", "SUBMITTING", "PENDING", "SETTLING",
               "REFUNDING", "SUCCEEDED", "FAILED"}
Terminal == {"SUCCEEDED", "FAILED"}

Row == [status : SendStatus, payment : {"none", "bound"}]

Pc == {"idle", "verify", "begin", "submit", "await", "bind", "lookup",
       "reverify", "resubmit", "reawait", "relookup", "rebind", "bindFound", "observe",
       "settle", "markSucceeded", "markSettling", "fail", "markRefunding",
       "refund", "markFailed", "markPending"}

TypeOK ==
  /\ kind \in {"BOLT11", "BOLT12"}
  /\ row \in Row
  /\ ldk \in {"absent", "pending", "succeeded", "failed"}
  /\ failed \in BOOLEAN
  /\ sent \in Nat
  /\ call \in [Workers -> {"none", "sent", "ok", "error"}]
  /\ funding \in {"locked", "expiring", "claimed", "returned"}
  /\ refund \in BOOLEAN
  /\ work \in [Workers -> [pc : Pc, snap : Row]]

NoRow == [status |-> "NONE", payment |-> "none"]
Idle  == [pc |-> "idle", snap |-> NoRow]

Init ==
  /\ kind \in {"BOLT11", "BOLT12"}
  /\ row = NoRow
  /\ ldk = "absent"
  /\ failed = FALSE
  /\ sent = 0
  /\ call = [w \in Workers |-> "none"]
  /\ funding = "locked"
  /\ refund = FALSE
  /\ work = [w \in Workers |-> Idle]

At(w, pc)   == work[w].pc = pc
Goto(w, pc) == work' = [work EXCEPT ![w] = [pc |-> pc, snap |-> work[w].snap]]
Return(w)   == work' = [work EXCEPT ![w] = Idle]
Free(w)     == At(w, "idle") /\ call[w] = "none"

ldkVars   == <<ldk, failed, sent, call>>
sparkVars == <<funding, refund>>

(* verify_lightning_send_funding: BOLT11 funding must wait for a preimage  *)
(* and outlive the route by the margin ("locked", not "expiring"); BOLT12  *)
(* funding is complete.                                                    *)
FundingVerified == kind = "BOLT11" => funding = "locked"

(* set_payment writes unless the row is terminal.                          *)
SetPayment(status) ==
  row' = IF row.status \in Terminal THEN row ELSE [row EXCEPT !.status = status]

-----------------------------------------------------------------------------
(* RequestLightningSend, under send_lock: a new intent is verified and     *)
(* stored, and its PREPARED snapshot submitted.                            *)
PrepareSend(w) ==
  /\ Free(w) /\ row = NoRow
  /\ FundingVerified
  /\ row' = [status |-> "PREPARED", payment |-> "none"]
  /\ work' = [work EXCEPT ![w] = [pc |-> "verify", snap |-> row']]
  /\ UNCHANGED <<kind, ldkVars, sparkVars>>

(* recover_send on a fresh read of the row (a repeated request, the        *)
(* reconciler, payment_status, the admin call).                            *)
BeginRecover(w) ==
  /\ Free(w) /\ row.status \notin Terminal \cup {"NONE"}
  /\ work' = [work EXCEPT ![w] =
       [pc |-> IF row.status = "PREPARED" THEN "verify" ELSE "lookup", snap |-> row]]
  /\ UNCHANGED <<kind, row, ldkVars, sparkVars>>

(* An LDK event, or an entry of a listed page: the status may be old.      *)
BeginEvent(w) ==
  /\ Free(w) /\ row.payment = "bound"
  /\ \/ ldk = "succeeded" /\ Goto(w, "settle")
     \/ failed /\ Goto(w, "fail")
     \/ Goto(w, "markPending")
  /\ UNCHANGED <<kind, row, ldkVars, sparkVars>>

-----------------------------------------------------------------------------
(* submit_send and submit_durable_send *)
(* Mutant: the retry of a missing payment does not check the funding.      *)
VerifyFirstOnly(w) ==
  /\ \/ At(w, "verify") /\ FundingVerified /\ Goto(w, "begin")
     \/ At(w, "reverify") /\ Goto(w, "resubmit")
     \/ At(w, "verify") /\ Return(w)
  /\ UNCHANGED <<kind, row, ldkVars, sparkVars>>

Verify(w) ==
  /\ \/ At(w, "verify") /\ FundingVerified /\ Goto(w, "begin")
     \/ At(w, "reverify") /\ FundingVerified /\ Goto(w, "resubmit")
     \/ (At(w, "verify") \/ At(w, "reverify")) /\ Return(w)
  /\ UNCHANGED <<kind, row, ldkVars, sparkVars>>

(* Mutant: the update does not require PREPARED.                           *)
BeginSubmissionUnchecked(w) ==
  /\ At(w, "begin")
  /\ row' = [row EXCEPT !.status = "SUBMITTING"]
  /\ Goto(w, "submit")
  /\ UNCHANGED <<kind, ldkVars, sparkVars>>

(* begin_lightning_submission: compare-and-set PREPARED -> SUBMITTING.     *)
BeginSubmission(w) ==
  /\ At(w, "begin")
  /\ \/ /\ row.status = "PREPARED"
        /\ row' = [row EXCEPT !.status = "SUBMITTING"]
        /\ Goto(w, "submit")
     \/ row.status # "PREPARED" /\ Return(w) /\ UNCHANGED row
  /\ UNCHANGED <<kind, ldkVars, sparkVars>>

Submit(w) ==
  /\ \/ At(w, "submit") /\ Goto(w, "await")
     \/ At(w, "resubmit") /\ Goto(w, "reawait")
  /\ call' = [call EXCEPT ![w] = "sent"]
  /\ UNCHANGED <<kind, row, ldk, failed, sent, sparkVars>>

(* An accepted call is bound.  An error is recorded; a BOLT11 retry looks  *)
(* the payment up once more.  The caller may also give up on a call that   *)
(* is still on the wire.                                                   *)
SubmitReply(w) ==
  /\ At(w, "await") \/ At(w, "reawait")
  /\ \/ call[w] = "ok" /\ Goto(w, IF At(w, "await") THEN "bind" ELSE "rebind")
     \/ At(w, "await") /\ Return(w)
     \/ At(w, "reawait") /\ Goto(w, "relookup")
  /\ call' = [call EXCEPT ![w] = IF @ = "sent" THEN @ ELSE "none"]
  /\ UNCHANGED <<kind, row, ldk, failed, sent, sparkVars>>

-----------------------------------------------------------------------------
(* bind_lightning_payment *)

Bound ==
  [status  |-> IF row.status \in {"PREPARED", "SUBMITTING"} THEN "PENDING" ELSE row.status,
   payment |-> "bound"]

Bind(w) ==
  /\ \/ (At(w, "bind") \/ At(w, "rebind")) /\ Return(w)
     \/ At(w, "bindFound") /\ Goto(w, "observe")
  /\ row' = Bound
  /\ UNCHANGED <<kind, ldkVars, sparkVars>>

(* Mutant: a BOLT12 payment that is not found is taken for a failed one.   *)
LookupMissingFails(w) ==
  /\ At(w, "lookup")
  /\ \/ ldk # "absent" /\ Goto(w, "bindFound")
     \/ ldk = "absent" /\ Goto(w, IF kind = "BOLT12" THEN "fail" ELSE "reverify")
  /\ UNCHANGED <<kind, row, ldkVars, sparkVars>>

(* Mutant: a payment that is found is not bound to its row.                *)
LookupUnbound(w) ==
  /\ At(w, "lookup")
  /\ \/ /\ ldk = "absent" /\ kind = "BOLT11"
        /\ work[w].snap = [status |-> "SUBMITTING", payment |-> "none"]
        /\ Goto(w, "reverify")
     \/ Return(w)
  /\ UNCHANGED <<kind, row, ldkVars, sparkVars>>

(* Mutant: a missing BOLT11 payment is never submitted again.              *)
LookupNoRetry(w) ==
  /\ At(w, "lookup")
  /\ \/ ldk # "absent" /\ Goto(w, "bindFound")
     \/ Return(w)
  /\ UNCHANGED <<kind, row, ldkVars, sparkVars>>

(* recover_submission and the dispatch on its answer in recover_send.      *)
Lookup(w) ==
  /\ At(w, "lookup")
  /\ \/ ldk # "absent" /\ Goto(w, "bindFound")
     \/ /\ ldk = "absent" /\ kind = "BOLT11"
        /\ work[w].snap = [status |-> "SUBMITTING", payment |-> "none"]
        /\ Goto(w, "reverify")
     \/ Return(w)
  /\ UNCHANGED <<kind, row, ldkVars, sparkVars>>

(* retry_missing_bolt11 after an error                                     *)
LookupAgain(w) ==
  /\ At(w, "relookup")
  /\ \/ ldk # "absent" /\ Goto(w, "bind")
     \/ Return(w)
  /\ UNCHANGED <<kind, row, ldkVars, sparkVars>>

(* Mutant: anything that has not failed is settled.                        *)
ObservePendingSettles(w) ==
  /\ At(w, "observe")
  /\ \/ ldk # "failed" /\ row.status # "SUCCEEDED" /\ Goto(w, "settle")
     \/ ldk = "failed" /\ Goto(w, "fail")
     \/ Return(w)
  /\ UNCHANGED <<kind, row, ldkVars, sparkVars>>

(* observe_payment asks LDK for the status again.                          *)
Observe(w) ==
  /\ At(w, "observe")
  /\ \/ ldk = "succeeded" /\ row.status # "SUCCEEDED" /\ Goto(w, "settle")
     \/ ldk = "failed" /\ Goto(w, "fail")
     \/ Return(w)
  /\ UNCHANGED <<kind, row, ldkVars, sparkVars>>

-----------------------------------------------------------------------------
(* Mutant: an error of the settlement is ignored.                          *)
SettleErrorIgnored(w) ==
  /\ At(w, "settle")
  /\ funding' \in {funding} \cup (IF kind = "BOLT11" /\ funding # "returned"
                                    THEN {"claimed"} ELSE {})
  /\ Goto(w, "markSucceeded")
  /\ UNCHANGED <<kind, row, ldkVars, refund>>

(* settle_succeeded_payment: BOLT11 claims the funding with the preimage;  *)
(* BOLT12 records the proof.  An error (the claim may have landed) leaves  *)
(* SETTLING.                                                               *)
Settle(w) ==
  /\ At(w, "settle")
  /\ \/ /\ kind = "BOLT11" => funding # "returned"
        /\ funding' = IF kind = "BOLT11" THEN "claimed" ELSE funding
        /\ Goto(w, "markSucceeded")
     \/ /\ funding' \in {funding} \cup (IF kind = "BOLT11" /\ funding # "returned"
                                         THEN {"claimed"} ELSE {})
        /\ Goto(w, "markSettling")
  /\ UNCHANGED <<kind, row, ldkVars, refund>>

(* The write that ends each path, and the REFUNDING checkpoint before a    *)
(* refund; "markPending" is the reconciler's for a payment its page listed *)
(* as pending.                                                             *)
MarkStatus(w) ==
  /\ \/ At(w, "markSucceeded") /\ SetPayment("SUCCEEDED") /\ Return(w)
     \/ At(w, "markSettling") /\ SetPayment("SETTLING") /\ Return(w)
     \/ At(w, "markRefunding") /\ SetPayment("REFUNDING") /\ Goto(w, "refund")
     \/ At(w, "markFailed") /\ SetPayment("FAILED") /\ Return(w)
     \/ At(w, "markPending") /\ SetPayment("PENDING") /\ Return(w)
  /\ UNCHANGED <<kind, ldkVars, sparkVars>>

(* Mutant: a refund that was begun is left to whoever began it.            *)
FailPaymentOnce(w) ==
  /\ At(w, "fail")
  /\ \/ row.status \in Terminal \cup {"REFUNDING"} /\ Return(w)
     \/ row.status \notin Terminal /\ kind = "BOLT11" /\ Goto(w, "markFailed")
     \/ /\ row.status \notin Terminal \cup {"REFUNDING"} /\ kind = "BOLT12"
        /\ Goto(w, "markRefunding")
  /\ UNCHANGED <<kind, row, ldkVars, sparkVars>>

(* fail_managed_payment reads the row, then acts on what it read.          *)
FailPayment(w) ==
  /\ At(w, "fail")
  /\ \/ row.status \in Terminal /\ Return(w)
     \/ row.status \notin Terminal /\ kind = "BOLT11" /\ Goto(w, "markFailed")
     \/ row.status \notin Terminal /\ kind = "BOLT12" /\ Goto(w, "markRefunding")
  /\ UNCHANGED <<kind, row, ldkVars, sparkVars>>

(* refund_bolt12_send: found or created under its deterministic id; an     *)
(* error may hide a refund that was made.                                  *)
Refund(w) ==
  /\ At(w, "refund")
  /\ \/ refund' = TRUE /\ Goto(w, "markFailed")
     \/ (refund' = TRUE \/ UNCHANGED refund) /\ Return(w)
  /\ UNCHANGED <<kind, row, ldkVars, funding>>

-----------------------------------------------------------------------------
(* External: LDK, and the Spark funding's deadline. *)

(* An answer reaches a worker that still waits for it.                     *)
Answered(w, answer) ==
  call' = [call EXCEPT ![w] = IF At(w, "await") \/ At(w, "reawait") THEN answer ELSE "none"]

(* LDK refuses an invoice it has a pending or successful payment for.      *)
(* Offers get a fresh id, so each accepted call is a payment of its own.   *)
LdkAnswer(w) ==
  /\ call[w] = "sent"
  /\ \/ /\ ldk \in {"absent", "failed"} \/ kind = "BOLT12"
        /\ ldk' = "pending" /\ sent' = sent + 1
        /\ Answered(w, "ok")
     \/ /\ Answered(w, "error")
        /\ UNCHANGED <<ldk, sent>>
  /\ UNCHANGED <<kind, row, failed, sparkVars, work>>

LdkSucceeds ==
  /\ ldk = "pending"
  /\ ldk' = "succeeded"
  /\ UNCHANGED <<kind, row, failed, sent, call, sparkVars, work>>

LdkFails ==
  /\ ldk = "pending"
  /\ ldk' = "failed" /\ failed' = TRUE
  /\ UNCHANGED <<kind, row, sent, call, sparkVars, work>>

(* The route CLTV cap: a payment that was submitted resolves while its     *)
(* funding still has the margin.                                           *)
MarginEnds ==
  /\ kind = "BOLT11" /\ funding = "locked" /\ ldk # "pending"
  /\ \A w \in Workers : call[w] = "none" /\ work[w].pc \notin {"begin", "submit", "resubmit"}
  /\ funding' = "expiring"
  /\ UNCHANGED <<kind, row, ldkVars, refund, work>>

FundingReturns ==
  /\ kind = "BOLT11" /\ funding = "expiring"
  /\ funding' = "returned"
  /\ UNCHANGED <<kind, row, ldkVars, refund, work>>

Crash ==
  /\ work # [w \in Workers |-> Idle]
  /\ work' = [w \in Workers |-> Idle]
  /\ call' = [w \in Workers |-> IF call[w] = "sent" THEN "sent" ELSE "none"]
  /\ UNCHANGED <<kind, row, ldk, failed, sent, sparkVars>>

-----------------------------------------------------------------------------
Next ==
  \/ \E w \in Workers :
       \/ PrepareSend(w) \/ BeginRecover(w) \/ BeginEvent(w)
       \/ Verify(w) \/ BeginSubmission(w) \/ Submit(w) \/ SubmitReply(w) \/ Bind(w)
       \/ Lookup(w) \/ LookupAgain(w) \/ Observe(w)
       \/ Settle(w) \/ MarkStatus(w) \/ FailPayment(w) \/ Refund(w)
       \/ LdkAnswer(w)
  \/ LdkSucceeds \/ LdkFails \/ MarginEnds \/ FundingReturns \/ Crash

Spec == Init /\ [][Next]_vars

-----------------------------------------------------------------------------
(* Properties *)

(* The SSP takes the sender's hash-locked transfer only for a payment that *)
(* LDK made: a stale event, a lost reply or a second worker never settles  *)
(* the funding of an invoice that was not paid (settle_succeeded_payment). *)
ChargedOnlyIfPaid == funding = "claimed" => ldk = "succeeded"

(* SUCCEEDED is written only when the payment went through, its BOLT11     *)
(* funding was collected, and no refund was made by another worker.        *)
SucceededIsSettled ==
  row.status = "SUCCEEDED" =>
    ldk = "succeeded" /\ (kind = "BOLT11" => funding = "claimed") /\ ~refund

(* A prepaid BOLT12 send is refunded only once LDK has failed the payment  *)
(* for good, whatever the workers knew when they called                    *)
(* refund_bolt12_send.                                                     *)
RefundOnlyAfterFailure == refund => kind = "BOLT12" /\ ldk = "failed"

(* fail_managed_payment reports a prepaid send FAILED only after the       *)
(* sender has the money back.                                              *)
FailedIsRefunded == row.status = "FAILED" /\ kind = "BOLT12" => refund

(* An offer has no idempotent backend id, so LDK accepts at most one call  *)
(* for it, over crashes, lost replies and concurrent recoveries            *)
(* (begin_lightning_submission).                                           *)
OffersSentOnce == kind = "BOLT12" => sent <= 1

(* A BOLT11 payment in flight always has funding that can still be         *)
(* collected: every submission, the late retry of recover_send included,   *)
(* follows a check of the funding (refresh_route_cltv).                    *)
InFlightIsFunded == kind = "BOLT11" /\ ldk = "pending" => funding # "returned"

(* retry_missing_bolt11 reuses the invoice's payment id only while LDK has *)
(* no record of it, so a payment LDK has failed is never revived.          *)
RetryNeedsNoRecord == [][ldk = "failed" => ldk' = "failed"]_vars
=============================================================================
