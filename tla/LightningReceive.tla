-------------------------- MODULE LightningReceive --------------------------
(***************************************************************************)
(* The settlement of ONE wallet BOLT11 invoice by the SSP.                 *)
(*                                                                         *)
(* The invoice can be paid by external Lightning HTLCs (each attempt has   *)
(* its own backend payment id) or by one local wallet, through the same    *)
(* SSP ("internal send": lightning_sends is unique in the invoice hash).   *)
(* The SSP pays the wallet with one Spark preimage swap, which reveals the *)
(* preimage, and then collects from the payer with it.                     *)
(*                                                                         *)
(* Every handler (event pump, reconciler, expiry sweep, internal send)     *)
(* runs under receive_lock, so at most one is inside; `ctl` is that one.   *)
(* What a handler holds in memory is in `ctl` and is lost in a crash; rows *)
(* of the database, LDK and the Spark operators survive it.                *)
(***************************************************************************)
EXTENDS Naturals

CONSTANTS
  Payments,   \* backend payment ids of the external attempts
  Exact,      \* the attempts whose amount is exactly the invoice amount
  NULL,       \* no payment id
  Attempts    \* calls retry_bounded makes (5 in the code)

ASSUME PaymentsAssumption == Exact \subseteq Payments /\ NULL \notin Payments
ASSUME AttemptsAssumption == Attempts \in Nat \ {0}

VARIABLES
  rcv,       \* the receive_payments row of the invoice (database)
  transfer,  \* status of the transfers row of the receive request (database)
  invoice,   \* how far RequestLightningReceive got
  expired,   \* expires_at has passed
  internal,  \* internal_payments holds a reservation for this hash (database)
  send,      \* lightning_sends.status of the local payer (database)
  htlc,      \* LDK: each external attempt
  swap,      \* operators: the preimage swap with the invoice's transfer id
  funding,   \* operators: the local payer's conditional transfer
  ctl        \* the handler that holds receive_lock

db   == <<rcv, transfer, internal, send>>
env  == <<invoice, expired>>
vars == <<rcv, transfer, invoice, expired, internal, send,
          htlc, swap, funding, ctl>>

(***************************************************************************)
(* Types.  "NONE" is a missing receive_payments row; readers COALESCE it   *)
(* to INVOICE_CREATED.  `filled` names the columns that are not NULL (or,  *)
(* for claim_submitted, not 0); transfer_id and preimage are only ever     *)
(* written together, so one name stands for both.  An HTLC is "failed"     *)
(* when the SSP failed it and "timedout" when its own deadline passed: LDK *)
(* lists both as Failed.  Funding is "expiring" when less than the margin  *)
(* that verify_sender asks for is left.                                    *)
(***************************************************************************)
ReceiveStatus ==
  {"NONE", "INVOICE_CREATED", "HTLC_RECEIVED", "HTLC_FAILED",
   "TRANSFER_CREATION_FAILED", "PAYMENT_PREIMAGE_RECOVERED",
   "TRANSFER_COMPLETED"}

SendStatus == {"NONE", "PREPARED", "SETTLING", "SUCCEEDED", "FAILED"}

ReceiveRow ==
  [status : ReceiveStatus, payment : Payments \cup {NULL},
   filled : SUBSET {"claimable_amount", "transfer_id", "claim_submitted"}]

Pc == {"idle", "reject", "failHtlc", "markFailed", "swap", "await", "commit",
       "claim", "markClaimed", "complete", "verify", "settle", "finish"}

Handler ==
  [pc : Pc, task : {"none", "receive", "sweep", "internal"},
   pay : Payments \cup {NULL}, tries : 0..Attempts]

Idle == [pc |-> "idle", task |-> "none", pay |-> NULL, tries |-> 0]

TypeOK ==
  /\ rcv \in ReceiveRow
  /\ transfer \in {"none", "TRANSFER_CREATED", "TRANSFER_COMPLETED"}
  /\ invoice \in {"none", "stored", "ready", "orphan"}
  /\ expired \in BOOLEAN
  /\ internal \in BOOLEAN
  /\ send \in SendStatus
  /\ htlc \in [Payments -> {"none", "claimable", "claimed", "failed", "timedout"}]
  /\ swap \in {"none", "inflight", "committed"}
  /\ funding \in {"none", "locked", "expiring", "claimed", "returned"}
  /\ ctl \in Handler

Init ==
  /\ rcv = [status |-> "NONE", payment |-> NULL, filled |-> {}]
  /\ transfer = "none"
  /\ invoice = "none"
  /\ expired = FALSE
  /\ internal = FALSE
  /\ send = "NONE"
  /\ htlc = [p \in Payments |-> "none"]
  /\ swap = "none"
  /\ funding = "none"
  /\ ctl = Idle

-----------------------------------------------------------------------------
(* Control: where the handler in the lock goes next. *)

LockFree == ctl.pc = "idle"
Goto(pc) == ctl' = [ctl EXCEPT !.pc = pc]
Return   == ctl' = Idle
Enter(task, pc, p) == ctl' = [pc |-> pc, task |-> task, pay |-> p, tries |-> 1]

Has(column) == column \in rcv.filled

Final(status) == status \in {"TRANSFER_COMPLETED", "HTLC_FAILED"}

-----------------------------------------------------------------------------
(* RequestLightningReceive: the request row is stored, then the status row *)
(* is written without the lock.  The invoice leaves with the response.     *)

StoreRequest ==
  /\ invoice = "none"
  /\ invoice' = "stored"
  /\ UNCHANGED <<db, expired, htlc, swap, funding, ctl>>

SetInvoiceCreated ==
  /\ invoice = "stored"
  /\ invoice' = "ready"
  /\ rcv' = [rcv EXCEPT !.status = "INVOICE_CREATED"]
  /\ UNCHANGED <<transfer, internal, send, expired, htlc, swap, funding, ctl>>

(* prepare_send verified the funding and stored the intent: the local      *)
(* payer's row and its conditional transfer exist from here on.            *)
PrepareInternalSend ==
  /\ invoice = "ready" /\ ~expired
  /\ send = "NONE"
  /\ send' = "PREPARED"
  /\ funding' = "locked"
  /\ UNCHANGED <<rcv, transfer, internal, env, htlc, swap, ctl>>

-----------------------------------------------------------------------------
(* External: LDK, the clock and the operators. *)

HtlcArrives(p) ==
  /\ invoice = "ready" /\ htlc[p] = "none"
  /\ htlc' = [htlc EXCEPT ![p] = "claimable"]
  /\ UNCHANGED <<db, env, swap, funding, ctl>>

HtlcTimesOut(p) ==
  /\ htlc[p] = "claimable"
  /\ htlc' = [htlc EXCEPT ![p] = "timedout"]
  /\ UNCHANGED <<db, env, swap, funding, ctl>>

InvoiceExpires ==
  /\ invoice # "none" /\ ~expired
  /\ expired' = TRUE
  /\ UNCHANGED <<db, invoice, htlc, swap, funding, ctl>>

(* A swap request that left the SSP can be executed or refused after its   *)
(* caller gave up.                                                         *)
OperatorCommit ==
  /\ swap = "inflight"
  /\ swap' = "committed"
  /\ UNCHANGED <<db, env, htlc, funding, ctl>>

OperatorRefuse ==
  /\ swap = "inflight"
  /\ swap' = "none"
  /\ UNCHANGED <<db, env, htlc, funding, ctl>>

FundingMarginEnds ==
  /\ funding = "locked"
  /\ funding' = "expiring"
  /\ UNCHANGED <<db, env, htlc, swap, ctl>>

FundingReturns ==
  /\ funding = "expiring"
  /\ funding' = "returned"
  /\ UNCHANGED <<db, env, htlc, swap, ctl>>

-----------------------------------------------------------------------------
(* process_standard_receive.  The observation that p is claimable comes    *)
(* from the event stream or from a page the reconciler listed; either can  *)
(* be old, so p is any attempt that has been claimable.                    *)

(* The attempt must be failed by its own id, leaving the row alone.        *)
Rejected(p) ==
  \/ internal
  \/ rcv.payment # NULL /\ rcv.payment # p
  \/ rcv.status = "HTLC_FAILED"
  \/ rcv.status = "TRANSFER_COMPLETED" /\ rcv.payment # p

(* mark_receive_claimable *)
Claimable(p) ==
  [status  |-> IF Final(rcv.status) \/ Has("transfer_id") THEN rcv.status ELSE "HTLC_RECEIVED",
   payment |-> p,
   filled  |-> rcv.filled \cup {"claimable_amount"}]
(* Mutant: the attempt is ignored instead of failed.                       *)
BeginRejectIgnored(p) ==
  /\ LockFree /\ htlc[p] # "none"
  /\ Rejected(p)
  /\ UNCHANGED vars

BeginReject(p) ==
  /\ LockFree /\ htlc[p] # "none"
  /\ Rejected(p)
  /\ Enter("receive", "reject", p)
  /\ UNCHANGED <<db, env, htlc, swap, funding>>

BeginReceive(p) ==
  /\ LockFree /\ htlc[p] # "none"
  /\ ~Rejected(p)
  /\ rcv.status # "TRANSFER_COMPLETED"
  /\ rcv' = Claimable(p)
  /\ \/ p \notin Exact /\ Enter("receive", "failHtlc", p)
     \/ p \in Exact /\ ~Has("transfer_id") /\ Enter("receive", "swap", p)
     \/ p \in Exact /\ Has("transfer_id") /\ ~Has("claim_submitted") /\ Enter("receive", "claim", p)
     \/ p \in Exact /\ Has("transfer_id") /\ Has("claim_submitted") /\ UNCHANGED ctl
  /\ UNCHANGED <<transfer, internal, send, env, htlc, swap, funding>>

(* ldk.fail_receive lands on an HTLC that is still claimable.              *)
FailLands(p) == htlc' = [htlc EXCEPT ![p] = IF @ = "claimable" THEN "failed" ELSE @]

(* The reject path returns whether or not the call worked.                 *)
RejectHtlc ==
  /\ ctl.pc = "reject"
  /\ FailLands(ctl.pay) \/ UNCHANGED htlc
  /\ Return
  /\ UNCHANGED <<db, env, swap, funding>>

(* fail_unfunded_receive and the sweep: the row follows the LDK call.      *)
FailHtlc ==
  /\ ctl.pc = "failHtlc"
  /\ htlc[ctl.pay] # "claimed"
  /\ FailLands(ctl.pay)
  /\ Goto("markFailed")
  /\ UNCHANGED <<db, env, swap, funding>>

FailHtlcError ==
  /\ ctl.pc = "failHtlc"
  /\ FailLands(ctl.pay) \/ UNCHANGED htlc
  /\ Return
  /\ UNCHANGED <<db, env, swap, funding>>

MarkFailed ==
  /\ ctl.pc = "markFailed"
  /\ rcv' = [rcv EXCEPT !.status = "HTLC_FAILED"]
  /\ Return
  /\ UNCHANGED <<transfer, internal, send, env, htlc, swap, funding>>

-----------------------------------------------------------------------------
(* swap_for_lightning_receive: look the swap up by its deterministic       *)
(* transfer id first, then select leaves, then ask the operators.          *)
(* Mutant: the HTLC is claimed before the checkpoint.                      *)
SwapRecoveredClaims ==
  /\ ctl.pc \in {"swap", "await"}
  /\ swap = "committed"
  /\ Goto(IF ctl.task = "internal" THEN "commit" ELSE "claim")
  /\ UNCHANGED <<db, env, htlc, swap, funding>>

SwapRecovered ==
  /\ ctl.pc \in {"swap", "await"}
  /\ swap = "committed"
  /\ Goto("commit")
  /\ UNCHANGED <<db, env, htlc, swap, funding>>

SwapInitiate ==
  /\ ctl.pc = "swap"
  /\ swap # "committed"
  /\ swap' = "inflight"
  /\ Goto("await")
  /\ UNCHANGED <<db, env, htlc, funding>>

(* An attempt failed.  A receive retries, and its last error decides       *)
(* whether the HTLC is failed at once; an internal send just returns.      *)
AttemptError(definitive) ==
  \/ /\ ctl.task = "receive" /\ ctl.tries < Attempts
     /\ ctl' = [pc |-> "swap", task |-> ctl.task, pay |-> ctl.pay, tries |-> ctl.tries + 1]
     /\ UNCHANGED rcv
  \/ /\ ctl.task = "receive" /\ ctl.tries = Attempts
     /\ rcv' = [rcv EXCEPT !.status = "TRANSFER_CREATION_FAILED"]
     /\ IF definitive THEN Goto("failHtlc") ELSE Return
  \/ /\ ctl.task = "internal"
     /\ Return
     /\ UNCHANGED rcv

(* A timeout, a lost reply, an operator error: the request may have left.  *)
SwapAmbiguous ==
  /\ ctl.pc \in {"swap", "await"}
  /\ AttemptError(FALSE)
  /\ UNCHANGED <<transfer, internal, send, env, htlc, swap, funding>>

(* No leaves for the amount, after the lookup found no committed swap.     *)
SwapInsufficient ==
  /\ ctl.pc = "swap"
  /\ swap # "committed"
  /\ AttemptError(TRUE)
  /\ UNCHANGED <<transfer, internal, send, env, htlc, swap, funding>>

(* The status while the SSP has the preimage and has yet to collect.       *)
Recovered(column) ==
  rcv' = [status  |-> "PAYMENT_PREIMAGE_RECOVERED",
          payment |-> rcv.payment,
          filled  |-> rcv.filled \cup {column}]

(* commit_lightning_receive_swap: one transaction.                         *)
CommitSwap ==
  /\ ctl.pc = "commit"
  /\ Recovered("transfer_id")
  /\ transfer' = "TRANSFER_CREATED"
  /\ Goto(IF ctl.task = "internal" THEN "settle" ELSE "claim")
  /\ UNCHANGED <<internal, send, env, htlc, swap, funding>>

-----------------------------------------------------------------------------
(* Collecting from the external payer. *)

ClaimHtlc ==
  /\ ctl.pc = "claim"
  /\ htlc[ctl.pay] \in {"claimable", "claimed"}
  /\ htlc' = [htlc EXCEPT ![ctl.pay] = "claimed"]
  /\ Goto("markClaimed")
  /\ UNCHANGED <<db, env, swap, funding>>

(* Every attempt failed; one of them may have landed all the same.         *)
ClaimError ==
  /\ ctl.pc = "claim"
  /\ \/ htlc[ctl.pay] = "claimable" /\ htlc' = [htlc EXCEPT ![ctl.pay] = "claimed"]
     \/ UNCHANGED htlc
  /\ Return
  /\ UNCHANGED <<db, env, swap, funding>>

(* mark_receive_claim_submitted *)
MarkClaimSubmitted ==
  /\ ctl.pc = "markClaimed"
  /\ Recovered("claim_submitted")
  /\ Return
  /\ UNCHANGED <<transfer, internal, send, env, htlc, swap, funding>>

(* Mutant: only a claim this process recorded is finished.                 *)
BeginFinishRecorded(p) ==
  /\ LockFree /\ htlc[p] = "claimed"
  /\ ~internal /\ rcv.payment \in {NULL, p}
  /\ Has("transfer_id") /\ Has("claim_submitted")
  /\ transfer' = "TRANSFER_COMPLETED"
  /\ Enter("receive", "complete", p)
  /\ UNCHANGED <<rcv, internal, send, env, htlc, swap, funding>>

(* finish_received_payment: the transfer row first, then the status.       *)
BeginFinish(p) ==
  /\ LockFree /\ htlc[p] = "claimed"
  /\ ~internal /\ rcv.payment \in {NULL, p}
  /\ Has("transfer_id")
  /\ transfer' = "TRANSFER_COMPLETED"
  /\ Enter("receive", "complete", p)
  /\ UNCHANGED <<rcv, internal, send, env, htlc, swap, funding>>

CompleteReceive ==
  /\ ctl.pc = "complete"
  /\ rcv' = [rcv EXCEPT !.status = "TRANSFER_COMPLETED"]
  /\ Return
  /\ UNCHANGED <<transfer, internal, send, env, htlc, swap, funding>>

(* Mutant: the update does not exclude a reserved invoice.                 *)
FailExternalReserved(p) ==
  /\ LockFree /\ htlc[p] \in {"failed", "timedout"}
  /\ rcv.status \notin {"NONE", "TRANSFER_COMPLETED"}
  /\ rcv.payment \in {NULL, p}
  /\ rcv' = [rcv EXCEPT !.status = "HTLC_FAILED"]
  /\ UNCHANGED <<transfer, internal, send, env, htlc, swap, funding, ctl>>

(* fail_external_receive, for an attempt LDK lists as Failed.              *)
FailExternal(p) ==
  /\ LockFree /\ htlc[p] \in {"failed", "timedout"}
  /\ rcv.status \notin {"NONE", "TRANSFER_COMPLETED"}
  /\ rcv.payment \in {NULL, p} /\ ~internal
  /\ rcv' = [rcv EXCEPT !.status = "HTLC_FAILED"]
  /\ UNCHANGED <<transfer, internal, send, env, htlc, swap, funding, ctl>>

(* The expiry sweep of reconcile_payments, rechecked under the lock.       *)
SweepExpired ==
  /\ LockFree /\ expired
  /\ ~internal /\ ~Has("transfer_id") /\ ~Final(rcv.status) /\ transfer = "none"
  /\ \/ /\ rcv.payment = NULL
        /\ rcv' = [rcv EXCEPT !.status = "HTLC_FAILED"]
        /\ UNCHANGED ctl
     \/ /\ rcv.payment # NULL
        /\ Enter("sweep", "failHtlc", rcv.payment)
        /\ UNCHANGED rcv
  /\ UNCHANGED <<transfer, internal, send, env, htlc, swap, funding>>

-----------------------------------------------------------------------------
(* process_internal_send *)

(* reserve_internal_send: what it asks of the receive.                     *)
Reservable ==
  /\ ~expired
  /\ rcv.status \in {"NONE", "INVOICE_CREATED"}
  /\ ~Has("claimable_amount") /\ ~Has("transfer_id")

(* Mutant: an earlier reservation of the same send is not recognised.      *)
BeginInternalAnew ==
  /\ LockFree /\ send \in {"PREPARED", "SETTLING"}
  /\ \/ /\ ~internal /\ Reservable
        /\ internal' = TRUE
        /\ send' = "SETTLING"
        /\ Enter("internal", "verify", NULL)
     \/ /\ internal \/ ~Reservable
        /\ send' = "FAILED"
        /\ UNCHANGED <<internal, ctl>>
  /\ UNCHANGED <<rcv, transfer, env, htlc, swap, funding>>

(* Mutant: the stored preimage is not used.                                *)
BeginInternalVerifies ==
  /\ LockFree /\ send \in {"PREPARED", "SETTLING"}
  /\ \/ /\ internal
        /\ Enter("internal", "verify", NULL)
        /\ UNCHANGED <<internal, send>>
     \/ /\ ~internal /\ Reservable
        /\ internal' = TRUE
        /\ send' = "SETTLING"
        /\ Enter("internal", "verify", NULL)
     \/ /\ ~internal /\ ~Reservable
        /\ send' = "FAILED"
        /\ UNCHANGED <<internal, ctl>>
  /\ UNCHANGED <<rcv, transfer, env, htlc, swap, funding>>

(* The row is not terminal; reserve_internal_send keeps an earlier         *)
(* reservation, makes one, or the send is FAILED.                          *)
BeginInternal ==
  /\ LockFree /\ send \in {"PREPARED", "SETTLING"}
  /\ \/ /\ internal
        /\ Enter("internal", IF Has("transfer_id") THEN "settle" ELSE "verify", NULL)
        /\ UNCHANGED <<internal, send>>
     \/ /\ ~internal /\ Reservable
        /\ internal' = TRUE
        /\ send' = "SETTLING"
        /\ Enter("internal", "verify", NULL)
     \/ /\ ~internal /\ ~Reservable
        /\ send' = "FAILED"
        /\ UNCHANGED <<internal, ctl>>
  /\ UNCHANGED <<rcv, transfer, env, htlc, swap, funding>>

VerifySender ==
  /\ ctl.pc = "verify"
  /\ \/ funding = "locked" /\ Goto("swap")
     \/ Return
  /\ UNCHANGED <<db, env, htlc, swap, funding>>

SettleSender ==
  /\ ctl.pc = "settle"
  /\ funding \in {"locked", "expiring", "claimed"}
  /\ funding' = "claimed"
  /\ Goto("finish")
  /\ UNCHANGED <<db, env, htlc, swap>>

(* An error of settle_sender may hide a settlement that was made.          *)
SettleSenderError ==
  /\ ctl.pc = "settle"
  /\ funding' \in {funding} \cup (IF funding \in {"locked", "expiring"} THEN {"claimed"} ELSE {})
  /\ Return
  /\ UNCHANGED <<db, env, htlc, swap>>

(* finish_internal_send: one transaction over the three rows.              *)
FinishInternal ==
  /\ ctl.pc = "finish"
  /\ send' = "SUCCEEDED"
  /\ rcv' = [rcv EXCEPT !.status = "TRANSFER_COMPLETED"]
  /\ transfer' = "TRANSFER_COMPLETED"
  /\ Return
  /\ UNCHANGED <<internal, env, htlc, swap, funding>>

(* The process stops.  An invoice whose response was not sent is an        *)
(* orphan: its row exists, but nobody can pay it.                          *)
Crash ==
  /\ ctl # Idle \/ invoice = "stored"
  /\ ctl' = Idle
  /\ invoice' = IF invoice = "stored" THEN "orphan" ELSE invoice
  /\ UNCHANGED <<db, expired, htlc, swap, funding>>

-----------------------------------------------------------------------------
Next ==
  \/ StoreRequest \/ SetInvoiceCreated \/ PrepareInternalSend
  \/ \E p \in Payments :
       \/ HtlcArrives(p) \/ HtlcTimesOut(p)
       \/ BeginReject(p) \/ BeginReceive(p) \/ BeginFinish(p) \/ FailExternal(p)
  \/ InvoiceExpires \/ OperatorCommit \/ OperatorRefuse
  \/ FundingMarginEnds \/ FundingReturns
  \/ RejectHtlc \/ FailHtlc \/ FailHtlcError \/ MarkFailed
  \/ SwapRecovered \/ SwapInitiate \/ SwapAmbiguous \/ SwapInsufficient \/ CommitSwap
  \/ ClaimHtlc \/ ClaimError \/ MarkClaimSubmitted \/ CompleteReceive
  \/ SweepExpired
  \/ BeginInternal \/ VerifySender \/ SettleSender \/ SettleSenderError \/ FinishInternal
  \/ Crash

Spec == Init /\ [][Next]_vars

-----------------------------------------------------------------------------
(* Properties *)

Collected == {p \in Payments : htlc[p] = "claimed"}

(* The reservation of a local payer and the binding of an external HTLC    *)
(* exclude each other (reserve_internal_send, process_standard_receive).   *)
OnePayer == ~(internal /\ rcv.payment # NULL)

(* The invoice is collected from at most one payer: never from two HTLCs,  *)
(* never from an HTLC and the local payer's funding.                       *)
CollectOnce ==
  /\ \A p, q \in Collected : p = q
  /\ funding = "claimed" => Collected = {}

(* No payer is charged before the wallet's transfer is committed at the    *)
(* operators and its checkpoint is in the database                         *)
(* (commit_lightning_receive_swap).                                        *)
CollectAfterPayout ==
  Collected # {} \/ funding = "claimed" => swap = "committed" /\ Has("transfer_id")

(* A receive reported TRANSFER_COMPLETED has paid the wallet, has charged  *)
(* a payer, and its transfer row says so too.                              *)
CompletedIsSettled ==
  rcv.status = "TRANSFER_COMPLETED" =>
    /\ swap = "committed" /\ transfer = "TRANSFER_COMPLETED"
    /\ Collected # {} \/ funding = "claimed"

(* The SSP asks the operators to pay the wallet only when the database     *)
(* already names who is going to pay for it.                               *)
PayoutHasPayer == swap # "none" => internal \/ rcv.payment # NULL

(* A local payer is told the truth: SUCCEEDED when the invoice was settled *)
(* with its funding, FAILED only when no reservation was made for it       *)
(* (process_internal_send).                                                *)
LocalPayerTold ==
  /\ send = "SUCCEEDED" => funding = "claimed" /\ rcv.status = "TRANSFER_COMPLETED"
  /\ send = "FAILED" => ~internal /\ funding # "claimed"

(* The promise of module InvoiceCredit.  NULL stands for the local payer.  *)
(* The outcome counts from the moment the invoice leaves the SSP.          *)
Promise == INSTANCE InvoiceCredit WITH
  Payers   <- Payments \cup {NULL},
  credited <- swap = "committed",
  charged  <- Collected \cup (IF funding = "claimed" THEN {NULL} ELSE {}),
  outcome  <- CASE invoice = "ready" /\ rcv.status = "TRANSFER_COMPLETED" -> "completed"
                [] invoice = "ready" /\ rcv.status = "HTLC_FAILED" -> "failed"
                [] OTHER -> "open"

(* The handlers of the receive implement InvoiceCredit: each of their      *)
(* steps, with crashes, retries and stale observations, is a step of it or *)
(* leaves it unchanged.                                                    *)
KeepsPromise == Promise!Spec

(* This step fails a held HTLC on behalf of the SSP.                       *)
Fails == \E p \in Payments : htlc[p] = "claimable" /\ htlc'[p] = "failed"

(* The expiry sweep fails a held HTLC only when the operators have not     *)
(* committed its swap: an outcome that a lost reply hides is left to       *)
(* reconciliation.                                                         *)
SweepFailsOnlyUnpaid ==
  [][ctl.task = "sweep" /\ Fails => swap # "committed"]_vars

(* A definitive swap failure (is_definitive_swap_failure) means that no    *)
(* transfer was and none can be committed when the HTLC is failed.         *)
DefinitiveMeansNoCommit ==
  [][ctl.task = "receive" /\ ctl.pc = "failHtlc" /\ Fails => swap = "none"]_vars
=============================================================================
