----------------------------- MODULE Reconciler -----------------------------
(***************************************************************************)
(* The pass of reconcile_payments over LDK's payment list, and the BOLT12  *)
(* receive that it and the event pump finish (ldk.rs).  An offer of a      *)
(* wallet can be paid more than once, and is credited once.  A payment is  *)
(* inbound for an offer, or an outbound BOLT12 send that LDK failed and    *)
(* whose wallet is owed its refund.  Sends that are not resolved come      *)
(* first in a pass and are in module LightningSend; their errors do not    *)
(* end it.                                                                 *)
(***************************************************************************)
EXTENDS Integers, SequencesExt

CONSTANTS
  Inbound,    \* LDK payments of offers (each has its own payment hash)
  Outbound,   \* failed LDK payments of BOLT12 sends
  Offers,     \* offers that wallets ask for
  OfferOf,    \* the offer of each inbound payment
  Enough,     \* inbound payments of at least the offer's amount
  Invoices,   \* BOLT11 invoices of the expiry sweep
  PageSize,   \* payments on a page of list_payments
  PageLimit,  \* pages of one pass (100 in the code)
  NULL        \* no payment

Payments == Inbound \cup Outbound

ASSUME PaymentsAssumption ==
  /\ Inbound \cap Outbound = {} /\ NULL \notin Payments
  /\ OfferOf \in [Inbound -> Offers] /\ Enough \subseteq Inbound

VARIABLES
  list,       \* LDK: its payments, in the order it lists them
  events,     \* payments whose event is still in the stream
  status,     \* receive_payments.status of each offer (database)
  bound,      \* lightning_receives.settled_payment_hash (database)
  proof,      \* the hash whose preimage the request's payload holds (database)
  send,       \* lightning_sends.status of each outbound payment (database)
  transfers,  \* operators: payouts of offers, by the payment that names them
  refunds,    \* operators: refunds of outbound payments
  invoice,    \* each BOLT11 invoice: "open", "expired", "HTLC_FAILED"
  call,       \* what the event pump and the reconciler are doing (memory)
  pass        \* the reconciler's place: "rest", "list" or "sweep", and entry

rows == <<status, bound, proof, send, invoice>>
vars == <<list, events, rows, transfers, refunds, call, pass>>

Tasks == {"pump", "reconciler"}
Idle  == [pc |-> "idle", pay |-> NULL]
Rest  == [at |-> "rest", entry |-> 0]

Init ==
  /\ list = <<>> /\ events = {}
  /\ status = [o \in Offers |-> "none"]
  /\ bound = [o \in Offers |-> NULL] /\ proof = [o \in Offers |-> NULL]
  /\ send = [p \in Outbound |-> "PENDING"]
  /\ transfers = {} /\ refunds = {}
  /\ invoice = [i \in Invoices |-> "open"]
  /\ call = [t \in Tasks |-> Idle] /\ pass = Rest

-----------------------------------------------------------------------------
(* The wallet and LDK *)

(* RequestBolt12Receive: the offer, the request and its status.  A wallet  *)
(* that gets no answer has no offer to be paid.                            *)
CreateOffer(o) ==
  /\ status[o] = "none"
  /\ status' = [status EXCEPT ![o] = "INVOICE_CREATED"]
  /\ UNCHANGED <<list, events, bound, proof, send, transfers, refunds, invoice, call, pass>>

(* External: an inbound payment succeeds, an outbound one fails.  The      *)
(* event is sent once, and is lost while the stream is down.               *)
Settle(p, streamed) ==
  /\ p \notin Range(list)
  /\ p \in Inbound => status[OfferOf[p]] # "none"
  /\ list' = Append(list, p)
  /\ events' = IF streamed THEN events \cup {p} ELSE events
  /\ UNCHANGED <<rows, transfers, refunds, call, pass>>

Expire(i) ==
  /\ invoice[i] = "open"
  /\ invoice' = [invoice EXCEPT ![i] = "expired"]
  /\ UNCHANGED <<list, events, status, bound, proof, send, transfers, refunds, call, pass>>

-----------------------------------------------------------------------------
(* What both tasks do with a payment *)

Locked  == \E t \in Tasks : call[t].pc \in {"bind", "proof", "settle", "commit"}
Goto(t, pc) == call' = [call EXCEPT ![t] = [pc |-> pc, pay |-> call[t].pay]]

(* An error of a refund ends the reconciler's pass.                        *)
Fail(t) ==
  /\ call' = [call EXCEPT ![t] = Idle]
  /\ pass' = IF t = "pump" THEN pass ELSE Rest

(* Mutant: every error ends the pass.                                      *)
ReturnOrStop(t) == Fail(t)

(* The call of task t returns; the reconciler goes to its next entry, also *)
(* after an error of an inbound payment, which is only logged.             *)
Return(t) ==
  /\ call' = [call EXCEPT ![t] = Idle]
  /\ pass' = IF t = "pump" THEN pass ELSE [at |-> pass.at, entry |-> pass.entry + 1]

(* finish_bolt12_receive, under receive_lock: a completed offer is left    *)
(* alone, too small an amount is an error.                                 *)
BeginReceive(t, p) ==
  /\ p \in Inbound /\ ~Locked
  /\ \/ /\ status[OfferOf[p]] = "TRANSFER_COMPLETED" \/ p \notin Enough
        /\ Return(t)
     \/ /\ status[OfferOf[p]] # "TRANSFER_COMPLETED" /\ p \in Enough
        /\ call' = [call EXCEPT ![t] = [pc |-> "bind", pay |-> p]]
        /\ UNCHANGED pass

(* Mutant: the hash is written without a look at the one that is there.    *)
BindAny(t) ==
  LET p == call[t].pay IN
  /\ call[t].pc = "bind"
  /\ bound' = [bound EXCEPT ![OfferOf[p]] = p] /\ Goto(t, "proof") /\ UNCHANGED pass
  /\ UNCHANGED <<list, events, status, proof, send, transfers, refunds, invoice>>

(* bind_bolt12_receive: the first payment that gets here, for good.        *)
Bind(t) ==
  LET p == call[t].pay
      o == OfferOf[p]
  IN
  /\ call[t].pc = "bind"
  /\ \/ bound[o] \in {NULL, p} /\ bound' = [bound EXCEPT ![o] = p]
        /\ Goto(t, "proof") /\ UNCHANGED pass
     \/ bound[o] \notin {NULL, p} /\ Return(t) /\ UNCHANGED bound
  /\ UNCHANGED <<list, events, status, proof, send, transfers, refunds, invoice>>

RecordProof(t) ==
  /\ call[t].pc = "proof"
  /\ proof' = [proof EXCEPT ![OfferOf[call[t].pay]] = call[t].pay]
  /\ Goto(t, "settle")
  /\ UNCHANGED <<list, events, status, bound, send, transfers, refunds, invoice, pass>>

(* settle_lightning_receive: the transfer whose id comes from the payment  *)
(* hash is found, or made.  The reply can be lost.                         *)
SettleReceive(t, replied) ==
  /\ call[t].pc = "settle"
  /\ transfers' = transfers \cup {call[t].pay}
  /\ IF replied THEN Goto(t, "commit") /\ UNCHANGED pass ELSE Return(t)
  /\ UNCHANGED <<list, events, rows, refunds>>

CommitReceive(t) ==
  /\ call[t].pc = "commit"
  /\ status' = [status EXCEPT ![OfferOf[call[t].pay]] = "TRANSFER_COMPLETED"]
  /\ Return(t)
  /\ UNCHANGED <<list, events, bound, proof, send, transfers, refunds, invoice>>

(* fail_managed_payment of a BOLT12 send: nothing if it is FAILED;         *)
(* REFUNDING is written before the refund and FAILED after it.             *)
BeginRefund(t, p) ==
  /\ p \in Outbound
  /\ \/ send[p] = "FAILED" /\ Return(t) /\ UNCHANGED send
     \/ /\ send[p] # "FAILED"
        /\ send' = [send EXCEPT ![p] = "REFUNDING"]
        /\ call' = [call EXCEPT ![t] = [pc |-> "refund", pay |-> p]]
        /\ UNCHANGED pass

(* refund_bolt12_send: found by its deterministic id, or made; it is made  *)
(* in full or refused.                                                     *)
Refund(t, replied) ==
  /\ call[t].pc = "refund"
  /\ refunds' = refunds \cup {call[t].pay}
  /\ IF replied THEN Goto(t, "failed") /\ UNCHANGED pass ELSE Fail(t)
  /\ UNCHANGED <<list, events, rows, transfers>>

MarkFailed(t) ==
  /\ call[t].pc = "failed"
  /\ send' = [send EXCEPT ![call[t].pay] = "FAILED"]
  /\ Return(t)
  /\ UNCHANGED <<list, events, status, bound, proof, transfers, refunds, invoice>>

(* An operator or the database refuses the step that comes next.           *)
Refuse(t) ==
  /\ \/ call[t].pc \in {"bind", "proof", "settle", "commit"} /\ Return(t)
     \/ call[t].pc \in {"refund", "failed"} /\ Fail(t)
  /\ UNCHANGED <<list, events, rows, transfers, refunds>>

-----------------------------------------------------------------------------
(* The event pump and the pass *)

PumpEvent(p) ==
  /\ call["pump"] = Idle /\ p \in events
  /\ events' = events \ {p}
  /\ \/ BeginReceive("pump", p) /\ UNCHANGED send
     \/ BeginRefund("pump", p)
  /\ UNCHANGED <<list, status, bound, proof, invoice, transfers, refunds>>

BeginPass ==
  /\ pass = Rest
  /\ pass' = [at |-> "list", entry |-> 1]
  /\ UNCHANGED <<list, events, rows, transfers, refunds, call>>

(* The next entry of the current page.                                     *)
TakeEntry ==
  /\ pass.at = "list" /\ call["reconciler"] = Idle
  /\ pass.entry <= Len(list) /\ pass.entry <= PageLimit * PageSize
  /\ \/ BeginReceive("reconciler", list[pass.entry]) /\ UNCHANGED send
     \/ BeginRefund("reconciler", list[pass.entry])
  /\ UNCHANGED <<list, events, status, bound, proof, invoice, transfers, refunds>>

(* Mutant: the last page that is allowed must not be full.                 *)
EndListShort ==
  /\ pass.at = "list" /\ call["reconciler"] = Idle
  /\ pass.entry > Len(list) \/ pass.entry > PageLimit * PageSize
  /\ pass' = IF Len(list) >= PageLimit * PageSize THEN Rest ELSE [at |-> "sweep", entry |-> 0]
  /\ UNCHANGED <<list, events, rows, transfers, refunds, call>>

(* No next page: the sweep.  A next page after the last one that is        *)
(* allowed is an error, which ends the pass before the sweep.              *)
EndList ==
  /\ pass.at = "list" /\ call["reconciler"] = Idle
  /\ pass.entry > Len(list) \/ pass.entry > PageLimit * PageSize
  /\ pass' = IF Len(list) > PageLimit * PageSize THEN Rest ELSE [at |-> "sweep", entry |-> 0]
  /\ UNCHANGED <<list, events, rows, transfers, refunds, call>>

(* An invoice without a bound HTLC: module LightningReceive has the rest.  *)
SweepInvoice(i) ==
  /\ pass.at = "sweep" /\ ~Locked /\ invoice[i] = "expired"
  /\ invoice' = [invoice EXCEPT ![i] = "HTLC_FAILED"]
  /\ UNCHANGED <<list, events, status, bound, proof, send, transfers, refunds, call, pass>>

EndSweep ==
  /\ pass.at = "sweep" /\ \A i \in Invoices : invoice[i] # "expired"
  /\ pass' = Rest
  /\ UNCHANGED <<list, events, rows, transfers, refunds, call>>

(* list_payments or a query of the pass itself fails.                      *)
BreakPass ==
  /\ pass # Rest /\ call["reconciler"] = Idle
  /\ pass' = Rest
  /\ UNCHANGED <<list, events, rows, transfers, refunds, call>>

(* The process dies; what was in its event stream is gone.                 *)
Crash ==
  /\ call' = [t \in Tasks |-> Idle] /\ pass' = Rest /\ events' = {}
  /\ UNCHANGED <<list, rows, transfers, refunds>>

TaskStep(t) ==
  \/ Bind(t) \/ RecordProof(t) \/ SettleReceive(t, TRUE) \/ CommitReceive(t)
  \/ Refund(t, TRUE) \/ MarkFailed(t)

PassStep == BeginPass \/ TakeEntry \/ EndList \/ (\E i \in Invoices : SweepInvoice(i)) \/ EndSweep

Next ==
  \/ \E o \in Offers : CreateOffer(o)
  \/ \E p \in Payments : Settle(p, TRUE) \/ Settle(p, FALSE) \/ PumpEvent(p)
  \/ \E i \in Invoices : Expire(i)
  \/ PassStep
  \/ \E t \in Tasks : TaskStep(t) \/ SettleReceive(t, FALSE) \/ Refund(t, FALSE) \/ Refuse(t)
  \/ BreakPass
  \/ Crash

Spec == Init /\ [][Next]_vars

-----------------------------------------------------------------------------
TypeOK ==
  /\ list \in Seq(Payments) /\ events \subseteq Payments
  /\ status \in [Offers -> {"none", "INVOICE_CREATED", "TRANSFER_COMPLETED"}]
  /\ bound \in [Offers -> Inbound \cup {NULL}] /\ proof \in [Offers -> Inbound \cup {NULL}]
  /\ send \in [Outbound -> {"PENDING", "REFUNDING", "FAILED"}]
  /\ transfers \subseteq Inbound /\ refunds \subseteq Outbound
  /\ invoice \in [Invoices -> {"open", "expired", "HTLC_FAILED"}]
  /\ call \in [Tasks -> [pc : {"idle", "bind", "proof", "settle", "commit", "refund", "failed"},
                         pay : Payments \cup {NULL}]]
  /\ pass \in [at : {"rest", "list", "sweep"}, entry : Nat]

(* An offer is credited at most once, for a payment that covers it, though *)
(* it was paid several times, the event and the list report the same       *)
(* payment, and a payout is repeated after a lost reply or a crash; a      *)
(* completed offer is credited, and shows the proof of that very payment.  *)
OfferCreditedOnce ==
  /\ \A p, q \in transfers : OfferOf[p] = OfferOf[q] => p = q
  /\ transfers \subseteq Enough
  /\ \A o \in Offers : status[o] = "TRANSFER_COMPLETED" =>
       bound[o] \in transfers /\ proof[o] = bound[o]

=============================================================================
