-------------------------- MODULE ReconcilerProofs --------------------------
(***************************************************************************)
(* The safety of Reconciler for every set of offers, payments and          *)
(* invoices, every page size and every number of pages.  An offer is       *)
(* credited once because the payouts follow bind_bolt12_receive, whose     *)
(* first winner stays: IndInv says that the hash in the database is that   *)
(* of every payout, and of the call that is about to make one.             *)
(***************************************************************************)
EXTENDS Reconciler, TLAPS

(* Where a call is tells which payment it is about.                        *)
CallInv ==
  \A t \in Tasks :
    /\ call[t].pc \in {"bind", "proof", "settle", "commit"} => call[t].pay \in Enough
    /\ call[t].pc \in {"refund", "failed"} => call[t].pay \in Outbound

(* The list is read from its first entry on.                               *)
EntryInv == pass.at = "list" => pass.entry >= 1

(* A call past "bind" works for the payment that its offer is bound to,    *)
(* and has done what comes before its place.                               *)
BoundInv ==
  \A t \in Tasks :
    LET p == call[t].pay IN
    /\ call[t].pc \in {"proof", "settle", "commit"} => bound[OfferOf[p]] = p
    /\ call[t].pc \in {"settle", "commit"} => proof[OfferOf[p]] = p
    /\ call[t].pc = "commit" => p \in transfers

(* Every payout is that of the bound payment, and its proof was stored.    *)
PaidInv ==
  \A p \in transfers : p \in Enough /\ bound[OfferOf[p]] = p /\ proof[OfferOf[p]] = p

CompletedInv ==
  \A o \in Offers :
    /\ bound[o] # NULL => OfferOf[bound[o]] = o
    /\ status[o] = "TRANSFER_COMPLETED" => bound[o] \in transfers

IndInv == TypeOK /\ CallInv /\ EntryInv /\ BoundInv /\ PaidInv /\ CompletedInv

USE PaymentsAssumption

-----------------------------------------------------------------------------
(* The program starts in IndInv.                                           *)
LEMMA InitInv == Init => IndInv
BY DEF Init, IndInv, TypeOK, CallInv, EntryInv, BoundInv, PaidInv, CompletedInv, Idle, Rest, Payments

(* A call that ends, with or without an error, is gone, and leaves the     *)
(* pass at an entry or at rest.                                            *)
LEMMA EndOfCall ==
  ASSUME TypeOK, EntryInv
  PROVE  \A t \in Tasks : Return(t) \/ Fail(t) =>
           /\ call' = [call EXCEPT ![t] = Idle]
           /\ pass' \in [at : {"rest", "list", "sweep"}, entry : Nat]
           /\ EntryInv'
<1> SUFFICES ASSUME NEW t \in Tasks, Return(t) \/ Fail(t)
             PROVE  /\ call' = [call EXCEPT ![t] = Idle]
                    /\ pass' \in [at : {"rest", "list", "sweep"}, entry : Nat]
                    /\ EntryInv'
  OBVIOUS
<1>1. CASE t = "pump"
  BY <1>1 DEF TypeOK, EntryInv, Return, Fail
<1>2. CASE t # "pump"
  BY <1>2 DEF TypeOK, EntryInv, Return, Fail, Rest
<1> QED
  BY <1>1, <1>2

(* The steps of the two tasks, of LDK and of the wallets, every error and  *)
(* every crash keep IndInv.                                                *)
LEMMA StepInv == IndInv /\ [Next]_vars => IndInv'
<1> SUFFICES ASSUME IndInv, [Next]_vars PROVE IndInv'
  OBVIOUS
<1>0. \A t \in Tasks : Return(t) \/ Fail(t) =>
        /\ call' = [call EXCEPT ![t] = Idle]
        /\ pass' \in [at : {"rest", "list", "sweep"}, entry : Nat]
        /\ EntryInv'
  BY EndOfCall DEF IndInv
<1> USE DEF IndInv, TypeOK, CallInv, EntryInv, BoundInv, PaidInv, CompletedInv,
            Idle, Rest, Payments, rows
<1>1. ASSUME NEW o \in Offers, CreateOffer(o) PROVE IndInv'
  BY <1>1 DEF CreateOffer
<1>2. ASSUME NEW p \in Payments, NEW streamed \in BOOLEAN, Settle(p, streamed) PROVE IndInv'
  BY <1>2 DEF Settle
<1>3. ASSUME NEW p \in Payments, PumpEvent(p) PROVE IndInv'
  BY <1>3, <1>0 DEF PumpEvent, BeginReceive, BeginRefund, Tasks
<1>4. ASSUME NEW i \in Invoices, Expire(i) PROVE IndInv'
  BY <1>4 DEF Expire
<1>5. CASE BeginPass
  BY <1>5 DEF BeginPass
<1>6. CASE TakeEntry
  <2>1. list[pass.entry] \in Payments
    BY <1>6 DEF TakeEntry
  <2> QED
    BY <1>6, <2>1, <1>0 DEF TakeEntry, BeginReceive, BeginRefund, Tasks
<1>7. CASE EndList
  BY <1>7 DEF EndList
<1>8. ASSUME NEW i \in Invoices, SweepInvoice(i) PROVE IndInv'
  BY <1>8 DEF SweepInvoice
<1>9. CASE EndSweep
  BY <1>9 DEF EndSweep
<1>10. ASSUME NEW t \in Tasks, Bind(t) PROVE IndInv'
  <2> DEFINE p == call[t].pay
  <2>1. CASE bound[OfferOf[p]] \in {NULL, p}
    <3>1. /\ bound' = [bound EXCEPT ![OfferOf[p]] = p]
          /\ call' = [call EXCEPT ![t] = [pc |-> "proof", pay |-> p]]
          /\ p \in Enough
      BY <1>10, <2>1 DEF Bind, Goto
    <3> QED
      BY <1>10, <2>1, <3>1 DEF Bind
  <2>2. CASE bound[OfferOf[p]] \notin {NULL, p}
    <3>1. Return(t) /\ UNCHANGED <<list, events, rows, transfers, refunds>>
      BY <1>10, <2>2 DEF Bind
    <3> QED
      BY <3>1 DEF Return
  <2> QED
    BY <2>1, <2>2
<1>11. ASSUME NEW t \in Tasks, RecordProof(t) PROVE IndInv'
  BY <1>11 DEF RecordProof, Goto
<1>12. ASSUME NEW t \in Tasks, SettleReceive(t, TRUE) \/ SettleReceive(t, FALSE) PROVE IndInv'
  <2>1. CASE SettleReceive(t, TRUE)
    <3>1. /\ call[t].pc = "settle" /\ transfers' = transfers \cup {call[t].pay}
          /\ Goto(t, "commit") /\ UNCHANGED <<pass, list, events, rows, refunds>>
      BY <2>1 DEF SettleReceive
    <3> QED
      BY <3>1 DEF Goto
  <2>2. CASE SettleReceive(t, FALSE)
    <3>1. /\ call[t].pc = "settle" /\ transfers' = transfers \cup {call[t].pay}
          /\ Return(t) /\ UNCHANGED <<list, events, rows, refunds>>
      BY <2>2 DEF SettleReceive
    <3> QED
      BY <3>1 DEF Return
  <2> QED
    BY <1>12, <2>1, <2>2
<1>13. ASSUME NEW t \in Tasks, CommitReceive(t) PROVE IndInv'
  BY <1>13 DEF CommitReceive, Return
<1>14. ASSUME NEW t \in Tasks, Refund(t, TRUE) \/ Refund(t, FALSE) PROVE IndInv'
  <2>1. CASE Refund(t, TRUE)
    <3>1. /\ call[t].pc = "refund" /\ refunds' = refunds \cup {call[t].pay}
          /\ Goto(t, "failed") /\ UNCHANGED <<pass, list, events, rows, transfers>>
      BY <2>1 DEF Refund
    <3> QED
      BY <3>1 DEF Goto
  <2>2. CASE Refund(t, FALSE)
    <3>1. /\ call[t].pc = "refund" /\ refunds' = refunds \cup {call[t].pay}
          /\ Fail(t) /\ UNCHANGED <<list, events, rows, transfers>>
      BY <2>2 DEF Refund
    <3> QED
      BY <3>1 DEF Fail
  <2> QED
    BY <1>14, <2>1, <2>2
<1>15. ASSUME NEW t \in Tasks, MarkFailed(t) PROVE IndInv'
  BY <1>15 DEF MarkFailed, Return
<1>16. ASSUME NEW t \in Tasks, Refuse(t) PROVE IndInv'
  <2>1. CASE Return(t)
    BY <1>16, <2>1 DEF Refuse, Return
  <2>2. CASE Fail(t)
    BY <1>16, <2>2 DEF Refuse, Fail
  <2> QED
    BY <1>16, <2>1, <2>2 DEF Refuse
<1>17. CASE BreakPass
  BY <1>17 DEF BreakPass
<1>18. CASE Crash
  BY <1>18 DEF Crash
<1>19. CASE UNCHANGED vars
  BY <1>19 DEF vars
<1> QED
  BY <1>1, <1>2, <1>3, <1>4, <1>5, <1>6, <1>7, <1>8, <1>9, <1>10, <1>11, <1>12, <1>13,
     <1>14, <1>15, <1>16, <1>17, <1>18, <1>19 DEF Next, PassStep, TaskStep

(* IndInv holds in every state of every behaviour.                         *)
THEOREM Invariance == Spec => []IndInv
BY InitInv, StepInv, PTL DEF Spec

-----------------------------------------------------------------------------
(* The list, the rows, the operators and both tasks keep their types.      *)
THEOREM TypeCorrect == Spec => []TypeOK
<1>1. IndInv => TypeOK
  BY DEF IndInv
<1> QED
  BY <1>1, Invariance, PTL

(* However often an offer is paid and however the pump, the passes, lost   *)
(* replies and crashes fall, it is credited at most once, for a payment    *)
(* that covers it, and a completed offer shows the proof of that payment   *)
(* (finish_bolt12_receive, bind_bolt12_receive).                           *)
THEOREM OffersAreCreditedOnce == Spec => []OfferCreditedOnce
<1>1. ASSUME IndInv PROVE OfferCreditedOnce
  <2> USE <1>1 DEF IndInv, PaidInv
  <2>1. \A p, q \in transfers : OfferOf[p] = OfferOf[q] => p = q
    OBVIOUS
  <2>2. ASSUME NEW o \in Offers, status[o] = "TRANSFER_COMPLETED"
        PROVE  bound[o] \in transfers /\ proof[o] = bound[o]
    BY <2>2 DEF TypeOK, CompletedInv, Payments
  <2> QED
    BY <2>1, <2>2 DEF OfferCreditedOnce
<1> QED
  BY <1>1, Invariance, PTL
=============================================================================
