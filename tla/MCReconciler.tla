---------------------------- MODULE MCReconciler ----------------------------
(***************************************************************************)
(* Two payments of one offer and one that is too small, a send to refund,  *)
(* an invoice to sweep, and a page limit that the list can exceed.         *)
(* poisoned: the send's refund is refused for ever.  p1 and p2 are alike,  *)
(* so p1 comes first.                                                      *)
(***************************************************************************)
EXTENDS Reconciler, TLC

CONSTANTS o1, p1, p2, MaxFaults
VARIABLES faults, poisoned

OfferOfAll == [p \in Inbound |-> o1]

liveVars == <<vars, faults, poisoned>>
Good(A)  == A /\ UNCHANGED <<faults, poisoned>>
Fault(A) == A /\ faults < MaxFaults /\ faults' = faults + 1 /\ UNCHANGED poisoned

Poison(t) == poisoned /\ call[t].pc = "refund"
Work(t)   == IF Poison(t) THEN Refuse(t) ELSE TaskStep(t)

LiveInit == Init /\ faults = 0 /\ poisoned \in BOOLEAN

LiveNext ==
  \/ \E f \in Offers : Good(CreateOffer(f))
  \/ \E p \in Payments :
       \/ (p = p2 => p1 \in Range(list)) /\ \E streamed \in BOOLEAN : Good(Settle(p, streamed))
       \/ Good(PumpEvent(p))
  \/ \E i \in Invoices : Good(Expire(i))
  \/ Good(PassStep)
  \/ \E t \in Tasks :
       \/ Good(Work(t))
       \/ Fault(SettleReceive(t, FALSE)) \/ Fault(~Poison(t) /\ Refund(t, FALSE))
       \/ Fault(Refuse(t))
  \/ Fault(BreakPass)
  \/ Fault(Crash)

(* Both tasks loop for ever; the lock is fair.  Nothing makes an event     *)
(* arrive.                                                                 *)
LiveSpec ==
  /\ LiveInit /\ [][LiveNext]_liveVars
  /\ SF_liveVars(Good(PassStep))
  /\ \A t \in Tasks : WF_liveVars(Good(Work(t)))

-----------------------------------------------------------------------------
Place(p) == CHOOSE n \in 1..Len(list) : list[n] = p
TooLong  == Len(list) > PageLimit * PageSize

(* What a pass never gets to: the entries after a refund that is always    *)
(* refused, and those after the last page.                                 *)
Barred(n)     == poisoned /\ \E p \in Outbound \cap Range(list) : Place(p) < n
OutOfReach(p) == Barred(Place(p)) \/ Place(p) > PageLimit * PageSize

(* An offer with a payment that covers it is credited, without its event:  *)
(* an error of another inbound payment never stops the pass (ldk.rs:1173). *)
(* A refund's error does (ldk.rs:1148), so the payment must stand where a  *)
(* pass gets to, and so must the one that the offer is bound to.           *)
PaidOfferIsCredited ==
  <>[](\A p \in Enough \cap Range(list) :
         LET b == bound[OfferOf[p]] IN
         \/ status[OfferOf[p]] = "TRANSFER_COMPLETED"
         \/ OutOfReach(IF b = NULL THEN p ELSE b))

(* An expired invoice is swept, unless the list is longer than the pages   *)
(* of a pass, or holds a refund that is always refused.                    *)
ExpiredIsSwept ==
  <>[](TooLong \/ Barred(Len(list) + 1) \/ \A i \in Invoices : invoice[i] # "expired")

=============================================================================
