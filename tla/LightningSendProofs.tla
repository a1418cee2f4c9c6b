------------------------ MODULE LightningSendProofs ------------------------
(***************************************************************************)
(* The safety of LightningSend for every set of workers, finite or not.    *)
(* IndInv adds to the invariants of the runs what each worker's program    *)
(* point says of LDK, of the operators and of the other workers.           *)
(***************************************************************************)
EXTENDS LightningSend, TLAPS

(* LDK's record: absent until a call is accepted, then never absent again. *)
LdkInv ==
  /\ ldk = "absent" <=> sent = 0
  /\ ldk = "failed" => failed
  /\ ldk = "absent" => ~failed
  /\ kind = "BOLT12" /\ failed => ldk = "failed"

(* Only BOLT11 submissions are retried.                                    *)
RetryInv ==
  \A w \in Workers :
    work[w].pc \in {"reverify", "resubmit", "reawait", "rebind", "relookup"} => kind = "BOLT11"

(* Worker w is about to submit, or its call is on the wire.                *)
Submitting(w) == work[w].pc = "submit" \/ call[w] = "sent"

(* A BOLT12 submission has one place at a time: before its checkpoint, at  *)
(* one worker, on the wire once, or accepted.                              *)
OneSubmissionInv ==
  kind = "BOLT12" =>
    /\ sent <= 1
    /\ row.status \in {"NONE", "PREPARED"} => sent = 0
    /\ \A w \in Workers : Submitting(w) => sent = 0 /\ row.status \notin {"NONE", "PREPARED"}
    /\ \A v, w \in Workers : Submitting(v) /\ Submitting(w) => v = w
    /\ \A w \in Workers : ~(work[w].pc = "submit" /\ call[w] = "sent")

(* From the check of the funding until the payment resolves, the funding   *)
(* keeps its margin.                                                       *)
FundedInv ==
  /\ kind = "BOLT11" /\ funding \in {"expiring", "returned"} =>
       /\ ldk # "pending"
       /\ \A w \in Workers :
            call[w] = "none" /\ work[w].pc \notin {"begin", "submit", "resubmit"}
  /\ kind = "BOLT12" => funding = "locked"

(* Money moves only on a final answer of LDK.                              *)
SettleInv ==
  /\ funding = "claimed" => ldk = "succeeded"
  /\ refund => kind = "BOLT12" /\ failed
  /\ \A w \in Workers :
       /\ work[w].pc \in {"settle", "markSucceeded", "markSettling"} => ldk = "succeeded"
       /\ work[w].pc = "markSucceeded" /\ kind = "BOLT11" => funding = "claimed"
       /\ work[w].pc \in {"fail", "markRefunding", "refund", "markFailed"} => failed
       /\ work[w].pc \in {"markRefunding", "refund"} => kind = "BOLT12"
       /\ work[w].pc = "markFailed" /\ kind = "BOLT12" => refund

(* What the row says is true.                                              *)
RowInv ==
  /\ row.status = "SUCCEEDED" => ldk = "succeeded" /\ (kind = "BOLT11" => funding = "claimed")
  /\ row.status = "FAILED" /\ kind = "BOLT12" => refund

IndInv ==
  /\ TypeOK /\ LdkInv /\ RetryInv /\ OneSubmissionInv
  /\ FundedInv /\ SettleInv /\ RowInv

-----------------------------------------------------------------------------
(* The program starts in IndInv.                                           *)
LEMMA InitInv == Init => IndInv
<1> SUFFICES ASSUME Init PROVE IndInv
  OBVIOUS
<1> USE DEF Init, NoRow, Idle
<1>1. failed \in BOOLEAN /\ refund \in BOOLEAN
  BY Zenon
<1>2. TypeOK
  BY <1>1 DEF TypeOK, Row, SendStatus, Pc
<1>3. LdkInv /\ RetryInv /\ OneSubmissionInv /\ FundedInv /\ SettleInv /\ RowInv
  BY DEF LdkInv, RetryInv, OneSubmissionInv, Submitting,
  FundedInv, SettleInv, RowInv
<1> QED
  BY <1>2, <1>3 DEF IndInv

(* Worker w is at pc after the step, and no other worker moved.            *)
Moves(w, pc) ==
  /\ work' \in [Workers -> [pc : Pc, snap : Row]]
  /\ work'[w].pc = pc
  /\ \A v \in Workers : v # w => work'[v] = work[v]

(* Goto moves its worker to the given point.                               *)
LEMMA GotoMoves ==
  ASSUME TypeOK, NEW w \in Workers, NEW pc \in Pc, Goto(w, pc)
  PROVE  Moves(w, pc)
  BY DEF TypeOK, Goto, Moves

(* Return leaves its worker idle.                                          *)
LEMMA ReturnMoves ==
  ASSUME TypeOK, NEW w \in Workers, Return(w)
  PROVE  Moves(w, "idle")
  BY DEF TypeOK, Return, Moves, Idle, NoRow, Pc, Row, SendStatus

(* Every step of a worker, of LDK or of the operators and every crash      *)
(* keeps IndInv.                                                           *)
LEMMA StepInv == IndInv /\ [Next]_vars => IndInv'
<1> SUFFICES ASSUME IndInv, [Next]_vars PROVE IndInv'
  OBVIOUS
<1> USE DEF IndInv, TypeOK, Pc, ldkVars, sparkVars, At, Moves
<1>1. ASSUME NEW w \in Workers, PrepareSend(w) PROVE IndInv'
  BY <1>1 DEF PrepareSend, Free, FundingVerified,
            Row, SendStatus, Terminal, NoRow, Idle,
            LdkInv, RetryInv, OneSubmissionInv, Submitting, FundedInv, SettleInv, RowInv
<1>2. ASSUME NEW w \in Workers, BeginRecover(w) PROVE IndInv'
  BY <1>2 DEF BeginRecover, Free,
            Row, SendStatus, Terminal, NoRow, Idle,
            LdkInv, RetryInv, OneSubmissionInv, Submitting, FundedInv, SettleInv, RowInv
<1>3. ASSUME NEW w \in Workers, BeginEvent(w) PROVE IndInv'
  <2>1. TypeOK'
    BY <1>3, GotoMoves DEF BeginEvent, Free, Row, SendStatus
  <2>2. LdkInv' /\ RetryInv' /\ RowInv'
    BY <1>3, GotoMoves DEF BeginEvent, Free, LdkInv, RetryInv, RowInv, SettleInv
  <2>3. OneSubmissionInv'
    BY <1>3, GotoMoves DEF BeginEvent, Free, OneSubmissionInv, Submitting
  <2>4. FundedInv'
    BY <1>3, GotoMoves DEF BeginEvent, Free, FundedInv
  <2>5. SettleInv'
    BY <1>3, GotoMoves DEF BeginEvent, Free, LdkInv, SettleInv
  <2> QED
    BY <2>1, <2>2, <2>3, <2>4, <2>5
<1>4. ASSUME NEW w \in Workers, Verify(w) PROVE IndInv'
  <2>1. TypeOK'
    BY <1>4, GotoMoves, ReturnMoves DEF Verify, FundingVerified, Row, SendStatus
  <2>2. LdkInv' /\ RetryInv' /\ RowInv'
    BY <1>4, GotoMoves, ReturnMoves DEF Verify, FundingVerified, LdkInv, RetryInv, RowInv, SettleInv
  <2>3. OneSubmissionInv'
    BY <1>4, GotoMoves, ReturnMoves DEF Verify, FundingVerified, OneSubmissionInv, Submitting
  <2>4. FundedInv'
    BY <1>4, GotoMoves, ReturnMoves DEF Verify, FundingVerified, FundedInv
  <2>5. SettleInv'
    BY <1>4, GotoMoves, ReturnMoves DEF Verify, FundingVerified, LdkInv, SettleInv
  <2> QED
    BY <2>1, <2>2, <2>3, <2>4, <2>5
<1>5. ASSUME NEW w \in Workers, BeginSubmission(w) PROVE IndInv'
  <2>1. TypeOK'
    BY <1>5, GotoMoves, ReturnMoves DEF BeginSubmission, Row, SendStatus
  <2>2. LdkInv' /\ RetryInv' /\ RowInv'
    BY <1>5, GotoMoves, ReturnMoves DEF BeginSubmission, LdkInv, RetryInv, RowInv, SettleInv, Row
  <2>3. OneSubmissionInv'
    <3>1. CASE row.status = "PREPARED"
      <4>1. row'.status = "SUBMITTING" /\ Moves(w, "submit")
        BY <1>5, <3>1, GotoMoves DEF BeginSubmission, Row
      <4> QED
        BY <1>5, <3>1, <4>1 DEF BeginSubmission, OneSubmissionInv, Submitting
    <3>2. CASE row.status # "PREPARED"
      BY <1>5, <3>2, ReturnMoves DEF BeginSubmission, OneSubmissionInv, Submitting
    <3> QED
      BY <3>1, <3>2
  <2>4. FundedInv'
    BY <1>5, GotoMoves, ReturnMoves DEF BeginSubmission, FundedInv
  <2>5. SettleInv'
    BY <1>5, GotoMoves, ReturnMoves DEF BeginSubmission, LdkInv, SettleInv
  <2> QED
    BY <2>1, <2>2, <2>3, <2>4, <2>5
<1>6. ASSUME NEW w \in Workers, Submit(w) PROVE IndInv'
  <2>1. TypeOK'
    BY <1>6, GotoMoves DEF Submit, Row, SendStatus
  <2>2. LdkInv' /\ RetryInv' /\ RowInv'
    BY <1>6, GotoMoves DEF Submit, LdkInv, RetryInv, RowInv, SettleInv
  <2>3. OneSubmissionInv'
    BY <1>6, GotoMoves DEF Submit, OneSubmissionInv, Submitting, RetryInv
  <2>4. FundedInv'
    BY <1>6, GotoMoves DEF Submit, FundedInv
  <2>5. SettleInv'
    BY <1>6, GotoMoves DEF Submit, LdkInv, SettleInv
  <2> QED
    BY <2>1, <2>2, <2>3, <2>4, <2>5
<1>7. ASSUME NEW w \in Workers, SubmitReply(w) PROVE IndInv'
  <2>1. TypeOK'
    BY <1>7, GotoMoves, ReturnMoves DEF SubmitReply, Row, SendStatus
  <2>2. LdkInv' /\ RetryInv' /\ RowInv'
    BY <1>7, GotoMoves, ReturnMoves DEF SubmitReply, LdkInv, RetryInv, RowInv, SettleInv
  <2>3. OneSubmissionInv'
    BY <1>7, GotoMoves, ReturnMoves DEF SubmitReply, OneSubmissionInv, Submitting
  <2>4. FundedInv'
    BY <1>7, GotoMoves, ReturnMoves DEF SubmitReply, FundedInv
  <2>5. SettleInv'
    BY <1>7, GotoMoves, ReturnMoves DEF SubmitReply, LdkInv, SettleInv
  <2> QED
    BY <2>1, <2>2, <2>3, <2>4, <2>5
<1>8. ASSUME NEW w \in Workers, Bind(w) PROVE IndInv'
  <2>1. TypeOK'
    BY <1>8, GotoMoves, ReturnMoves DEF Bind, Bound, Row, SendStatus
  <2>2. LdkInv' /\ RetryInv' /\ RowInv'
    BY <1>8, GotoMoves, ReturnMoves DEF Bind, Bound, LdkInv, RetryInv, RowInv, SettleInv, Row
  <2>3. OneSubmissionInv'
    <3>1. row'.status \in {"NONE", "PREPARED"} => row.status \in {"NONE", "PREPARED"}
      BY <1>8 DEF Bind, Bound
    <3>2. work'[w].pc # "submit" /\ \A v \in Workers : v # w => work'[v] = work[v]
      BY <1>8, GotoMoves, ReturnMoves DEF Bind
    <3> QED
      BY <1>8, <3>1, <3>2 DEF Bind, OneSubmissionInv, Submitting
  <2>4. FundedInv'
    BY <1>8, GotoMoves, ReturnMoves DEF Bind, Bound, FundedInv
  <2>5. SettleInv'
    BY <1>8, GotoMoves, ReturnMoves DEF Bind, Bound, LdkInv, SettleInv
  <2> QED
    BY <2>1, <2>2, <2>3, <2>4, <2>5
<1>9. ASSUME NEW w \in Workers, Lookup(w) PROVE IndInv'
  <2>1. TypeOK'
    BY <1>9, GotoMoves, ReturnMoves DEF Lookup, Row, SendStatus
  <2>2. LdkInv' /\ RetryInv' /\ RowInv'
    BY <1>9, GotoMoves, ReturnMoves DEF Lookup, LdkInv, RetryInv, RowInv, SettleInv
  <2>3. OneSubmissionInv'
    BY <1>9, GotoMoves, ReturnMoves DEF Lookup, OneSubmissionInv, Submitting
  <2>4. FundedInv'
    BY <1>9, GotoMoves, ReturnMoves DEF Lookup, FundedInv
  <2>5. SettleInv'
    BY <1>9, GotoMoves, ReturnMoves DEF Lookup, LdkInv, SettleInv
  <2> QED
    BY <2>1, <2>2, <2>3, <2>4, <2>5
<1>10. ASSUME NEW w \in Workers, LookupAgain(w) PROVE IndInv'
  <2>1. TypeOK'
    BY <1>10, GotoMoves, ReturnMoves DEF LookupAgain, Row, SendStatus
  <2>2. LdkInv' /\ RetryInv' /\ RowInv'
    BY <1>10, GotoMoves, ReturnMoves DEF LookupAgain, LdkInv, RetryInv, RowInv, SettleInv
  <2>3. OneSubmissionInv'
    BY <1>10, GotoMoves, ReturnMoves DEF LookupAgain, OneSubmissionInv, Submitting
  <2>4. FundedInv'
    BY <1>10, GotoMoves, ReturnMoves DEF LookupAgain, FundedInv
  <2>5. SettleInv'
    BY <1>10, GotoMoves, ReturnMoves DEF LookupAgain, LdkInv, SettleInv
  <2> QED
    BY <2>1, <2>2, <2>3, <2>4, <2>5
<1>11. ASSUME NEW w \in Workers, Observe(w) PROVE IndInv'
  <2>1. TypeOK'
    BY <1>11, GotoMoves, ReturnMoves DEF Observe, Row, SendStatus
  <2>2. LdkInv' /\ RetryInv' /\ RowInv'
    BY <1>11, GotoMoves, ReturnMoves DEF Observe, LdkInv, RetryInv, RowInv, SettleInv, Terminal
  <2>3. OneSubmissionInv'
    BY <1>11, GotoMoves, ReturnMoves DEF Observe, OneSubmissionInv, Submitting, Terminal
  <2>4. FundedInv'
    BY <1>11, GotoMoves, ReturnMoves DEF Observe, FundedInv
  <2>5. SettleInv'
    BY <1>11, GotoMoves, ReturnMoves DEF Observe, LdkInv, SettleInv, Terminal
  <2> QED
    BY <2>1, <2>2, <2>3, <2>4, <2>5
<1>12. ASSUME NEW w \in Workers, Settle(w) PROVE IndInv'
  <2>1. TypeOK'
    BY <1>12, GotoMoves DEF Settle, Row, SendStatus
  <2>2. LdkInv' /\ RetryInv' /\ RowInv'
    BY <1>12, GotoMoves DEF Settle, LdkInv, RetryInv, RowInv, SettleInv
  <2>3. OneSubmissionInv'
    BY <1>12, GotoMoves DEF Settle, OneSubmissionInv, Submitting
  <2>4. FundedInv'
    BY <1>12, GotoMoves DEF Settle, FundedInv
  <2>5. SettleInv'
    BY <1>12, GotoMoves DEF Settle, LdkInv, SettleInv
  <2> QED
    BY <2>1, <2>2, <2>3, <2>4, <2>5
<1>13. ASSUME NEW w \in Workers, MarkStatus(w) PROVE IndInv'
  <2>1. TypeOK'
    BY <1>13, GotoMoves, ReturnMoves DEF MarkStatus, SetPayment, Row, SendStatus
  <2>2. LdkInv' /\ RetryInv' /\ RowInv'
    BY <1>13, GotoMoves, ReturnMoves DEF MarkStatus, SetPayment, LdkInv, RetryInv, RowInv, SettleInv, Row, Terminal
  <2>3. OneSubmissionInv'
    <3>1. row'.status \in {"NONE", "PREPARED"} => row.status \in {"NONE", "PREPARED"}
      BY <1>13 DEF MarkStatus, SetPayment, Row
    <3>2. work'[w].pc # "submit" /\ \A v \in Workers : v # w => work'[v] = work[v]
      BY <1>13, GotoMoves, ReturnMoves DEF MarkStatus
    <3> QED
      BY <1>13, <3>1, <3>2 DEF MarkStatus, OneSubmissionInv, Submitting
  <2>4. FundedInv'
    BY <1>13, GotoMoves, ReturnMoves DEF MarkStatus, SetPayment, FundedInv
  <2>5. SettleInv'
    BY <1>13, GotoMoves, ReturnMoves DEF MarkStatus, SetPayment, LdkInv, SettleInv, Terminal
  <2> QED
    BY <2>1, <2>2, <2>3, <2>4, <2>5
<1>14. ASSUME NEW w \in Workers, FailPayment(w) PROVE IndInv'
  <2>1. TypeOK'
    BY <1>14, GotoMoves, ReturnMoves DEF FailPayment, Row, SendStatus
  <2>2. LdkInv' /\ RetryInv' /\ RowInv'
    BY <1>14, GotoMoves, ReturnMoves DEF FailPayment, LdkInv, RetryInv, RowInv, SettleInv, Terminal
  <2>3. OneSubmissionInv'
    BY <1>14, GotoMoves, ReturnMoves DEF FailPayment, OneSubmissionInv, Submitting, Terminal
  <2>4. FundedInv'
    BY <1>14, GotoMoves, ReturnMoves DEF FailPayment, FundedInv
  <2>5. SettleInv'
    BY <1>14, GotoMoves, ReturnMoves DEF FailPayment, LdkInv, SettleInv, Terminal
  <2> QED
    BY <2>1, <2>2, <2>3, <2>4, <2>5
<1>15. ASSUME NEW w \in Workers, Refund(w) PROVE IndInv'
  <2>1. TypeOK'
    <3>1. refund' \in BOOLEAN
      BY <1>15, Zenon DEF Refund
    <3> QED
      BY <1>15, <3>1, GotoMoves, ReturnMoves DEF Refund
  <2>2. LdkInv' /\ RetryInv' /\ RowInv'
    BY <1>15, GotoMoves, ReturnMoves DEF Refund, LdkInv, RetryInv, RowInv, SettleInv
  <2>3. OneSubmissionInv'
    BY <1>15, GotoMoves, ReturnMoves DEF Refund, OneSubmissionInv, Submitting
  <2>4. FundedInv'
    BY <1>15, GotoMoves, ReturnMoves DEF Refund, FundedInv
  <2>5. SettleInv'
    BY <1>15, GotoMoves, ReturnMoves DEF Refund, LdkInv, SettleInv
  <2> QED
    BY <2>1, <2>2, <2>3, <2>4, <2>5
<1>16. ASSUME NEW w \in Workers, LdkAnswer(w) PROVE IndInv'
  BY <1>16 DEF LdkAnswer, Answered,
            Row, SendStatus, Terminal, NoRow, Idle,
            LdkInv, RetryInv, OneSubmissionInv, Submitting, FundedInv, SettleInv, RowInv
<1>17. CASE LdkSucceeds
  BY <1>17 DEF LdkSucceeds,
            Row, SendStatus, Terminal, NoRow, Idle,
            LdkInv, RetryInv, OneSubmissionInv, Submitting, FundedInv, SettleInv, RowInv
<1>18. CASE LdkFails
  BY <1>18 DEF LdkFails,
            Row, SendStatus, Terminal, NoRow, Idle,
            LdkInv, RetryInv, OneSubmissionInv, Submitting, FundedInv, SettleInv, RowInv
<1>19. CASE MarginEnds
  BY <1>19 DEF MarginEnds,
            Row, SendStatus, Terminal, NoRow, Idle,
            LdkInv, RetryInv, OneSubmissionInv, Submitting, FundedInv, SettleInv, RowInv
<1>20. CASE FundingReturns
  BY <1>20 DEF FundingReturns,
            Row, SendStatus, Terminal, NoRow, Idle,
            LdkInv, RetryInv, OneSubmissionInv, Submitting, FundedInv, SettleInv, RowInv
<1>21. CASE Crash
  BY <1>21 DEF Crash,
            Row, SendStatus, Terminal, NoRow, Idle,
            LdkInv, RetryInv, OneSubmissionInv, Submitting, FundedInv, SettleInv, RowInv
<1>22. CASE UNCHANGED vars
  BY <1>22 DEF vars, LdkInv, RetryInv, OneSubmissionInv, Submitting, FundedInv, SettleInv, RowInv
<1> QED
  BY <1>1, <1>2, <1>3, <1>4, <1>5, <1>6, <1>7, <1>8, <1>9, <1>10, <1>11,
     <1>12, <1>13, <1>14, <1>15, <1>16, <1>17, <1>18, <1>19, <1>20, <1>21,
     <1>22 DEF Next

(* IndInv holds throughout.                                                *)
THEOREM Invariance == Spec => []IndInv
  BY InitInv, StepInv, PTL DEF Spec

(* Every variable keeps its type.                                          *)
THEOREM TypeCorrect == Spec => []TypeOK
<1>1. IndInv => TypeOK
  BY DEF IndInv, TypeOK
<1> QED
  BY <1>1, Invariance, PTL

(* The sender is charged only for a payment that was made.                 *)
THEOREM ChargesArePaid == Spec => []ChargedOnlyIfPaid
<1>1. IndInv => ChargedOnlyIfPaid
  BY DEF IndInv, SettleInv, ChargedOnlyIfPaid
<1> QED
  BY <1>1, Invariance, PTL

(* SUCCEEDED is only reported of a settled payment.                        *)
THEOREM SuccessIsSettled == Spec => []SucceededIsSettled
<1>1. IndInv => SucceededIsSettled
  BY DEF IndInv, TypeOK, LdkInv, SettleInv, RowInv, SucceededIsSettled
<1> QED
  BY <1>1, Invariance, PTL

(* A refund follows the final failure of its payment.                      *)
THEOREM RefundsFollowFailure == Spec => []RefundOnlyAfterFailure
<1>1. IndInv => RefundOnlyAfterFailure
  BY DEF IndInv, TypeOK, LdkInv, SettleInv, RefundOnlyAfterFailure
<1> QED
  BY <1>1, Invariance, PTL

(* A prepaid send that is reported FAILED has been refunded.               *)
THEOREM FailuresAreRefunded == Spec => []FailedIsRefunded
<1>1. IndInv => FailedIsRefunded
  BY DEF IndInv, RowInv, FailedIsRefunded
<1> QED
  BY <1>1, Invariance, PTL

(* An offer is paid at most once, for any number of concurrent workers.    *)
THEOREM OffersAreSentOnce == Spec => []OffersSentOnce
<1>1. IndInv => OffersSentOnce
  BY DEF IndInv, OneSubmissionInv, Submitting, OffersSentOnce
<1> QED
  BY <1>1, Invariance, PTL

(* A payment in flight can still be collected.                             *)
THEOREM FlightsAreFunded == Spec => []InFlightIsFunded
<1>1. IndInv => InFlightIsFunded
  BY DEF IndInv, FundedInv, InFlightIsFunded
<1> QED
  BY <1>1, Invariance, PTL
=============================================================================
