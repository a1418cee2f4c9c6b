------------------------ MODULE MCLightningSendLive ------------------------
(***************************************************************************)
(* Liveness of LightningSend.  A fault is a crash, an error of a call that *)
(* could have succeeded, a caller that gives up on a call on the wire, or  *)
(* an event that is no longer true; MaxFaults of them happen at any step.  *)
(***************************************************************************)
EXTENDS LightningSend

CONSTANT MaxFaults
VARIABLE faults

liveVars == <<vars, faults>>
Good(A)  == A /\ UNCHANGED faults

(* An entry of the reconciler's list pass with the status LDK has now.     *)
ListCurrent(w) ==
  /\ BeginEvent(w)
  /\ work'[w].pc = CASE ldk = "succeeded" -> "settle"
                     [] ldk = "failed" -> "fail"
                     [] OTHER -> "markPending"

(* The lookup of w has an answer to go on with.                            *)
CanContinue(w) ==
  \/ ldk # "absent"
  \/ kind = "BOLT11" /\ work[w].snap = [status |-> "SUBMITTING", payment |-> "none"]

(* The worker takes a step: the calls that can succeed do.                 *)
Step(w) ==
  \/ Verify(w) /\ (FundingVerified => work'[w].pc # "idle")
  \/ BeginSubmission(w) \/ Submit(w) \/ Bind(w) \/ MarkStatus(w) \/ FailPayment(w)
  \/ call[w] = "ok" /\ SubmitReply(w) /\ work'[w].pc \in {"bind", "rebind"}
  \/ call[w] = "error" /\ SubmitReply(w)
  \/ Lookup(w) /\ (work'[w].pc = "idle" => ~CanContinue(w))
  \/ LookupAgain(w) /\ (ldk # "absent" => work'[w].pc = "bind")
  \/ Observe(w) /\ (ldk \in {"succeeded", "failed"} /\ row.status # "SUCCEEDED"
                      => work'[w].pc # "idle")
  \/ Settle(w) /\ (funding # "returned" => work'[w].pc = "markSucceeded")
  \/ Refund(w) /\ work'[w].pc = "markFailed"

(* LDK answers a call: an acceptable one is accepted.                      *)
Answer(w) == LdkAnswer(w) /\ (ldk \in {"absent", "failed"} => ldk' = "pending")

Fault ==
  \/ Crash
  \/ \E w \in Workers :
       \/ Verify(w) \/ SubmitReply(w) \/ Lookup(w) \/ LookupAgain(w) \/ Observe(w)
       \/ Settle(w) \/ Refund(w) \/ LdkAnswer(w) \/ BeginEvent(w)

LiveInit == Init /\ faults = 0

LiveNext ==
  \/ Fault /\ faults < MaxFaults /\ faults' = faults + 1
  \/ \E w \in Workers :
       \/ Good(PrepareSend(w)) \/ Good(BeginRecover(w)) \/ Good(ListCurrent(w))
       \/ Good(Step(w)) \/ Good(Answer(w))
  \/ Good(LdkSucceeds) \/ Good(LdkFails)
  \/ Good(MarginEnds) \/ Good(FundingReturns)

(* The reconciler reads every unresolved row and every LDK payment each 30 *)
(* seconds, whatever else runs: strong fairness.  A worker that started    *)
(* goes on, LDK answers its calls and resolves a payment it has in flight. *)
LiveSpec ==
  /\ LiveInit /\ [][LiveNext]_liveVars
  /\ SF_liveVars(\E w \in Workers : Good(BeginRecover(w)))
  /\ SF_liveVars(\E w \in Workers : Good(ListCurrent(w)))
  /\ \A w \in Workers : WF_liveVars(Good(Step(w))) /\ WF_liveVars(Good(Answer(w)))
  /\ WF_liveVars(Good(LdkSucceeds \/ LdkFails))

(* A BOLT11 payment that LDK made is eventually collected from its funding *)
(* while that has not expired, also when the reply to the submission was   *)
(* lost and only recovery finds the payment (recover_submission).          *)
PaidIsCollected ==
  [](funding # "expiring") => (kind = "BOLT11" /\ ldk = "succeeded" ~> funding = "claimed")

(* A prepaid send that LDK failed is eventually refunded and reported      *)
(* FAILED, whatever interrupted the refund (fail_managed_payment).         *)
FailureIsRefunded ==
  kind = "BOLT12" /\ ldk = "failed" ~> refund /\ row.status = "FAILED"

(* Every stored BOLT11 intent reaches a final status while its funding     *)
(* lasts, also after a crash at the SUBMITTING checkpoint                  *)
(* (retry_missing_bolt11).                                                 *)
IntentResolves ==
  [](funding # "expiring") => (kind = "BOLT11" /\ row.status # "NONE" ~> row.status \in Terminal)
=============================================================================
