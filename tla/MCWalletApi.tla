----------------------------- MODULE MCWalletApi ----------------------------
(***************************************************************************)
(* One wallet, in one of two scenes.  "access": two challenges, a quote,   *)
(* three receives and the paging of the history.  "webhooks": two receives *)
(* and two webhooks, one of an endpoint that never answers.  The scenes    *)
(* only share the receive requests; apart they are small enough to check.  *)
(* Requests, which are alike, are numbered as they are first made.         *)
(***************************************************************************)
EXTENDS WalletApi

CONSTANTS
  w,          \* the wallet
  kind,       \* the kind of its requests
  c1,         \* the first challenge
  Dead,       \* hooks whose endpoint never answers
  MaxCalls,   \* receive calls
  MaxFaults   \* calls, passes and posts that fail
VARIABLES faults, scene

OwnerOf == [n \in Requests \cup Hooks \cup Challenges \cup Quotes |-> w]
TypesOf == [h \in Hooks |-> {kind}]
KindOf  == [r \in Requests |-> kind]

liveVars == <<vars, faults, scene>>
Good(A)  == A /\ UNCHANGED <<faults, scene>>
Fault(A) == A /\ faults < MaxFaults /\ faults' = faults + 1 /\ UNCHANGED scene

(* A POST to an endpoint that answers, and one to an endpoint that does    *)
(* not.                                                                    *)
PostAnswered == batch # <<>> /\ Head(batch)[2] \notin Dead /\ Post(TRUE, TRUE)
PostIgnored  == batch # <<>> /\ Head(batch)[2] \in Dead /\ Post(FALSE, FALSE)
PostLost     == batch # <<>> /\ Head(batch)[2] \notin Dead /\ \E reached \in BOOLEAN : Post(reached, FALSE)

Worker == (BeginPass \/ PostAnswered \/ PostIgnored \/ RecordPost) /\ UNCHANGED apiVars

LiveInit == Init /\ faults = 0 /\ scene \in {"access", "webhooks"}

Access ==
  /\ scene = "access"
  /\ \/ \E c \in Challenges : Good(AgeChallenge(c)) \/ Good(ExpireSession(c))
     \/ Good(PruneChallenges)
     \/ \E t \in Handlers : Fault(VerifySignature(t, FALSE))
     \/ \E q \in Quotes : Good(IssueQuote(q)) \/ Good(LapseQuote(q))
     \/ \E t \in Handlers : Fault(DropCall(t))
     \/ Good(ReadPage(w))

Notify ==
  /\ scene = "webhooks"
  /\ \/ \E r \in Requests : Good(Finish(r))
     \/ \E h \in Hooks : Good(RegisterWebhook(h)) \/ Good(DeleteWebhook(h))
     \/ Good(Worker)
     \/ Fault(PostLost /\ UNCHANGED apiVars)
     \/ Fault(DropBatch /\ UNCHANGED apiVars)
     \/ \E d \in waiting : Good(Wake(d) /\ UNCHANGED apiVars)

LiveNext ==
  \/ \E c \in Challenges : (c = c1 \/ (scene = "access" /\ c1 \in asked)) /\ Good(GetChallenge(c))
  \/ \E t \in Handlers, c \in Challenges : Good(ConsumeChallenge(t, c))
  \/ \E t \in Handlers : Good(VerifySignature(t, TRUE))
  \/ \E t \in Handlers, r \in Requests, q \in Quotes \cup {NoQuote} :
       /\ clock < (IF scene = "access" THEN MaxCalls ELSE 2) /\ r <= clock + 1
       /\ Good(BeginReceive(t, r, q))
  \/ \E t \in Handlers : Good(StoreReceive(t))
  \/ Access
  \/ Notify

(* webhooks::run loops for ever, and time passes.                          *)
LiveSpec ==
  /\ LiveInit /\ [][LiveNext]_liveVars
  /\ WF_liveVars(Good(Worker))
  /\ \A d \in Requests \X Hooks : WF_liveVars(Good(Wake(d) /\ UNCHANGED apiVars))

(* A request that finishes while a webhook is subscribed to it reaches its *)
(* endpoint in the end, through crashes, lost replies and other endpoints  *)
(* that never answer.                                                      *)
FinishedIsDelivered ==
  <>[](\A r \in Finished, h \in hooks \ Dead :
         Matches(r, h) /\ r \notin old[h] => <<r, h>> \in delivered)

=============================================================================
