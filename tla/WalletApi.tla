----------------------------- MODULE WalletApi ------------------------------
(***************************************************************************)
(* What a wallet reaches through the GraphQL endpoint besides its payments: *)
(* challenges and sessions (auth.rs), receive quotes (quotes.rs), the      *)
(* creation of a receive request (graphql.rs), its paged history           *)
(* (history.rs) and its webhooks (module Webhooks).  Handlers run          *)
(* concurrently; each database call is a step.                             *)
(***************************************************************************)
EXTENDS Webhooks

CONSTANTS
  Challenges,      \* challenges that wallets ask for
  Quotes,          \* receive quotes that wallets ask for
  Handlers,        \* concurrent calls of one endpoint
  NoQuote,         \* a receive request without committed_quote
  ChallengeLimit,  \* outstanding challenges of an identity (100 in the code)
  QuoteLimit,      \* stored quotes of a wallet (100 in the code)
  PageSize         \* records of a history page

(* A transfer id signed for a quote is never one derived from a hash.      *)
ASSUME WalletApiAssumption ==
  Requests \cap Quotes = {} /\ NoQuote \notin Quotes /\ PageSize \in Nat \ {0}

VARIABLES
  asked,     \* challenges ever handed out
  issued,    \* challenges, in the order of issued_at
  stale,     \* challenges that are more than 300 seconds old
  sessions,  \* sessions, named by the challenge that opened them
  opened,    \* number of sessions each challenge has opened
  quotes,    \* receive_quotes
  lapsed,    \* quotes past their expiry
  uses,      \* receive_quote_uses: the quote of each request that has one
  stamp,     \* requests.created_at of each stored request
  clock,     \* the time, counted in handlers started
  call,      \* what each handler is doing (memory)
  reader     \* a wallet that pages through its history

authVars  == <<asked, issued, stale, sessions, opened>>
quoteVars == <<quotes, lapsed>>
vars == <<status, hookVars, authVars, quoteVars, uses, stamp, clock, call, reader>>

Idle == [op |-> "idle"]
Rest == [of |-> {}, pos |-> 0, at |-> "idle", seen |-> <<>>, owed |-> {}]

Init ==
  /\ status = [r \in Requests |-> "none"] /\ HooksInit
  /\ asked = {} /\ issued = <<>> /\ stale = {} /\ sessions = {} /\ opened = [c \in Challenges |-> 0]
  /\ quotes = {} /\ lapsed = {} /\ uses = <<>>
  /\ stamp = <<>> /\ clock = 0
  /\ call = [t \in Handlers |-> Idle] /\ reader = Rest

Stored == {r \in Requests : status[r] # "none"}

(* require_session: a session of the wallet that is not past valid_until.  *)
Session(o) == \E c \in sessions : Owner[c] = o

-----------------------------------------------------------------------------
(* auth.rs *)

(* get_challenge: a new row; only the latest of the identity are kept.     *)
GetChallenge(c) ==
  LET mine(d) == Owner[d] = Owner[c]
      kept    == SelectSeq(issued, mine)
  IN
  /\ c \notin asked
  /\ asked' = asked \cup {c}
  /\ issued' = Append(IF Len(kept) < ChallengeLimit THEN issued
                      ELSE Without(issued, {Head(kept)}), c)
  /\ UNCHANGED <<status, hookVars, stale, sessions, opened, quoteVars, uses, stamp, clock, call, reader>>

(* Mutant: the row is only looked up here.                                 *)
LookUpChallenge(t, c) ==
  /\ call[t] = Idle /\ c \in Range(issued) /\ c \notin stale
  /\ call' = [call EXCEPT ![t] = [op |-> "verify", challenge |-> c]]
  /\ UNCHANGED <<status, hookVars, authVars, quoteVars, uses, stamp, clock, reader>>

(* consume_challenge: the row is deleted first; an old one is refused.     *)
ConsumeChallenge(t, c) ==
  /\ call[t] = Idle /\ c \in Range(issued)
  /\ issued' = Without(issued, {c})
  /\ call' = [call EXCEPT ![t] = IF c \in stale THEN Idle
                                 ELSE [op |-> "verify", challenge |-> c]]
  /\ UNCHANGED <<status, hookVars, asked, stale, sessions, opened, quoteVars, uses, stamp, clock, reader>>

(* verify_challenge, after the row is gone: a session if the signature is  *)
(* the identity's, an error if not.                                        *)
VerifySignature(t, valid) ==
  /\ call[t].op = "verify"
  /\ LET c == call[t].challenge IN
     /\ sessions' = IF valid THEN sessions \cup {c} ELSE sessions
     /\ opened' = IF valid THEN [opened EXCEPT ![c] = @ + 1] ELSE opened
  /\ call' = [call EXCEPT ![t] = Idle]
  /\ UNCHANGED <<status, hookVars, asked, issued, stale, quoteVars, uses, stamp, clock, reader>>

(* Five minutes pass for a challenge, a day for a session.                 *)
AgeChallenge(c) ==
  /\ c \in Range(issued) \ stale
  /\ stale' = stale \cup {c}
  /\ UNCHANGED <<status, hookVars, asked, issued, sessions, opened, quoteVars, uses, stamp, clock, call, reader>>

ExpireSession(c) ==
  /\ c \in sessions
  /\ sessions' = sessions \ {c}
  /\ UNCHANGED <<status, hookVars, asked, issued, stale, opened, quoteVars, uses, stamp, clock, call, reader>>

(* prune_challenges, every ten minutes, of what is an hour old.            *)
PruneChallenges ==
  /\ stale \cap Range(issued) # {}
  /\ issued' = Without(issued, stale)
  /\ UNCHANGED <<status, hookVars, asked, stale, sessions, opened, quoteVars, uses, stamp, clock, call, reader>>

-----------------------------------------------------------------------------
(* quotes.rs *)

(* issue: expired quotes of every wallet go first.                         *)
IssueQuote(q) ==
  LET live == quotes \ lapsed IN
  /\ Session(Owner[q]) /\ q \notin quotes \cup lapsed
  /\ Cardinality({p \in live : Owner[p] = Owner[q]}) < QuoteLimit
  /\ quotes' = live \cup {q}
  /\ UNCHANGED <<status, hookVars, authVars, lapsed, uses, stamp, clock, call, reader>>

LapseQuote(q) ==
  /\ q \in quotes \ lapsed
  /\ lapsed' = lapsed \cup {q}
  /\ UNCHANGED <<status, hookVars, authVars, quotes, uses, stamp, clock, call, reader>>

-----------------------------------------------------------------------------
(* RequestLightningReceive *)

(* The session, the payment hash (which names the request) and the quote   *)
(* are checked; then LDK is asked for the invoice.                         *)
BeginReceive(t, r, q) ==
  /\ call[t] = Idle /\ Session(Owner[r]) /\ r \notin Stored
  /\ q # NoQuote => q \in quotes \ lapsed /\ Owner[q] = Owner[r]
  /\ clock' = clock + 1
  /\ call' = [call EXCEPT ![t] = [op |-> "receive", request |-> r, quote |-> q, at |-> clock']]
  /\ UNCHANGED <<status, hookVars, authVars, quoteVars, uses, stamp, reader>>

(* Mutant: the quote is checked when it is validated and not again.        *)
StoreReceiveTrusting(t) ==
  LET k == call[t] IN
  /\ k.op = "receive" /\ k.request \notin Stored
  /\ call' = [call EXCEPT ![t] = Idle]
  /\ status' = [status EXCEPT ![k.request] = "open"]
  /\ stamp' = Put(stamp, k.request, k.at)
  /\ uses' = IF k.quote = NoQuote THEN uses ELSE Put(uses, k.request, k.quote)
  /\ UNCHANGED <<hookVars, authVars, quoteVars, clock, reader>>

(* store_request: one transaction; a used quote or a known hash ends it.   *)
StoreReceive(t) ==
  LET k == call[t] IN
  /\ k.op = "receive"
  /\ call' = [call EXCEPT ![t] = Idle]
  /\ \/ /\ k.request \notin Stored /\ k.quote \notin Range(uses)
        /\ status' = [status EXCEPT ![k.request] = "open"]
        /\ stamp' = Put(stamp, k.request, k.at)
        /\ uses' = IF k.quote = NoQuote THEN uses ELSE Put(uses, k.request, k.quote)
     \/ /\ k.request \in Stored \/ k.quote \in Range(uses)
        /\ UNCHANGED <<status, stamp, uses>>
  /\ UNCHANGED <<hookVars, authVars, quoteVars, clock, reader>>

(* External: the payment modules bring the request to a terminal status.   *)
Finish(r) ==
  /\ status[r] = "open"
  /\ status' = [status EXCEPT ![r] = "finished"]
  /\ UNCHANGED <<hookVars, authVars, quoteVars, uses, stamp, clock, call, reader>>

(* The handler's client leaves, LDK refuses the invoice, or a crash.       *)
DropCall(t) ==
  /\ call[t] # Idle
  /\ call' = [call EXCEPT ![t] = Idle]
  /\ UNCHANGED <<status, hookVars, authVars, quoteVars, uses, stamp, clock, reader>>

(* receive_transfer_id: the payout's id is the signed one of the quote, or *)
(* derived from the payment hash.                                          *)
TransferId(r) == IF r \in DOMAIN uses THEN uses[r] ELSE r

-----------------------------------------------------------------------------
(* history.rs *)

(* The records of the owner before the cursor.                             *)
Below(o, pos) == {r \in Stored : Owner[r] = o /\ (pos = 0 \/ stamp[r] < pos)}

(* ORDER BY ... DESC LIMIT n.                                              *)
Newest(S, n) ==
  {page \in Injection(1..Min({n, Cardinality(S)}), S) :
     /\ \A i, j \in DOMAIN page : i < j => stamp[page[i]] >= stamp[page[j]]
     /\ \A r \in S \ Range(page) : \A i \in DOMAIN page : stamp[r] <= stamp[page[i]]}

(* Mutant: the cursor counts the records that were read.                   *)
ReadPageByOffset(o) ==
  \E all \in Newest(Below(o, 0), Cardinality(Below(o, 0))) :
  LET rest == SubSeq(all, Len(reader.seen) + 1, Len(all))
      page == SubSeq(rest, 1, Min({PageSize, Len(rest)}))
  IN
  /\ Session(o) /\ reader.at # "end"
  /\ reader' = [of   |-> {o}, pos |-> 0,
                at   |-> IF Len(rest) > PageSize THEN "page" ELSE "end",
                seen |-> reader.seen \o page,
                owed |-> IF reader.at = "idle" THEN Range(rest) ELSE reader.owed]
  /\ UNCHANGED <<status, hookVars, authVars, quoteVars, uses, stamp, clock, call>>

(* request_history: one page; the cursor is the owner and the last         *)
(* record's order key, and of no use to another wallet.                    *)
ReadPage(o) ==
  LET rest == Below(o, reader.pos) IN
  /\ Session(o) /\ reader.at # "end" /\ reader.of \subseteq {o}
  /\ \E page \in Newest(rest, PageSize) :
       reader' = [of   |-> {o},
                  pos  |-> IF page = <<>> THEN reader.pos ELSE stamp[Last(page)],
                  at   |-> IF Cardinality(rest) > PageSize THEN "page" ELSE "end",
                  seen |-> reader.seen \o page,
                  owed |-> IF reader.at = "idle" THEN rest ELSE reader.owed]
  /\ UNCHANGED <<status, hookVars, authVars, quoteVars, uses, stamp, clock, call>>

-----------------------------------------------------------------------------
apiVars == <<authVars, quoteVars, uses, stamp, clock, call, reader>>

RegisterWebhook(h) == Session(Owner[h]) /\ Register(h) /\ UNCHANGED apiVars
DeleteWebhook(h)   == Session(Owner[h]) /\ Delete(h) /\ UNCHANGED apiVars
WorkerStep ==
  (BeginPass \/ (\E reached, ok \in BOOLEAN : Post(reached, ok)) \/ RecordPost) /\ UNCHANGED apiVars

Next ==
  \/ \E c \in Challenges : GetChallenge(c) \/ AgeChallenge(c) \/ ExpireSession(c)
  \/ \E t \in Handlers, c \in Challenges : ConsumeChallenge(t, c)
  \/ \E t \in Handlers, valid \in BOOLEAN : VerifySignature(t, valid)
  \/ PruneChallenges
  \/ \E q \in Quotes : IssueQuote(q) \/ LapseQuote(q)
  \/ \E t \in Handlers, r \in Requests, q \in Quotes \cup {NoQuote} : BeginReceive(t, r, q)
  \/ \E t \in Handlers : StoreReceive(t) \/ DropCall(t)
  \/ \E r \in Requests : Finish(r) \/ ReadPage(Owner[r])
  \/ \E h \in Hooks : RegisterWebhook(h) \/ DeleteWebhook(h)
  \/ WorkerStep
  \/ \E d \in waiting : Wake(d) /\ UNCHANGED apiVars
  \/ DropBatch /\ UNCHANGED apiVars

Spec == Init /\ [][Next]_vars

-----------------------------------------------------------------------------
(* A challenge opens at most one session, whatever calls of                *)
(* verify_challenge overlap and whether the signature is right.            *)
ChallengeOpensOnce == \A c \in Challenges : opened[c] <= 1

(* No two receives are paid out under one transfer id: the operators would *)
(* take the second payout for the first.  A quote binds one receive, also  *)
(* when two calls validated it before either was stored.                   *)
PayoutIdsDiffer == \A r, s \in Stored : r # s => TransferId(r) # TransferId(s)

(* Paging through the history returns each request that was there at the   *)
(* first page, once, while requests come in between two pages.             *)
HistoryIsComplete ==
  /\ IsInjective(reader.seen)
  /\ reader.at = "end" => reader.owed \subseteq Range(reader.seen)

(* An endpoint only receives what its subscription is for, and nothing     *)
(* that had finished before it was registered; a row is marked delivered   *)
(* only when the endpoint has it.                                          *)
DeliversAsSubscribed ==
  /\ delivered \subseteq posted
  /\ \A d \in posted : Matches(d[1], d[2]) /\ d[1] \notin old[d[2]]
=============================================================================
