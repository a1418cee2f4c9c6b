-------------------------- MODULE WalletApiProofs ---------------------------
(***************************************************************************)
(* The safety of WalletApi and Webhooks for every number of wallets,       *)
(* challenges, quotes, requests, webhooks and concurrent handlers, and for *)
(* every limit.                                                            *)
(***************************************************************************)
EXTENDS WalletApi, SequenceTheorems, DataTheorems

(* g is what the recursion of Without defines on the first n members.      *)
Keeps(s, T, n, g) ==
  g = [i \in 0..n |-> IF i = 0 THEN <<>>
                      ELSE IF s[i] \in T THEN g[i - 1]
                      ELSE Append(g[i - 1], s[i])]

(* The recursion of Without defines a function.                            *)
LEMMA KeepsExist ==
  ASSUME NEW s, NEW T, NEW k \in Nat
  PROVE  \E g : Keeps(s, T, k, g)
<1> DEFINE Bad == {n \in Nat : ~\E g : Keeps(s, T, n, g)}
<1>1. SUFFICES ASSUME Bad # {} PROVE FALSE
  OBVIOUS
<1>2. PICK n \in Bad : \A m \in Bad : n <= m
  <2>1. Bad \subseteq Nat
    OBVIOUS
  <2> HIDE DEF Bad
  <2> QED BY <1>1, <2>1, LeastNatural
<1>3. n # 0
  <2>1. Keeps(s, T, 0, [i \in 0..0 |-> <<>>])
    BY DEF Keeps
  <2> QED BY <2>1
<1>4. PICK g : Keeps(s, T, n - 1, g)
  BY <1>2, <1>3
<1> DEFINE Next1 == IF s[n] \in T THEN g[n - 1] ELSE Append(g[n - 1], s[n])
           h == [i \in 0..n |-> IF i = n THEN Next1 ELSE g[i]]
<1>5. \A i \in 0..n : h[i] = IF i = 0 THEN <<>>
                             ELSE IF s[i] \in T THEN h[i - 1]
                             ELSE Append(h[i - 1], s[i])
  <2> SUFFICES ASSUME NEW i \in 0..n
               PROVE  h[i] = IF i = 0 THEN <<>>
                             ELSE IF s[i] \in T THEN h[i - 1]
                             ELSE Append(h[i - 1], s[i])
    OBVIOUS
  <2>1. CASE i = n
    BY <1>3, <2>1
  <2>2. CASE i # n
    <3>1. i \in 0..(n - 1)
      BY <2>2
    <3>2. g[i] = IF i = 0 THEN <<>> ELSE IF s[i] \in T THEN g[i - 1] ELSE Append(g[i - 1], s[i])
      BY <1>4, <3>1 DEF Keeps
    <3>3. h[i] = g[i] /\ (i # 0 => h[i - 1] = g[i - 1])
      BY <3>1
    <3> QED BY <3>2, <3>3
  <2> QED BY <2>1, <2>2
<1>6. Keeps(s, T, n, h)
  <2>1. h = [i \in 0..n |-> h[i]]
    OBVIOUS
  <2> HIDE DEF h
  <2> QED BY <1>5, <2>1 DEF Keeps
<1> QED
  BY <1>6

(* Without keeps members of s that are not in T, and no others.            *)
LEMMA WithoutMembers ==
  ASSUME NEW S, NEW s \in Seq(S), NEW T
  PROVE  Without(s, T) \in Seq(S) /\ Range(Without(s, T)) \subseteq Range(s) \ T
<1> DEFINE g == CHOOSE f : Keeps(s, T, Len(s), f)
<1>1. Without(s, T) = g[Len(s)]
  BY DEF Without, Keeps
<1>2. Keeps(s, T, Len(s), g)
  BY KeepsExist
<1> HIDE DEF g
<1> DEFINE Fine(x) == x \in Seq(S) /\ Range(x) \subseteq Range(s) \ T
           Bad == {n \in 0..Len(s) : ~Fine(g[n])}
<1>3. SUFFICES ASSUME Bad # {} PROVE FALSE
  BY <1>1
<1>4. PICK n \in Bad : \A m \in Bad : n <= m
  <2>1. Bad \subseteq Nat
    OBVIOUS
  <2> HIDE DEF Bad
  <2> QED BY <1>3, <2>1, LeastNatural
<1>5. n # 0
  <2>1. g[0] = <<>>
    BY <1>2 DEF Keeps
  <2>2. Fine(<<>>)
    BY DEF Range
  <2> QED BY <2>1, <2>2
<1>6. Fine(g[n - 1])
  BY <1>4, <1>5
<1>7. g[n] = IF s[n] \in T THEN g[n - 1] ELSE Append(g[n - 1], s[n])
  BY <1>2, <1>5 DEF Keeps
<1>8. CASE s[n] \in T
  BY <1>6, <1>7, <1>8
<1>9. CASE s[n] \notin T
  <2>1. n \in 1..Len(s) /\ s[n] \in S /\ s[n] \in Range(s)
    BY <1>5 DEF Range
  <2>2. g[n] = Append(g[n - 1], s[n]) /\ g[n] \in Seq(S)
    BY <1>6, <1>7, <1>9, <2>1
  <2>3. Range(g[n]) \subseteq Range(g[n - 1]) \cup {s[n]}
    BY <1>6, <2>1, <2>2 DEF Range
  <2> QED BY <1>6, <1>9, <2>1, <2>2, <2>3
<1> QED
  BY <1>8, <1>9

(* What the other operators on sequences do to their members.              *)
LEMMA AppendMembers ==
  ASSUME NEW S, NEW s \in Seq(S), NEW x \in S
  PROVE  Append(s, x) \in Seq(S) /\ Range(Append(s, x)) = Range(s) \cup {x}
<1>1. Append(s, x) \in Seq(S) /\ Len(Append(s, x)) = Len(s) + 1
  OBVIOUS
<1>2. \A i \in 1..Len(s) : Append(s, x)[i] = s[i]
  OBVIOUS
<1>3. Append(s, x)[Len(s) + 1] = x
  OBVIOUS
<1> QED
  BY <1>1, <1>2, <1>3 DEF Range

(* The first members of a sequence.                                        *)
LEMMA PrefixMembers ==
  ASSUME NEW S, NEW s \in Seq(S), NEW b \in Nat
  PROVE  LET t == SubSeq(s, 1, Min({b, Len(s)})) IN
         t \in Seq(S) /\ Range(t) \subseteq Range(s)
<1> DEFINE m == Min({b, Len(s)})
           t == SubSeq(s, 1, m)
<1>1. m \in 0..Len(s)
  BY DEF Min
<1> HIDE DEF m
<1>2. t \in Seq(S) /\ Len(t) = m /\ \A i \in 1..m : t[i] = s[i]
  BY <1>1
<1> HIDE DEF t
<1>3. Range(t) \subseteq Range(s)
  BY <1>1, <1>2 DEF Range
<1> QED
  BY <1>2, <1>3 DEF t, m

(* The sequence of a finite set has the set's members.                     *)
LEMMA SetToSeqMembers ==
  ASSUME NEW S, IsFiniteSet(S)
  PROVE  SetToSeq(S) \in Seq(S)
<1>1. Cardinality(S) \in Nat /\ \E f \in [1..Cardinality(S) -> S] : IsInjective(f)
  BY FS_CardinalityType DEF ExistsBijection, Bijection, Injection
<1>2. SetToSeq(S) \in [1..Cardinality(S) -> S]
  BY <1>1 DEF SetToSeq
<1> QED
  BY <1>1, <1>2

-----------------------------------------------------------------------------
(* Challenges *)

Verifies == [op : {"verify"}, challenge : Challenges]
Receives == [op : {"receive"}, request : Requests, quote : Quotes \cup {NoQuote}, at : Nat]

CallType ==
  /\ clock \in Nat
  /\ call \in [Handlers -> {Idle} \cup Verifies \cup Receives]

Verifying(t, c) == call[t].op = "verify" /\ call[t].challenge = c

(* A challenge is in the table, or in one handler, or has been used, and   *)
(* never in two of these places.                                           *)
ChallengeInv ==
  /\ issued \in Seq(Challenges)
  /\ opened \in [Challenges -> {0, 1}]
  /\ \A c \in Challenges :
       /\ c \in Range(issued) => /\ c \in asked /\ opened[c] = 0
                                 /\ \A t \in Handlers : ~Verifying(t, c)
       /\ opened[c] = 1 => c \in asked
       /\ \A t \in Handlers : Verifying(t, c) =>
            /\ c \in asked /\ opened[c] = 0
            /\ \A u \in Handlers : Verifying(u, c) => u = t

(* The steps of auth.rs, and of the calls that overlap with them.          *)
LEMMA StepCalls == CallType /\ [Next]_vars => CallType'
<1> SUFFICES ASSUME CallType, [Next]_vars PROVE CallType'
  OBVIOUS
<1> USE DEF CallType, Verifies, Receives, Idle
<1>1. CASE UNCHANGED <<clock, call>>
  BY <1>1
<1>2. ASSUME NEW t \in Handlers, NEW c \in Challenges, ConsumeChallenge(t, c)
      PROVE  CallType'
  BY <1>2 DEF ConsumeChallenge
<1>3. ASSUME NEW t \in Handlers, UNCHANGED clock, call' = [call EXCEPT ![t] = Idle]
      PROVE  CallType'
  BY <1>3
<1>4. ASSUME NEW t \in Handlers, NEW r \in Requests, NEW q \in Quotes \cup {NoQuote},
             BeginReceive(t, r, q)
      PROVE  CallType'
  BY <1>4 DEF BeginReceive
<1>5. \/ UNCHANGED <<clock, call>>
      \/ \E t \in Handlers, c \in Challenges : ConsumeChallenge(t, c)
      \/ \E t \in Handlers : UNCHANGED clock /\ call' = [call EXCEPT ![t] = Idle]
      \/ \E t \in Handlers, r \in Requests, q \in Quotes \cup {NoQuote} : BeginReceive(t, r, q)
  BY DEF Next, vars, apiVars, GetChallenge, AgeChallenge, ExpireSession, VerifySignature,
         PruneChallenges, IssueQuote, LapseQuote, StoreReceive, DropCall, Finish, ReadPage,
         RegisterWebhook, DeleteWebhook, WorkerStep
<1> QED
  BY <1>1, <1>2, <1>3, <1>4, <1>5

(* Every step keeps a challenge in one place.                              *)
LEMMA StepChallenges == CallType /\ ChallengeInv /\ [Next]_vars => ChallengeInv'
<1> SUFFICES ASSUME CallType, ChallengeInv, [Next]_vars PROVE ChallengeInv'
  OBVIOUS
<1> USE DEF CallType, Verifies, Receives, Idle, ChallengeInv, Verifying
<1>1. CASE UNCHANGED <<asked, issued, opened, call>>
  BY <1>1
<1>2. ASSUME NEW T, issued' = Without(issued, T), UNCHANGED <<asked, opened, call>>
      PROVE  ChallengeInv'
  BY <1>2, WithoutMembers
<1>3. ASSUME NEW c \in Challenges, GetChallenge(c)
      PROVE  ChallengeInv'
  <2>1. PICK rest : /\ rest \in Seq(Challenges) /\ Range(rest) \subseteq Range(issued)
                    /\ issued' = Append(rest, c)
    <3>1. issued' = Append(issued, c) \/ \E d : issued' = Append(Without(issued, {d}), c)
      BY <1>3, Zenon DEF GetChallenge
    <3>2. \A d : /\ Without(issued, {d}) \in Seq(Challenges)
                 /\ Range(Without(issued, {d})) \subseteq Range(issued)
      BY WithoutMembers
    <3> QED BY <3>1, <3>2
  <2>2. issued' \in Seq(Challenges) /\ Range(issued') \subseteq Range(issued) \cup {c}
    BY <2>1, AppendMembers
  <2>3. c \notin asked /\ asked' = asked \cup {c} /\ UNCHANGED <<opened, call>>
    BY <1>3 DEF GetChallenge
  <2> QED BY <2>2, <2>3
<1>4. ASSUME NEW t \in Handlers, NEW c \in Challenges, ConsumeChallenge(t, c)
      PROVE  ChallengeInv'
  <2>1. /\ issued' \in Seq(Challenges) /\ Range(issued') \subseteq Range(issued) \ {c}
        /\ c \in Range(issued) /\ UNCHANGED <<asked, opened>>
        /\ \/ call' = [call EXCEPT ![t] = Idle]
           \/ call' = [call EXCEPT ![t] = [op |-> "verify", challenge |-> c]]
    BY <1>4, WithoutMembers DEF ConsumeChallenge
  <2>2. opened[c] = 0 /\ c \in asked /\ \A u \in Handlers : ~Verifying(u, c)
    BY <2>1
  <2>3. CASE call' = [call EXCEPT ![t] = Idle]
    BY <2>1, <2>3
  <2>4. CASE call' = [call EXCEPT ![t] = [op |-> "verify", challenge |-> c]]
    <3>1. \A u \in Handlers : u # t => call'[u] = call[u]
      BY <2>4
    <3>2. call'[t] = [op |-> "verify", challenge |-> c]
      BY <2>4
    <3>3. \A u \in Handlers, d \in Challenges :
            Verifying(u, d)' <=> (u = t /\ d = c) \/ (u # t /\ Verifying(u, d))
      BY <3>1, <3>2
    <3> HIDE DEF Verifying
    <3> QED BY <2>1, <2>2, <3>3
  <2> QED BY <2>1, <2>3, <2>4
<1>5. ASSUME NEW t \in Handlers, NEW valid \in BOOLEAN, VerifySignature(t, valid)
      PROVE  ChallengeInv'
  <2> DEFINE c == call[t].challenge
  <2>1. /\ call[t].op = "verify" /\ c \in Challenges
        /\ opened' = [opened EXCEPT ![c] = @ + 1] \/ UNCHANGED opened
        /\ call' = [call EXCEPT ![t] = Idle] /\ UNCHANGED <<asked, issued>>
    BY <1>5 DEF VerifySignature
  <2>2. opened[c] = 0 /\ c \in asked /\ Verifying(t, c)
    BY <2>1
  <2> QED BY <2>1, <2>2
<1>6. ASSUME NEW t \in Handlers, call' = [call EXCEPT ![t] = Idle],
             UNCHANGED <<asked, issued, opened>>
      PROVE  ChallengeInv'
  BY <1>6
<1>7. ASSUME NEW t \in Handlers, NEW r \in Requests, NEW q \in Quotes \cup {NoQuote},
             BeginReceive(t, r, q)
      PROVE  ChallengeInv'
  <2>1. /\ call' = [call EXCEPT ![t] = [op |-> "receive", request |-> r, quote |-> q, at |-> clock']]
        /\ UNCHANGED <<asked, issued, opened>>
    BY <1>7 DEF BeginReceive, authVars
  <2> QED BY <2>1
<1>8. \/ UNCHANGED <<asked, issued, opened, call>>
      \/ \E T : issued' = Without(issued, T) /\ UNCHANGED <<asked, opened, call>>
      \/ \E c \in Challenges : GetChallenge(c)
      \/ \E t \in Handlers, c \in Challenges : ConsumeChallenge(t, c)
      \/ \E t \in Handlers, valid \in BOOLEAN : VerifySignature(t, valid)
      \/ \E t \in Handlers : call' = [call EXCEPT ![t] = Idle] /\ UNCHANGED <<asked, issued, opened>>
      \/ \E t \in Handlers, r \in Requests, q \in Quotes \cup {NoQuote} : BeginReceive(t, r, q)
  BY DEF Next, vars, apiVars, authVars, AgeChallenge, ExpireSession,
         PruneChallenges, IssueQuote, LapseQuote, StoreReceive, DropCall, Finish, ReadPage,
         RegisterWebhook, DeleteWebhook, WorkerStep
<1> QED
  BY <1>1, <1>2, <1>3, <1>4, <1>5, <1>6, <1>7, <1>8

-----------------------------------------------------------------------------
(* Quotes and receives *)

(* A quote is used by one stored request.                                  *)
UseInv ==
  /\ status \in [Requests -> {"none", "open", "finished"}]
  /\ \A r \in DOMAIN uses : r \in Stored /\ uses[r] \in Quotes
  /\ \A r, s \in DOMAIN uses : uses[r] = uses[s] => r = s

(* Every step keeps the uses of quotes apart.                              *)
LEMMA StepUses == CallType /\ UseInv /\ [Next]_vars => UseInv'
<1> SUFFICES ASSUME CallType, UseInv, [Next]_vars PROVE UseInv'
  OBVIOUS
<1> USE WalletApiAssumption DEF CallType, Verifies, Receives, Idle, UseInv, Stored
<1>1. CASE UNCHANGED <<status, uses>>
  BY <1>1
<1>2. ASSUME NEW r \in Requests, Finish(r) PROVE UseInv'
  BY <1>2 DEF Finish
<1>3. ASSUME NEW t \in Handlers, StoreReceive(t) PROVE UseInv'
  <2> DEFINE r == call[t].request
             q == call[t].quote
  <2>1. r \in Requests /\ q \in Quotes \cup {NoQuote}
    BY <1>3 DEF StoreReceive
  <2>2. CASE r \notin Stored /\ q \notin Range(uses)
    <3>1. /\ status' = [status EXCEPT ![r] = "open"]
          /\ uses' = IF q = NoQuote THEN uses ELSE Put(uses, r, q)
      BY <1>3, <2>2 DEF StoreReceive
    <3>2. CASE q = NoQuote
      BY <2>1, <3>1, <3>2
    <3>3. CASE q # NoQuote
      <4>1. uses' = [s \in DOMAIN uses \cup {r} |-> IF s = r THEN q ELSE uses[s]]
        BY <3>1, <3>3 DEF Put
      <4>2. r \notin DOMAIN uses /\ \A s \in DOMAIN uses : uses[s] # q
        BY <2>2 DEF Range
      <4> QED BY <2>1, <3>1, <3>3, <4>1, <4>2
    <3> QED BY <3>2, <3>3
  <2>3. CASE r \in Stored \/ q \in Range(uses)
    <3>1. UNCHANGED <<status, uses>>
      BY <1>3, <2>3 DEF StoreReceive
    <3> QED BY <3>1, <1>1
  <2> QED BY <2>2, <2>3
<1>4. \/ UNCHANGED <<status, uses>>
      \/ \E r \in Requests : Finish(r)
      \/ \E t \in Handlers : StoreReceive(t)
  BY DEF Next, vars, apiVars, GetChallenge, AgeChallenge, ExpireSession, ConsumeChallenge,
         VerifySignature, PruneChallenges, IssueQuote, LapseQuote, BeginReceive, DropCall, ReadPage,
         RegisterWebhook, DeleteWebhook, WorkerStep, Register, Delete, BeginPass, Post, RecordPost,
         Wake, DropBatch
<1> QED
  BY <1>1, <1>2, <1>3, <1>4

-----------------------------------------------------------------------------
(* Webhooks *)

Deliveries == Requests \X Hooks

(* A delivery that its endpoint has subscribed to, in time.                *)
Sound(d) == d \in Deliveries /\ d[2] \in DOMAIN old /\ Matches(d[1], d[2]) /\ d[1] \notin old[d[2]]

(* Every delivery, wherever it is, is sound: what was finished when a hook *)
(* was registered has its event already, and is not captured again.        *)
HookInv ==
  /\ hooks \subseteq Hooks \cap DOMAIN old
  /\ \A h \in hooks : old[h] \subseteq events
  /\ fresh \in Seq(Deliveries) /\ retry \in Seq(Deliveries) /\ batch \in Seq(Deliveries)
  /\ \A d \in Range(fresh) \cup Range(retry) \cup Range(batch) \cup waiting \cup posted : Sound(d)
  /\ replied \in {"none", "ok", "failed"}
  /\ replied # "none" => batch # <<>>
  /\ replied = "ok" => Head(batch) \in posted
  /\ delivered \subseteq posted

(* What capture adds to the queue is sound.                                *)
LEMMA CaptureSound ==
  ASSUME HookInv, Capture
  PROVE  /\ fresh' \in Seq(Deliveries)
         /\ \A d \in Range(fresh') : d \in Range(fresh) \/ Sound(d)
<1>1. Captured \subseteq Deliveries /\ \A d \in Captured : Sound(d)
  BY DEF HookInv, Captured, Sound, Deliveries, Finished
<1>2. IsFiniteSet(Captured)
  BY <1>1, WebhooksAssumption, FS_Product, FS_Subset DEF Deliveries
<1> DEFINE new == SetToSeq(Captured)
<1>3. new \in Seq(Captured)
  BY <1>2, SetToSeqMembers
<1> HIDE DEF new
<1>4. new \in Seq(Deliveries) /\ Range(new) \subseteq Captured
  BY <1>1, <1>3, RangeOfSeq
<1>5. fresh' = fresh \o new
  BY DEF Capture, new
<1>6. fresh' \in Seq(Deliveries) /\ Range(fresh') = Range(fresh) \cup Range(new)
  BY <1>4, <1>5, RangeConcatenation DEF HookInv
<1> QED
  BY <1>1, <1>4, <1>6

(* The steps of webhooks.rs.                                               *)
LEMMA StepHooks == HookInv /\ [Next]_vars => HookInv'
<1> SUFFICES ASSUME HookInv, [Next]_vars PROVE HookInv'
  OBVIOUS
<1>1. CASE UNCHANGED hookVars
  BY <1>1 DEF HookInv, hookVars, Sound
<1>2. ASSUME NEW h \in Hooks, Register(h) PROVE HookInv'
  <2>1. /\ h \notin DOMAIN old /\ hooks' = hooks \cup {h}
        /\ old' = [g \in DOMAIN old \cup {h} |-> IF g = h THEN Finished ELSE old[g]]
        /\ events' = events \cup Finished
        /\ UNCHANGED <<retry, waiting, delivered, batch, replied, posted>>
    BY <1>2 DEF Register, Put, Capture
  <2>2. \A d : Sound(d) => Sound(d)'
    BY <2>1 DEF Sound
  <2>3. /\ fresh' \in Seq(Deliveries)
        /\ \A d \in Range(fresh') : d \in Range(fresh) \/ Sound(d)
    BY <1>2, CaptureSound DEF Register
  <2>4. \A d \in Range(fresh') \cup Range(retry) \cup Range(batch) \cup waiting \cup posted : Sound(d)'
    BY <2>2, <2>3 DEF HookInv
  <2> QED BY <2>1, <2>3, <2>4 DEF HookInv
<1>3. ASSUME NEW h \in Hooks, Delete(h) PROVE HookInv'
  <2>1. /\ fresh' \in Seq(Deliveries) /\ Range(fresh') \subseteq Range(fresh)
        /\ retry' \in Seq(Deliveries) /\ Range(retry') \subseteq Range(retry)
    BY <1>3, WithoutMembers DEF Delete, HookInv
  <2>2. /\ hooks' \subseteq hooks /\ waiting' \subseteq waiting /\ delivered' \subseteq delivered
        /\ UNCHANGED <<events, batch, replied, posted, old>>
    BY <1>3 DEF Delete
  <2> QED BY <2>1, <2>2 DEF HookInv, Sound
<1>4. CASE BeginPass
  <2>1. /\ batch = <<>> /\ events \subseteq events'
        /\ UNCHANGED <<hooks, retry, waiting, delivered, replied, posted, old>>
    BY <1>4 DEF BeginPass, Capture
  <2>2. /\ fresh' \in Seq(Deliveries)
        /\ \A d \in Range(fresh') : Sound(d)
    BY <1>4, CaptureSound DEF BeginPass, HookInv
  <2>3. /\ fresh' \o retry \in Seq(Deliveries)
        /\ Range(fresh' \o retry) = Range(fresh') \cup Range(retry)
    BY <2>2, RangeConcatenation DEF HookInv
  <2>4. batch' \in Seq(Deliveries) /\ Range(batch') \subseteq Range(fresh' \o retry)
    BY <1>4, <2>3, PrefixMembers, WebhooksAssumption DEF BeginPass
  <2>5. replied = "none"
    BY <2>1 DEF HookInv
  <2> QED BY <2>1, <2>2, <2>3, <2>4, <2>5 DEF HookInv, Sound
<1>5. ASSUME NEW reached \in BOOLEAN, NEW ok \in BOOLEAN, Post(reached, ok) PROVE HookInv'
  <2>1. /\ batch # <<>>
        /\ UNCHANGED <<hooks, events, fresh, retry, waiting, delivered, old, batch>>
    BY <1>5 DEF Post, rowVars
  <2>2. 1 \in DOMAIN batch /\ Head(batch) = batch[1]
    BY <2>1 DEF HookInv
  <2>3. Head(batch) \in Range(batch)
    BY <2>2 DEF Range
  <2>4. \/ posted' = posted \cup {Head(batch)} /\ replied' \in {"ok", "failed"}
        \/ posted' = posted /\ replied' = "failed"
    <3>1. CASE reached = TRUE /\ ok = TRUE
      BY <1>5, <3>1 DEF Post
    <3>2. CASE reached = TRUE /\ ok = FALSE
      BY <1>5, <3>2 DEF Post
    <3>3. CASE reached = FALSE
      BY <1>5, <3>3, Zenon DEF Post
    <3> QED BY <3>1, <3>2, <3>3
  <2> QED BY <2>1, <2>3, <2>4 DEF HookInv, Sound
<1>6. CASE RecordPost
  <2> DEFINE d == Head(batch)
  <2>1. /\ batch # <<>> /\ batch' = Tail(batch) /\ replied' = "none"
        /\ fresh' = Without(fresh, {d}) /\ retry' = Without(retry, {d})
        /\ delivered' = delivered \/ (replied = "ok" /\ delivered' = delivered \cup {d})
        /\ waiting' \subseteq waiting \cup {d}
        /\ UNCHANGED <<hooks, events, posted, old>>
    BY <1>6 DEF RecordPost
  <2>2. d \in Range(batch) /\ batch' \in Seq(Deliveries) /\ Range(batch') \subseteq Range(batch)
    BY <2>1 DEF HookInv, Range
  <2>3. /\ fresh' \in Seq(Deliveries) /\ Range(fresh') \subseteq Range(fresh)
        /\ retry' \in Seq(Deliveries) /\ Range(retry') \subseteq Range(retry)
    BY <2>1, WithoutMembers DEF HookInv
  <2> QED BY <2>1, <2>2, <2>3 DEF HookInv, Sound
<1>7. ASSUME NEW d \in waiting, Wake(d) PROVE HookInv'
  <2>1. /\ waiting' = waiting \ {d} /\ retry' = Append(retry, d)
        /\ UNCHANGED <<hooks, events, fresh, delivered, batch, replied, posted, old>>
    BY <1>7 DEF Wake
  <2>2. retry' \in Seq(Deliveries) /\ Range(retry') = Range(retry) \cup {d}
    BY <2>1, AppendMembers DEF HookInv, Sound
  <2> QED BY <2>1, <2>2 DEF HookInv, Sound
<1>8. CASE DropBatch
  <2>1. /\ batch' = <<>> /\ replied' = "none"
        /\ UNCHANGED <<hooks, events, fresh, retry, waiting, delivered, old, posted>>
    BY <1>8 DEF DropBatch, rowVars
  <2> QED BY <2>1 DEF HookInv, Sound, Range
<1>9. \/ UNCHANGED hookVars
      \/ \E h \in Hooks : Register(h) \/ Delete(h)
      \/ BeginPass \/ (\E reached, ok \in BOOLEAN : Post(reached, ok)) \/ RecordPost
      \/ \E d \in waiting : Wake(d)
      \/ DropBatch
  BY DEF Next, vars, GetChallenge, AgeChallenge, ExpireSession, ConsumeChallenge, VerifySignature,
         PruneChallenges, IssueQuote, LapseQuote, BeginReceive, StoreReceive, DropCall, Finish,
         ReadPage, RegisterWebhook, DeleteWebhook, WorkerStep
<1> QED
  BY <1>1, <1>2, <1>3, <1>4, <1>5, <1>6, <1>7, <1>8, <1>9

-----------------------------------------------------------------------------
(* The history *)

Receiving(t) == call[t].op = "receive"

(* Records have keys of their own, and so will those of running calls.     *)
StampInv ==
  /\ DOMAIN stamp = Stored
  /\ \A r \in Stored : stamp[r] \in 1..clock
  /\ \A r, s \in Stored : stamp[r] = stamp[s] => r = s
  /\ \A t \in Handlers : Receiving(t) =>
       /\ call[t].at \in 1..clock /\ \A r \in Stored : stamp[r] # call[t].at
       /\ \A u \in Handlers : Receiving(u) /\ call[u].at = call[t].at => u = t

(* What a reader has seen is above its cursor, and what it is owed and has *)
(* not seen is below.                                                      *)
ReadInv ==
  /\ reader.at \in {"idle", "page", "end"} /\ reader.pos \in Nat
  /\ reader.seen \in Seq(Requests) /\ Range(reader.seen) \subseteq Stored /\ IsInjective(reader.seen)
  /\ reader.owed \subseteq Stored
  /\ reader.at = "idle" => reader.pos = 0 /\ reader.seen = <<>>
  /\ reader.at = "page" =>
       /\ reader.pos # 0 /\ \A r \in Range(reader.seen) : stamp[r] >= reader.pos
       /\ \A r \in reader.owed : /\ Owner[r] \in reader.of
                                 /\ r \in Range(reader.seen) \/ stamp[r] < reader.pos
  /\ reader.at = "end" => reader.owed \subseteq Range(reader.seen)

(* A record is stored once and keeps its key.                              *)
LEMMA StepStamps ==
  CallType /\ UseInv /\ StampInv /\ [Next]_vars
    => StampInv' /\ Stored \subseteq Stored' /\ \A r \in Stored : stamp'[r] = stamp[r]
<1> SUFFICES ASSUME CallType, UseInv, StampInv, [Next]_vars
             PROVE  StampInv' /\ Stored \subseteq Stored' /\ \A r \in Stored : stamp'[r] = stamp[r]
  OBVIOUS
<1> USE DEF CallType, StampInv, Receiving
<1>1. ASSUME NEW t \in Handlers, NEW k, k.op # "receive", call' = [call EXCEPT ![t] = k],
             Stored' = Stored, UNCHANGED <<stamp, clock>>
      PROVE  StampInv'
  BY <1>1
<1>2. CASE UNCHANGED <<status, stamp, clock, call>>
  BY <1>2 DEF Stored
<1>3. ASSUME NEW r \in Requests, Finish(r)
      PROVE  Stored' = Stored /\ UNCHANGED <<stamp, clock, call>>
  BY <1>3 DEF Finish, Stored, UseInv
<1>4. ASSUME NEW t \in Handlers, NEW c \in Challenges, ConsumeChallenge(t, c)
      PROVE  StampInv' /\ Stored' = Stored /\ stamp' = stamp
  <2>1. /\ \/ call' = [call EXCEPT ![t] = Idle]
           \/ call' = [call EXCEPT ![t] = [op |-> "verify", challenge |-> c]]
        /\ UNCHANGED <<status, stamp, clock>>
    BY <1>4 DEF ConsumeChallenge
  <2> QED BY <1>1, <2>1 DEF Idle, Stored
<1>5. ASSUME NEW t \in Handlers, call' = [call EXCEPT ![t] = Idle], UNCHANGED <<status, stamp, clock>>
      PROVE  StampInv' /\ Stored' = Stored /\ stamp' = stamp
  BY <1>1, <1>5 DEF Idle, Stored
<1>6. ASSUME NEW t \in Handlers, NEW r \in Requests, NEW q \in Quotes \cup {NoQuote}, BeginReceive(t, r, q)
      PROVE  StampInv' /\ Stored' = Stored /\ stamp' = stamp
  <2>1. /\ clock' = clock + 1 /\ UNCHANGED <<status, stamp>>
        /\ call' = [call EXCEPT ![t] = [op |-> "receive", request |-> r, quote |-> q, at |-> clock']]
    BY <1>6 DEF BeginReceive
  <2>2. Stored' = Stored
    BY <2>1 DEF Stored
  <2>3. /\ call'[t].op = "receive" /\ call'[t].at = clock'
        /\ \A u \in Handlers : u # t => call'[u] = call[u]
    BY <2>1
  <2>4. \A u \in Handlers : Receiving(u) => call[u].at \in 1..clock
    OBVIOUS
  <2> QED BY <2>1, <2>2, <2>3, <2>4
<1>7. ASSUME NEW t \in Handlers, StoreReceive(t)
      PROVE  StampInv' /\ Stored \subseteq Stored' /\ \A r \in Stored : stamp'[r] = stamp[r]
  <2> DEFINE r == call[t].request
             at == call[t].at
  <2>1. Receiving(t) /\ call' = [call EXCEPT ![t] = Idle] /\ clock' = clock /\ r \in Requests
    BY <1>7 DEF StoreReceive, Idle, Verifies, Receives
  <2>2. CASE r \notin Stored /\ call[t].quote \notin Range(uses)
    <3>1. status' = [status EXCEPT ![r] = "open"] /\ stamp' = Put(stamp, r, at)
      BY <1>7, <2>2 DEF StoreReceive
    <3>2. Stored' = Stored \cup {r}
      BY <2>1, <3>1 DEF Stored, UseInv
    <3>3. DOMAIN stamp' = Stored' /\ stamp'[r] = at /\ \A s \in Stored : stamp'[s] = stamp[s]
      BY <2>2, <3>1, <3>2 DEF Put
    <3>4. \A u \in Handlers : /\ Receiving(u)' <=> u # t /\ Receiving(u)
                              /\ u # t => call'[u] = call[u]
      BY <2>1 DEF Idle
    <3>5. at \in 1..clock /\ \A s \in Stored : stamp[s] # at
      BY <2>1
    <3> HIDE DEF Receiving
    <3>6. \A u \in Handlers : Receiving(u)' =>
            /\ call'[u].at \in 1..clock' /\ call'[u].at # at
            /\ \A s \in Stored : stamp[s] # call'[u].at
            /\ \A w \in Handlers : Receiving(w)' /\ call'[w].at = call'[u].at => w = u
      BY <2>1, <3>4
    <3> HIDE DEF r, at
    <3> QED BY <2>1, <2>2, <3>2, <3>3, <3>5, <3>6
  <2>3. CASE r \in Stored \/ call[t].quote \in Range(uses)
    <3>1. UNCHANGED <<status, stamp>>
      BY <1>7, <2>3 DEF StoreReceive
    <3> QED BY <1>5, <2>1, <3>1
  <2> QED BY <2>2, <2>3
<1>8. \/ UNCHANGED <<status, stamp, clock, call>>
      \/ \E r \in Requests : Finish(r)
      \/ \E t \in Handlers, c \in Challenges : ConsumeChallenge(t, c)
      \/ \E t \in Handlers : call' = [call EXCEPT ![t] = Idle] /\ UNCHANGED <<status, stamp, clock>>
      \/ \E t \in Handlers, r \in Requests, q \in Quotes \cup {NoQuote} : BeginReceive(t, r, q)
      \/ \E t \in Handlers : StoreReceive(t)
  BY DEF Next, vars, apiVars, GetChallenge, AgeChallenge, ExpireSession, VerifySignature,
         PruneChallenges, IssueQuote, LapseQuote, DropCall, ReadPage,
         RegisterWebhook, DeleteWebhook, WorkerStep, Register, Delete, BeginPass, Post, RecordPost,
         Wake, DropBatch
<1> QED
  BY <1>2, <1>3, <1>4, <1>5, <1>6, <1>7, <1>8 DEF Stored

(* A page holds the newest records, all of them unless there are more.     *)
LEMMA NewestMembers ==
  ASSUME NEW S, IsFiniteSet(S), NEW n \in Nat \ {0}, NEW page \in Newest(S, n)
  PROVE  /\ page \in Seq(S) /\ IsInjective(page) /\ Range(page) \subseteq S
         /\ Cardinality(S) <= n => Range(page) = S
         /\ Cardinality(S) > n => page # <<>>
<1> DEFINE m == Min({n, Cardinality(S)})
<1>1. Cardinality(S) \in Nat
  BY FS_CardinalityType
<1>2. m \in Nat /\ (Cardinality(S) <= n => m = Cardinality(S)) /\ (Cardinality(S) > n => m = n)
  <2>1. \E x \in {n, Cardinality(S)} : \A y \in {n, Cardinality(S)} : x =< y
    BY <1>1
  <2>2. m \in {n, Cardinality(S)} /\ m <= n /\ m <= Cardinality(S)
    BY <2>1 DEF Min
  <2> HIDE DEF m
  <2> QED BY <1>1, <2>2
<1>3. page \in [1..m -> S] /\ IsInjective(page) /\ page \in Injection(1..m, S)
  BY DEF Newest, Injection
<1> HIDE DEF m
<1>4. page \in Seq(S) /\ Len(page) = m /\ Range(page) \subseteq S
  BY <1>2, <1>3 DEF Range
<1>5. ASSUME Cardinality(S) <= n PROVE Range(page) = S
  <2>1. Cardinality(1..m) = m
    BY <1>2, FS_Interval
  <2>2. page \in Surjection(1..m, S)
    BY <1>2, <1>3, <1>5, <2>1, FS_Injection
  <2> QED BY <1>4, <2>2 DEF Surjection, Range
<1>6. ASSUME Cardinality(S) > n PROVE page # <<>>
  BY <1>2, <1>4, <1>6
<1> QED
  BY <1>3, <1>4, <1>5, <1>6

(* Two sequences that share no member.                                     *)
LEMMA JoinIsInjective ==
  ASSUME NEW S, NEW s \in Seq(S), NEW t \in Seq(S), IsInjective(s), IsInjective(t),
         Range(s) \cap Range(t) = {}
  PROVE  IsInjective(s \o t)
<1>1. /\ s \o t \in Seq(S) /\ Len(s \o t) = Len(s) + Len(t)
      /\ \A i \in 1..Len(s) : (s \o t)[i] = s[i]
      /\ \A i \in (Len(s) + 1)..(Len(s) + Len(t)) : (s \o t)[i] = t[i - Len(s)]
  OBVIOUS
<1>2. \A i \in DOMAIN (s \o t) :
        \/ i \in DOMAIN s /\ (s \o t)[i] = s[i]
        \/ i - Len(s) \in DOMAIN t /\ (s \o t)[i] = t[i - Len(s)]
  BY <1>1
<1>3. \A i \in DOMAIN s, j \in DOMAIN t : s[i] # t[j]
  BY DEF Range
<1> QED
  BY <1>1, <1>2, <1>3 DEF IsInjective

LEMMA StepReads ==
  CallType /\ UseInv /\ StampInv /\ ReadInv /\ [Next]_vars => ReadInv'
<1> SUFFICES ASSUME CallType, UseInv, StampInv, ReadInv, [Next]_vars PROVE ReadInv'
  OBVIOUS
<1>1. CASE UNCHANGED reader
  <2>1. Stored \subseteq Stored' /\ \A r \in Stored : stamp'[r] = stamp[r]
    BY StepStamps
  <2> QED BY <1>1, <2>1 DEF ReadInv
<1>2. ASSUME NEW o, ReadPage(o) PROVE ReadInv'
  <2> DEFINE rest == Below(o, reader.pos)
             all(page) == reader.seen \o page
  <2>1. /\ reader.at # "end" /\ reader.of \subseteq {o} /\ UNCHANGED <<status, stamp>>
        /\ \E page \in Newest(rest, PageSize) :
             reader' = [of   |-> {o},
                        pos  |-> IF page = <<>> THEN reader.pos ELSE stamp[Last(page)],
                        at   |-> IF Cardinality(rest) > PageSize THEN "page" ELSE "end",
                        seen |-> reader.seen \o page,
                        owed |-> IF reader.at = "idle" THEN rest ELSE reader.owed]
    BY <1>2 DEF ReadPage
  <2>2. PICK page \in Newest(rest, PageSize) :
          reader' = [of   |-> {o},
                     pos  |-> IF page = <<>> THEN reader.pos ELSE stamp[Last(page)],
                     at   |-> IF Cardinality(rest) > PageSize THEN "page" ELSE "end",
                     seen |-> reader.seen \o page,
                     owed |-> IF reader.at = "idle" THEN rest ELSE reader.owed]
    BY <2>1
  <2>3. rest \subseteq Stored /\ rest \subseteq Requests /\ IsFiniteSet(rest)
    BY WebhooksAssumption, FS_Subset DEF Below, Stored
  <2>4. \A r \in rest : Owner[r] = o /\ (reader.pos = 0 \/ stamp[r] < reader.pos)
    BY DEF Below
  <2>5. \A r \in Stored : Owner[r] = o /\ (reader.pos = 0 \/ stamp[r] < reader.pos) => r \in rest
    BY DEF Below
  <2>6. /\ page \in Seq(rest) /\ IsInjective(page) /\ Range(page) \subseteq rest
        /\ Cardinality(rest) <= PageSize => Range(page) = rest
        /\ Cardinality(rest) > PageSize => page # <<>>
    BY <2>3, NewestMembers, WalletApiAssumption
  <2>7. Stored' = Stored
    BY <2>1 DEF Stored
  <2>8. /\ \A i, j \in DOMAIN page : i < j => stamp[page[i]] >= stamp[page[j]]
        /\ \A r \in rest \ Range(page) : \A i \in DOMAIN page : stamp[r] <= stamp[page[i]]
    BY DEF Newest
  <2>9. Cardinality(rest) \in Nat /\ PageSize \in Nat
    BY <2>3, FS_CardinalityType, WalletApiAssumption
  <2> HIDE DEF rest
  <2>10. page \in Seq(Requests) /\ reader.seen \in Seq(Requests)
    BY <2>3, <2>6 DEF ReadInv
  <2>11. Range(reader.seen) \cap Range(page) = {}
    <3>1. CASE reader.at = "idle"
      BY <3>1 DEF ReadInv, Range
    <3>2. CASE reader.at = "page"
      <4>1. \A r \in rest : stamp[r] < reader.pos /\ stamp[r] \in Nat
        BY <2>3, <2>4, <3>2 DEF ReadInv, StampInv
      <4> QED BY <2>6, <3>2, <4>1 DEF ReadInv
    <3> QED BY <2>1, <3>1, <3>2 DEF ReadInv
  <2>12. /\ reader'.seen \in Seq(Requests) /\ Range(reader'.seen) = Range(reader.seen) \cup Range(page)
         /\ IsInjective(reader'.seen)
    BY <2>2, <2>10, <2>11, <2>6, RangeConcatenation, JoinIsInjective DEF ReadInv
  <2>13. reader'.owed \subseteq Stored
    BY <2>2, <2>3 DEF ReadInv
  <2>14. \A r \in reader'.owed : Owner[r] = o /\ (r \in Range(reader.seen) \/ r \in rest)
    <3>1. CASE reader.at = "idle"
      BY <2>2, <2>4, <3>1
    <3>2. CASE reader.at = "page"
      <4>1. reader'.owed = reader.owed
        BY <2>2, <3>2
      <4> QED BY <2>1, <2>5, <3>2, <4>1 DEF ReadInv
    <3> QED BY <2>1, <3>1, <3>2 DEF ReadInv
  <2>15. CASE Cardinality(rest) > PageSize
    <3> DEFINE z == Len(page)
    <3>1. z \in DOMAIN page /\ z \in Nat /\ page # <<>> /\ \A i \in DOMAIN page : i <= z
      BY <2>6, <2>15
    <3>2. reader'.at = "page" /\ reader'.pos = stamp[page[z]] /\ reader'.of = {o}
      BY <2>2, <2>15, <3>1 DEF Last
    <3> HIDE DEF z
    <3>3. page[z] \in rest /\ page[z] \in Range(page) /\ stamp[page[z]] \in Nat \ {0}
      BY <2>3, <2>6, <3>1 DEF Range, StampInv, CallType
    <3>4. \A r \in Range(page) : stamp[r] >= stamp[page[z]]
      <4>1. \A i \in DOMAIN page : i < z \/ i = z
        BY <2>6, <3>1
      <4> QED BY <2>8, <3>1, <3>3, <4>1 DEF Range
    <3>5. \A r \in Range(reader.seen) : stamp[r] >= stamp[page[z]]
      <4>1. CASE reader.at = "idle"
        BY <4>1 DEF ReadInv, Range
      <4>2. CASE reader.at = "page"
        <5>1. stamp[page[z]] < reader.pos
          BY <2>4, <3>3, <4>2 DEF ReadInv
        <5>2. \A r \in Range(reader.seen) : stamp[r] >= reader.pos /\ stamp[r] \in Nat
          BY <4>2 DEF ReadInv, StampInv
        <5> QED BY <3>3, <5>1, <5>2 DEF ReadInv
      <4> QED BY <2>1, <4>1, <4>2 DEF ReadInv
    <3>6. \A r \in rest \ Range(page) : stamp[r] < stamp[page[z]]
      <4>1. TAKE r \in rest \ Range(page)
      <4>2. stamp[r] <= stamp[page[z]] /\ stamp[r] \in Nat /\ stamp[r] # stamp[page[z]]
        BY <2>3, <2>8, <3>1, <3>3 DEF StampInv
      <4> QED BY <3>3, <4>2
    <3>7. reader'.pos \in Nat /\ reader'.pos # 0
      BY <3>2, <3>3
    <3>8. \A r \in Range(reader'.seen) : stamp[r] >= reader'.pos
      BY <2>12, <3>2, <3>4, <3>5
    <3>9. \A r \in reader'.owed : Owner[r] \in reader'.of
                                  /\ (r \in Range(reader'.seen) \/ stamp[r] < reader'.pos)
      BY <2>12, <2>14, <3>2, <3>6
    <3>10. stamp' = stamp
      BY <2>1
    <3> QED BY <2>7, <2>12, <2>6, <2>3, <2>13, <3>2, <3>7, <3>8, <3>9, <3>10 DEF ReadInv
  <2>16. CASE ~(Cardinality(rest) > PageSize)
    <3>1. Range(page) = rest
      BY <2>6, <2>9, <2>16
    <3>2. reader'.at = "end"
      BY <2>2, <2>16
    <3>3. reader'.pos \in Nat
      <4>1. CASE page = <<>>
        BY <2>2, <4>1 DEF ReadInv
      <4>2. CASE page # <<>>
        <5>1. Last(page) \in rest
          BY <2>6, <4>2 DEF Last
        <5> QED BY <2>2, <2>3, <4>2, <5>1 DEF StampInv, CallType
      <4> QED BY <4>1, <4>2
    <3>4. reader'.owed \subseteq Range(reader'.seen)
      BY <2>12, <2>14, <3>1
    <3> QED BY <2>3, <2>6, <2>7, <2>12, <2>13, <3>2, <3>3, <3>4 DEF ReadInv
  <2> QED BY <2>15, <2>16
<1>3. UNCHANGED reader \/ \E o : ReadPage(o)
  BY DEF Next, vars, apiVars, GetChallenge, AgeChallenge, ExpireSession, ConsumeChallenge,
         VerifySignature, PruneChallenges, IssueQuote, LapseQuote, BeginReceive, StoreReceive,
         DropCall, Finish, RegisterWebhook, DeleteWebhook, WorkerStep
<1> QED
  BY <1>1, <1>2, <1>3

-----------------------------------------------------------------------------
IndInv == CallType /\ ChallengeInv /\ UseInv /\ HookInv /\ StampInv /\ ReadInv

(* The inductive invariant of the wallet's endpoint.                       *)
THEOREM Invariance == Spec => []IndInv
<1>1. Init => IndInv
  <2> SUFFICES ASSUME Init PROVE IndInv
    OBVIOUS
  <2>1. CallType
    BY DEF Init, CallType, Idle
  <2>2. ChallengeInv
    BY DEF Init, ChallengeInv, Verifying, Idle, Range
  <2>3. UseInv
    BY DEF Init, UseInv, Stored
  <2>4. HookInv
    BY DEF Init, HooksInit, HookInv, Range
  <2>5. StampInv
    BY DEF Init, StampInv, Stored, Receiving, Idle
  <2>6. ReadInv
    BY DEF Init, ReadInv, Rest, Range, IsInjective
  <2> QED BY <2>1, <2>2, <2>3, <2>4, <2>5, <2>6 DEF IndInv
<1>2. IndInv /\ [Next]_vars => IndInv'
  BY StepCalls, StepChallenges, StepUses, StepHooks, StepStamps, StepReads DEF IndInv
<1> QED
  BY <1>1, <1>2, PTL DEF Spec

(* A challenge opens at most one session: consume_challenge takes the row  *)
(* before the signature is looked at, so no two calls hold a challenge.    *)
THEOREM ChallengesOpenOnce == Spec => []ChallengeOpensOnce
<1>1. IndInv => ChallengeOpensOnce
  BY DEF IndInv, ChallengeInv, ChallengeOpensOnce
<1> QED
  BY <1>1, Invariance, PTL

(* No two receives are paid under one transfer id: store_request refuses a *)
(* quote that another request has used.                                    *)
THEOREM PayoutIdsAreUnique == Spec => []PayoutIdsDiffer
<1>1. IndInv => PayoutIdsDiffer
  BY WalletApiAssumption DEF IndInv, UseInv, PayoutIdsDiffer, TransferId, Stored
<1> QED
  BY <1>1, Invariance, PTL

(* Endpoints receive what they subscribed to, and a row is delivered only  *)
(* when its endpoint has it (capture before register_webhook's insert).    *)
THEOREM DeliveriesAreSound == Spec => []DeliversAsSubscribed
<1>1. IndInv => DeliversAsSubscribed
  BY DEF IndInv, HookInv, Sound, DeliversAsSubscribed
<1> QED
  BY <1>1, Invariance, PTL

(* Paging returns what was there at the first page, once: the cursor of    *)
(* request_history is an order key, so new records move no page.           *)
THEOREM HistoriesAreComplete == Spec => []HistoryIsComplete
<1>1. IndInv => HistoryIsComplete
  BY DEF IndInv, ReadInv, HistoryIsComplete
<1> QED
  BY <1>1, Invariance, PTL
=============================================================================
