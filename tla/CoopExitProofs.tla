--------------------------- MODULE CoopExitProofs ---------------------------
(***************************************************************************)
(* The safety of CoopExit for every set of requests, owners and coins.     *)
(* That payouts never conflict rests on the reservations, which come and   *)
(* go: IndInv says who holds an outpoint while a request is pending, and   *)
(* that what is built on a request's outputs is built on a SUCCEEDED one.  *)
(*                                                                         *)
(* The second half is about ExitFunds, for every treasury, wallet, quote   *)
(* and estimate: FundsInv says what a withdrawal has kept of its quote and *)
(* where the coins come from, and the accounts balance at every step.      *)
(***************************************************************************)
EXTENDS Withdrawals, Sequences, DataTheorems

(* A request that may still spend its input, or has spent it.              *)
Live(r) == Pending(r) \/ r \in signed

(* The status tells what has been stored.                                  *)
StageInv ==
  \A r \in Requests :
    /\ status[r] = "NONE" => input[r] = NULL
    /\ status[r] # "NONE" => input[r] \in Outpoints
    /\ r \in signed => status[r] \notin {"NONE", "INITIATED", "EXPIRED"} /\ row[r] # "none"
    /\ r \notin signed => status[r] \in {"NONE", "INITIATED", "EXPIRED"}

(* What a pending request may spend or create is in its name.              *)
ReservedInv ==
  \A r \in Requests : Pending(r) =>
    /\ reserved[input[r]] = r
    /\ \A o \in Outputs(r) : reserved[o] = r

(* Bitcoin and the operators follow the database.                          *)
ChainInv ==
  /\ BroadcastIsDurable /\ PayoutIsCovered /\ SucceededIsRecovered
  /\ \A r \in Requests : transfer[r] \in {"tweaked", "completed"} => tx[r] = "confirmed"

SpendInv ==
  /\ \A r, s \in Requests : Live(r) /\ Live(s) /\ r # s => input[r] # input[s]
  /\ \A r \in Requests : \A s \in children : input[r] # Change(s)
  /\ \A r, s \in Requests : input[r] \in Outputs(s) => status[s] = "SUCCEEDED"

(* The withdrawal in the lock stays pending, and where the handler is      *)
(* tells whether it is signed.                                             *)
LockInv ==
  ctl.pc # "idle" =>
    /\ ctl.req \in Requests /\ Pending(ctl.req)
    /\ ctl.pc \in {"expiry", "markExpired", "verify", "sign"} <=> ctl.req \notin signed
    /\ ctl.pc = "sign" => transfer[ctl.req] = "locked" /\ row[ctl.req] # "none"
    /\ ctl.pc = "markSucceeded" => transfer[ctl.req] = "completed"

IndInv ==
  TypeOK /\ StageInv /\ ReservedInv /\ ChainInv /\ SpendInv /\ LockInv

USE CoinsAssumption

-----------------------------------------------------------------------------
(* The outputs of a request are outpoints of its own.                      *)
LEMMA OutputsAreOwn ==
  /\ NULL \notin Outpoints /\ NULL \notin Requests
  /\ \A r \in Requests : Change(r) \in Outputs(r) /\ Outputs(r) \subseteq Outpoints
  /\ \A r, s \in Requests : r # s => Outputs(r) \cap Outputs(s) = {}
  /\ \A r \in Requests : Outputs(r) \cap Coins = {}
BY DEF Outputs, Connector, Change, Outpoints

(* The program starts in IndInv.                                           *)
LEMMA InitInv == Init => IndInv
<1> SUFFICES ASSUME Init PROVE IndInv
  OBVIOUS
<1> USE DEF Init, Idle
<1>1. TypeOK
  BY DEF TypeOK, Pc, Closed
<1>2. StageInv /\ ReservedInv /\ LockInv
  BY DEF StageInv, ReservedInv, LockInv, Pending, Closed
<1>3. ChainInv
  BY DEF ChainInv, BroadcastIsDurable, PayoutIsCovered, SucceededIsRecovered
<1>4. SpendInv
  BY OutputsAreOwn DEF SpendInv, Live, Pending, Closed
<1> QED
  BY <1>1, <1>2, <1>3, <1>4 DEF IndInv

(* Every operation, every step of the world outside and every crash keeps  *)
(* IndInv.                                                                 *)
LEMMA StepInv == IndInv /\ [Next]_vars => IndInv'
<1> SUFFICES ASSUME IndInv, [Next]_vars PROVE IndInv'
  OBVIOUS
<1> USE OutputsAreOwn
<1> USE DEF IndInv, TypeOK, StageInv, ReservedInv, ChainInv, SpendInv, LockInv, Live,
            Pending, Closed, Pc, Idle, db, env,
            BroadcastIsDurable, PayoutIsCovered, SucceededIsRecovered
<1>1. ASSUME NEW r \in Requests, NEW o \in Outpoints, Request(r, o) PROVE IndInv'
  <2> USE <1>1 DEF Request, LockFree
  (* No live request has the coin: a pending one would hold it, and a      *)
  (* SUCCEEDED one has spent it.                                           *)
  <2>1. \A s \in Requests : Live(s) => input[s] # o
    BY DEF Unspent
  (* An output of a request that is not over is in that request's name.    *)
  <2>2. \A s \in Requests : o \in Outputs(s) => status[s] = "SUCCEEDED"
    BY DEF Unspent
  <2>3. \A s \in children : o # Change(s)
    BY DEF Unspent
  (* The new reservations take nothing from another pending request.       *)
  <2>4. \A s \in Requests : Pending(s) /\ s # r =>
          /\ input[s] \notin {o} \cup Outputs(r)
          /\ Outputs(s) \cap ({o} \cup Outputs(r)) = {}
    BY <2>1, <2>2
  <2>5. ReservedInv'
    BY <2>4
  <2>6. SpendInv'
    BY <2>1, <2>2, <2>3
  <2>7. TypeOK' /\ StageInv' /\ ChainInv' /\ LockInv'
    OBVIOUS
  <2> QED
    BY <2>5, <2>6, <2>7
<1>2. ASSUME NEW r \in Requests, BeginAdvance(r) PROVE IndInv'
  BY <1>2 DEF BeginAdvance, LockFree, Enter
<1>3. ASSUME NEW r \in Requests, BeginExpiry(r) PROVE IndInv'
  BY <1>3 DEF BeginExpiry, LockFree, Enter
<1>4. ASSUME NEW r \in Requests, BeginBump(r) PROVE IndInv'
  BY <1>4 DEF BeginBump, LockFree, Enter
<1>5. ASSUME NEW r \in Requests, TimeUp(r) PROVE IndInv'
  BY <1>5 DEF TimeUp
<1>6. ASSUME NEW r \in Requests, Confirm(r) PROVE IndInv'
  BY <1>6 DEF Confirm
<1>7. ASSUME NEW r \in Requests, Evict(r) PROVE IndInv'
  BY <1>7 DEF Evict
<1>8. ASSUME NEW r \in Requests, Reorg(r) PROVE IndInv'
  BY <1>8 DEF Reorg
<1>9. ASSUME NEW r \in Requests, WalletSubmits(r) PROVE IndInv'
  BY <1>9 DEF WalletSubmits
<1>10. ASSUME NEW r \in Requests, OperatorsLock(r) PROVE IndInv'
  BY <1>10 DEF OperatorsLock
<1>11. ASSUME NEW r \in Requests, TransferReturns(r) PROVE IndInv'
  BY <1>11 DEF TransferReturns
<1>12. ASSUME NEW r \in Requests, OperatorsTweak(r) PROVE IndInv'
  BY <1>12 DEF OperatorsTweak
<1>13. CASE CheckTransferExists
  BY <1>13 DEF CheckTransferExists, Goto, Return
<1>14. CASE MarkExpired
  BY <1>14 DEF MarkExpired, SetStatus, Freed, Return
<1>15. CASE Verify
  BY <1>15 DEF Verify, Goto, Return
<1>16. CASE Sign
  BY <1>16 DEF Sign, SetStatus, Goto, Return
<1>17. CASE Observe
  BY <1>17 DEF Observe, Goto
<1>18. CASE Broadcast
  BY <1>18 DEF Broadcast, Goto, Return
<1>19. CASE MarkBroadcast
  BY <1>19 DEF MarkBroadcast, SetStatus, Goto, Return
<1>20. CASE MarkConfirmed
  BY <1>20 DEF MarkConfirmed, SetStatus, Goto
<1>21. CASE Claim
  BY <1>21 DEF Claim, Goto, Return
<1>22. CASE MarkSucceeded
  BY <1>22 DEF MarkSucceeded, SetStatus, Freed, Return
<1>23. CASE StoreBump
  BY <1>23 DEF StoreBump, Goto, Return
<1>24. CASE SendBump
  BY <1>24 DEF SendBump, Return
<1>25. CASE Crash
  BY <1>25 DEF Crash, Return
<1>26. CASE UNCHANGED vars
  BY <1>26 DEF vars
<1> QED
  BY <1>1, <1>2, <1>3, <1>4, <1>5, <1>6, <1>7, <1>8, <1>9, <1>10, <1>11, <1>12, <1>13,
     <1>14, <1>15, <1>16, <1>17, <1>18, <1>19, <1>20, <1>21, <1>22, <1>23, <1>24, <1>25, <1>26 DEF Next

(* IndInv holds in every state of every behaviour.                         *)
THEOREM Invariance == Spec => []IndInv
BY InitInv, StepInv, PTL DEF Spec

-----------------------------------------------------------------------------
(* Every column of the coop exit tables, the chain, the operators and the  *)
(* handler keep their types.                                               *)
THEOREM TypeCorrect == Spec => []TypeOK
<1>1. IndInv => TypeOK
  BY DEF IndInv
<1> QED
  BY <1>1, Invariance, PTL

(* No two payouts that the SSP has signed, and no payout and fee bump,     *)
(* ever spend the same output, however many withdrawals share the coins    *)
(* (coop_exit_inputs in request and update_coop_exit).                     *)
THEOREM PayoutsDoNotConflict == Spec => []PayoutsNeverConflict
<1>1. IndInv => PayoutsNeverConflict
  BY DEF IndInv, TypeOK, SpendInv, Live, PayoutsNeverConflict
<1> QED
  BY <1>1, Invariance, PTL

(* A payout is only signed while leaves are locked for it, and they stay   *)
(* locked or become the SSP's (advance after verify_coop_exit).            *)
THEOREM PayoutsAreCovered == Spec => []PayoutIsCovered
<1>1. IndInv => PayoutIsCovered
  BY DEF IndInv, ChainInv
<1> QED
  BY <1>1, Invariance, PTL

(* A withdrawal that reads SUCCEEDED is paid on chain, its leaves are the  *)
(* SSP's and its transfers row is completed (advance, update_coop_exit).   *)
THEOREM SuccessIsRecovered == Spec => []SucceededIsRecovered
<1>1. IndInv => SucceededIsRecovered
  BY DEF IndInv, ChainInv
<1> QED
  BY <1>1, Invariance, PTL

(* Whatever reaches the network has its signature in the database, over    *)
(* every crash (advance stores signed_exit before it broadcasts).          *)
THEOREM BroadcastsAreDurable == Spec => []BroadcastIsDurable
<1>1. IndInv => BroadcastIsDurable
  BY DEF IndInv, ChainInv
<1> QED
  BY <1>1, Invariance, PTL
-----------------------------------------------------------------------------
(* The amounts: ExitFunds, for every treasury, wallet, quote and estimate. *)

CoinRecord == [value : Nat, script : DOMAIN Funds!Script]
BumpRecord == [rate : Nat, fee : Nat]
Points     == DOMAIN Treasury \cup ((Nat \ {0}) \X {1, 2})

(* A quote has the fee of its estimate.                                    *)
Quotes == {q \in [address : Addresses, estimate : [Speeds -> Nat], user_fee : Nat, fees : [Speeds -> Nat]] :
             \A s \in Speeds : q.fees[s] = Funds!QuotedVbytes(q.address) * Funds!Rate(q.estimate[s])}

Exits ==
  [status : {"INITIATED", "TX_BROADCASTED", "SUCCEEDED", "EXPIRED"},
   ids : SUBSET LeafIds, feeIds : SUBSET LeafIds, total : Nat,
   address : Addresses, estimate : Nat, payout : Nat, fee : Nat, user_fee : Nat,
   coin : Points, input : CoinRecord, given : Nat]

AmountType ==
  /\ DOMAIN leaves \subseteq LeafIds /\ \A l \in DOMAIN leaves : leaves[l] \in Nat
  /\ quotes \in Seq(Quotes) /\ exits \in Seq(Exits)
  /\ bump \in Seq(BumpRecord) /\ Len(bump) = Len(exits)
  /\ DOMAIN coins \subseteq Points /\ IsFiniteSet(DOMAIN coins)
  /\ \A c \in DOMAIN coins : coins[c] \in CoinRecord
  /\ collected \in Nat

(* What a withdrawal with the bump b keeps from its request on.            *)
Sound(x, b) ==
  /\ x.payout >= Funds!Script[x.address].dust
  /\ Funds!ChangeOf(x) - b.fee >= Funds!Script["p2tr"].dust
  /\ x.fee = Funds!QuotedVbytes(x.address) * Funds!Rate(x.estimate)
  /\ b # Funds!NoBump => x.fee + b.fee >= b.rate * (Funds!ExitVsize(x) + Funds!SignedVsize("p2tr", 43))
  /\ x.total = x.payout + x.fee + x.user_fee
  /\ x.status \in {"TX_BROADCASTED", "SUCCEEDED"} => x.given = x.total

SoundInv == \A e \in DOMAIN exits : Sound(exits[e], bump[e])

(* One withdrawal is open, its coin is reserved, and the coins are those   *)
(* of the treasury and the outputs of withdrawals that are over.           *)
CoinInv ==
  /\ \A e, f \in Funds!Open : e = f
  /\ \A e \in Funds!Open : exits[e].coin \notin DOMAIN coins
  /\ \A c \in DOMAIN coins \cup {exits[e].coin : e \in Funds!Open} :
       c \in DOMAIN Treasury \cup (Funds!With("SUCCEEDED") \X {1, 2})

FundsInv == AmountType /\ SoundInv /\ CoinInv /\ Funds!FundsAreConserved

-----------------------------------------------------------------------------
(* The sums of ExitFunds are those of the library.                         *)
LEMMA SameSums ==
  ASSUME NEW f, NEW S
  PROVE  /\ Funds!SumFunctionOnSet(f, S) = SumFunctionOnSet(f, S)
         /\ Funds!SumFunction(f) = SumFunction(f)
BY DEF Funds!SumFunctionOnSet, Funds!SumFunction, Funds!FoldFunctionOnSet, Funds!MapThenFoldSet,
   SumFunctionOnSet, SumFunction, FoldFunctionOnSet, MapThenFoldSet

LEMMA SameFinite ==
  ASSUME NEW S
  PROVE  (Funds!IsFiniteSet(S) <=> IsFiniteSet(S)) /\ Funds!Cardinality(S) = Cardinality(S)
BY DEF Funds!IsFiniteSet, IsFiniteSet, Funds!Cardinality, Cardinality

-----------------------------------------------------------------------------
(* The arithmetic of fees and sizes *)

LEMMA LargerOfTwo ==
  ASSUME NEW a \in Nat, NEW b \in Nat
  PROVE  Funds!Max({a, b}) \in {a, b} /\ Funds!Max({a, b}) >= a /\ Funds!Max({a, b}) >= b
<1>1. \E m \in {a, b} : \A n \in {a, b} : m >= n
  OBVIOUS
<1> QED
  BY <1>1 DEF Funds!Max

LEMMA TimesMonotone ==
  ASSUME NEW a \in Nat, NEW b \in Nat, NEW c \in Nat, a <= b
  PROVE  c * a <= c * b
<1>1. PICK k \in Nat : b = a + k
  OBVIOUS
<1>2. c * b = c * a + c * k /\ c * k \in Nat /\ c * a \in Nat
  BY <1>1
<1> QED
  BY <1>2

(* The rate is rounded up.                                                 *)
LEMMA RateRoundsUp ==
  ASSUME NEW estimate \in Nat
  PROVE  Funds!Rate(estimate) \in Nat /\ Funds!Rate(estimate) * 1000 >= estimate
<1> DEFINE up == (estimate + 999) \div 1000
<1>1. up \in Nat /\ up * 1000 >= estimate
  OBVIOUS
<1> HIDE DEF up
<1>2. Funds!Rate(estimate) \in Nat /\ Funds!Rate(estimate) >= up
  BY <1>1, LargerOfTwo DEF Funds!Rate, up
<1> QED
  BY <1>1, <1>2

(* The sizes that the fees are computed from bound the signed ones.        *)
LEMMA SizesAreBounds ==
  ASSUME NEW x, x.address \in DOMAIN Funds!Script
  PROVE  /\ Funds!ExitVsize(x) \in Nat /\ Funds!QuotedVbytes(x.address) \in Nat
         /\ Funds!ExitVsize(x) <= Funds!QuotedVbytes(x.address)
         /\ Funds!SignedVsize("p2tr", 43) \in Nat /\ Funds!ChildVbytes \in Nat
         /\ Funds!SignedVsize("p2tr", 43) <= Funds!ChildVbytes
<1> DEFINE n == Funds!Script[x.address].len
<1>1. n \in Nat
  BY DEF Funds!Script
<1>2. Funds!QuotedVbytes(x.address) = n + 175
  BY <1>1 DEF Funds!QuotedVbytes
<1>3. Funds!ExitVsize(x) \in Nat /\ Funds!ExitVsize(x) <= n + 175
  <2> HIDE DEF n
  <2>1. CASE x.input.script = "p2wpkh"
    <3>1. Funds!ExitVsize(x) = (4 * (51 + (95 + n)) + 113) \div 4
      BY <1>1, <2>1 DEF Funds!ExitVsize, Funds!SignedVsize, n
    <3> QED BY <1>1, <3>1
  <2>2. CASE x.input.script # "p2wpkh"
    <3>1. Funds!ExitVsize(x) = (4 * (51 + (95 + n)) + 71) \div 4
      BY <1>1, <2>2 DEF Funds!ExitVsize, Funds!SignedVsize, n
    <3> QED BY <1>1, <3>1
  <2> QED BY <2>1, <2>2
<1>4. Funds!SignedVsize("p2tr", 43) = 111 /\ Funds!ChildVbytes = 122
  BY DEF Funds!SignedVsize, Funds!ChildVbytes
<1> QED
  BY <1>1, <1>2, <1>3, <1>4

(* A payout with the fee of its quote pays the estimate.                   *)
LEMMA FeeReachesEstimate ==
  ASSUME NEW x, x.address \in DOMAIN Funds!Script, x.estimate \in Nat,
         x.fee = Funds!QuotedVbytes(x.address) * Funds!Rate(x.estimate)
  PROVE  x.fee * 1000 >= x.estimate * Funds!ExitVsize(x)
<1> DEFINE q == Funds!QuotedVbytes(x.address)
           r == Funds!Rate(x.estimate)
           v == Funds!ExitVsize(x)
           t == x.estimate
<1>1. q \in Nat /\ r \in Nat /\ v \in Nat /\ t \in Nat /\ v <= q /\ t <= r * 1000
  BY SizesAreBounds, RateRoundsUp
<1>2. x.fee = q * r
  OBVIOUS
<1> HIDE DEF q, r, v, t
<1>3. t * v <= t * q
  BY <1>1, TimesMonotone
<1>4. q * t <= q * (r * 1000)
  BY <1>1, TimesMonotone
<1>5. t * q = q * t /\ q * (r * 1000) = (q * r) * 1000
  BY <1>1
<1>6. t * v \in Nat /\ q * t \in Nat /\ (q * r) * 1000 \in Nat
  BY <1>1
<1>7. x.fee * 1000 >= t * v
  BY <1>2, <1>3, <1>4, <1>5, <1>6
<1> QED
  BY <1>7 DEF t, v

(* So does a payout with its child the rate of the bump.                   *)
LEMMA BumpReachesRate ==
  ASSUME NEW x, x.address \in DOMAIN Funds!Script, x.fee \in Nat, NEW rate \in Nat
  PROVE  /\ Funds!BumpFee(x, rate) \in Nat
         /\ x.fee + Funds!BumpFee(x, rate) >= rate * (Funds!ExitVsize(x) + Funds!SignedVsize("p2tr", 43))
<1> DEFINE v == Funds!ExitVsize(x)
           c == Funds!ChildVbytes
           b == Funds!SignedVsize("p2tr", 43)
           package == rate * (v + c)
           rest == IF package > x.fee THEN package - x.fee ELSE 0
<1>1. v \in Nat /\ c \in Nat /\ b \in Nat /\ b <= c
  BY SizesAreBounds
<1>2. Funds!BumpFee(x, rate) = Funds!Max({rest, rate * c})
  BY DEF Funds!BumpFee
<1> HIDE DEF v, c, b
<1>3. v + b \in Nat /\ v + c \in Nat /\ v + b <= v + c
  BY <1>1
<1>4. rate * (v + b) <= package /\ package \in Nat /\ rate * (v + b) \in Nat /\ rate * c \in Nat
  BY <1>1, <1>3, TimesMonotone
<1> HIDE DEF package
<1>5. rest \in Nat /\ x.fee + rest >= package
  BY <1>4
<1> HIDE DEF rest
<1>6. Funds!BumpFee(x, rate) \in Nat /\ Funds!BumpFee(x, rate) >= rest
  BY <1>2, <1>4, <1>5, LargerOfTwo
<1> QED
  BY <1>4, <1>5, <1>6 DEF v, b

-----------------------------------------------------------------------------
(* What the steps do *)

LEMMA TotalIsNat ==
  ASSUME Funds!Assumptions, AmountType, NEW ids \in SUBSET DOMAIN leaves
  PROVE  Funds!Total(ids) \in Nat /\ IsFiniteSet(ids)
<1>1. IsFiniteSet(LeafIds) /\ ids \subseteq LeafIds /\ \A l \in ids : leaves[l] \in Nat
  BY SameFinite DEF Funds!Assumptions, AmountType
<1>2. IsFiniteSet(ids)
  BY <1>1, FS_Subset
<1> QED
  BY <1>1, <1>2, SumIsNat, SameSums DEF Funds!Total

(* A new withdrawal is sound, and has one of the coins.                    *)
Requested(x, c) ==
  /\ x \in Exits /\ Sound(x, Funds!NoBump)
  /\ c \in DOMAIN coins /\ x.coin = c /\ x.input = coins[c] /\ x.status = "INITIATED"
  /\ Funds!Open = {}
  /\ exits' = Append(exits, x) /\ bump' = Append(bump, Funds!NoBump)
  /\ coins' = Funds!Without(coins, {c})
  /\ UNCHANGED <<leaves, minted, quotes, collected>>

LEMMA RequestIsSound ==
  ASSUME Funds!Assumptions, AmountType, NEW q \in Quotes, NEW speed \in Speeds,
         NEW ids \in SUBSET LeafIds, NEW feeIds \in SUBSET LeafIds, Funds!Request(q, speed, ids, feeIds)
  PROVE  \E x, c : Requested(x, c)
<1> DEFINE fees == q.user_fee + q.fees[speed]
           n == Funds!Cardinality(ids) + Funds!Cardinality(feeIds)
           Made(payout, c) ==
             [status |-> "INITIATED", ids |-> ids, feeIds |-> feeIds,
              total |-> Funds!Total(ids) + Funds!Total(feeIds),
              address |-> q.address, estimate |-> q.estimate[speed],
              payout |-> payout, fee |-> q.fees[speed], user_fee |-> q.user_fee,
              coin |-> c, input |-> coins[c], given |-> 0]
<1>1. PICK payout \in Funds!withdrawal_amount(q, speed, ids, feeIds) :
        /\ payout >= Funds!Script[q.address].dust
        /\ \E c \in Funds!Candidates(Funds!Needed(payout, q.fees[speed], n)) :
             exits' = Append(exits, Made(payout, c)) /\ coins' = Funds!Without(coins, {c})
  BY DEF Funds!Request
<1>2. PICK c \in Funds!Candidates(Funds!Needed(payout, q.fees[speed], n)) :
        exits' = Append(exits, Made(payout, c)) /\ coins' = Funds!Without(coins, {c})
  BY <1>1
<1> DEFINE x == Made(payout, c)
<1>3. /\ ids \subseteq DOMAIN leaves /\ \A e \in DOMAIN exits : ~Funds!Pending(exits[e])
      /\ bump' = Append(bump, Funds!NoBump) /\ UNCHANGED <<leaves, minted, quotes, collected>>
  BY DEF Funds!Request, Funds!coop_exit_leaves
<1>4. q.user_fee \in Nat /\ q.fees[speed] \in Nat /\ fees \in Nat /\ q.estimate[speed] \in Nat
      /\ q.address \in Addresses
  BY DEF Quotes
<1>5. Funds!Total(ids) \in Nat /\ IsFiniteSet(ids) /\ IsFiniteSet(feeIds)
  BY <1>3, TotalIsNat, FS_Subset, SameFinite DEF Funds!Assumptions
<1>6. payout \in Nat /\ Funds!Total(feeIds) \in Nat /\ Funds!Total(ids) + Funds!Total(feeIds) = payout + fees
  <2>1. CASE feeIds = {}
    <3>1. payout = Funds!Total(ids) - fees /\ fees <= Funds!Total(ids)
      BY <2>1 DEF Funds!withdrawal_amount
    <3>2. Funds!Total(feeIds) = 0
      BY <2>1, SumEmpty, SameSums DEF Funds!Total
    <3> QED BY <1>4, <1>5, <3>1, <3>2
  <2>2. CASE feeIds # {}
    <3>1. payout = Funds!Total(ids) /\ Funds!Total(feeIds) = fees
      BY <2>2 DEF Funds!withdrawal_amount
    <3> QED BY <1>4, <1>5, <3>1
  <2> QED BY <2>1, <2>2
<1>7. n \in Nat
  BY <1>5, FS_CardinalityType, SameFinite
<1>8. c \in DOMAIN coins /\ coins[c].value \in Nat /\ coins[c] \in CoinRecord /\ c \in Points
      /\ coins[c].value >= payout + q.fees[speed] + Funds!Intermediate(n) + 330
  BY <1>2 DEF Funds!Candidates, Funds!Needed, Funds!CONNECTOR_SATS, AmountType, CoinRecord
<1>9. Funds!Intermediate(n) \in Nat
  BY <1>7 DEF Funds!Intermediate, Funds!CONNECTOR_SATS
<1>10. x \in Exits
  BY <1>4, <1>5, <1>6, <1>8 DEF Exits
<1>11. Funds!Count(x) = n
  BY DEF Funds!Count
<1>12. Funds!ChangeOf(x) = coins[c].value - payout - Funds!Intermediate(n) - q.fees[speed]
  BY <1>11 DEF Funds!ChangeOf
<1> HIDE DEF n
<1>13. Funds!ChangeOf(x) - Funds!NoBump.fee >= Funds!Script["p2tr"].dust
  BY <1>4, <1>6, <1>8, <1>9, <1>12 DEF Funds!NoBump, Funds!Script
<1>14. x.total = x.payout + x.fee + x.user_fee
  BY <1>4, <1>5, <1>6
<1>15. x.fee = Funds!QuotedVbytes(x.address) * Funds!Rate(x.estimate)
  BY DEF Quotes
<1>16. Sound(x, Funds!NoBump)
  BY <1>1, <1>13, <1>14, <1>15 DEF Sound
<1>17. Funds!Open = {}
  BY <1>3 DEF Funds!Open
<1>18. x.coin = c /\ x.input = coins[c] /\ x.status = "INITIATED"
  OBVIOUS
<1> HIDE DEF x
<1> QED
  BY <1>2, <1>3, <1>8, <1>10, <1>16, <1>17, <1>18 DEF Requested, x

(* The terms of a withdrawal do not change.                                *)
SameTerms(x, y) ==
  /\ y.ids = x.ids /\ y.feeIds = x.feeIds /\ y.total = x.total /\ y.address = x.address
  /\ y.estimate = x.estimate /\ y.payout = x.payout /\ y.fee = x.fee /\ y.user_fee = x.user_fee
  /\ y.coin = x.coin /\ y.input = x.input

LEMMA SoundStays ==
  ASSUME NEW x, NEW y, NEW b, Sound(x, b), SameTerms(x, y),
         y.status \in {"TX_BROADCASTED", "SUCCEEDED"} => y.given = y.total
  PROVE  Sound(y, b)
BY DEF Sound, SameTerms, Funds!ChangeOf, Funds!Count, Funds!ExitVsize

(* The e-th withdrawal gets the status s.                                  *)
Moved(e, s) ==
  /\ e \in DOMAIN exits /\ exits' \in Seq(Exits) /\ Len(exits') = Len(exits)
  /\ \A f \in DOMAIN exits \ {e} : exits'[f] = exits[f]
  /\ exits'[e].status = s /\ SameTerms(exits[e], exits'[e])

LEMMA StatusMoves ==
  ASSUME exits \in Seq(Exits), NEW e \in DOMAIN exits,
         NEW s \in {"INITIATED", "TX_BROADCASTED", "SUCCEEDED", "EXPIRED"}, NEW g \in Nat,
         \/ exits' = [exits EXCEPT ![e].status = s, ![e].given = g]
         \/ exits' = [exits EXCEPT ![e].status = s] /\ g = exits[e].given
  PROVE  Moved(e, s) /\ exits'[e].given = g
<1> DEFINE x == exits[e]
           y == [status |-> s, ids |-> x.ids, feeIds |-> x.feeIds, total |-> x.total, address |-> x.address,
                 estimate |-> x.estimate, payout |-> x.payout, fee |-> x.fee, user_fee |-> x.user_fee,
                 coin |-> x.coin, input |-> x.input, given |-> g]
<1>1. x \in Exits
  OBVIOUS
<1>2. y \in Exits
  BY <1>1 DEF Exits
<1>3. exits' = [exits EXCEPT ![e] = y]
  BY <1>1 DEF Exits
<1>4. SameTerms(x, y) /\ y.status = s /\ y.given = g
  BY DEF SameTerms
<1> HIDE DEF x, y
<1>5. exits' \in Seq(Exits) /\ Len(exits') = Len(exits) /\ DOMAIN exits' = DOMAIN exits
      /\ exits'[e] = y /\ \A f \in DOMAIN exits \ {e} : exits'[f] = exits[f]
  BY <1>2, <1>3
<1> QED
  BY <1>4, <1>5 DEF Moved, x

-----------------------------------------------------------------------------
(* The accounts *)

Inputs   == [e \in Funds!Open |-> exits[e].input.value]
BumpFees == [e \in Funds!With("SUCCEEDED") |-> bump[e].fee]
UserFees == [e \in Funds!With("SUCCEEDED") |-> exits[e].user_fee]
Values   == [c \in DOMAIN coins |-> coins[c].value]

(* What FundsAreConserved balances.                                        *)
Balance ==
  SumFunction(Values) + collected + SumFunction(Inputs) + SumFunction(BumpFees)
    = Funds!Worth(Treasury) + SumFunction(UserFees)

LEMMA Accounts == Funds!FundsAreConserved <=> Balance
<1>1. Funds!Worth(coins) = SumFunction(Values)
  BY SameSums DEF Funds!Worth, Values
<1>2. Funds!SumFunction(Inputs) = SumFunction(Inputs) /\ Funds!SumFunction(BumpFees) = SumFunction(BumpFees)
      /\ Funds!SumFunction(UserFees) = SumFunction(UserFees)
  BY SameSums
<1>3. Funds!FundsAreConserved <=>
        (Funds!Worth(coins) + collected + Funds!SumFunction(Inputs) + Funds!SumFunction(BumpFees)
          = Funds!Worth(Treasury) + Funds!SumFunction(UserFees))
  BY DEF Funds!FundsAreConserved, Inputs, BumpFees, UserFees
<1> QED
  BY <1>1, <1>2, <1>3 DEF Balance

LEMMA NextAccounts == Funds!FundsAreConserved' <=> Balance'
BY Accounts, PTL

(* They are sums of natural numbers over finite sets.                      *)
Countable ==
  /\ SumFunction(Values) \in Nat /\ SumFunction(Inputs) \in Nat
  /\ SumFunction(BumpFees) \in Nat /\ SumFunction(UserFees) \in Nat
  /\ IsFiniteSet(Funds!Open) /\ IsFiniteSet(Funds!With("SUCCEEDED"))

LEMMA AccountsAreNat == AmountType => Countable
<1> SUFFICES ASSUME AmountType PROVE Countable
  OBVIOUS
<1>1. exits \in Seq(Exits) /\ bump \in Seq(BumpRecord) /\ DOMAIN bump = DOMAIN exits
  BY DEF AmountType
<1>2. IsFiniteSet(DOMAIN exits)
  <2>1. DOMAIN exits = 1..Len(exits) /\ Len(exits) \in Nat
    BY <1>1
  <2> QED BY <2>1, FS_Interval
<1>3. IsFiniteSet(Funds!Open) /\ IsFiniteSet(Funds!With("SUCCEEDED"))
  <2>1. Funds!Open \subseteq DOMAIN exits /\ Funds!With("SUCCEEDED") \subseteq DOMAIN exits
    BY DEF Funds!Open, Funds!With
  <2> QED BY <1>2, <2>1, FS_Subset
<1>4. \A e \in DOMAIN exits : exits[e].input.value \in Nat /\ exits[e].user_fee \in Nat /\ bump[e].fee \in Nat
  <2>1. TAKE e \in DOMAIN exits
  <2>2. exits[e] \in Exits /\ bump[e] \in BumpRecord
    BY <1>1
  <2> QED BY <2>2 DEF Exits, CoinRecord, BumpRecord
<1>5. SumFunction(Values) \in Nat
  <2>1. IsFiniteSet(DOMAIN Values) /\ \A c \in DOMAIN Values : Values[c] \in Nat
    BY DEF AmountType, Values, CoinRecord
  <2> QED BY <2>1, SumFunctionIsNat
<1>6. SumFunction(Inputs) \in Nat
  <2>1. IsFiniteSet(DOMAIN Inputs) /\ \A e \in DOMAIN Inputs : Inputs[e] \in Nat
    BY <1>3, <1>4 DEF Inputs, Funds!Open
  <2> QED BY <2>1, SumFunctionIsNat
<1>7. SumFunction(BumpFees) \in Nat
  <2>1. IsFiniteSet(DOMAIN BumpFees) /\ \A e \in DOMAIN BumpFees : BumpFees[e] \in Nat
    BY <1>3, <1>4 DEF BumpFees, Funds!With
  <2> QED BY <2>1, SumFunctionIsNat
<1>8. SumFunction(UserFees) \in Nat
  <2>1. IsFiniteSet(DOMAIN UserFees) /\ \A e \in DOMAIN UserFees : UserFees[e] \in Nat
    BY <1>3, <1>4 DEF UserFees, Funds!With
  <2> QED BY <2>1, SumFunctionIsNat
<1> QED
  BY <1>3, <1>5, <1>6, <1>7, <1>8 DEF Countable

LEMMA NextAreNat == AmountType' => Countable'
BY AccountsAreNat, PTL

LEMMA TreasuryIsNat ==
  ASSUME Funds!Assumptions
  PROVE  Funds!Worth(Treasury) \in Nat
<1> DEFINE f == [c \in DOMAIN Treasury |-> Treasury[c].value]
<1>1. IsFiniteSet(DOMAIN f) /\ \A c \in DOMAIN f : f[c] \in Nat
  BY SameFinite DEF Funds!Assumptions
<1>2. Funds!Worth(Treasury) = SumFunction(f)
  BY SameSums DEF Funds!Worth
<1> HIDE DEF f
<1> QED
  BY <1>1, <1>2, SumFunctionIsNat

LEMMA RequestKeeps ==
  ASSUME FundsInv, NEW x, NEW c, Requested(x, c)
  PROVE  FundsInv'
<1> USE DEF FundsInv
<1> DEFINE n == Len(exits) + 1
<1>1. /\ exits \in Seq(Exits) /\ bump \in Seq(BumpRecord) /\ Len(bump) = Len(exits)
      /\ x \in Exits /\ Funds!NoBump \in BumpRecord
      /\ exits' = Append(exits, x) /\ bump' = Append(bump, Funds!NoBump)
  BY DEF AmountType, Requested, Funds!NoBump, BumpRecord
<1>2. /\ exits' \in Seq(Exits) /\ bump' \in Seq(BumpRecord) /\ Len(bump') = Len(exits')
      /\ DOMAIN exits' = DOMAIN exits \cup {n} /\ n \notin DOMAIN exits
      /\ exits'[n] = x /\ bump'[n] = Funds!NoBump
      /\ \A e \in DOMAIN exits : exits'[e] = exits[e] /\ bump'[e] = bump[e]
  BY <1>1
<1> HIDE DEF n
<1>3. Funds!Open = {} /\ Funds!Open' = {n}
  BY <1>2 DEF Requested, Funds!Open, Funds!Pending
<1>4. Funds!With("SUCCEEDED")' = Funds!With("SUCCEEDED")
  BY <1>2 DEF Requested, Funds!With
<1>5. /\ c \in DOMAIN coins /\ x.coin = c /\ x.input = coins[c]
      /\ DOMAIN coins' = DOMAIN coins \ {c} /\ \A d \in DOMAIN coins' : coins'[d] = coins[d]
  BY DEF Requested, Funds!Without
<1>6. AmountType'
  <2>1. IsFiniteSet(DOMAIN coins')
    BY <1>5, FS_Subset DEF AmountType
  <2> QED BY <1>2, <1>5, <2>1 DEF AmountType, Requested
<1>7. SoundInv'
  BY <1>2 DEF SoundInv, Requested
<1>8. CoinInv'
  BY <1>2, <1>3, <1>4, <1>5 DEF CoinInv
<1>9. SumFunction(Values) = coins[c].value + SumFunction(Values')
  <2>1. /\ IsFiniteSet(DOMAIN Values') /\ c \notin DOMAIN Values' /\ DOMAIN Values = DOMAIN Values' \cup {c}
        /\ \A d \in DOMAIN Values' : Values[d] = Values'[d]
        /\ \A d \in DOMAIN Values : Values[d] \in Nat
        /\ Values[c] = coins[c].value
    BY <1>5, <1>6 DEF Values, AmountType, CoinRecord
  <2> QED BY <2>1, SumExtended
<1>10. SumFunction(Inputs') = coins[c].value + SumFunction(Inputs)
  <2>1. /\ DOMAIN Inputs = {} /\ DOMAIN Inputs' = {n} /\ Inputs'[n] = coins[c].value
        /\ coins[c].value \in Nat
    BY <1>2, <1>3, <1>5 DEF Inputs, AmountType, CoinRecord
  <2> QED BY <2>1, SumExtended, FS_EmptySet
<1>11. BumpFees' = BumpFees /\ UserFees' = UserFees /\ collected' = collected
  <2>1. \A e \in Funds!With("SUCCEEDED") : exits'[e] = exits[e] /\ bump'[e] = bump[e]
    BY <1>2 DEF Funds!With
  <2> QED BY <1>4, <2>1 DEF BumpFees, UserFees, Requested
<1>12. Balance'
  <2>1. /\ SumFunction(Values) \in Nat /\ SumFunction(Inputs) \in Nat /\ SumFunction(Values') \in Nat
        /\ SumFunction(BumpFees) \in Nat /\ collected \in Nat /\ coins[c].value \in Nat
    <3>1. Countable /\ Countable'
      BY <1>6, AccountsAreNat, NextAreNat
    <3> QED BY <1>5, <3>1 DEF Countable, AmountType, CoinRecord
  <2>2. Balance
    BY Accounts
  <2> QED BY <1>9, <1>10, <1>11, <2>1, <2>2 DEF Balance
<1> QED
  BY <1>6, <1>7, <1>8, <1>12, NextAccounts

LEMMA BroadcastKeeps ==
  ASSUME Funds!Assumptions, FundsInv, NEW e \in DOMAIN exits, NEW sent \in SUBSET DOMAIN leaves,
         Funds!Broadcast(e, sent)
  PROVE  FundsInv'
<1> USE DEF FundsInv
<1>1. /\ exits[e].status = "INITIATED" /\ Funds!Total(sent) = exits[e].total
      /\ exits' = [exits EXCEPT ![e].status = "TX_BROADCASTED", ![e].given = Funds!Total(sent)]
      /\ leaves' = Funds!Without(leaves, sent)
      /\ UNCHANGED <<minted, quotes, bump, coins, collected>>
  BY DEF Funds!Broadcast, Funds!Matches
<1>2. Moved(e, "TX_BROADCASTED") /\ exits'[e].given = exits[e].total
  BY <1>1, TotalIsNat, StatusMoves DEF AmountType
<1>3. DOMAIN exits' = DOMAIN exits
  BY <1>2 DEF Moved, AmountType
<1>4. Funds!Open' = Funds!Open /\ Funds!With("SUCCEEDED")' = Funds!With("SUCCEEDED")
  BY <1>1, <1>2, <1>3 DEF Moved, Funds!Open, Funds!Pending, Funds!With
<1>5. AmountType'
  BY <1>1, <1>2 DEF Moved, AmountType, Funds!Without
<1>6. SoundInv'
  <2>1. Sound(exits'[e], bump[e])
    BY <1>2, SoundStays DEF Moved, SoundInv, SameTerms
  <2> QED BY <1>1, <1>2, <1>3, <2>1 DEF Moved, SoundInv
<1>7. CoinInv'
  <2>1. \A f \in Funds!Open : exits'[f].coin = exits[f].coin
    BY <1>2 DEF Moved, SameTerms, Funds!Open
  <2>2. {exits'[f].coin : f \in Funds!Open} = {exits[f].coin : f \in Funds!Open}
    BY <2>1
  <2> QED BY <1>1, <1>4, <2>1, <2>2 DEF CoinInv
<1>8. Inputs' = Inputs /\ BumpFees' = BumpFees /\ UserFees' = UserFees /\ Values' = Values
  <2>1. \A f \in DOMAIN exits : exits'[f].input = exits[f].input /\ exits'[f].user_fee = exits[f].user_fee
    BY <1>2 DEF Moved, SameTerms
  <2> QED BY <1>1, <1>4, <2>1 DEF Inputs, BumpFees, UserFees, Values, Funds!Open, Funds!With
<1>9. Balance'
  BY <1>1, <1>8, Accounts DEF Balance
<1> QED
  BY <1>5, <1>6, <1>7, <1>9, NextAccounts

LEMMA ExpireKeeps ==
  ASSUME FundsInv, NEW e \in DOMAIN exits, Funds!Expire(e)
  PROVE  FundsInv'
<1> USE DEF FundsInv
<1> DEFINE x == exits[e]
<1>1. /\ x.status = "INITIATED" /\ exits' = [exits EXCEPT ![e].status = "EXPIRED"]
      /\ coins' = Funds!Put(coins, x.coin, x.input)
      /\ UNCHANGED <<leaves, minted, quotes, bump, collected>>
  BY DEF Funds!Expire
<1>2. x \in Exits
  BY DEF AmountType
<1>3. Moved(e, "EXPIRED")
  BY <1>1, <1>2, StatusMoves DEF AmountType, Exits
<1>4. DOMAIN exits' = DOMAIN exits
  BY <1>3 DEF Moved, AmountType
<1>5. e \in Funds!Open /\ e \notin Funds!Open' /\ Funds!Open = Funds!Open' \cup {e}
      /\ Funds!With("SUCCEEDED")' = Funds!With("SUCCEEDED")
  BY <1>1, <1>3, <1>4 DEF Moved, Funds!Open, Funds!Pending, Funds!With
<1>6. x.coin \notin DOMAIN coins /\ x.coin \in Points /\ x.input \in CoinRecord
  BY <1>2, <1>5 DEF CoinInv, Exits
<1>7. /\ DOMAIN coins' = DOMAIN coins \cup {x.coin} /\ coins'[x.coin] = x.input
      /\ \A c \in DOMAIN coins : coins'[c] = coins[c]
  BY <1>1, <1>6 DEF Funds!Put
<1>8. AmountType'
  <2>1. IsFiniteSet(DOMAIN coins')
    BY <1>7, FS_AddElement DEF AmountType
  <2> QED BY <1>1, <1>3, <1>6, <1>7, <2>1 DEF Moved, AmountType
<1>9. SoundInv'
  <2>1. Sound(exits'[e], bump[e])
    BY <1>3, SoundStays DEF Moved, SoundInv
  <2> QED BY <1>1, <1>3, <1>4, <2>1 DEF Moved, SoundInv
<1>10. CoinInv'
  <2>1. Funds!Open' = {}
    BY <1>5 DEF CoinInv
  <2> QED BY <1>5, <1>7, <2>1 DEF CoinInv
<1>11. BumpFees' = BumpFees /\ UserFees' = UserFees
  <2>1. \A f \in DOMAIN exits : exits'[f].user_fee = exits[f].user_fee
    BY <1>3 DEF Moved, SameTerms
  <2> QED BY <1>1, <1>5, <2>1 DEF BumpFees, UserFees, Funds!With
<1>12. SumFunction(Values') = x.input.value + SumFunction(Values)
  <2>1. /\ IsFiniteSet(DOMAIN Values) /\ x.coin \notin DOMAIN Values
        /\ DOMAIN Values' = DOMAIN Values \cup {x.coin}
        /\ \A c \in DOMAIN Values : Values'[c] = Values[c]
        /\ \A c \in DOMAIN Values' : Values'[c] \in Nat
        /\ Values'[x.coin] = x.input.value
    BY <1>6, <1>7, <1>8 DEF Values, AmountType, CoinRecord
  <2> QED BY <2>1, SumExtended
<1>13. Countable /\ Countable'
  BY <1>8, AccountsAreNat, NextAreNat
<1>14. SumFunction(Inputs) = x.input.value + SumFunction(Inputs')
  <2>1. /\ IsFiniteSet(DOMAIN Inputs') /\ e \notin DOMAIN Inputs' /\ DOMAIN Inputs = DOMAIN Inputs' \cup {e}
        /\ Inputs[e] = x.input.value
    BY <1>5, <1>13 DEF Inputs, Countable
  <2>2. \A f \in DOMAIN Inputs' : Inputs[f] = Inputs'[f]
    BY <1>3, <1>5 DEF Inputs, Moved, Funds!Open
  <2>3. \A f \in DOMAIN Inputs : Inputs[f] \in Nat
    <3>1. \A f \in DOMAIN exits : exits[f] \in Exits
      BY DEF AmountType
    <3> QED BY <3>1 DEF Inputs, Funds!Open, Exits, CoinRecord
  <2> QED BY <2>1, <2>2, <2>3, SumExtended
<1>15. Balance'
  <2>1. x.input.value \in Nat /\ collected \in Nat /\ collected' = collected
    BY <1>1, <1>6 DEF CoinRecord, AmountType
  <2> HIDE DEF x
  <2> QED BY <1>11, <1>12, <1>13, <1>14, <2>1, Accounts DEF Balance, Countable
<1> QED
  BY <1>8, <1>9, <1>10, <1>15, NextAccounts

LEMMA RecoverKeeps ==
  ASSUME Funds!Assumptions, FundsInv, NEW e \in DOMAIN exits, Funds!Recover(e)
  PROVE  FundsInv'
<1> USE DEF FundsInv
<1> DEFINE x == exits[e]
           connector == Funds!Intermediate(Funds!Count(x))
           change == Funds!ChangeOf(x) - bump[e].fee
<1>1. /\ x.status = "TX_BROADCASTED" /\ exits' = [exits EXCEPT ![e].status = "SUCCEEDED"]
      /\ collected' = collected + x.given
      /\ coins' = Funds!Put(Funds!Put(coins, <<e, 1>>, [value |-> connector, script |-> "p2tr"]),
                            <<e, 2>>, [value |-> change, script |-> "p2tr"])
      /\ UNCHANGED <<leaves, minted, quotes, bump>>
  BY DEF Funds!Recover
<1>2. x \in Exits /\ bump[e] \in BumpRecord /\ Sound(x, bump[e])
  BY DEF AmountType, SoundInv
<1>3. /\ x.input.value \in Nat /\ x.payout \in Nat /\ x.fee \in Nat /\ x.user_fee \in Nat /\ x.given \in Nat
      /\ x.ids \subseteq LeafIds /\ x.feeIds \subseteq LeafIds /\ bump[e].fee \in Nat
  BY <1>2 DEF Exits, CoinRecord, BumpRecord
<1>4. connector \in Nat
  <2>1. Funds!Cardinality(x.ids) \in Nat /\ Funds!Cardinality(x.feeIds) \in Nat
    BY <1>3, FS_Subset, FS_CardinalityType, SameFinite DEF Funds!Assumptions
  <2> QED BY <2>1 DEF Funds!Count, Funds!Intermediate, Funds!CONNECTOR_SATS
<1>5. change = x.input.value - x.payout - connector - x.fee - bump[e].fee
  BY DEF Funds!ChangeOf
<1>6. change \in Nat /\ x.given = x.payout + x.fee + x.user_fee
  <2>1. change >= 330
    BY <1>2 DEF Sound, Funds!Script
  <2>2. change \in Int
    <3> HIDE DEF connector, change
    <3> QED BY <1>3, <1>4, <1>5
  <2> HIDE DEF change
  <2> QED BY <1>1, <1>2, <2>1, <2>2 DEF Sound
<1>7. Moved(e, "SUCCEEDED") /\ exits'[e].given = x.given
  BY <1>1, <1>3, StatusMoves DEF AmountType
<1>8. DOMAIN exits' = DOMAIN exits /\ e \in Nat \ {0}
  BY <1>7 DEF Moved, AmountType
<1>9. /\ e \in Funds!Open /\ e \notin Funds!Open' /\ Funds!Open = Funds!Open' \cup {e}
      /\ Funds!With("SUCCEEDED")' = Funds!With("SUCCEEDED") \cup {e} /\ e \notin Funds!With("SUCCEEDED")
  BY <1>1, <1>7, <1>8 DEF Moved, Funds!Open, Funds!Pending, Funds!With
<1>10. /\ <<e, 1>> \notin DOMAIN coins /\ <<e, 2>> \notin DOMAIN coins
       /\ <<e, 1>> \in Points /\ <<e, 2>> \in Points /\ <<e, 1>> # <<e, 2>>
  BY <1>8, <1>9 DEF CoinInv, Points, Funds!Assumptions
<1> DEFINE one == Funds!Put(coins, <<e, 1>>, [value |-> connector, script |-> "p2tr"])
           two == Funds!Put(one, <<e, 2>>, [value |-> change, script |-> "p2tr"])
<1>11. /\ DOMAIN one = DOMAIN coins \cup {<<e, 1>>} /\ one[<<e, 1>>] = [value |-> connector, script |-> "p2tr"]
       /\ \A c \in DOMAIN coins : one[c] = coins[c]
  BY <1>10 DEF Funds!Put
<1>12. /\ DOMAIN two = DOMAIN one \cup {<<e, 2>>} /\ two[<<e, 2>>] = [value |-> change, script |-> "p2tr"]
       /\ \A c \in DOMAIN one : two[c] = one[c]
  <2>1. <<e, 2>> \notin DOMAIN one
    BY <1>10, <1>11
  <2> HIDE DEF one
  <2> QED BY <2>1 DEF Funds!Put
<1>13. coins' = two
  BY <1>1
<1> HIDE DEF one, two
<1>14. /\ IsFiniteSet(DOMAIN one) /\ \A c \in DOMAIN one : one[c] \in CoinRecord
       /\ IsFiniteSet(DOMAIN two) /\ \A c \in DOMAIN two : two[c] \in CoinRecord
  <2>1. /\ [value |-> connector, script |-> "p2tr"] \in CoinRecord
        /\ [value |-> change, script |-> "p2tr"] \in CoinRecord
    BY <1>4, <1>6 DEF CoinRecord, Funds!Script
  <2> HIDE DEF connector, change
  <2>2. IsFiniteSet(DOMAIN one)
    <3>1. IsFiniteSet(DOMAIN coins) /\ DOMAIN one = DOMAIN coins \cup {<<e, 1>>}
      BY <1>11 DEF AmountType
    <3> QED BY <3>1, FS_AddElement
  <2>3. IsFiniteSet(DOMAIN two)
    BY <1>12, <2>2, FS_AddElement
  <2>4. \A c \in DOMAIN one : one[c] \in CoinRecord
    BY <1>11, <2>1 DEF AmountType
  <2>5. \A c \in DOMAIN two : two[c] \in CoinRecord
    BY <1>12, <2>1, <2>4
  <2> QED BY <2>2, <2>3, <2>4, <2>5
<1> HIDE DEF connector, change
<1>15. AmountType'
  <2>1. collected' \in Nat
    BY <1>1, <1>3 DEF AmountType
  <2> QED BY <1>1, <1>7, <1>10, <1>11, <1>12, <1>13, <1>14, <2>1 DEF Moved, AmountType
<1>16. SoundInv'
  <2>1. exits'[e].given = exits'[e].total
    BY <1>2, <1>6, <1>7 DEF Moved, SameTerms, Sound
  <2>2. Sound(exits'[e], bump[e])
    BY <1>2, <1>7, <2>1, SoundStays DEF Moved
  <2> QED BY <1>1, <1>7, <1>8, <2>2 DEF Moved, SoundInv
<1>17. CoinInv'
  <2>1. Funds!Open' = {}
    BY <1>9 DEF CoinInv
  <2>2. \A c \in DOMAIN coins' : c \in DOMAIN Treasury \cup (Funds!With("SUCCEEDED")' \X {1, 2})
    BY <1>9, <1>11, <1>12, <1>13 DEF CoinInv
  <2> QED BY <2>1, <2>2 DEF CoinInv
<1> DEFINE Ones == [c \in DOMAIN one |-> one[c].value]
<1>18. SumFunction(Ones) = connector + SumFunction(Values)
  <2>1. /\ IsFiniteSet(DOMAIN Values) /\ <<e, 1>> \notin DOMAIN Values
        /\ DOMAIN Ones = DOMAIN Values \cup {<<e, 1>>}
        /\ \A c \in DOMAIN Values : Ones[c] = Values[c]
        /\ \A c \in DOMAIN Ones : Ones[c] \in Nat
        /\ Ones[<<e, 1>>] = connector
    BY <1>10, <1>11, <1>14 DEF Values, AmountType, CoinRecord
  <2> HIDE DEF Ones
  <2> QED BY <2>1, SumExtended
<1>19. SumFunction(Values') = change + SumFunction(Ones)
  <2>1. /\ IsFiniteSet(DOMAIN Ones) /\ <<e, 2>> \notin DOMAIN Ones
        /\ DOMAIN Values' = DOMAIN Ones \cup {<<e, 2>>}
        /\ \A c \in DOMAIN Ones : Values'[c] = Ones[c]
        /\ \A c \in DOMAIN Values' : Values'[c] \in Nat
        /\ Values'[<<e, 2>>] = change
    BY <1>10, <1>11, <1>12, <1>13, <1>14 DEF Values, CoinRecord
  <2> HIDE DEF Ones
  <2> QED BY <2>1, SumExtended
<1> HIDE DEF Ones
<1>20. Countable /\ Countable'
  BY <1>15, AccountsAreNat, NextAreNat
<1>21. \A f \in DOMAIN exits : exits[f].input.value \in Nat /\ exits[f].user_fee \in Nat /\ bump[f].fee \in Nat
  <2>1. TAKE f \in DOMAIN exits
  <2>2. exits[f] \in Exits /\ bump[f] \in BumpRecord
    BY DEF AmountType
  <2> QED BY <2>2 DEF Exits, CoinRecord, BumpRecord
<1>22. SumFunction(Inputs) = x.input.value + SumFunction(Inputs')
  <2>1. /\ IsFiniteSet(DOMAIN Inputs') /\ e \notin DOMAIN Inputs' /\ DOMAIN Inputs = DOMAIN Inputs' \cup {e}
        /\ Inputs[e] = x.input.value
    BY <1>9, <1>20 DEF Inputs, Countable
  <2>2. \A f \in DOMAIN Inputs' : Inputs[f] = Inputs'[f]
    BY <1>7, <1>9 DEF Inputs, Moved, Funds!Open
  <2>3. \A f \in DOMAIN Inputs : Inputs[f] \in Nat
    BY <1>21 DEF Inputs, Funds!Open
  <2> QED BY <2>1, <2>2, <2>3, SumExtended
<1>23. SumFunction(BumpFees') = bump[e].fee + SumFunction(BumpFees)
  <2>1. /\ IsFiniteSet(DOMAIN BumpFees) /\ e \notin DOMAIN BumpFees /\ DOMAIN BumpFees' = DOMAIN BumpFees \cup {e}
        /\ BumpFees'[e] = bump[e].fee /\ \A f \in DOMAIN BumpFees : BumpFees'[f] = BumpFees[f]
    BY <1>1, <1>9, <1>20 DEF BumpFees, Countable
  <2>2. \A f \in DOMAIN BumpFees' : BumpFees'[f] \in Nat
    BY <1>1, <1>9, <1>21 DEF BumpFees, Funds!With
  <2> QED BY <2>1, <2>2, SumExtended
<1>24. SumFunction(UserFees') = x.user_fee + SumFunction(UserFees)
  <2>1. \A f \in DOMAIN exits : exits'[f].user_fee = exits[f].user_fee
    BY <1>7 DEF Moved, SameTerms
  <2>2. /\ IsFiniteSet(DOMAIN UserFees) /\ e \notin DOMAIN UserFees /\ DOMAIN UserFees' = DOMAIN UserFees \cup {e}
        /\ UserFees'[e] = x.user_fee /\ \A f \in DOMAIN UserFees : UserFees'[f] = UserFees[f]
    BY <1>9, <1>20, <2>1 DEF UserFees, Countable, Funds!With
  <2>3. \A f \in DOMAIN UserFees' : UserFees'[f] \in Nat
    BY <1>9, <1>21, <2>1 DEF UserFees, Funds!With
  <2> QED BY <2>2, <2>3, SumExtended
<1>25. Balance'
  <2>1. collected \in Nat /\ collected' = collected + x.given
    BY <1>1 DEF AmountType
  <2> DEFINE b == bump[e].fee
             v == x.input.value
             u == x.user_fee
             p == x.payout
             t == x.fee
  <2>2. b \in Nat /\ v \in Nat /\ u \in Nat /\ p \in Nat /\ t \in Nat
    BY <1>3
  <2>3. change = v - p - connector - t - b /\ collected' = collected + (p + t + u)
    BY <1>5, <1>6, <2>1
  <2>4. Balance
    BY Accounts
  <2> HIDE DEF b, v, u, p, t
  <2>5. /\ SumFunction(Values') = change + (connector + SumFunction(Values))
        /\ SumFunction(Inputs) = v + SumFunction(Inputs')
        /\ SumFunction(BumpFees') = b + SumFunction(BumpFees)
        /\ SumFunction(UserFees') = u + SumFunction(UserFees)
    BY <1>18, <1>19, <1>22, <1>23, <1>24 DEF b, v, u
  <2>6. Funds!Worth(Treasury) \in Nat
    BY TreasuryIsNat
  <2> QED BY <1>4, <1>20, <2>1, <2>2, <2>3, <2>4, <2>5, <2>6 DEF Balance, Countable
<1> QED
  BY <1>15, <1>16, <1>17, <1>25, NextAccounts

(* A bump is the fee of a withdrawal that is not over.                     *)
LEMMA BumpKeeps ==
  ASSUME Funds!Assumptions, FundsInv, NEW e \in DOMAIN exits, NEW rate, NEW budget,
         Funds!Bump(e, rate, budget)
  PROVE  FundsInv'
<1> USE DEF FundsInv
<1> DEFINE x == exits[e]
           fee == Funds!BumpFee(x, rate)
           b == [rate |-> rate, fee |-> fee]
<1>1. /\ x.status = "TX_BROADCASTED" /\ rate \in 1..10000
      /\ Funds!ChangeOf(x) >= fee + Funds!Script["p2tr"].dust
      /\ bump' = [bump EXCEPT ![e] = b]
      /\ UNCHANGED <<leaves, minted, quotes, exits, coins, collected>>
  BY DEF Funds!Bump
<1>2. x \in Exits /\ Sound(x, bump[e])
  BY DEF AmountType, SoundInv
<1>3. x.address \in DOMAIN Funds!Script /\ x.fee \in Nat /\ rate \in Nat
  BY <1>1, <1>2 DEF Exits, Funds!Assumptions
<1>4. fee \in Nat /\ x.fee + fee >= rate * (Funds!ExitVsize(x) + Funds!SignedVsize("p2tr", 43))
  BY <1>3, BumpReachesRate
<1>5. Funds!ChangeOf(x) - fee >= Funds!Script["p2tr"].dust
  <2>1. Funds!ChangeOf(x) \in Int
    <3>1. x.ids \subseteq LeafIds /\ x.feeIds \subseteq LeafIds /\ x.input.value \in Nat /\ x.payout \in Nat
      BY <1>2 DEF Exits, CoinRecord
    <3>2. Funds!Cardinality(x.ids) \in Nat /\ Funds!Cardinality(x.feeIds) \in Nat
      BY <3>1, FS_Subset, FS_CardinalityType, SameFinite DEF Funds!Assumptions
    <3>3. Funds!Intermediate(Funds!Count(x)) \in Nat
      BY <3>2 DEF Funds!Count, Funds!Intermediate, Funds!CONNECTOR_SATS
    <3> QED BY <1>3, <3>1, <3>3 DEF Funds!ChangeOf
  <2>2. Funds!Script["p2tr"].dust = 330
    BY DEF Funds!Script
  <2> HIDE DEF x, fee
  <2> QED BY <1>1, <1>4, <2>1, <2>2
<1>6. b \in BumpRecord
  BY <1>3, <1>4 DEF BumpRecord
<1>7. Sound(x, b)
  BY <1>2, <1>4, <1>5 DEF Sound
<1> HIDE DEF b, x
<1>8. /\ bump' \in Seq(BumpRecord) /\ Len(bump') = Len(bump) /\ bump'[e] = b
      /\ \A f \in DOMAIN exits \ {e} : bump'[f] = bump[f]
  BY <1>1, <1>6 DEF AmountType
<1>9. AmountType'
  BY <1>1, <1>8 DEF AmountType
<1>10. SoundInv'
  BY <1>1, <1>7, <1>8 DEF SoundInv, x
<1>11. Funds!Open' = Funds!Open /\ Funds!With("SUCCEEDED")' = Funds!With("SUCCEEDED")
       /\ e \notin Funds!With("SUCCEEDED")
  BY <1>1 DEF Funds!Open, Funds!With, x
<1>12. CoinInv'
  BY <1>1, <1>11 DEF CoinInv
<1>13. Inputs' = Inputs /\ UserFees' = UserFees /\ Values' = Values /\ BumpFees' = BumpFees
  BY <1>1, <1>8, <1>11 DEF Inputs, UserFees, Values, BumpFees, Funds!With
<1>14. Balance'
  BY <1>1, <1>13, Accounts DEF Balance
<1> QED
  BY <1>9, <1>10, <1>12, <1>14, NextAccounts

(* What touches neither withdrawals nor coins.                             *)
LEMMA QuietKeeps ==
  ASSUME FundsInv, AmountType', UNCHANGED <<exits, bump, coins, collected>>
  PROVE  FundsInv'
<1> USE DEF FundsInv
<1>1. Funds!Open' = Funds!Open /\ Funds!With("SUCCEEDED")' = Funds!With("SUCCEEDED")
  BY DEF Funds!Open, Funds!With
<1>2. SoundInv' /\ CoinInv'
  BY <1>1 DEF SoundInv, CoinInv
<1>3. Inputs' = Inputs /\ UserFees' = UserFees /\ Values' = Values /\ BumpFees' = BumpFees
  BY <1>1 DEF Inputs, UserFees, Values, BumpFees
<1>4. Balance'
  BY <1>3, Accounts DEF Balance
<1> QED
  BY <1>2, <1>4, NextAccounts

LEMMA QuoteKeeps ==
  ASSUME Funds!Assumptions, FundsInv, NEW a \in Addresses, NEW f \in [Speeds -> Estimates], Funds!Quote(a, f)
  PROVE  FundsInv'
<1> DEFINE fees == [s \in Speeds |-> Funds!QuotedVbytes(a) * Funds!Rate(f[s])]
           q == [address |-> a, estimate |-> f, user_fee |-> UserFee, fees |-> fees]
           all == Append(quotes, q)
<1>1. /\ quotes' = IF Len(all) > QuoteLimit THEN Tail(all) ELSE all
      /\ UNCHANGED <<leaves, minted, exits, bump, coins, collected>>
  BY DEF Funds!Quote
<1>2. a \in DOMAIN Funds!Script /\ f \in [Speeds -> Nat] /\ UserFee \in Nat
  BY DEF Funds!Assumptions
<1>3. Funds!QuotedVbytes(a) \in Nat
  BY <1>2 DEF Funds!QuotedVbytes, Funds!Script
<1>4. fees \in [Speeds -> Nat]
  BY <1>2, <1>3, RateRoundsUp
<1>5. q \in Quotes
  BY <1>2, <1>4 DEF Quotes
<1> HIDE DEF q
<1>6. all \in Seq(Quotes) /\ all # <<>>
  <2>1. quotes \in Seq(Quotes)
    BY DEF FundsInv, AmountType
  <2>2. all \in Seq(Quotes) /\ Len(all) = Len(quotes) + 1 /\ Len(quotes) \in Nat
    BY <1>5, <2>1
  <2> HIDE DEF all
  <2>3. Len(all) # 0
    BY <2>2
  <2> QED BY <2>2, <2>3
<1>7. quotes' \in Seq(Quotes)
  <2> HIDE DEF all
  <2> QED BY <1>1, <1>6
<1>8. AmountType'
  BY <1>1, <1>7 DEF FundsInv, AmountType
<1> QED
  BY <1>1, <1>8, QuietKeeps

LEMMA QuoteExpiresKeeps ==
  ASSUME FundsInv, Funds!QuoteExpires
  PROVE  FundsInv'
<1>1. quotes # <<>> /\ quotes' = Tail(quotes) /\ UNCHANGED <<leaves, minted, exits, bump, coins, collected>>
  BY DEF Funds!QuoteExpires
<1>2. quotes' \in Seq(Quotes)
  BY <1>1 DEF FundsInv, AmountType
<1>3. AmountType'
  BY <1>1, <1>2 DEF FundsInv, AmountType
<1> QED
  BY <1>1, <1>3, QuietKeeps

LEMMA SplitKeeps ==
  ASSUME FundsInv, NEW l \in DOMAIN leaves, NEW v, Funds!SplitLeaf(l, v)
  PROVE  FundsInv'
<1> USE DEF FundsInv
<1> DEFINE rest == Funds!Without(leaves, {l})
           one == Funds!Put(rest, minted + 1, v)
<1>1. /\ minted + 1 \in LeafIds /\ minted + 2 \in LeafIds /\ v \in 1..(leaves[l] - 1)
      /\ leaves' = Funds!Put(one, minted + 2, leaves[l] - v)
      /\ UNCHANGED <<quotes, exits, bump, coins, collected>>
  BY DEF Funds!SplitLeaf
<1>2. leaves[l] \in Nat /\ v \in Nat /\ leaves[l] - v \in Nat
  BY <1>1 DEF AmountType
<1>3. DOMAIN one \subseteq LeafIds /\ \A k \in DOMAIN one : one[k] \in Nat
  BY <1>1, <1>2 DEF Funds!Put, Funds!Without, AmountType
<1> HIDE DEF one
<1>4. DOMAIN leaves' \subseteq LeafIds /\ \A k \in DOMAIN leaves' : leaves'[k] \in Nat
  BY <1>1, <1>2, <1>3 DEF Funds!Put
<1>5. AmountType'
  BY <1>1, <1>4 DEF AmountType
<1> QED
  BY <1>1, <1>5, QuietKeeps

LEMMA FundsInit ==
  ASSUME Funds!Assumptions, Funds!Init
  PROVE  FundsInv
<1>1. /\ leaves = Opening /\ quotes = <<>> /\ exits = <<>> /\ bump = <<>>
      /\ coins = Treasury /\ collected = 0
  BY DEF Funds!Init
<1>2. AmountType
  BY <1>1, SameFinite DEF Funds!Assumptions, AmountType, Points, CoinRecord
<1>3. DOMAIN exits = {} /\ Funds!Open = {} /\ Funds!With("SUCCEEDED") = {}
  BY <1>1 DEF Funds!Open, Funds!With
<1>4. SoundInv /\ CoinInv
  BY <1>1, <1>3 DEF SoundInv, CoinInv
<1>5. SumFunction(Inputs) = 0 /\ SumFunction(BumpFees) = 0 /\ SumFunction(UserFees) = 0
  BY <1>3, SumEmpty DEF SumFunction, Inputs, BumpFees, UserFees
<1>6. SumFunction(Values) = Funds!Worth(Treasury)
  BY <1>1, SameSums DEF Funds!Worth, Values
<1>7. Balance
  BY <1>1, <1>5, <1>6, TreasuryIsNat DEF Balance
<1> QED
  BY <1>2, <1>4, <1>7, Accounts DEF FundsInv

LEMMA FundsStep ==
  ASSUME Funds!Assumptions, FundsInv, [Funds!Next]_Funds!vars
  PROVE  FundsInv'
<1>1. CASE UNCHANGED Funds!vars
  <2>1. AmountType'
    BY <1>1 DEF Funds!vars, FundsInv, AmountType
  <2> QED BY <1>1, <2>1, QuietKeeps DEF Funds!vars
<1>2. ASSUME NEW a \in Addresses, NEW f \in [Speeds -> Estimates], Funds!Quote(a, f)
      PROVE  FundsInv'
  BY <1>2, QuoteKeeps
<1>3. CASE Funds!QuoteExpires
  BY <1>3, QuoteExpiresKeeps
<1>4. ASSUME NEW i \in DOMAIN quotes, NEW s \in Speeds, NEW ids \in SUBSET LeafIds,
             NEW feeIds \in SUBSET LeafIds, Funds!Request(quotes[i], s, ids, feeIds)
      PROVE  FundsInv'
  <2>1. AmountType /\ quotes[i] \in Quotes
    BY DEF FundsInv, AmountType
  <2>2. PICK x, c : Requested(x, c)
    BY <1>4, <2>1, RequestIsSound
  <2> QED BY <2>2, RequestKeeps
<1>5. ASSUME NEW e \in DOMAIN exits, NEW sent \in SUBSET DOMAIN leaves, Funds!Broadcast(e, sent)
      PROVE  FundsInv'
  BY <1>5, BroadcastKeeps
<1>6. ASSUME NEW e \in DOMAIN exits, Funds!Expire(e)
      PROVE  FundsInv'
  BY <1>6, ExpireKeeps
<1>7. ASSUME NEW e \in DOMAIN exits, Funds!Recover(e)
      PROVE  FundsInv'
  BY <1>7, RecoverKeeps
<1>8. ASSUME NEW e \in DOMAIN exits, NEW rate \in BumpRates, NEW budget \in Budgets, Funds!Bump(e, rate, budget)
      PROVE  FundsInv'
  BY <1>8, BumpKeeps
<1>9. ASSUME NEW l \in DOMAIN leaves, NEW v \in Funds!FeesOf, Funds!SplitLeaf(l, v)
      PROVE  FundsInv'
  BY <1>9, SplitKeeps
<1> QED
  BY <1>1, <1>2, <1>3, <1>4, <1>5, <1>6, <1>7, <1>8, <1>9 DEF Funds!Next

-----------------------------------------------------------------------------
(* Types, terms, coins and accounts of ExitFunds hold in every reachable   *)
(* state, for every treasury, leaves, estimates and limits.                *)
THEOREM FundsInvariance == Funds!Spec => []FundsInv
<1>1. Funds!Init => FundsInv
  BY FundsInit, AmountsAssumption
<1>2. FundsInv /\ [Funds!Next]_Funds!vars => FundsInv'
  BY FundsStep, AmountsAssumption
<1> QED
  BY <1>1, <1>2, PTL DEF Funds!Spec

(* The coins and recovered leaves of the SSP account for every satoshi of  *)
(* the withdrawals: request picks amounts and coin, and                    *)
(* validate_coop_exit_transfer lets no transfer of another value through.  *)
THEOREM FundsAreAccounted == Funds!Spec => []FundsAreConserved
<1>1. FundsInv => FundsAreConserved
  BY DEF FundsInv, FundsAreConserved
<1> QED
  BY <1>1, FundsInvariance, PTL

(* No output of a payout or of its child is dust: the least value of the   *)
(* coin leaves change for it, and cpfp_transaction leaves it in the bump.  *)
THEOREM OutputsAreRelayed == Funds!Spec => []OutputsRelay
<1>1. FundsInv => OutputsRelay
  BY DEF FundsInv, SoundInv, Sound, OutputsRelay, Funds!OutputsRelay
<1> QED
  BY <1>1, FundsInvariance, PTL

(* The sizes that quote and cpfp_transaction compute with bound those of   *)
(* the signed transactions, whichever script is spent or paid.             *)
THEOREM FeesReachTheirRate == Funds!Spec => []FeesReachRate
<1>1. ASSUME FundsInv PROVE FeesReachRate
  <2>1. SUFFICES ASSUME NEW e \in DOMAIN exits
        PROVE  /\ exits[e].fee * 1000 >= exits[e].estimate * Funds!ExitVsize(exits[e])
               /\ bump[e] # Funds!NoBump =>
                    exits[e].fee + bump[e].fee
                      >= bump[e].rate * (Funds!ExitVsize(exits[e]) + Funds!SignedVsize("p2tr", 43))
    BY DEF FeesReachRate, Funds!FeesReachRate
  <2>2. exits[e] \in Exits /\ Sound(exits[e], bump[e])
    BY <1>1 DEF FundsInv, AmountType, SoundInv
  <2>3. exits[e].address \in DOMAIN Funds!Script /\ exits[e].estimate \in Nat
    BY <2>2, AmountsAssumption DEF Exits, Funds!Assumptions
  <2> QED BY <2>2, <2>3, FeeReachesEstimate DEF Sound
<1> QED
  BY <1>1, FundsInvariance, PTL
=============================================================================
