--------------------------- MODULE DepositsProofs ---------------------------
(***************************************************************************)
(* The safety of Deposits for every finite set of coins, every slot and    *)
(* owner of each and every credit, limit and number of faults.             *)
(*                                                                         *)
(* The place of the handler in the lock tells the stored phase (LockInv),  *)
(* and the phase tells what has been paid, signed and sent (PhaseInv).     *)
(* Between claims of one slot, the reservation triggers give ApartInv and  *)
(* the operators' record of a coin gives HeldInv: together they name a     *)
(* different deposit for every claim that is made, which CountInv keeps.   *)
(***************************************************************************)
EXTENDS Deposits, DataTheorems

Sent     == {"SPEND_TX_CREATED", "SPEND_TX_BROADCAST", "SPEND_TX_CONFIRMED"}
Unfrozen == {"none", "CREATED", "TRANSFER_COMPLETED"}

(* What the handler in the lock knows of the claim it works on.            *)
LockInv ==
  LET k == ctl.claim IN
  /\ ctl.pc # "idle" => k \in Claims
  /\ ctl.pc \in {"reserve", "savePaid"} => k \in Instant /\ phase[k] = "CREATED"
  /\ ctl.pc = "savePaid" => k \in paid
  /\ ctl.pc \in {"find", "freeze"} => k \in Instant /\ phase[k] = "TRANSFER_COMPLETED"
  /\ ctl.pc = "freeze" => ctl.found \in Coins /\ Slot[ctl.found] = Slot[Coin(k)]
  /\ ctl.pc \in {"submit", "saveSigned"} =>
       \/ k \in Fixed /\ phase[k] = "CREATED"
       \/ k \in Instant /\ phase[k] = "RECOVERY_PREPARED"
  /\ ctl.pc = "saveSigned" => held[point[k]] = k
  /\ ctl.pc \in {"observe", "broadcast", "saveBroadcast", "saveConfirmed"} =>
       phase[k] \in {"SPEND_TX_CREATED", "SPEND_TX_BROADCAST"}
  /\ ctl.pc = "saveConfirmed" /\ k \in Instant => spend[k] = "deep"

(* What the stored phase says of the payout, the plan and the recovery.    *)
PhaseInv ==
  \A k \in Claims :
    /\ k \in paid => phase[k] # "none"
    /\ k \in Fixed => /\ phase[k] \notin {"TRANSFER_COMPLETED", "RECOVERY_PREPARED"}
                      /\ phase[k] # "none" => chain[Coin(k)] = "deep"
    /\ k \in Fixed \/ phase[k] \in Unfrozen => point[k] = Coin(k)
    /\ k \in Instant /\ phase[k] \in Unfrozen => signed[k] = {}
    /\ signed[k] \subseteq {point[k]}
    /\ Slot[point[k]] = Slot[Coin(k)]
    /\ phase[k] \notin Sent => spend[k] = "unsent"
    /\ spend[k] = "deep" => chain[point[k]] = "deep"
    /\ k \in Instant /\ phase[k] = "SPEND_TX_CONFIRMED" => spend[k] = "deep"

(* The operators have given its coin to every claim that is signed.        *)
HeldInv == \A k \in Claims : phase[k] \in Sent => held[point[k]] = k

(* While a fixed claim is not yet signed for, its slot has no pending      *)
(* instant claim, and no earlier one has collected its coin.               *)
ApartInv ==
  \A k \in Fixed, i \in Instant :
    Exists(k) /\ ~Succeeded(k) /\ Slot[Coin(k)] = Slot[Coin(i)] =>
      ~Pending(i) /\ (Exists(i) => point[i] # Coin(k))

(* The claims and the deposits of the slot of a coin.                      *)
Made(c)      == {k \in Claims : Exists(k) /\ Slot[Coin(k)] = Slot[c]}
Deposited(c) == {d \in Coins : Slot[d] = Slot[c] /\ chain[d] \notin {"unseen", "replaced"}}

CountInv == \A c \in Coins : Cardinality(Made(c)) <= Cardinality(Deposited(c))

(* The credit of the pending instant claims is within the limit.           *)
BudgetInv == Outstanding <= Limit

CoreInv == TypeOK /\ LockInv /\ PhaseInv /\ HeldInv /\ ApartInv
IndInv  == CoreInv /\ CountInv /\ BudgetInv

-----------------------------------------------------------------------------
(* A claim is fixed or instant, and its table and its coin name it.        *)
LEMMA ClaimFacts ==
  /\ Claims = Fixed \cup Instant /\ Fixed \cap Instant = {} /\ NULL \notin Claims
  /\ \A k \in Claims : Coin(k) \in Coins
  /\ \A c \in Coins : <<"fixed", c>> \in Fixed /\ Coin(<<"fixed", c>>) = c
  /\ \A c \in Coins : <<"instant", c>> \in Instant /\ Coin(<<"instant", c>>) = c
  /\ \A k \in Fixed : k = <<"fixed", Coin(k)>>
  /\ \A k \in Instant : k = <<"instant", Coin(k)>>
BY DepositsAssumption DEF Fixed, Instant, Claims, Coin

(* The program starts in CoreInv.                                          *)
LEMMA InitCore == Init => CoreInv
BY ClaimFacts, DepositsAssumption
   DEF Init, Idle, CoreInv, TypeOK, LockInv, PhaseInv, HeldInv, ApartInv,
       Exists, Phases, Unsigned, Pc, Sent, Unfrozen

(* Every step of the handlers, of the loops and of Bitcoin keeps CoreInv.  *)
LEMMA StepCore == CoreInv /\ [Next]_vars => CoreInv'
<1> SUFFICES ASSUME CoreInv, [Next]_vars PROVE CoreInv'
  OBVIOUS
<1> USE ClaimFacts, DepositsAssumption
        DEF CoreInv, TypeOK, LockInv, PhaseInv, HeldInv, ApartInv, Exists, Pending, Succeeded,
            db, ops, net, Idle, Enter, Goto, Return, LockFree, Sent, Unfrozen, Phases, Unsigned, Pc
<1>1. ASSUME NEW c \in Coins, QuoteFixed(c) PROVE CoreInv'
  BY <1>1 DEF QuoteFixed
<1>2. ASSUME NEW c \in Coins, QuoteInstant(c) PROVE CoreInv'
  BY <1>2 DEF QuoteInstant
<1>3. ASSUME NEW c \in Coins, ClaimFixed(c) PROVE CoreInv'
  <2> DEFINE k == <<"fixed", c>>
  <2>1. /\ k \in Fixed /\ Coin(k) = c /\ chain[c] = "deep" /\ phase[k] = "none"
        /\ phase' = [phase EXCEPT ![k] = "CREATED"]
        /\ ctl' = [pc |-> "submit", claim |-> k, found |-> NULL]
        /\ UNCHANGED <<quoted, point, ops, net>>
    BY <1>3 DEF ClaimFixed
  <2>2. \A i \in Instant : Slot[Coin(i)] = Slot[c] => ~Pending(i)
    BY <1>3 DEF ClaimFixed, FixedReserved
  <2>3. \A i \in Claims : point[i] = c => spend[i] # "deep"
    BY <1>3 DEF ClaimFixed, Unspent
  <2> HIDE DEF k
  <2>4. TypeOK' /\ LockInv' /\ PhaseInv' /\ HeldInv'
    BY <2>1
  <2>5. ApartInv'
    BY <2>1, <2>2, <2>3
  <2> QED BY <2>4, <2>5
<1>4. ASSUME NEW c \in Coins, ClaimInstant(c) PROVE CoreInv'
  <2> DEFINE k == <<"instant", c>>
  <2>1. /\ k \in Instant /\ Coin(k) = c /\ phase[k] = "none"
        /\ phase' = [phase EXCEPT ![k] = "CREATED"]
        /\ ctl' = [pc |-> "reserve", claim |-> k, found |-> NULL]
        /\ UNCHANGED <<quoted, point, ops, net>>
    BY <1>4 DEF ClaimInstant
  <2>2. \A i \in Fixed : Slot[Coin(i)] = Slot[c] /\ Exists(i) => Succeeded(i)
    BY <1>4 DEF ClaimInstant, InstantReserved
  <2> HIDE DEF k
  <2>3. TypeOK' /\ LockInv' /\ PhaseInv' /\ HeldInv'
    BY <2>1
  <2>4. ApartInv'
    BY <2>1, <2>2
  <2> QED BY <2>3, <2>4
<1>5. ASSUME NEW c \in Coins, Arrive(c) PROVE CoreInv'
  BY <1>5 DEF Arrive
<1>6. ASSUME NEW c \in Coins, Lose(c) PROVE CoreInv'
  BY <1>6 DEF Lose, Orphaned
<1>7. ASSUME NEW c \in Coins, Mine(c) PROVE CoreInv'
  BY <1>7 DEF Mine
<1>8. ASSUME NEW c \in Coins, Bury(c) PROVE CoreInv'
  BY <1>8 DEF Bury
<1>9. ASSUME NEW c \in Coins, Reorg(c) PROVE CoreInv'
  BY <1>9 DEF Reorg
<1>10. ASSUME NEW c \in Coins, NEW d \in Coins, Replace(c, d) PROVE CoreInv'
  BY <1>10 DEF Replace, Orphaned
<1>11. ASSUME NEW k \in Claims, QuoteExpires(k) PROVE CoreInv'
  BY <1>11 DEF QuoteExpires
<1>12. ASSUME NEW k \in Claims, BeginAdvance(k) PROVE CoreInv'
  BY <1>12 DEF BeginAdvance, Entry
<1>13. ASSUME NEW k \in Claims, MineSpend(k) PROVE CoreInv'
  BY <1>13 DEF MineSpend
<1>14. ASSUME NEW k \in Claims, BurySpend(k) PROVE CoreInv'
  BY <1>14 DEF BurySpend
<1>15. ASSUME NEW k \in Claims, ReorgSpend(k) PROVE CoreInv'
  BY <1>15 DEF ReorgSpend
<1>16. ASSUME NEW k \in Claims, EvictSpend(k) PROVE CoreInv'
  BY <1>16 DEF EvictSpend
<1>17. CASE Reserve
  BY <1>17 DEF Reserve
<1>18. CASE SavePaid
  BY <1>18 DEF SavePaid, Save
<1>19. CASE FindOutpoint
  BY <1>19 DEF FindOutpoint, Replacements
<1>20. CASE Freeze
  BY <1>20 DEF Freeze, Save
<1>21. CASE Submit
  BY <1>21 DEF Submit
<1>22. CASE SaveSigned
  BY <1>22 DEF SaveSigned, Save
<1>23. CASE Observe
  BY <1>23 DEF Observe
<1>24. CASE Broadcast
  BY <1>24 DEF Broadcast, Unspent
<1>25. CASE SaveBroadcast
  BY <1>25 DEF SaveBroadcast, Save
<1>26. CASE SaveConfirmed
  BY <1>26 DEF SaveConfirmed, Save
<1>27. CASE Crash
  BY <1>27 DEF Crash
<1>28. CASE UNCHANGED vars
  BY <1>28 DEF vars
<1> QED
  BY <1>1, <1>2, <1>3, <1>4, <1>5, <1>6, <1>7, <1>8, <1>9, <1>10, <1>11, <1>12, <1>13,
     <1>14, <1>15, <1>16, <1>17, <1>18, <1>19, <1>20, <1>21, <1>22, <1>23, <1>24, <1>25,
     <1>26, <1>27, <1>28 DEF Next

-----------------------------------------------------------------------------
(* Claims and deposits can be counted.                                     *)
LEMMA FiniteClaims ==
  /\ IsFiniteSet(Claims)
  /\ \A S \in SUBSET Claims : IsFiniteSet(S)
  /\ \A S \in SUBSET Coins : IsFiniteSet(S)
<1>1. IsFiniteSet(Fixed) /\ IsFiniteSet(Instant)
  BY DepositsAssumption, FS_Product, FS_Singleton DEF Fixed, Instant
<1>2. IsFiniteSet(Claims)
  BY <1>1, FS_Union DEF Claims
<1> QED
  BY <1>2, FS_Subset, DepositsAssumption

(* A step either inserts one claim or leaves the set of claims; no step    *)
(* but the insert makes an instant claim pending.                          *)
LEMMA OtherSteps ==
  ASSUME CoreInv, [Next]_vars, ~\E c \in Coins : ClaimFixed(c) \/ ClaimInstant(c)
  PROVE  \A k \in Claims : (Exists(k)' <=> Exists(k)) /\ (Pending(k)' => Pending(k))
<1> USE ClaimFacts DEF CoreInv, TypeOK, LockInv, Exists, Pending, Phases, Unsigned, Pc, db
<1>1. CASE UNCHANGED phase
  BY <1>1
<1>2. CASE SavePaid
  BY <1>2 DEF SavePaid, Save
<1>3. CASE Freeze
  BY <1>3 DEF Freeze, Save
<1>4. CASE SaveSigned
  BY <1>4 DEF SaveSigned, Save
<1>5. CASE SaveBroadcast
  BY <1>5 DEF SaveBroadcast, Save
<1>6. CASE SaveConfirmed
  BY <1>6 DEF SaveConfirmed, Save
<1>7. \/ UNCHANGED phase
      \/ SavePaid \/ Freeze \/ SaveSigned \/ SaveBroadcast \/ SaveConfirmed
  BY DEF Next, vars, QuoteFixed, QuoteInstant, Arrive, Lose, Mine, Bury, Reorg, Replace,
         QuoteExpires, BeginAdvance, MineSpend, BurySpend, ReorgSpend, EvictSpend,
         Reserve, FindOutpoint, Submit, Observe, Broadcast, Crash
<1> QED
  BY <1>1, <1>2, <1>3, <1>4, <1>5, <1>6, <1>7

(* Bitcoin never takes a deposit out of the count: a replacement pays the  *)
(* same slot.                                                              *)
LEMMA DepositsGrow ==
  ASSUME TypeOK, [Next]_vars, NEW c \in Coins
  PROVE  Cardinality(Deposited(c)) <= Cardinality(Deposited(c)')
<1> USE FiniteClaims, DepositsAssumption DEF TypeOK, Deposited
<1>1. IsFiniteSet(Deposited(c)) /\ IsFiniteSet(Deposited(c)')
  OBVIOUS
<1>2. /\ Cardinality(Deposited(c)) \in Nat
      /\ Deposited(c) \subseteq Deposited(c)' =>
           Cardinality(Deposited(c)) <= Cardinality(Deposited(c)')
  BY <1>1, FS_CardinalityType, FS_Subset
<1>3. CASE UNCHANGED chain
  BY <1>2, <1>3
<1>4. ASSUME NEW e \in Coins, Arrive(e) \/ Lose(e) \/ Mine(e) \/ Bury(e) \/ Reorg(e)
      PROVE  Deposited(c) \subseteq Deposited(c)'
  BY <1>4 DEF Arrive, Lose, Mine, Bury, Reorg
<1>5. ASSUME NEW e \in Coins, NEW d \in Coins, Replace(e, d)
      PROVE  Cardinality(Deposited(c)) <= Cardinality(Deposited(c)')
  <2>1. /\ chain[e] = "mempool" /\ chain[d] = "unseen" /\ Slot[e] = Slot[d] /\ e # d
        /\ chain' = [chain EXCEPT ![e] = "replaced", ![d] = "mempool"]
    BY <1>5 DEF Replace
  <2>2. CASE Slot[e] # Slot[c]
    <3>1. Deposited(c) \subseteq Deposited(c)'
      BY <2>1, <2>2
    <3> QED BY <3>1, <1>2
  <2>3. CASE Slot[e] = Slot[c]
    <3>1. Deposited(c)' = (Deposited(c) \ {e}) \cup {d}
      BY <2>1, <2>3
    <3>2. e \in Deposited(c) /\ d \notin Deposited(c)
      BY <2>1, <2>3
    <3>3. /\ IsFiniteSet(Deposited(c) \ {e})
          /\ Cardinality(Deposited(c) \ {e}) = Cardinality(Deposited(c)) - 1
      BY <1>1, <3>2, FS_RemoveElement
    <3>4. Cardinality((Deposited(c) \ {e}) \cup {d}) = Cardinality(Deposited(c) \ {e}) + 1
      BY <3>2, <3>3, FS_AddElement
    <3> HIDE DEF Deposited
    <3> QED BY <1>2, <3>1, <3>3, <3>4
  <2> QED BY <2>2, <2>3
<1>6. \/ UNCHANGED chain
      \/ \E e \in Coins : \/ Arrive(e) \/ Lose(e) \/ Mine(e) \/ Bury(e) \/ Reorg(e)
                          \/ \E d \in Coins : Replace(e, d)
  BY DEF Next, vars, QuoteFixed, QuoteInstant, ClaimFixed, ClaimInstant,
         QuoteExpires, BeginAdvance, MineSpend, BurySpend, ReorgSpend, EvictSpend,
         Reserve, SavePaid, FindOutpoint, Freeze, Submit, SaveSigned, Observe, Broadcast,
         SaveBroadcast, SaveConfirmed, Crash, net
<1> HIDE DEF Deposited
<1> QED
  BY <1>2, <1>3, <1>4, <1>5, <1>6

(* When a claim is made no other claim of the slot is in between: each has *)
(* a deposit of its own.                                                   *)
LEMMA ClaimsApart ==
  ASSUME CoreInv, NEW c \in Coins, ClaimFixed(c) \/ ClaimInstant(c), NEW e \in Coins
  PROVE  Cardinality(Made(e)') <= Cardinality(Deposited(e)') \/ Slot[e] # Slot[c]
<1> USE ClaimFacts DEF CoreInv, TypeOK
<1>1. PICK k \in Claims :
        /\ Coin(k) = c /\ phase[k] = "none" /\ phase' = [phase EXCEPT ![k] = "CREATED"]
        /\ UNCHANGED <<point, chain>> /\ Unspent(c)
        /\ \A i \in Fixed : i # k /\ Exists(i) => Coin(i) # c
  BY DEF ClaimFixed, ClaimInstant, InstantReserved, Exists, net
<1>2. \A i \in Instant : Slot[Coin(i)] = Slot[c] => ~Pending(i)
  BY DEF ClaimFixed, ClaimInstant, FixedReserved, InstantReserved
<1>3. SUFFICES ASSUME Slot[e] = Slot[c]
               PROVE  Cardinality(Made(e)') <= Cardinality(Deposited(e)')
  OBVIOUS
<1>4. Made(e)' = Made(e) \cup {k}
  BY <1>1, <1>3 DEF Made, Exists
<1>5. Deposited(e)' = Deposited(e)
  BY <1>1 DEF Deposited
<1>6. c \in Deposited(e) /\ point[k] = c
  BY <1>1, <1>3 DEF Deposited, Unspent, PhaseInv, Unfrozen
<1>7. ASSUME NEW m \in Made(e)
      PROVE  /\ point[m] \in Deposited(e) /\ point[m] # c
             /\ m \in Instant => phase[m] = "SPEND_TX_CONFIRMED"
  <2>1. m \in Claims /\ Exists(m) /\ Slot[Coin(m)] = Slot[c] /\ m # k
    BY <1>1, <1>3 DEF Made, Exists
  <2>2. CASE m \in Fixed
    BY <2>1, <2>2, <1>1, <1>3 DEF PhaseInv, Exists, Deposited
  <2>3. CASE m \in Instant
    <3>1. phase[m] = "SPEND_TX_CONFIRMED" /\ spend[m] = "deep" /\ chain[point[m]] = "deep"
      BY <2>1, <2>3, <1>2 DEF PhaseInv, Exists, Pending
    <3> QED BY <2>1, <2>3, <3>1, <1>1, <1>3 DEF PhaseInv, Deposited, Unspent
  <2> QED BY <2>1, <2>2, <2>3
<1>8. ASSUME NEW m \in Made(e), NEW n \in Made(e), point[m] = point[n]
      PROVE  m = n
  <2>1. m \in Claims /\ n \in Claims /\ Exists(m) /\ Exists(n) /\ Slot[Coin(m)] = Slot[Coin(n)]
    BY DEF Made
  <2>2. \A i \in Fixed : point[i] = Coin(i)
    BY DEF PhaseInv
  <2>3. CASE m \in Fixed /\ n \in Fixed
    BY <2>1, <2>2, <2>3, <1>8
  <2>4. CASE m \in Instant /\ n \in Instant
    BY <2>1, <2>4, <1>7, <1>8 DEF HeldInv, Sent
  <2>5. ASSUME NEW i \in Fixed, NEW j \in Instant, i \in Made(e), j \in Made(e)
        PROVE  point[i] # point[j]
    <3>1. Exists(i) /\ Exists(j) /\ Slot[Coin(i)] = Slot[Coin(j)]
      BY <2>5 DEF Made
    <3>2. CASE Succeeded(i)
      BY <2>5, <3>2, <1>7 DEF HeldInv, Sent, Succeeded
    <3>3. CASE ~Succeeded(i)
      BY <2>2, <3>1, <3>3 DEF ApartInv
    <3> QED BY <3>2, <3>3
  <2> QED BY <2>1, <2>3, <2>4, <2>5, <1>8
<1> DEFINE f == [m \in Made(e)' |-> point[m]]
<1>9. f \in Injection(Made(e)', Deposited(e)')
  <2>1. f \in [Made(e)' -> Deposited(e)']
    BY <1>4, <1>5, <1>6, <1>7
  <2>2. \A m, n \in Made(e)' : f[m] = f[n] => m = n
    BY <1>4, <1>6, <1>7, <1>8
  <2> QED BY <2>1, <2>2 DEF Injection, IsInjective
<1>10. IsFiniteSet(Deposited(e)')
  BY FiniteClaims DEF Deposited
<1> QED
  BY <1>9, <1>10, FS_Injection

(* The claims of a slot stay within its deposits.                          *)
LEMMA StepCount == CoreInv /\ CountInv /\ [Next]_vars => CountInv'
<1> SUFFICES ASSUME CoreInv, CountInv, [Next]_vars, NEW e \in Coins
             PROVE  Cardinality(Made(e)') <= Cardinality(Deposited(e)')
  BY DEF CountInv
<1>1. /\ Cardinality(Deposited(e)) <= Cardinality(Deposited(e)')
      /\ Cardinality(Made(e)) <= Cardinality(Deposited(e))
  BY DepositsGrow DEF CountInv, CoreInv
<1>2. /\ Cardinality(Made(e)) \in Nat /\ Cardinality(Deposited(e)) \in Nat
      /\ Cardinality(Deposited(e)') \in Nat
  <2>1. IsFiniteSet(Made(e)) /\ IsFiniteSet(Deposited(e)) /\ IsFiniteSet(Deposited(e)')
    BY FiniteClaims DEF Made, Deposited
  <2> QED BY <2>1, FS_CardinalityType
<1>3. CASE Made(e)' = Made(e)
  BY <1>1, <1>2, <1>3
<1>4. ASSUME NEW c \in Coins, ClaimFixed(c) \/ ClaimInstant(c)
      PROVE  Cardinality(Made(e)') <= Cardinality(Deposited(e)')
  <2>1. CASE Slot[e] = Slot[c]
    BY <1>4, <2>1, ClaimsApart
  <2>2. CASE Slot[e] # Slot[c]
    <3>1. Made(e)' = Made(e)
      BY <1>4, <2>2, ClaimFacts DEF Made, Exists, ClaimFixed, ClaimInstant, CoreInv, TypeOK
    <3> QED BY <3>1, <1>3
  <2> QED BY <2>1, <2>2
<1>5. CASE ~\E c \in Coins : ClaimFixed(c) \/ ClaimInstant(c)
  <2>1. Made(e)' = Made(e)
    BY <1>5, OtherSteps DEF Made
  <2> QED BY <2>1, <1>3
<1> QED
  BY <1>4, <1>5

-----------------------------------------------------------------------------
(* The pending instant claims, whose credits check_exposure adds up.       *)
Open == {k \in Instant : Pending(k)}

(* The budget of the pending instant claims is kept.                       *)
LEMMA StepBudget == CoreInv /\ BudgetInv /\ [Next]_vars => BudgetInv'
<1> SUFFICES ASSUME CoreInv, BudgetInv, [Next]_vars
             PROVE  SumFunctionOnSet(Worth, Open') <= Limit
  BY DEF BudgetInv, Outstanding, Open, Worth
<1>1. SumFunctionOnSet(Worth, Open) <= Limit
  BY DEF BudgetInv, Outstanding, Open
<1>2. \A k \in Claims : Worth[k] \in Nat /\ Worth[k] = Credit[Coin(k)]
  BY ClaimFacts, DepositsAssumption DEF Worth
<1>3. /\ Open \subseteq Claims /\ Open' \subseteq Claims
      /\ IsFiniteSet(Open) /\ IsFiniteSet(Open')
  BY ClaimFacts, FiniteClaims DEF Open
<1>4. SumFunctionOnSet(Worth, Open) \in Nat /\ SumFunctionOnSet(Worth, Open') \in Nat
  BY <1>2, <1>3, SumIsNat
<1>5. CASE Open' \subseteq Open
  <2>1. SumFunctionOnSet(Worth, Open') <= SumFunctionOnSet(Worth, Open)
    BY <1>2, <1>3, <1>5, SumMonotone
  <2> QED BY <2>1, <1>1, <1>4, DepositsAssumption
<1>6. ASSUME NEW c \in Coins, ClaimFixed(c)
      PROVE  Open' \subseteq Open
  BY <1>6, ClaimFacts DEF ClaimFixed, Open, Pending, CoreInv, TypeOK
<1>7. ASSUME NEW c \in Coins, ClaimInstant(c)
      PROVE  SumFunctionOnSet(Worth, Open') <= Limit
  <2> DEFINE k == <<"instant", c>>
  <2>1. /\ k \in Instant /\ Coin(k) = c /\ phase[k] = "none"
        /\ phase' = [phase EXCEPT ![k] = "CREATED"]
    BY <1>7, ClaimFacts DEF ClaimInstant, Exists
  <2>2. SumFunctionOnSet(Worth, Open) + Credit[c] <= Limit
    BY <1>7 DEF ClaimInstant, check_exposure, Outstanding, Open
  <2> HIDE DEF k
  <2>3. Open' = Open \cup {k} /\ k \notin Open
    BY <2>1, ClaimFacts DEF Open, Pending, CoreInv, TypeOK
  <2>4. SumFunctionOnSet(Worth, Open \cup {k}) = Worth[k] + SumFunctionOnSet(Worth, Open)
    BY <1>2, <1>3, <2>1, <2>3, ClaimFacts, SumAdd
  <2>5. Worth[k] = Credit[c] /\ Credit[c] \in Nat
    BY <1>2, <2>1, ClaimFacts, DepositsAssumption
  <2> QED BY <1>4, <2>2, <2>3, <2>4, <2>5
<1>8. CASE ~\E c \in Coins : ClaimFixed(c) \/ ClaimInstant(c)
  <2>1. Open' \subseteq Open
    BY <1>8, OtherSteps, ClaimFacts DEF Open
  <2> QED BY <2>1, <1>5
<1> QED
  BY <1>5, <1>6, <1>7, <1>8

(* No claim is made and nothing is outstanding at the start.               *)
LEMMA InitBudget == Init => CountInv /\ BudgetInv
<1> SUFFICES ASSUME Init PROVE CountInv /\ BudgetInv
  OBVIOUS
<1>1. \A c \in Coins : Made(c) = {}
  BY DEF Init, Made, Exists
<1>2. \A c \in Coins : IsFiniteSet(Deposited(c)) /\ Cardinality(Deposited(c)) \in Nat
  <2>1. \A c \in Coins : IsFiniteSet(Deposited(c))
    BY FiniteClaims DEF Deposited
  <2> QED BY <2>1, FS_CardinalityType
<1>3. CountInv
  BY <1>1, <1>2, FS_EmptySet DEF CountInv
<1>4. {k \in Instant : Pending(k)} = {}
  BY ClaimFacts DEF Init, Pending
<1>5. BudgetInv
  BY <1>4, SumEmpty, DepositsAssumption DEF BudgetInv, Outstanding
<1> QED
  BY <1>3, <1>5

-----------------------------------------------------------------------------
(* The inductive invariant of the deposits.                                *)
THEOREM Invariance == Spec => []IndInv
<1>1. Init => IndInv
  BY InitCore, InitBudget DEF IndInv
<1>2. IndInv /\ [Next]_vars => IndInv'
  BY StepCore, StepCount, StepBudget DEF IndInv
<1> QED
  BY <1>1, <1>2, PTL DEF Spec

(* Every variable keeps its type.                                          *)
THEOREM TypeCorrect == Spec => []TypeOK
BY Invariance, PTL DEF IndInv, CoreInv

(* The SSP never pays a wallet more often than the wallet has deposited:   *)
(* every payout has a claim (submit_static_claim and                       *)
(* submit_instant_reserve follow the insert), and the claims of a slot are *)
(* at most its deposits.                                                   *)
THEOREM PayoutsAreDeposited == Spec => []PayoutsWithinDeposits
<1>1. IndInv => PayoutsWithinDeposits
  <2> SUFFICES ASSUME IndInv, NEW c \in Coins
               PROVE  LET same == {d \in Coins : Slot[d] = Slot[c]} IN
                      Cardinality({k \in paid : Coin(k) \in same})
                        <= Cardinality({d \in same : chain[d] \notin {"unseen", "replaced"}})
    BY DEF PayoutsWithinDeposits
  <2> DEFINE same == {d \in Coins : Slot[d] = Slot[c]}
             Paid == {k \in paid : Coin(k) \in same}
  <2>1. {d \in same : chain[d] \notin {"unseen", "replaced"}} = Deposited(c)
    BY DEF Deposited
  <2>2. Paid \subseteq Made(c)
    BY DEF IndInv, CoreInv, TypeOK, PhaseInv, Made, Exists
  <2>3. IsFiniteSet(Made(c)) /\ IsFiniteSet(Deposited(c))
    BY FiniteClaims DEF Made, Deposited
  <2>4. Cardinality(Made(c)) <= Cardinality(Deposited(c))
    BY DEF IndInv, CountInv
  <2>5. IsFiniteSet(Paid) /\ Cardinality(Paid) <= Cardinality(Made(c))
    BY <2>2, <2>3, FS_Subset
  <2>6. /\ Cardinality(Paid) \in Nat /\ Cardinality(Made(c)) \in Nat
        /\ Cardinality(Deposited(c)) \in Nat
    BY <2>3, <2>5, FS_CardinalityType
  <2>7. Cardinality(Paid) <= Cardinality(Deposited(c))
    BY <2>4, <2>5, <2>6
  <2> QED BY <2>1, <2>7
<1> QED
  BY <1>1, Invariance, PTL

(* What was paid on instant claims and is not back yet stays within the    *)
(* limit: such a claim is pending, so check_exposure counted its credit.   *)
THEOREM ExposureIsBounded == Spec => []ExposureWithinLimit
<1>1. IndInv => ExposureWithinLimit
  <2> SUFFICES ASSUME IndInv
               PROVE  SumFunctionOnSet(Worth, {k \in Instant \cap paid : spend[k] # "deep"}) <= Limit
    BY DEF ExposureWithinLimit
  <2> DEFINE Owed == {k \in Instant \cap paid : spend[k] # "deep"}
  <2>1. Owed \subseteq Open /\ Open \subseteq Claims
    BY ClaimFacts DEF IndInv, CoreInv, PhaseInv, Open, Pending
  <2>2. IsFiniteSet(Open) /\ IsFiniteSet(Owed)
    BY <2>1, FiniteClaims
  <2>3. \A k \in Claims : Worth[k] \in Nat
    BY ClaimFacts, DepositsAssumption DEF Worth
  <2> HIDE DEF Owed
  <2>4. SumFunctionOnSet(Worth, Owed) <= SumFunctionOnSet(Worth, Open)
    BY <2>1, <2>2, <2>3, SumMonotone
  <2>5. SumFunctionOnSet(Worth, Owed) \in Nat /\ SumFunctionOnSet(Worth, Open) \in Nat
    BY <2>1, <2>2, <2>3, SumIsNat
  <2>6. SumFunctionOnSet(Worth, Open) <= Limit
    BY DEF IndInv, BudgetInv, Outstanding, Open
  <2> QED BY <2>4, <2>5, <2>6, DepositsAssumption DEF Owed
<1> QED
  BY <1>1, Invariance, PTL

(* A nonce signs for one outpoint: the outpoint of a plan that has signed  *)
(* is not changed any more (the freeze of advance_instant).                *)
THEOREM NoncesSignOnce == Spec => []NonceSignsOnce
<1>1. IndInv => NonceSignsOnce
  <2> SUFFICES ASSUME IndInv, NEW k \in Claims PROVE Cardinality(signed[k]) <= 1
    BY DEF NonceSignsOnce
  <2>1. signed[k] \in SUBSET {point[k]}
    BY DEF IndInv, CoreInv, PhaseInv
  <2>2. IsFiniteSet({point[k]}) /\ Cardinality({point[k]}) = 1
    BY FS_Singleton
  <2>3. Cardinality(signed[k]) <= Cardinality({point[k]})
    BY <2>1, <2>2, FS_Subset
  <2> QED BY <2>2, <2>3
<1> QED
  BY <1>1, Invariance, PTL
=============================================================================
