------------------------------ MODULE Deposits ------------------------------
(***************************************************************************)
(* Static deposits: a wallet sends Bitcoin to its static address, and the  *)
(* SSP pays it Spark leaves and collects the coin with a recovery          *)
(* transaction that the operators sign with it.                            *)
(*                                                                         *)
(* A fixed claim (static_deposits.rs) is paid and signed in one operator   *)
(* call, once the coin has three confirmations.  An instant claim          *)
(* (instant_deposits.rs) is paid from the mempool; its coin is found and   *)
(* collected later, and may be a replacement of the one quoted.            *)
(*                                                                         *)
(* Every handler and both loops run under StaticDepositService.lock; `ctl` *)
(* is the one inside.  Every step is one database transaction or one call. *)
(***************************************************************************)
EXTENDS Naturals, FiniteSets, Functions

CONSTANTS
  Coins,       \* deposit outputs that wallets may create
  Slot,        \* the address and value of each coin
  Owner,       \* the wallet of each coin's address
  Value,       \* the value of each coin, in satoshis
  Credit,      \* what the SSP pays for each coin: the value less a fee
  Limit,       \* SSP_INSTANT_MAX_OUTSTANDING_SATS
  MaxDeposit,  \* SSP_INSTANT_MAX_DEPOSIT_SATS
  QuoteLimit,  \* unexpired quotes a wallet may hold
  NULL

(* UNIQUE(txid,vout) in deposit_claims and in instant_claims: a claim is   *)
(* named by its table and its coin.                                        *)
Fixed   == {"fixed"} \X Coins
Instant == {"instant"} \X Coins
Claims  == Fixed \cup Instant
Coin(k) == k[2]

ASSUME DepositsAssumption ==
  /\ NULL \notin Coins \cup Claims /\ IsFiniteSet(Coins)
  /\ Credit \in [Coins -> Nat] /\ Limit \in Nat /\ QuoteLimit \in Nat
  /\ DOMAIN Slot = Coins /\ DOMAIN Owner = Coins
  /\ \A c, d \in Coins : Slot[c] = Slot[d] => Owner[c] = Owner[d]

ASSUME ValueAssumption ==
  /\ Value \in [Coins -> Nat] /\ MaxDeposit \in Nat
  /\ \A c \in Coins : Credit[c] <= Value[c]
  /\ \A c, d \in Coins : Slot[c] = Slot[d] => Value[c] = Value[d]

VARIABLES
  quoted,  \* claims with an unexpired quote (deposit_quotes, instant_quotes)
  phase,   \* phase of each claim (deposit_claims, instant_claims)
  point,   \* the outpoint in each claim's signing plan (the same rows)
  paid,    \* operators: claims whose Spark payout has been committed
  held,    \* operators: the claim that each coin's recovery was signed for
  signed,  \* the outpoints that each claim's one nonce has signed for
  chain,   \* Bitcoin: each deposit output
  spend,   \* Bitcoin: each claim's recovery transaction
  ctl      \* the handler that holds the lock

db   == <<quoted, phase, point>>
ops  == <<paid, held, signed>>
net  == <<chain, spend>>
vars == <<db, ops, net, ctl>>

Unsigned == {"CREATED", "TRANSFER_COMPLETED", "RECOVERY_PREPARED"}
Phases   == Unsigned \cup
  {"none", "SPEND_TX_CREATED", "SPEND_TX_BROADCAST", "SPEND_TX_CONFIRMED"}

Pc == {"idle", "reserve", "savePaid", "find", "freeze", "submit", "saveSigned",
       "observe", "broadcast", "saveBroadcast", "saveConfirmed"}

Idle == [pc |-> "idle", claim |-> NULL, found |-> NULL]

TypeOK ==
  /\ quoted \subseteq Claims
  /\ phase \in [Claims -> Phases]
  /\ point \in [Claims -> Coins]
  /\ paid \subseteq Claims
  /\ held \in [Coins -> Claims \cup {NULL}]
  /\ signed \in [Claims -> SUBSET Coins]
  /\ chain \in [Coins -> {"unseen", "mempool", "mined", "deep", "replaced", "gone"}]
  /\ spend \in [Claims -> {"unsent", "mempool", "mined", "deep", "dropped"}]
  /\ ctl \in [pc : Pc, claim : Claims \cup {NULL}, found : Coins \cup {NULL}]

Init ==
  /\ quoted = {}
  /\ phase = [k \in Claims |-> "none"]
  /\ point = [k \in Claims |-> Coin(k)]
  /\ paid = {}
  /\ held = [c \in Coins |-> NULL]
  /\ signed = [k \in Claims |-> {}]
  /\ chain = [c \in Coins |-> "unseen"]
  /\ spend = [k \in Claims |-> "unsent"]
  /\ ctl = Idle

LockFree     == ctl.pc = "idle"
Enter(k, pc) == ctl' = [pc |-> pc, claim |-> k, found |-> NULL]
Goto(pc)     == ctl' = [pc |-> pc, claim |-> ctl.claim, found |-> NULL]
Return       == ctl' = Idle

(* One row per outpoint; the fixed row of status SUCCEEDED is the one      *)
(* whose recovery transaction has been broadcast.                          *)
Exists(k)    == phase[k] # "none"
Pending(k)   == phase[k] \notin {"none", "SPEND_TX_CONFIRMED"}
Succeeded(k) == phase[k] \in {"SPEND_TX_BROADCAST", "SPEND_TX_CONFIRMED"}

(* gettxout with the mempool: unspent, at any number of confirmations.     *)
Unspent(c) ==
  /\ chain[c] \in {"mempool", "mined", "deep"}
  /\ \A k \in Claims : point[k] = c => spend[k] \in {"unsent", "dropped"}

-----------------------------------------------------------------------------
(* Quotes *)

(* The credit of a claim.                                                  *)
Worth == [k \in Claims |-> Credit[Coin(k)]]

(* SELECT sum(credit) WHERE phase!='SPEND_TX_CONFIRMED'.                   *)
Outstanding == SumFunctionOnSet(Worth, {k \in Instant : Pending(k)})

(* Instant deposits are enabled by both limits: on one deposit and on all  *)
(* that are outstanding.                                                   *)
check_exposure(c) ==
  /\ Limit > 0 /\ MaxDeposit > 0
  /\ Value[c] <= MaxDeposit
  /\ Outstanding + Credit[c] <= Limit

(* quote: a claimed coin keeps its quote; another needs three              *)
(* confirmations, and the unexpired quotes of the wallet are counted.      *)
QuoteFixed(c) ==
  LET k == <<"fixed", c>> IN
  /\ LockFree
  /\ ~Exists(k) /\ k \notin quoted
  /\ Unspent(c) /\ chain[c] = "deep"
  /\ Cardinality({q \in quoted \cap Fixed : Owner[Coin(q)] = Owner[c]}) < QuoteLimit
  /\ quoted' = quoted \cup {k}
  /\ UNCHANGED <<phase, point, ops, net, ctl>>

(* instant_quote: any unspent output of a coin without a fixed claim,      *)
(* within the exposure limit.                                              *)
QuoteInstant(c) ==
  LET k == <<"instant", c>> IN
  /\ LockFree
  /\ ~Exists(k) /\ ~Exists(<<"fixed", c>>) /\ k \notin quoted
  /\ Unspent(c)
  /\ check_exposure(c)
  /\ Cardinality({q \in quoted \cap Instant :
                    Owner[Coin(q)] = Owner[c] /\ ~Exists(q)}) < QuoteLimit
  /\ quoted' = quoted \cup {k}
  /\ UNCHANGED <<phase, point, ops, net, ctl>>

QuoteExpires(k) ==
  /\ k \in quoted
  /\ quoted' = quoted \ {k}
  /\ UNCHANGED <<phase, point, ops, net, ctl>>

-----------------------------------------------------------------------------
(* Claims *)

(* Mutant: a fixed claim is refused for the quoted coin only.              *)
FixedReservedByCoin(c) == \E k \in Instant : Coin(k) = c /\ Exists(k)

(* The trigger fixed_deposit_reservation.                                  *)
FixedReserved(c) ==
  \E k \in Instant : \/ Coin(k) = c /\ Exists(k)
                     \/ Slot[Coin(k)] = Slot[c] /\ Pending(k)

(* The trigger instant_deposit_reservation and the unique indexes on the   *)
(* pending instant claims.                                                 *)
InstantReserved(c) ==
  \/ \E k \in Fixed : \/ Coin(k) = c /\ Exists(k)
                      \/ Slot[Coin(k)] = Slot[c] /\ Exists(k) /\ ~Succeeded(k)
  \/ \E k \in Instant : Pending(k) /\ (Owner[Coin(k)] = Owner[c] \/ Slot[Coin(k)] = Slot[c])

(* claim, up to its insert: the coin is looked at again before the payout  *)
(* is prepared.  Nothing before the insert is kept.                        *)
ClaimFixed(c) ==
  LET k == <<"fixed", c>> IN
  /\ LockFree
  /\ k \in quoted /\ ~Exists(k)
  /\ Unspent(c) /\ chain[c] = "deep"
  /\ ~FixedReserved(c)
  /\ phase' = [phase EXCEPT ![k] = "CREATED"]
  /\ Enter(k, "submit")
  /\ UNCHANGED <<quoted, point, ops, net>>

(* instant_claim, up to its insert.                                        *)
ClaimInstant(c) ==
  LET k == <<"instant", c>> IN
  /\ LockFree
  /\ k \in quoted /\ ~Exists(k)
  /\ Unspent(c)
  /\ ~InstantReserved(c)
  /\ check_exposure(c)
  /\ phase' = [phase EXCEPT ![k] = "CREATED"]
  /\ Enter(k, "reserve")
  /\ UNCHANGED <<quoted, point, ops, net>>

(* Where advance and advance_instant go on from the stored phase.          *)
Entry(k) ==
  CASE phase[k] = "CREATED" -> IF k \in Fixed THEN "submit" ELSE "reserve"
    [] phase[k] = "TRANSFER_COMPLETED" -> "find"
    [] phase[k] = "RECOVERY_PREPARED"  -> "submit"
    [] OTHER -> "observe"

(* A wallet's retry, or one record of run or run_instant.                  *)
BeginAdvance(k) ==
  /\ LockFree /\ Pending(k)
  /\ Enter(k, Entry(k))
  /\ UNCHANGED <<db, ops, net>>

-----------------------------------------------------------------------------
(* advance and advance_instant *)

(* submit_instant_reserve: the operators pay the stored transfer, once.    *)
(* They may refuse, and a reply may be lost.                               *)
Reserve ==
  /\ ctl.pc = "reserve"
  /\ \/ /\ paid' = paid \cup {ctl.claim}
        /\ Goto("savePaid") \/ Return
     \/ Return /\ UNCHANGED paid
  /\ UNCHANGED <<db, held, signed, net>>

(* save and save_instant: the phase, the request and, from the second      *)
(* phase on, the transfers row.                                            *)
Save(p) == phase' = [phase EXCEPT ![ctl.claim] = p]

SavePaid ==
  /\ ctl.pc = "savePaid"
  /\ Save("TRANSFER_COMPLETED")
  /\ Goto("find")
  /\ UNCHANGED <<quoted, point, ops, net>>

(* The scan of the blocks since the quote: an unspent confirmed output     *)
(* with the address and value of the claim.                                *)
Replacements(c) == {d \in Coins : /\ Slot[d] = Slot[c]
                                  /\ Unspent(d) /\ chain[d] \in {"mined", "deep"}}

(* confirmed_instant_outpoint: the quoted coin if it is confirmed, nothing *)
(* while it is in the mempool, else what the scan finds; the part of the   *)
(* chain that one pass scans may not hold it.                              *)
FindOutpoint ==
  LET c == Coin(ctl.claim)
      Found(d) == ctl' = [pc |-> "freeze", claim |-> ctl.claim, found |-> d] IN
  /\ ctl.pc = "find"
  /\ \/ Unspent(c) /\ chain[c] \in {"mined", "deep"} /\ Found(c)
     \/ ~Unspent(c) /\ \E d \in Replacements(c) : Found(d)
     \/ Return
  /\ UNCHANGED <<db, ops, net>>

(* Mutant: the plan is used before it is known to be stored.               *)
FreezeUnsaved ==
  /\ ctl.pc = "freeze"
  /\ point' = [point EXCEPT ![ctl.claim] = ctl.found]
  /\ Goto("submit")
  /\ UNCHANGED <<quoted, phase, ops, net>>

(* The outpoint goes into the plan before any signing call.                *)
Freeze ==
  /\ ctl.pc = "freeze"
  /\ point' = [point EXCEPT ![ctl.claim] = ctl.found]
  /\ Save("RECOVERY_PREPARED")
  /\ Goto("submit")
  /\ UNCHANGED <<quoted, ops, net>>

(* submit_static_claim.  The operators give a coin to one claim.  A fixed  *)
(* claim is paid with it and needs three confirmations; an instant one has *)
(* been paid.  The SSP's share of the signature uses the stored nonce.     *)
Submit ==
  LET k == ctl.claim
      c == point[k] IN
  /\ ctl.pc = "submit"
  /\ \/ /\ held[c] \in {NULL, k}
        /\ chain[c] \in (IF k \in Fixed THEN {"deep"} ELSE {"mined", "deep"})
        /\ held' = [held EXCEPT ![c] = k]
        /\ paid' = paid \cup {k}
        /\ signed' = [signed EXCEPT ![k] = @ \cup {c}]
        /\ Goto("saveSigned") \/ Return
     \/ Return /\ UNCHANGED <<paid, held, signed>>
  /\ UNCHANGED <<db, net>>

SaveSigned ==
  /\ ctl.pc = "saveSigned"
  /\ Save("SPEND_TX_CREATED")
  /\ Goto("observe")
  /\ UNCHANGED <<quoted, point, ops, net>>

(* Mutant: one confirmation ends every claim.                              *)
ObserveOnce ==
  /\ ctl.pc = "observe"
  /\ \/ spend[ctl.claim] \in {"mined", "deep"} /\ Goto("saveConfirmed")
     \/ Goto("broadcast")
  /\ UNCHANGED <<db, ops, net>>

(* Mutant: a transaction that has been sent is only watched.               *)
ObserveSent ==
  LET k == ctl.claim IN
  /\ ctl.pc = "observe"
  /\ \/ spend[k] = "mined" /\ Goto(IF k \in Fixed THEN "saveConfirmed" ELSE "saveBroadcast")
     \/ spend[k] = "deep" /\ Goto("saveConfirmed")
     \/ phase[k] = "SPEND_TX_BROADCAST" /\ Return
     \/ phase[k] = "SPEND_TX_CREATED" /\ Goto("broadcast")
  /\ UNCHANGED <<db, ops, net>>

(* gettransaction: an error counts as no confirmation.  One confirmation   *)
(* ends a fixed claim and three an instant one.                            *)
Observe ==
  LET k == ctl.claim IN
  /\ ctl.pc = "observe"
  /\ \/ spend[k] = "mined" /\ Goto(IF k \in Fixed THEN "saveConfirmed" ELSE "saveBroadcast")
     \/ spend[k] = "deep" /\ Goto("saveConfirmed")
     \/ Goto("broadcast")
  /\ UNCHANGED <<db, ops, net>>

(* sendrawtransaction: refused without its input, with a rival in the      *)
(* mempool or the chain, or once confirmed.  The reply may be lost.        *)
Broadcast ==
  LET k == ctl.claim IN
  /\ ctl.pc = "broadcast"
  /\ \/ /\ Unspent(point[k]) \/ spend[k] = "mempool"
        /\ spend' = [spend EXCEPT ![k] = "mempool"]
        /\ Goto("saveBroadcast") \/ Return
     \/ Return /\ UNCHANGED spend
  /\ UNCHANGED <<db, ops, chain>>

SaveBroadcast ==
  /\ ctl.pc = "saveBroadcast"
  /\ Save("SPEND_TX_BROADCAST")
  /\ Return
  /\ UNCHANGED <<quoted, point, ops, net>>

SaveConfirmed ==
  /\ ctl.pc = "saveConfirmed"
  /\ Save("SPEND_TX_CONFIRMED")
  /\ Return
  /\ UNCHANGED <<quoted, point, ops, net>>

Crash ==
  /\ ctl # Idle
  /\ Return
  /\ UNCHANGED <<db, ops, net>>

-----------------------------------------------------------------------------
(* External: Bitcoin.  Three confirmations are final ("deep"); fewer can   *)
(* be reorganised away.                                                    *)

(* A recovery in the mempool goes with the output it spends.               *)
Orphaned(c) ==
  [k \in Claims |-> IF point[k] = c /\ spend[k] = "mempool" THEN "dropped" ELSE spend[k]]

(* A new deposit enters the mempool.                                       *)
Arrive(c) ==
  /\ chain[c] = "unseen"
  /\ chain' = [chain EXCEPT ![c] = "mempool"]
  /\ UNCHANGED <<db, ops, spend, ctl>>

(* A deposit is replaced by another transaction that pays the same slot.   *)
Replace(c, d) ==
  /\ chain[c] = "mempool" /\ chain[d] = "unseen" /\ Slot[c] = Slot[d]
  /\ chain' = [chain EXCEPT ![c] = "replaced", ![d] = "mempool"]
  /\ spend' = Orphaned(c)
  /\ UNCHANGED <<db, ops, ctl>>

(* A deposit is double-spent to somewhere else.                            *)
Lose(c) ==
  /\ chain[c] = "mempool"
  /\ chain' = [chain EXCEPT ![c] = "gone"]
  /\ spend' = Orphaned(c)
  /\ UNCHANGED <<db, ops, ctl>>

Mine(c) ==
  /\ chain[c] = "mempool"
  /\ chain' = [chain EXCEPT ![c] = "mined"]
  /\ UNCHANGED <<db, ops, spend, ctl>>

Bury(c) ==
  /\ chain[c] = "mined"
  /\ chain' = [chain EXCEPT ![c] = "deep"]
  /\ UNCHANGED <<db, ops, spend, ctl>>

Reorg(c) ==
  /\ chain[c] = "mined"
  /\ \A k \in Claims : point[k] = c => spend[k] # "mined"
  /\ chain' = [chain EXCEPT ![c] = "mempool"]
  /\ UNCHANGED <<db, ops, spend, ctl>>

MineSpend(k) ==
  /\ spend[k] = "mempool" /\ chain[point[k]] \in {"mined", "deep"}
  /\ spend' = [spend EXCEPT ![k] = "mined"]
  /\ UNCHANGED <<db, ops, chain, ctl>>

BurySpend(k) ==
  /\ spend[k] = "mined" /\ chain[point[k]] = "deep"
  /\ spend' = [spend EXCEPT ![k] = "deep"]
  /\ UNCHANGED <<db, ops, chain, ctl>>

ReorgSpend(k) ==
  /\ spend[k] = "mined"
  /\ spend' = [spend EXCEPT ![k] = "mempool"]
  /\ UNCHANGED <<db, ops, chain, ctl>>

EvictSpend(k) ==
  /\ spend[k] = "mempool"
  /\ spend' = [spend EXCEPT ![k] = "dropped"]
  /\ UNCHANGED <<db, ops, chain, ctl>>

-----------------------------------------------------------------------------
Next ==
  \/ \E c \in Coins :
       \/ QuoteFixed(c) \/ QuoteInstant(c) \/ ClaimFixed(c) \/ ClaimInstant(c)
       \/ Arrive(c) \/ Lose(c) \/ Mine(c) \/ Bury(c) \/ Reorg(c)
       \/ \E d \in Coins : Replace(c, d)
  \/ \E k \in Claims :
       \/ QuoteExpires(k) \/ BeginAdvance(k)
       \/ MineSpend(k) \/ BurySpend(k) \/ ReorgSpend(k) \/ EvictSpend(k)
  \/ Reserve \/ SavePaid \/ FindOutpoint \/ Freeze
  \/ Submit \/ SaveSigned \/ Observe \/ Broadcast \/ SaveBroadcast \/ SaveConfirmed
  \/ Crash

Spec == Init /\ [][Next]_vars

-----------------------------------------------------------------------------
(* Properties *)

(* The SSP never pays a wallet more often than the wallet has deposited:   *)
(* over quotes, fixed and instant claims, replacements, reorganisations    *)
(* and retries, the payouts for one address and value are at most the      *)
(* deposits that were made to it (the reservation triggers, the repeated   *)
(* gettxout of claim and instant_claim).                                   *)
PayoutsWithinDeposits ==
  \A c \in Coins :
    LET same == {d \in Coins : Slot[d] = Slot[c]} IN
    Cardinality({k \in paid : Coin(k) \in same})
      <= Cardinality({d \in same : chain[d] \notin {"unseen", "replaced"}})

(* What the operators have paid on instant claims and no buried recovery   *)
(* has brought back stays within the limit: a lost reply, an error or a    *)
(* reorganisation never releases budget (check_exposure, advance_instant). *)
ExposureWithinLimit ==
  SumFunctionOnSet(Worth, {k \in Instant \cap paid : spend[k] # "deep"}) <= Limit

(* The nonce of a plan signs for one outpoint, whatever replaces the       *)
(* deposit and wherever a crash falls (the freeze before the signing call  *)
(* in advance_instant).                                                    *)
NonceSignsOnce == \A k \in Claims : Cardinality(signed[k]) <= 1

(* A deposit row reports SPEND_TX_CONFIRMED, and leaves the list of        *)
(* unresolved settlements, only with three confirmations of its recovery.  *)
ListedUntilThreeConfirmations ==
  \A k \in Claims : phase[k] = "SPEND_TX_CONFIRMED" => spend[k] = "deep"
=============================================================================
