------------------------------ MODULE CoopExit ------------------------------
(***************************************************************************)
(* Cooperative withdrawals: a wallet hands Spark leaves to the SSP through *)
(* a conditional transfer, and the SSP pays it on chain from one of its    *)
(* Bitcoin coins.                                                          *)
(*                                                                         *)
(* The request, its completion, the admin's fee bump and the background    *)
(* loop all run under CoopExitService.lock; `ctl` is the one inside, with  *)
(* the withdrawal it works on.  Every step of it is one database           *)
(* transaction or one call to Bitcoin Core or the operators.               *)
(***************************************************************************)
EXTENDS Naturals

CONSTANTS
  Requests,   \* withdrawal requests; each has its own transfer id
  Owner,      \* the wallet that makes each request
  Coins,      \* the SSP's confirmed coins to begin with
  NULL        \* no request, no outpoint

(* Outputs 1 and 2 of a withdrawal's exit transaction.                     *)
Connector(r) == <<r, 1>>
Change(r)    == <<r, 2>>
Outputs(r)   == {Connector(r), Change(r)}

Outpoints == Coins \cup (Requests \X {1, 2})

ASSUME CoinsAssumption ==
  /\ Coins \cap (Requests \X {1, 2}) = {}
  /\ NULL \notin Outpoints \cup Requests

VARIABLES
  status,    \* coop_exits.status of each request (database)
  signed,    \* requests whose signed_exit is stored (database)
  input,     \* the coin that each exit transaction spends (database)
  reserved,  \* coop_exit_inputs: the request that holds each outpoint (database)
  row,       \* transfers.status of each request (database)
  bumps,     \* coop_exit_bumps: requests with a stored child (database)
  expired,   \* requests whose expires_at has passed
  tx,        \* Bitcoin: each exit transaction
  children,  \* Bitcoin: requests whose child has been broadcast
  transfer,  \* operators: each conditional transfer
  ctl        \* the handler that holds the lock

db   == <<status, signed, input, reserved, row, bumps>>
env  == <<expired, tx, children, transfer>>
vars == <<db, env, ctl>>

Closed  == {"SUCCEEDED", "EXPIRED"}
Pending(r) == status[r] \notin Closed \cup {"NONE"}

Pc == {"idle", "expiry", "markExpired", "verify", "sign", "observe",
       "broadcast", "markBroadcast", "sendBump", "storeBump",
       "markConfirmed", "claim", "markSucceeded"}

Idle == [pc |-> "idle", req |-> NULL]

TypeOK ==
  /\ status \in [Requests ->
       {"NONE", "INITIATED", "INBOUND_TRANSFER_CHECKED", "TX_BROADCASTED",
        "ON_CHAIN_TX_CONFIRMED"} \cup Closed]
  /\ signed \subseteq Requests
  /\ input \in [Requests -> Outpoints \cup {NULL}]
  /\ reserved \in [Outpoints -> Requests \cup {NULL}]
  /\ row \in [Requests -> {"none", "PENDING", "COMPLETED"}]
  /\ bumps \subseteq Requests
  /\ expired \subseteq Requests
  /\ tx \in [Requests -> {"unsent", "mempool", "dropped", "confirmed"}]
  /\ children \subseteq Requests
  /\ transfer \in [Requests ->
       {"none", "initiated", "returned", "locked", "tweaked", "completed"}]
  /\ ctl \in [pc : Pc, req : Requests \cup {NULL}]

Init ==
  /\ status = [r \in Requests |-> "NONE"]
  /\ signed = {}
  /\ input = [r \in Requests |-> NULL]
  /\ reserved = [o \in Outpoints |-> NULL]
  /\ row = [r \in Requests |-> "none"]
  /\ bumps = {}
  /\ expired = {}
  /\ tx = [r \in Requests |-> "unsent"]
  /\ children = {}
  /\ transfer = [r \in Requests |-> "none"]
  /\ ctl = Idle

LockFree    == ctl.pc = "idle"
Enter(r, pc) == ctl' = [pc |-> pc, req |-> r]
Goto(pc)    == ctl' = [pc |-> pc, req |-> ctl.req]
Return      == ctl' = Idle

-----------------------------------------------------------------------------
(* listunspent: a confirmed output of the wallet that no transaction the   *)
(* wallet knows of spends.                                                 *)
Unspent(o) ==
  /\ \/ o \in Coins
     \/ \E r \in Requests : o \in Outputs(r) /\ tx[r] = "confirmed"
  /\ \A r \in Requests : input[r] = o => tx[r] = "unsent"
  /\ \A r \in children : o # Change(r)

(* CoopExitService::request.  The whole of it runs in the lock and its     *)
(* only effect is the last transaction (insert_coop_exit), so it is one    *)
(* step.  Which coin is smallest depends on values left out: any will do.  *)
Request(r, o) ==
  /\ LockFree
  /\ status[r] = "NONE"
  /\ \A s \in Requests : Owner[s] = Owner[r] => ~Pending(s)
  /\ Unspent(o) /\ reserved[o] = NULL
  /\ status' = [status EXCEPT ![r] = "INITIATED"]
  /\ input' = [input EXCEPT ![r] = o]
  /\ reserved' = [q \in Outpoints |-> IF q \in {o} \cup Outputs(r) THEN r ELSE reserved[q]]
  /\ UNCHANGED <<signed, row, bumps, env, ctl>>

-----------------------------------------------------------------------------
(* The reservations without those of r.                                    *)
Freed(r) == [o \in Outpoints |-> IF reserved[o] = r THEN NULL ELSE reserved[o]]

(* Mutant: the reservations go with the first confirmation.                *)
SetStatusFreesEarly(r, s) ==
  /\ status' = [status EXCEPT ![r] = s]
  /\ reserved' = IF s \in Closed \cup {"ON_CHAIN_TX_CONFIRMED"} THEN Freed(r) ELSE reserved
  /\ row' = IF s = "SUCCEEDED" /\ row[r] # "none" THEN [row EXCEPT ![r] = "COMPLETED"] ELSE row

(* update_coop_exit: the reservations go with the closing status, and the  *)
(* transfers row is completed with SUCCEEDED.                              *)
SetStatus(r, s) ==
  /\ status' = [status EXCEPT ![r] = s]
  /\ reserved' = IF s \in Closed THEN Freed(r) ELSE reserved
  /\ row' = IF s = "SUCCEEDED" /\ row[r] # "none" THEN [row EXCEPT ![r] = "COMPLETED"] ELSE row

(* complete, or the loop's pass over the record: advance begins.           *)
BeginAdvance(r) ==
  /\ LockFree /\ Pending(r)
  /\ Enter(r, IF r \in signed THEN "observe" ELSE "verify")
  /\ UNCHANGED <<db, env>>

(* The loop, for an unsigned record whose time is up.                      *)
BeginExpiry(r) ==
  /\ LockFree /\ Pending(r)
  /\ r \notin signed /\ r \in expired
  /\ Enter(r, "expiry")
  /\ UNCHANGED <<db, env>>

(* Mutant: the transfer is not looked up.                                  *)
CheckTransferSkipped ==
  /\ ctl.pc = "expiry"
  /\ Goto("markExpired")
  /\ UNCHANGED <<db, env>>

(* Mutant: a missing transfer is left for the wallet to submit.            *)
CheckTransferWaits ==
  /\ ctl.pc = "expiry"
  /\ \/ transfer[ctl.req] # "none" /\ Goto("verify")
     \/ Return
  /\ UNCHANGED <<db, env>>

(* transfer_exists: an error leaves the record as it is.                   *)
CheckTransferExists ==
  /\ ctl.pc = "expiry"
  /\ \/ transfer[ctl.req] = "none" /\ Goto("markExpired")
     \/ transfer[ctl.req] # "none" /\ Goto("verify")
     \/ Return
  /\ UNCHANGED <<db, env>>

MarkExpired ==
  /\ ctl.pc = "markExpired"
  /\ SetStatus(ctl.req, "EXPIRED")
  /\ Return
  /\ UNCHANGED <<signed, input, bumps, env>>

-----------------------------------------------------------------------------
(* advance *)

(* Mutant: a transfer in any status will do.                               *)
VerifyExists ==
  /\ ctl.pc = "verify"
  /\ \/ /\ transfer[ctl.req] # "none"
        /\ row' = [row EXCEPT ![ctl.req] = "PENDING"]
        /\ Goto("sign")
     \/ Return /\ UNCHANGED row
  /\ UNCHANGED <<status, signed, input, reserved, bumps, env>>

(* verify_coop_exit: the matching transfer is SenderKeyTweakPending.  Then *)
(* insert_transfer.                                                        *)
Verify ==
  /\ ctl.pc = "verify"
  /\ \/ /\ transfer[ctl.req] = "locked"
        /\ row' = [row EXCEPT ![ctl.req] = "PENDING"]
        /\ Goto("sign")
     \/ Return /\ UNCHANGED row
  /\ UNCHANGED <<status, signed, input, reserved, bumps, env>>

(* The signature is stored, with the status, before any broadcast.         *)
Sign ==
  /\ ctl.pc = "sign"
  /\ \/ /\ signed' = signed \cup {ctl.req}
        /\ SetStatus(ctl.req, "INBOUND_TRANSFER_CHECKED")
        /\ Goto("observe")
     \/ Return /\ UNCHANGED <<signed, status, reserved, row>>
  /\ UNCHANGED <<input, bumps, env>>

(* gettransaction; an error counts as no confirmation.                     *)
Observe ==
  /\ ctl.pc = "observe"
  /\ \/ tx[ctl.req] = "confirmed" /\ Goto("markConfirmed")
     \/ Goto("broadcast")
  /\ UNCHANGED <<db, env>>

(* Mutant: a transaction that was sent once is not sent again.             *)
BroadcastOnce ==
  /\ ctl.pc = "broadcast"
  /\ \/ /\ tx[ctl.req] = "unsent"
        /\ tx' = [tx EXCEPT ![ctl.req] = "mempool"]
        /\ Goto("markBroadcast") \/ Return
     \/ Return /\ UNCHANGED tx
  /\ UNCHANGED <<db, expired, children, transfer>>

(* sendrawtransaction.  A lost reply hides an accepted transaction; a      *)
(* confirmed one is refused.                                               *)
Broadcast ==
  /\ ctl.pc = "broadcast"
  /\ \/ /\ tx[ctl.req] # "confirmed"
        /\ tx' = [tx EXCEPT ![ctl.req] = "mempool"]
        /\ Goto("markBroadcast") \/ Return
     \/ Return /\ UNCHANGED tx
  /\ UNCHANGED <<db, expired, children, transfer>>

MarkBroadcast ==
  /\ ctl.pc = "markBroadcast"
  /\ SetStatus(ctl.req, "TX_BROADCASTED")
  /\ IF ctl.req \in bumps THEN Goto("sendBump") ELSE Return
  /\ UNCHANGED <<signed, input, bumps, env>>

MarkConfirmed ==
  /\ ctl.pc = "markConfirmed"
  /\ SetStatus(ctl.req, "ON_CHAIN_TX_CONFIRMED")
  /\ Goto("claim")
  /\ UNCHANGED <<signed, input, bumps, env>>

(* Mutant: an error of the claim is ignored.                               *)
ClaimErrorIgnored ==
  /\ ctl.pc = "claim"
  /\ \/ /\ transfer[ctl.req] \in {"tweaked", "completed"}
        /\ transfer' = [transfer EXCEPT ![ctl.req] = "completed"]
     \/ UNCHANGED transfer
  /\ Goto("markSucceeded")
  /\ UNCHANGED <<db, expired, tx, children>>

(* claim_coop_exit.  A lost reply hides a completed claim.                 *)
Claim ==
  /\ ctl.pc = "claim"
  /\ \/ /\ transfer[ctl.req] \in {"tweaked", "completed"}
        /\ transfer' = [transfer EXCEPT ![ctl.req] = "completed"]
        /\ Goto("markSucceeded") \/ Return
     \/ Return /\ UNCHANGED transfer
  /\ UNCHANGED <<db, expired, tx, children>>

MarkSucceeded ==
  /\ ctl.pc = "markSucceeded"
  /\ SetStatus(ctl.req, "SUCCEEDED")
  /\ Return
  /\ UNCHANGED <<signed, input, bumps, env>>

-----------------------------------------------------------------------------
(* bump_fee *)

BeginBump(r) ==
  /\ LockFree
  /\ status[r] = "TX_BROADCASTED" /\ r \in signed
  /\ tx[r] \in {"mempool", "dropped"}
  /\ Enter(r, IF r \in bumps THEN "sendBump" ELSE "storeBump")
  /\ UNCHANGED <<db, env>>

(* gettxout shows the change; the child is signed and stored.              *)
StoreBump ==
  /\ ctl.pc = "storeBump"
  /\ \/ /\ tx[ctl.req] \in {"mempool", "confirmed"}
        /\ bumps' = bumps \cup {ctl.req}
        /\ Goto("sendBump")
     \/ Return /\ UNCHANGED bumps
  /\ UNCHANGED <<status, signed, input, reserved, row, env>>

SendBump ==
  /\ ctl.pc = "sendBump"
  /\ \/ /\ tx[ctl.req] \in {"mempool", "confirmed"}
        /\ children' = children \cup {ctl.req}
     \/ UNCHANGED children
  /\ Return
  /\ UNCHANGED <<db, expired, tx, transfer>>

-----------------------------------------------------------------------------
(* External: the clock, Bitcoin, the wallet and the operators. *)

TimeUp(r) ==
  /\ status[r] # "NONE" /\ r \notin expired
  /\ expired' = expired \cup {r}
  /\ UNCHANGED <<db, tx, children, transfer, ctl>>

Confirm(r) ==
  /\ tx[r] = "mempool"
  /\ tx' = [tx EXCEPT ![r] = "confirmed"]
  /\ UNCHANGED <<db, expired, children, transfer, ctl>>

Evict(r) ==
  /\ tx[r] = "mempool"
  /\ tx' = [tx EXCEPT ![r] = "dropped"]
  /\ UNCHANGED <<db, expired, children, transfer, ctl>>

(* The operators act on confirmations that no reorganisation undoes.       *)
Reorg(r) ==
  /\ tx[r] = "confirmed" /\ transfer[r] \notin {"tweaked", "completed"}
  /\ tx' = [tx EXCEPT ![r] = "mempool"]
  /\ UNCHANGED <<db, expired, children, transfer, ctl>>

(* The wallet has the connector transaction from the response on, and does *)
(* not know whether the request has expired.                               *)
WalletSubmits(r) ==
  /\ status[r] # "NONE" /\ transfer[r] = "none"
  /\ transfer' = [transfer EXCEPT ![r] = "initiated"]
  /\ UNCHANGED <<db, expired, tx, children, ctl>>

OperatorsLock(r) ==
  /\ transfer[r] = "initiated"
  /\ transfer' = [transfer EXCEPT ![r] = "locked"]
  /\ UNCHANGED <<db, expired, tx, children, ctl>>

TransferReturns(r) ==
  /\ transfer[r] = "initiated"
  /\ transfer' = [transfer EXCEPT ![r] = "returned"]
  /\ UNCHANGED <<db, expired, tx, children, ctl>>

OperatorsTweak(r) ==
  /\ transfer[r] = "locked" /\ tx[r] = "confirmed"
  /\ transfer' = [transfer EXCEPT ![r] = "tweaked"]
  /\ UNCHANGED <<db, expired, tx, children, ctl>>

Crash ==
  /\ ctl # Idle
  /\ Return
  /\ UNCHANGED <<db, env>>

-----------------------------------------------------------------------------
Next ==
  \/ \E r \in Requests :
       \/ \E o \in Outpoints : Request(r, o)
       \/ BeginAdvance(r) \/ BeginExpiry(r) \/ BeginBump(r)
       \/ TimeUp(r) \/ Confirm(r) \/ Evict(r) \/ Reorg(r)
       \/ WalletSubmits(r) \/ OperatorsLock(r) \/ TransferReturns(r) \/ OperatorsTweak(r)
  \/ CheckTransferExists \/ MarkExpired
  \/ Verify \/ Sign \/ Observe \/ Broadcast \/ MarkBroadcast
  \/ MarkConfirmed \/ Claim \/ MarkSucceeded
  \/ StoreBump \/ SendBump
  \/ Crash

Spec == Init /\ [][Next]_vars

-----------------------------------------------------------------------------
(* Properties *)

(* No two transactions that the SSP has given away spend the same output:  *)
(* not two signed exits, and not an exit and the fee bump of another,      *)
(* over crashes, reorganisations, evictions and expiries                   *)
(* (coop_exit_inputs, update_coop_exit).                                   *)
PayoutsNeverConflict ==
  \A r, s \in signed :
    /\ r # s => input[r] # input[s]
    /\ s \in children => input[r] # Change(s)

(* A payout that the SSP has signed is covered: the wallet's leaves are    *)
(* locked for it or already the SSP's, whatever happened since             *)
(* verify_coop_exit looked.                                                *)
PayoutIsCovered == \A r \in signed : transfer[r] \in {"locked", "tweaked", "completed"}

(* SUCCEEDED is true: the payout is on chain to stay, the SSP has the      *)
(* leaves, and the transfers row says so (advance, update_coop_exit).      *)
SucceededIsRecovered ==
  \A r \in Requests : status[r] = "SUCCEEDED" =>
    tx[r] = "confirmed" /\ transfer[r] = "completed" /\ row[r] = "COMPLETED"

(* Only a signature that the database has can reach the network: a restart *)
(* can always find a payout that may be in somebody's mempool.             *)
BroadcastIsDurable == \A r \in Requests : tx[r] # "unsent" => r \in signed

(* A coin is freed by expiry only if the wallet has not submitted its      *)
(* transfer (the loop's check of transfer_exists).                         *)
ExpiryFreesOnlyUnsubmitted ==
  [][\A r \in Requests :
       status[r] # "EXPIRED" /\ status'[r] = "EXPIRED" => transfer[r] = "none"]_vars
=============================================================================
