----------------------------- MODULE ExitFunds ------------------------------
(***************************************************************************)
(* The amounts of cooperative withdrawals (coop_exit.rs): the quoted fees, *)
(* what a wallet's leaves pay for, the coin that funds the payout, its     *)
(* change, and the fee bump, in satoshis and virtual bytes.                *)
(*                                                                         *)
(* One wallet withdraws again and again.  The steps of one withdrawal and  *)
(* their failures are in module CoopExit; here a step is what they amount  *)
(* to once they are done.                                                  *)
(***************************************************************************)
EXTENDS Naturals, Sequences, FiniteSets, FiniteSetsExt, Functions

CONSTANTS
  LeafIds,     \* leaf ids that the operators can assign: 1 .. a bound
  Opening,     \* the wallet's leaves at first: the value of each id
  Treasury,    \* the SSP's coins at first: value and script of each
  Addresses,   \* scripts that the wallet may withdraw to
  Estimates,   \* answers of estimatesmartfee, in satoshis per 1000 vB
  Speeds,      \* exit_speed
  BumpRates,   \* fee_rate and
  Budgets,     \*   max_fee_sats of the admin's bump_fee
  UserFee,     \* COOP_EXIT_FEE_SATS
  MaxLeaves,   \* MAX_LEAVES
  QuoteLimit,  \* stored quotes of a wallet (20)
  ExitLimit    \* bound: withdrawals

VARIABLES
  leaves,     \* operators: the wallet's available leaves, with their values
  minted,     \* operators: number of leaf ids in use
  quotes,     \* coop_exit_quotes, oldest first
  exits,      \* coop_exits, in the order of their requests
  bump,       \* coop_exit_bumps: rate and fee of each exit's child, or none
  coins,      \* Bitcoin: the SSP's confirmed outputs that are not reserved
  collected   \* value of the leaves that the SSP has recovered

vars == <<leaves, minted, quotes, exits, bump, coins, collected>>

CONNECTOR_SATS == 330

(* External: the bytes of a script, and the least value of an output that  *)
(* nodes relay (minimal_non_dust).                                         *)
Script == [p2wpkh |-> [len |-> 22, dust |-> 294],
           p2tr   |-> [len |-> 34, dust |-> 330],
           p2pkh  |-> [len |-> 25, dust |-> 546]]

NoBump == [rate |-> 0, fee |-> 0]

(* What is assumed of the constants.                                       *)
Assumptions ==
  /\ IsFiniteSet(LeafIds) /\ LeafIds \subseteq Nat
  /\ DOMAIN Opening \subseteq LeafIds /\ \A l \in DOMAIN Opening : Opening[l] \in Nat
  /\ IsFiniteSet(DOMAIN Treasury) /\ DOMAIN Treasury \cap ((Nat \ {0}) \X {1, 2}) = {}
  /\ \A c \in DOMAIN Treasury : Treasury[c] \in [value : Nat, script : DOMAIN Script]
  /\ Addresses \subseteq DOMAIN Script /\ Estimates \subseteq Nat /\ UserFee \in Nat

Init ==
  /\ leaves = Opening /\ minted = Cardinality(DOMAIN Opening)
  /\ quotes = <<>> /\ exits = <<>> /\ bump = <<>>
  /\ coins = Treasury
  /\ collected = 0

Total(ids) == SumFunctionOnSet(leaves, ids)
Worth(c)   == SumFunction([p \in DOMAIN c |-> c[p].value])

(* f with v for x, and f on S only.                                        *)
Put(f, x, v)  == [y \in DOMAIN f \cup {x} |-> IF y = x THEN v ELSE f[y]]
Without(f, S) == [y \in DOMAIN f \ S |-> f[y]]

-----------------------------------------------------------------------------
(* quote *)

(* div_ceil(1000).max(1)                                                   *)
Rate(estimate) == Max({1, (estimate + 999) \div 1000})

(* An upper bound of the signed exit: one input, payout, connector funding *)
(* and change.                                                             *)
QuotedVbytes(address) == 11 + 69 + 2 * 43 + 8 + 1 + Script[address].len

(* quote and save_coop_quote: the latest quotes of the wallet are kept.    *)
Quote(address, estimate) ==
  LET q == [address |-> address, estimate |-> estimate, user_fee |-> UserFee,
            fees |-> [s \in Speeds |-> QuotedVbytes(address) * Rate(estimate[s])]]
      all == Append(quotes, q)
  IN
  /\ quotes' = IF Len(all) > QuoteLimit THEN Tail(all) ELSE all
  /\ UNCHANGED <<leaves, minted, exits, bump, coins, collected>>

QuoteExpires ==
  /\ quotes # <<>>
  /\ quotes' = Tail(quotes)
  /\ UNCHANGED <<leaves, minted, exits, bump, coins, collected>>

-----------------------------------------------------------------------------
(* request *)

Pending(x) == x.status \in {"INITIATED", "TX_BROADCASTED"}
Count(x)   == Cardinality(x.ids) + Cardinality(x.feeIds)

(* validate_ids, of ids that are already known to differ.                  *)
validate_ids(ids) == ids # {} /\ Cardinality(ids) <= MaxLeaves

(* The leaves are the wallet's and available, and none of them is empty.   *)
coop_exit_leaves(ids) == ids \subseteq DOMAIN leaves /\ \A l \in ids : leaves[l] > 0

(* The second validate_ids of withdrawal_amount, over both lists.          *)
ValidTogether(ids, feeIds) == ids \cap feeIds = {} /\ validate_ids(ids \cup feeIds)

(* withdrawal_amount: the leaves less the fees (withdraw_all), or the      *)
(* leaves with the fees in leaves of their own.  Empty on an error.        *)
withdrawal_amount(q, speed, ids, feeIds) ==
  LET fees == q.user_fee + q.fees[speed] IN
  IF feeIds = {} THEN {p \in {Total(ids) - fees} : fees <= Total(ids)}
  ELSE {p \in {Total(ids)} :
          /\ validate_ids(feeIds) /\ coop_exit_leaves(feeIds) /\ Total(feeIds) = fees
          /\ ValidTogether(ids, feeIds)}

Intermediate(n) == CONNECTOR_SATS * (n + 1)

(* Mutant: change is not provided for.                                     *)
NeededWithoutChange(payout, fee, n) == payout + fee + Intermediate(n)

(* The least value of the coin: its change has to be an output as well.    *)
Needed(payout, fee, n) == payout + fee + Intermediate(n) + CONNECTOR_SATS

(* The first candidate: of the coins that suffice, one of least value.     *)
Candidates(needed) ==
  LET enough == {c \in DOMAIN coins : coins[c].value >= needed} IN
  {c \in enough : \A d \in enough : coins[c].value <= coins[d].value}

(* request: the values of the leaves are read again, the fees are those of *)
(* the quote.  The coin is reserved.                                       *)
Request(q, speed, ids, feeIds) ==
  /\ Len(exits) < ExitLimit
  /\ \A e \in DOMAIN exits : ~Pending(exits[e])
  /\ validate_ids(ids) /\ coop_exit_leaves(ids)
  /\ \E payout \in withdrawal_amount(q, speed, ids, feeIds) :
     LET n == Cardinality(ids) + Cardinality(feeIds) IN
     /\ payout >= Script[q.address].dust
     /\ \E c \in Candidates(Needed(payout, q.fees[speed], n)) :
        /\ exits' = Append(exits,
             [status |-> "INITIATED", ids |-> ids, feeIds |-> feeIds,
              total |-> Total(ids) + Total(feeIds),
              address |-> q.address, estimate |-> q.estimate[speed],
              payout |-> payout, fee |-> q.fees[speed], user_fee |-> q.user_fee,
              coin |-> c, input |-> coins[c], given |-> 0])
        /\ coins' = Without(coins, {c})
  /\ bump' = Append(bump, NoBump)
  /\ UNCHANGED <<leaves, minted, quotes, collected>>

(* Output 2 of the exit transaction.                                       *)
ChangeOf(x) == x.input.value - x.payout - Intermediate(Count(x)) - x.fee

-----------------------------------------------------------------------------
(* advance, the loop, bump_fee *)

(* Mutant: the leaves of the transfer are only counted.                    *)
MatchesCount(x, sent) == Cardinality(sent) = Count(x)

(* validate_coop_exit_transfer: the value, the number and every leaf.      *)
Matches(x, sent) ==
  /\ Total(sent) = x.total /\ Cardinality(sent) = Count(x)
  /\ x.ids \cup x.feeIds \subseteq sent

(* The wallet's transfer is locked for the payout, which is broadcast.     *)
Broadcast(e, sent) ==
  /\ exits[e].status = "INITIATED"
  /\ Matches(exits[e], sent)
  /\ exits' = [exits EXCEPT ![e].status = "TX_BROADCASTED", ![e].given = Total(sent)]
  /\ leaves' = Without(leaves, sent)
  /\ UNCHANGED <<minted, quotes, bump, coins, collected>>

Expire(e) ==
  /\ exits[e].status = "INITIATED"
  /\ exits' = [exits EXCEPT ![e].status = "EXPIRED"]
  /\ coins' = Put(coins, exits[e].coin, exits[e].input)
  /\ UNCHANGED <<leaves, minted, quotes, bump, collected>>

(* External: the virtual size of a signed transaction with one input.      *)
SignedVsize(script, outputs) ==
  (4 * (51 + outputs) + (IF script = "p2wpkh" THEN 110 ELSE 68) + 3) \div 4
ExitVsize(x) == SignedVsize(x.input.script, 2 * 43 + 9 + Script[x.address].len)

(* Mutant: the child is measured before it is signed.                      *)
ChildVbytesUnsigned == 51 + 43

(* The unsigned child and the upper bound of its witness.                  *)
ChildVbytes == 51 + 43 + 28

(* cpfp_transaction: the package reaches the rate, and so does the child.  *)
BumpFee(x, rate) ==
  LET package == rate * (ExitVsize(x) + ChildVbytes) IN
  Max({IF package > x.fee THEN package - x.fee ELSE 0, rate * ChildVbytes})

(* bump_fee of a withdrawal that has no child yet: within the budget, and  *)
(* with change that is left.  A stored child is only sent again, at its   *)
(* own rate and for a budget that covers its fee: no state changes.        *)
Bump(e, rate, max_fee) ==
  LET x == exits[e]
      fee == BumpFee(x, rate)
  IN
  /\ x.status = "TX_BROADCASTED" /\ bump[e] = NoBump
  /\ rate \in 1..10000
  /\ fee <= max_fee /\ ChangeOf(x) >= fee + Script["p2tr"].dust
  /\ bump' = [bump EXCEPT ![e] = [rate |-> rate, fee |-> fee]]
  /\ UNCHANGED <<leaves, minted, quotes, exits, coins, collected>>

(* The payout is confirmed with its child, the leaves are claimed and the  *)
(* reservations end: connector funding and change are the SSP's coins.     *)
Recover(e) ==
  LET x == exits[e] IN
  /\ x.status = "TX_BROADCASTED"
  /\ exits' = [exits EXCEPT ![e].status = "SUCCEEDED"]
  /\ collected' = collected + x.given
  /\ coins' = Put(Put(coins, <<e, 1>>, [value |-> Intermediate(Count(x)), script |-> "p2tr"]),
                  <<e, 2>>, [value |-> ChangeOf(x) - bump[e].fee, script |-> "p2tr"])
  /\ UNCHANGED <<leaves, minted, quotes, bump>>

(* External: the wallet splits a leaf, to have the fees in one of its own. *)
SplitLeaf(l, v) ==
  /\ {minted + 1, minted + 2} \subseteq LeafIds
  /\ l \in DOMAIN leaves /\ v \in 1..(leaves[l] - 1)
  /\ leaves' = Put(Put(Without(leaves, {l}), minted + 1, v), minted + 2, leaves[l] - v)
  /\ minted' = minted + 2
  /\ UNCHANGED <<quotes, exits, bump, coins, collected>>

(* The wallet splits off the fees of a quote that it holds.                *)
FeesOf == {quotes[i].user_fee + quotes[i].fees[s] : i \in DOMAIN quotes, s \in Speeds}

Next ==
  \/ \E a \in Addresses, f \in [Speeds -> Estimates] : Quote(a, f)
  \/ QuoteExpires
  \/ \E i \in DOMAIN quotes, s \in Speeds, ids, feeIds \in SUBSET LeafIds :
       Request(quotes[i], s, ids, feeIds)
  \/ \E e \in DOMAIN exits :
       \/ \E sent \in SUBSET DOMAIN leaves : Broadcast(e, sent)
       \/ Expire(e) \/ Recover(e)
       \/ \E rate \in BumpRates, budget \in Budgets : Bump(e, rate, budget)
  \/ \E l \in DOMAIN leaves, v \in FeesOf : SplitLeaf(l, v)

Spec == Init /\ [][Next]_vars

-----------------------------------------------------------------------------
(* Properties *)

With(status) == {e \in DOMAIN exits : exits[e].status = status}
Open == {e \in DOMAIN exits : Pending(exits[e])}

(* Every completed withdrawal earns the SSP exactly its user fee, less the *)
(* bump that its operator ordered: over quotes that have aged, leaves that *)
(* were split meanwhile, transfers of other leaves and reused change, its  *)
(* coins and recovered leaves account for every satoshi                    *)
(* (withdrawal_amount, request, validate_coop_exit_transfer).              *)
FundsAreConserved ==
  Worth(coins) + collected
    + SumFunction([e \in Open |-> exits[e].input.value])
    + SumFunction([e \in With("SUCCEEDED") |-> bump[e].fee])
  = Worth(Treasury) + SumFunction([e \in With("SUCCEEDED") |-> exits[e].user_fee])

(* No output of a payout, or of its fee bump, is below the dust limit of   *)
(* its script: nodes would not relay the transaction, and the coin would   *)
(* stay reserved (the coin's least value, the checks of cpfp_transaction). *)
OutputsRelay ==
  \A e \in DOMAIN exits :
    /\ exits[e].payout >= Script[exits[e].address].dust
    /\ ChangeOf(exits[e]) - bump[e].fee >= Script["p2tr"].dust

(* A payout pays the estimate that it was quoted for, whichever coin it    *)
(* spends, and a payout with its child the rate of the bump: the sizes     *)
(* that the fees were computed from bound those of the signed              *)
(* transactions.                                                           *)
FeesReachRate ==
  \A e \in DOMAIN exits :
    LET x == exits[e] IN
    /\ x.fee * 1000 >= x.estimate * ExitVsize(x)
    /\ bump[e] # NoBump =>
         x.fee + bump[e].fee >= bump[e].rate * (ExitVsize(x) + SignedVsize("p2tr", 43))
=============================================================================
