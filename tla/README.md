# open-ssp: a TLA+ model

open-ssp is a Spark Service Provider: it receives and sends Lightning payments
for Spark wallets through an LDK node, pays cooperative withdrawals from a
Bitcoin Core wallet, swaps and splits leaves, and credits deposits. Its state is
one SQLite database; its partners (LDK, the Spark operators, Bitcoin Core, the
wallets) answer late, twice or not at all. The question of this project is
whether money is conserved and every report is true over crashes, lost replies,
stale observations and concurrent tasks.

## Inventory

| Component | State | Operations | Interacts with | What is hard | What makes it correct |
|---|---|---|---|---|---|
| Lightning receive (`ldk.rs`, `db.rs`, `spark.rs`) | `receive_payments`, `transfers` | create invoice, claimable, swap, claim, finish, external failure, expiry sweep | LDK events and list pages, operators' preimage swap, `receive_lock` | lost swap replies, crash between swap, checkpoint and claim, several HTLCs for one hash | charge only after credit, one payer, true outcome |
| Internal payments (`internal_payments.rs`, `ldk.rs`) | `internal_payments`, `lightning_sends` | reserve, verify, swap, settle, finish | the receive of the same invoice | a local and an external payer race | exclusion; the local payer is told the truth |
| Lightning send (`ldk.rs`, `lightning_store.rs`) | `lightning_sends` | prepare, submit, look up, retry, bind, settle, refund | LDK, the sender's funding at the operators | no lock: handler, reconciler, status query and event pump share a row | no charge without payment, no refund without failure, one submission per offer |
| Cooperative withdrawals (`coop_exit.rs`) | `coop_exits`, `coop_exit_inputs`, `coop_exit_bumps` | quote, request, complete, advance, expire, bump | Bitcoin Core, operators, wallet | two ledgers, reorganisations, reservation lifetimes | payouts never conflict, are covered, and finish |
| Reconciler pass and BOLT12 receive (`ldk.rs`) | `lightning_receives`, the place in the pass | create offer, list pages, bind, record the proof, pay, refund, sweep | LDK's list and events, operators, `receive_lock` | an offer is paid several times; one error may end the pass; pages are limited | one credit per offer; every payment's turn comes |
| Static and instant deposits (`static_deposits.rs`, `instant_deposits.rs`, `db.rs`) | `deposit_claims`, `instant_claims`, their quotes | quote, claim, reserve, find, freeze, sign, broadcast, confirm | Bitcoin Core, operators, `StaticDepositService.lock` | payout before confirmation, replacement, a nonce that may sign once | payouts within deposits, exposure within its limit, one outpoint per nonce, every payout recovered |
| Leaf splitting and leaf swap (`spark.rs`, `db.rs`, `graphql.rs`) | `spark_split_operations`, `spark_pending_split_keys`, `spark_leaf_key_overrides`, the LEAVES_SWAP request | plan, draft, prepare, submit, finalize, pay, fill a swap, claim its primary, mark it succeeded | operators, `liquidity_lock`, `run_swap_history` | random keys, crash at each checkpoint, leaves that return | no key is lost, no value is left aside, asked payouts are answered |
| Webhooks (`webhooks.rs`) | `wallet_webhooks`, `webhook_events`, `webhook_deliveries` | register, delete, capture, deliver, back off | wallets' endpoints | endpoints that never answer, crash between POST and UPDATE | at-least-once delivery of what was subscribed |
| Sessions, receive quotes, history (`auth.rs`, `quotes.rs`, `history.rs`, `graphql.rs`) | challenges, sessions, `receive_quotes`, `receive_quote_uses`, `requests` | challenge, verify, quote, create a receive, page | concurrent wallets | two calls pass the same check; rows inserted between pages | single use; complete pages |
| LDK client, configuration, files, process start, end-to-end harness | none | encode, parse, wire together | | | not modelled: no protocol state of their own |

## Modules

| Module | What it is |
|---|---|
| `LightningReceive` | the settlement of one BOLT11 invoice: external HTLCs, the local payer, the swap, the claim, the sweep |
| `InvoiceCredit` | what the SSP promises about one invoice; `LightningReceive` implements it |
| `LightningSend` | one outgoing payment, BOLT11 or BOLT12, worked on by unlocked tasks |
| `CoopExit` | cooperative withdrawals that compete for the SSP's coins |
| `ExitFunds` | the amounts of withdrawals: quoted fees, payout, coin, change, fee bump |
| `Withdrawals` | `CoopExit` next to `ExitFunds`, with the properties of the amounts |
| `Reconciler` | a pass over LDK's payment list, next to the event pump: BOLT12 receives, refunds, the sweep |
| `Deposits` | fixed and instant claims of static deposits |
| `SplitPlanner` | the planners of leaf splits as functions of the leaves |
| `LeafLiquidity` | payouts from leaves, interrupted splits, leaf swaps (extends `SplitPlanner`) |
| `Webhooks` | subscriptions, events and the delivery worker |
| `WalletApi` | challenges, sessions, quotes, receive requests and history, composed with `Webhooks` |
| `MC...` | model values, symmetry, the fault budget, the fairness and the liveness properties |
| `LightningReceiveProofs`, `LightningSendProofs`, `CoopExitProofs`, `ReconcilerProofs`, `DepositsProofs`, `LeafLiquidityProofs`, `WalletApiProofs` | inductive invariants and the theorems; `CoopExitProofs` also those of `ExitFunds` |
| `DataTheorems` | lemmas about least elements and sums, which the proofs share |

Definitions whose comment begins with "Mutant" are plausible bugs of the
definition that follows them. No specification uses them; each is there to show
that the property it stands for notices it.

### LightningReceive

Variables are the rows (`rcv`, `transfer`, `internal`, `send`), the LDK state of
each external attempt (`htlc`), the operators' state (`swap` for the payout under
its deterministic transfer id, `funding` for the local payer's conditional
transfer) and `ctl`, the handler inside `receive_lock`. Every handler of the code
takes that lock, so `ctl` holds one handler; each of its steps is one database
statement (or transaction) or one remote call, and a call that can fail has an
error outcome that may or may not have taken effect. `Crash` empties `ctl`.

- `StoreRequest`, `SetInvoiceCreated`: RequestLightningReceive, whose second
  write is outside the lock. The invoice leaves with the response, so no payment
  comes before that write.
- `BeginReject`, `BeginReceive`: process_standard_receive up to
  mark_receive_claimable. The attempt is any that has ever been claimable: events
  and list pages are delivered late.
- `SwapRecovered`, `SwapInitiate`, `SwapAmbiguous`, `SwapInsufficient`: one
  attempt of swap_for_lightning_receive in retry_bounded; `OperatorCommit` and
  `OperatorRefuse` answer a request whenever they like, also after its caller left.
- `CommitSwap`, `ClaimHtlc`, `ClaimError`, `MarkClaimSubmitted`, `BeginFinish`,
  `CompleteReceive`: checkpoint, claim, completion.
- `FailHtlc`, `FailHtlcError`, `MarkFailed`, `FailExternal`, `SweepExpired`: the
  ways a receive fails.
- `BeginInternal` to `FinishInternal`: process_internal_send.

### LightningSend

`row` is the lightning_sends row, `work[w]` the next step of worker `w` with the
snapshot of the row it read, `call[w]` its submission on the wire. A worker can be
the request handler (`PrepareSend`), a recovery (`BeginRecover`: the reconciler, a
status query, the admin call, a repeated request) or an event or list entry
(`BeginEvent`), whose status may be old. `LdkAnswer` accepts a BOLT11 call when it
has no pending or successful payment of that hash, and any BOLT12 call.
`MarginEnds` cannot happen while a submission is in flight: that is what the route
CLTV cap (route_cltv_within_expiry) buys, and it is the one assumption about time.

### CoopExit

`Requests` compete for `Coins` and for the connector and change outputs of each
other's exit transactions. `reserved` is coop_exit_inputs. All handlers hold
CoopExitService.lock, so `ctl` is again one handler; `Request` has a single
effect at its end and is one step. Bitcoin may drop or reorganise a transaction
at any time until the operators have acted on it (`Reorg`): DEPLOY.md leaves the
number of confirmations to the operators. Values of coins are left out: any
unreserved unspent coin may be chosen.

### ExitFunds

The same withdrawals, in satoshis and virtual bytes, for one wallet that withdraws
again and again. A step is what a handler amounts to once it is done; its single
steps and failures are in `CoopExit`. `Quote`, `withdrawal_amount`, `Needed`,
`Candidates`, `ChangeOf` and `BumpFee` are the code's formulas, `SignedVsize` is
Bitcoin's own measure of a signed transaction, which the code has to estimate. The
wallet may split leaves after its quote and send any of its leaves; `Matches` is what
validate_coop_exit_transfer asks of them. A child is mined with its parent.

### Reconciler

`list` is what LDK's list_payments returns, in order, and `pass` the place of
reconcile_payments in it; `call[t]` is what the event pump or the reconciler does
with one payment, so the same payment may be handled by both, one after the other
(`receive_lock`) or, for a refund, at once. `Return` is a result or a logged error,
after which the pass goes to its next entry; `Fail` is the `?` after a refund, which
ends the pass. `EndList` has the page limit: a list with more pages ends the pass
before the sweep. Payments enter the list when they have succeeded (inbound) or
failed (outbound), because nothing happens to them before. An offer may be paid any
number of times, each time under another payment hash.

### Deposits

A claim is `<<"fixed", coin>>` or `<<"instant", coin>>`, as the two tables are
unique by outpoint. `Slot` is the address and value of a coin, by which
confirmed_instant_outpoint recognises a replacement. `point` is the outpoint in the
stored signing plan and `signed` the outpoints that the plan's nonce has been used
for; `held` is the operators' own rule that a coin is signed for one claim. `phase`
carries the status, the transfers row and the request, which save and save_instant
write in the same transaction. `ClaimFixed` to `SaveConfirmed` follow claim,
advance, instant_claim and advance_instant; `BeginAdvance` is a wallet's retry or a
turn of run or run_instant, which continue from the stored phase (`Entry`). Bitcoin
is external: deposits arrive, are replaced, double-spent, mined, reorganised and
buried; three confirmations are final ("deep"), the number that the code waits for.
`check_exposure` has both limits of the code, on one deposit and on the sum.

### SplitPlanner and LeafLiquidity

plan_just_in_time_split takes the largest leaves below `target - minimum_child` and
splits one more; plan_denomination_split matches denominations one by one and splits
for the first that has no leaf. Both return the set of their best plans, since equal
leaves are interchangeable.

`ctl` is the handler inside `liquidity_lock`, at first the recovery at startup. A
split goes DRAFT, PREPARED, SUBMITTING, SUBMITTED, COMPLETED, one action for each
checkpoint, and a handler may end between any two. The children's key is `pending`
(by parent) until `BindKeys` moves it to `override` (by child), while `nodekey` is
what the operators have; a leaf that returns in a swap is under the derived key, 0.
An exact payout or a swap recovers, plans and pays; a refund (refund_bolt12_send)
pays at once, without the recovery. A swap's primary is claimed by the task that
fill_swap started or, after it, by run_swap_history. The snapshot of splits and
leaves that recover_incomplete_splits takes is read anew at each `Recover` step: a
draft whose parent returns during the recovery is resumed where the code leaves it
to the next call.

### Webhooks and WalletApi

Undelivered rows of webhook_deliveries are kept in the order in which the worker's
query takes them: `fresh` (next_attempt 0), `retry` (due again) and, out of reach,
`waiting`. `Capture` is the pair of INSERT ... SELECT statements that a registration
and a pass begin with. A pass holds its `batch` in memory, so a subscription may be
deleted under it; POST and UPDATE are two steps.

In `WalletApi` several handlers run at once and every database call is a step:
consume_challenge before the signature is verified, the validation of a quote before
LDK is asked for the invoice, and store_request, which enforces the single use.
created_at is taken when the handler starts, so rows appear in the history out of
order of their stamps; a stamp stands for the pair (created_at, id), by which
request_history orders. The paging wallet (`reader`) remembers what was there at its
first page, and its cursor is good for its own records only.

## Runs

Invariants and liveness are checked together, under a bounded number of faults
(`MaxFaults`); the runs marked (v) state what a document or comment says and show
that the code does otherwise.

| Run | Instance | Result |
|---|---|---|
| `receive` | 3 attempts (2 exact, 1 of a wrong amount) and the local payer, 2 tries per swap, 2 faults; 135,879 states | invariants, the refinement `KeepsPromise`, and: held HTLCs are released, claimed ones complete, reserved local payments settle |
| `receive_sweep` (v) | 2 attempts | finding 1 |
| `receive_definitive` (v) | 2 attempts | finding 2 |
| `send` | 2 workers, both kinds, 3 faults; 62,774 states | no charge, refund or submission too many; paid sends are collected, failed offers refunded, BOLT11 intents resolve |
| `send_retry` (v) | 2 workers | finding 3 |
| `coop_exit` | protocol: 2 requests, 1 coin, 2 faults. Amounts: 2 withdrawals, 2 leaves and 1 split, 3 coins, 2 scripts, 2 fee estimates, 1 speed, bumps at 2 rates. 133,828 states | payouts do not conflict and are covered; signed payouts complete, transfers locked in time are paid, unused coins are freed; the SSP's funds change by user fees and bumps only, outputs relay, fees reach their rates |
| `coop_exit_expiry` (v) | 2 requests, 1 coin | finding 4 |
| `reconciler` | 2 payments of one offer, 1 that is too small, 1 refund, 1 invoice, pages of 1, 3 pages, 1 fault; 498,795 states | an offer is credited once, with its proof; paid offers are credited and expired invoices swept |
| `deposits` | 2 coins of one address and value, limit of 1 credit, 2 faults; 81,068 states | payouts within deposits, exposure within the limit, one outpoint per nonce; payouts are recovered |
| `deposit_confirmations` (v) | the same | finding 5 |
| `liquidity` | a leaf of 12, payouts of 5 and 3, a refund of 5, a swap of 5 for 2 and 3, 2 splits per attempt, 2 faults; 41,749 states | keys durable, all value available to a payout, one split per exact payout; asked payouts are answered, recorded swaps succeed |
| `wallet` | 1 wallet, 2 challenges, 1 quote, 3 receives, 2 handlers, 1 live and 1 dead webhook, batches of 1, 2 faults; 142,411 states | one session per challenge, distinct payout ids, complete history, deliveries as subscribed and in the end |

Bounds. Three attempts are an accepted, a competing and a wrong-amount HTLC, next to
which stands the local payer. Two tries are the least in which an ambiguous attempt
precedes a definitive one; the code makes five. Two workers are a slow one and one
that overtakes it; the proofs cover any number. One coin forces withdrawals to reuse
what another has freed; the amounts of a withdrawal are a scene of their own, since
`CoopExit` and `ExitFunds` share no state. Their values are at the edges: a leaf that is
exactly a dust payout and its fees, a coin that is exactly enough, one that would
leave too little change; the second withdrawal can spend the change of the first.
Faults are counted because with unboundedly many nothing could be promised; two allow
a fault during the recovery from the first. Three pages of one payment are exceeded by
the four payments of `reconciler`. Two coins in one slot are a deposit and its
replacement, or two deposits that compete for the limit; being one wallet's, they are
also kept apart by the index on its pending claims, and that the limit alone suffices
for wallets that differ is what `ExposureIsBounded` proves. `wallet` has one wallet;
its theorems are about any set of them. Twelve leaf ids are more than
the splits of `liquidity` can use up, and its amounts need a split, a split of a
split, and a leaf that returns. In `wallet` a batch of one lets a dead endpoint stand
before a live one; access and webhooks are two scenes, chosen at the start, that share
only the receives. Deadlock is not checked: a system with nothing left to do may rest.

Fairness. The loops (run_reconciler each 30 s, CoopExitService::run each 5 s, run and
run_instant of the deposits, run_swap_history, webhooks::run) come back to every
payment or record, and the tokio mutex is fair, so an entry that is enabled again and
again is eventually served: strong fairness of those passes. A task inside a handler
goes on (weak fairness). Partners answer in the end, clocks run and miners mine.
Nothing obliges a wallet or a payer, with one exception: a leaf payout that has been
asked for is asked for again until it is made, which for a swap is the wallet's retry.
Nothing keeps an HTLC or a funding transfer from expiring; `LocalSendSettles`,
`PaidIsCollected` and `IntentResolves` therefore assume that the funding does not run
out.

What the liveness properties leave out, each named in its MC module:

- `OutOfReach`, `Barred`, `TooLong` (`reconciler`): what stands after a refund that
  is always refused, or after the last page of a pass.
- `Stranded` (`deposits`): the deposit was double-spent, the frozen outpoint was
  reorganised away or is another claim's, or a fixed claim's recovery left the chain
  after its row was closed. The documentation leaves these to the operator.
- `Stuck` (`liquidity`): a refund, which runs no recovery, has spent the parent of a
  prepared split. From then on the recovery fails, the one at startup too.

## Findings

1. `SweepFailsOnlyUnpaid`: the expiry sweep fails a bound HTLC that has no
   checkpoint, also when its swap was committed behind a lost reply. The wallet
   has been paid and the SSP collects from nobody.
2. `DefinitiveMeansNoCommit`: retry_bounded reports the last error only, so "not
   enough liquidity" after an ambiguous attempt fails the HTLC at once.
3. `RetryNeedsNoRecord`: between the lookup and the retry of a BOLT11 payment the
   original can land and fail; the retry revives it after FAILED was reported.
4. `ExpiryFreesOnlyUnsubmitted`: a transfer that reaches the operators between
   transfer_exists and the EXPIRED write is orphaned.
5. `ListedUntilThreeConfirmations`: DEPLOY.md keeps a recovery listed until three
   confirmations; the row of a fixed claim is closed at the first, and a
   reorganisation after it is noticed by nobody.

`ChargedOnlyIfPaid`, `CollectOnce` and the other safety invariants hold in spite
of 1 to 3: the loss is the SSP's (1, 2) or a wrong report (3), never a double
charge.

## Proofs

`LightningReceiveProofs` proves, for any set of attempts and any number of tries,
`Spec => []IndInv` and from it the invariants of run `receive`, `OnePayer`,
`CollectOnce` and `Spec => KeepsPromise`, the refinement of `InvoiceCredit`. `IndInv`
adds to the invariants what the handler in the lock has established at each step: the
swap steps know a payer is bound or reserved, the claim and settle steps know the
checkpoint is written, the failing steps know that nothing is claimed, and a claimed
HTLC is the bound one. Without those facts no action after the first of a handler
preserves anything. It rests on `PaymentsAssumption` and `AttemptsAssumption` only.

`LightningSendProofs` proves the invariants of run `send` for any set of workers.
Its `IndInv` says for every worker what its next write needs: one about to settle
implies that LDK succeeded, one about to refund or fail a BOLT12 send implies that
LDK failed, and at most one BOLT12 submission is anywhere between
the PREPARED compare-and-set and LDK. It needs no assumption on `Workers`.

`CoopExitProofs` proves the invariants of run `coop_exit` and `BroadcastIsDurable` for
any requests, owners and coins, from `CoinsAssumption` (coins and exit outputs are
different outpoints). `PayoutsNeverConflict` is not inductive because reservations
end: `IndInv` says that a pending request holds its coin and both its outputs, that a
signed request is never expired, that whatever spends an output of a request spends
that of a SUCCEEDED one, and that the handler in the lock works on a pending one. So a
coin with neither a reservation nor a spender is no live request's coin, which is what
`Request` needs. That SUCCEEDED stays true needs the premise of `Reorg`, that
operators tweak only on final confirmations.

The same module proves the three invariants of `ExitFunds`, for any leaves, treasury,
scripts, estimates, limits and bump rates that satisfy its `Assumptions` (finite sets,
natural values, outpoints of the treasury that no withdrawal creates). `FundsInv` says
of every withdrawal what it keeps from its request on (`Sound`: the fee of its quote, the
total that its leaves must have, change above dust, a bump that reaches its rate), that
one withdrawal is open and has taken its coin out of the free ones, and that every coin
is one of the treasury or an output of a withdrawal that is over. With it each step moves
one summand of `FundsAreConserved` into another. The arithmetic is in lemmas of its own:
`RateRoundsUp`, `SizesAreBounds` (the estimated sizes bound the signed ones for each pair
of scripts), `FeeReachesEstimate` and `BumpReachesRate`.

`ReconcilerProofs`, for any offers, payments and page limits, from `PaymentsAssumption`:
`OfferCreditedOnce` needs that a call past its bind works for the bound payment and that
its earlier checkpoints are written, since the event pump and the pass may both be in
finish_bolt12_receive for different payments of one offer.

`DepositsProofs`, for any finite set of coins, slots, credits and limits, from
`DepositsAssumption` (`ValueAssumption` is not needed). The place of the handler tells
the stored phase (`LockInv`), the phase tells what is paid, signed and sent
(`PhaseInv`). `PayoutsWithinDeposits` counts:
claims of a slot never outnumber its deposits (`CountInv`). A new claim keeps the count
because its coin is a deposit that no claim of the slot stands for: the reservation
triggers keep fixed and instant claims of a slot apart (`ApartInv`), the operators sign
a coin for one claim (`HeldInv`), and a replaced deposit frees no second one.
`ExposureWithinLimit` follows from the sum that check_exposure bounds (`BudgetInv`),
because a claim stays in that sum until its recovery is buried.

`LeafLiquidityProofs`, for any finite set of leaves and any payouts and swaps, from
`LeafLiquidityAssumption` and `MinChildAssumption`. `SplitInv` and `KeyInv` say, per
stored status of a split, what the operators have and in which table its key is;
`SwapInv` keeps the primaries of swaps apart; `PlanInv` says that the handler's own split
is the only one under way once it has recovered. `ExactSplitsOnce` has a second
induction on top, `CoverInv`: while an exact payout splits a leaf, the rest of its amount
is in other leaves that nobody else in the lock can spend, and after the split all of it
is. It rests on `ExactPlan`, what plan_just_in_time_split returns for any leaves.

`WalletApiProofs`, for any number of wallets, challenges, quotes, requests, webhooks and
concurrent handlers, from `WebhooksAssumption` and `WalletApiAssumption`. A challenge is
in the table, or with one handler, or used (`ChallengeInv`); a quote is used by one
request (`UseInv`); every delivery, in whichever queue, is one that its endpoint
subscribed to in time (`HookInv`). `HistoryIsComplete` needs that records have different
keys, those of running calls included (`StampInv`), and that what is owed to the reader
and not yet seen is below its cursor, and what it has seen above (`ReadInv`).

Each action has one step in the proof that its invariant is kept; temporal theorems
combine initiality and the step with PTL.

`DataTheorems` has the laws of the library's sums: what a sum is on the empty set, after
an element is added or removed, of equal functions, of a subset. The library defines them
by a recursion over subsets with an arbitrary choice at each step, so the laws need an
induction; the prover cannot instantiate the library's induction theorems, and the lemmas
take a least counterexample instead (`LeastNatural`, `LeastSubset`). The filter of a
sequence (`Without` in `Webhooks`) is treated in the same way.

Only model-checked: every liveness property (fairness and ENABLED are beyond the
prover) and the violated properties. That a page of the history exists (`Newest` is not
empty) is also left to TLC, being a matter of progress; likewise that the planners find a
plan where there is one. Theorems without a run are the type invariants,
`CompletedIsSettled`, `PayoutHasPayer`, `FailedIsRefunded`, `BroadcastIsDurable`,
`OnePayer` and `CollectOnce`.

## Not modelled

- Amounts and fees of Lightning payments, overflow of 64-bit amounts (all are
  checked), route CLTV values, error texts and stored proofs.
- A payer who has an invoice before RequestLightningReceive returns it: a wallet that
  reads its history between store_request and set_receive_status could hand it out,
  and that last write does not look at the status it replaces.
- The ancestor check of an unconfirmed instant deposit (`ancestorcount` 1): the model
  also quotes and claims coins that the code refuses, which only adds behaviours.
- A repeated bump_fee, which sends the stored child again or is refused.
- Tables that repeat a modelled row: the `payments` shadow table, request_updates.
- The order in which a pass recovers unresolved sends: their errors are logged, and
  each send is worked on in `LightningSend`. The `LIMIT 100` of the deposit loop.
- A BOLT12 send that crashed at SUBMITTING, which the code leaves to the operator on
  purpose; a Bitcoin conflict made by another user of the Core wallet, which
  DEPLOY.md forbids; PAYMENT_PREIMAGE_RECOVERING_FAILED, which the earlier check in
  validate_lightning_receive_swap makes unreachable.
- fill_swap validates the primary before it takes the lock. An expired primary whose
  counter exists is refused there and never reaches the lookup inside; in the model
  the operators exchange both transfers in one step, so the case does not arise.
- That the leaves of a deposit payout come from `LeafLiquidity`: `Deposits` takes
  the payout as one call that may be refused. A split that the greedy planners miss
  is refused by the code too; `LeafLiquidity` checks that a planned one suffices.
- External order and completeness that the code relies on: select_leaves_by_exact_amounts
  finds an exact selection whenever there is one (DEPLOY.md says so); the claim of a
  swap's primary rotates the operators' keys and calls retire_spark_leaf_keys in an
  order that is the SDK's, here one step; LDK lists payments in a stable order.
- Signatures, the URL policy of webhooks, GraphQL parsing and formatting, the LDK
  client's encoding, configuration, files, process start and the test harness.

## Plan

Done: every module is checked, and every safety invariant that a run checks is a
theorem. Next, in this order:

1. `SplitPlanner`: that plan_denomination_split, repeated, ends with a leaf for each
   denomination of a swap, as `ExactSplitsOnce` says of exact payouts.
2. An abstract specification of a withdrawal (requested, signed, paid, recovered or
   expired), and `CoopExit` shown to implement it.
3. The composition of `Deposits` with `LeafLiquidity`.
