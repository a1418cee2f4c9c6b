------------------------------ MODULE Webhooks ------------------------------
(***************************************************************************)
(* webhooks.rs: subscriptions of wallets, the event captured when a        *)
(* request finishes, and the worker that delivers events with retries.     *)
(* A delivery is a pair <<request, hook>>.  The rows of webhook_deliveries *)
(* that are not delivered are kept in the order of next_attempt:           *)
(* never-tried ones (fresh, next_attempt = 0), due again (retry), and those *)
(* whose backoff still runs (waiting).                                     *)
(***************************************************************************)
EXTENDS Integers, FiniteSets, SequencesExt

CONSTANTS
  Requests,   \* requests of the wallets
  Hooks,      \* the subscriptions that wallets register
  Owner,      \* wallet identity of each request and hook
  Types,      \* request kinds each hook subscribes to
  Kind,       \* kind of each request
  HookLimit,  \* subscriptions a wallet can have (10 in the code)
  Batch       \* deliveries a pass takes (20 in the code)

ASSUME WebhooksAssumption == IsFiniteSet(Requests) /\ IsFiniteSet(Hooks) /\ Batch \in Nat

VARIABLES
  status,     \* request_history.request_status: "none", "open", "finished"
  hooks,      \* wallet_webhooks
  events,     \* requests with a row in webhook_events
  fresh, retry, waiting,  \* undelivered rows of webhook_deliveries
  delivered,  \* delivered rows of webhook_deliveries
  batch,      \* deliveries that the worker still holds (memory)
  replied,    \* outcome of its last POST: "none", "ok", "failed"
  posted,     \* deliveries that an endpoint has received
  old         \* of each hook registered so far: the requests finished before

hookVars == <<hooks, events, fresh, retry, waiting, delivered, batch, replied, posted, old>>
rowVars  == <<hooks, events, fresh, retry, waiting, delivered, old>>

Matches(r, h) == Owner[r] = Owner[h] /\ Kind[r] \in Types[h]
Finished      == {r \in Requests : status[r] = "finished"}
Queue         == fresh \o retry

HooksInit ==
  /\ hooks = {} /\ events = {}
  /\ fresh = <<>> /\ retry = <<>> /\ waiting = {} /\ delivered = {}
  /\ batch = <<>> /\ replied = "none"
  /\ posted = {} /\ old = <<>>

(* The members of a sequence that are not in T, in their order.            *)
Without(s, T) ==
  LET kept[i \in 0..Len(s)] == IF i = 0 THEN <<>>
                               ELSE IF s[i] \in T THEN kept[i - 1]
                               ELSE Append(kept[i - 1], s[i])
  IN  kept[Len(s)]

(* f with v for x, whether or not it had a value.                          *)
Put(f, x, v) == [y \in DOMAIN f \cup {x} |-> IF y = x THEN v ELSE f[y]]

(* capture: one event for each request that has finished and has none, and *)
(* a delivery for each subscription that its owner has now.                *)
Captured == {d \in (Finished \ events) \X hooks : Matches(d[1], d[2])}

Capture ==
  /\ events' = events \cup Finished
  /\ fresh' = fresh \o SetToSeq(Captured)

(* Mutant: the new subscription is there when the backlog is captured.     *)
RegisterThenCapture(h) ==
  /\ h \notin DOMAIN old
  /\ hooks' = hooks \cup {h}
  /\ old' = Put(old, h, Finished)
  /\ UNCHANGED <<status, events, fresh, retry, waiting, delivered, batch, replied, posted>>

(* register_webhook: what has finished so far is captured first, so it is  *)
(* not sent to the new subscription.                                       *)
Register(h) ==
  /\ h \notin DOMAIN old
  /\ Cardinality({g \in hooks : Owner[g] = Owner[h]}) < HookLimit
  /\ Capture
  /\ hooks' = hooks \cup {h}
  /\ old' = Put(old, h, Finished)
  /\ UNCHANGED <<status, retry, waiting, delivered, batch, replied, posted>>

(* delete_webhook: the deliveries go with the subscription, the events     *)
(* stay; a pass that has it in its batch still posts.                      *)
Delete(h) ==
  LET rows == Requests \X {h} IN
  /\ h \in hooks
  /\ hooks' = hooks \ {h}
  /\ fresh' = Without(fresh, rows) /\ retry' = Without(retry, rows)
  /\ waiting' = waiting \ rows /\ delivered' = delivered \ rows
  /\ UNCHANGED <<status, events, batch, replied, posted, old>>

(* deliver_webhooks: capture, and the first due rows by next_attempt.      *)
BeginPass ==
  /\ batch = <<>>
  /\ Capture
  /\ batch' = SubSeq(fresh' \o retry, 1, Min({Batch, Len(fresh' \o retry)}))
  /\ UNCHANGED <<status, hooks, retry, waiting, delivered, replied, posted, old>>

(* One POST.  A reply that is lost counts as a failure.                    *)
Post(reached, ok) ==
  /\ batch # <<>> /\ replied = "none"
  /\ ok => reached
  /\ posted' = IF reached THEN posted \cup {Head(batch)} ELSE posted
  /\ replied' = IF ok THEN "ok" ELSE "failed"
  /\ UNCHANGED <<status, rowVars, batch>>

(* Mutant: a failed delivery keeps its next_attempt.                       *)
RecordPostNoBackoff ==
  LET d == Head(batch) IN
  /\ batch # <<>> /\ replied # "none"
  /\ batch' = Tail(batch) /\ replied' = "none"
  /\ fresh' = IF replied = "ok" THEN Without(fresh, {d}) ELSE fresh
  /\ retry' = IF replied = "ok" THEN Without(retry, {d}) ELSE retry
  /\ delivered' = IF replied = "ok" THEN delivered \cup {d} ELSE delivered
  /\ UNCHANGED <<status, hooks, events, waiting, posted, old>>

(* The UPDATE after it: delivered, or due again after the backoff.  There  *)
(* is no row to update if the hook was deleted.                            *)
RecordPost ==
  LET d == Head(batch)
      row == d \in Range(Queue)
  IN
  /\ batch # <<>> /\ replied # "none"
  /\ batch' = Tail(batch) /\ replied' = "none"
  /\ fresh' = Without(fresh, {d}) /\ retry' = Without(retry, {d})
  /\ delivered' = IF row /\ replied = "ok" THEN delivered \cup {d} ELSE delivered
  /\ waiting' = IF row /\ replied = "failed" THEN waiting \cup {d} ELSE waiting
  /\ UNCHANGED <<status, hooks, events, posted, old>>

(* The backoff of a delivery ends.                                         *)
Wake(d) ==
  /\ d \in waiting
  /\ waiting' = waiting \ {d} /\ retry' = Append(retry, d)
  /\ UNCHANGED <<status, hooks, events, fresh, delivered, batch, replied, posted, old>>

(* The process dies, or the UPDATE fails: the rest of the batch is left to *)
(* the next pass.                                                          *)
DropBatch ==
  /\ batch # <<>>
  /\ batch' = <<>> /\ replied' = "none"
  /\ UNCHANGED <<status, rowVars, posted>>
=============================================================================
