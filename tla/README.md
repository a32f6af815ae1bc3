# AgenticPay: a TLA+ development of its money paths and its guards

AgenticPay is a payment platform: a Node backend that schedules payouts, billing and refunds,
Soroban and EVM contracts that hold escrows, and clients around them. This directory holds TLA+
modules of the parts whose order of events decides whether money is right, configurations that
check them with TLC on small instances, and proofs of their main properties that the TLA+ proof
system checks for every value of the constants.

Contents: the [inventory](#inventory), the [modules](#modules) and how they correspond to the
code, the [runs](#runs) with bounds and fairness, the [proofs](#proofs), the
[divergences](#where-the-code-and-its-words-differ), what is [not modelled](#what-is-not-modelled)
and the [plan](#plan).

## Inventory

### Payout engine (`src/backend/src/services/payouts`, `routes/payouts.ts`)

*State.* One object in one process, nothing persisted: a pending amount and a schedule per
merchant, the array of batches, the cycle keys already paid, the time each schedule last paid,
the flag of a running evaluation.
*Operations.* Set a balance, configure or remove a schedule, evaluate the schedules, run a retry
pass, approve, reject, retry or release a batch.
*Interactions.* An executor (the settlement rail) is awaited once per attempt; the retry worker
calls `retryDueBatches` from a timer and skips a tick while its own pass runs; the routes call
everything, `POST /retries` included, so two passes may overlap.
*Hard.* Whatever happens during the await: a list of due batches or schedules taken before it and
used after it, decisions on a batch in flight, a transition that throws in the middle of a pass,
a rail that moves the money and says it failed.
*Correct when* a payout leaves the balance once and ends paid or returned, never both; nothing is
lost or made beyond rounding; reviews and attempt budgets hold; a cycle pays once; every
auto-approved payout comes to rest.

### Project escrow (`src/contracts/src/lib.rs`)

*State.* Admin, pause switch, reentrancy latch, projects and receipts under counters.
*Operations.* Initialize, pause, create one or many projects, fund, submit, approve (with a
receipt), dispute, resolve, check the deadline. Each is a transaction; a panic undoes it.
*Hard.* Long sequences of legal calls: deposits in parts, disputes in any status, a second
`initialize`.
*Correct when* what is paid in stays in the escrow until it goes, whole, to one side.

### Multisig wallets (`src/contracts/src/lib.rs`)

*State.* Wallets with signers and a threshold, proposals with approvals and rejections.
*Hard.* Signers come and go while a proposal is open; approvals arrive late, twice, or after the
decision; thresholds and unsigned subtraction at their limits.
*Correct when* an executed proposal had a quorum of different signers, in time, and is announced
once.

### Job queue (`src/backend/src/services/job-queue`)

*State.* A map of jobs, the dead-letter queue, counters.
*Operations.* Enqueue, passes of `drain` and `processNext`, requeue a dead letter.
*Interactions.* Handlers are awaited; an event sink is called in the middle of a step and may
throw; `start` begins a pass at every tick of an interval and does not wait for the last.
*Correct when* a job runs once at a time, within its attempts, and completes or is listed dead.

### Circuit breakers

`middleware/circuit-breaker.ts` keeps a circuit per service for the Stripe, Stellar, EVM and
Soroban clients; `services/circuitBreaker.ts` is a second breaker with a sliding window that only
its registry and tests use so far. *Hard:* answers and timers of calls let through in an earlier
state arrive in a later one. *Correct when* the state and the counters agree, the trial of a
half-open circuit is bounded, and it ends.

### Refund engine (`src/backend/src/services/refund-engine.ts`, `queue/refund-queue.ts`)

*State.* Refunds with a status, an optional approval and a history; jobs of a queue of its own.
*Operations.* Evaluate a request against the policy, approve, reject, cancel, process in the
request or through a job, retry a failed refund; enqueue, cancel and run jobs.
*Interactions.* A timer starts a tick of the queue and does not wait for the last; a tick awaits
an `import()` and the payment provider; the routes act meanwhile.
*Hard.* Ticks that overlap run jobs of lists taken earlier; decisions fall between the check of a
status and its use, or into a call of the provider; an answer that is lost after the money moved.
*Correct when* a refund is sent once at a time and paid once, one under dispute only after a
person decided on it, and a closed refund stays closed.

### Idempotency middleware (`src/backend/src/middleware/idempotency.ts`)

*State.* The keys whose handler runs, and a bounded cache of responses with their expiry and the
fingerprint of the body.
*Hard.* The connection's close event removes the mark whoever set it; a response may be evicted
or expire before the client retries; handlers of one key that overlap after that.
*Correct when* a handler runs once for a key unless there is a cause one can name, and a replay
belongs to the request it answers.

### Webhook delivery (`src/backend/src/services/webhooks.ts`)

*State.* A configuration per merchant, deliveries with attempts, the dead-letter queue, the flag
of a pass under way.
*Interactions.* A timer starts a pass unless the flag is set; a pass posts to the merchant's
endpoint, one delivery after the other, with a timeout.
*Hard.* The timer ticks while a pass awaits a slow endpoint; retries by hand meet attempts in
flight; an answer may be lost; the text of an answer is stored over the event.
*Correct when* an event is delivered once, what reads as delivered is the event, and every
delivery ends.

### The rest

`PROJECT.json` lists every component, the unmodelled ones with the reason. How they hang together:
routes call services; services call providers through the service circuits and put slow work on
queues; the outbox publishes what a transaction wrote; webhooks deliver events to merchants;
relayers and indexers connect the contracts to the services. Those that keep state of their own
across awaits (billing, webhook subscriptions, outbox, relayer, MPC coordinator, reorganisation
detector, the other contracts) are in the [plan](#plan).

## Modules

| Module | Stands for |
| ------ | ---------- |
| `Money` | the rounding of `services/money.ts` |
| `PayoutFunds` | what a payout engine promises about money |
| `PayoutEngine` | the engine, its worker and its operators |
| `EscrowLedger` | what an escrow promises about money |
| `AgenticPayEscrow` | the projects of the Soroban contract |
| `MultisigWallet` | the multisig wallets of the same contract |
| `JobQueue` | the job queue |
| `ServiceCircuit` | one circuit of the middleware |
| `CircuitBreaker` | the sliding-window breaker |
| `RefundEngine` | the refund engine and its queue |
| `Idempotency` | the idempotency middleware |
| `WebhookDelivery` | outgoing webhooks |
| `MC...` | the same, instantiated for TLC |
| `...Proofs` | theorems and their proofs |

**PayoutEngine.** The variables are the fields of `PayoutEngine` under their names. Code between
two awaits runs alone, so an action is what one caller does up to its next await.
`evaluatePayouts` becomes `StartEvaluation`, one `ContinueEvaluation` per schedule visited and
`FinishEvaluation`; `evaluationTodo` is what is left of the array the loop walks. A retry pass is
`StartRetryPass` and `ContinueRetryPass`: `RunRetries` runs through the list taken at the start to
the batch where the loop next awaits (`RunToSettlement`) or where `transition` throws
(`RunToError`), or to its end. `settle` is split at its await: `Attempted` before it, and
`RailConfirms` or `RailRefuses` after it, one `calls` record per call that is out. A schedule's
calendar is `Cycle`, the merchant's last payout `lastMaterialisedAt`, and `materialisedCycles` the
map of the cycle keys that got their batch, which `CreateBatch` adds to and nothing takes from, not
`RemoveSchedule` either; a threshold schedule's keys are never looked up and are left out. Retry delays are far shorter
than a calendar tick, so a batch's `nextAttemptAt` is unset, ahead or elapsed
(`BackoffElapses`). Three constants say how the engine is used: `EarlyRelease`, `ManualRetry` and
`AmbiguousRail`; `SafeEnvironment` collects the use under which its promises about money hold.

**PayoutFunds.** A balance, and payouts that are held, then paid or returned. `PayoutEngine`
implements it under the mapping `PayoutView`: a batch is paid once the rail has moved it,
returned once its funds are released, held otherwise. Everything about attempts, schedules,
passes and approvals is stuttering there.

**AgenticPayEscrow.** The variables are the contract's storage keys. `Guarded` is the latch closed
and opened around a call, `Running` the check of the pause switch. The contract has no token transfers yet, so `books`, a history,
records under each id what the calls say is paid in, released and refunded; it is kept when an id
is used again. `initialize` has no guard in the code: `InitializedOnce` restricts it to one call. **EscrowLedger** is the promise:
accounts that are opened, filled, settled whole to one side and then left alone.

**MultisigWallet.** Approvals and rejections are sequences, as in the contract, where the length
of the list is compared with the threshold; so the loop that looks for an earlier vote matters.
The history `ledger` says independently who backed a proposal as a signer of its wallet and in
time, and how often its payment was announced.

**JobQueue.** A pass is a record: whether it is on, its age, how many jobs it may still run, the
jobs it has run, and the one whose handler it awaits. Times are relative to the present, which
keeps the state finite: `next` is when a job is due, `age` how long ago a pass began, and the code
compares a job with the time its pass began. `Throws(d)` is the event sink throwing at any of the
points where the code calls it.

**ServiceCircuit, CircuitBreaker.** One action per way a call or a request ends. In
`ServiceCircuit` a call that has answered keeps its timer, as the code never clears it, and
`TimerFires` then counts a failure of it.

**RefundEngine.** A tick of the queue is a record: the jobs of its snapshot it has not come to, the
job it runs, and where it waits (`at`): for its turn in the loop, inside
`autoProcessApprovedRefunds` between two refunds, for the `import()` of a `process_single` job, or
for the provider. `Take` is the loop body up to the next await; `AfterImport`, `AutoNext`,
`AutoEnds` and `ProviderAnswers` are what follows each. `CallProvider` is `processRefund` up to its
await, whose check of the status is `Processable`; `retryFailedRefund` sets the status to approved
and calls it in one step, so `Take` has only its own check. The policy's thresholds are constants
and an evaluated request a record of amounts, age, dispute and the outcome of a custom rule, so
that `Decision` is the code's cascade. `sent` and `lost` are histories: what the provider paid, and
for which of it the answer was lost.

**Idempotency.** A key stands for method, URL and header, a body for its fingerprint, a response
for the request whose handler gave it. `Send` is the middleware up to `next()`: `Replay` where a
live response is cached, `Enter` otherwise. `Completes` and `Fails` are the wrapped `res.json` below
and from status 500 on; `Close` is the connection's close event, which fires for every request
that came to its handler, answered or not. The cache is a function on the keys that have a response; an entry's `place` is
its rank in the order in which the `Map` keeps its keys, which eviction relies on. A key that is set
again keeps its place (`Stored`), and the keys left after a deletion move up (`Kept`).

**WebhookDelivery.** A pass is a record as in the job queue: the deliveries left of the list it
filtered at its start, the one it posts, and whether what it posts is the event. `Deliver` is
`deliverOne` up to its await, which looks at the configuration and not at the status. The field
`event` of a delivery says whether `responseBody` still holds the event. `Restart` is
`stopWebhookWorker` and `startWebhookWorker`: a pass under way goes on, and its end clears the flag
whoever set it.

## Runs

| Run | Question | Size |
| --- | -------- | ---- |
| `payout_safe` | With one worker and releases of exhausted batches only: `NoDoublePayment`, `MoneyConserved`, `RejectedIsFinal`, `OneBatchPerCycle`, and the engine implements `PayoutFunds` | 1,390,000 states |
| `payout_any` | In every use, with overlapping passes, manual retries, early releases and an ambiguous rail: `OneAttemptAtATime`, `ReviewedBeforeRail`, `RetryableIsScheduled` | 220,000 states |
| `payout_live` | Payouts come to rest and evaluations end | 47,000 states |
| `payout_early_release` | A batch is released with attempts left: violates `NoDoublePayment` | |
| `escrow_safe` | `EscrowConserved`, `ReceiptIsWholePayment`, and the contract implements `EscrowLedger` | 1,150,000 states |
| `multisig` | `PaidOnce`, `ExecutedHasQuorum`, `OpenLacksSecondApproval` while signers come and go, and the type invariant, which holds thresholds against the unsigned subtraction | 220,000 states |
| `jobs` | Two overlapping passes: `ProcessingIsRun`, `DeadIsListed`, `AttemptsAccounted`, `EveryJobSettles` | 110,000 states |
| `circuit` | `OpenMeansFailing`, `TrialsBounded`, `LeavesHalfOpen` | 21,000 states |
| `breaker` | `WindowAgrees`, `LeavesHalfOpen` | 32,000 states |
| `refunds` | Two overlapping ticks, every outcome of the policy, an ambiguous provider: `ProcessingIsCalled`, `RefundedOnce`, `DisputedIsReviewed`, `ClosedIsFinal`, `JobsSettle` | 92,000 states |
| `idempotency` | Early and late closes, expiry and eviction: `RunsAccounted`, `ReplayIsOwn`, `MarksRemoved` | 100,000 states |
| `webhooks` | Overlapping passes, lost answers, retries by hand, restarts: `AcceptedOnce`, `DeliveredHasEvent`, `DeliveredIsFinal`, `EveryDeliverySettles` | 230,000 states |

The type invariant of the multisig wallets is part of their run, as it holds thresholds against the
subtraction; every other module's `TypeOK` states the shape of its state and is a theorem where
[Proofs](#proofs) says so. Every property has a mutant: a definition of the module changed the way a slip in that code would, under which the run
fails. The mutants stand before the definitions they change.

### Bounds, and why they are enough

*Payouts.* Two batches are what a double payment and a shared list need; two attempts are the
least with both a retry and an exhausted budget; two passes are what overlapping needs. Amounts 3
and 5 lie on either side of the automatic limit 4, of which the larger also meets
`ApprovalThreshold`; XLM keeps every unit and USDC only even ones, so that 3 and 5 are halves that
round. A daily cycle lasts one tick and a weekly one two, over two ticks: so a daily cycle ends
while the weekly one goes on, and a schedule can be removed, replaced or moved to the other cadence
and back within the cycle it was paid in. A run that asks about the calendar has only the calendar
schedules and one that does not has only the threshold schedule, as they share nothing but the
balance. `StartEvaluation` asks for room for all schedules, so that no pass stops at the
bound on batches, which would look like a pass that never ends.

*Escrow.* Two projects, created alone or in one batch, as nothing relates three; budgets 0 and 2
and deposits -1, 1 and 2 give empty, partial, exact and excessive funding and a refused deposit;
one tick takes a deadline of 1 past and leaves 0 as none. Addresses are only compared, so they are
symmetric.

*Multisig.* One wallet with up to four signers among three accounts, so that an account may be
named twice and removals still leave two; one proposal, as a proposal reads its own wallet only;
timeouts 0 and 1 over two ticks. More wallets and proposals are covered by the theorems.

*Job queue.* Two jobs, two passes, two attempts, one requeued dead letter; a pass takes at most
one tick, which is enough to be older than a delay; jitter makes every delay from zero possible.

*Refunds.* Two refunds, two ticks that overlap, two attempts; up to two jobs and at most three
refunds and jobs together, which is what two jobs of one refund or one job over two refunds need;
one answer lost after the money moved. The requests to evaluate (`SomeInputs`) stand on both sides of
each threshold of the policy and meet every outcome of a custom rule.

*Idempotency.* Three requests are the least of which one runs, one overlaps it and one is replayed;
two keys and a cache of one make eviction meet a live response, and two bodies a mismatch. Instances
with four requests and one key, or four requests, two keys and one body, pass as well.

*Webhooks.* Two deliveries, so that a pass has a next one, and two passes of the worker, two
attempts, one merchant, as a delivery reads its own merchant's configuration only. At most two
troubles in all (`MaxTroubles`), a trouble being a retry by hand, a restart of the worker or an
acceptance whose answer is lost: each matters alone and in pairs. The theorems have no such bound.

*Circuits.* Three overlapping calls reach a failure threshold of three between them and still
leave answers of an earlier state outstanding; timers of two ticks against a wait of two.

### Fairness, and why the code justifies it

Only liveness uses it. In `PayoutEngine` the event loop runs a continuation that is ready
(`ContinueEvaluation`, `ContinueRetryPass`, `FinishEvaluation`), the worker's interval keeps firing
(`StartRetryPass` of the pass `Worker`, and of no other, as those are requests), delays pass (`BackoffElapses`) and a rail that is called answers, one way or
the other. No request or decision of a person is assumed. In `JobQueue` the interval timer starts
passes, time passes and a handler that was called answers; nothing is assumed about its result.
In the circuits time passes, timers fire, a request behind the middleware ends, and clients keep
calling: a circuit leaves `half_open` only through the outcome of a call, so without traffic it may
stay. In `RefundEngine` retry delays pass, the interval starts ticks, a tick that can go on does,
and a provider that was called answers; in `WebhookDelivery` delays pass, the interval starts
passes, passes go on, and every post ends, as the code aborts it after `ATTEMPT_TIMEOUT_MS`. In
`Idempotency` only this is assumed: every connection closes, as sockets do. Handlers there may
never answer. A rail or a handler that never answers holds its evaluation, pass or job for good, because
nothing in the code times them out; the liveness properties do not speak of that.

## Proofs

All are of the form: for every value of the constants under the module's named assumption.

**`PayoutEngineProofs`.** `TypeCorrect` first. `EngineInv` adds what holds in every use: an
executing batch has exactly one call out, a batch that owes a review has at most as many attempts
as approvals, and a batch has a retry scheduled only while it is failed. The last part,
`ScheduledIsFailed`, is the strengthening: without it a batch in flight or completed might be
picked up by a pass. `BatchStep` reduces every step to what it does to one batch (kept,
approved, answered, requeued, ...), so that each invariant is checked against those cases instead
of against all actions. `CompletedIsFinal` follows as an action property. Under
`SafeEnvironment`, `SafeInv` says that a batch whose money went back can never be settled again,
as it is rejected or out of attempts, and that what a pass has on its list is still due; the
latter is where a second pass or a manual retry would break it. From it follow `NoDoublePayment`,
`AttemptsWithinBudget` and `RejectedIsFinal`, and `ImplementsFundsHolds`: the initial state and
every step map to `PayoutFunds`. The module also proves what the rounding of `Money` returns:
`QuantizeWithinHalfGrain`, that it moves an amount by at most half a minor unit, and
`QuantizeExact`, that an amount the asset can hold is not moved.

Two theorems are about many batches at once. `OneBatchPerCycleHolds` holds in every environment.
It is inductive only beside `Remembered`: the key of every calendar batch is in
`materialisedCycles`. `CyclesKept` says that no step changes whose batch, of which cycle, one is,
`RememberedStep` that no step forgets a key, and `Births` that only a schedule whose key is not
remembered makes a batch.
`MoneyConservedHolds` needs sums. What was reserved or paid (`Paid`) and the limit of the drift
(`Slack`) are sums over the batches of a merchant, which the folds of the community modules define by
recursion; `Induction` and `SubsetInduction` are the induction that takes, stated about sets instead
of operators, and `SumEquation`, `SumAdded`, `SumRemoved` and `SumReplaced` what a sum does when a batch
is added, goes or changes. `MoneySteps` reduces every step to five things it can do to money: it
rests, is paid, deposited, reserved or returned; the refinement of `PayoutFunds` uses the same lemma.
The inductive invariant is `Balanced`, per merchant: the balance and what is reserved or paid differ
from what was credited by at most half a minor unit per rounding (`ReservingKeepsBalance`,
`ReturningKeepsBalance`). It rests on `SafeInv`, without which a batch could be both paid and
returned and would count twice.

**`AgenticPayEscrowProofs`.** `Steps` reduces the calls to eight kinds. `EscrowInv` relates the
escrow of a project to its books and status. Of a contract that is initialized again, when projects
are overwritten with their deposits, it gives `NeverOverpaidHolds`: under no id is more in escrow
and paid out than was ever paid in. With `InitializedOnce` nothing is lost either,
`EscrowConservedHolds`, and `Numbered` says that ids are used once and that every receipt belongs
to a project settled for good, which gives `ReceiptIsWholePayment` and `ImplementsLedgerHolds`.

**`MultisigWalletProofs`.** `WalletSteps`: thresholds never change and are always within the
number of signers, so the unsigned subtraction cannot underflow. `IInv`: the approvals of a
proposal are its timely backers, once each, and its status and announced payments follow from
their number. It needs the cardinality of the backers beside their set, since the code counts a
list and the property counts accounts. `PaidOnce`, `ExecutedHasQuorum` and
`OpenLacksSecondApproval` follow.

**`RefundEngineProofs`.** The invariant joins what a refund's status says and where the ticks
stand. `ProcessingIsCalled` is its centre: a refund is awaited by one call at most, and a refund that
reads as processing is awaited. `Settled` adds that a refund that may be called for, or was paid, has
no open approval; `PaidIsClosed` that the provider paid at most once more than answers were lost, and
where it did, the refund is closed; `HeldIsManual` that a disputed request goes to a person.
`RefundChanges`, `TickMoves` and `TickCalls` say what a step keeps that changes one refund, moves a
tick, or has a tick call the provider, and each action is reduced to them. `RefundedOnce`, `DisputedIsReviewed` and
the action property `ClosedIsFinal` follow, for any policy, inputs and number of ticks.

**`JobQueueProofs`.** `QueueInv` adds to the two invariants that a pass that is over runs nothing and
that a job that waits has an attempt left, which is what makes a death come at the last attempt and
not before. `JobChanges` and `PassLetsGo` say what a step keeps that changes one job (`Fair`) and one
pass (`Released`); every way an attempt ends is an instance of `AttemptEnds`, the sink's throws
included.

**`MiddlewareProofs`.** Both middlewares that keep state: `Idempotency` and, on variables of its
own, `ServiceCircuit`, whose definitions are named apart for this. Of the idempotency properties
none is inductive: they count requests, and a count says nothing of who has the response.
`RunsBalanced` is the account behind `RunsAccounted`: a run that was not refused with a 500 is
covered by the key's mark, by its cached response, by a mark that a close event removed or by a
response that was forgotten. `Exclusive`, that no marked key has a response, makes mark and response
one and not two. `CacheIsOwn` says that the cache holds responses of completed requests of the key,
and `OwnReplays` that a replay's response does, which is `ReplayIsOwnHolds`. Beneath these, `Ordered` gives every
entry a place of its own no greater than their number; `KeptCache`, `StoredCache` and `EvictedCache`
prove it of the operators on the cache, the last with the pigeonhole argument that eviction leaves
at most `maxEntries`, and `CacheStaysWithinLimit` is the theorem.

For the service circuit, `CircuitInv` bounds the trials by the permits given out
(`TrialsHavePermits`), which is inductive where `TrialsBounded` alone is not. `FailedSound`,
`SucceededSound` and `AllowSound` hold for any circuit that is sound, so an answer may be counted in
whatever state it arrives.

**`CircuitBreakerProofs`.** `BreakerInv` adds to the types and to `WindowAgrees` that a closed breaker
is short of its threshold, `RowIsShort`: a row that saturates there would no longer be the end of
the window. `RowAfterFailure`, `RowAfterSuccess` and `RowAfterTail` are facts about any window and
any row; `SucceededSound` and `FailedSound` hold for a breaker in any state.

**`WebhookDeliveryProofs`.** `EventAccounted` follows the event through the field that answers
overwrite: wherever it is gone, in a delivery or in a post under way, it was accepted or refused
before; that holds with restarts too. `OnePass`, which holds until the first restart, says that the flag is
set while a pass is under way, that passes do not overlap and that none holds a delivered event,
which gives both parts of `AcceptedOnce` and the action property
`DeliveredIsFinal`.

*Only model-checked:* the eight liveness properties (`AutoApprovedComesToRest`, `EvaluationEnds`,
`EveryJobSettles`, both `LeavesHalfOpen`, `JobsSettle`, `MarksRemoved`, `EveryDeliverySettles`). Their
proofs would need ENABLED of the actions under fairness, which the proof system does not reach. Also
`AttemptsAccounted` of the job queue, a sum over its jobs. Every other invariant, action property or
refinement of a passing run is a theorem.

## Where the code and its words differ

Kept as a run, with the sentence it contradicts in `PROJECT.json`: `payout_early_release`. The other
findings listed there are visible in the modules:

- A completed project may be disputed and then cancelled (`lib.rs:582`): `EscrowConserved` holds
  because the escrow is empty by then.
- A multisig wallet with threshold one does not execute a proposal its proposer has approved
  (`lib.rs:1049`): `OpenLacksSecondApproval` has the word second for it.
- A service circuit counts a failure when the timer of a call that has answered in time fires
  (`circuit-breaker.ts:254`), so enough calls to a healthy service within one timeout open it:
  `TimerFires` asks only whether the call was started.
- `rejectRefund` and `approveRefund` do not ask for the refund's status (`refund-engine.ts:563`, `513`).
  A rejection or cancellation while the provider is awaited is overwritten by its answer; a refund is
  closed for `ClosedIsFinal` once no answer is due.
- A job of the refund queue may be run after it was cancelled, or once more by each overlapping tick
  than `maxAttempts` says (`refund-queue.ts:141`), as ticks run the list they took.
- The process-sync routes complete refunds without a provider (`refunds-automated.ts:165`), and
  nothing in `src/backend/src` starts the refund queue or gives it a provider. `ProcessSync` and
  `AutoProcessSync` are these routes; the queue is modelled as its tests use it, with a provider.
- A retry of a webhook posts and signs the endpoint's own error text (`webhooks.ts:207`):
  `DeliveredHasEvent` excepts deliveries that were refused before.

Met while modelling, most of them reproducible by changing a configuration:

- `payout_safe` with `ManualRetry = TRUE` violates `RejectedIsFinal`: a manual retry and a
  rejection happen while a pass has the batch on its list, and the pass requeues it.
- `payout_safe` with `Passes = {worker, route}`, and `AttemptsWithinBudget` added to its invariants,
  violates that: two passes hold
  the same batch on their lists (`payout-engine.ts:384`).
- A removed schedule that is configured again may pay in two adjacent cycles less than a period
  apart (`payout-engine.ts:300`), where `docs/PAYOUT_RELIABILITY.md` says at most once per period.
- `escrow_safe` with `InitializedOnce = FALSE` and `MaxInits = 2` violates `EscrowConserved`,
  `ReceiptIsWholePayment` and `ImplementsLedger`: ids start over (`lib.rs:202`), and a new project
  overwrites one that still holds a deposit, which nobody can then approve or refund.
- `removeSchedule` says that it "forgets its cycle history" (`payout-engine.ts:295`). It deletes
  `lastMaterialisedAt` and keeps `materialisedCycles`, which is what holds a schedule back that is
  configured again within its cycle: were the keys deleted too, `OneBatchPerCycle` would fail.
- The transition table tested in `contracts/src/security_properties.rs` is not the contract's: the
  contract disputes from any status and cancels from any status but the two final ones.
- A sink that throws at `jobQueue.ts:299` leaves its job processing for good, and a throw at
  `jobQueue.ts:311` has a completed job counted as failed; `thrown` excepts both.
- A retry's delay counts from the beginning of the pass (`jobQueue.ts:336`), not from the failure,
  so a failure late in a long pass is retried early; no property speaks of the delay.
- The call that turns a service circuit half open takes no permit (`circuit-breaker.ts:130`), hence
  the `+ 1` in `TrialsBounded`; a response that counts no outcome keeps its permit, hence `lost`.
- The sliding-window breaker keeps the permit of an exempted failure (`circuitBreaker.ts:252`), and
  answers of calls of an earlier state may close it.
- A call of a service circuit whose timer wins is reported as failed, and its fallback runs, while
  the function goes on and may take effect (`circuit-breaker.ts:261`); what that does is up to the
  callers, which are not modelled.
- Refunds of one payment are each held against the amount paid and never summed
  (`refund-engine.ts`, `evaluateRefund`), so the model has no account of a payment.
- A webhook worker that is stopped and started while a pass is under way has two passes
  (`webhooks.ts:276`), which may post one delivery twice and undo its delivered state; nothing in
  `src/backend/src` starts it again after the stop of a shutdown, but both functions are exported. A dead-letter
  entry stays when a retry by hand succeeds; a delivery's key is compared across merchants.
- The idempotency middleware removes the mark at any close, early or of a request that was answered
  long ago (`idempotency.ts:141`), and evicts live responses (`idempotency.ts:66`): the handler then
  runs again, once for each such cause (`RunsAccounted`).
- In the multisig wallet approvals of signers that were removed since still count (`lib.rs:1138`):
  `ExecutedHasQuorum` asks that a backer was a signer when it approved. An account named twice counts twice against the threshold and votes once;
  removing a signer does not look at the rejections of open proposals again, and rejections of
  removed signers stay in the count (`lib.rs:1202`); a proposal past its timeout can still be
  rejected or cancelled; the Expired mark of a late approval is undone by its panic.

## What is not modelled

Texts, ids, events, logging, metrics for display and queries everywhere. A crash of the payout
engine, the job queue or a circuit loses their whole state, as nothing is persisted, and the
initial state is all there is to say about it. Authorization is a guard where an address is
compared and is left out where it is a signature. The token transfers of the escrow contract, its
metadata and its upgrade. The rail's own recognition of a repeated batch id is external: a refusal
may or may not have moved the money (`AmbiguousRail`), and a refund provider's lost answer likewise.
Of the refund engine: changes of its policy, `createRefundJob`, whose jobs nothing runs, notifications
and analytics. Of the webhooks: secrets and their rotation, signatures, the refusal of a duplicate key,
and the separate subscription service. Of the idempotency middleware: the validation of its header and
its statistics. Components that are not modelled at all
are listed in `PROJECT.json`.

## Plan

1. `Outbox` against a crash between claim and publish, composed with a consumer that sees events
   at least once; the webhook subscription service beside `WebhookDelivery`.
2. `RefundEngine` composed with the status of a payment, `PaymentRetry` and expiration; the abstract
   specification is captured minus refunded.
3. `EvmRelay`: nonces under parallel submissions; `ReorgDetector`.
4. The Soroban treasury and htlc and the EVM timelock, bridge and vault; the marketplace escrow
   as a second implementation of `EscrowLedger`.
5. `MpcCoordinator` with faulty nodes; subscription billing over a period.
6. Theorems for each of these as it comes; of what is modelled, only liveness is not proved.
