----------------------------- MODULE PayoutEngine -----------------------------
(***************************************************************************)
(* The payout engine of backend/src/services/payouts/payout-engine.ts, its *)
(* retry worker (retry-worker.ts) and the operators who drive it through   *)
(* backend/src/routes/payouts.ts.                                          *)
(*                                                                         *)
(* The engine is one object in one Node process: code between two awaits   *)
(* runs alone, so an action is what one caller does from one await to the  *)
(* next.  The only await that hands the engine to others is the call to    *)
(* the settlement rail; evaluatePayouts also yields after every schedule.  *)
(* Nothing is persisted, so a crash loses the whole state and is not       *)
(* modelled.  Ids, messages, the audit text and the events are left out.   *)
(***************************************************************************)
EXTENDS Integers, FiniteSets, Functions, Money

CONSTANTS
    Merchants,          \* merchants with a balance
    Assets,             \* allowedAssets
    Grain,              \* [Assets -> Nat \ {0}], one minor unit in finest units
    Cadences,           \* the schedule types with a period
    Period,             \* [Cadences -> Nat \ {0}], SCHEDULE_PERIOD_MS in ticks
    Threshold,          \* the schedule type without a period
    Amounts,            \* what POST /balances may set a balance to
    ThresholdAmounts,   \* thresholdAmount of a schedule
    AutoApproveLimits,  \* autoApproveLimit of a schedule
    ApprovalThreshold,  \* approvalThreshold of the engine
    MaxBatchAmount,     \* maxBatchAmount of the engine
    MaxAttempts,        \* maxAttempts of the engine
    Passes,             \* callers of retryDueBatches that may overlap
    Worker,             \* the pass of the retry worker's timer; the others are requests
    Evaluator,          \* the caller of the rail inside evaluatePayouts
    Operator,           \* the caller of the rail inside approveManualPayout
    EarlyRelease,       \* operators release batches that have attempts left
    ManualRetry,        \* operators use POST /:batchId/retry
    AmbiguousRail,      \* the rail may move the money and still report failure
    MaxBatches,         \* bound: batches ever created
    MaxTime             \* bound: the calendar clock

Callers == Passes \cup {Evaluator, Operator}
Kinds   == Cadences \cup {Threshold}

ASSUME EngineAssumption ==
    /\ Grain \in [Assets -> Nat \ {0}]
    /\ Period \in [Cadences -> Nat \ {0}]
    /\ Threshold \notin Cadences
    /\ Amounts \subseteq Nat
    /\ ThresholdAmounts \subseteq Nat \ {0}
    /\ AutoApproveLimits \subseteq Nat
    /\ ApprovalThreshold \in Nat \ {0}
    /\ MaxBatchAmount \in Nat \ {0}
    /\ MaxAttempts \in Nat \ {0}
    /\ MaxBatches \in Nat
    /\ MaxTime \in Nat
    /\ EarlyRelease \in BOOLEAN /\ ManualRetry \in BOOLEAN /\ AmbiguousRail \in BOOLEAN
    /\ Evaluator \notin Passes /\ Operator \notin Passes /\ Evaluator # Operator

VARIABLES
    now,                \* the calendar clock
    schedules,          \* the configured schedules
    pendingAmounts,     \* [Merchants -> Nat]
    lastMaterialisedAt, \* [Merchants -> Nat \cup {Never}]; a schedule's id is sch_<merchant>
    materialisedCycles, \* keys of the calendar cycles that got their batch
    batches,            \* [1..created -> Batch], the batches array
    created,            \* its length
    evaluationInFlight, \* the flag of evaluatePayouts
    evaluationTodo,     \* schedules the running evaluation still has to visit
    passTodo,           \* [Passes -> SUBSET (1..created)], what each retry pass still has to visit
    calls,              \* rail calls awaiting an answer
    moved,              \* batches whose money the rail has moved
    credited            \* history: [Merchants -> Int], what the balance owner put in

vars == <<now, schedules, pendingAmounts, lastMaterialisedAt, materialisedCycles,
          batches, created, evaluationInFlight, evaluationTodo, passTodo, calls, moved,
          credited>>

Never == -1         \* lastMaterialisedAt has no entry

\* What PUT /schedules/:merchantId accepts: only threshold schedules carry an amount.
Schedule ==
    [merchant: Merchants, kind: Cadences, asset: Assets,
     limit: AutoApproveLimits, threshold: {0}]
    \cup
    [merchant: Merchants, kind: {Threshold}, asset: Assets,
     limit: AutoApproveLimits, threshold: ThresholdAmounts]

Batch ==
    [status: {"pending", "executing", "completed", "failed"},
     merchant: Merchants, kind: Kinds, asset: Assets, amount: Nat,
     createdAt: Nat, requiresApproval: BOOLEAN, attempts: Nat,
     approvals: Nat,            \* 'approved' entries of the audit trail
     rejected: BOOLEAN,         \* rejectedBy is set
     fundsReleased: BOOLEAN,
     nextAttempt: {"none", "waiting", "due"}]   \* nextAttemptAt: unset, ahead, elapsed

Init ==
    /\ now = 0
    /\ schedules = {}
    /\ pendingAmounts = [m \in Merchants |-> 0]
    /\ lastMaterialisedAt = [m \in Merchants |-> Never]
    /\ materialisedCycles = {}
    /\ batches = << >>
    /\ created = 0
    /\ evaluationInFlight = FALSE
    /\ evaluationTodo = {}
    /\ passTodo = [p \in Passes |-> {}]
    /\ calls = {}
    /\ moved = {}
    /\ credited = [m \in Merchants |-> 0]

-----------------------------------------------------------------------------
(* Balances and schedules *)

\* setPendingAmount: the balance is replaced, whatever was returned to it.
SetPendingAmount(m, amount) ==
    /\ pendingAmounts' = [pendingAmounts EXCEPT ![m] = amount]
    /\ credited' = [credited EXCEPT ![m] = @ + amount - pendingAmounts[m]]
    /\ UNCHANGED <<now, schedules, lastMaterialisedAt, materialisedCycles, batches,
                   created, evaluationInFlight, evaluationTodo, passTodo, calls, moved>>

ConfigureSchedule(s) ==
    /\ schedules' = {t \in schedules : t.merchant # s.merchant} \cup {s}
    /\ UNCHANGED <<now, pendingAmounts, lastMaterialisedAt, materialisedCycles, batches,
                   created, evaluationInFlight, evaluationTodo, passTodo, calls, moved,
                   credited>>

\* Mutant: the keys of the merchant's cycles go with its schedule.
MutRemoveSchedule(m) ==
    /\ \E s \in schedules : s.merchant = m
    /\ schedules' = {s \in schedules : s.merchant # m}
    /\ lastMaterialisedAt' = [lastMaterialisedAt EXCEPT ![m] = Never]
    /\ materialisedCycles' = {key \in materialisedCycles : key.merchant # m}
    /\ UNCHANGED <<now, pendingAmounts, batches, created, evaluationInFlight,
                   evaluationTodo, passTodo, calls, moved, credited>>

\* Forgets when the merchant was last paid; materialisedCycles keeps its keys.
RemoveSchedule(m) ==
    /\ \E s \in schedules : s.merchant = m
    /\ schedules' = {s \in schedules : s.merchant # m}
    /\ lastMaterialisedAt' = [lastMaterialisedAt EXCEPT ![m] = Never]
    /\ UNCHANGED <<now, pendingAmounts, materialisedCycles, batches, created,
                   evaluationInFlight, evaluationTodo, passTodo, calls, moved, credited>>

-----------------------------------------------------------------------------
(* Settlement attempts *)

\* One attempt begins: the record it leaves behind until the rail answers.
Attempted(batch) == [batch EXCEPT !.attempts = @ + 1, !.status = "executing"]

\* The audit entry of an approval.
Approved(batch) == [batch EXCEPT !.approvals = @ + 1]

Waiting(caller) == \E c \in calls : c.by = caller

\* Mutant: the last attempt is never scheduled.
MutRefused(batch) ==
    [batch EXCEPT !.status = "failed",
                  !.nextAttempt = IF batch.attempts + 1 >= MaxAttempts THEN @ ELSE "waiting"]

\* A refused attempt: a retry is scheduled while the attempt budget lasts.
Refused(batch) ==
    [batch EXCEPT !.status = "failed",
                  !.nextAttempt = IF batch.attempts >= MaxAttempts THEN @ ELSE "waiting"]

Settled(batch) == [batch EXCEPT !.status = "completed", !.nextAttempt = "none"]

\* The executor resolves with a transaction hash.
RailConfirms(c) ==
    /\ batches' = [batches EXCEPT ![c.batch] = Settled(@)]
    /\ moved' = moved \cup {c.batch}
    /\ calls' = calls \ {c}
    /\ UNCHANGED <<now, schedules, pendingAmounts, lastMaterialisedAt,
                   materialisedCycles, created, evaluationInFlight, evaluationTodo,
                   passTodo, credited>>

\* The executor rejects, or resolves without a hash: the money may have moved all the same.
RailRefuses(c) ==
    /\ batches' = [batches EXCEPT ![c.batch] = Refused(@)]
    /\ \/ moved' = moved
       \/ AmbiguousRail /\ moved' = moved \cup {c.batch}
    /\ calls' = calls \ {c}
    /\ UNCHANGED <<now, schedules, pendingAmounts, lastMaterialisedAt,
                   materialisedCycles, created, evaluationInFlight, evaluationTodo,
                   passTodo, credited>>

-----------------------------------------------------------------------------
(* Evaluation passes *)

IsCalendar(s) == s.kind # Threshold

\* The calendar cycle a moment falls in.
Cycle(kind, time) == time \div Period[kind]

IsScheduleDue(s) ==
    IsCalendar(s) => \/ lastMaterialisedAt[s.merchant] = Never
                     \/ now - lastMaterialisedAt[s.merchant] >= Period[s.kind]

IsTriggerMet(s) ==
    /\ pendingAmounts[s.merchant] > 0
    /\ ~IsCalendar(s) => pendingAmounts[s.merchant] >= s.threshold

\* cycleKeyFor of a calendar schedule, whose id is its merchant's.  The keys of threshold
\* schedules carry a fresh number and are never looked up, so they are left out.
CycleKey(s) == [merchant |-> s.merchant, kind |-> s.kind, cycle |-> Cycle(s.kind, now)]

CycleMaterialised(s) == CycleKey(s) \in materialisedCycles

RequiresApproval(s, amount) == amount > s.limit \/ amount >= ApprovalThreshold

NewBatch(s, amount) ==
    [status |-> "pending", merchant |-> s.merchant, kind |-> s.kind, asset |-> s.asset,
     amount |-> Quantize(amount, Grain[s.asset]), createdAt |-> now,
     requiresApproval |-> RequiresApproval(s, amount), attempts |-> 0, approvals |-> 0,
     rejected |-> FALSE, fundsReleased |-> FALSE, nextAttempt |-> "none"]

\* createBatch throws on an amount above the cap; evaluatePayouts goes on with the rest.
Materialises(s) ==
    /\ IsScheduleDue(s)
    /\ IsTriggerMet(s)
    /\ IsCalendar(s) => ~CycleMaterialised(s)
    /\ pendingAmounts[s.merchant] <= MaxBatchAmount

\* materialiseBatch up to the rail: reserve the balance, push the batch, and settle it
\* at once unless it awaits approval.
CreateBatch(s) ==
    LET batch == NewBatch(s, pendingAmounts[s.merchant])
        id    == created + 1
    IN  /\ created < MaxBatches        \* bound
        /\ created' = id
        /\ batches' = [b \in 1..id |-> IF b # id THEN batches[b]
                                       ELSE IF batch.requiresApproval THEN batch
                                       ELSE Attempted(batch)]
        /\ calls' = IF batch.requiresApproval THEN calls
                    ELSE calls \cup {[batch |-> id, by |-> Evaluator]}
        /\ pendingAmounts' = [pendingAmounts EXCEPT ![s.merchant] = 0]
        /\ lastMaterialisedAt' = [lastMaterialisedAt EXCEPT ![s.merchant] = now]
        /\ materialisedCycles' = materialisedCycles
                                    \cup (IF IsCalendar(s) THEN {CycleKey(s)} ELSE {})

\* One turn of the loop of evaluatePayouts; the array it walks was taken at the start.
Visit(s, todo) ==
    /\ s \in todo
    /\ evaluationTodo' = todo \ {s}
    /\ \/ Materialises(s) /\ CreateBatch(s)
       \/ ~Materialises(s) /\ UNCHANGED <<created, batches, calls, pendingAmounts,
                                          lastMaterialisedAt, materialisedCycles>>

StartEvaluation ==
    /\ ~evaluationInFlight
    /\ created + Cardinality(schedules) <= MaxBatches   \* a pass never ends at the bound
    /\ evaluationInFlight' = TRUE
    /\ \E s \in schedules : Visit(s, schedules)
    /\ UNCHANGED <<now, schedules, passTodo, moved, credited>>

ContinueEvaluation ==
    /\ evaluationInFlight /\ ~Waiting(Evaluator)
    /\ \E s \in evaluationTodo : Visit(s, evaluationTodo)
    /\ UNCHANGED <<now, schedules, evaluationInFlight, passTodo, moved, credited>>

\* Mutant: the flag is not reset in a finally block, so a failed batch leaves it set.
MutEvaluationOver ==
    evaluationTodo = {} /\ \A b \in 1..created : batches[b].status # "failed"
EvaluationOver == evaluationTodo = {}

FinishEvaluation ==
    /\ evaluationInFlight /\ ~Waiting(Evaluator)
    /\ EvaluationOver
    /\ evaluationInFlight' = FALSE
    /\ UNCHANGED <<now, schedules, pendingAmounts, lastMaterialisedAt,
                   materialisedCycles, batches, created, evaluationTodo, passTodo,
                   calls, moved, credited>>

-----------------------------------------------------------------------------
(* Retry passes *)

\* Mutant: the budget counts one attempt too many.
MutDueForRetry(batch) ==
    /\ batch.status = "failed"
    /\ ~batch.rejected
    /\ batch.attempts + 1 < MaxAttempts
    /\ batch.nextAttempt = "due"

DueForRetry(batch) ==
    /\ batch.status = "failed"
    /\ ~batch.rejected
    /\ batch.attempts < MaxAttempts
    /\ batch.nextAttempt = "due"

\* A failed batch on its way back to pending.
Unscheduled(batch) == [batch EXCEPT !.nextAttempt = "none"]
Requeued(batch) == [Unscheduled(batch) EXCEPT !.status = "pending"]

\* Mutant: the worker settles whatever failed.
MutSettledByPass(batch) == TRUE

\* A retry pass settles what never owed a review; the rest goes back to the queue.
SettledByPass(batch) == ~batch.requiresApproval

\* Where the loop of retryDueBatches, over the batches it filtered when it began, next
\* awaits or throws: transition refuses a batch that is not failed any more.
Stops(due) == {b \in due : batches[b].status # "failed" \/ SettledByPass(batches[b])}
FirstStop(due, stop) == stop \in Stops(due) /\ \A other \in Stops(due) : stop <= other

\* The batches on the way there go back to the review queue, the stop becomes batch.
BatchesUpTo(due, stop, batch) ==
    [b \in 1..created |-> IF b \in due /\ b < stop THEN Requeued(batches[b])
                          ELSE IF b = stop THEN batch
                          ELSE batches[b]]

RunToTheEnd(p, due) ==
    /\ Stops(due) = {}
    /\ batches' = [b \in 1..created |-> IF b \in due THEN Requeued(batches[b]) ELSE batches[b]]
    /\ passTodo' = [passTodo EXCEPT ![p] = {}]
    /\ UNCHANGED calls

RunToSettlement(p, due, stop) ==
    /\ FirstStop(due, stop)
    /\ batches[stop].status = "failed"
    /\ batches' = BatchesUpTo(due, stop, Attempted(Requeued(batches[stop])))
    /\ passTodo' = [passTodo EXCEPT ![p] = {b \in due : b > stop}]
    /\ calls' = calls \cup {[batch |-> stop, by |-> p]}

\* The error fields are cleared before transition throws; the pass ends.
RunToError(p, due, stop) ==
    /\ FirstStop(due, stop)
    /\ batches[stop].status # "failed"
    /\ batches' = BatchesUpTo(due, stop, Unscheduled(batches[stop]))
    /\ passTodo' = [passTodo EXCEPT ![p] = {}]
    /\ UNCHANGED calls

RunRetries(p, due) ==
    \/ RunToTheEnd(p, due)
    \/ \E stop \in due : RunToSettlement(p, due, stop)
    \/ \E stop \in due : RunToError(p, due, stop)

DueBatches == {b \in 1..created : DueForRetry(batches[b])}

\* The worker's timer or POST /retries; the worker skips a tick while its pass runs.
StartRetryPass(p) ==
    /\ passTodo[p] = {} /\ ~Waiting(p)
    /\ DueBatches # {}
    /\ RunRetries(p, DueBatches)
    /\ UNCHANGED <<now, schedules, pendingAmounts, lastMaterialisedAt,
                   materialisedCycles, created, evaluationInFlight, evaluationTodo,
                   moved, credited>>

ContinueRetryPass(p) ==
    /\ passTodo[p] # {} /\ ~Waiting(p)
    /\ RunRetries(p, passTodo[p])
    /\ UNCHANGED <<now, schedules, pendingAmounts, lastMaterialisedAt,
                   materialisedCycles, created, evaluationInFlight, evaluationTodo,
                   moved, credited>>

-----------------------------------------------------------------------------
(* Decisions of the operators *)

\* Mutant: the reservation is taken off the balance instead of added to it.
MutBalanceSign(batch) ==
    IF batch.fundsReleased THEN pendingAmounts
    ELSE [pendingAmounts EXCEPT ![batch.merchant] = @ - batch.amount]

\* Mutant: the returned amount overwrites what the merchant earned meanwhile.
MutBalanceOverwritten(batch) ==
    IF batch.fundsReleased THEN pendingAmounts
    ELSE [pendingAmounts EXCEPT ![batch.merchant] =
            Quantize(batch.amount, Grain[batch.asset])]

\* The balance after releaseFunds, which does nothing a second time.
BalanceAfterRelease(batch) ==
    IF batch.fundsReleased THEN pendingAmounts
    ELSE [pendingAmounts EXCEPT ![batch.merchant] =
            Quantize(@ + batch.amount, Grain[batch.asset])]

Released(batch) == [batch EXCEPT !.fundsReleased = TRUE]
Rejected(batch) == [batch EXCEPT !.status = "failed", !.rejected = TRUE, !.fundsReleased = TRUE]

\* What each decision asks of its batch.

\* Mutants: a failed batch is approved, an approved one again.
MutCanApproveFailed(batch) == batch.status \in {"pending", "failed"}
MutCanApprove(batch) == batch.status \in {"pending", "executing"}
CanApprove(batch) == batch.status = "pending"

\* Mutant: a batch is rejected in flight.
MutCanReject(batch) == batch.status \in {"pending", "executing"}
CanReject(batch) == batch.status = "pending"

CanRetry(batch) ==
    batch.status = "failed" /\ ~batch.rejected /\ batch.attempts < MaxAttempts

\* Mutants: a batch is released in flight, or settled.
MutCanReleaseExecuting(batch) == batch.status \in {"executing", "failed"} /\ ~batch.fundsReleased
MutCanReleaseCompleted(batch) == batch.status \in {"completed", "failed"} /\ ~batch.fundsReleased
CanRelease(batch) == batch.status = "failed" /\ ~batch.fundsReleased

ApproveManualPayout(b) ==
    /\ CanApprove(batches[b])
    /\ batches' = [batches EXCEPT ![b] = Attempted(Approved(@))]
    /\ calls' = calls \cup {[batch |-> b, by |-> Operator]}
    /\ UNCHANGED <<now, schedules, pendingAmounts, lastMaterialisedAt,
                   materialisedCycles, created, evaluationInFlight, evaluationTodo,
                   passTodo, moved, credited>>

RejectManualPayout(b) ==
    /\ CanReject(batches[b])
    /\ batches' = [batches EXCEPT ![b] = Rejected(@)]
    /\ pendingAmounts' = BalanceAfterRelease(batches[b])
    /\ UNCHANGED <<now, schedules, lastMaterialisedAt, materialisedCycles, created,
                   evaluationInFlight, evaluationTodo, passTodo, calls, moved,
                   credited>>

RetryFailedBatch(b) ==
    /\ ManualRetry
    /\ CanRetry(batches[b])
    /\ batches' = [batches EXCEPT ![b] = Requeued(@)]
    /\ UNCHANGED <<now, schedules, pendingAmounts, lastMaterialisedAt,
                   materialisedCycles, created, evaluationInFlight, evaluationTodo,
                   passTodo, calls, moved, credited>>

\* The code releases any failed batch; the documented use is an exhausted one.
ReleaseReservedFunds(b) ==
    /\ CanRelease(batches[b])
    /\ EarlyRelease \/ batches[b].attempts >= MaxAttempts
    /\ batches' = [batches EXCEPT ![b] = Released(@)]
    /\ pendingAmounts' = BalanceAfterRelease(batches[b])
    /\ UNCHANGED <<now, schedules, lastMaterialisedAt, materialisedCycles, created,
                   evaluationInFlight, evaluationTodo, passTodo, calls, moved,
                   credited>>

-----------------------------------------------------------------------------
(* Clocks *)

Tick ==
    /\ now < MaxTime
    /\ now' = now + 1
    /\ UNCHANGED <<schedules, pendingAmounts, lastMaterialisedAt, materialisedCycles,
                   batches, created, evaluationInFlight, evaluationTodo, passTodo,
                   calls, moved, credited>>

\* The retry delay of a batch, jittered and far shorter than a calendar tick, is over.
Elapsed(batch) == [batch EXCEPT !.nextAttempt = "due"]
BackoffElapses(b) ==
    /\ batches[b].nextAttempt = "waiting"
    /\ batches' = [batches EXCEPT ![b] = Elapsed(@)]
    /\ UNCHANGED <<now, schedules, pendingAmounts, lastMaterialisedAt,
                   materialisedCycles, created, evaluationInFlight, evaluationTodo,
                   passTodo, calls, moved, credited>>

Next ==
    \/ \E m \in Merchants, amount \in Amounts : SetPendingAmount(m, amount)
    \/ \E s \in Schedule : ConfigureSchedule(s)
    \/ \E m \in Merchants : RemoveSchedule(m)
    \/ StartEvaluation
    \/ ContinueEvaluation
    \/ FinishEvaluation
    \/ \E p \in Passes : StartRetryPass(p)
    \/ \E p \in Passes : ContinueRetryPass(p)
    \/ \E c \in calls : RailConfirms(c)
    \/ \E c \in calls : RailRefuses(c)
    \/ \E b \in 1..created : ApproveManualPayout(b)
    \/ \E b \in 1..created : RejectManualPayout(b)
    \/ \E b \in 1..created : RetryFailedBatch(b)
    \/ \E b \in 1..created : ReleaseReservedFunds(b)
    \/ \E b \in 1..created : BackoffElapses(b)
    \/ Tick

Spec == Init /\ [][Next]_vars

\* The event loop runs what is ready, so a pass that began goes on; the worker's timer
\* keeps firing, delays pass, and a rail that is called answers.  Nobody has to make a
\* request or a decision: no pass but the worker's has to start.
Fairness ==
    /\ WF_vars(ContinueEvaluation)
    /\ WF_vars(FinishEvaluation)
    /\ WF_vars(Worker \in Passes /\ StartRetryPass(Worker))
    /\ \A p \in Passes : WF_vars(ContinueRetryPass(p))
    /\ \A b \in 1..MaxBatches :
          /\ WF_vars(b <= created /\ BackoffElapses(b))
          /\ \A by \in Callers :
                LET c == [batch |-> b, by |-> by]
                IN  WF_vars(c \in calls /\ (RailConfirms(c) \/ RailRefuses(c)))

FairSpec == Spec /\ Fairness

-----------------------------------------------------------------------------
(* Correctness *)

TypeOK ==
    /\ now \in Nat
    /\ schedules \subseteq Schedule
    /\ pendingAmounts \in [Merchants -> Nat]
    /\ lastMaterialisedAt \in [Merchants -> Nat \cup {Never}]
    /\ materialisedCycles \subseteq [merchant: Merchants, kind: Cadences, cycle: Nat]
    /\ created \in Nat
    /\ batches \in [1..created -> Batch]
    /\ evaluationInFlight \in BOOLEAN
    /\ evaluationTodo \subseteq Schedule
    /\ passTodo \in [Passes -> SUBSET (1..created)]
    /\ calls \subseteq [batch: 1..created, by: Callers]
    /\ moved \subseteq 1..created
    /\ credited \in [Merchants -> Int]

\* An attempt holds its batch alone: a batch is executing exactly while one call to the
\* rail is out for it, whoever approves, retries or evaluates in the meantime.
OneAttemptAtATime ==
    /\ \A c \in calls : batches[c.batch].status = "executing"
    /\ \A b \in 1..created : batches[b].status = "executing" => \E c \in calls : c.batch = b
    /\ \A c, d \in calls : c.batch = d.batch => c = d

\* A batch that owes a review reaches the rail at most once per approval: neither the
\* retry worker nor a retry pass working from a stale list ever settles it unreviewed.
ReviewedBeforeRail ==
    \A b \in 1..created :
        batches[b].requiresApproval => batches[b].attempts <= batches[b].approvals

\* A failed batch that may still be retried is never stranded: unless it was rejected,
\* a retry of it is scheduled, even after a retry pass was cut short on it.
RetryableIsScheduled ==
    \A b \in 1..created :
        LET batch == batches[b]
        IN  batch.status = "failed" /\ ~batch.rejected /\ batch.attempts < MaxAttempts
                => batch.nextAttempt # "none"

\* A calendar cycle of a merchant gets one batch of a cadence, also when its schedule was
\* removed, configured again or moved to another cadence and back within the cycle: the
\* batches agree with the keys that materialisedCycles remembers of them.
OneBatchPerCycle ==
    \A b, c \in 1..created :
        /\ b # c
        /\ batches[b].merchant = batches[c].merchant
        /\ batches[b].kind = batches[c].kind
        /\ batches[b].kind \in Cadences
        => Cycle(batches[b].kind, batches[b].createdAt)
             # Cycle(batches[c].kind, batches[c].createdAt)

\* A settled batch is closed: no pass, decision or late answer changes anything of it.
CompletedIsFinal ==
    [][\A b \in 1..created : batches[b].status = "completed" => batches'[b] = batches[b]]_vars

\* The money of a batch leaves the ledger once: what was returned to the balance has not
\* been moved by the rail and is not on its way to it.
NoDoublePayment ==
    \A b \in 1..created :
        batches[b].fundsReleased => b \notin moved /\ batches[b].status = "failed"

\* The rail is asked for a batch at most maxAttempts times.
AttemptsWithinBudget == \A b \in 1..created : batches[b].attempts <= MaxAttempts

\* A rejection stands: a batch whose review rejected it stays failed.
RejectedIsFinal == \A b \in 1..created : batches[b].rejected => batches[b].status = "failed"

\* getStats: the reservations still held.
Reserved(m) ==
    {b \in 1..created : /\ batches[b].merchant = m
                        /\ batches[b].status # "completed"
                        /\ ~batches[b].fundsReleased}
Received(m) == {b \in moved : batches[b].merchant = m}

AmountOf == [b \in 1..created |-> batches[b].amount]
\* Twice the most that the roundings of a batch, at creation and at release, can add up to.
RoundingOf == [b \in 1..created |->
                 Grain[batches[b].asset] * (IF batches[b].fundsReleased THEN 2 ELSE 1)]

\* Money is neither lost nor made: what a merchant's balance, reservations and received
\* payouts add up to is what was put into the balance, up to half a minor unit for every
\* rounding of an amount.
MoneyConserved ==
    \A m \in Merchants :
        LET own   == {b \in 1..created : batches[b].merchant = m}
            drift == pendingAmounts[m] + SumFunctionOnSet(AmountOf, Reserved(m) \cup Received(m))
                       - credited[m]
            limit == SumFunctionOnSet(RoundingOf, own)
        IN  /\ Reserved(m) \cap Received(m) = {}
            /\ 2 * drift <= limit /\ -2 * drift <= limit

\* The deployment under which the engine keeps its promises about money: one caller of
\* retryDueBatches (or none), no manual retry beside it, releases only of exhausted
\* batches, and a rail whose refusal means that nothing moved.
SafeEnvironment ==
    /\ ~EarlyRelease
    /\ ~AmbiguousRail
    /\ \/ Passes = {}
       \/ ~ManualRetry /\ \A p, q \in Passes : p = q

\* The money in the engine's state: Funds!Spec is what the engine promises about it.
Disposition(b) ==
    IF b \in moved THEN "paid" ELSE IF batches[b].fundsReleased THEN "returned" ELSE "held"

PayoutView ==
    [b \in 1..MaxBatches |->
        IF b > created THEN [state |-> "none"]
        ELSE [state |-> Disposition(b), merchant |-> batches[b].merchant,
              asset |-> batches[b].asset, amount |-> batches[b].amount]]

Funds == INSTANCE PayoutFunds WITH
    Payouts <- 1..MaxBatches, available <- pendingAmounts, payout <- PayoutView

\* Balance, reservations and payouts together behave as PayoutFunds says: a payout takes
\* the whole balance and then reaches the merchant or returns, once.
ImplementsFunds == Funds!Spec

AutoApproved == {b \in 1..created : ~batches[b].requiresApproval}
AtRest == {b \in 1..created :
             \/ batches[b].status = "completed"
             \/ batches[b].status = "failed" /\ batches[b].attempts >= MaxAttempts
             \/ batches[b].rejected}

\* Every auto-approved payout comes to rest, settled, out of attempts or rejected, and
\* stays there, without anyone stepping in and whatever the rail answers.
AutoApprovedComesToRest ==
    \A b \in 1..MaxBatches : b \in AutoApproved ~> [](b \in AtRest)

\* A pass of evaluatePayouts ends, so that the flag it holds does not block the next one.
EvaluationEnds == evaluationInFlight ~> ~evaluationInFlight
=============================================================================
