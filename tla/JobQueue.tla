------------------------------ MODULE JobQueue ------------------------------
(***************************************************************************)
(* The background job queue (backend/src/services/job-queue): jobs that    *)
(* passes of drain() run one after the other, retries with back-off, and   *)
(* the dead-letter queue.                                                  *)
(*                                                                         *)
(* start() calls drain() at every tick of an interval timer and does not   *)
(* wait for it, so passes overlap; a pass gives way to the others where it *)
(* awaits a handler.  Names, payloads, texts, events and log lines are     *)
(* left out: every job has a handler, as enqueue asks for one and none is  *)
(* ever taken away.  Times are relative to the present.                    *)
(***************************************************************************)
EXTENDS Integers, FiniteSets, FiniteSetsExt, Functions

CONSTANTS
    MaxJobs,        \* bound: jobs that are enqueued
    Passes,         \* bound: passes of drain() and processNext() that overlap
    PassSizes,      \* maxJobs of a pass; MaxJobs stands for infinity, 1 for processNext
    MaxAttempts, InitialDelay, Multiplier, MaxDelay, Jitter,    \* RetryPolicy
    MaxAge,         \* bound: ticks a pass may take
    MaxRequeues     \* bound: dead letters that are requeued

ASSUME QueueAssumption ==
    /\ MaxJobs \in Nat /\ MaxAge \in Nat /\ MaxRequeues \in Nat
    /\ PassSizes \subseteq Nat
    /\ MaxAttempts \in Nat \ {0}
    /\ InitialDelay \in Nat /\ MaxDelay \in Nat /\ Multiplier \in Nat \ {0}
    /\ Jitter \in BOOLEAN

VARIABLES
    jobs,           \* the map of jobs, in the order of its keys
    deadLetters,    \* number of entries of each job in the dead-letter queue
    metrics,        \* totalCompleted, totalFailedAttempts, totalDeadLettered
    passes,         \* the passes under way
    requeued,       \* history: dead letters that were requeued
    thrown          \* history: the sink threw

vars == <<jobs, deadLetters, metrics, passes, requeued, thrown>>

Past  == -MaxAge    \* due for every pass under way; also of a nextAttemptAt that is null
NoJob == 0
JobState == {"pending", "processing", "completed", "dead"}
Job  == [state: JobState, attempts: Nat, next: Past..MaxDelay]
Idle == [on |-> FALSE, age |-> 0, left |-> 0, seen |-> {}, job |-> NoJob]

Init ==
    /\ jobs = << >>
    /\ deadLetters = << >>
    /\ metrics = [completed |-> 0, failed |-> 0, dead |-> 0]
    /\ passes = [d \in Passes |-> Idle]
    /\ requeued = 0
    /\ thrown = FALSE

\* The sequence s with v at index i, which may be the next one.
At(s, i, v) == [k \in DOMAIN s \cup {i} |-> IF k = i THEN v ELSE s[k]]

\* computeBackoffDelayMs; with jitter any delay up to the capped one.
Capped(attempt) == Min({InitialDelay * Multiplier ^ (attempt - 1), MaxDelay})
Backoff(attempt) ==
    {delay \in 0..MaxDelay : IF Jitter THEN delay <= Capped(attempt) ELSE delay = Capped(attempt)}

-----------------------------------------------------------------------------
(* Callers of the queue *)

Enqueue ==
    LET i == Cardinality(DOMAIN jobs) + 1
    IN  /\ i <= MaxJobs                                         \* bound
        /\ jobs' = At(jobs, i, [state |-> "pending", attempts |-> 0, next |-> Past])
        /\ deadLetters' = At(deadLetters, i, 0)
        /\ UNCHANGED <<metrics, passes, requeued, thrown>>

\* Mutant: the entry of a requeued job stays in the dead-letter queue.
MutEntriesLeft(n) == n
EntriesLeft(n) == n - 1

RequeueDeadLetter(j) ==
    /\ requeued < MaxRequeues                                   \* bound
    /\ deadLetters[j] > 0
    /\ requeued' = requeued + 1
    /\ deadLetters' = [deadLetters EXCEPT ![j] = EntriesLeft(@)]
    /\ jobs' = [jobs EXCEPT ![j] = [state |-> "pending", attempts |-> 0, next |-> Past]]
    /\ UNCHANGED <<metrics, passes, thrown>>

-----------------------------------------------------------------------------
(* A pass *)

\* Mutant: a job that another pass awaits is taken too.
MutTaken(pass) ==
    {j \in DOMAIN jobs : /\ jobs[j].state \in {"pending", "processing"}
                         /\ j \notin pass.seen
                         /\ jobs[j].next <= -pass.age}

\* What nextEligible chooses the first of; now is when the pass began.
Eligible(pass) ==
    {j \in DOMAIN jobs : /\ jobs[j].state = "pending"
                         /\ j \notin pass.seen
                         /\ jobs[j].next <= -pass.age}

Begun(job) == [job EXCEPT !.state = "processing", !.attempts = @ + 1]

\* onEvent throws, and the pass ends.
Throws(d) ==
    /\ thrown' = TRUE
    /\ passes' = [passes EXCEPT ![d] = Idle]

\* The loop of drain, up to its next await.  A sink that throws at job.started ends it.
Advance(d, pass) ==
    \/ /\ pass.left = 0 \/ Eligible(pass) = {}
       /\ passes' = [passes EXCEPT ![d] = Idle]
       /\ UNCHANGED <<jobs, deadLetters, metrics, requeued, thrown>>
    \/ \E j \in Eligible(pass) :
          /\ pass.left > 0
          /\ \A k \in Eligible(pass) : j <= k
          /\ jobs' = [jobs EXCEPT ![j] = Begun(@)]
          /\ \/ /\ passes' = [passes EXCEPT ![d] =
                                  [pass EXCEPT !.left = @ - 1, !.seen = @ \cup {j}, !.job = j]]
                /\ UNCHANGED thrown
             \/ Throws(d)
          /\ UNCHANGED <<deadLetters, metrics, requeued>>

StartPass(d, size) ==
    /\ ~passes[d].on
    /\ Advance(d, [Idle EXCEPT !.on = TRUE, !.left = size])

ContinuePass(d) ==
    /\ passes[d].on /\ passes[d].job = NoJob
    /\ Advance(d, passes[d])

\* The pass comes back from runAttempt, or ends as the sink throws.
Returned(d, threw) ==
    \/ passes' = [passes EXCEPT ![d].job = NoJob] /\ thrown' = (thrown \/ threw)
    \/ Throws(d)

Resolved(job) == [job EXCEPT !.state = "completed", !.next = Past]

HandlerResolves(d) ==
    LET j == passes[d].job
    IN  /\ j # NoJob
        /\ jobs' = [jobs EXCEPT ![j] = Resolved(@)]
        /\ metrics' = [metrics EXCEPT !.completed = @ + 1]
        /\ passes' = [passes EXCEPT ![d].job = NoJob]
        /\ UNCHANGED <<deadLetters, requeued, thrown>>

\* Mutant: one attempt beyond the budget.
MutCanRetry(attempts) == attempts <= MaxAttempts

CanRetry(attempts) == attempts < MaxAttempts

\* Mutant: a job with attempts left gets its time, and is still processing.
MutRetried(job, delay, age) == [job EXCEPT !.next = delay - age]

\* The delay counts from the beginning of the pass.
Retried(job, delay, age) == [job EXCEPT !.state = "pending", !.next = delay - age]

Buried(n) == n + 1

\* The catch block for a failure of job, which is jobs[j] as the try block left it.
Fails(d, j, job, completed) ==
    \/ /\ Throws(d)                     \* at job.failed
       /\ jobs' = [jobs EXCEPT ![j] = job]
       /\ metrics' = [metrics EXCEPT !.completed = @ + completed, !.failed = @ + 1]
       /\ UNCHANGED <<deadLetters, requeued>>
    \/ /\ CanRetry(job.attempts)
       /\ \E delay \in Backoff(job.attempts) :
             jobs' = [jobs EXCEPT ![j] = Retried(job, delay, passes[d].age)]
       /\ metrics' = [metrics EXCEPT !.completed = @ + completed, !.failed = @ + 1]
       /\ Returned(d, completed = 1)
       /\ UNCHANGED <<deadLetters, requeued>>
    \/ /\ ~CanRetry(job.attempts)
       /\ jobs' = [jobs EXCEPT ![j] = [job EXCEPT !.state = "dead", !.next = Past]]
       /\ deadLetters' = [deadLetters EXCEPT ![j] = Buried(@)]
       /\ metrics' = [metrics EXCEPT !.completed = @ + completed, !.failed = @ + 1,
                                     !.dead = @ + 1]
       /\ Returned(d, completed = 1)
       /\ UNCHANGED requeued

HandlerRejects(d) ==
    LET j == passes[d].job
    IN  j # NoJob /\ Fails(d, j, jobs[j], 0)

\* The event job.completed is emitted in the try block: a sink that throws there sends a
\* completed job into the catch block.
SinkRejects(d) ==
    LET j == passes[d].job
    IN  j # NoJob /\ Fails(d, j, Resolved(jobs[j]), 1)

Tick ==
    /\ \A d \in Passes : passes[d].on => passes[d].age < MaxAge     \* bound
    /\ passes' = [d \in Passes |-> IF passes[d].on THEN [passes[d] EXCEPT !.age = @ + 1]
                                   ELSE passes[d]]
    /\ jobs' = [j \in DOMAIN jobs |-> [jobs[j] EXCEPT !.next = Max({Past, @ - 1})]]
    /\ UNCHANGED <<deadLetters, metrics, requeued, thrown>>

Next ==
    \/ Enqueue
    \/ \E j \in DOMAIN jobs : RequeueDeadLetter(j)
    \/ \E d \in Passes :
          \/ \E size \in PassSizes : StartPass(d, size)
          \/ ContinuePass(d)
          \/ HandlerResolves(d)
          \/ HandlerRejects(d)
          \/ SinkRejects(d)
    \/ Tick

Spec == Init /\ [][Next]_vars

\* The interval timer ticks, handlers answer and time passes.
Fairness ==
    /\ WF_vars(Tick)
    /\ \A d \in Passes :
          /\ WF_vars(\E size \in PassSizes : StartPass(d, size))
          /\ WF_vars(ContinuePass(d))
          /\ WF_vars(HandlerResolves(d) \/ HandlerRejects(d))

FairSpec == Spec /\ Fairness

-----------------------------------------------------------------------------
(* Correctness *)

TypeOK ==
    /\ DOMAIN jobs = 1..Cardinality(DOMAIN jobs)
    /\ jobs \in [DOMAIN jobs -> Job]
    /\ deadLetters \in [DOMAIN jobs -> Nat]
    /\ metrics \in [completed: Nat, failed: Nat, dead: Nat]
    /\ requeued \in Nat /\ thrown \in BOOLEAN
    /\ passes \in [Passes -> [on: BOOLEAN, age: 0..MaxAge, left: Nat,
                              seen: SUBSET DOMAIN jobs, job: {NoJob} \cup DOMAIN jobs]]

\* However passes overlap, a job is never run twice at a time, what is run is processing,
\* and unless the sink threw, no job is left processing that nobody runs.
ProcessingIsRun ==
    /\ \A d, e \in Passes : passes[d].job = passes[e].job => d = e \/ passes[d].job = NoJob
    /\ \A d \in Passes : passes[d].job # NoJob => jobs[passes[d].job].state = "processing"
    /\ \A j \in DOMAIN jobs :
          jobs[j].state = "processing" => thrown \/ \E d \in Passes : passes[d].job = j

\* No silent loss and no early end: a job is dead exactly if the dead-letter queue has one entry
\* for it, and only if it was given all its attempts, requeued and interrupted or not.
DeadIsListed ==
    \A j \in DOMAIN jobs :
        /\ deadLetters[j] = IF jobs[j].state = "dead" THEN 1 ELSE 0
        /\ jobs[j].attempts <= MaxAttempts
        /\ jobs[j].state = "dead" => jobs[j].attempts = MaxAttempts

\* The attempts of a job that failed since it was enqueued, or requeued, the last time.
FailedAttempts ==
    [j \in DOMAIN jobs |->
        jobs[j].attempts - (IF jobs[j].state \in {"processing", "completed"} THEN 1 ELSE 0)]

\* Every attempt is accounted for once, whichever passes overlap on a job and however often it
\* is requeued: what metrics() counts as completed, failed and dead-lettered is what the jobs
\* went through.  A sink that throws breaks the account.
AttemptsAccounted ==
    \/ thrown
    \/ /\ metrics.completed = Cardinality({j \in DOMAIN jobs : jobs[j].state = "completed"})
       /\ metrics.dead = requeued + Cardinality({j \in DOMAIN jobs : jobs[j].state = "dead"})
       /\ metrics.failed = MaxAttempts * requeued + SumFunction(FailedAttempts)

\* Every job completes or reaches the dead-letter queue, unless the sink throws.
EveryJobSettles ==
    \A j \in 1..MaxJobs :
        (j \in DOMAIN jobs /\ jobs[j].state = "pending")
            ~> \/ j \in DOMAIN jobs /\ jobs[j].state \in {"completed", "dead"}
               \/ thrown
=============================================================================
