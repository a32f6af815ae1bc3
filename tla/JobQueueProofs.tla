--------------------------- MODULE JobQueueProofs ---------------------------
(***************************************************************************)
(* Proofs that passes of the job queue never run a job twice at a time and *)
(* that no job is lost or ends early, for any number of jobs and passes    *)
(* and every retry policy.                                                 *)
(***************************************************************************)
EXTENDS JobQueue, FiniteSetTheorems, TLAPS

Pass(S) == [on: BOOLEAN, age: 0..MaxAge, left: Nat, seen: SUBSET S, job: {NoJob} \cup S]

\* A pass that is over runs nothing.
PassesTidy == \A d \in Passes : ~passes[d].on => passes[d].job = NoJob

\* A job that waits has an attempt left.
AttemptsLeft == \A j \in DOMAIN jobs : jobs[j].state = "pending" => jobs[j].attempts < MaxAttempts

QueueInv == TypeOK /\ IsFiniteSet(DOMAIN jobs) /\ ProcessingIsRun /\ DeadIsListed /\ PassesTidy /\ AttemptsLeft

-----------------------------------------------------------------------------
(* Numbers and types *)

LEMMA MaxOfTwo ==
    ASSUME NEW a \in Int, NEW b \in Int
    PROVE  Max({a, b}) = IF a >= b THEN a ELSE b
<1> DEFINE m == IF a >= b THEN a ELSE b
<1>1. m \in {a, b} /\ \A y \in {a, b} : m >= y
  OBVIOUS
<1>2. \A x \in {a, b} : (\A y \in {a, b} : x >= y) => x = m
  OBVIOUS
<1> QED BY <1>1, <1>2 DEF Max

LEMMA JobsNumbered ==
    ASSUME TypeOK, IsFiniteSet(DOMAIN jobs)
    PROVE  /\ Cardinality(DOMAIN jobs) \in Nat
           /\ DOMAIN jobs \subseteq Nat \ {0}
           /\ Cardinality(DOMAIN jobs) + 1 \notin DOMAIN jobs
<1>1. Cardinality(DOMAIN jobs) \in Nat
  BY FS_CardinalityType
<1> QED BY <1>1 DEF TypeOK

LEMMA BegunTypes ==
    ASSUME NEW job \in Job
    PROVE  /\ Begun(job) \in Job /\ Begun(job).state = "processing"
           /\ Begun(job).attempts = job.attempts + 1
<1> DEFINE a == job.attempts + 1
<1>1. a \in Nat
  BY DEF Job
<1> HIDE DEF a
<1>2. LET w == [job EXCEPT !.state = "processing", !.attempts = a]
      IN  w \in Job /\ w.state = "processing" /\ w.attempts = a
  BY <1>1 DEF Job, JobState
<1> QED BY <1>2 DEF Begun, a

LEMMA PastTypes == Past \in Past..MaxDelay /\ Past \in Int
BY QueueAssumption DEF Past

LEMMA ResolvedTypes ==
    ASSUME NEW job \in Job
    PROVE  /\ Resolved(job) \in Job /\ Resolved(job).state = "completed"
           /\ Resolved(job).attempts = job.attempts
BY PastTypes DEF Resolved, Job, JobState

LEMMA RetriedTypes ==
    ASSUME NEW job \in Job, NEW age \in 0..MaxAge, NEW attempt, NEW delay \in Backoff(attempt)
    PROVE  /\ Retried(job, delay, age) \in Job /\ Retried(job, delay, age).state = "pending"
           /\ Retried(job, delay, age).attempts = job.attempts
<1> DEFINE next == delay - age
<1>1. delay \in 0..MaxDelay
  BY DEF Backoff
<1>2. next \in Past..MaxDelay
  BY <1>1, QueueAssumption DEF Past
<1> HIDE DEF next
<1>3. LET w == [job EXCEPT !.state = "pending", !.next = next]
      IN  w \in Job /\ w.state = "pending" /\ w.attempts = job.attempts
  BY <1>2 DEF Job, JobState
<1> QED BY <1>3 DEF Retried, next

LEMMA DeadTypes ==
    ASSUME NEW job \in Job
    PROVE  LET w == [job EXCEPT !.state = "dead", !.next = Past]
           IN  w \in Job /\ w.state = "dead" /\ w.attempts = job.attempts
BY PastTypes DEF Job, JobState

LEMMA IdleTypes == \A S : Idle \in Pass(S) /\ ~Idle.on /\ Idle.job = NoJob
BY QueueAssumption DEF Idle, Pass

LEMMA FreshTypes ==
    ASSUME NEW size \in PassSizes
    PROVE  LET pass == [Idle EXCEPT !.on = TRUE, !.left = size]
           IN  (\A S : pass \in Pass(S)) /\ pass.on /\ pass.job = NoJob
<1>1. size \in Nat
  BY QueueAssumption
<1>2. ASSUME NEW S
      PROVE  LET pass == [Idle EXCEPT !.on = TRUE, !.left = size]
             IN  pass \in Pass(S) /\ pass.on /\ pass.job = NoJob
  <2>1. Idle \in Pass(S) /\ Idle.job = NoJob
    BY IdleTypes
  <2> QED BY <1>1, <2>1 DEF Pass
<1> QED BY <1>2

-----------------------------------------------------------------------------
(* Jobs and passes, as a step changes one of each *)

\* A job that changes into one that the dead-letter queue and the budget of attempts agree with.
Fair(v, n) ==
    /\ v \in Job /\ n = (IF v.state = "dead" THEN 1 ELSE 0)
    /\ v.attempts <= MaxAttempts
    /\ v.state = "dead" => v.attempts = MaxAttempts
    /\ v.state = "pending" => v.attempts < MaxAttempts

LEMMA JobChanges ==
    ASSUME QueueInv, NEW j \in DOMAIN jobs, NEW v, NEW n, Fair(v, n),
           jobs' = [jobs EXCEPT ![j] = v], deadLetters' = [deadLetters EXCEPT ![j] = n]
    PROVE  /\ DOMAIN jobs' = DOMAIN jobs /\ DOMAIN jobs' = 1..Cardinality(DOMAIN jobs')
           /\ jobs' \in [DOMAIN jobs' -> Job] /\ deadLetters' \in [DOMAIN jobs' -> Nat]
           /\ DeadIsListed' /\ AttemptsLeft'
<1>1. jobs \in [DOMAIN jobs -> Job] /\ deadLetters \in [DOMAIN jobs -> Nat]
      /\ DOMAIN jobs = 1..Cardinality(DOMAIN jobs)
  BY DEF QueueInv, TypeOK
<1>2. n \in Nat /\ v \in Job
  BY DEF Fair
<1>3. DOMAIN jobs' = DOMAIN jobs
  OBVIOUS
<1>4. \A i \in DOMAIN jobs : /\ jobs'[i] = IF i = j THEN v ELSE jobs[i]
                             /\ deadLetters'[i] = IF i = j THEN n ELSE deadLetters[i]
  BY <1>1
<1>5. jobs' \in [DOMAIN jobs -> Job] /\ deadLetters' \in [DOMAIN jobs -> Nat]
  BY <1>1, <1>2
<1>6. ASSUME NEW i \in DOMAIN jobs
      PROVE  /\ deadLetters'[i] = IF jobs'[i].state = "dead" THEN 1 ELSE 0
             /\ jobs'[i].attempts <= MaxAttempts
             /\ jobs'[i].state = "dead" => jobs'[i].attempts = MaxAttempts
             /\ jobs'[i].state = "pending" => jobs'[i].attempts < MaxAttempts
  <2>1. CASE i = j
    BY <1>4, <2>1 DEF Fair
  <2>2. CASE i # j
    BY <1>4, <2>2 DEF QueueInv, DeadIsListed, AttemptsLeft
  <2> QED BY <2>1, <2>2
<1>7. DeadIsListed' /\ AttemptsLeft'
  BY <1>3, <1>6 DEF DeadIsListed, AttemptsLeft
<1> QED BY <1>1, <1>3, <1>5, <1>7

\* A pass that runs nothing more keeps the others' jobs theirs.
LEMMA PassLetsGo ==
    ASSUME QueueInv, NEW d \in Passes, NEW v, passes[d].job # NoJob,
           jobs' = [jobs EXCEPT ![passes[d].job] = v],
           v.state = "processing" => thrown', thrown => thrown',
           passes'[d] \in Pass(DOMAIN jobs), passes'[d].job = NoJob,
           passes' = [passes EXCEPT ![d] = passes'[d]]
    PROVE  /\ ProcessingIsRun' /\ PassesTidy'
           /\ passes' \in [Passes -> Pass(DOMAIN jobs)]
<1>1. passes \in [Passes -> Pass(DOMAIN jobs)]
  BY DEF QueueInv, TypeOK, Pass
<1>2. passes' \in [Passes -> Pass(DOMAIN jobs)] /\ \A e \in Passes \ {d} : passes'[e] = passes[e]
  BY <1>1
<1>3. PassesTidy'
  BY <1>2 DEF QueueInv, PassesTidy
<1>4. passes[d].job \in DOMAIN jobs /\ DOMAIN jobs' = DOMAIN jobs
      /\ jobs'[passes[d].job] = v
      /\ \A i \in DOMAIN jobs \ {passes[d].job} : jobs'[i] = jobs[i]
  BY <1>1 DEF Pass, QueueInv, TypeOK
<1>5. \A e, f \in Passes : passes'[e].job = passes'[f].job => e = f \/ passes'[e].job = NoJob
  BY <1>2 DEF QueueInv, ProcessingIsRun
<1>6. \A e \in Passes : passes'[e].job # NoJob => jobs'[passes'[e].job].state = "processing"
  <2> SUFFICES ASSUME NEW e \in Passes, passes'[e].job # NoJob
               PROVE  jobs'[passes'[e].job].state = "processing"
    OBVIOUS
  <2>1. e # d /\ passes'[e] = passes[e]
    BY <1>2
  <2>2. passes[e].job # passes[d].job /\ passes[e].job \in DOMAIN jobs
    BY <1>1, <2>1 DEF QueueInv, ProcessingIsRun, Pass
  <2> QED BY <1>4, <2>1, <2>2 DEF QueueInv, ProcessingIsRun
<1>7. ASSUME NEW i \in DOMAIN jobs', jobs'[i].state = "processing"
      PROVE  thrown' \/ \E e \in Passes : passes'[e].job = i
  <2>1. CASE i = passes[d].job
    BY <1>4, <1>7, <2>1
  <2>2. CASE i # passes[d].job
    <3>1. jobs[i].state = "processing" /\ i \in DOMAIN jobs
      BY <1>4, <1>7, <2>2
    <3>2. thrown \/ \E e \in Passes : passes[e].job = i
      BY <3>1 DEF QueueInv, ProcessingIsRun
    <3>3. \A e \in Passes : passes[e].job = i => passes'[e].job = i
      BY <1>2, <2>2
    <3> QED BY <3>2, <3>3
  <2> QED BY <2>1, <2>2
<1>8. ProcessingIsRun'
  BY <1>5, <1>6, <1>7 DEF ProcessingIsRun
<1> QED BY <1>2, <1>3, <1>8

\* The pass does not run the job any more, and has thrown, if the job is left processing.
Released(d, v) ==
    /\ v.state = "processing" => thrown'
    /\ thrown => thrown'
    /\ thrown' \in BOOLEAN
    /\ \/ passes' = [passes EXCEPT ![d].job = NoJob]
       \/ passes' = [passes EXCEPT ![d] = Idle]

\* What is left of a job and of its pass when runAttempt fails, throws or succeeds.
LEMMA AttemptEnds ==
    ASSUME QueueInv, NEW d \in Passes, passes[d].job # NoJob, NEW v, NEW n, Fair(v, n),
           jobs' = [jobs EXCEPT ![passes[d].job] = v],
           deadLetters' = [deadLetters EXCEPT ![passes[d].job] = n],
           Released(d, v),
           metrics' \in [completed: Nat, failed: Nat, dead: Nat], requeued' = requeued
    PROVE  QueueInv'
<1>1. passes[d] \in Pass(DOMAIN jobs) /\ passes[d].job \in DOMAIN jobs
  BY DEF QueueInv, TypeOK, Pass
<1>2. /\ DOMAIN jobs' = DOMAIN jobs /\ DOMAIN jobs' = 1..Cardinality(DOMAIN jobs')
      /\ jobs' \in [DOMAIN jobs' -> Job] /\ deadLetters' \in [DOMAIN jobs' -> Nat]
      /\ DeadIsListed' /\ AttemptsLeft'
  BY <1>1, JobChanges
<1>3. /\ passes'[d] \in Pass(DOMAIN jobs) /\ passes'[d].job = NoJob
      /\ passes' = [passes EXCEPT ![d] = passes'[d]]
  <2>1. passes \in [Passes -> Pass(DOMAIN jobs)]
    BY DEF QueueInv, TypeOK, Pass
  <2>2. CASE passes' = [passes EXCEPT ![d].job = NoJob]
    <3>1. passes'[d] = [passes[d] EXCEPT !.job = NoJob]
      BY <2>1, <2>2
    <3>2. [passes[d] EXCEPT !.job = NoJob] \in Pass(DOMAIN jobs)
          /\ [passes[d] EXCEPT !.job = NoJob].job = NoJob
      BY <1>1 DEF Pass
    <3> QED BY <2>1, <2>2, <3>1, <3>2
  <2>3. CASE passes' = [passes EXCEPT ![d] = Idle]
    BY <2>1, <2>3, IdleTypes
  <2> QED BY <2>2, <2>3 DEF Released
<1>4. ProcessingIsRun' /\ PassesTidy' /\ passes' \in [Passes -> Pass(DOMAIN jobs)]
  BY <1>3, PassLetsGo DEF Released
<1>5. TypeOK' /\ IsFiniteSet(DOMAIN jobs')
  BY <1>2, <1>4 DEF QueueInv, TypeOK, Pass, Released
<1> QED BY <1>2, <1>4, <1>5 DEF QueueInv

\* A job that a pass runs, with its attempts.
LEMMA RunJob ==
    ASSUME QueueInv, NEW d \in Passes, passes[d].job # NoJob
    PROVE  LET j == passes[d].job
           IN  /\ j \in DOMAIN jobs /\ jobs[j] \in Job /\ jobs[j].state = "processing"
               /\ jobs[j].attempts \in Nat /\ jobs[j].attempts <= MaxAttempts
               /\ deadLetters[j] = 0 /\ passes[d].age \in 0..MaxAge
BY DEF QueueInv, TypeOK, ProcessingIsRun, DeadIsListed, Job

LEMMA CountersTypes ==
    ASSUME QueueInv, NEW completed \in {0, 1}
    PROVE  /\ [metrics EXCEPT !.completed = @ + completed, !.failed = @ + 1]
                  \in [completed: Nat, failed: Nat, dead: Nat]
           /\ [metrics EXCEPT !.completed = @ + completed, !.failed = @ + 1, !.dead = @ + 1]
                  \in [completed: Nat, failed: Nat, dead: Nat]
           /\ [metrics EXCEPT !.completed = @ + 1] \in [completed: Nat, failed: Nat, dead: Nat]
<1> DEFINE c == metrics.completed + completed
           o == metrics.completed + 1
           f == metrics.failed + 1
           l == metrics.dead + 1
<1>1. c \in Nat /\ f \in Nat /\ l \in Nat /\ o \in Nat
  BY DEF QueueInv, TypeOK
<1>2. metrics \in [completed: Nat, failed: Nat, dead: Nat]
  BY DEF QueueInv, TypeOK
<1> HIDE DEF c, f, l, o
<1>3. /\ [metrics EXCEPT !.completed = c, !.failed = f] \in [completed: Nat, failed: Nat, dead: Nat]
      /\ [metrics EXCEPT !.completed = c, !.failed = f, !.dead = l]
            \in [completed: Nat, failed: Nat, dead: Nat]
      /\ [metrics EXCEPT !.completed = o] \in [completed: Nat, failed: Nat, dead: Nat]
  BY <1>1, <1>2
<1> QED BY <1>3 DEF c, f, l, o

LEMMA FailsKeeps ==
    ASSUME QueueInv, NEW d \in Passes, passes[d].job # NoJob, NEW completed \in {0, 1},
           NEW job \in Job, job.attempts = jobs[passes[d].job].attempts,
           job.state \in {"processing", "completed"},
           Fails(d, passes[d].job, job, completed)
    PROVE  QueueInv'
<1> DEFINE j == passes[d].job
<1>1. /\ j \in DOMAIN jobs /\ job.attempts \in Nat /\ job.attempts <= MaxAttempts
      /\ deadLetters[j] = 0 /\ passes[d].age \in 0..MaxAge
  BY RunJob
<1>2. MaxAttempts \in Nat
  BY QueueAssumption
<1>3. /\ thrown \in BOOLEAN
      /\ deadLetters \in [DOMAIN jobs -> Nat]
  BY DEF QueueInv, TypeOK
<1>4. CASE /\ Throws(d) /\ jobs' = [jobs EXCEPT ![j] = job]
           /\ metrics' = [metrics EXCEPT !.completed = @ + completed, !.failed = @ + 1]
           /\ UNCHANGED <<deadLetters, requeued>>
  <2>1. Fair(job, 0)
    BY <1>1 DEF Fair
  <2>2. deadLetters' = [deadLetters EXCEPT ![j] = 0]
    BY <1>1, <1>3, <1>4
  <2>3. metrics' \in [completed: Nat, failed: Nat, dead: Nat]
    BY <1>4, CountersTypes
  <2>4. thrown' = TRUE /\ passes' = [passes EXCEPT ![d] = Idle]
    BY <1>4 DEF Throws
  <2>5. Released(d, job)
    BY <1>3, <2>4 DEF Released
  <2>6. jobs' = [jobs EXCEPT ![j] = job] /\ requeued' = requeued
    BY <1>4
  <2> QED BY <2>1, <2>2, <2>3, <2>5, <2>6, AttemptEnds
<1>5. ASSUME CanRetry(job.attempts), NEW delay \in Backoff(job.attempts),
             jobs' = [jobs EXCEPT ![j] = Retried(job, delay, passes[d].age)],
             metrics' = [metrics EXCEPT !.completed = @ + completed, !.failed = @ + 1],
             Returned(d, completed = 1), UNCHANGED <<deadLetters, requeued>>
      PROVE  QueueInv'
  <2> DEFINE v == Retried(job, delay, passes[d].age)
  <2>1. v \in Job /\ v.state = "pending" /\ v.attempts = job.attempts
    BY <1>1, RetriedTypes
  <2>2. Fair(v, 0)
    BY <1>1, <1>2, <1>5, <2>1 DEF Fair, CanRetry
  <2>3. deadLetters' = [deadLetters EXCEPT ![j] = 0]
    BY <1>1, <1>3, <1>5
  <2>4. metrics' \in [completed: Nat, failed: Nat, dead: Nat]
    BY <1>5, CountersTypes
  <2>5. Released(d, v)
    BY <1>3, <1>5, <2>1 DEF Returned, Throws, Released
  <2>6. jobs' = [jobs EXCEPT ![j] = v]
    BY <1>5
  <2>7. requeued' = requeued
    BY <1>5
  <2> HIDE DEF v
  <2> QED BY <2>2, <2>3, <2>4, <2>5, <2>6, <2>7, AttemptEnds
<1>6. CASE /\ ~CanRetry(job.attempts)
           /\ jobs' = [jobs EXCEPT ![j] = [job EXCEPT !.state = "dead", !.next = Past]]
           /\ deadLetters' = [deadLetters EXCEPT ![j] = Buried(@)]
           /\ metrics' = [metrics EXCEPT !.completed = @ + completed, !.failed = @ + 1,
                                         !.dead = @ + 1]
           /\ Returned(d, completed = 1)
           /\ UNCHANGED requeued
  <2> DEFINE v == [job EXCEPT !.state = "dead", !.next = Past]
  <2>1. v \in Job /\ v.state = "dead" /\ v.attempts = job.attempts
    BY DeadTypes
  <2>2. Fair(v, 1)
    BY <1>1, <1>2, <1>6, <2>1 DEF Fair, CanRetry
  <2>3. deadLetters' = [deadLetters EXCEPT ![j] = 1]
    BY <1>1, <1>3, <1>6 DEF Buried
  <2>4. metrics' \in [completed: Nat, failed: Nat, dead: Nat]
    BY <1>6, CountersTypes
  <2>5. Released(d, v)
    BY <1>3, <1>6, <2>1 DEF Returned, Throws, Released
  <2>6. jobs' = [jobs EXCEPT ![j] = v]
    BY <1>6
  <2>7. requeued' = requeued
    BY <1>6
  <2> HIDE DEF v
  <2> QED BY <2>2, <2>3, <2>4, <2>5, <2>6, <2>7, AttemptEnds
<1> QED BY <1>4, <1>5, <1>6 DEF Fails

LEMMA HandlerKeeps ==
    ASSUME QueueInv, NEW d \in Passes, HandlerResolves(d) \/ HandlerRejects(d) \/ SinkRejects(d)
    PROVE  QueueInv'
<1> DEFINE j == passes[d].job
<1>1. j # NoJob
  BY DEF HandlerResolves, HandlerRejects, SinkRejects
<1>2. /\ j \in DOMAIN jobs /\ jobs[j] \in Job /\ jobs[j].state = "processing"
      /\ jobs[j].attempts \in Nat /\ jobs[j].attempts <= MaxAttempts /\ deadLetters[j] = 0
  BY <1>1, RunJob
<1>3. /\ Resolved(jobs[j]) \in Job /\ Resolved(jobs[j]).state = "completed"
      /\ Resolved(jobs[j]).attempts = jobs[j].attempts
  BY <1>2, ResolvedTypes
<1>4. CASE HandlerResolves(d)
  <2> DEFINE v == Resolved(jobs[j])
  <2>1. Fair(v, 0)
    BY <1>2, <1>3 DEF Fair
  <2>2. deadLetters' = [deadLetters EXCEPT ![j] = 0]
    BY <1>2, <1>4 DEF HandlerResolves, QueueInv, TypeOK
  <2>3. metrics' \in [completed: Nat, failed: Nat, dead: Nat]
    BY <1>4, CountersTypes DEF HandlerResolves
  <2>4. thrown' = thrown /\ thrown \in BOOLEAN /\ passes' = [passes EXCEPT ![d].job = NoJob]
    BY <1>4 DEF HandlerResolves, QueueInv, TypeOK
  <2>5. Released(d, v)
    BY <1>3, <2>4 DEF Released
  <2>6. jobs' = [jobs EXCEPT ![j] = v] /\ requeued' = requeued
    BY <1>4 DEF HandlerResolves
  <2> HIDE DEF v
  <2> QED BY <1>1, <2>1, <2>2, <2>3, <2>5, <2>6, AttemptEnds
<1>5. CASE HandlerRejects(d)
  BY <1>1, <1>2, <1>5, FailsKeeps DEF HandlerRejects
<1>6. CASE SinkRejects(d)
  BY <1>1, <1>3, <1>6, FailsKeeps DEF SinkRejects
<1> QED BY <1>4, <1>5, <1>6

LEMMA RequeueKeeps ==
    ASSUME QueueInv, NEW j \in DOMAIN jobs, RequeueDeadLetter(j)
    PROVE  QueueInv'
<1> DEFINE v == [state |-> "pending", attempts |-> 0, next |-> Past]
<1>1. deadLetters[j] = 1 /\ jobs[j].state = "dead"
  BY DEF RequeueDeadLetter, QueueInv, DeadIsListed
<1>2. Fair(v, 0)
  BY PastTypes, QueueAssumption DEF Fair, Job, JobState
<1>3. jobs' = [jobs EXCEPT ![j] = v] /\ deadLetters' = [deadLetters EXCEPT ![j] = 0]
  BY <1>1 DEF RequeueDeadLetter, EntriesLeft, QueueInv, TypeOK
<1>4. v.state = "pending"
  OBVIOUS
<1>5. jobs'[j] = v /\ \A i \in DOMAIN jobs \ {j} : jobs'[i] = jobs[i]
  BY <1>3
<1> HIDE DEF v
<1>6. /\ DOMAIN jobs' = DOMAIN jobs /\ DOMAIN jobs' = 1..Cardinality(DOMAIN jobs')
      /\ jobs' \in [DOMAIN jobs' -> Job] /\ deadLetters' \in [DOMAIN jobs' -> Nat]
      /\ DeadIsListed' /\ AttemptsLeft'
  BY <1>2, <1>3, JobChanges
<1>7. UNCHANGED <<metrics, passes, thrown>> /\ requeued' = requeued + 1
  BY DEF RequeueDeadLetter
<1>8. TypeOK' /\ IsFiniteSet(DOMAIN jobs') /\ PassesTidy'
  BY <1>6, <1>7 DEF QueueInv, TypeOK, PassesTidy
<1>9. \A d \in Passes : passes[d].job # NoJob => passes[d].job # j /\ passes[d].job \in DOMAIN jobs
  BY <1>1 DEF QueueInv, ProcessingIsRun, TypeOK
<1>10. ProcessingIsRun'
  BY <1>4, <1>5, <1>6, <1>7, <1>9 DEF QueueInv, ProcessingIsRun
<1> QED BY <1>6, <1>8, <1>10 DEF QueueInv

LEMMA EnqueueKeeps ==
    ASSUME QueueInv, Enqueue
    PROVE  QueueInv'
<1> DEFINE i == Cardinality(DOMAIN jobs) + 1
           v == [state |-> "pending", attempts |-> 0, next |-> Past]
<1>1. /\ i \in Nat \ {0} /\ DOMAIN jobs = 1..(i - 1) /\ i \notin DOMAIN jobs
      /\ DOMAIN jobs \subseteq Nat \ {0} /\ IsFiniteSet(DOMAIN jobs)
      /\ Cardinality(DOMAIN jobs) = i - 1
  <2> DEFINE n == Cardinality(DOMAIN jobs)
  <2>1. n \in Nat /\ DOMAIN jobs \subseteq Nat \ {0} /\ n + 1 \notin DOMAIN jobs
    BY JobsNumbered DEF QueueInv
  <2>2. DOMAIN jobs = 1..n /\ IsFiniteSet(DOMAIN jobs)
    BY DEF QueueInv, TypeOK
  <2>3. n + 1 \in Nat \ {0} /\ (n + 1) - 1 = n
    BY <2>1
  <2> HIDE DEF n
  <2> QED BY <2>1, <2>2, <2>3 DEF n
<1>2. Cardinality(DOMAIN jobs \cup {i}) = i /\ IsFiniteSet(DOMAIN jobs \cup {i})
  BY <1>1, FS_AddElement
<1>3. /\ jobs' = [k \in DOMAIN jobs \cup {i} |-> IF k = i THEN v ELSE jobs[k]]
      /\ deadLetters' = [k \in DOMAIN deadLetters \cup {i} |-> IF k = i THEN 0 ELSE deadLetters[k]]
      /\ UNCHANGED <<metrics, passes, requeued, thrown>>
  BY DEF Enqueue, At
<1>4. v \in Job /\ v.state = "pending" /\ v.attempts = 0
  BY PastTypes DEF Job, JobState
<1>5. DOMAIN deadLetters = DOMAIN jobs
  BY DEF QueueInv, TypeOK
<1> HIDE DEF i, v
<1>6. DOMAIN jobs' = 1..i
  BY <1>1, <1>3
<1>7. DOMAIN jobs' = 1..Cardinality(DOMAIN jobs') /\ IsFiniteSet(DOMAIN jobs')
  BY <1>2, <1>3, <1>6
<1>8. /\ jobs'[i] = v /\ deadLetters'[i] = 0
      /\ \A k \in DOMAIN jobs : jobs'[k] = jobs[k] /\ deadLetters'[k] = deadLetters[k]
      /\ DOMAIN jobs' = DOMAIN jobs \cup {i}
  BY <1>1, <1>3, <1>5
<1>9. jobs' \in [DOMAIN jobs' -> Job] /\ deadLetters' \in [DOMAIN jobs' -> Nat]
  BY <1>3, <1>4, <1>5 DEF QueueInv, TypeOK
<1>10. passes \in [Passes -> Pass(DOMAIN jobs')]
  BY <1>8 DEF QueueInv, TypeOK, Pass
<1>11. TypeOK'
  BY <1>3, <1>7, <1>9, <1>10 DEF QueueInv, TypeOK, Pass
<1>12. DeadIsListed' /\ AttemptsLeft'
  BY <1>4, <1>8, QueueAssumption DEF QueueInv, DeadIsListed, AttemptsLeft
<1>13. ProcessingIsRun'
  <2>1. \A d \in Passes : passes[d].job # NoJob => passes[d].job \in DOMAIN jobs
    BY DEF QueueInv, TypeOK
  <2> QED BY <1>3, <1>4, <1>8, <2>1 DEF QueueInv, ProcessingIsRun
<1> QED BY <1>3, <1>7, <1>11, <1>12, <1>13 DEF QueueInv, PassesTidy

\* The loop of drain for a pass that runs nothing.
LEMMA AdvanceKeeps ==
    ASSUME QueueInv, NEW d \in Passes, NEW pass \in Pass(DOMAIN jobs), pass.on,
           passes[d].job = NoJob, pass.job = NoJob, Advance(d, pass)
    PROVE  QueueInv'
<1>0. passes \in [Passes -> Pass(DOMAIN jobs)] /\ jobs \in [DOMAIN jobs -> Job]
      /\ deadLetters \in [DOMAIN jobs -> Nat] /\ thrown \in BOOLEAN
  BY DEF QueueInv, TypeOK, Pass
<1>1. CASE /\ passes' = [passes EXCEPT ![d] = Idle]
           /\ UNCHANGED <<jobs, deadLetters, metrics, requeued, thrown>>
  <2>1. passes'[d] = Idle /\ \A e \in Passes \ {d} : passes'[e] = passes[e]
    BY <1>0, <1>1
  <2>2. passes' \in [Passes -> Pass(DOMAIN jobs)]
    BY <1>0, <1>1, IdleTypes
  <2>3. \A e \in Passes : passes'[e].job = passes[e].job
    BY <2>1, IdleTypes
  <2>4. PassesTidy'
    BY <2>1, IdleTypes DEF QueueInv, PassesTidy
  <2>5. ProcessingIsRun'
    BY <1>1, <2>3 DEF QueueInv, ProcessingIsRun
  <2> QED BY <1>1, <2>2, <2>4, <2>5 DEF QueueInv, TypeOK, Pass, DeadIsListed, AttemptsLeft
<1>2. ASSUME NEW j \in Eligible(pass), pass.left > 0, jobs' = [jobs EXCEPT ![j] = Begun(@)],
             \/ /\ passes' = [passes EXCEPT ![d] =
                                  [pass EXCEPT !.left = @ - 1, !.seen = @ \cup {j}, !.job = j]]
                /\ UNCHANGED thrown
             \/ Throws(d),
             UNCHANGED <<deadLetters, metrics, requeued>>
      PROVE  QueueInv'
  <2> DEFINE v == Begun(jobs[j])
             awaiting == [pass EXCEPT !.left = @ - 1, !.seen = @ \cup {j}, !.job = j]
  <2>1. j \in DOMAIN jobs /\ jobs[j] \in Job /\ jobs[j].state = "pending"
        /\ jobs[j].attempts < MaxAttempts /\ jobs[j].attempts \in Nat /\ deadLetters[j] = 0
    BY <1>0 DEF Eligible, QueueInv, AttemptsLeft, DeadIsListed, Job
  <2>2. v \in Job /\ v.state = "processing" /\ v.attempts = jobs[j].attempts + 1
    BY <2>1, BegunTypes
  <2>3. Fair(v, 0)
    BY <2>1, <2>2, QueueAssumption DEF Fair
  <2>4. jobs' = [jobs EXCEPT ![j] = v] /\ deadLetters' = [deadLetters EXCEPT ![j] = 0]
    BY <1>0, <1>2, <2>1
  <2>5. /\ awaiting \in Pass(DOMAIN jobs) /\ awaiting.job = j /\ awaiting.on
    <3>1. pass.left - 1 \in Nat /\ pass.seen \cup {j} \in SUBSET DOMAIN jobs
      BY <1>2, <2>1 DEF Pass
    <3> QED BY <2>1, <3>1 DEF Pass
  <2>6. j \in Nat \ {0}
    BY <2>1, JobsNumbered DEF QueueInv
  <2> HIDE DEF v, awaiting
  <2>7. /\ DOMAIN jobs' = DOMAIN jobs /\ DOMAIN jobs' = 1..Cardinality(DOMAIN jobs')
        /\ jobs' \in [DOMAIN jobs' -> Job] /\ deadLetters' \in [DOMAIN jobs' -> Nat]
        /\ DeadIsListed' /\ AttemptsLeft'
    BY <2>1, <2>3, <2>4, JobChanges
  <2>8. jobs'[j] = v /\ \A i \in DOMAIN jobs \ {j} : jobs'[i] = jobs[i]
    BY <2>1, <2>4
  <2>9. \A e \in Passes : /\ passes[e].job # j
                          /\ passes[e].job # NoJob => passes[e].job \in DOMAIN jobs
    BY <1>0, <2>1, <2>6 DEF QueueInv, ProcessingIsRun, Pass, NoJob
  <2>10. CASE passes' = [passes EXCEPT ![d] = awaiting] /\ UNCHANGED thrown
    <3>1. passes'[d] = awaiting /\ \A e \in Passes \ {d} : passes'[e] = passes[e]
      BY <1>0, <2>10
    <3>2. passes' \in [Passes -> Pass(DOMAIN jobs)]
      BY <1>0, <2>5, <2>10
    <3>3. PassesTidy'
      BY <2>5, <3>1 DEF QueueInv, PassesTidy
    <3>4. \A e, f \in Passes : passes'[e].job = passes'[f].job => e = f \/ passes'[e].job = NoJob
      BY <2>5, <2>9, <3>1 DEF QueueInv, ProcessingIsRun
    <3>5. \A e \in Passes : passes'[e].job # NoJob => jobs'[passes'[e].job].state = "processing"
      BY <2>2, <2>5, <2>8, <2>9, <3>1 DEF QueueInv, ProcessingIsRun
    <3>6. ASSUME NEW i \in DOMAIN jobs', jobs'[i].state = "processing"
          PROVE  thrown' \/ \E e \in Passes : passes'[e].job = i
      <4>1. CASE i = j
        BY <2>5, <3>1, <4>1
      <4>2. CASE i # j
        <5>1. jobs[i].state = "processing" /\ i \in DOMAIN jobs /\ i # NoJob
          BY <2>7, <2>8, <3>6, <4>2, JobsNumbered DEF QueueInv, NoJob
        <5>2. thrown \/ \E e \in Passes : passes[e].job = i
          BY <5>1 DEF QueueInv, ProcessingIsRun
        <5>3. \A e \in Passes : passes[e].job = i => passes'[e].job = i
          BY <3>1, <5>1
        <5> QED BY <2>10, <5>2, <5>3
      <4> QED BY <4>1, <4>2
    <3>7. ProcessingIsRun'
      BY <3>4, <3>5, <3>6 DEF ProcessingIsRun
    <3> QED BY <1>0, <1>2, <2>7, <2>10, <3>2, <3>3, <3>7 DEF QueueInv, TypeOK, Pass
  <2>11. CASE Throws(d)
    <3>1. thrown' = TRUE /\ passes' = [passes EXCEPT ![d] = Idle]
      BY <2>11 DEF Throws
    <3>2. passes'[d] = Idle /\ \A e \in Passes \ {d} : passes'[e] = passes[e]
      BY <1>0, <3>1
    <3>3. passes' \in [Passes -> Pass(DOMAIN jobs)]
      BY <1>0, <3>1, IdleTypes
    <3>4. PassesTidy' /\ \A e \in Passes : passes'[e].job = passes[e].job
      BY <3>2, IdleTypes DEF QueueInv, PassesTidy
    <3>5. ProcessingIsRun'
      BY <2>8, <2>9, <3>1, <3>4 DEF QueueInv, ProcessingIsRun
    <3>6. thrown' \in BOOLEAN
      BY <3>1
    <3> QED BY <1>2, <2>7, <3>3, <3>4, <3>5, <3>6 DEF QueueInv, TypeOK, Pass
  <2> QED BY <1>2, <2>10, <2>11 DEF awaiting
<1> QED BY <1>1, <1>2 DEF Advance

\* Time passes, and nothing but ages and the times of jobs changes.
LEMMA TickKeeps ==
    ASSUME QueueInv, Tick
    PROVE  QueueInv'
<1>1. /\ jobs \in [DOMAIN jobs -> Job] /\ passes \in [Passes -> Pass(DOMAIN jobs)]
      /\ MaxAge \in Nat /\ MaxDelay \in Nat
  BY QueueAssumption DEF QueueInv, TypeOK, Pass
<1>2. ASSUME NEW j \in DOMAIN jobs
      PROVE  LET w == [jobs[j] EXCEPT !.next = Max({Past, jobs[j].next - 1})]
             IN  w \in Job /\ w.state = jobs[j].state /\ w.attempts = jobs[j].attempts
  <2> DEFINE next == Max({Past, jobs[j].next - 1})
  <2>1. jobs[j] \in Job /\ jobs[j].next \in Past..MaxDelay /\ Past \in Int
    BY <1>1, PastTypes DEF Job
  <2>2. jobs[j].next - 1 \in Int
    BY <2>1
  <2>3. next \in Past..MaxDelay
    <3> DEFINE b == jobs[j].next - 1
    <3>1. b \in Int /\ b <= MaxDelay
      BY <1>1, <2>1
    <3>2. Max({Past, b}) = IF Past >= b THEN Past ELSE b
      BY <2>1, <3>1, MaxOfTwo
    <3> HIDE DEF b
    <3>3. Max({Past, b}) \in Past..MaxDelay
      BY <1>1, <2>1, <3>1, <3>2, PastTypes
    <3> QED BY <3>3 DEF b
  <2> HIDE DEF next
  <2>4. LET w == [jobs[j] EXCEPT !.next = next]
        IN  w \in Job /\ w.state = jobs[j].state /\ w.attempts = jobs[j].attempts
    BY <2>1, <2>3 DEF Job
  <2> QED BY <2>4 DEF next
<1>3. jobs' = [j \in DOMAIN jobs |-> [jobs[j] EXCEPT !.next = Max({Past, jobs[j].next - 1})]]
  BY DEF Tick
<1>4. /\ DOMAIN jobs' = DOMAIN jobs /\ jobs' \in [DOMAIN jobs -> Job]
      /\ \A j \in DOMAIN jobs : /\ jobs'[j].state = jobs[j].state
                                 /\ jobs'[j].attempts = jobs[j].attempts
  BY <1>2, <1>3
<1>5. ASSUME NEW d \in Passes
      PROVE  /\ passes'[d] \in Pass(DOMAIN jobs) /\ passes'[d].job = passes[d].job
             /\ passes'[d].on = passes[d].on
  <2>1. passes'[d] = IF passes[d].on THEN [passes[d] EXCEPT !.age = @ + 1] ELSE passes[d]
    BY DEF Tick
  <2>2. CASE passes[d].on
    <3>1. passes[d].age + 1 \in 0..MaxAge
      BY <1>1, <2>2 DEF Tick, Pass
    <3> QED BY <1>1, <2>1, <2>2, <3>1 DEF Pass
  <2>3. CASE ~passes[d].on
    BY <1>1, <2>1, <2>3
  <2> QED BY <2>2, <2>3
<1>6. passes' = [d \in Passes |-> passes'[d]]
  BY DEF Tick
<1>7. passes' \in [Passes -> Pass(DOMAIN jobs)]
  BY <1>5, <1>6
<1>8. UNCHANGED <<deadLetters, metrics, requeued, thrown>>
  BY DEF Tick
<1>9. TypeOK' /\ IsFiniteSet(DOMAIN jobs')
  BY <1>4, <1>7, <1>8 DEF QueueInv, TypeOK, Pass
<1>10. DeadIsListed' /\ AttemptsLeft'
  BY <1>4, <1>8 DEF QueueInv, DeadIsListed, AttemptsLeft
<1>11. PassesTidy'
  BY <1>5 DEF QueueInv, PassesTidy
<1>12. ProcessingIsRun'
  <2>1. \A d \in Passes : passes[d].job # NoJob => passes[d].job \in DOMAIN jobs
    BY <1>1 DEF Pass
  <2> QED BY <1>4, <1>5, <1>8, <2>1 DEF QueueInv, ProcessingIsRun
<1> QED BY <1>9, <1>10, <1>11, <1>12 DEF QueueInv

-----------------------------------------------------------------------------

LEMMA QueueInit == Init => QueueInv
<1> SUFFICES ASSUME Init
             PROVE  QueueInv
  OBVIOUS
<1>1. DOMAIN jobs = {} /\ DOMAIN deadLetters = {} /\ jobs = << >> /\ deadLetters = << >>
  BY DEF Init
<1>2. IsFiniteSet(DOMAIN jobs) /\ Cardinality(DOMAIN jobs) = 0
  BY <1>1, FS_EmptySet
<1>3. 1..0 = {}
  OBVIOUS
<1>4. jobs \in [DOMAIN jobs -> Job] /\ deadLetters \in [DOMAIN jobs -> Nat]
  BY <1>1
<1>5. passes \in [Passes -> Pass(DOMAIN jobs)]
  BY IdleTypes DEF Init
<1>6. \A d \in Passes : passes[d].job = NoJob
  BY IdleTypes DEF Init
<1>7. metrics \in [completed: Nat, failed: Nat, dead: Nat] /\ requeued \in Nat /\ thrown \in BOOLEAN
  BY DEF Init
<1>8. TypeOK
  BY <1>1, <1>2, <1>3, <1>4, <1>5, <1>7 DEF TypeOK, Pass
<1> QED BY <1>1, <1>2, <1>6, <1>8 DEF QueueInv, ProcessingIsRun, DeadIsListed, PassesTidy, AttemptsLeft

LEMMA QueueStep == QueueInv /\ [Next]_vars => QueueInv'
<1> SUFFICES ASSUME QueueInv, [Next]_vars
             PROVE  QueueInv'
  OBVIOUS
<1>1. CASE Enqueue
  BY <1>1, EnqueueKeeps
<1>2. ASSUME NEW j \in DOMAIN jobs, RequeueDeadLetter(j)
      PROVE  QueueInv'
  BY <1>2, RequeueKeeps
<1>3. ASSUME NEW d \in Passes, NEW size \in PassSizes, StartPass(d, size)
      PROVE  QueueInv'
  <2> DEFINE pass == [Idle EXCEPT !.on = TRUE, !.left = size]
  <2>1. pass \in Pass(DOMAIN jobs) /\ pass.on /\ pass.job = NoJob
    BY FreshTypes
  <2>2. passes[d].job = NoJob /\ Advance(d, pass)
    BY <1>3 DEF StartPass, QueueInv, PassesTidy
  <2> HIDE DEF pass
  <2> QED BY <2>1, <2>2, AdvanceKeeps
<1>4. ASSUME NEW d \in Passes, ContinuePass(d)
      PROVE  QueueInv'
  <2>1. passes[d] \in Pass(DOMAIN jobs)
    BY DEF QueueInv, TypeOK, Pass
  <2> QED BY <1>4, <2>1, AdvanceKeeps DEF ContinuePass
<1>5. ASSUME NEW d \in Passes, HandlerResolves(d) \/ HandlerRejects(d) \/ SinkRejects(d)
      PROVE  QueueInv'
  BY <1>5, HandlerKeeps
<1>6. CASE Tick
  BY <1>6, TickKeeps
<1>7. CASE UNCHANGED vars
  BY <1>7 DEF vars, QueueInv, TypeOK, ProcessingIsRun, DeadIsListed, PassesTidy, AttemptsLeft
<1> QED BY <1>1, <1>2, <1>3, <1>4, <1>5, <1>6, <1>7 DEF Next

LEMMA QueueInvHolds == Spec => []QueueInv
<1>1. QED BY QueueInit, QueueStep, PTL DEF Spec

\* Jobs, dead letters, metrics and passes keep their types: the jobs are numbered as they were
\* enqueued, and the delays of the policy stay within its maximum.
THEOREM QueueTypes == Spec => []TypeOK
<1>1. QueueInv => TypeOK
  BY DEF QueueInv
<1> QED BY <1>1, QueueInvHolds, PTL

\* However many passes of drain overlap, no two await a handler for the same job, and unless the
\* sink threw no job is left processing.
THEOREM ProcessingAlwaysRun == Spec => []ProcessingIsRun
<1>1. QueueInv => ProcessingIsRun
  BY DEF QueueInv
<1> QED BY <1>1, QueueInvHolds, PTL

\* deadLetter and requeueDeadLetter keep the dead-letter queue and the jobs' states together, and
\* runAttempt gives a job its attempts before it dies.
THEOREM DeadAlwaysListed == Spec => []DeadIsListed
<1>1. QueueInv => DeadIsListed
  BY DEF QueueInv
<1> QED BY <1>1, QueueInvHolds, PTL
=============================================================================
