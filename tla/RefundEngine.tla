---------------------------- MODULE RefundEngine ----------------------------
(***************************************************************************)
(* The refund engine and its queue (backend/src/services/refund-engine.ts, *)
(* backend/src/queue/refund-queue.ts): refunds that the policy or a person *)
(* approves, a provider that pays them, and jobs that ticks of a timer run *)
(* without waiting for each other.                                         *)
(*                                                                         *)
(* A step of a tick ends where the code awaits.  Names, texts, audit and   *)
(* analytics are left out, and so is the level of an approval: a refund    *)
(* has one approval or none, and a call with another level changes nothing.*)
(***************************************************************************)
EXTENDS Integers, FiniteSets, FiniteSetsExt

CONSTANTS
    MaxRefunds,     \* bound: refunds that are evaluated
    MaxJobs,        \* bound: jobs that are enqueued
    MaxEntries,     \* bound: refunds and jobs together
    Ticks,          \* bound: ticks of the queue that overlap
    MaxAttempts,    \* maxAttempts of a job
    MaxLost,        \* bound: answers of a refund that are lost once the money has moved
    Inputs,         \* what evaluateRefund is called with
    AlwaysUnder, FullWindow, MaxPct, AutoApproval               \* RefundPolicy

Refunds == 1..MaxRefunds
Jobs    == 1..MaxJobs

ASSUME RefundAssumption ==
    /\ MaxRefunds \in Nat /\ MaxJobs \in Nat /\ MaxEntries \in Nat /\ MaxLost \in Nat
    /\ MaxAttempts \in Nat \ {0}
    /\ \A in \in Inputs : in.rule \in {"none", "approved", "rejected", "manual_review"}

VARIABLES
    refunds,        \* refundStore; "none" where there is no refund yet
    jobs,           \* jobStore of the queue
    ticks,          \* the ticks under way
    sent,           \* history: payments the provider made for each refund
    lost            \* history: those of them whose answer was lost

vars == <<refunds, jobs, ticks, sent, lost>>

Statuses == {"none", "pending", "approved", "rejected", "processing",
             "completed", "failed", "cancelled"}
Refund == [status: Statuses, auto: BOOLEAN, held: BOOLEAN,
           approval: {"none", "pending", "approved", "rejected"}]
Job    == [type: {"none", "auto_process", "retry_failed", "process_single"},
           refund: Refunds \cup {0}, due: BOOLEAN, attempts: Nat,
           status: {"none", "queued", "running", "completed", "failed", "cancelled"}]
Tick   == [todo: SUBSET Jobs, job: Jobs \cup {0}, refund: Refunds \cup {0},
           at: {"loop", "auto", "import", "provider"},
           rest: SUBSET Refunds, failed: BOOLEAN]
Idle   == [todo |-> {}, job |-> 0, refund |-> 0, at |-> "loop", rest |-> {}, failed |-> FALSE]

Init ==
    /\ refunds = [r \in Refunds |-> [status |-> "none", auto |-> FALSE,
                                     held |-> FALSE, approval |-> "none"]]
    /\ jobs = [j \in Jobs |-> [type |-> "none", refund |-> 0, due |-> TRUE,
                               attempts |-> 0, status |-> "none"]]
    /\ ticks = [t \in Ticks |-> Idle]
    /\ sent = [r \in Refunds |-> 0]
    /\ lost = [r \in Refunds |-> 0]

Room == Cardinality({r \in Refunds : refunds[r].status # "none"}) +
        Cardinality({j \in Jobs : jobs[j].status # "none"}) < MaxEntries

-----------------------------------------------------------------------------
(* Evaluation and approval *)

BuiltIn(in) ==
    IF \/ in.requested <= AlwaysUnder
       \/ in.days <= FullWindow /\ in.requested <= in.paid THEN "approved"
    ELSE IF in.requested * 100 > in.paid * MaxPct THEN "rejected"
    ELSE IF in.requested <= AutoApproval THEN "approved" ELSE "manual_review"

\* Mutant: small amounts are refunded before disputes are looked at.
MutDecision(in) ==
    IF in.rule # "none" THEN in.rule
    ELSE IF in.disputed /\ in.requested > AlwaysUnder THEN "manual_review" ELSE BuiltIn(in)

\* evaluateRefund; in.rule is the outcome of the custom rule that matched.
Decision(in) ==
    IF in.rule # "none" THEN in.rule
    ELSE IF in.disputed THEN "manual_review" ELSE BuiltIn(in)

\* createRefundRecord; held when a chargeback or dispute is the reason for the review.
Evaluate(r, in) ==
    LET decision == Decision(in)
    IN  /\ Room                                                    \* bound
        /\ \A q \in Refunds : q <= r => (refunds[q].status = "none" <=> q = r)
        /\ refunds' = [refunds EXCEPT ![r] =
               [status   |-> IF decision = "manual_review" THEN "pending" ELSE decision,
                auto     |-> decision = "approved",
                held     |-> in.rule = "none" /\ in.disputed,
                approval |-> IF decision = "manual_review" THEN "pending" ELSE "none"]]
        /\ UNCHANGED <<jobs, ticks, sent, lost>>

\* Mutant: an approval that was resolved may be given again.
MutResolvable(r) == refunds[r].approval # "none"
Resolvable(r) == refunds[r].approval = "pending"

Approve(r) ==
    /\ Resolvable(r)
    /\ refunds' = [refunds EXCEPT ![r].approval = "approved", ![r].status = "approved"]
    /\ UNCHANGED <<jobs, ticks, sent, lost>>

Reject(r) ==
    /\ refunds[r].approval # "none"
    /\ refunds' = [refunds EXCEPT ![r].approval = "rejected", ![r].status = "rejected"]
    /\ UNCHANGED <<jobs, ticks, sent, lost>>

Cancel(r) ==
    /\ refunds[r].status \notin {"none", "completed", "cancelled"}
    /\ refunds' = [refunds EXCEPT ![r].status = "cancelled"]
    /\ UNCHANGED <<jobs, ticks, sent, lost>>

\* The synchronous routes pass no provider: the refund completes and nothing is paid.
ProcessSync(r) ==
    /\ refunds[r].status = "approved"
    /\ refunds' = [refunds EXCEPT ![r].status = "completed"]
    /\ UNCHANGED <<jobs, ticks, sent, lost>>

AutoApproved == {r \in Refunds : refunds[r].status = "approved" /\ refunds[r].auto}

AutoProcessSync ==
    /\ AutoApproved # {}
    /\ refunds' = [r \in Refunds |-> IF r \in AutoApproved
                                     THEN [refunds[r] EXCEPT !.status = "completed"]
                                     ELSE refunds[r]]
    /\ UNCHANGED <<jobs, ticks, sent, lost>>

-----------------------------------------------------------------------------
(* Jobs *)

\* The routes enqueue; only process_single looks for the refund first.
Enqueue(j, type, r) ==
    /\ Room                                                        \* bound
    /\ \A k \in Jobs : k <= j => (jobs[k].status = "none" <=> k = j)
    /\ type = "auto_process" <=> r = 0
    /\ type = "process_single" => refunds[r].status # "none"
    /\ jobs' = [jobs EXCEPT ![j] = [type |-> type, refund |-> r, due |-> TRUE,
                                    attempts |-> 0, status |-> "queued"]]
    /\ UNCHANGED <<refunds, ticks, sent, lost>>

CancelJob(j) ==
    /\ jobs[j].status = "queued"
    /\ jobs' = [jobs EXCEPT ![j].status = "cancelled"]
    /\ UNCHANGED <<refunds, ticks, sent, lost>>

\* scheduledFor is reached.
DelayElapses(j) ==
    /\ jobs[j].status = "queued" /\ ~jobs[j].due
    /\ jobs' = [jobs EXCEPT ![j].due = TRUE]
    /\ UNCHANGED <<refunds, ticks, sent, lost>>

AttemptsLeft(job) == job.attempts < MaxAttempts

\* Mutant: a job whose attempts are used up stays running.
MutThrown(job) == IF AttemptsLeft(job)
                  THEN [job EXCEPT !.status = "queued", !.due = FALSE]
                  ELSE job

\* The catch block of tick.
Thrown(job) == IF AttemptsLeft(job)
               THEN [job EXCEPT !.status = "queued", !.due = FALSE]
               ELSE [job EXCEPT !.status = "failed"]

Finished(job, failed) == IF failed /\ AttemptsLeft(job)
                         THEN [job EXCEPT !.status = "queued", !.due = FALSE]
                         ELSE [job EXCEPT !.status = "completed"]

-----------------------------------------------------------------------------
(* A tick *)

\* Where the loop of tick is once a job has ended.
Looping(tick) == [Idle EXCEPT !.todo = tick.todo]

\* Mutant: processRefund is called for whatever is not completed yet.
MutProcessable(r) == refunds[r].status \in {"approved", "processing"}
Processable(r) == refunds[r].status = "approved"

\* Mutant: the status is written when the provider has answered.
MutMarked(r) == refunds
Marked(r) == [refunds EXCEPT ![r].status = "processing"]

\* processRefund up to its await of the provider.
CallProvider(t, tick, r) ==
    /\ refunds' = Marked(r)
    /\ ticks' = [ticks EXCEPT ![t] = [tick EXCEPT !.refund = r, !.at = "provider"]]

\* Tick t goes on as tick, and no refund changes.
GoOn(t, tick) == ticks' = [ticks EXCEPT ![t] = tick] /\ UNCHANGED refunds

IsFirst(x, S) == x \in S /\ \A y \in S : x <= y

\* The loop of tick takes the first job of todo, up to the next await.
Take(t, todo, j) ==
    LET taken   == [jobs[j] EXCEPT !.status = "running", !.attempts = @ + 1]
        r       == taken.refund
        tick    == [Idle EXCEPT !.todo = todo \ {j}, !.job = j]
        becomes(job) == jobs' = [jobs EXCEPT ![j] = job]
    IN  /\ IsFirst(j, todo)
        /\ \/ /\ taken.type = "auto_process"
              /\ becomes(taken)
              /\ GoOn(t, [tick EXCEPT !.at = "auto", !.rest = AutoApproved])
           \/ /\ taken.type = "retry_failed" /\ refunds[r].status = "failed"
              /\ becomes(taken)
              /\ CallProvider(t, tick, r)
           \/ /\ taken.type = "retry_failed" /\ refunds[r].status # "failed"
              /\ becomes(Thrown(taken))
              /\ GoOn(t, Looping(tick))
           \/ /\ taken.type = "process_single" /\ refunds[r].status = "approved"
              /\ becomes(taken)
              /\ GoOn(t, [tick EXCEPT !.at = "import", !.refund = r])
           \/ /\ taken.type = "process_single" /\ refunds[r].status # "approved"
              /\ becomes([taken EXCEPT !.status = "completed"])
              /\ GoOn(t, Looping(tick))
        /\ UNCHANGED <<sent, lost>>

StartTick(t, j) ==
    /\ ticks[t] = Idle
    /\ Take(t, {k \in Jobs : jobs[k].status = "queued" /\ jobs[k].due}, j)

\* A job that another tick has run or cancelJob has cancelled since is run all the same.
TakeNext(t, j) == ticks[t].at = "loop" /\ Take(t, ticks[t].todo, j)

\* The import has loaded; processRefund looks at the status again.
AfterImport(t) ==
    LET r == ticks[t].refund
    IN  /\ ticks[t].at = "import"
        /\ \/ Processable(r) /\ CallProvider(t, ticks[t], r) /\ UNCHANGED jobs
           \/ /\ ~Processable(r)
              /\ jobs' = [jobs EXCEPT ![ticks[t].job] = Thrown(@)]
              /\ GoOn(t, Looping(ticks[t]))
        /\ UNCHANGED <<sent, lost>>

\* autoProcessApprovedRefunds goes on with r, the next of those it found at its beginning.
AutoNext(t, r) ==
    LET left == [ticks[t] EXCEPT !.rest = @ \ {r}]
    IN  /\ ticks[t].at = "auto"
        /\ IsFirst(r, ticks[t].rest)
        /\ \/ Processable(r) /\ CallProvider(t, left, r)
           \/ ~Processable(r) /\ GoOn(t, [left EXCEPT !.failed = TRUE])
        /\ UNCHANGED <<jobs, sent, lost>>

AutoEnds(t) ==
    /\ ticks[t].at = "auto" /\ ticks[t].rest = {}
    /\ jobs' = [jobs EXCEPT ![ticks[t].job] = Finished(@, ticks[t].failed)]
    /\ GoOn(t, Looping(ticks[t]))
    /\ UNCHANGED <<sent, lost>>

\* The promise of the provider settles.  It may reject once the money has moved.
ProviderAnswers(t, answer, moved) ==
    LET tick == ticks[t]
        r    == tick.refund
        j    == tick.job
    IN  /\ tick.at = "provider"
        /\ answer = "success" => moved
        /\ answer = "refused" => ~moved
        /\ answer = "threw" /\ moved => lost[r] < MaxLost        \* bound
        /\ refunds' = [refunds EXCEPT ![r].status =
               IF answer = "success" THEN "completed" ELSE "failed"]
        /\ sent' = [sent EXCEPT ![r] = IF moved THEN @ + 1 ELSE @]
        /\ lost' = [lost EXCEPT ![r] = IF moved /\ answer = "threw" THEN @ + 1 ELSE @]
        /\ IF jobs[j].type = "auto_process"
           THEN /\ ticks' = [ticks EXCEPT ![t] =
                       [tick EXCEPT !.at = "auto", !.refund = 0, !.failed = @ \/ answer = "threw"]]
                /\ UNCHANGED jobs
           ELSE /\ ticks' = [ticks EXCEPT ![t] = Looping(tick)]
                /\ jobs' = [jobs EXCEPT ![j] = IF answer = "threw" THEN Thrown(@)
                                               ELSE Finished(@, FALSE)]

-----------------------------------------------------------------------------

Callers ==
    \/ \E r \in Refunds : \/ \E in \in Inputs : Evaluate(r, in)
                          \/ Approve(r) \/ Reject(r) \/ Cancel(r) \/ ProcessSync(r)
    \/ AutoProcessSync
    \/ \E j \in Jobs : \/ \E type \in {"auto_process", "retry_failed", "process_single"},
                             r \in Refunds \cup {0} : Enqueue(j, type, r)
                       \/ CancelJob(j)

Answer(t) == \E answer \in {"success", "refused", "threw"}, moved \in BOOLEAN :
                 ProviderAnswers(t, answer, moved)
Start(t) == \E j \in Jobs : StartTick(t, j)
Run(t) == \/ \E j \in Jobs : TakeNext(t, j)
          \/ AfterImport(t) \/ AutoEnds(t)
          \/ \E r \in Refunds : AutoNext(t, r)

Next ==
    \/ Callers
    \/ \E j \in Jobs : DelayElapses(j)
    \/ \E t \in Ticks : Start(t) \/ Run(t) \/ Answer(t)

Spec == Init /\ [][Next]_vars

\* Time passes, the timer goes on, the event loop runs what is ready, the provider answers.
FairSpec ==
    /\ Spec
    /\ \A j \in Jobs : WF_vars(DelayElapses(j))
    /\ \A t \in Ticks : WF_vars(Start(t)) /\ WF_vars(Run(t)) /\ WF_vars(Answer(t))

-----------------------------------------------------------------------------
(* Properties *)

\* Every variable has its type.
TypeOK ==
    /\ refunds \in [Refunds -> Refund]
    /\ jobs \in [Jobs -> Job]
    /\ ticks \in [Ticks -> Tick]
    /\ sent \in [Refunds -> Nat]
    /\ lost \in [Refunds -> Nat]

Calls(r) == {t \in Ticks : ticks[t].at = "provider" /\ ticks[t].refund = r}

\* However ticks, jobs and routes interleave, processRefund awaits the provider for a refund at
\* most once at a time, a refund that is processing is awaited, and one that is awaited has at
\* most been rejected or cancelled meanwhile: no call is out for a refund that reads as failed,
\* completed or open to another call.
ProcessingIsCalled ==
    \A r \in Refunds :
        /\ \A t, u \in Calls(r) : t = u
        /\ refunds[r].status = "processing" => Calls(r) # {}
        /\ Calls(r) # {} => refunds[r].status \in {"processing", "rejected", "cancelled"}

\* Approvals, retries of failed refunds, jobs that run twice and cancellations in flight never
\* pay a refund again, unless the provider rejected a call after it had moved the money.
RefundedOnce == \A r \in Refunds : sent[r] <= lost[r] + 1

\* evaluateRefund sends a payment with a chargeback or dispute to a person, whatever its amount,
\* unless a custom rule decides; such a refund is never paid or completed, by a job or a route,
\* while nobody has decided on it.
DisputedIsReviewed ==
    \A r \in Refunds :
        refunds[r].held /\ (sent[r] > 0 \/ refunds[r].status = "completed") =>
            refunds[r].approval \in {"approved", "rejected"}

\* No approval is open and no answer of the provider is due that would write the status again.
Closed(r) == /\ refunds[r].status \in {"completed", "rejected", "cancelled"}
             /\ refunds[r].approval # "pending"
             /\ Calls(r) = {}

\* A closed refund stays closed and is not paid any more, whatever jobs still name it.
ClosedIsFinal == [][\A r \in Refunds : Closed(r) => Closed(r)' /\ sent'[r] = sent[r]]_vars

\* Every job that is enqueued ends as completed, failed or cancelled, also one that overlapping
\* ticks run again after it ended.
JobsSettle ==
    \A j \in Jobs : jobs[j].status \in {"queued", "running"} ~>
                        jobs[j].status \in {"completed", "failed", "cancelled"}
=============================================================================
