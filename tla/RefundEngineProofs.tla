------------------------- MODULE RefundEngineProofs -------------------------
(***************************************************************************)
(* Proofs about RefundEngine: its types, that a refund is awaited once at  *)
(* a time and paid once, that disputed refunds are reviewed, and that a    *)
(* closed refund stays closed.                                             *)
(***************************************************************************)
EXTENDS RefundEngine, TLAPS

\* A job that is enqueued names a refund unless it processes all of them.
JobsNamed == \A j \in Jobs :
    jobs[j].type \in {"retry_failed", "process_single"} => jobs[j].refund \in Refunds

\* A tick that awaits something knows its job, and its refund where it has one.
TicksNamed == \A t \in Ticks :
    /\ ticks[t].at # "loop" => ticks[t].job \in Jobs
    /\ ticks[t].at \in {"import", "provider"} => ticks[t].refund \in Refunds

\* A refund that may be called for or was paid has no open approval.
Settled == \A r \in Refunds :
    /\ refunds[r].approval = "pending" => refunds[r].status \in {"pending", "cancelled"}
    /\ refunds[r].approval = "pending" => sent[r] = 0 /\ Calls(r) = {}
    /\ refunds[r].status = "none" => sent[r] = 0 /\ Calls(r) = {}

\* Once a success was answered, the refund is closed.
PaidIsClosed == \A r \in Refunds :
    /\ sent[r] <= lost[r] + 1
    /\ sent[r] > lost[r] => Closed(r)

HeldIsManual == \A r \in Refunds : refunds[r].held => refunds[r].approval # "none"

Core == ProcessingIsCalled /\ Settled /\ PaidIsClosed /\ HeldIsManual
Types == TypeOK /\ JobsNamed /\ TicksNamed
Inv == Types /\ Core

Final == \A r \in Refunds : Closed(r) => Closed(r)' /\ sent'[r] = sent[r]

LEMMA InitInv == Init => Inv
  <1> SUFFICES ASSUME Init PROVE Inv
    OBVIOUS
  <1>1. TypeOK
    BY DEF Init, TypeOK, Refund, Statuses, Job, Tick, Idle
  <1>2. JobsNamed /\ TicksNamed
    BY DEF Init, JobsNamed, TicksNamed, Idle
  <1>3. \A r \in Refunds : Calls(r) = {}
    BY DEF Init, Calls, Idle
  <1>4. Core
    BY <1>3 DEF Init, Core, ProcessingIsCalled, Settled, PaidIsClosed, HeldIsManual
  <1> QED
    BY <1>1, <1>2, <1>4 DEF Inv, Types

-----------------------------------------------------------------------------
(* The refunds: what a step may do to them *)

\* Nothing the refunds' invariant speaks of changes.
LEMMA Unmoved ==
    ASSUME Inv, UNCHANGED <<refunds, ticks, sent, lost>>
    PROVE  Core' /\ Final
  <1>1. \A r \in Refunds : Calls(r)' = Calls(r)
    BY DEF Calls
  <1> QED
    BY <1>1 DEF Inv, Core, ProcessingIsCalled, Settled, PaidIsClosed, HeldIsManual, Closed, Final

\* A tick moves between places where it awaits no provider.
LEMMA TickMoves ==
    ASSUME Inv, NEW t \in Ticks, NEW tick, tick.at # "provider", ticks[t].at # "provider",
           GoOn(t, tick), UNCHANGED <<sent, lost>>
    PROVE  Core' /\ Final
  <1>1. \A u \in Ticks : ticks'[u] = IF u = t THEN tick ELSE ticks[u]
    BY DEF GoOn, Inv, Types, TypeOK
  <1>2. \A r \in Refunds : Calls(r)' = Calls(r)
    BY <1>1 DEF Calls
  <1> QED
    BY <1>2 DEF GoOn, Inv, Core, ProcessingIsCalled, Settled, PaidIsClosed, HeldIsManual,
                Closed, Final

\* processRefund is called for a refund that is approved or has failed.
LEMMA TickCalls ==
    ASSUME Inv, NEW t \in Ticks, NEW tick \in Tick, NEW r \in Refunds,
           ticks[t].at # "provider", refunds[r].status \in {"approved", "failed"},
           CallProvider(t, tick, r), UNCHANGED <<sent, lost>>
    PROVE  Core' /\ Final
  <1>1. Calls(r) = {}
    BY DEF Inv, Core, ProcessingIsCalled
  <1> DEFINE calling == [tick EXCEPT !.refund = r, !.at = "provider"]
  <1>2. \A u \in Ticks : ticks'[u] = IF u = t THEN calling ELSE ticks[u]
    BY DEF CallProvider, Inv, Types, TypeOK
  <1>a. calling.at = "provider" /\ calling.refund = r
    BY DEF Tick
  <1> HIDE DEF calling
  <1>3. Calls(r)' = {t}
    BY <1>1, <1>2, <1>a DEF Calls
  <1>4. \A q \in Refunds \ {r} : Calls(q)' = Calls(q)
    BY <1>2, <1>a DEF Calls
  <1>5. /\ refunds' \in [Refunds -> Refund]
        /\ refunds'[r].status = "processing"
        /\ refunds'[r].approval = refunds[r].approval /\ refunds'[r].held = refunds[r].held
        /\ \A q \in Refunds \ {r} : refunds'[q] = refunds[q]
    BY DEF CallProvider, Marked, Inv, Types, TypeOK, Refund, Statuses
  <1>6. ~Closed(r)
    BY DEF Closed
  <1>7. \A q \in Refunds : q # r => (Closed(q)' <=> Closed(q))
    BY <1>4, <1>5 DEF Closed
  <1>8. ProcessingIsCalled'
    BY <1>3, <1>4, <1>5 DEF Inv, Core, ProcessingIsCalled
  <1>9. Settled' /\ HeldIsManual'
    BY <1>3, <1>4, <1>5 DEF Inv, Core, Settled, HeldIsManual
  <1>10. PaidIsClosed' /\ Final
    BY <1>6, <1>7 DEF Inv, Core, PaidIsClosed, Final
  <1> QED
    BY <1>8, <1>9, <1>10 DEF Core

\* A caller changes one refund in a way that keeps its part of the invariant.
LEMMA RefundChanges ==
    ASSUME Inv, NEW r \in Refunds, NEW refund \in Refund,
           refunds' = [refunds EXCEPT ![r] = refund], UNCHANGED <<ticks, sent, lost>>,
           refund.status # "processing",
           Calls(r) # {} => refund.status \in {"rejected", "cancelled"},
           refund.approval = "pending" => /\ refund.status \in {"pending", "cancelled"}
                                          /\ sent[r] = 0 /\ Calls(r) = {},
           refund.status # "none",
           refund.held => refund.approval # "none",
           Closed(r) => /\ refund.status \in {"completed", "rejected", "cancelled"}
                        /\ refund.approval # "pending"
    PROVE  Core' /\ Final
  <1>1. \A q \in Refunds : Calls(q)' = Calls(q)
    BY DEF Calls
  <1>2. \A q \in Refunds : refunds'[q] = IF q = r THEN refund ELSE refunds[q]
    BY DEF Inv, Types, TypeOK
  <1>3. \A q \in Refunds : Closed(q) => Closed(q)'
    BY <1>1, <1>2 DEF Closed
  <1>4. ProcessingIsCalled'
    BY <1>1, <1>2 DEF Inv, Core, ProcessingIsCalled
  <1>5. Settled' /\ HeldIsManual'
    BY <1>1, <1>2 DEF Inv, Core, Settled, HeldIsManual
  <1>6. PaidIsClosed' /\ Final
    BY <1>3 DEF Inv, Core, PaidIsClosed, Final
  <1> QED
    BY <1>4, <1>5, <1>6 DEF Core

\* The provider's answer writes the status of the refund, whatever it has become.
LEMMA AnswerStep ==
    ASSUME Inv, NEW t \in Ticks, NEW answer \in {"success", "refused", "threw"},
           NEW moved \in BOOLEAN, ProviderAnswers(t, answer, moved)
    PROVE  Core' /\ Final
  <1>1. PICK r \in Refunds : r = ticks[t].refund /\ t \in Calls(r)
    BY DEF Inv, Types, TicksNamed, ProviderAnswers, Calls
  <1>2. Calls(r) = {t}
    BY <1>1 DEF Inv, Core, ProcessingIsCalled
  <1>3. \A u \in Ticks : /\ u # t => ticks'[u] = ticks[u]
                         /\ u = t => ticks'[u].at \in {"auto", "loop"}
    <2>1. ticks[t] \in Tick /\ ticks \in [Ticks -> Tick]
      BY DEF Inv, Types, TypeOK
    <2>2. CASE jobs[ticks[t].job].type = "auto_process"
      <3>1. ticks' = [ticks EXCEPT ![t] = [ticks[t] EXCEPT !.at = "auto", !.refund = 0,
                                           !.failed = @ \/ answer = "threw"]]
        BY <2>2 DEF ProviderAnswers
      <3>2. ticks'[t].at = "auto"
        BY <2>1, <3>1 DEF Tick
      <3> QED
        BY <2>1, <3>1, <3>2
    <2>3. CASE jobs[ticks[t].job].type # "auto_process"
      <3>1. ticks' = [ticks EXCEPT ![t] = Looping(ticks[t])]
        BY <2>3 DEF ProviderAnswers
      <3>2. Looping(ticks[t]).at = "loop"
        BY DEF Looping, Idle
      <3> QED
        BY <2>1, <3>1, <3>2
    <2> QED
      BY <2>2, <2>3
  <1>4. Calls(r)' = {}
    BY <1>2, <1>3 DEF Calls
  <1>5. \A q \in Refunds \ {r} : Calls(q)' = Calls(q)
    BY <1>1, <1>3 DEF Calls
  <1>6. /\ refunds'[r].status = IF answer = "success" THEN "completed" ELSE "failed"
        /\ refunds'[r].approval = refunds[r].approval /\ refunds'[r].held = refunds[r].held
        /\ \A q \in Refunds \ {r} : refunds'[q] = refunds[q]
    BY <1>1 DEF ProviderAnswers, Inv, Types, TypeOK, Refund
  <1>7. /\ sent'[r] = IF moved THEN sent[r] + 1 ELSE sent[r]
        /\ lost'[r] = IF moved /\ answer = "threw" THEN lost[r] + 1 ELSE lost[r]
        /\ \A q \in Refunds \ {r} : sent'[q] = sent[q] /\ lost'[q] = lost[q]
        /\ answer = "success" => moved
        /\ answer = "refused" => ~moved
    BY <1>1 DEF ProviderAnswers, Inv, Types, TypeOK
  <1>8. sent[r] \in Nat /\ lost[r] \in Nat /\ sent[r] <= lost[r]
    <2>1. sent[r] \in Nat /\ lost[r] \in Nat
      BY DEF Inv, Types, TypeOK
    <2>2. ~(sent[r] > lost[r])
      BY <1>2 DEF Inv, Core, PaidIsClosed, Closed
    <2> QED
      BY <2>1, <2>2
  <1>9. refunds[r].approval # "pending" /\ refunds[r].status # "none"
    BY <1>1, <1>2 DEF Inv, Core, Settled
  <1>10. \A q \in Refunds \ {r} : Closed(q)' <=> Closed(q)
    BY <1>5, <1>6 DEF Closed
  <1>11. ProcessingIsCalled'
    BY <1>4, <1>5, <1>6 DEF Inv, Core, ProcessingIsCalled
  <1>12. Settled'
    BY <1>1, <1>4, <1>5, <1>6, <1>7, <1>9 DEF Inv, Core, Settled
  <1>13. HeldIsManual'
    BY <1>1, <1>6 DEF Inv, Core, HeldIsManual
  <1>14. sent'[r] <= lost'[r] + 1 /\ (sent'[r] > lost'[r] => Closed(r)')
    <2>1. sent'[r] <= lost'[r] + 1 /\ (sent'[r] > lost'[r] => answer = "success")
      BY <1>7, <1>8
    <2>2. answer = "success" => Closed(r)'
      BY <1>4, <1>6, <1>9 DEF Closed
    <2> QED
      BY <2>1, <2>2
  <1>15. PaidIsClosed'
    BY <1>1, <1>7, <1>10, <1>14 DEF Inv, Core, PaidIsClosed
  <1>16. Final
    BY <1>2, <1>7, <1>10 DEF Final, Closed
  <1> QED
    BY <1>11, <1>12, <1>13, <1>15, <1>16 DEF Core

LEMMA EvaluateStep ==
    ASSUME Inv, NEW r \in Refunds, NEW in \in Inputs, Evaluate(r, in)
    PROVE  Core' /\ Final
  <1> DEFINE decision == Decision(in)
             refund == [status   |-> IF decision = "manual_review" THEN "pending" ELSE decision,
                        auto     |-> decision = "approved",
                        held     |-> in.rule = "none" /\ in.disputed,
                        approval |-> IF decision = "manual_review" THEN "pending" ELSE "none"]
  <1>1. decision \in {"approved", "rejected", "manual_review"}
    BY RefundAssumption DEF Decision, BuiltIn
  <1>2. (in.rule = "none" /\ in.disputed) => decision = "manual_review"
    BY DEF Decision
  <1>3. refunds[r].status = "none" /\ sent[r] = 0 /\ Calls(r) = {}
    BY DEF Evaluate, Inv, Core, Settled, Refunds
  <1> HIDE DEF decision
  <1>4. refund \in Refund
    BY <1>1 DEF Refund, Statuses
  <1>5. refunds' = [refunds EXCEPT ![r] = refund] /\ UNCHANGED <<ticks, sent, lost>>
    BY DEF Evaluate, decision
  <1>6. /\ refund.status # "processing" /\ refund.status # "none"
        /\ refund.approval = "pending" => refund.status = "pending"
        /\ refund.held => refund.approval # "none"
    BY <1>1, <1>2
  <1>7. ~Closed(r)
    BY <1>3 DEF Closed
  <1> HIDE DEF refund
  <1> QED
    BY <1>3, <1>4, <1>5, <1>6, <1>7, RefundChanges

\* Approve, Reject, Cancel and ProcessSync.
LEMMA DecideStep ==
    ASSUME Inv, NEW r \in Refunds, Approve(r) \/ Reject(r) \/ Cancel(r) \/ ProcessSync(r)
    PROVE  Core' /\ Final
  <1>1. refunds[r] \in Refund /\ refunds \in [Refunds -> Refund]
    BY DEF Inv, Types, TypeOK
  <1>2. CASE Approve(r)
    <2> DEFINE refund == [refunds[r] EXCEPT !.approval = "approved", !.status = "approved"]
    <2>1. refund \in Refund /\ refund.approval = "approved" /\ refund.status = "approved"
      BY <1>1 DEF Refund, Statuses
    <2>2. refunds' = [refunds EXCEPT ![r] = refund] /\ UNCHANGED <<ticks, sent, lost>>
      BY <1>1, <1>2 DEF Approve, Refund
    <2>3. ~Closed(r) /\ Calls(r) = {}
      BY <1>2 DEF Approve, Resolvable, Closed, Inv, Core, Settled
    <2> HIDE DEF refund
    <2> QED
      BY <2>1, <2>2, <2>3, RefundChanges
  <1>3. CASE Reject(r)
    <2> DEFINE refund == [refunds[r] EXCEPT !.approval = "rejected", !.status = "rejected"]
    <2>1. refund \in Refund /\ refund.approval = "rejected" /\ refund.status = "rejected"
      BY <1>1 DEF Refund, Statuses
    <2>2. refunds' = [refunds EXCEPT ![r] = refund] /\ UNCHANGED <<ticks, sent, lost>>
      BY <1>1, <1>3 DEF Reject, Refund
    <2> HIDE DEF refund
    <2> QED
      BY <2>1, <2>2, RefundChanges
  <1>4. CASE Cancel(r)
    <2> DEFINE refund == [refunds[r] EXCEPT !.status = "cancelled"]
    <2>1. /\ refund \in Refund /\ refund.status = "cancelled"
          /\ refund.approval = refunds[r].approval /\ refund.held = refunds[r].held
      BY <1>1 DEF Refund, Statuses
    <2>2. refunds' = [refunds EXCEPT ![r] = refund] /\ UNCHANGED <<ticks, sent, lost>>
      BY <1>1, <1>4 DEF Cancel, Refund
    <2>3. /\ refunds[r].approval = "pending" => sent[r] = 0 /\ Calls(r) = {}
          /\ refunds[r].held => refunds[r].approval # "none"
      BY DEF Inv, Core, Settled, HeldIsManual
    <2> HIDE DEF refund
    <2> QED
      BY <2>1, <2>2, <2>3, RefundChanges DEF Closed
  <1>5. CASE ProcessSync(r)
    <2> DEFINE refund == [refunds[r] EXCEPT !.status = "completed"]
    <2>1. /\ refund \in Refund /\ refund.status = "completed"
          /\ refund.approval = refunds[r].approval /\ refund.held = refunds[r].held
      BY <1>1 DEF Refund, Statuses
    <2>2. refunds' = [refunds EXCEPT ![r] = refund] /\ UNCHANGED <<ticks, sent, lost>>
      BY <1>1, <1>5 DEF ProcessSync, Refund
    <2>3. /\ Calls(r) = {} /\ refunds[r].approval # "pending"
          /\ refunds[r].held => refunds[r].approval # "none"
      BY <1>5 DEF ProcessSync, Inv, Core, Settled, HeldIsManual, ProcessingIsCalled
    <2> HIDE DEF refund
    <2> QED
      BY <2>1, <2>2, <2>3, RefundChanges
  <1> QED
    BY <1>2, <1>3, <1>4, <1>5

LEMMA AutoProcessSyncStep ==
    ASSUME Inv, AutoProcessSync
    PROVE  Core' /\ Final
  <1>1. \A q \in Refunds : Calls(q)' = Calls(q)
    BY DEF AutoProcessSync, Calls
  <1>2. \A q \in Refunds :
            \/ refunds'[q] = refunds[q]
            \/ /\ refunds[q].status = "approved" /\ refunds'[q].status = "completed"
               /\ refunds'[q].approval = refunds[q].approval
               /\ refunds'[q].held = refunds[q].held
    BY DEF AutoProcessSync, AutoApproved, Inv, Types, TypeOK, Refund
  <1>3. UNCHANGED <<sent, lost>>
    BY DEF AutoProcessSync
  <1>4. \A q \in Refunds : Closed(q) => Closed(q)'
    BY <1>1, <1>2 DEF Closed
  <1>5. ProcessingIsCalled'
    BY <1>1, <1>2 DEF Inv, Core, ProcessingIsCalled
  <1>6. Settled' /\ HeldIsManual'
    BY <1>1, <1>2, <1>3 DEF Inv, Core, Settled, HeldIsManual
  <1>7. PaidIsClosed' /\ Final
    BY <1>3, <1>4 DEF Inv, Core, PaidIsClosed, Final
  <1> QED
    BY <1>5, <1>6, <1>7 DEF Core

LEMMA TakenJob ==
    ASSUME NEW job \in Job
    PROVE  LET taken == [job EXCEPT !.status = "running", !.attempts = @ + 1]
           IN  taken \in Job /\ taken.type = job.type /\ taken.refund = job.refund
  <1>1. PICK run \in Job : /\ run = [job EXCEPT !.status = "running"]
                           /\ run.attempts = job.attempts
                           /\ run.type = job.type /\ run.refund = job.refund
    <2>1. [job EXCEPT !.status = "running"] \in Job
      BY DEF Job
    <2> QED
      BY <2>1 DEF Job
  <1>2. /\ [run EXCEPT !.attempts = @ + 1] \in Job
        /\ [run EXCEPT !.attempts = @ + 1].type = run.type
        /\ [run EXCEPT !.attempts = @ + 1].refund = run.refund
    BY DEF Job
  <1> QED
    BY <1>1, <1>2

\* The loop of tick takes a job.
LEMMA TakeStep ==
    ASSUME Inv, NEW t \in Ticks, NEW todo \in SUBSET Jobs, NEW j \in Jobs,
           ticks[t].at = "loop", Take(t, todo, j)
    PROVE  Types' /\ Core' /\ Final
  <1> DEFINE job  == [jobs[j] EXCEPT !.status = "running", !.attempts = @ + 1]
             tick == [Idle EXCEPT !.todo = todo \ {j}, !.job = j]
  <1>1. jobs[j] \in Job /\ jobs \in [Jobs -> Job] /\ refunds \in [Refunds -> Refund]
        /\ ticks \in [Ticks -> Tick] /\ sent \in [Refunds -> Nat] /\ lost \in [Refunds -> Nat]
    BY DEF Inv, Types, TypeOK
  <1>2. PICK taken \in Job : taken = job /\ taken.type = jobs[j].type
                             /\ taken.refund = jobs[j].refund
    <2>1. job \in Job /\ job.type = jobs[j].type /\ job.refund = jobs[j].refund
      BY <1>1, TakenJob
    <2> QED
      BY <2>1
  <1>3. PICK begun \in Tick : begun = tick /\ begun.at = "loop" /\ begun.job = j
    <2>1. tick \in Tick /\ tick.at = "loop" /\ tick.job = j
      BY DEF Tick, Idle
    <2> QED
      BY <2>1
  <1>4. taken.type \in {"retry_failed", "process_single"} => taken.refund \in Refunds
    BY <1>2 DEF Inv, Types, JobsNamed
  <1>5. UNCHANGED <<sent, lost>>
    BY DEF Take
  <1>6. \E new \in Job : /\ new.type = taken.type /\ new.refund = taken.refund
                         /\ jobs' = [jobs EXCEPT ![j] = new]
    <2>1. \A new : new \in {taken, Thrown(taken), [taken EXCEPT !.status = "completed"]} =>
              new \in Job /\ new.type = taken.type /\ new.refund = taken.refund
      BY DEF Thrown, Job
    <2>2. \E new \in {taken, Thrown(taken), [taken EXCEPT !.status = "completed"]} :
              jobs' = [jobs EXCEPT ![j] = new]
      BY <1>2 DEF Take
    <2> QED
      BY <2>1, <2>2
  <1>7. jobs' \in [Jobs -> Job] /\ JobsNamed'
    BY <1>1, <1>2, <1>6 DEF Inv, Types, JobsNamed
  <1>8. \/ /\ \E new \in Tick : /\ GoOn(t, new)
                               /\ new.at # "provider" /\ (new.at # "loop" => new.job = j)
                               /\ (new.at = "import" => new.refund \in Refunds)
        \/ /\ taken.type = "retry_failed" /\ refunds[taken.refund].status = "failed"
           /\ CallProvider(t, begun, taken.refund)
    <2> DEFINE auto == [begun EXCEPT !.at = "auto", !.rest = AutoApproved]
               import == [begun EXCEPT !.at = "import", !.refund = taken.refund]
    <2>1. auto \in Tick /\ auto.at = "auto" /\ auto.job = j
      BY <1>3 DEF Tick, AutoApproved
    <2>2. taken.refund \in Refunds =>
              /\ import \in Tick /\ import.at = "import" /\ import.job = j
              /\ import.refund = taken.refund
      BY <1>3 DEF Tick
    <2>3. Looping(begun) \in Tick /\ Looping(begun).at = "loop"
      BY <1>3 DEF Looping, Idle, Tick
    <2>4. \/ GoOn(t, auto)
          \/ taken.type = "process_single" /\ GoOn(t, import)
          \/ GoOn(t, Looping(begun))
          \/ /\ taken.type = "retry_failed" /\ refunds[taken.refund].status = "failed"
             /\ CallProvider(t, begun, taken.refund)
      BY <1>2, <1>3 DEF Take
    <2> HIDE DEF auto, import
    <2> QED
      BY <1>4, <2>1, <2>2, <2>3, <2>4
  <1>9. CASE \E new \in Tick : /\ GoOn(t, new)
                               /\ new.at # "provider" /\ (new.at # "loop" => new.job = j)
                               /\ (new.at = "import" => new.refund \in Refunds)
    <2>1. PICK new \in Tick : /\ GoOn(t, new)
                              /\ new.at # "provider" /\ (new.at # "loop" => new.job = j)
                              /\ (new.at = "import" => new.refund \in Refunds)
      BY <1>9
    <2>2. TypeOK' /\ TicksNamed'
      BY <1>1, <1>5, <1>7, <2>1 DEF GoOn, TypeOK, Inv, Types, TicksNamed
    <2>3. Core' /\ Final
      BY <1>5, <2>1, TickMoves
    <2> QED
      BY <1>7, <2>2, <2>3 DEF Types
  <1>10. CASE /\ taken.type = "retry_failed" /\ refunds[taken.refund].status = "failed"
              /\ CallProvider(t, begun, taken.refund)
    <2>1. PICK new \in Tick : /\ ticks' = [ticks EXCEPT ![t] = new]
                              /\ new.job = j /\ new.refund \in Refunds
      <3> DEFINE calling == [begun EXCEPT !.refund = taken.refund, !.at = "provider"]
      <3>1. calling \in Tick /\ calling.job = j /\ calling.refund \in Refunds
        BY <1>3, <1>4, <1>10 DEF Tick
      <3>2. ticks' = [ticks EXCEPT ![t] = calling]
        BY <1>10 DEF CallProvider
      <3> HIDE DEF calling
      <3> QED
        BY <3>1, <3>2
    <2>2. refunds' \in [Refunds -> Refund]
      BY <1>1, <1>10 DEF CallProvider, Marked, Refund, Statuses
    <2>3. TypeOK' /\ TicksNamed'
      BY <1>1, <1>5, <1>7, <2>1, <2>2 DEF TypeOK, Inv, Types, TicksNamed
    <2>4. Core' /\ Final
      BY <1>4, <1>5, <1>10, TickCalls
    <2> QED
      BY <1>7, <2>3, <2>4 DEF Types
  <1> QED
    BY <1>8, <1>9, <1>10

LEMMA ThrownFinished ==
    ASSUME NEW job \in Job, NEW failed \in BOOLEAN
    PROVE  \A new \in {Thrown(job), Finished(job, failed)} :
               new \in Job /\ new.type = job.type /\ new.refund = job.refund
  BY DEF Thrown, Finished, Job

\* One job changes, and keeps its type and refund.
LEMMA JobChanges ==
    ASSUME Inv, NEW j \in Jobs, NEW new \in Job, jobs' = [jobs EXCEPT ![j] = new],
           new.type \in {"retry_failed", "process_single"} => new.refund \in Refunds
    PROVE  jobs' \in [Jobs -> Job] /\ JobsNamed'
  BY DEF Inv, Types, TypeOK, JobsNamed

\* One tick changes, and knows its job and refund.
LEMMA TickChanges ==
    ASSUME Inv, NEW t \in Ticks, NEW new \in Tick, ticks' = [ticks EXCEPT ![t] = new],
           new.at # "loop" => new.job \in Jobs,
           new.at \in {"import", "provider"} => new.refund \in Refunds
    PROVE  ticks' \in [Ticks -> Tick] /\ TicksNamed'
  BY DEF Inv, Types, TypeOK, TicksNamed

LEMMA LoopingTick == \A tick \in Tick : Looping(tick) \in Tick /\ Looping(tick).at = "loop"
  BY DEF Looping, Idle, Tick

\* A call of the provider keeps the types.
LEMMA CallTypes ==
    ASSUME Inv, NEW t \in Ticks, NEW tick \in Tick, NEW r \in Refunds, tick.job \in Jobs,
           CallProvider(t, tick, r)
    PROVE  refunds' \in [Refunds -> Refund] /\ ticks' \in [Ticks -> Tick] /\ TicksNamed'
  <1> DEFINE calling == [tick EXCEPT !.refund = r, !.at = "provider"]
  <1>1. calling \in Tick /\ calling.job = tick.job /\ calling.refund = r
    BY DEF Tick
  <1>2. ticks' = [ticks EXCEPT ![t] = calling]
    BY DEF CallProvider
  <1>3. refunds' \in [Refunds -> Refund]
    BY DEF CallProvider, Marked, Inv, Types, TypeOK, Refund, Statuses
  <1> HIDE DEF calling
  <1> QED
    BY <1>1, <1>2, <1>3, TickChanges

LEMMA AfterImportStep ==
    ASSUME Inv, NEW t \in Ticks, AfterImport(t)
    PROVE  Types' /\ Core' /\ Final
  <1>1. ticks[t] \in Tick /\ ticks[t].at = "import" /\ UNCHANGED <<sent, lost>>
    BY DEF AfterImport, Inv, Types, TypeOK
  <1>2. PICK r \in Refunds, j \in Jobs : r = ticks[t].refund /\ j = ticks[t].job
    BY <1>1 DEF Inv, Types, TicksNamed
  <1>3. CASE Processable(r)
    <2>1. CallProvider(t, ticks[t], r) /\ UNCHANGED jobs
      BY <1>2, <1>3 DEF AfterImport
    <2>2. Core' /\ Final
      BY <1>1, <1>3, <2>1, TickCalls DEF Processable
    <2>3. Types'
      BY <1>1, <1>2, <2>1, CallTypes DEF Inv, Types, TypeOK, JobsNamed
    <2> QED
      BY <2>2, <2>3
  <1>4. CASE ~Processable(r)
    <2>1. jobs' = [jobs EXCEPT ![j] = Thrown(jobs[j])] /\ GoOn(t, Looping(ticks[t]))
      BY <1>2, <1>4 DEF AfterImport
    <2>2. Core' /\ Final
      BY <1>1, <2>1, LoopingTick, TickMoves
    <2>3. jobs' \in [Jobs -> Job] /\ JobsNamed'
      <3>1. jobs[j] \in Job
        BY DEF Inv, Types, TypeOK
      <3>2. /\ Thrown(jobs[j]) \in Job /\ Thrown(jobs[j]).type = jobs[j].type
            /\ Thrown(jobs[j]).refund = jobs[j].refund
        BY <3>1, ThrownFinished
      <3> QED
        BY <2>1, <3>2, JobChanges DEF Inv, Types, JobsNamed
    <2>4. ticks' \in [Ticks -> Tick] /\ TicksNamed'
      BY <1>1, <2>1, LoopingTick, TickChanges DEF GoOn
    <2> QED
      BY <1>1, <2>1, <2>2, <2>3, <2>4 DEF GoOn, Inv, Types, TypeOK
  <1> QED
    BY <1>3, <1>4

LEMMA AutoNextStep ==
    ASSUME Inv, NEW t \in Ticks, NEW r \in Refunds, AutoNext(t, r)
    PROVE  Types' /\ Core' /\ Final
  <1>1. /\ ticks[t] \in Tick /\ ticks[t].at = "auto" /\ ticks[t].job \in Jobs
        /\ UNCHANGED <<jobs, sent, lost>>
    BY DEF AutoNext, Inv, Types, TypeOK, TicksNamed
  <1>2. PICK left \in Tick : /\ left = [ticks[t] EXCEPT !.rest = @ \ {r}]
                             /\ left.at = "auto" /\ left.job \in Jobs
    <2>1. [ticks[t] EXCEPT !.rest = @ \ {r}] \in Tick
      BY <1>1 DEF Tick
    <2> QED
      BY <1>1, <2>1 DEF Tick
  <1>3. CASE Processable(r)
    <2>1. CallProvider(t, left, r)
      BY <1>2, <1>3 DEF AutoNext
    <2>2. Core' /\ Final
      BY <1>1, <1>3, <2>1, TickCalls DEF Processable
    <2>3. Types'
      BY <1>1, <1>2, <2>1, CallTypes DEF Inv, Types, TypeOK, JobsNamed
    <2> QED
      BY <2>2, <2>3
  <1>4. CASE ~Processable(r)
    <2>1. PICK new \in Tick : GoOn(t, new) /\ new.at = "auto" /\ new.job \in Jobs
      <3>1. GoOn(t, [left EXCEPT !.failed = TRUE])
        BY <1>2, <1>4 DEF AutoNext
      <3>2. /\ [left EXCEPT !.failed = TRUE] \in Tick
            /\ [left EXCEPT !.failed = TRUE].at = "auto"
            /\ [left EXCEPT !.failed = TRUE].job \in Jobs
        BY <1>2 DEF Tick
      <3> QED
        BY <3>1, <3>2
    <2>2. Core' /\ Final
      BY <1>1, <2>1, TickMoves
    <2>3. ticks' \in [Ticks -> Tick] /\ TicksNamed'
      BY <2>1, TickChanges DEF GoOn
    <2> QED
      BY <1>1, <2>1, <2>2, <2>3 DEF GoOn, Inv, Types, TypeOK, JobsNamed
  <1> QED
    BY <1>3, <1>4

LEMMA AutoEndsStep ==
    ASSUME Inv, NEW t \in Ticks, AutoEnds(t)
    PROVE  Types' /\ Core' /\ Final
  <1>1. ticks[t] \in Tick /\ ticks[t].at = "auto" /\ UNCHANGED <<sent, lost>>
    BY DEF AutoEnds, Inv, Types, TypeOK
  <1>2. PICK j \in Jobs : j = ticks[t].job
    BY <1>1 DEF Inv, Types, TicksNamed
  <1>3. GoOn(t, Looping(ticks[t]))
    BY DEF AutoEnds
  <1>4. Core' /\ Final
    BY <1>1, <1>3, LoopingTick, TickMoves
  <1>5. jobs' \in [Jobs -> Job] /\ JobsNamed'
    <2>1. jobs[j] \in Job /\ ticks[t].failed \in BOOLEAN
      BY <1>1 DEF Inv, Types, TypeOK, Tick
    <2>2. PICK new \in Job : /\ new = Finished(jobs[j], ticks[t].failed)
                             /\ new.type = jobs[j].type /\ new.refund = jobs[j].refund
      BY <2>1, ThrownFinished
    <2>3. jobs' = [jobs EXCEPT ![j] = new]
      BY <1>2, <2>2 DEF AutoEnds
    <2> QED
      BY <2>2, <2>3, JobChanges DEF Inv, Types, JobsNamed
  <1>6. ticks' \in [Ticks -> Tick] /\ TicksNamed'
    BY <1>1, <1>3, LoopingTick, TickChanges DEF GoOn
  <1> QED
    BY <1>1, <1>3, <1>4, <1>5, <1>6 DEF GoOn, Inv, Types, TypeOK

LEMMA AnswerTypes ==
    ASSUME Inv, NEW t \in Ticks, NEW answer \in {"success", "refused", "threw"},
           NEW moved \in BOOLEAN, ProviderAnswers(t, answer, moved)
    PROVE  Types'
  <1>1. ticks[t] \in Tick /\ ticks[t].at = "provider"
    BY DEF ProviderAnswers, Inv, Types, TypeOK
  <1>2. PICK j \in Jobs, r \in Refunds : j = ticks[t].job /\ r = ticks[t].refund
    BY <1>1 DEF Inv, Types, TicksNamed
  <1>3. refunds' \in [Refunds -> Refund]
    <2>1. \A status \in {"completed", "failed"} :
              [refunds EXCEPT ![r].status = status] \in [Refunds -> Refund]
      BY DEF Inv, Types, TypeOK, Refund, Statuses
    <2> QED
      BY <1>2, <2>1 DEF ProviderAnswers
  <1>4. sent' \in [Refunds -> Nat] /\ lost' \in [Refunds -> Nat]
    <2>1. sent \in [Refunds -> Nat] /\ lost \in [Refunds -> Nat]
      BY DEF Inv, Types, TypeOK
    <2>2. /\ sent' = [sent EXCEPT ![r] = IF moved THEN sent[r] + 1 ELSE sent[r]]
          /\ lost' = [lost EXCEPT ![r] = IF moved /\ answer = "threw"
                                         THEN lost[r] + 1 ELSE lost[r]]
      BY <1>2 DEF ProviderAnswers
    <2>3. sent[r] + 1 \in Nat /\ lost[r] + 1 \in Nat
      BY <2>1
    <2> QED
      BY <2>1, <2>2, <2>3
  <1>5. jobs[j] \in Job
    BY DEF Inv, Types, TypeOK
  <1>6. CASE jobs[j].type = "auto_process"
    <2>1. PICK new \in Tick : /\ ticks' = [ticks EXCEPT ![t] = new]
                              /\ new.at = "auto" /\ new.job = j
      <3> DEFINE went == [ticks[t] EXCEPT !.at = "auto", !.refund = 0,
                                          !.failed = @ \/ answer = "threw"]
      <3>1. went \in Tick /\ went.at = "auto" /\ went.job = j
        BY <1>1, <1>2 DEF Tick
      <3>2. ticks' = [ticks EXCEPT ![t] = went]
        BY <1>2, <1>6 DEF ProviderAnswers
      <3> HIDE DEF went
      <3> QED
        BY <3>1, <3>2
    <2>2. ticks' \in [Ticks -> Tick] /\ TicksNamed'
      BY <2>1, TickChanges
    <2>3. UNCHANGED jobs
      BY <1>2, <1>6 DEF ProviderAnswers
    <2> QED
      BY <1>3, <1>4, <2>2, <2>3 DEF Inv, Types, TypeOK, JobsNamed
  <1>7. CASE jobs[j].type # "auto_process"
    <2>1. ticks' \in [Ticks -> Tick] /\ TicksNamed'
      <3>1. ticks' = [ticks EXCEPT ![t] = Looping(ticks[t])]
        BY <1>2, <1>7 DEF ProviderAnswers
      <3> QED
        BY <1>1, <3>1, LoopingTick, TickChanges
    <2>2. PICK new \in Job : /\ jobs' = [jobs EXCEPT ![j] = new]
                             /\ new.type = jobs[j].type /\ new.refund = jobs[j].refund
      <3>1. jobs' = [jobs EXCEPT ![j] = IF answer = "threw" THEN Thrown(jobs[j])
                                                            ELSE Finished(jobs[j], FALSE)]
        BY <1>2, <1>7 DEF ProviderAnswers
      <3>2. \A new \in {Thrown(jobs[j]), Finished(jobs[j], FALSE)} :
                new \in Job /\ new.type = jobs[j].type /\ new.refund = jobs[j].refund
        BY <1>5, ThrownFinished
      <3> QED
        BY <3>1, <3>2
    <2>3. jobs' \in [Jobs -> Job] /\ JobsNamed'
      BY <2>2, JobChanges DEF Inv, Types, JobsNamed
    <2> QED
      BY <1>3, <1>4, <2>1, <2>3 DEF Types, TypeOK
  <1> QED
    BY <1>6, <1>7

\* The routes that touch refunds only.
LEMMA CallerTypes ==
    ASSUME Inv,
           \/ \E r \in Refunds : \/ \E in \in Inputs : Evaluate(r, in)
                                 \/ Approve(r) \/ Reject(r) \/ Cancel(r) \/ ProcessSync(r)
           \/ AutoProcessSync
    PROVE  Types'
  <1>1. UNCHANGED <<jobs, ticks, sent, lost>>
    BY DEF Evaluate, Approve, Reject, Cancel, ProcessSync, AutoProcessSync
  <1>2. refunds' \in [Refunds -> Refund]
    <2>1. ASSUME NEW r \in Refunds, NEW in \in Inputs, Evaluate(r, in)
          PROVE  refunds' \in [Refunds -> Refund]
      <3> DEFINE decision == Decision(in)
      <3>1. decision \in {"approved", "rejected", "manual_review"}
        BY RefundAssumption DEF Decision, BuiltIn
      <3>2. refunds' = [refunds EXCEPT ![r] =
               [status   |-> IF decision = "manual_review" THEN "pending" ELSE decision,
                auto     |-> decision = "approved",
                held     |-> in.rule = "none" /\ in.disputed,
                approval |-> IF decision = "manual_review" THEN "pending" ELSE "none"]]
        BY <2>1 DEF Evaluate
      <3> HIDE DEF decision
      <3>3. [status   |-> IF decision = "manual_review" THEN "pending" ELSE decision,
             auto     |-> decision = "approved",
             held     |-> in.rule = "none" /\ in.disputed,
             approval |-> IF decision = "manual_review" THEN "pending" ELSE "none"] \in Refund
        BY <3>1 DEF Refund, Statuses
      <3> QED
        BY <3>2, <3>3 DEF Inv, Types, TypeOK
    <2>2. ASSUME NEW r \in Refunds, Approve(r) \/ Reject(r) \/ Cancel(r) \/ ProcessSync(r)
          PROVE  refunds' \in [Refunds -> Refund]
      <3>1. refunds[r] \in Refund /\ refunds \in [Refunds -> Refund]
        BY DEF Inv, Types, TypeOK
      <3>2. /\ \A status \in Statuses : [refunds[r] EXCEPT !.status = status] \in Refund
            /\ \A x \in {"approved", "rejected"} :
                   [refunds[r] EXCEPT !.approval = x, !.status = x] \in Refund
        BY <3>1 DEF Refund, Statuses
      <3>3. CASE Approve(r) \/ Reject(r)
        <4>1. \E x \in {"approved", "rejected"} :
                  refunds' = [refunds EXCEPT ![r] = [refunds[r] EXCEPT !.approval = x, !.status = x]]
          BY <3>1, <3>3 DEF Approve, Reject, Refund
        <4> QED
          BY <3>1, <3>2, <4>1
      <3>4. CASE Cancel(r) \/ ProcessSync(r)
        <4>1. \E status \in Statuses :
                  refunds' = [refunds EXCEPT ![r] = [refunds[r] EXCEPT !.status = status]]
          BY <3>1, <3>4 DEF Cancel, ProcessSync, Statuses
        <4> QED
          BY <3>1, <3>2, <4>1
      <3> QED
        BY <2>2, <3>3, <3>4
    <2>3. ASSUME AutoProcessSync
          PROVE  refunds' \in [Refunds -> Refund]
      BY <2>3 DEF AutoProcessSync, Inv, Types, TypeOK, Refund, Statuses
    <2> QED
      BY <2>1, <2>2, <2>3
  <1> QED
    BY <1>1, <1>2 DEF Inv, Types, TypeOK, JobsNamed, TicksNamed

\* The steps that touch jobs only.
LEMMA JobStep ==
    ASSUME Inv, NEW j \in Jobs,
           \/ \E type \in {"auto_process", "retry_failed", "process_single"},
                 r \in Refunds \cup {0} : Enqueue(j, type, r)
           \/ CancelJob(j) \/ DelayElapses(j)
    PROVE  Types' /\ Core' /\ Final
  <1>1. UNCHANGED <<refunds, ticks, sent, lost>>
    BY DEF Enqueue, CancelJob, DelayElapses
  <1>2. PICK new \in Job : /\ jobs' = [jobs EXCEPT ![j] = new]
                           /\ new.type \in {"retry_failed", "process_single"} =>
                                  new.refund \in Refunds
    <2>1. ASSUME NEW type \in {"auto_process", "retry_failed", "process_single"},
                 NEW r \in Refunds \cup {0}, Enqueue(j, type, r)
          PROVE  \E new \in Job : /\ jobs' = [jobs EXCEPT ![j] = new]
                                  /\ new.type \in {"retry_failed", "process_single"} =>
                                         new.refund \in Refunds
      <3> DEFINE new == [type |-> type, refund |-> r, due |-> TRUE,
                         attempts |-> 0, status |-> "queued"]
      <3>1. new \in Job
        BY DEF Job
      <3>2. jobs' = [jobs EXCEPT ![j] = new] /\ (type # "auto_process" => r \in Refunds)
        BY <2>1 DEF Enqueue
      <3> QED
        BY <3>1, <3>2
    <2>2. ASSUME CancelJob(j) \/ DelayElapses(j)
          PROVE  \E new \in Job : /\ jobs' = [jobs EXCEPT ![j] = new]
                                  /\ new.type \in {"retry_failed", "process_single"} =>
                                         new.refund \in Refunds
      <3>1. jobs[j] \in Job
        BY DEF Inv, Types, TypeOK
      <3>2. \A new \in {[jobs[j] EXCEPT !.status = "cancelled"], [jobs[j] EXCEPT !.due = TRUE]} :
                new \in Job /\ new.type = jobs[j].type /\ new.refund = jobs[j].refund
        BY <3>1 DEF Job
      <3>3. \E new \in {[jobs[j] EXCEPT !.status = "cancelled"], [jobs[j] EXCEPT !.due = TRUE]} :
                jobs' = [jobs EXCEPT ![j] = new]
        BY <2>2 DEF CancelJob, DelayElapses
      <3> QED
        BY <3>2, <3>3 DEF Inv, Types, JobsNamed
    <2> QED
      BY <2>1, <2>2
  <1>3. jobs' \in [Jobs -> Job] /\ JobsNamed'
    BY <1>2, JobChanges
  <1> QED
    BY <1>1, <1>3, Unmoved DEF Inv, Types, TypeOK, TicksNamed

LEMMA NextStep == Inv /\ [Next]_vars => Inv' /\ Final
  <1> SUFFICES ASSUME Inv, [Next]_vars PROVE Types' /\ Core' /\ Final
    BY DEF Inv
  <1>1. ASSUME NEW r \in Refunds, NEW in \in Inputs, Evaluate(r, in)
        PROVE  Types' /\ Core' /\ Final
    BY <1>1, EvaluateStep, CallerTypes
  <1>2. ASSUME NEW r \in Refunds, Approve(r) \/ Reject(r) \/ Cancel(r) \/ ProcessSync(r)
        PROVE  Types' /\ Core' /\ Final
    BY <1>2, DecideStep, CallerTypes
  <1>3. CASE AutoProcessSync
    BY <1>3, AutoProcessSyncStep, CallerTypes
  <1>4. ASSUME NEW j \in Jobs,
               \/ \E type \in {"auto_process", "retry_failed", "process_single"},
                     r \in Refunds \cup {0} : Enqueue(j, type, r)
               \/ CancelJob(j) \/ DelayElapses(j)
        PROVE  Types' /\ Core' /\ Final
    BY <1>4, JobStep
  <1>5. ASSUME NEW t \in Ticks, NEW j \in Jobs, StartTick(t, j)
        PROVE  Types' /\ Core' /\ Final
    <2>1. ticks[t].at = "loop"
      BY <1>5 DEF StartTick, Idle
    <2> QED
      BY <1>5, <2>1, TakeStep DEF StartTick
  <1>6. ASSUME NEW t \in Ticks, NEW j \in Jobs, TakeNext(t, j)
        PROVE  Types' /\ Core' /\ Final
    <2>1. ticks[t].todo \in SUBSET Jobs
      BY DEF Inv, Types, TypeOK, Tick
    <2> QED
      BY <1>6, <2>1, TakeStep DEF TakeNext
  <1>7. ASSUME NEW t \in Ticks, AfterImport(t)
        PROVE  Types' /\ Core' /\ Final
    BY <1>7, AfterImportStep
  <1>8. ASSUME NEW t \in Ticks, AutoEnds(t)
        PROVE  Types' /\ Core' /\ Final
    BY <1>8, AutoEndsStep
  <1>9. ASSUME NEW t \in Ticks, NEW r \in Refunds, AutoNext(t, r)
        PROVE  Types' /\ Core' /\ Final
    BY <1>9, AutoNextStep
  <1>10. ASSUME NEW t \in Ticks, NEW answer \in {"success", "refused", "threw"},
                NEW moved \in BOOLEAN, ProviderAnswers(t, answer, moved)
         PROVE  Types' /\ Core' /\ Final
    BY <1>10, AnswerStep, AnswerTypes
  <1>11. CASE UNCHANGED vars
    BY <1>11, Unmoved DEF vars, Inv, Types, TypeOK, JobsNamed, TicksNamed
  <1> QED
    BY <1>1, <1>2, <1>3, <1>4, <1>5, <1>6, <1>7, <1>8, <1>9, <1>10, <1>11
       DEF Next, Callers, Start, Run, Answer

-----------------------------------------------------------------------------

LEMMA InvHolds == Spec => []Inv
  <1>1. Inv /\ [Next]_vars => Inv'
    BY NextStep
  <1> QED
    BY InitInv, <1>1, PTL DEF Spec

\* The variables of the refund engine and its queue keep their types.
THEOREM RefundTypes == Spec => []TypeOK
  <1>1. Inv => TypeOK
    BY DEF Inv, Types
  <1> QED
    BY InvHolds, <1>1, PTL

\* processRefund never awaits the provider twice at once for a refund, and its marks agree.
THEOREM AwaitedOnce == Spec => []ProcessingIsCalled
  <1>1. Inv => ProcessingIsCalled
    BY DEF Inv, Core
  <1> QED
    BY InvHolds, <1>1, PTL

\* For any number of refunds, jobs, ticks and lost answers, a refund is paid once but for calls
\* the provider rejected after paying.
THEOREM PaidOnce == Spec => []RefundedOnce
  <1>1. Inv => RefundedOnce
    BY DEF Inv, Core, PaidIsClosed, RefundedOnce
  <1> QED
    BY InvHolds, <1>1, PTL

\* No disputed refund that the policy held is paid or completed before it was approved.
THEOREM ReviewedBeforePaid == Spec => []DisputedIsReviewed
  <1>1. Inv => DisputedIsReviewed
    <2> SUFFICES ASSUME Inv, NEW r \in Refunds, refunds[r].held,
                        sent[r] > 0 \/ refunds[r].status = "completed"
                 PROVE  refunds[r].approval \in {"approved", "rejected"}
      BY DEF DisputedIsReviewed
    <2>1. refunds[r].approval # "pending" /\ refunds[r].approval # "none"
      BY DEF Inv, Core, Settled, HeldIsManual
    <2>2. refunds[r].approval \in {"none", "pending", "approved", "rejected"}
      BY DEF Inv, Types, TypeOK, Refund
    <2> QED
      BY <2>1, <2>2
  <1> QED
    BY InvHolds, <1>1, PTL

\* A closed refund stays closed and unpaid, by the same invariant.
THEOREM ClosedStaysClosed == Spec => ClosedIsFinal
  <1>1. Inv /\ [Next]_vars => [Final]_vars
    BY NextStep
  <1> QED
    BY InvHolds, <1>1, PTL DEF Spec, ClosedIsFinal, Final
=============================================================================
