--------------------------- MODULE CircuitBreaker ---------------------------
(***************************************************************************)
(* The circuit breaker of backend/src/services/circuitBreaker.ts: calls    *)
(* that are let through, answer late, fail, time out or fail in a way that *)
(* is ignored, a window of outcomes and the trial of a half-open breaker.  *)
(*                                                                         *)
(* Calls that are refused change nothing; fallbacks, listeners, metrics    *)
(* and failClosed, which nothing reads, are left out.  Consecutive         *)
(* failures saturate at their threshold, as nothing tells larger numbers   *)
(* apart.  Time is counted in ticks.                                       *)
(***************************************************************************)
EXTENDS Naturals, Sequences, FiniteSetsExt, SequencesExt

CONSTANTS
    Calls,              \* bound: calls under way
    slidingWindowSize, minimumCallsToOpen, failureRateThreshold, failureThreshold,
    successThreshold, waitDurationInOpenState, permittedNumberOfCallsInHalfOpenState,
    requestTimeoutMs    \* 0 for no timeout

ASSUME BreakerAssumption ==
    /\ slidingWindowSize \in Nat \ {0} /\ minimumCallsToOpen \in Nat
    /\ failureRateThreshold \in 0..100
    /\ failureThreshold \in Nat \ {0} /\ successThreshold \in Nat \ {0}
    /\ waitDurationInOpenState \in Nat /\ requestTimeoutMs \in Nat
    /\ permittedNumberOfCallsInHalfOpenState \in Nat \ {0}

VARIABLES
    breaker,        \* the state of the breaker; since is the time since openedAt
    calls,          \* for every call under way, for how long
    lost            \* history: an outcome was exempted or forgotten since then

vars == <<breaker, calls, lost>>

Free == [on |-> FALSE, age |-> 0]

Closed == [state |-> "closed", consecutiveFailures |-> 0, consecutiveSuccesses |-> 0,
           permittedCalls |-> 0, since |-> 0, outcomes |-> << >>]

Init ==
    /\ breaker = Closed
    /\ calls = [k \in Calls |-> Free]
    /\ lost = FALSE

-----------------------------------------------------------------------------
(* The breaker *)

\* transitionToOpen
Opened(b) == [b EXCEPT !.state = "open", !.since = 0, !.consecutiveFailures = 0,
                       !.consecutiveSuccesses = 0, !.permittedCalls = 0]

\* transitionToHalfOpen
HalfOpened(b) == [b EXCEPT !.state = "half_open", !.permittedCalls = 0,
                           !.consecutiveSuccesses = 0]

\* Mutant: the window keeps one outcome too many.
MutRecorded(b, success) ==
    LET outcomes == Append(b.outcomes, success)
    IN  [b EXCEPT !.outcomes = IF Len(b.outcomes) > slidingWindowSize THEN Tail(outcomes)
                               ELSE outcomes]

\* recordOutcome
Recorded(b, success) ==
    LET outcomes == Append(b.outcomes, success)
    IN  [b EXCEPT !.outcomes = IF Len(outcomes) > slidingWindowSize THEN Tail(outcomes)
                               ELSE outcomes]

\* shouldTripByFailureRate
TripsByRate(outcomes) ==
    LET failed == Len(SelectSeq(outcomes, LAMBDA success : ~success))
    IN  /\ Len(outcomes) >= minimumCallsToOpen
        /\ failed * 100 >= failureRateThreshold * Len(outcomes)

\* Mutant: a success does not end a row of failures.
MutSucceeded(b) ==
    LET c == [Recorded(b, TRUE) EXCEPT !.consecutiveSuccesses =
                  IF b.state = "half_open" THEN @ + 1 ELSE 0]
    IN  IF c.consecutiveSuccesses >= successThreshold THEN Closed ELSE c

\* recordSuccess
Succeeded(b) ==
    LET c == Recorded(b, TRUE)
    IN  CASE b.state = "half_open" ->
                IF b.consecutiveSuccesses + 1 >= successThreshold THEN Closed
                ELSE [c EXCEPT !.consecutiveSuccesses = @ + 1]
          [] b.state = "closed" ->
                [c EXCEPT !.consecutiveFailures = 0, !.consecutiveSuccesses = 0]
          [] b.state = "open" -> c

\* recordFailure
Failed(b) ==
    LET c == [Recorded(b, FALSE) EXCEPT
                 !.consecutiveFailures = Min({@ + 1, failureThreshold}),
                 !.consecutiveSuccesses = 0]
    IN  IF \/ b.state = "half_open"
           \/ /\ b.state = "closed"
              /\ \/ c.consecutiveFailures >= failureThreshold
                 \/ TripsByRate(c.outcomes)
        THEN Opened(c)
        ELSE c

FirstTrial(b) == [HalfOpened(b) EXCEPT !.permittedCalls = 1]

Update(b) == breaker' = b /\ UNCHANGED lost

-----------------------------------------------------------------------------
(* protect *)

\* isCallPermitted, where it answers true.
StartCall(k) ==
    /\ ~calls[k].on
    /\ calls' = [calls EXCEPT ![k].on = TRUE]
    /\ \/ /\ breaker.state = "closed"
          /\ UNCHANGED <<breaker, lost>>
       \/ /\ breaker.state = "open" /\ breaker.since >= waitDurationInOpenState
          /\ breaker' = FirstTrial(breaker)
          /\ lost' = FALSE
       \/ /\ breaker.state = "half_open"
          /\ breaker.permittedCalls < permittedNumberOfCallsInHalfOpenState
          /\ breaker' = [breaker EXCEPT !.permittedCalls = @ + 1]
          /\ UNCHANGED lost

Ends(k) == calls[k].on /\ calls' = [calls EXCEPT ![k] = Free]

CallResolves(k) == Ends(k) /\ Update(Succeeded(breaker))
CallThrows(k)   == Ends(k) /\ Update(Failed(breaker))

\* The outcome of a call, or the row of successes, is dropped.
Loses == lost' = (lost \/ breaker.state = "half_open")

\* An error that a predicate exempts, or a CircuitBreakerError of another breaker.
CallThrowsIgnored(k) == Ends(k) /\ Loses /\ UNCHANGED breaker

\* Mutant: a call that took too long is not counted.
MutTimedOut(b) == b
TimedOut(b) == Failed(b)

\* The answer that the function may still give is dropped.
CallTimesOut(k) ==
    /\ requestTimeoutMs > 0 /\ calls[k].age >= requestTimeoutMs
    /\ Ends(k)
    /\ Update(TimedOut(breaker))

-----------------------------------------------------------------------------

Reset ==
    /\ breaker' = Closed
    /\ UNCHANGED <<calls, lost>>

ResetMetrics ==
    /\ breaker' = [breaker EXCEPT !.outcomes = << >>, !.consecutiveFailures = 0,
                                  !.consecutiveSuccesses = 0]
    /\ Loses
    /\ UNCHANGED calls

Tick ==
    /\ breaker' = [breaker EXCEPT !.since = Min({waitDurationInOpenState, @ + 1})]
    /\ calls' = [k \in Calls |-> IF ~calls[k].on THEN Free
                                 ELSE [calls[k] EXCEPT !.age = Min({requestTimeoutMs, @ + 1})]]
    /\ UNCHANGED lost

Next ==
    \/ \E k \in Calls :
          StartCall(k) \/ CallResolves(k) \/ CallThrows(k) \/ CallThrowsIgnored(k)
             \/ CallTimesOut(k)
    \/ Reset
    \/ ResetMetrics
    \/ Tick

Spec == Init /\ [][Next]_vars

\* Time passes, timers fire, and the service is called again and again; nobody has to
\* reset the breaker.
Fairness ==
    /\ WF_vars(Tick)
    /\ \A k \in Calls : WF_vars(StartCall(k)) /\ WF_vars(CallTimesOut(k))

FairSpec == Spec /\ Fairness

-----------------------------------------------------------------------------
(* Correctness *)

TypeOK ==
    /\ breaker \in [state: {"closed", "open", "half_open"},
                    consecutiveFailures: 0..failureThreshold,
                    consecutiveSuccesses: 0..successThreshold - 1,
                    permittedCalls: 0..permittedNumberOfCallsInHalfOpenState,
                    since: 0..waitDurationInOpenState, outcomes: Seq(BOOLEAN)]
    /\ Len(breaker.outcomes) <= slidingWindowSize
    /\ calls \in [Calls -> [on: BOOLEAN, age: 0..requestTimeoutMs]]
    /\ lost \in BOOLEAN

\* The two records that decide when a closed breaker opens agree, whatever late outcomes
\* and resets there were: the row of consecutive failures is the end of the window.
WindowAgrees ==
    breaker.state = "closed" =>
        LET outcomes == breaker.outcomes
        IN  \A n \in 1..Len(outcomes) :
                n <= breaker.consecutiveFailures <=>
                    \A i \in Len(outcomes) - n + 1 .. Len(outcomes) : ~outcomes[i]

\* A breaker does not stay half open: its trial closes it or opens it again, unless an
\* outcome was exempted meanwhile, whose permit nobody gives back, or the successes so far
\* were forgotten.  This rests on a configuration that permits the trials it asks for: with
\* successThreshold above permittedNumberOfCallsInHalfOpenState, all trials may succeed and
\* the breaker be half open for good.
LeavesHalfOpen == breaker.state = "half_open" ~> breaker.state # "half_open" \/ lost
=============================================================================
