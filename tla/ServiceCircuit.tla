--------------------------- MODULE ServiceCircuit ---------------------------
(***************************************************************************)
(* One named circuit of backend/src/middleware/circuit-breaker.ts, which   *)
(* the Stripe, Stellar, EVM and Soroban clients call their services        *)
(* through: withCircuitBreaker around a call, and the Express middleware   *)
(* around a request.                                                       *)
(*                                                                         *)
(* A call races its function against a timer that nothing ever cancels:    *)
(* the timer fires also after the function has answered.  Calls that are   *)
(* refused change nothing, and the metrics are left out.  The counter of   *)
(* failures saturates at its threshold, as nothing tells larger ones       *)
(* apart.  Time is counted in ticks.                                       *)
(*                                                                         *)
(* The names differ from those of Idempotency, the other middleware with a *)
(* state of its own, as the proofs of both are in one module.              *)
(***************************************************************************)
EXTENDS Naturals, FiniteSetsExt

CONSTANTS
    Calls,              \* bound: calls whose function or timer is under way
    HttpRequests,       \* bound: requests under way behind the middleware
    failureThreshold, successThreshold, timeoutMs, halfOpenMaxCalls, requestTimeoutMs

ASSUME CircuitAssumption ==
    /\ failureThreshold \in Nat \ {0} /\ successThreshold \in Nat \ {0}
    /\ timeoutMs \in Nat /\ halfOpenMaxCalls \in Nat /\ requestTimeoutMs \in Nat

VARIABLES
    circuit,            \* state and counters; since is the time since openedAt
    calls,              \* calls of withCircuitBreaker
    httpRequests,       \* the requests that were let through and have not answered
    trials,             \* history: calls let through since the circuit became half open
    lost                \* history: a request ended without an outcome while half open

circuitVars == <<circuit, calls, httpRequests, trials, lost>>

Closed == [state |-> "closed", failures |-> 0, successes |-> 0, halfOpenCalls |-> 0,
           since |-> timeoutMs]
Unused == [phase |-> "free", age |-> 0]

CircuitInit ==
    /\ circuit = Closed
    /\ calls = [k \in Calls |-> Unused]
    /\ httpRequests = {}
    /\ trials = 0
    /\ lost = FALSE

-----------------------------------------------------------------------------
(* The circuit *)

\* onFailure
Failed(c) ==
    LET failures == Min({c.failures + 1, failureThreshold})
    IN  IF c.state = "half_open" \/ failures >= failureThreshold
        THEN [c EXCEPT !.state = "open", !.failures = failures, !.since = 0,
                       !.successes = 0, !.halfOpenCalls = 0]
        ELSE [c EXCEPT !.failures = failures]

\* Mutant: a success takes a failure back in every state.
MutSucceeded(c) ==
    IF c.state = "half_open"
    THEN IF c.successes + 1 >= successThreshold THEN [Closed EXCEPT !.since = c.since]
         ELSE [c EXCEPT !.successes = @ + 1]
    ELSE [c EXCEPT !.failures = Max({0, @ - 1})]

\* onSuccess
Succeeded(c) ==
    CASE c.state = "half_open" ->
            IF c.successes + 1 >= successThreshold THEN [Closed EXCEPT !.since = c.since]
            ELSE [c EXCEPT !.successes = @ + 1]
      [] c.state = "closed" -> [c EXCEPT !.failures = IF @ > 0 THEN @ - 1 ELSE 0]
      [] c.state = "open" -> c

\* Mutant: one call more than the limit.
MutHasPermit(c) == c.halfOpenCalls <= halfOpenMaxCalls
HasPermit(c) == c.halfOpenCalls < halfOpenMaxCalls

\* shouldAllow, where it answers true.  The call that finds the time over is not counted.
Allow ==
    \/ /\ circuit.state = "closed"
       /\ UNCHANGED <<circuit, trials, lost>>
    \/ /\ circuit.state = "open" /\ circuit.since >= timeoutMs
       /\ circuit' = [circuit EXCEPT !.state = "half_open", !.successes = 0,
                                     !.halfOpenCalls = 0]
       /\ trials' = 1
       /\ lost' = FALSE
    \/ /\ circuit.state = "half_open" /\ HasPermit(circuit)
       /\ circuit' = [circuit EXCEPT !.halfOpenCalls = @ + 1]
       /\ trials' = trials + 1
       /\ UNCHANGED lost

CountFailure == circuit' = Failed(circuit) /\ UNCHANGED trials
CountSuccess == circuit' = Succeeded(circuit) /\ UNCHANGED trials
CountNothing == UNCHANGED <<circuit, trials>>

-----------------------------------------------------------------------------
(* withCircuitBreaker *)

StartCall(k) ==
    /\ calls[k].phase = "free"
    /\ Allow
    /\ calls' = [calls EXCEPT ![k] = [phase |-> "racing", age |-> 0]]
    /\ UNCHANGED httpRequests

Settle(k) ==
    /\ calls[k].phase = "racing"
    /\ calls' = [calls EXCEPT ![k].phase = "settled"]
    /\ UNCHANGED <<httpRequests, lost>>

CallResolves(k) == Settle(k) /\ CountSuccess
CallThrows(k)   == Settle(k) /\ CountFailure

\* An error of another circuit is not counted.
CallThrowsCircuitError(k) == Settle(k) /\ CountNothing

\* Mutant: a timeout is reported and not counted.
MutTimedOut(k) == CountNothing

\* onTimeout.  A function that is still running goes on, and its answer is dropped.
TimedOut(k) == CountFailure

TimerFires(k) ==
    /\ calls[k].phase # "free" /\ calls[k].age >= requestTimeoutMs
    /\ TimedOut(k)
    /\ calls' = [calls EXCEPT ![k] = Unused]
    /\ UNCHANGED <<httpRequests, lost>>

-----------------------------------------------------------------------------
(* The middleware *)

StartRequest(r) ==
    /\ r \notin httpRequests
    /\ Allow
    /\ httpRequests' = httpRequests \cup {r}
    /\ UNCHANGED calls

\* The response is sent with res.json.
RequestAnswers(r) ==
    /\ r \in httpRequests
    /\ httpRequests' = httpRequests \ {r}
    /\ CountSuccess \/ CountFailure
    /\ UNCHANGED <<calls, lost>>

\* The response is sent in another way, or not at all.
RequestEnds(r) ==
    /\ r \in httpRequests
    /\ httpRequests' = httpRequests \ {r}
    /\ CountNothing
    /\ lost' = (lost \/ circuit.state = "half_open")
    /\ UNCHANGED calls

-----------------------------------------------------------------------------

ResetCircuit ==
    /\ circuit' = Closed
    /\ trials' = 0
    /\ UNCHANGED <<calls, httpRequests, lost>>

Tick ==
    /\ circuit' = [circuit EXCEPT !.since = Min({timeoutMs, @ + 1})]
    /\ calls' = [k \in Calls |-> IF calls[k].phase = "free" THEN Unused
                                 ELSE [calls[k] EXCEPT !.age = Min({requestTimeoutMs, @ + 1})]]
    /\ UNCHANGED <<httpRequests, trials, lost>>

CircuitNext ==
    \/ \E k \in Calls :
          StartCall(k) \/ CallResolves(k) \/ CallThrows(k) \/ CallThrowsCircuitError(k)
             \/ TimerFires(k)
    \/ \E r \in HttpRequests : StartRequest(r) \/ RequestAnswers(r) \/ RequestEnds(r)
    \/ ResetCircuit
    \/ Tick

CircuitSpec == CircuitInit /\ [][CircuitNext]_circuitVars

\* Time passes, timers fire, requests end, and the service is called again and again.
Fairness ==
    /\ WF_circuitVars(Tick)
    /\ \A r \in HttpRequests : WF_circuitVars(RequestAnswers(r) \/ RequestEnds(r))
    /\ \A k \in Calls : WF_circuitVars(StartCall(k)) /\ WF_circuitVars(TimerFires(k))

CircuitFairSpec == CircuitSpec /\ Fairness

-----------------------------------------------------------------------------
(* Correctness *)

CircuitTypeOK ==
    /\ circuit \in [state: {"closed", "open", "half_open"}, failures: 0..failureThreshold,
                    successes: 0..successThreshold - 1, halfOpenCalls: 0..halfOpenMaxCalls,
                    since: 0..timeoutMs]
    /\ calls \in [Calls -> [phase: {"free", "racing", "settled"}, age: 0..requestTimeoutMs]]
    /\ httpRequests \subseteq HttpRequests
    /\ trials \in Nat /\ lost \in BOOLEAN

\* A circuit is closed exactly while its failures are below the threshold, whatever late
\* outcomes of calls of earlier states are counted: no failure is forgiven while it is open.
OpenMeansFailing == circuit.state # "closed" <=> circuit.failures = failureThreshold

\* A circuit does not stay half open: it closes or opens again, unless the permit of a
\* trial request went with a response that no outcome was counted of.  This rests on a
\* configuration that permits the trials it asks for: with successThreshold above
\* halfOpenMaxCalls + 1, all trials may succeed and the circuit be half open for good.
LeavesHalfOpen == circuit.state = "half_open" ~> circuit.state # "half_open" \/ lost

\* Beside the call that makes a circuit half open, which takes no permit, at most
\* halfOpenMaxCalls are let through it, however calls of earlier states end.
TrialsBounded == circuit.state = "half_open" => trials <= halfOpenMaxCalls + 1
=============================================================================
