------------------------ MODULE CircuitBreakerProofs ------------------------
(***************************************************************************)
(* Proofs that the sliding-window breaker keeps its types and limits, and  *)
(* that its window and its row of failures agree, for every configuration  *)
(* and any number of calls.                                                *)
(***************************************************************************)
EXTENDS CircuitBreaker, SequenceTheorems, TLAPS

\* The last c outcomes of a window are failures, and no more than these in a row.
Row(s, c) ==
    \A n \in 1..Len(s) : n <= c <=> \A i \in Len(s) - n + 1 .. Len(s) : ~s[i]

\* A closed breaker has room for another failure.
RowIsShort == breaker.state = "closed" => breaker.consecutiveFailures < failureThreshold

BreakerInv == TypeOK /\ WindowAgrees /\ RowIsShort

-----------------------------------------------------------------------------
(* Windows *)

LEMMA RowAfterFailure ==
    ASSUME NEW s \in Seq(BOOLEAN), NEW c \in Nat, Row(s, c)
    PROVE  Row(Append(s, FALSE), c + 1)
<1> DEFINE t == Append(s, FALSE)
<1>1. /\ Len(t) = Len(s) + 1 /\ Len(s) \in Nat /\ t[Len(s) + 1] = FALSE
      /\ \A i \in 1..Len(s) : t[i] = s[i]
  BY AppendProperties
<1> HIDE DEF t
<1>2. ASSUME NEW n \in 1..Len(t)
      PROVE  n <= c + 1 <=> \A i \in Len(t) - n + 1 .. Len(t) : ~t[i]
  <2>1. CASE n = 1
    BY <1>1, <2>1
  <2>2. CASE n # 1
    <3>1. n - 1 \in 1..Len(s)
      BY <1>1, <2>2
    <3>2. n - 1 <= c <=> \A i \in Len(s) - (n - 1) + 1 .. Len(s) : ~s[i]
      BY <3>1 DEF Row
    <3>3. Len(t) - n + 1 = Len(s) - (n - 1) + 1 /\ Len(t) - n + 1 \in 1..Len(s)
      BY <1>1, <2>2
    <3>4. \A i \in Len(s) - (n - 1) + 1 .. Len(s) : i \in Len(t) - n + 1 .. Len(t) /\ t[i] = s[i]
      BY <1>1, <3>3
    <3>5. \A i \in Len(t) - n + 1 .. Len(t) :
             \/ i \in Len(s) - (n - 1) + 1 .. Len(s) /\ t[i] = s[i]
             \/ i = Len(s) + 1
      BY <1>1, <3>3
    <3>6. n <= c + 1 <=> n - 1 <= c
      BY <1>1
    <3> QED BY <1>1, <3>2, <3>4, <3>5, <3>6
  <2> QED BY <2>1, <2>2
<1> QED BY <1>2 DEF Row, t

(* A success ends the row. *)
LEMMA RowAfterSuccess ==
    ASSUME NEW s \in Seq(BOOLEAN)
    PROVE  Row(Append(s, TRUE), 0)
<1> DEFINE t == Append(s, TRUE)
<1>1. Len(t) \in Nat \ {0} /\ t[Len(t)] = TRUE
  BY AppendProperties
<1> HIDE DEF t
<1> QED BY <1>1 DEF Row, t

(* The row when the oldest outcome leaves the window. *)
LEMMA RowAfterTail ==
    ASSUME NEW s \in Seq(BOOLEAN), s # << >>, NEW c \in Nat, Row(s, c)
    PROVE  Row(Tail(s), c)
<1> DEFINE t == Tail(s)
<1>1. /\ Len(t) = Len(s) - 1 /\ Len(s) \in Nat \ {0}
      /\ \A i \in 1..Len(t) : t[i] = s[i + 1]
  BY HeadTailProperties, EmptySeq
<1> HIDE DEF t
<1>2. ASSUME NEW n \in 1..Len(t)
      PROVE  n <= c <=> \A i \in Len(t) - n + 1 .. Len(t) : ~t[i]
  <2>1. n \in 1..Len(s) /\ Len(t) - n + 1 \in 1..Len(t)
    BY <1>1
  <2>2. n <= c <=> \A i \in Len(s) - n + 1 .. Len(s) : ~s[i]
    BY <2>1 DEF Row
  <2>3. \A i \in Len(t) - n + 1 .. Len(t) : i + 1 \in Len(s) - n + 1 .. Len(s) /\ t[i] = s[i + 1]
    BY <1>1, <2>1
  <2>4. \A i \in Len(s) - n + 1 .. Len(s) : i - 1 \in Len(t) - n + 1 .. Len(t) /\ t[i - 1] = s[i]
    BY <1>1, <2>1
  <2> QED BY <2>2, <2>3, <2>4
<1> QED BY <1>2 DEF Row, t

\* recordOutcome keeps the window in its bounds and the row at its end.
LEMMA RecordedWindow ==
    ASSUME NEW b, NEW success \in BOOLEAN, b.outcomes \in Seq(BOOLEAN),
           Len(b.outcomes) <= slidingWindowSize
    PROVE  LET s == IF Len(Append(b.outcomes, success)) > slidingWindowSize
                    THEN Tail(Append(b.outcomes, success)) ELSE Append(b.outcomes, success)
           IN  /\ Recorded(b, success) = [b EXCEPT !.outcomes = s]
               /\ s \in Seq(BOOLEAN) /\ Len(s) <= slidingWindowSize
               /\ \A c \in Nat : Row(Append(b.outcomes, success), c) => Row(s, c)
<1> DEFINE a == Append(b.outcomes, success)
           s == IF Len(a) > slidingWindowSize THEN Tail(a) ELSE a
<1>1. a \in Seq(BOOLEAN) /\ Len(a) = Len(b.outcomes) + 1 /\ Len(a) \in Nat \ {0} /\ a # << >>
  BY AppendProperties, LenProperties
<1>6. Len(b.outcomes) \in Nat
  BY LenProperties
<1>2. Tail(a) \in Seq(BOOLEAN) /\ Len(Tail(a)) = Len(a) - 1
  BY <1>1, HeadTailProperties
<1>3. Recorded(b, success) = [b EXCEPT !.outcomes = s]
  BY DEF Recorded
<1> HIDE DEF a
<1>4. slidingWindowSize \in Nat
  BY BreakerAssumption
<1>5. s \in Seq(BOOLEAN) /\ Len(s) <= slidingWindowSize
  <2>1. CASE Len(a) > slidingWindowSize
    <3>1. s = Tail(a)
      BY <2>1
    <3>2. Len(Tail(a)) = Len(b.outcomes)
      BY <1>1, <1>2, <1>6
    <3> QED BY <1>2, <3>1, <3>2
  <2>2. CASE ~(Len(a) > slidingWindowSize)
    BY <1>1, <1>4, <2>2
  <2> QED BY <2>1, <2>2
<1>7. \A c \in Nat : Row(a, c) => Row(s, c)
  BY <1>1, RowAfterTail
<1> QED BY <1>3, <1>5, <1>7 DEF a

-----------------------------------------------------------------------------
(* Breakers *)

LEMMA MinOfTwo ==
    ASSUME NEW x \in Nat, NEW y \in Nat
    PROVE  Min({x, y}) = IF x <= y THEN x ELSE y
<1> DEFINE m == IF x <= y THEN x ELSE y
<1>1. m \in {x, y} /\ \A z \in {x, y} : m <= z
  OBVIOUS
<1>2. \A n \in {x, y} : (\A z \in {x, y} : n <= z) => n = m
  OBVIOUS
<1>3. (CHOOSE n \in {x, y} : \A z \in {x, y} : n <= z) = m
  BY <1>1, <1>2
<1> QED BY <1>3 DEF Min


Windows == {s \in Seq(BOOLEAN) : Len(s) <= slidingWindowSize}

Breaker == [state: {"closed", "open", "half_open"},
            consecutiveFailures: 0..failureThreshold,
            consecutiveSuccesses: 0..successThreshold - 1,
            permittedCalls: 0..permittedNumberOfCallsInHalfOpenState,
            since: 0..waitDurationInOpenState, outcomes: Windows]

\* What BreakerInv says of a breaker.
Sound(b) ==
    /\ b \in Breaker
    /\ b.state = "closed" =>
          Row(b.outcomes, b.consecutiveFailures) /\ b.consecutiveFailures < failureThreshold

(* The invariant, as a statement about the value of the breaker. *)
LEMMA InvIsSound ==
    BreakerInv <=> /\ Sound(breaker)
                   /\ calls \in [Calls -> [on: BOOLEAN, age: 0..requestTimeoutMs]]
                   /\ lost \in BOOLEAN
<1>1. TypeOK <=> /\ breaker \in Breaker
                 /\ calls \in [Calls -> [on: BOOLEAN, age: 0..requestTimeoutMs]]
                 /\ lost \in BOOLEAN
  BY DEF TypeOK, Breaker, Windows
<1> QED BY <1>1 DEF BreakerInv, WindowAgrees, RowIsShort, Sound, Row

(* The window of a new breaker. *)
LEMMA EmptyWindow == << >> \in Windows /\ Row(<< >>, 0)
  BY EmptySeq, BreakerAssumption DEF Windows, Row

(* A new or reset breaker is sound. *)
LEMMA ClosedSound == Sound(Closed)
  BY EmptyWindow, BreakerAssumption DEF Sound, Closed, Breaker

(* Opening keeps a breaker sound. *)
LEMMA OpenedSound ==
    ASSUME NEW b \in Breaker
    PROVE  Sound(Opened(b))
<1>1. /\ 0 \in 0..successThreshold - 1 /\ 0 \in 0..failureThreshold
      /\ 0 \in 0..waitDurationInOpenState /\ 0 \in 0..permittedNumberOfCallsInHalfOpenState
  BY BreakerAssumption
<1>2. Opened(b) \in Breaker /\ Opened(b).state = "open"
  BY <1>1 DEF Opened, Breaker
<1> QED BY <1>2 DEF Sound

(* Counting a success keeps a breaker sound. *)
LEMMA SucceededSound ==
    ASSUME NEW b, Sound(b)
    PROVE  Sound(Succeeded(b))
<1> DEFINE a == Append(b.outcomes, TRUE)
           s == IF Len(a) > slidingWindowSize THEN Tail(a) ELSE a
           c == [b EXCEPT !.outcomes = s]
<1>1. b \in Breaker /\ b.outcomes \in Seq(BOOLEAN) /\ Len(b.outcomes) <= slidingWindowSize
  BY DEF Sound, Breaker, Windows
<1>2. Recorded(b, TRUE) = c /\ s \in Windows /\ Row(s, 0)
  BY <1>1, RecordedWindow, RowAfterSuccess DEF Windows
<1> HIDE DEF s
<1>3. CASE b.state = "half_open"
  <2>1. CASE b.consecutiveSuccesses + 1 >= successThreshold
    BY <1>3, <2>1, ClosedSound DEF Succeeded
  <2>2. CASE ~(b.consecutiveSuccesses + 1 >= successThreshold)
    <3>1. Succeeded(b) = [b EXCEPT !.outcomes = s, !.consecutiveSuccesses = @ + 1]
      BY <1>1, <1>2, <1>3, <2>2 DEF Succeeded, Breaker
    <3>2. b.consecutiveSuccesses + 1 \in 0..successThreshold - 1
      BY <1>1, <2>2, BreakerAssumption DEF Breaker
    <3> QED BY <1>1, <1>2, <1>3, <3>1, <3>2 DEF Sound, Breaker
  <2> QED BY <2>1, <2>2
<1>4. CASE b.state = "closed"
  <2>1. Succeeded(b) = [b EXCEPT !.outcomes = s, !.consecutiveFailures = 0,
                                 !.consecutiveSuccesses = 0]
    BY <1>2, <1>4 DEF Succeeded
  <2>2. Succeeded(b).outcomes = s /\ Succeeded(b).consecutiveFailures = 0
    BY <1>1, <2>1 DEF Breaker
  <2>3. 0 \in 0..failureThreshold /\ 0 \in 0..successThreshold - 1
    BY BreakerAssumption
  <2>4. Succeeded(b) \in Breaker
    BY <1>1, <1>2, <2>1, <2>3 DEF Breaker
  <2> QED BY <1>2, <2>2, <2>4, BreakerAssumption DEF Sound
<1>5. CASE b.state = "open"
  BY <1>1, <1>2, <1>5 DEF Succeeded, Sound, Breaker
<1> QED BY <1>1, <1>3, <1>4, <1>5 DEF Breaker

(* Counting a failure keeps a breaker sound. *)
LEMMA FailedSound ==
    ASSUME NEW b, Sound(b)
    PROVE  Sound(Failed(b))
<1> DEFINE a == Append(b.outcomes, FALSE)
           s == IF Len(a) > slidingWindowSize THEN Tail(a) ELSE a
           f == Min({b.consecutiveFailures + 1, failureThreshold})
           c == [b EXCEPT !.outcomes = s, !.consecutiveFailures = f, !.consecutiveSuccesses = 0]
<1>1. b \in Breaker /\ b.outcomes \in Seq(BOOLEAN) /\ Len(b.outcomes) <= slidingWindowSize
      /\ b.consecutiveFailures \in 0..failureThreshold
  BY DEF Sound, Breaker, Windows
<1>2. /\ Recorded(b, FALSE) = [b EXCEPT !.outcomes = s]
      /\ s \in Windows
      /\ \A n \in Nat : Row(a, n) => Row(s, n)
  BY <1>1, RecordedWindow DEF Windows
<1> HIDE DEF s
<1>3. f \in 0..failureThreshold /\ (f < failureThreshold => f = b.consecutiveFailures + 1)
  BY <1>1, BreakerAssumption, MinOfTwo
<1>4. b.state = "closed" /\ f < failureThreshold => Row(s, f)
  <2>1. SUFFICES ASSUME b.state = "closed", f = b.consecutiveFailures + 1
                 PROVE  Row(s, f)
    BY <1>3
  <2>2. Row(b.outcomes, b.consecutiveFailures)
    BY <2>1 DEF Sound
  <2>3. Row(a, b.consecutiveFailures + 1) /\ b.consecutiveFailures + 1 \in Nat
    <3>1. b.consecutiveFailures \in Nat
      BY <1>1, BreakerAssumption
    <3>2. b.outcomes \in Seq(BOOLEAN)
      BY <1>1
    <3>3. Row(Append(b.outcomes, FALSE), b.consecutiveFailures + 1)
      BY <2>2, <3>1, <3>2, RowAfterFailure, Zenon
    <3>4. b.consecutiveFailures + 1 \in Nat
      BY <3>1
    <3> QED BY <3>3, <3>4, Zenon
  <2> QED BY <1>2, <2>1, <2>3
<1> HIDE DEF f
<1>5. c \in Breaker /\ c.outcomes = s /\ c.consecutiveFailures = f /\ c.state = b.state
  <2>1. 0 \in 0..successThreshold - 1
    BY BreakerAssumption
  <2> QED BY <1>1, <1>2, <1>3, <2>1 DEF Breaker
<1>6. Failed(b) = IF \/ b.state = "half_open"
                     \/ b.state = "closed" /\ (f >= failureThreshold \/ TripsByRate(s))
                  THEN Opened(c) ELSE c
  BY <1>1, <1>2 DEF Failed, f, Breaker
<1>7. Sound(Opened(c))
  BY <1>2, <1>5, OpenedSound
<1>8. ASSUME ~(b.state = "closed" /\ f >= failureThreshold)
      PROVE  Sound(c)
  BY <1>2, <1>3, <1>4, <1>5, <1>8, BreakerAssumption DEF Sound
<1> HIDE DEF c
<1> QED BY <1>6, <1>7, <1>8

-----------------------------------------------------------------------------
(* Steps *)

LEMMA CallsTypes ==
    ASSUME BreakerInv, NEW k \in Calls
    PROVE  /\ [calls EXCEPT ![k].on = TRUE] \in [Calls -> [on: BOOLEAN, age: 0..requestTimeoutMs]]
           /\ [calls EXCEPT ![k] = Free] \in [Calls -> [on: BOOLEAN, age: 0..requestTimeoutMs]]
<1>1. calls \in [Calls -> [on: BOOLEAN, age: 0..requestTimeoutMs]]
  BY DEF BreakerInv, TypeOK
<1>2. Free \in [on: BOOLEAN, age: 0..requestTimeoutMs]
  BY BreakerAssumption DEF Free
<1>3. [calls[k] EXCEPT !.on = TRUE] \in [on: BOOLEAN, age: 0..requestTimeoutMs]
  BY <1>1
<1> QED BY <1>1, <1>2, <1>3

(* The invariant holds at first. *)
LEMMA InitInv == Init => BreakerInv
<1>1. Free \in [on: BOOLEAN, age: 0..requestTimeoutMs]
  BY BreakerAssumption DEF Free
<1> QED BY <1>1, ClosedSound, InvIsSound DEF Init

(* Every step keeps the invariant. *)
LEMMA StepInv == BreakerInv /\ [Next]_vars => BreakerInv'
<1> SUFFICES ASSUME BreakerInv, [Next]_vars PROVE BreakerInv'
  OBVIOUS
<1>1. /\ Sound(breaker) /\ breaker \in Breaker /\ lost \in BOOLEAN
      /\ calls \in [Calls -> [on: BOOLEAN, age: 0..requestTimeoutMs]]
  BY InvIsSound DEF Sound
<1> SUFFICES /\ Sound(breaker')
             /\ calls' \in [Calls -> [on: BOOLEAN, age: 0..requestTimeoutMs]]
             /\ lost' \in BOOLEAN
  BY DEF BreakerInv, TypeOK, WindowAgrees, RowIsShort, Sound, Breaker, Windows, Row
<1>2. ASSUME NEW k \in Calls, StartCall(k)
      PROVE  Sound(breaker') /\ lost' \in BOOLEAN
  <2>1. CASE breaker' = breaker /\ lost' = lost
    BY <1>1, <2>1
  <2>2. CASE breaker' = FirstTrial(breaker) /\ lost' = FALSE
    <3>1. breaker' = [breaker EXCEPT !.state = "half_open", !.permittedCalls = 1,
                                     !.consecutiveSuccesses = 0]
      BY <1>1, <2>2 DEF FirstTrial, HalfOpened, Breaker
    <3>2. 0 \in 0..successThreshold - 1 /\ 1 \in 0..permittedNumberOfCallsInHalfOpenState
      BY BreakerAssumption
    <3>3. breaker' \in Breaker /\ breaker'.state = "half_open"
      BY <1>1, <3>1, <3>2 DEF Breaker
    <3> QED BY <2>2, <3>3 DEF Sound
  <2>3. CASE /\ breaker.state = "half_open"
             /\ breaker.permittedCalls < permittedNumberOfCallsInHalfOpenState
             /\ breaker' = [breaker EXCEPT !.permittedCalls = @ + 1]
             /\ lost' = lost
    BY <1>1, <2>3, BreakerAssumption DEF Sound, Breaker
  <2> QED BY <1>2, <2>1, <2>2, <2>3 DEF StartCall
<1>3. ASSUME NEW k \in Calls, CallResolves(k)
      PROVE  Sound(breaker') /\ lost' \in BOOLEAN
  BY <1>1, <1>3, SucceededSound DEF CallResolves, Update
<1>4. ASSUME NEW k \in Calls, CallThrows(k) \/ CallTimesOut(k)
      PROVE  Sound(breaker') /\ lost' \in BOOLEAN
  BY <1>1, <1>4, FailedSound DEF CallThrows, CallTimesOut, TimedOut, Update
<1>5. ASSUME NEW k \in Calls, CallThrowsIgnored(k)
      PROVE  Sound(breaker') /\ lost' \in BOOLEAN
  BY <1>1, <1>5 DEF CallThrowsIgnored, Loses
<1>6. ASSUME NEW k \in Calls,
             StartCall(k) \/ CallResolves(k) \/ CallThrows(k) \/ CallThrowsIgnored(k)
                \/ CallTimesOut(k)
      PROVE  calls' \in [Calls -> [on: BOOLEAN, age: 0..requestTimeoutMs]]
  BY <1>6, CallsTypes
     DEF StartCall, CallResolves, CallThrows, CallThrowsIgnored, CallTimesOut, Ends
<1>7. CASE Reset
  BY <1>1, <1>7, ClosedSound DEF Reset
<1>8. CASE ResetMetrics
  <2>2. Sound(breaker')
    <3>1. breaker' = [breaker EXCEPT !.outcomes = << >>, !.consecutiveFailures = 0,
                                     !.consecutiveSuccesses = 0]
      BY <1>8 DEF ResetMetrics
    <3>2. 0 \in 0..successThreshold - 1 /\ 0 \in 0..failureThreshold /\ 0 < failureThreshold
      BY BreakerAssumption
    <3>3. breaker' \in Breaker /\ breaker'.outcomes = << >> /\ breaker'.consecutiveFailures = 0
      BY <1>1, <3>1, <3>2, EmptyWindow DEF Breaker
    <3> QED BY <3>2, <3>3, EmptyWindow DEF Sound
  <2> QED BY <1>1, <1>8, <2>2 DEF ResetMetrics, Loses
<1>9. CASE Tick
  <2>1. Min({waitDurationInOpenState, breaker.since + 1}) \in 0..waitDurationInOpenState
    BY <1>1, BreakerAssumption, MinOfTwo DEF Breaker
  <2>2. Sound(breaker')
    BY <1>1, <1>9, <2>1 DEF Tick, Sound, Breaker
  <2>3. \A k \in Calls :
           Min({requestTimeoutMs, calls[k].age + 1}) \in 0..requestTimeoutMs
    BY <1>1, BreakerAssumption, MinOfTwo
  <2>4. calls' \in [Calls -> [on: BOOLEAN, age: 0..requestTimeoutMs]]
    BY <1>1, <1>9, <2>3, BreakerAssumption DEF Tick, Free
  <2> QED BY <1>1, <1>9, <2>2, <2>4 DEF Tick
<1>10. CASE UNCHANGED vars
  BY <1>1, <1>10 DEF vars
<1> QED
  BY <1>2, <1>3, <1>4, <1>5, <1>6, <1>7, <1>8, <1>9, <1>10 DEF Next

(* The invariant always holds. *)
LEMMA Inv == Spec => []BreakerInv
<1> QED BY InitInv, StepInv, PTL DEF Spec

-----------------------------------------------------------------------------

(* CircuitBreaker: counters stay below their thresholds, permits and the window within
   their limits, whatever late answers, ignored errors and resets come in. *)
THEOREM BreakerTypes == Spec => []TypeOK
<1>1. BreakerInv => TypeOK
  BY DEF BreakerInv
<1> QED BY Inv, <1>1, PTL

(* recordFailure, recordSuccess and recordOutcome: the row of consecutive failures of a
   closed breaker is the end of its window, for every size of the window and threshold. *)
THEOREM RowEndsWindow == Spec => []WindowAgrees
<1>1. BreakerInv => WindowAgrees
  BY DEF BreakerInv
<1> QED BY Inv, <1>1, PTL
=============================================================================
