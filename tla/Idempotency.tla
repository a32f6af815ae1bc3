---------------------------- MODULE Idempotency ----------------------------
(***************************************************************************)
(* The idempotency middleware (backend/src/middleware/idempotency.ts):     *)
(* requests that carry a key, the mark of a request whose handler runs,    *)
(* and the cache of completed responses.                                   *)
(*                                                                         *)
(* A key stands for method, URL and header together, a body for its        *)
(* fingerprint, a response for the request whose handler gave it.  A       *)
(* request without a key or with one too long has no effect here.          *)
(***************************************************************************)
EXTENDS Integers, FiniteSets

CONSTANTS
    MaxRequests,    \* bound: requests that are sent, numbered as they arrive
    Keys, Bodies,
    MaxEntries      \* maxEntries

ASSUME IdempotencyAssumption == MaxRequests \in Nat /\ MaxEntries \in Nat

Requests == 1..MaxRequests

VARIABLES
    requests,       \* what became of each request
    inFlight,       \* the keys that are marked
    cache,          \* the completed responses, of the keys that have one
    dropped,        \* history: marks that a close event removed, of each key
    forgotten       \* history: responses that expired or were evicted, of each key

vars == <<requests, inFlight, cache, dropped, forgotten>>

None == "none"

Request == [state: {"unsent", "running", "failed", "completed",
                    "replayed", "conflict", "mismatch"},
            key: Keys \cup {None}, body: Bodies \cup {None},
            open: BOOLEAN,          \* its close event has not fired
            from: 0..MaxRequests]   \* whose response it got, 0 before or for none
Entry == [run: Requests,            \* the request whose handler gave the response
          expired: BOOLEAN,
          place: Nat \ {0}]        \* in the order in which the Map inserted its keys

Init ==
    /\ requests = [q \in Requests |-> [state |-> "unsent", key |-> None, body |-> None,
                                       open |-> TRUE, from |-> 0]]
    /\ inFlight = {}
    /\ cache = << >>
    /\ dropped = [k \in Keys |-> 0]
    /\ forgotten = [k \in Keys |-> 0]

Cached(k) == k \in DOMAIN cache
Live(k) == Cached(k) /\ ~cache[k].expired

\* What is left of a cache: its keys move up and keep their order.
Kept(c, keys) ==
    [k \in keys |->
        [c[k] EXCEPT !.place = Cardinality({j \in keys : c[j].place <= c[k].place})]]
Count(keys) == forgotten' = [k \in Keys |-> forgotten[k] + IF k \in keys THEN 1 ELSE 0]

-----------------------------------------------------------------------------
(* A request meets the middleware *)

Met(q, k, b, state, from) ==
    requests' = [requests EXCEPT ![q] = [state |-> state, key |-> k, body |-> b,
                                         open |-> TRUE, from |-> from]]

\* Mutant: a response is replayed whatever the body.
MutMatches(k, b) == TRUE
Matches(k, b) == requests[cache[k].run].body = b

Replay(q, k, b) ==
    /\ Live(k)
    /\ IF Matches(k, b) THEN Met(q, k, b, "replayed", cache[k].run)
                        ELSE Met(q, k, b, "mismatch", 0)
    /\ UNCHANGED <<inFlight, cache, dropped, forgotten>>

\* Mutant: the mark is not looked at.
MutFree(k) == TRUE
Free(k) == k \notin inFlight

\* An expired response is deleted; then the mark decides.
Enter(q, k, b) ==
    /\ ~Live(k)
    /\ cache' = Kept(cache, DOMAIN cache \ {k})
    /\ Count({k} \cap DOMAIN cache)
    /\ IF Free(k)
       THEN Met(q, k, b, "running", 0) /\ inFlight' = inFlight \cup {k}
       ELSE Met(q, k, b, "conflict", 0) /\ UNCHANGED inFlight
    /\ UNCHANGED dropped

Send(q, k, b) ==
    /\ \A p \in Requests : p <= q => (requests[p].state = "unsent" <=> p = q)
    /\ Replay(q, k, b) \/ Enter(q, k, b)

-----------------------------------------------------------------------------
(* The handler calls res.json; the connection closes *)

\* The cache with the response of q; a Map keeps the place of a key it has.
Stored(q, k) ==
    LET place == IF Cached(k) THEN cache[k].place ELSE Cardinality(DOMAIN cache) + 1
    IN  [j \in DOMAIN cache \cup {k} |->
            IF j = k THEN [run |-> q, expired |-> FALSE, place |-> place] ELSE cache[j]]

\* enforceCacheLimit: the oldest go until maxEntries are left.
Evicted(c) == Kept(c, {k \in DOMAIN c : c[k].place > Cardinality(DOMAIN c) - MaxEntries})

Completes(q) ==
    LET k == requests[q].key
        s == Stored(q, k)
    IN  /\ requests[q].state = "running"
        /\ requests' = [requests EXCEPT ![q].state = "completed", ![q].from = q]
        /\ inFlight' = inFlight \ {k}
        /\ cache' = Evicted(s)
        /\ Count(DOMAIN s \ DOMAIN Evicted(s))
        /\ UNCHANGED dropped

\* A status of 500 or more is not cached.
Fails(q) ==
    /\ requests[q].state = "running"
    /\ requests' = [requests EXCEPT ![q].state = "failed", ![q].from = q]
    /\ inFlight' = inFlight \ {requests[q].key}
    /\ UNCHANGED <<cache, dropped, forgotten>>

\* Mutant: the mark stays when the connection closes.
MutUnmarked(k) == inFlight
Unmarked(k) == inFlight \ {k}

\* It fires for every connection, answered or not, whoever set the mark.
Close(q) ==
    LET k == requests[q].key
    IN  /\ requests[q].state \in {"running", "failed", "completed"}
        /\ requests[q].open
        /\ requests' = [requests EXCEPT ![q].open = FALSE]
        /\ inFlight' = Unmarked(k)
        /\ dropped' = [dropped EXCEPT ![k] = IF k \in inFlight THEN @ + 1 ELSE @]
        /\ UNCHANGED <<cache, forgotten>>

-----------------------------------------------------------------------------
(* Time *)

Expire(k) ==
    /\ Live(k)
    /\ cache' = [cache EXCEPT ![k].expired = TRUE]
    /\ UNCHANGED <<requests, inFlight, dropped, forgotten>>

purgeExpiredIdempotencyKeys ==
    LET live == {k \in Keys : Live(k)}
    IN  /\ live # DOMAIN cache
        /\ cache' = Kept(cache, live)
        /\ Count(DOMAIN cache \ live)
        /\ UNCHANGED <<requests, inFlight, dropped>>

Next ==
    \/ \E q \in Requests : \/ \E k \in Keys, b \in Bodies : Send(q, k, b)
                           \/ Completes(q) \/ Fails(q) \/ Close(q)
    \/ \E k \in Keys : Expire(k)
    \/ purgeExpiredIdempotencyKeys

Spec == Init /\ [][Next]_vars

\* Every connection ends; a handler may never answer.
FairSpec == Spec /\ \A q \in Requests : WF_vars(Close(q))

-----------------------------------------------------------------------------
(* Properties *)

TypeOK ==
    /\ requests \in [Requests -> Request]
    /\ inFlight \subseteq Keys
    /\ DOMAIN cache \subseteq Keys /\ cache \in [DOMAIN cache -> Entry]
    /\ dropped \in [Keys -> Nat]
    /\ forgotten \in [Keys -> Nat]

\* The places of the cached keys are their order, and there are no more than maxEntries.
CacheWithinLimit ==
    /\ \A j, k \in DOMAIN cache : j # k => cache[j].place # cache[k].place
    /\ \A k \in DOMAIN cache : cache[k].place <= Cardinality(DOMAIN cache)
    /\ Cardinality(DOMAIN cache) <= MaxEntries

Of(k, states) == {q \in Requests : requests[q].key = k /\ requests[q].state \in states}

\* The handler runs once for a key.  Each run beyond the first has a cause of its own: a status of
\* 500 or more, a response that expired or was evicted, or a mark that a close event removed, be
\* it early, or late and so the mark of another request.
RunsAccounted ==
    \A k \in Keys :
        Cardinality(Of(k, {"running", "failed", "completed"})) <=
            1 + Cardinality(Of(k, {"failed"})) + dropped[k] + forgotten[k]

\* Also when handlers of one key overlap and overwrite each other's response, what is replayed
\* is the response of a completed request with the same key and body.
ReplayIsOwn ==
    \A q \in Requests :
        requests[q].state = "replayed" =>
            LET p == requests[requests[q].from]
            IN  p.state = "completed" /\ p.key = requests[q].key /\ p.body = requests[q].body

\* No key stays marked, and so refused with a 409, for good: not even when its handler never
\* answers.
MarksRemoved == \A k \in Keys : k \in inFlight ~> k \notin inFlight
=============================================================================
