-------------------------- MODULE MiddlewareProofs --------------------------
(***************************************************************************)
(* Proofs about the two middlewares of the backend that keep state of      *)
(* their own, which share none of it.  Of the idempotency middleware: that *)
(* it accounts for every run of a handler and replays a request its own    *)
(* response, for any number of requests, keys, bodies and entries.  Of a   *)
(* service circuit: that its state and its counters agree and its trials   *)
(* are bounded, for any number of calls and requests and every             *)
(* configuration.                                                          *)
(***************************************************************************)
EXTENDS Idempotency, ServiceCircuit, FiniteSetTheorems, TLAPS

-----------------------------------------------------------------------------
(* Idempotency: the cache *)

\* A cache of finitely many entries, in the order of their places.
Ordered(c) ==
    /\ DOMAIN c \subseteq Keys /\ IsFiniteSet(DOMAIN c) /\ c \in [DOMAIN c -> Entry]
    /\ \A j, k \in DOMAIN c : j # k => c[j].place # c[k].place
    /\ \A k \in DOMAIN c : c[k].place <= Cardinality(DOMAIN c)

(* The keys that are left of a cache move up without changing their order. *)
LEMMA KeptCache ==
    ASSUME NEW c, Ordered(c), NEW keys \in SUBSET DOMAIN c
    PROVE  /\ Ordered(Kept(c, keys)) /\ DOMAIN Kept(c, keys) = keys
           /\ \A k \in keys : /\ Kept(c, keys)[k].run = c[k].run
                              /\ Kept(c, keys)[k].expired = c[k].expired
<1> DEFINE upto(k) == {j \in keys : c[j].place <= c[k].place}
           d == Kept(c, keys)
<1>1. /\ IsFiniteSet(keys) /\ \A k \in keys : c[k] \in Entry /\ c[k].place \in Nat
      /\ \A j, k \in keys : j # k => c[j].place # c[k].place
  BY FS_Subset DEF Ordered, Entry
<1>2. \A k \in keys : /\ IsFiniteSet(upto(k)) /\ k \in upto(k)
                      /\ Cardinality(upto(k)) \in Nat \ {0}
                      /\ Cardinality(upto(k)) <= Cardinality(keys)
  <2> TAKE k \in keys
  <2>1. upto(k) \subseteq keys /\ k \in upto(k)
    BY <1>1
  <2>2. IsFiniteSet(upto(k)) /\ Cardinality(upto(k)) <= Cardinality(keys)
    BY <1>1, <2>1, FS_Subset
  <2>3. Cardinality(upto(k)) \in Nat /\ Cardinality(upto(k)) # 0
    BY <2>1, <2>2, FS_CardinalityType, FS_EmptySet
  <2> QED
    BY <2>1, <2>2, <2>3
<1>3. ASSUME NEW j \in keys, NEW k \in keys, c[j].place < c[k].place
      PROVE  Cardinality(upto(j)) < Cardinality(upto(k))
  <2>1. upto(j) \subseteq upto(k) /\ k \notin upto(j) /\ k \in upto(k)
    BY <1>1, <1>3
  <2>2. upto(j) # upto(k)
    BY <2>1
  <2> HIDE DEF upto
  <2> QED
    BY <1>2, <2>1, <2>2, FS_Subset
<1>4. /\ DOMAIN d = keys
      /\ \A k \in keys : d[k] = [c[k] EXCEPT !.place = Cardinality(upto(k))]
  BY DEF Kept
<1> HIDE DEF d, upto
<1>5. \A k \in keys : /\ d[k] \in Entry /\ d[k].run = c[k].run /\ d[k].expired = c[k].expired
                      /\ d[k].place = Cardinality(upto(k))
  BY <1>1, <1>2, <1>4 DEF Entry
<1>6. \A j, k \in keys : j # k => d[j].place # d[k].place
  <2> SUFFICES ASSUME NEW j \in keys, NEW k \in keys, j # k
               PROVE  d[j].place # d[k].place
    OBVIOUS
  <2>1. c[j].place < c[k].place \/ c[k].place < c[j].place
    BY <1>1
  <2>2. Cardinality(upto(j)) # Cardinality(upto(k))
    BY <1>2, <1>3, <2>1
  <2> QED
    BY <1>5, <2>2
<1>7. d \in [keys -> Entry]
  <2>1. d = [k \in keys |-> d[k]]
    BY <1>4 DEF d, Kept
  <2> QED
    BY <1>5, <2>1
<1>8. Ordered(d)
  BY <1>1, <1>2, <1>4, <1>5, <1>6, <1>7 DEF Ordered
<1> QED
  BY <1>4, <1>5, <1>8 DEF d

(* A response that is stored takes a place of its own, or the one its key has. *)
LEMMA StoredCache ==
    ASSUME Ordered(cache), NEW q \in Requests, NEW k \in Keys
    PROVE  /\ Ordered(Stored(q, k)) /\ DOMAIN Stored(q, k) = DOMAIN cache \cup {k}
           /\ Stored(q, k)[k].run = q
           /\ \A j \in DOMAIN cache : j # k => Stored(q, k)[j] = cache[j]
<1> DEFINE D == DOMAIN cache
           n == Cardinality(D)
           place == IF Cached(k) THEN cache[k].place ELSE n + 1
           c == Stored(q, k)
<1>1. /\ IsFiniteSet(D) /\ n \in Nat /\ D \subseteq Keys
      /\ \A j \in D : cache[j] \in Entry /\ cache[j].place \in Nat \ {0} /\ cache[j].place <= n
      /\ \A i, j \in D : i # j => cache[i].place # cache[j].place
  BY FS_CardinalityType DEF Ordered, Entry
<1>2. /\ IsFiniteSet(D \cup {k})
      /\ Cardinality(D \cup {k}) = IF Cached(k) THEN n ELSE n + 1
  BY <1>1, FS_AddElement DEF Cached
<1>3. place \in Nat \ {0} /\ place <= Cardinality(D \cup {k})
  BY <1>1, <1>2 DEF Cached
<1>4. \A j \in D : j # k => cache[j].place # place
  BY <1>1 DEF Cached
<1>5. /\ c = [j \in D \cup {k} |->
                IF j = k THEN [run |-> q, expired |-> FALSE, place |-> place] ELSE cache[j]]
  BY DEF Stored
<1> HIDE DEF place, c
<1>6. /\ DOMAIN c = D \cup {k} /\ c[k] = [run |-> q, expired |-> FALSE, place |-> place]
      /\ \A j \in D : j # k => c[j] = cache[j]
  BY <1>5
<1>7. \A j \in D \cup {k} : c[j] \in Entry
  <2>1. c[k] \in Entry
    BY <1>3, <1>6 DEF Entry
  <2> QED
    BY <1>1, <1>6, <2>1
<1>8. c \in [D \cup {k} -> Entry]
  BY <1>5, <1>6, <1>7
<1>9. \A i, j \in D \cup {k} : i # j => c[i].place # c[j].place
  BY <1>1, <1>4, <1>6
<1>10. \A j \in D \cup {k} : c[j].place <= Cardinality(D \cup {k})
  BY <1>1, <1>2, <1>3, <1>6
<1>11. Ordered(c)
  BY <1>1, <1>2, <1>6, <1>8, <1>9, <1>10 DEF Ordered
<1> QED
  BY <1>6, <1>11 DEF c

(* enforceCacheLimit leaves at most maxEntries responses, of those there were. *)
LEMMA EvictedCache ==
    ASSUME NEW c, Ordered(c)
    PROVE  /\ Ordered(Evicted(c)) /\ DOMAIN Evicted(c) \subseteq DOMAIN c
           /\ \A k \in DOMAIN Evicted(c) : Evicted(c)[k].run = c[k].run
           /\ Cardinality(DOMAIN Evicted(c)) <= MaxEntries
<1> DEFINE n == Cardinality(DOMAIN c)
           keys == {k \in DOMAIN c : c[k].place > n - MaxEntries}
<1>1. /\ n \in Nat /\ MaxEntries \in Nat /\ IsFiniteSet(DOMAIN c)
      /\ \A k \in DOMAIN c : c[k].place \in Nat \ {0} /\ c[k].place <= n
      /\ \A j, k \in DOMAIN c : j # k => c[j].place # c[k].place
  BY FS_CardinalityType, IdempotencyAssumption DEF Ordered, Entry
<1>2. /\ Evicted(c) = Kept(c, keys) /\ keys \subseteq DOMAIN c
      /\ IsFiniteSet(keys)
  BY <1>1, FS_Subset DEF Evicted
<1>3. Cardinality(keys) <= MaxEntries
  <2> DEFINE f == [k \in keys |-> c[k].place - (n - MaxEntries)]
  <2>1. f \in [keys -> 1..MaxEntries]
    BY <1>1
  <2>2. \A j, k \in keys : f[j] = f[k] => j = k
    BY <1>1
  <2>3. f \in Injection(keys, 1..MaxEntries)
    BY <2>1, <2>2 DEF Injection, IsInjective
  <2>4. IsFiniteSet(1..MaxEntries) /\ Cardinality(1..MaxEntries) = MaxEntries
    BY <1>1, FS_Interval
  <2> QED
    BY <2>3, <2>4, FS_Injection
<1> HIDE DEF keys
<1> QED
  BY <1>2, <1>3, KeptCache
-----------------------------------------------------------------------------
(* Idempotency: the invariant *)

One(b) == IF b THEN 1 ELSE 0

\* Runs of a handler that were not refused with a 500, under way or answered.
Runs(k) == Of(k, {"running", "completed"})

\* Each of them is marked, or has its response cached, or a cause of its own.
Quota(k) == One(k \in inFlight) + One(Cached(k)) + dropped[k] + forgotten[k]
RunsBalanced == \A k \in Keys : Cardinality(Runs(k)) <= Quota(k)

\* No key is marked and cached at a time.
Exclusive == \A k \in inFlight : ~Cached(k)

\* The cache holds responses that requests of the key completed with.
CacheIsOwn ==
    \A k \in DOMAIN cache : LET p == requests[cache[k].run]
                            IN  p.state = "completed" /\ p.key = k

SentHaveKeys == \A q \in Requests : requests[q].state # "unsent" => requests[q].key \in Keys

\* ReplayIsOwn for one request, and that there is a request whose response it got.
OwnReplay(q) ==
    requests[q].state = "replayed" =>
        /\ requests[q].from \in Requests
        /\ LET p == requests[requests[q].from]
           IN  p.state = "completed" /\ p.key = requests[q].key /\ p.body = requests[q].body
OwnReplays == \A q \in Requests : OwnReplay(q)

AnswersInv == SentHaveKeys /\ CacheIsOwn /\ OwnReplays /\ Exclusive
CacheInv   == TypeOK /\ Ordered(cache) /\ Cardinality(DOMAIN cache) <= MaxEntries

(* Every step keeps the types and the order and the limit of the cache. *)
LEMMA CacheStep ==
    ASSUME CacheInv, SentHaveKeys, [Next]_vars
    PROVE  CacheInv'
<1> USE DEF CacheInv
<1>0. /\ requests \in [Requests -> Request] /\ inFlight \subseteq Keys
      /\ dropped \in [Keys -> Nat] /\ forgotten \in [Keys -> Nat] /\ Ordered(cache)
      /\ IsFiniteSet(DOMAIN cache) /\ Cardinality(DOMAIN cache) \in Nat
      /\ MaxEntries \in Nat
  BY FS_CardinalityType, IdempotencyAssumption DEF TypeOK, Ordered
<1>1. ASSUME Ordered(cache'), Cardinality(DOMAIN cache') <= MaxEntries,
             requests' \in [Requests -> Request], inFlight' \subseteq Keys,
             dropped' \in [Keys -> Nat], forgotten' \in [Keys -> Nat]
      PROVE  CacheInv'
  BY <1>1 DEF TypeOK, Ordered
<1>2. ASSUME NEW keys \in SUBSET DOMAIN cache, cache' = Kept(cache, keys)
      PROVE  Ordered(cache') /\ Cardinality(DOMAIN cache') <= MaxEntries
  <2>1. Ordered(cache') /\ DOMAIN cache' = keys
    BY <1>0, <1>2, KeptCache
  <2>2. Cardinality(keys) <= Cardinality(DOMAIN cache) /\ Cardinality(keys) \in Nat
    BY <1>0, FS_Subset, FS_CardinalityType
  <2> QED
    BY <1>0, <2>1, <2>2
<1>3. ASSUME NEW keys, Count(keys)
      PROVE  forgotten' \in [Keys -> Nat]
  BY <1>0, <1>3 DEF Count
<1>4. ASSUME NEW q \in Requests, NEW k \in Keys, NEW b \in Bodies, NEW from \in 0..MaxRequests,
             NEW state \in {"running", "replayed", "conflict", "mismatch"},
             Met(q, k, b, state, from)
      PROVE  requests' \in [Requests -> Request]
  BY <1>0, <1>4 DEF Met, Request
<1>5. ASSUME NEW q \in Requests, NEW state \in {"completed", "failed"},
             requests' = [requests EXCEPT ![q].state = state, ![q].from = q]
      PROVE  requests' \in [Requests -> Request]
  <2>1. q \in 0..MaxRequests /\ requests[q] \in Request
    BY <1>0, IdempotencyAssumption DEF Requests
  <2>2. [[requests[q] EXCEPT !.state = state] EXCEPT !.from = q] \in Request
    BY <2>1 DEF Request
  <2> QED
    BY <1>0, <1>5, <2>2
<1>6. ASSUME NEW q \in Requests, NEW k \in Keys, NEW b \in Bodies, Send(q, k, b)
      PROVE  CacheInv'
  <2>1. CASE Replay(q, k, b)
    <3>1. cache[k].run \in 0..MaxRequests /\ 0 \in 0..MaxRequests
      BY <1>0, <2>1, IdempotencyAssumption DEF Replay, Live, Cached, Ordered, Entry, Requests
    <3>2. requests' \in [Requests -> Request]
      BY <1>4, <2>1, <3>1 DEF Replay
    <3> QED
      BY <1>0, <1>1, <2>1, <3>2 DEF Replay
  <2>2. CASE Enter(q, k, b)
    <3>1. Ordered(cache') /\ Cardinality(DOMAIN cache') <= MaxEntries
      BY <1>2, <2>2 DEF Enter
    <3>2. requests' \in [Requests -> Request] /\ inFlight' \subseteq Keys
      BY <1>0, <1>4, <2>2, IdempotencyAssumption DEF Enter
    <3> QED
      BY <1>0, <1>1, <1>3, <2>2, <3>1, <3>2 DEF Enter
  <2> QED
    BY <1>6, <2>1, <2>2 DEF Send
<1>7. ASSUME NEW q \in Requests, Completes(q)
      PROVE  CacheInv'
  <2> DEFINE k == requests[q].key
             s == Stored(q, k)
  <2>1. k \in Keys
    BY <1>7 DEF Completes, SentHaveKeys
  <2>2. Ordered(s)
    BY <1>0, <2>1, StoredCache
  <2>3. cache' = Evicted(s)
    BY <1>7 DEF Completes
  <2>4. Ordered(cache') /\ Cardinality(DOMAIN cache') <= MaxEntries
    BY <2>2, <2>3, EvictedCache
  <2>5. requests' \in [Requests -> Request]
    BY <1>0, <1>7, <1>5 DEF Completes
  <2> QED
    BY <1>0, <1>1, <1>3, <1>7, <2>4, <2>5 DEF Completes
<1>8. ASSUME NEW q \in Requests, Fails(q)
      PROVE  CacheInv'
  <2>1. requests' \in [Requests -> Request]
    BY <1>0, <1>8, <1>5 DEF Fails
  <2> QED
    BY <1>0, <1>1, <1>8, <2>1 DEF Fails
<1>9. ASSUME NEW q \in Requests, Close(q)
      PROVE  CacheInv'
  <2>1. requests' \in [Requests -> Request]
    BY <1>0, <1>9 DEF Close, Request
  <2>2. dropped' \in [Keys -> Nat] /\ inFlight' \subseteq Keys
    <3>1. requests[q].key \in Keys
      BY <1>9 DEF Close, SentHaveKeys
    <3>2. dropped' \in [Keys -> Nat]
      <4>1. \/ dropped' = [dropped EXCEPT ![requests[q].key] = dropped[requests[q].key] + 1]
            \/ dropped' = [dropped EXCEPT ![requests[q].key] = dropped[requests[q].key]]
        BY <1>9 DEF Close
      <4> QED
        BY <1>0, <3>1, <4>1
    <3> QED
      BY <1>0, <1>9, <3>2 DEF Close, Unmarked
  <2> QED
    BY <1>0, <1>1, <1>9, <2>1, <2>2 DEF Close
<1>10. ASSUME NEW k \in Keys, Expire(k)
      PROVE  CacheInv'
  <2>1. k \in DOMAIN cache /\ cache \in [DOMAIN cache -> Entry]
    BY <1>0, <1>10 DEF Expire, Live, Cached, Ordered
  <2>2. cache' = [cache EXCEPT ![k].expired = TRUE]
    BY <1>10 DEF Expire
  <2>3. /\ DOMAIN cache' = DOMAIN cache /\ cache' \in [DOMAIN cache -> Entry]
        /\ \A j \in DOMAIN cache : cache'[j].place = cache[j].place
    BY <2>1, <2>2 DEF Entry
  <2>4. Ordered(cache')
    BY <1>0, <2>3 DEF Ordered
  <2> QED
    BY <1>0, <1>1, <1>10, <2>3, <2>4 DEF Expire
<1>11. CASE purgeExpiredIdempotencyKeys
  <2>1. {k \in Keys : Live(k)} \subseteq DOMAIN cache
    BY DEF Live, Cached
  <2>2. Ordered(cache') /\ Cardinality(DOMAIN cache') <= MaxEntries
    BY <1>2, <1>11, <2>1 DEF purgeExpiredIdempotencyKeys
  <2> QED
    BY <1>0, <1>1, <1>3, <1>11, <2>2 DEF purgeExpiredIdempotencyKeys
<1>12. CASE UNCHANGED vars
  BY <1>0, <1>1, <1>12 DEF vars
<1> QED
  BY <1>6, <1>7, <1>8, <1>9, <1>10, <1>11, <1>12 DEF Next

\* What an answered request keeps: its state, its key, its body and whose response it got.
SameAnswer(q) ==
    /\ requests'[q].state = requests[q].state /\ requests'[q].key = requests[q].key
    /\ requests'[q].body = requests[q].body /\ requests'[q].from = requests[q].from

\* A step that answers nobody.
NoAnswer == \A q \in Requests : SameAnswer(q)

(* The entries after a step: those that were left, and the one that was stored. *)
LEMMA CompletesCache ==
    ASSUME Ordered(cache), NEW q \in Requests, requests[q].key \in Keys, Completes(q)
    PROVE  /\ DOMAIN cache' \subseteq DOMAIN cache \cup {requests[q].key}
           /\ \A k \in DOMAIN cache' :
                 cache'[k].run = IF k = requests[q].key THEN q ELSE cache[k].run
           /\ Count((DOMAIN cache \cup {requests[q].key}) \ DOMAIN cache')
<1> DEFINE k == requests[q].key
           s == Stored(q, k)
<1>1. cache' = Evicted(s) /\ Count(DOMAIN s \ DOMAIN Evicted(s))
  BY DEF Completes
<1>2. /\ Ordered(s) /\ DOMAIN s = DOMAIN cache \cup {k} /\ s[k].run = q
      /\ \A j \in DOMAIN cache : j # k => s[j] = cache[j]
  BY StoredCache
<1> HIDE DEF s
<1>3. /\ DOMAIN cache' \subseteq DOMAIN s
      /\ \A j \in DOMAIN cache' : cache'[j].run = s[j].run
  BY <1>1, <1>2, EvictedCache
<1> QED
  BY <1>1, <1>2, <1>3

(* Every step keeps whose response each request, and each entry of the cache, has. *)
LEMMA AnswersStep ==
    ASSUME CacheInv, AnswersInv, [Next]_vars
    PROVE  AnswersInv'
<1> USE DEF AnswersInv
<1>0. /\ requests \in [Requests -> Request] /\ inFlight \subseteq Keys /\ Ordered(cache)
      /\ \A k \in DOMAIN cache : k \in Keys /\ cache[k].run \in Requests
  BY DEF CacheInv, TypeOK, Ordered, Entry
\* Another request's replay outlives what becomes of q, which had not completed.
<1>1. ASSUME NEW q \in Requests, requests[q].state # "completed",
             \A p \in Requests : p # q => SameAnswer(p), NEW p \in Requests, p # q
      PROVE  OwnReplay(p)'
  <2> SUFFICES ASSUME requests'[p].state = "replayed"
               PROVE  /\ requests'[p].from \in Requests
                      /\ LET r == requests'[requests'[p].from]
                         IN  /\ r.state = "completed" /\ r.key = requests'[p].key
                             /\ r.body = requests'[p].body
    BY DEF OwnReplay
  <2> DEFINE f == requests[p].from
  <2>1. SameAnswer(p) /\ requests[p].state = "replayed"
    BY <1>1 DEF SameAnswer
  <2>2. /\ f \in Requests /\ requests[f].state = "completed"
        /\ requests[f].key = requests[p].key /\ requests[f].body = requests[p].body
    BY <2>1 DEF OwnReplays, OwnReplay
  <2>3. SameAnswer(f) /\ requests'[p].from = f
    BY <1>1, <2>1, <2>2 DEF SameAnswer
  <2> HIDE DEF f
  <2> QED
    BY <2>1, <2>2, <2>3 DEF SameAnswer
<1>2. ASSUME NoAnswer, DOMAIN cache' \subseteq DOMAIN cache, inFlight' \subseteq inFlight,
             \A k \in DOMAIN cache' : cache'[k].run = cache[k].run
      PROVE  AnswersInv'
  <2>1. SentHaveKeys'
    BY <1>2 DEF NoAnswer, SameAnswer, SentHaveKeys
  <2>2. CacheIsOwn' /\ Exclusive'
    BY <1>0, <1>2 DEF NoAnswer, SameAnswer, CacheIsOwn, Exclusive, Cached
  <2>3. OwnReplays'
    <3> SUFFICES ASSUME NEW p \in Requests, requests'[p].state = "replayed"
                 PROVE  /\ requests'[p].from \in Requests
                        /\ LET r == requests'[requests'[p].from]
                           IN  /\ r.state = "completed" /\ r.key = requests'[p].key
                               /\ r.body = requests'[p].body
      BY DEF OwnReplays, OwnReplay
    <3>1. SameAnswer(p)
      BY <1>2 DEF NoAnswer
    <3>2. /\ requests[p].from \in Requests /\ requests[requests[p].from].state = "completed"
          /\ requests[requests[p].from].key = requests[p].key
          /\ requests[requests[p].from].body = requests[p].body
      BY <3>1 DEF SameAnswer, OwnReplays, OwnReplay
    <3>3. SameAnswer(requests[p].from)
      BY <1>2, <3>2 DEF NoAnswer
    <3> QED
      BY <3>1, <3>2, <3>3 DEF SameAnswer
  <2> QED
    BY <2>1, <2>2, <2>3
<1>3. ASSUME NEW keys \in SUBSET DOMAIN cache, cache' = Kept(cache, keys)
      PROVE  /\ DOMAIN cache' = keys
             /\ \A k \in DOMAIN cache' : cache'[k].run = cache[k].run
  BY <1>0, <1>3, KeptCache
<1>4. ASSUME NEW q \in Requests, NEW k \in Keys, NEW b \in Bodies, Send(q, k, b)
      PROVE  AnswersInv'
  <2>1. requests[q].state = "unsent"
    <3>1. q <= q
      BY IdempotencyAssumption DEF Requests
    <3> QED
      BY <1>4, <3>1 DEF Send
  <2>2. \A p \in Requests : p # q => SameAnswer(p)
    BY <1>0, <1>4 DEF Send, Replay, Enter, Met, SameAnswer
  <2>3. /\ requests'[q].key = k /\ requests'[q].body = b
        /\ \/ requests'[q].state \in {"running", "conflict", "mismatch"}
           \/ /\ requests'[q].state = "replayed" /\ requests'[q].from = cache[k].run
              /\ Live(k) /\ Matches(k, b)
    BY <1>0, <1>4 DEF Send, Replay, Enter, Met
  <2>4. /\ DOMAIN cache' \subseteq DOMAIN cache
        /\ \A j \in DOMAIN cache' : cache'[j].run = cache[j].run
        /\ \/ inFlight' = inFlight
           \/ inFlight' = inFlight \cup {k} /\ k \notin DOMAIN cache'
    <3>1. CASE Replay(q, k, b)
      <4>1. cache' = cache /\ inFlight' = inFlight
        BY <3>1 DEF Replay
      <4> QED
        BY <4>1
    <3>2. CASE Enter(q, k, b)
      <4>1. /\ DOMAIN cache' = DOMAIN cache \ {k}
            /\ \A j \in DOMAIN cache' : cache'[j].run = cache[j].run
        BY <1>3, <3>2 DEF Enter
      <4> QED
        BY <3>2, <4>1 DEF Enter
    <3> QED
      BY <1>4, <3>1, <3>2 DEF Send
  <2>5. SentHaveKeys'
    BY <2>2, <2>3 DEF SameAnswer, SentHaveKeys
  <2>6. CacheIsOwn'
    BY <1>0, <2>1, <2>2, <2>4 DEF SameAnswer, CacheIsOwn
  <2>7. Exclusive'
    BY <2>4 DEF Exclusive, Cached
  <2>8. OwnReplay(q)'
    <3>1. CASE requests'[q].state # "replayed"
      BY <3>1 DEF OwnReplay
    <3>2. CASE requests'[q].state = "replayed"
      <4> DEFINE f == cache[k].run
      <4>1. /\ f \in Requests /\ requests[f].state = "completed"
            /\ requests[f].key = k /\ requests[f].body = b /\ requests'[q].from = f
        BY <1>0, <2>3, <3>2 DEF Live, Cached, Matches, CacheIsOwn
      <4> HIDE DEF f
      <4>2. SameAnswer(f)
        BY <2>1, <2>2, <4>1
      <4> QED
        BY <2>3, <4>1, <4>2 DEF SameAnswer, OwnReplay
    <3> QED
      BY <3>1, <3>2
  <2>9. OwnReplays'
    BY <1>1, <2>1, <2>2, <2>8 DEF OwnReplays
  <2> QED
    BY <2>5, <2>6, <2>7, <2>9
<1>5. ASSUME NEW q \in Requests, Completes(q)
      PROVE  AnswersInv'
  <2> DEFINE k == requests[q].key
  <2>1. k \in Keys /\ requests[q].state = "running"
    BY <1>5 DEF Completes, SentHaveKeys
  <2>2. \A p \in Requests : p # q => SameAnswer(p)
    BY <1>0, <1>5 DEF Completes, SameAnswer
  <2>3. /\ requests'[q].state = "completed" /\ requests'[q].key = k /\ requests'[q].from = q
        /\ inFlight' = inFlight \ {k}
    BY <1>0, <1>5 DEF Completes, Request
  <2>4. /\ DOMAIN cache' \subseteq DOMAIN cache \cup {k}
        /\ \A j \in DOMAIN cache' : cache'[j].run = IF j = k THEN q ELSE cache[j].run
    BY <1>0, <1>5, <2>1, CompletesCache
  <2> HIDE DEF k
  <2>5. SentHaveKeys'
    BY <2>1, <2>2, <2>3 DEF SameAnswer, SentHaveKeys
  <2>6. CacheIsOwn'
    BY <1>0, <2>1, <2>2, <2>3, <2>4 DEF SameAnswer, CacheIsOwn
  <2>7. Exclusive'
    BY <2>3, <2>4 DEF Exclusive, Cached
  <2>8. OwnReplays'
    BY <1>1, <2>1, <2>2, <2>3 DEF OwnReplays, OwnReplay
  <2> QED
    BY <2>5, <2>6, <2>7, <2>8
<1>6. ASSUME NEW q \in Requests, Fails(q)
      PROVE  AnswersInv'
  <2>1. \A p \in Requests : p # q => SameAnswer(p)
    BY <1>0, <1>6 DEF Fails, SameAnswer
  <2>2. /\ requests[q].state = "running" /\ requests'[q].state = "failed"
        /\ requests'[q].key = requests[q].key /\ cache' = cache /\ inFlight' \subseteq inFlight
    BY <1>0, <1>6 DEF Fails, Request
  <2>3. SentHaveKeys'
    BY <2>1, <2>2 DEF SameAnswer, SentHaveKeys
  <2>4. CacheIsOwn' /\ Exclusive'
    BY <1>0, <2>1, <2>2 DEF SameAnswer, CacheIsOwn, Exclusive, Cached
  <2>5. OwnReplays'
    BY <1>1, <2>1, <2>2 DEF OwnReplays, OwnReplay
  <2> QED
    BY <2>3, <2>4, <2>5
<1>7. ASSUME NEW q \in Requests, Close(q)
      PROVE  AnswersInv'
  <2>1. NoAnswer
    BY <1>0, <1>7 DEF Close, NoAnswer, SameAnswer
  <2> QED
    BY <1>2, <1>7, <2>1 DEF Close, Unmarked
<1>8. ASSUME NEW k \in Keys, Expire(k)
      PROVE  AnswersInv'
  <2>1. NoAnswer /\ inFlight' = inFlight
    BY <1>8 DEF Expire, NoAnswer, SameAnswer
  <2>2. /\ DOMAIN cache' = DOMAIN cache
        /\ \A j \in DOMAIN cache' : cache'[j].run = cache[j].run
    BY <1>0, <1>8 DEF Expire, Live, Cached, Ordered, Entry
  <2> QED
    BY <1>2, <2>1, <2>2
<1>9. CASE purgeExpiredIdempotencyKeys
  <2>1. NoAnswer /\ inFlight' = inFlight
    BY <1>9 DEF purgeExpiredIdempotencyKeys, NoAnswer, SameAnswer
  <2>2. /\ DOMAIN cache' \subseteq DOMAIN cache
        /\ \A j \in DOMAIN cache' : cache'[j].run = cache[j].run
    BY <1>3, <1>9 DEF purgeExpiredIdempotencyKeys, Live, Cached
  <2> QED
    BY <1>2, <2>1, <2>2
<1>10. CASE UNCHANGED vars
  BY <1>2, <1>10 DEF vars, NoAnswer, SameAnswer
<1> QED
  BY <1>4, <1>5, <1>6, <1>7, <1>8, <1>9, <1>10 DEF Next

(* Sets of requests are finite. *)
LEMMA SetsOfRequests ==
    \A S \in SUBSET Requests : IsFiniteSet(S) /\ Cardinality(S) \in Nat
<1>1. IsFiniteSet(Requests)
  BY IdempotencyAssumption, FS_Interval DEF Requests
<1> QED
  BY <1>1, FS_Subset, FS_CardinalityType

(* A key has no more runs than marks, responses and causes. *)
LEMMA RunsStep ==
    ASSUME CacheInv, AnswersInv, RunsBalanced, [Next]_vars
    PROVE  RunsBalanced'
<1>0. /\ requests \in [Requests -> Request] /\ Ordered(cache)
      /\ dropped \in [Keys -> Nat] /\ forgotten \in [Keys -> Nat]
      /\ dropped' \in [Keys -> Nat] /\ forgotten' \in [Keys -> Nat]
  <2>1. CacheInv'
    BY CacheStep DEF AnswersInv
  <2> QED
    BY <2>1 DEF CacheInv, TypeOK
<1>1. \A S \in SUBSET Requests : IsFiniteSet(S) /\ Cardinality(S) \in Nat
  BY SetsOfRequests
<1>2. \A k \in Keys : /\ Runs(k) \in SUBSET Requests /\ Runs(k)' \in SUBSET Requests
                      /\ Cardinality(Runs(k)) <= Quota(k)
  BY DEF Runs, Of, RunsBalanced
<1>3. \A k \in Keys : /\ Quota(k) \in Nat /\ Quota(k)' \in Nat
  BY <1>0 DEF Quota, One
\* The runs of a key: none is added, or one is added, or one is gone.
<1>4. ASSUME NEW k \in Keys, Runs(k)' \subseteq Runs(k), Quota(k) <= Quota(k)'
      PROVE  Cardinality(Runs(k)') <= Quota(k)'
  <2>1. Cardinality(Runs(k)') <= Cardinality(Runs(k))
    BY <1>1, <1>2, <1>4, FS_Subset
  <2> QED
    BY <1>1, <1>2, <1>3, <1>4, <2>1
<1>5. ASSUME NEW k \in Keys, NEW q \in Requests,
             Runs(k)' \subseteq Runs(k) \cup {q}, Quota(k) + 1 <= Quota(k)'
      PROVE  Cardinality(Runs(k)') <= Quota(k)'
  <2> DEFINE S == Runs(k) \cup {q}
  <2>1. S \in SUBSET Requests /\ Cardinality(S) <= Cardinality(Runs(k)) + 1
    <3>1. Cardinality(S) = IF q \in Runs(k) THEN Cardinality(Runs(k))
                                            ELSE Cardinality(Runs(k)) + 1
      BY <1>1, <1>2, FS_AddElement
    <3> QED
      BY <1>1, <1>2, <3>1
  <2>2. Cardinality(Runs(k)') <= Cardinality(S)
    BY <1>1, <1>5, <2>1, FS_Subset
  <2> QED
    BY <1>1, <1>2, <1>3, <1>5, <2>1, <2>2
<1>6. ASSUME NEW k \in Keys, NEW q \in Runs(k),
             Runs(k)' \subseteq Runs(k) \ {q}, Quota(k) <= Quota(k)' + 1
      PROVE  Cardinality(Runs(k)') <= Quota(k)'
  <2>1. Cardinality(Runs(k) \ {q}) = Cardinality(Runs(k)) - 1
    BY <1>1, <1>2, FS_RemoveElement
  <2>2. Cardinality(Runs(k)') <= Cardinality(Runs(k) \ {q})
    BY <1>1, <1>2, <1>6, FS_Subset
  <2> QED
    BY <1>1, <1>2, <1>3, <1>6, <2>1, <2>2
\* A response that goes is counted.
<1>7. ASSUME NEW keys, Count(keys), NEW k \in Keys, k \in DOMAIN cache => k \in DOMAIN cache' \cup keys
      PROVE  One(Cached(k)) + forgotten[k] <= One(Cached(k))' + forgotten'[k]
  BY <1>0, <1>7 DEF Count, One, Cached
<1>8. ASSUME \A q \in Requests : SameAnswer(q), NEW k \in Keys
      PROVE  Runs(k)' \subseteq Runs(k)
  BY <1>8 DEF SameAnswer, Runs, Of
<1>9. ASSUME NEW keys \in SUBSET DOMAIN cache, cache' = Kept(cache, keys)
      PROVE  DOMAIN cache' = keys
  BY <1>0, <1>9, KeptCache
<1>10. SUFFICES ASSUME NEW j \in Keys
                PROVE  Cardinality(Runs(j)') <= Quota(j)'
  BY DEF RunsBalanced
<1>11. ASSUME NEW q \in Requests, NEW k \in Keys, NEW b \in Bodies, Send(q, k, b)
       PROVE  Cardinality(Runs(j)') <= Quota(j)'
  <2>1. \A p \in Requests : p # q => SameAnswer(p)
    BY <1>0, <1>11 DEF Send, Replay, Enter, Met, SameAnswer
  <2>2. CASE Replay(q, k, b)
    <3>1. requests'[q].state \notin {"running", "completed"}
      BY <1>0, <2>2 DEF Replay, Met
    <3>2. Runs(j)' \subseteq Runs(j)
      BY <2>1, <3>1 DEF SameAnswer, Runs, Of
    <3>3. Quota(j)' = Quota(j)
      BY <2>2 DEF Replay, Quota, One, Cached
    <3> QED
      BY <1>3, <1>4, <3>2, <3>3
  <2>3. CASE Enter(q, k, b)
    <3>1. DOMAIN cache' = DOMAIN cache \ {k} /\ Count({k} \cap DOMAIN cache) /\ dropped' = dropped
      BY <1>9, <2>3 DEF Enter
    <3>2. One(Cached(j)) + forgotten[j] <= One(Cached(j))' + forgotten'[j]
      BY <1>7, <3>1
    <3>3. CASE Free(k)
      <4>1. requests'[q].key = k /\ inFlight' = inFlight \cup {k} /\ k \notin inFlight
        BY <1>0, <2>3, <3>3 DEF Enter, Met, Free
      <4>2. CASE j = k
        <5>1. Runs(j)' \subseteq Runs(j) \cup {q}
          BY <2>1 DEF SameAnswer, Runs, Of
        <5>2. Quota(j) + 1 <= Quota(j)'
          BY <1>0, <3>1, <3>2, <4>1, <4>2 DEF Quota, One
        <5> QED
          BY <1>5, <5>1, <5>2
      <4>3. CASE j # k
        <5>1. Runs(j)' \subseteq Runs(j)
          BY <2>1, <4>1, <4>3 DEF SameAnswer, Runs, Of
        <5>2. Quota(j) <= Quota(j)'
          BY <1>0, <3>1, <3>2, <4>1, <4>3 DEF Quota, One
        <5> QED
          BY <1>4, <5>1, <5>2
      <4> QED
        BY <4>2, <4>3
    <3>4. CASE ~Free(k)
      <4>1. requests'[q].state = "conflict" /\ inFlight' = inFlight
        BY <1>0, <2>3, <3>4 DEF Enter, Met
      <4>2. Runs(j)' \subseteq Runs(j)
        BY <2>1, <4>1 DEF SameAnswer, Runs, Of
      <4>3. Quota(j) <= Quota(j)'
        BY <1>0, <3>1, <3>2, <4>1 DEF Quota, One
      <4> QED
        BY <1>4, <4>2, <4>3
    <3> QED
      BY <3>3, <3>4
  <2> QED
    BY <1>11, <2>2, <2>3 DEF Send
<1>12. ASSUME NEW q \in Requests, Completes(q)
       PROVE  Cardinality(Runs(j)') <= Quota(j)'
  <2> DEFINE k == requests[q].key
  <2>1. k \in Keys /\ requests[q].state = "running"
    BY <1>12 DEF Completes, AnswersInv, SentHaveKeys
  <2>2. /\ requests'[q].key = k /\ inFlight' = inFlight \ {k} /\ dropped' = dropped
        /\ \A p \in Requests : p # q => SameAnswer(p)
    BY <1>0, <1>12 DEF Completes, Request, SameAnswer
  <2>3. /\ DOMAIN cache' \subseteq DOMAIN cache \cup {k}
        /\ Count((DOMAIN cache \cup {k}) \ DOMAIN cache')
    BY <1>0, <1>12, <2>1, CompletesCache
  <2>4. k \in inFlight => ~Cached(k)
    BY DEF AnswersInv, Exclusive
  <2> HIDE DEF k
  <2>5. Runs(j)' \subseteq Runs(j)
    BY <2>1, <2>2 DEF k, SameAnswer, Runs, Of
  <2>6. Quota(j) <= Quota(j)'
    <3>1. CASE j = k
      <4>1. One(Cached(j))' + forgotten'[j] = 1 + forgotten[j]
        BY <1>0, <2>3, <3>1 DEF Count, One, Cached
      <4>2. One(j \in inFlight) + One(Cached(j)) <= 1
        BY <2>4, <3>1 DEF One
      <4>3. dropped'[j] = dropped[j] /\ One(j \in inFlight)' = 0
        BY <2>2, <3>1 DEF One
      <4>4. /\ One(j \in inFlight) \in Nat /\ One(Cached(j)) \in Nat /\ One(Cached(j))' \in Nat
            /\ dropped[j] \in Nat /\ forgotten[j] \in Nat /\ forgotten'[j] \in Nat
        BY <1>0 DEF One
      <4> QED
        BY <4>1, <4>2, <4>3, <4>4 DEF Quota
    <3>2. CASE j # k
      <4>1. One(Cached(j)) + forgotten[j] <= One(Cached(j))' + forgotten'[j]
        BY <1>7, <2>3
      <4> QED
        BY <1>0, <2>2, <3>2, <4>1 DEF Quota, One
    <3> QED
      BY <3>1, <3>2
  <2> QED
    BY <1>4, <2>5, <2>6
<1>13. ASSUME NEW q \in Requests, Fails(q)
       PROVE  Cardinality(Runs(j)') <= Quota(j)'
  <2> DEFINE k == requests[q].key
  <2>1. /\ requests[q].state = "running" /\ requests'[q].state = "failed"
        /\ inFlight' = inFlight \ {k}
        /\ cache' = cache /\ dropped' = dropped /\ forgotten' = forgotten
        /\ \A p \in Requests : p # q => SameAnswer(p)
    BY <1>0, <1>13 DEF Fails, Request, SameAnswer
  <2> HIDE DEF k
  <2>2. Runs(j)' \subseteq Runs(j) \ {q}
    BY <2>1 DEF SameAnswer, Runs, Of
  <2>3. CASE j = k
    <3>1. q \in Runs(j)
      BY <2>1, <2>3 DEF k, Runs, Of
    <3>2. Quota(j) <= Quota(j)' + 1
      BY <1>0, <2>1 DEF Quota, One, Cached
    <3> QED
      BY <1>6, <2>2, <3>1, <3>2
  <2>4. CASE j # k
    <3>1. Quota(j) <= Quota(j)'
      BY <1>0, <2>1, <2>4 DEF Quota, One, Cached
    <3> QED
      BY <1>4, <2>2, <3>1
  <2> QED
    BY <2>3, <2>4
<1>14. ASSUME NEW q \in Requests, Close(q)
       PROVE  Cardinality(Runs(j)') <= Quota(j)'
  <2> DEFINE k == requests[q].key
  <2>1. /\ inFlight' = inFlight \ {k} /\ cache' = cache /\ forgotten' = forgotten
        /\ dropped' = [dropped EXCEPT ![k] = IF k \in inFlight THEN dropped[k] + 1 ELSE dropped[k]]
    BY <1>14 DEF Close, Unmarked
  <2>2. \A p \in Requests : SameAnswer(p)
    BY <1>0, <1>14 DEF Close, SameAnswer
  <2> HIDE DEF k
  <2>3. Quota(j) <= Quota(j)'
    BY <1>0, <2>1 DEF Quota, One, Cached
  <2> QED
    BY <1>4, <1>8, <2>2, <2>3
<1>15. ASSUME NEW k \in Keys, Expire(k)
       PROVE  Cardinality(Runs(j)') <= Quota(j)'
  <2>1. /\ \A p \in Requests : SameAnswer(p)
        /\ DOMAIN cache' = DOMAIN cache
        /\ inFlight' = inFlight /\ dropped' = dropped /\ forgotten' = forgotten
    BY <1>15 DEF Expire, SameAnswer
  <2>2. Quota(j) <= Quota(j)'
    BY <1>0, <2>1 DEF Quota, One, Cached
  <2> QED
    BY <1>4, <1>8, <2>1, <2>2
<1>16. CASE purgeExpiredIdempotencyKeys
  <2> DEFINE live == {k \in Keys : Live(k)}
  <2>1. /\ \A p \in Requests : SameAnswer(p)
        /\ inFlight' = inFlight /\ dropped' = dropped /\ Count(DOMAIN cache \ live)
    BY <1>16 DEF purgeExpiredIdempotencyKeys, SameAnswer
  <2>2. DOMAIN cache' = live
    BY <1>9, <1>16 DEF purgeExpiredIdempotencyKeys, Live, Cached
  <2> HIDE DEF live
  <2>3. One(Cached(j)) + forgotten[j] <= One(Cached(j))' + forgotten'[j]
    BY <1>7, <2>1, <2>2
  <2>4. Quota(j) <= Quota(j)'
    BY <1>0, <2>1, <2>3 DEF Quota, One
  <2> QED
    BY <1>4, <1>8, <2>1, <2>4
<1>17. CASE UNCHANGED vars
  <2>1. /\ \A p \in Requests : SameAnswer(p)
        /\ Quota(j)' = Quota(j)
    BY <1>17 DEF vars, SameAnswer, Quota, One, Cached
  <2> QED
    BY <1>3, <1>4, <1>8, <2>1
<1> QED
  BY <1>11, <1>12, <1>13, <1>14, <1>15, <1>16, <1>17 DEF Next

-----------------------------------------------------------------------------
(* Idempotency: theorems *)

Inv == CacheInv /\ AnswersInv /\ RunsBalanced

(* The invariant holds in every behaviour. *)
LEMMA InvHolds == Spec => []Inv
<1>1. Init => Inv
  <2> SUFFICES ASSUME Init
               PROVE  Inv
    OBVIOUS
  <2>1. DOMAIN cache = {} /\ IsFiniteSet({}) /\ Cardinality({}) = 0
    BY FS_EmptySet DEF Init
  <2>2. CacheInv
    <3>1. requests \in [Requests -> Request]
      BY IdempotencyAssumption DEF Init, Request
    <3>2. cache \in [DOMAIN cache -> Entry]
      BY <2>1 DEF Init
    <3>3. TypeOK
      BY <2>1, <3>1, <3>2 DEF Init, TypeOK
    <3>4. Ordered(cache) /\ Cardinality(DOMAIN cache) <= MaxEntries
      BY <2>1, <3>2, IdempotencyAssumption DEF Ordered
    <3> QED
      BY <3>3, <3>4 DEF CacheInv
  <2>3. AnswersInv
    BY <2>1 DEF Init, AnswersInv, SentHaveKeys, CacheIsOwn, OwnReplays,
                OwnReplay, Exclusive
  <2>4. RunsBalanced
    <3> SUFFICES ASSUME NEW k \in Keys
                 PROVE  Cardinality(Runs(k)) <= Quota(k)
      BY DEF RunsBalanced
    <3>1. Runs(k) = {}
      BY DEF Init, Runs, Of
    <3>2. Quota(k) = 0
      BY <2>1 DEF Init, Quota, One, Cached
    <3> QED
      BY <2>1, <3>1, <3>2
  <2> QED
    BY <2>2, <2>3, <2>4 DEF Inv
<1>2. Inv /\ [Next]_vars => Inv'
  BY CacheStep, AnswersStep, RunsStep DEF Inv, AnswersInv
<1> QED
  BY <1>1, <1>2, PTL DEF Spec

(* Whatever the middleware does, its requests, marks and responses have their types. *)
THEOREM IdempotencyTypes == Spec => []TypeOK
<1>1. Inv => TypeOK
  BY DEF Inv, CacheInv
<1> QED
  BY <1>1, InvHolds, PTL

(* The completed responses never exceed maxEntries, whatever was stored, replaced, deleted or    *)
(* purged before, and enforceCacheLimit can rely on their order.                                  *)
THEOREM CacheStaysWithinLimit == Spec => []CacheWithinLimit
<1>1. Inv => CacheWithinLimit
  BY DEF Inv, CacheInv, Ordered, CacheWithinLimit
<1> QED
  BY <1>1, InvHolds, PTL

(* The handler of a key runs once, and again only after an answer of 500 or more, a response that *)
(* was forgotten, or a mark that a close event removed: as often as those happened.               *)
THEOREM RunsAlwaysAccounted == Spec => []RunsAccounted
<1>1. Inv => RunsAccounted
  <2> SUFFICES ASSUME Inv, NEW k \in Keys
               PROVE  Cardinality(Of(k, {"running", "failed", "completed"})) <=
                          1 + Cardinality(Of(k, {"failed"})) + dropped[k] + forgotten[k]
    BY DEF RunsAccounted
  <2> DEFINE failed == Of(k, {"failed"})
             runs == Runs(k)
  <2>1. \A S \in SUBSET Requests : IsFiniteSet(S) /\ Cardinality(S) \in Nat
    BY SetsOfRequests
  <2>2. /\ Runs(k) \in SUBSET Requests /\ failed \in SUBSET Requests
        /\ Runs(k) \cap failed = {}
        /\ Of(k, {"running", "failed", "completed"}) = Runs(k) \cup failed
    BY DEF Runs, Of
  <2> HIDE DEF failed, runs
  <2>3. Cardinality(runs \cup failed) = Cardinality(runs) + Cardinality(failed)
    <3>1. /\ IsFiniteSet(runs) /\ IsFiniteSet(failed)
          /\ Cardinality(runs) \in Nat /\ Cardinality(failed) \in Nat
      BY <2>1, <2>2 DEF runs
    <3>2. Cardinality(runs \cap failed) = 0
      BY <2>2, FS_EmptySet DEF runs
    <3>3. Cardinality(runs \cup failed) =
              Cardinality(runs) + Cardinality(failed) - Cardinality(runs \cap failed)
      BY <3>1, FS_Union, Zenon
    <3> QED
      BY <3>1, <3>2, <3>3
  <2>4. One(k \in inFlight) + One(Cached(k)) <= 1
    BY DEF Inv, AnswersInv, Exclusive, One
  <2>5. /\ Cardinality(Runs(k)) <= Quota(k)
        /\ dropped[k] \in Nat /\ forgotten[k] \in Nat
        /\ One(k \in inFlight) \in Nat /\ One(Cached(k)) \in Nat
    BY DEF Inv, CacheInv, TypeOK, RunsBalanced, One
  <2>6. Cardinality(Runs(k)) <= 1 + dropped[k] + forgotten[k]
    BY <2>1, <2>2, <2>4, <2>5 DEF Quota
  <2>7. Cardinality(Runs(k)) \in Nat /\ Cardinality(failed) \in Nat
    BY <2>1, <2>2
  <2>8. Cardinality(Runs(k) \cup failed) = Cardinality(Runs(k)) + Cardinality(failed)
    BY <2>3 DEF runs
  <2>9. Cardinality(Runs(k) \cup failed) <= 1 + Cardinality(failed) + dropped[k] + forgotten[k]
    BY <2>5, <2>6, <2>7, <2>8
  <2> QED
    BY <2>2, <2>9 DEF failed
<1> QED
  BY <1>1, InvHolds, PTL

(* Also when handlers of one key overlap, what is replayed is the response of a request with the *)
(* same key and body that completed.                                                              *)
THEOREM ReplayIsOwnHolds == Spec => []ReplayIsOwn
<1>1. Inv => ReplayIsOwn
  BY DEF Inv, AnswersInv, OwnReplays, OwnReplay, ReplayIsOwn
<1> QED
  BY <1>1, InvHolds, PTL

-----------------------------------------------------------------------------
(* The service circuit *)

\* The trials since the circuit became half open: the one that made it so, and one a permit.
TrialsHavePermits == circuit.state = "half_open" => trials <= circuit.halfOpenCalls + 1

CircuitInv == CircuitTypeOK /\ OpenMeansFailing /\ TrialsHavePermits

(* The minimum of two numbers is the lesser. *)
LEMMA MinOfTwo ==
    ASSUME NEW a \in Nat, NEW b \in Nat
    PROVE  Min({a, b}) = IF a <= b THEN a ELSE b
<1> DEFINE m == IF a <= b THEN a ELSE b
<1>1. m \in {a, b} /\ \A y \in {a, b} : m <= y
  OBVIOUS
<1>2. \A x \in {a, b} : (\A y \in {a, b} : x <= y) => x = m
  OBVIOUS
<1> QED BY <1>1, <1>2 DEF Min

\* What the circuit may become, with the trials counted beside it.
Sound(c, n) ==
    /\ c \in [state: {"closed", "open", "half_open"}, failures: 0..failureThreshold,
              successes: 0..successThreshold - 1, halfOpenCalls: 0..halfOpenMaxCalls,
              since: 0..timeoutMs]
    /\ c.state # "closed" <=> c.failures = failureThreshold
    /\ n \in Nat
    /\ c.state = "half_open" => n <= c.halfOpenCalls + 1

(* The invariant, as a statement about the value of the circuit. *)
LEMMA SoundInv ==
    CircuitInv <=> /\ Sound(circuit, trials)
                   /\ calls \in [Calls -> [phase: {"free", "racing", "settled"},
                                           age: 0..requestTimeoutMs]]
                   /\ httpRequests \subseteq HttpRequests
                   /\ lost \in BOOLEAN
BY DEF CircuitInv, CircuitTypeOK, OpenMeansFailing, TrialsHavePermits, Sound

(* A new or reset circuit is sound. *)
LEMMA ClosedSound == \A n \in Nat : Sound(Closed, n)
BY CircuitAssumption DEF Sound, Closed

(* onFailure keeps a circuit sound. *)
LEMMA FailedSound ==
    ASSUME NEW c, NEW n, Sound(c, n)
    PROVE  Sound(Failed(c), n)
<1> DEFINE f == Min({c.failures + 1, failureThreshold})
<1>1. c.failures \in Nat /\ failureThreshold \in Nat /\ c.failures <= failureThreshold
  BY CircuitAssumption DEF Sound
<1>2. f = IF c.failures + 1 <= failureThreshold THEN c.failures + 1 ELSE failureThreshold
  <2>1. c.failures + 1 \in Nat
    BY <1>1
  <2> QED BY <1>1, <2>1, MinOfTwo
<1>3. f \in 0..failureThreshold
  BY <1>1, <1>2
<1> HIDE DEF f
<1>4. CASE c.state = "half_open" \/ f >= failureThreshold
  <2>1. Failed(c) = [c EXCEPT !.state = "open", !.failures = f, !.since = 0,
                              !.successes = 0, !.halfOpenCalls = 0]
    BY <1>4 DEF Failed, f
  <2>2. f = failureThreshold
    BY <1>1, <1>2, <1>3, <1>4, CircuitAssumption DEF Sound
  <2>3. Failed(c) = [state |-> "open", failures |-> failureThreshold, successes |-> 0,
                     halfOpenCalls |-> 0, since |-> 0]
    BY <2>1, <2>2 DEF Sound
  <2> QED BY <2>3, CircuitAssumption DEF Sound
<1>5. CASE ~(c.state = "half_open" \/ f >= failureThreshold)
  <2>1. Failed(c) = [c EXCEPT !.failures = f]
    BY <1>5 DEF Failed, f
  <2>2. c.state = "closed"
    BY <1>1, <1>2, <1>5, CircuitAssumption DEF Sound
  <2> QED BY <1>3, <1>5, <2>1, <2>2, CircuitAssumption DEF Sound
<1> QED BY <1>4, <1>5

(* onSuccess keeps a circuit sound. *)
LEMMA SucceededSound ==
    ASSUME NEW c, NEW n, Sound(c, n)
    PROVE  Sound(Succeeded(c), n)
<1>1. CASE c.state = "half_open" /\ c.successes + 1 >= successThreshold
  <2>1. Succeeded(c) = [Closed EXCEPT !.since = c.since]
    BY <1>1 DEF Succeeded
  <2> QED BY <2>1, CircuitAssumption DEF Sound, Closed
<1>2. CASE c.state = "half_open" /\ ~(c.successes + 1 >= successThreshold)
  <2>1. Succeeded(c) = [c EXCEPT !.successes = @ + 1]
    BY <1>2 DEF Succeeded
  <2> QED BY <1>2, <2>1, CircuitAssumption DEF Sound
<1>3. CASE c.state = "closed"
  <2>1. Succeeded(c) = [c EXCEPT !.failures = IF @ > 0 THEN @ - 1 ELSE 0]
    BY <1>3 DEF Succeeded
  <2> QED BY <1>3, <2>1, CircuitAssumption DEF Sound
<1>4. CASE c.state = "open"
  <2>1. Succeeded(c) = c
    BY <1>4 DEF Succeeded
  <2> QED BY <2>1
<1> QED BY <1>1, <1>2, <1>3, <1>4 DEF Sound

(* shouldAllow keeps a circuit sound. *)
LEMMA AllowSound ==
    ASSUME Sound(circuit, trials), lost \in BOOLEAN, Allow
    PROVE  Sound(circuit', trials') /\ lost' \in BOOLEAN
<1>1. CASE circuit.state = "closed" /\ UNCHANGED <<circuit, trials, lost>>
  BY <1>1 DEF Sound
<1>2. CASE /\ circuit.state = "open" /\ circuit.since >= timeoutMs
           /\ circuit' = [circuit EXCEPT !.state = "half_open", !.successes = 0,
                                         !.halfOpenCalls = 0]
           /\ trials' = 1
           /\ lost' = FALSE
  <2>1. circuit' = [state |-> "half_open", failures |-> failureThreshold, successes |-> 0,
                    halfOpenCalls |-> 0, since |-> circuit.since]
    BY <1>2 DEF Sound
  <2>2. Sound(circuit', trials')
    BY <1>2, <2>1, CircuitAssumption DEF Sound
  <2> QED BY <1>2, <2>2
<1>3. CASE /\ circuit.state = "half_open" /\ HasPermit(circuit)
           /\ circuit' = [circuit EXCEPT !.halfOpenCalls = @ + 1]
           /\ trials' = trials + 1
           /\ UNCHANGED lost
  BY <1>3, CircuitAssumption DEF Sound, HasPermit
<1> QED BY <1>1, <1>2, <1>3 DEF Allow

(* Counting an outcome keeps a circuit sound. *)
LEMMA CountSound ==
    ASSUME Sound(circuit, trials), CountFailure \/ CountSuccess \/ CountNothing
    PROVE  Sound(circuit', trials')
<1>1. CASE CountFailure
  BY <1>1, FailedSound DEF CountFailure
<1>2. CASE CountSuccess
  BY <1>2, SucceededSound DEF CountSuccess
<1>3. CASE CountNothing
  BY <1>3 DEF CountNothing
<1> QED BY <1>1, <1>2, <1>3

(* Every step keeps the invariant. *)
LEMMA CircuitStep == CircuitInv /\ [CircuitNext]_circuitVars => CircuitInv'
<1> SUFFICES ASSUME CircuitInv, [CircuitNext]_circuitVars
             PROVE  CircuitInv'
  OBVIOUS
<1> DEFINE Call == [phase: {"free", "racing", "settled"}, age: 0..requestTimeoutMs]
<1> USE CircuitAssumption
<1>0. /\ Sound(circuit, trials) /\ calls \in [Calls -> Call]
      /\ httpRequests \subseteq HttpRequests /\ lost \in BOOLEAN
  BY SoundInv
<1> SUFFICES /\ Sound(circuit', trials') /\ calls' \in [Calls -> Call]
             /\ httpRequests' \subseteq HttpRequests /\ lost' \in BOOLEAN
  BY DEF CircuitInv, CircuitTypeOK, OpenMeansFailing, TrialsHavePermits, Sound
<1>1. ASSUME NEW k \in Calls, StartCall(k)
      PROVE  /\ Sound(circuit', trials') /\ calls' \in [Calls -> Call]
             /\ httpRequests' \subseteq HttpRequests /\ lost' \in BOOLEAN
  BY <1>0, <1>1, AllowSound DEF StartCall
<1>2. ASSUME NEW k \in Calls,
             CallResolves(k) \/ CallThrows(k) \/ CallThrowsCircuitError(k)
      PROVE  /\ Sound(circuit', trials') /\ calls' \in [Calls -> Call]
             /\ httpRequests' \subseteq HttpRequests /\ lost' \in BOOLEAN
  BY <1>0, <1>2, CountSound DEF CallResolves, CallThrows, CallThrowsCircuitError, Settle
<1>3. ASSUME NEW k \in Calls, TimerFires(k)
      PROVE  /\ Sound(circuit', trials') /\ calls' \in [Calls -> Call]
             /\ httpRequests' \subseteq HttpRequests /\ lost' \in BOOLEAN
  BY <1>0, <1>3, CountSound DEF TimerFires, TimedOut, Unused
<1>4. ASSUME NEW r \in HttpRequests, StartRequest(r)
      PROVE  /\ Sound(circuit', trials') /\ calls' \in [Calls -> Call]
             /\ httpRequests' \subseteq HttpRequests /\ lost' \in BOOLEAN
  BY <1>0, <1>4, AllowSound DEF StartRequest
<1>5. ASSUME NEW r \in HttpRequests, RequestAnswers(r) \/ RequestEnds(r)
      PROVE  /\ Sound(circuit', trials') /\ calls' \in [Calls -> Call]
             /\ httpRequests' \subseteq HttpRequests /\ lost' \in BOOLEAN
  BY <1>0, <1>5, CountSound DEF RequestAnswers, RequestEnds
<1>6. CASE ResetCircuit
  BY <1>0, <1>6, ClosedSound DEF ResetCircuit
<1>7. CASE Tick
  <2>1. circuit.since + 1 \in Nat /\ timeoutMs \in Nat /\ requestTimeoutMs \in Nat
    BY <1>0 DEF Sound
  <2>2. Min({timeoutMs, circuit.since + 1}) \in 0..timeoutMs
    BY <2>1, MinOfTwo
  <2>3. circuit' = [circuit EXCEPT !.since = Min({timeoutMs, circuit.since + 1})]
    BY <1>7 DEF Tick
  <2>4. Sound(circuit', trials')
    BY <1>0, <1>7, <2>2, <2>3 DEF Tick, Sound
  <2>5. ASSUME NEW k \in Calls
        PROVE  [calls[k] EXCEPT !.age = Min({requestTimeoutMs, calls[k].age + 1})] \in Call
    <3>1. calls[k].age + 1 \in Nat
      BY <1>0
    <3>2. Min({requestTimeoutMs, calls[k].age + 1}) \in 0..requestTimeoutMs
      BY <2>1, <3>1, MinOfTwo
    <3> QED BY <1>0, <3>2
  <2>6. calls' = [k \in Calls |-> IF calls[k].phase = "free" THEN Unused
                      ELSE [calls[k] EXCEPT !.age = Min({requestTimeoutMs, calls[k].age + 1})]]
    BY <1>7 DEF Tick
  <2>7. Unused \in Call
    BY DEF Unused
  <2>8. calls' \in [Calls -> Call]
    BY <2>5, <2>6, <2>7
  <2> QED BY <1>0, <1>7, <2>4, <2>8 DEF Tick
<1>8. CASE UNCHANGED circuitVars
  BY <1>0, <1>8 DEF circuitVars, Sound
<1> QED BY <1>1, <1>2, <1>3, <1>4, <1>5, <1>6, <1>7, <1>8 DEF CircuitNext

(* The invariant holds at first. *)
LEMMA CircuitInitInv == CircuitInit => CircuitInv
<1> SUFFICES ASSUME CircuitInit
             PROVE  CircuitInv
  OBVIOUS
<1>1. Sound(circuit, trials)
  BY ClosedSound DEF CircuitInit
<1>2. calls \in [Calls -> [phase: {"free", "racing", "settled"}, age: 0..requestTimeoutMs]]
  BY CircuitAssumption DEF CircuitInit, Unused
<1>3. httpRequests \subseteq HttpRequests /\ lost \in BOOLEAN
  BY DEF CircuitInit
<1> QED BY <1>1, <1>2, <1>3, SoundInv

(* The invariant of a circuit holds in every behaviour. *)
LEMMA CircuitInvHolds == CircuitSpec => []CircuitInv
<1>1. QED BY CircuitInitInv, CircuitStep, PTL DEF CircuitSpec

\* The circuit's fields keep their types: no counter passes its threshold, whatever outcomes
\* onSuccess and onFailure count in whatever state.
THEOREM CircuitTypes == CircuitSpec => []CircuitTypeOK
<1>1. CircuitInv => CircuitTypeOK
  BY DEF CircuitInv
<1> QED BY <1>1, CircuitInvHolds, PTL

\* The state and the counter of failures of a circuit agree, however outcomes of calls that were
\* let through in earlier states, timers and resets interleave.
THEOREM OpenIsFailing == CircuitSpec => []OpenMeansFailing
<1>1. CircuitInv => OpenMeansFailing
  BY DEF CircuitInv
<1> QED BY <1>1, CircuitInvHolds, PTL

\* shouldAllow lets at most halfOpenMaxCalls calls through a half-open circuit beside the one
\* that made it so.
THEOREM TrialsAreBounded == CircuitSpec => []TrialsBounded
<1>1. CircuitInv => TrialsBounded
  BY CircuitAssumption DEF CircuitInv, CircuitTypeOK, TrialsHavePermits, TrialsBounded
<1> QED BY <1>1, CircuitInvHolds, PTL
=============================================================================
