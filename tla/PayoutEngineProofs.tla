------------------------- MODULE PayoutEngineProofs -------------------------
(***************************************************************************)
(* Theorems about PayoutEngine, for every value of its constants.          *)
(***************************************************************************)
EXTENDS PayoutEngine, FiniteSetTheorems, TLAPS

-----------------------------------------------------------------------------
(* The rounding of Money, for every amount and minor unit *)

(* Division with remainder, the form in which the lemmas below use it. *)
LEMMA Division ==
    ASSUME NEW n \in Nat, NEW d \in Nat \ {0}
    PROVE  /\ n \div d \in Nat
           /\ n % d \in Nat
           /\ n % d < d
           /\ n = d * (n \div d) + (n % d)
  OBVIOUS

(* quantizeNumber of a balance is a balance: rounding never makes an amount negative. *)
LEMMA QuantizeType ==
    ASSUME NEW amount \in Nat, NEW grain \in Nat \ {0}
    PROVE  Quantize(amount, grain) \in Nat
  BY Division DEF Quantize, DivRoundHalfUp

(* quantizeNumber moves an amount by half a minor unit at most, in either direction, so a
   batch of a merchant's whole balance may exceed that balance by as much. *)
THEOREM QuantizeWithinHalfGrain ==
    ASSUME NEW amount \in Nat, NEW grain \in Nat \ {0}
    PROVE  /\ 2 * (Quantize(amount, grain) - amount) <= grain
           /\ 2 * (amount - Quantize(amount, grain)) <= grain
<1> DEFINE q == amount \div grain
           r == amount % grain
<1>1. /\ q \in Nat /\ r \in Nat /\ r < grain
      /\ amount = grain * q + r
  BY Division
<1>2. CASE 2 * r >= grain
  <2>1. Quantize(amount, grain) = grain * (q + 1)
    BY <1>2 DEF Quantize, DivRoundHalfUp
  <2>2. Quantize(amount, grain) = grain * q + grain
    BY <2>1, <1>1
  <2> HIDE DEF q, r
  <2>3. grain * q \in Nat
    BY <1>1
  <2> QED
    BY <1>1, <1>2, <2>2, <2>3
<1>3. CASE ~(2 * r >= grain)
  <2>1. Quantize(amount, grain) = grain * q
    BY <1>3 DEF Quantize, DivRoundHalfUp
  <2> HIDE DEF q, r
  <2>2. grain * q \in Nat
    BY <1>1
  <2> QED
    BY <1>1, <1>3, <2>1, <2>2
<1> QED
  BY <1>2, <1>3

(* An amount that is already a multiple of the minor unit is not changed. *)
THEOREM QuantizeExact ==
    ASSUME NEW amount \in Nat, NEW grain \in Nat \ {0}, amount % grain = 0
    PROVE  Quantize(amount, grain) = amount
<1> DEFINE q == amount \div grain
<1>1. q \in Nat /\ amount = grain * q
  BY Division
<1>2. Quantize(amount, grain) = grain * q
  BY DEF Quantize, DivRoundHalfUp
<1> QED
  BY <1>1, <1>2

-----------------------------------------------------------------------------
(* Sums over finite sets.  The library's induction principles take a predicate as a
   parameter; these take the set of what satisfies it. *)

(* Induction, as a fact about sets of naturals. *)
LEMMA Induction ==
    ASSUME NEW T \in SUBSET Nat, 0 \in T, \A n \in T : n + 1 \in T
    PROVE  T = Nat
<1> DEFINE R == OpToRel(<, Nat)
<1>1. ASSUME Nat \ T # {} PROVE FALSE
  <2>1. IsWellFoundedOn(R, Nat)
    BY NatLessThanWellFounded
  <2>2. PICK n \in Nat \ T : \A m \in Nat \ T : ~ (<<m, n>> \in R)
    BY <1>1, <2>1, WFMin
  <2>3. n - 1 \in Nat /\ n - 1 \notin T
    <3>1. n # 0
      OBVIOUS
    <3> QED
      BY <3>1
  <2>4. <<n - 1, n>> \in R
    BY <2>3 DEF OpToRel
  <2> QED
    BY <2>2, <2>3, <2>4
<1> QED
  BY <1>1

(* Induction over the subsets of a finite set. *)
LEMMA SubsetInduction ==
    ASSUME NEW S, IsFiniteSet(S), NEW T \in SUBSET SUBSET S, {} \in T,
           \A s \in SUBSET S : s # {} /\ (\A x \in s : s \ {x} \in T) => s \in T
    PROVE  S \in T
<1> DEFINE N == {n \in Nat : \A s \in SUBSET S : Cardinality(s) = n => s \in T}
<1>1. \A s \in SUBSET S : IsFiniteSet(s) /\ Cardinality(s) \in Nat
  BY FS_Subset, FS_CardinalityType
<1>2. 0 \in N
  BY <1>1, FS_EmptySet
<1>3. ASSUME NEW n \in N PROVE n + 1 \in N
  <2>1. ASSUME NEW s \in SUBSET S, Cardinality(s) = n + 1
        PROVE  s \in T
    <3>1. s # {}
      BY <2>1, FS_EmptySet
    <3>2. ASSUME NEW x \in s
          PROVE  s \ {x} \in T
      <4>1. Cardinality(s \ {x}) = Cardinality(s) - 1
        BY <1>1, FS_RemoveElement
      <4> QED
        BY <1>3, <2>1, <4>1
    <3> QED
      BY <3>1, <3>2
  <2> QED
    BY <2>1
<1>4. N = Nat
  BY <1>2, <1>3, Induction
<1> QED
  BY <1>1, <1>4

Chosen(s) == CHOOSE x \in s : TRUE

\* The recursive function that a sum is defined by.
Body(v, f, s) == IF s = {} THEN 0 ELSE v[Chosen(s)] + f[s \ {Chosen(s)}]
Sums(v, S, f) == f = [s \in SUBSET S |-> Body(v, f, s)]

(* A sum is the value of its recursive function at the set that is summed. *)
LEMMA SumUnfolds ==
    ASSUME NEW v, NEW S
    PROVE  SumFunctionOnSet(v, S) = (CHOOSE f : Sums(v, S, f))[S]
  BY Zenon DEF SumFunctionOnSet, FoldFunctionOnSet, MapThenFoldSet, Sums, Body, Chosen

(* The recursive function of a sum exists, over any finite set. *)
LEMMA SumsExist ==
    ASSUME NEW v, NEW S, IsFiniteSet(S)
    PROVE  \E f : Sums(v, S, f)
<1> DEFINE Upto(f, n) == \A s \in SUBSET S : Cardinality(s) <= n => f[s] = Body(v, f, s)
           N == {n \in Nat : \E f : f = [s \in SUBSET S |-> f[s]] /\ Upto(f, n)}
<1>1. \A s \in SUBSET S : IsFiniteSet(s) /\ Cardinality(s) \in Nat /\ Cardinality(s) <= Cardinality(S)
  BY FS_Subset, FS_CardinalityType
<1>2. 0 \in N
  <2> DEFINE f == [s \in SUBSET S |-> 0]
  <2>1. f = [s \in SUBSET S |-> f[s]]
    OBVIOUS
  <2>2. Upto(f, 0)
    BY <1>1, FS_EmptySet DEF Body
  <2> QED
    BY <2>1, <2>2
<1>3. ASSUME NEW n \in N PROVE n + 1 \in N
  <2>1. PICK f : Upto(f, n)
    OBVIOUS
  <2> DEFINE g == [s \in SUBSET S |-> Body(v, f, s)]
  <2>2. g = [s \in SUBSET S |-> g[s]]
    OBVIOUS
  <2>3. ASSUME NEW s \in SUBSET S, Cardinality(s) <= n + 1
        PROVE  g[s] = Body(v, g, s)
    <3>1. CASE s = {}
      BY <3>1 DEF Body
    <3>2. CASE s # {}
      <4> DEFINE t == s \ {Chosen(s)}
      <4>1. Chosen(s) \in s
        BY <3>2 DEF Chosen
      <4>2. t \in SUBSET S /\ Cardinality(t) <= n
        BY <1>1, <2>3, <4>1, FS_RemoveElement
      <4>3. g[t] = f[t]
        BY <2>1, <4>2
      <4> QED
        BY <3>2, <4>3 DEF Body
    <3> QED
      BY <3>1, <3>2
  <2> HIDE DEF g
  <2>4. Upto(g, n + 1)
    BY <2>3
  <2>5. \E h : h = [s \in SUBSET S |-> h[s]] /\ Upto(h, n + 1)
    BY <2>2, <2>4, Zenon
  <2>6. n + 1 \in Nat
    OBVIOUS
  <2> QED
    BY <2>5, <2>6, Zenon
<1>4. Cardinality(S) \in N
  <2> HIDE DEF N
  <2>1. N \in SUBSET Nat
    BY DEF N
  <2> QED
    BY <1>2, <1>3, <2>1, Induction, FS_CardinalityType
<1>5. PICK f : f = [s \in SUBSET S |-> f[s]] /\ Upto(f, Cardinality(S))
  BY <1>4
<1>6. \A s \in SUBSET S : f[s] = Body(v, f, s)
  BY <1>1, <1>5
<1>7. f = [s \in SUBSET S |-> Body(v, f, s)]
  BY <1>5, <1>6
<1> QED
  BY <1>7 DEF Sums

(* A sum satisfies the equation that its fold is defined by. *)
LEMMA SumEquation ==
    ASSUME NEW v, NEW S, IsFiniteSet(S)
    PROVE  /\ SumFunctionOnSet(v, {}) = 0
           /\ S # {} => SumFunctionOnSet(v, S) =
                           v[Chosen(S)] + SumFunctionOnSet(v, S \ {Chosen(S)})
<1> DEFINE F(s) == CHOOSE f : Sums(v, s, f)
<1>1. \A s \in SUBSET S : Sums(v, s, F(s))
  <2> TAKE s \in SUBSET S
  <2>1. IsFiniteSet(s)
    BY FS_Subset
  <2> QED
    BY <2>1, SumsExist, Zenon
<1> HIDE DEF F
<1>2. ASSUME NEW s \in SUBSET S
      PROVE  F(s) = [t \in SUBSET s |-> IF t = {} THEN 0
                                        ELSE v[Chosen(t)] + F(s)[t \ {Chosen(t)}]]
  BY <1>1 DEF Sums, Body
<1>3. \A s \in SUBSET S : F(s)[{}] = 0
  BY <1>2
\* Sums over a set and over a subset agree on the subsets of the latter.
<1>4. ASSUME NEW s \in SUBSET S, NEW x \in s
      PROVE  \A t \in SUBSET (s \ {x}) : F(s)[t] = F(s \ {x})[t]
  <2> DEFINE r == s \ {x}
             T == {t \in SUBSET r : F(s)[t] = F(r)[t]}
  <2>1. r \in SUBSET S /\ {} \in T
    BY <1>3
  <2>2. ASSUME NEW t \in SUBSET r, t # {}, \A y \in t : t \ {y} \in T
        PROVE  t \in T
    <3>1. Chosen(t) \in t
      BY <2>2 DEF Chosen
    <3>2. F(s)[t \ {Chosen(t)}] = F(r)[t \ {Chosen(t)}]
      BY <2>2, <3>1
    <3>3. F(s)[t] = v[Chosen(t)] + F(s)[t \ {Chosen(t)}]
      BY <1>2, <2>2
    <3>4. F(r)[t] = v[Chosen(t)] + F(r)[t \ {Chosen(t)}]
      BY <1>2, <2>1, <2>2
    <3> QED
      BY <3>2, <3>3, <3>4
  <2>3. ASSUME NEW u \in SUBSET r
        PROVE  F(s)[u] = F(r)[u]
    <3> DEFINE V == T \cap SUBSET u
    <3>1. IsFiniteSet(u)
      BY <2>1, FS_Subset
    <3>2. V \in SUBSET SUBSET u /\ {} \in V
      BY <2>1
    <3>3. \A t \in SUBSET u : t # {} /\ (\A y \in t : t \ {y} \in V) => t \in V
      BY <2>2
    <3> HIDE DEF V
    <3>4. u \in V
      BY <3>1, <3>2, <3>3, SubsetInduction
    <3> QED
      BY <3>4 DEF V
  <2> QED
    BY <2>3
<1>5. \A s : SumFunctionOnSet(v, s) = F(s)[s]
  BY SumUnfolds DEF F
<1>6. ASSUME S # {}
      PROVE  F(S)[S] = v[Chosen(S)] + F(S \ {Chosen(S)})[S \ {Chosen(S)}]
  <2>1. Chosen(S) \in S
    BY <1>6 DEF Chosen
  <2>2. F(S)[S] = v[Chosen(S)] + F(S)[S \ {Chosen(S)}]
    BY <1>2, <1>6
  <2>3. F(S)[S \ {Chosen(S)}] = F(S \ {Chosen(S)})[S \ {Chosen(S)}]
    BY <1>4, <2>1
  <2> QED
    BY <2>2, <2>3
<1> QED
  BY <1>3, <1>5, <1>6

(* A sum is the same in whatever order its elements are taken. *)
LEMMA SumOfOne ==
    ASSUME NEW v, NEW S, IsFiniteSet(S), \A x \in S : v[x] \in Int
    PROVE  /\ SumFunctionOnSet(v, S) \in Int
           /\ \A x \in S : SumFunctionOnSet(v, S) = v[x] + SumFunctionOnSet(v, S \ {x})
<1> DEFINE Sum(s) == SumFunctionOnSet(v, s)
           Good(s) == /\ Sum(s) \in Int
                      /\ \A x \in s : Sum(s \ {x}) \in Int /\ Sum(s) = v[x] + Sum(s \ {x})
           T == {s \in SUBSET S : Good(s)}
<1>1. \A s \in SUBSET S : s # {} => Sum(s) = v[Chosen(s)] + Sum(s \ {Chosen(s)})
  BY SumEquation, FS_Subset
<1>2. Sum({}) = 0
  BY SumEquation, FS_EmptySet
<1> HIDE DEF Sum
<1>3. {} \in T
  BY <1>2
<1>4. ASSUME NEW s \in SUBSET S, s # {}, \A x \in s : s \ {x} \in T
      PROVE  s \in T
  <2> DEFINE c == Chosen(s)
  <2>1. c \in s
    BY <1>4 DEF Chosen
  <2>2. Sum(s) = v[c] + Sum(s \ {c})
    BY <1>1, <1>4
  <2> HIDE DEF c
  <2>3. Sum(s) \in Int
    BY <1>4, <2>1, <2>2
  <2>4. ASSUME NEW x \in s PROVE Sum(s \ {x}) \in Int /\ Sum(s) = v[x] + Sum(s \ {x})
    <3>1. CASE x = c
      BY <1>4, <2>1, <2>2, <3>1
    <3>2. CASE x # c
      <4>1. x \in s \ {c} /\ c \in s \ {x} /\ (s \ {x}) \ {c} = (s \ {c}) \ {x}
        BY <2>1, <3>2
      <4>2. Sum(s \ {c}) = v[x] + Sum((s \ {c}) \ {x})
        BY <1>4, <2>1, <4>1
      <4>3. Sum(s \ {x}) = v[c] + Sum((s \ {c}) \ {x})
        BY <1>4, <4>1
      <4>4. v[x] \in Int /\ v[c] \in Int /\ Sum(s \ {x}) \in Int /\ Sum(s \ {c}) \in Int
        BY <1>4, <2>1
      <4>5. Sum((s \ {c}) \ {x}) \in Int
        BY <1>4, <2>1, <4>1
      <4> QED
        BY <2>2, <4>2, <4>3, <4>4, <4>5
    <3> QED
      BY <3>1, <3>2
  <2> QED
    BY <2>3, <2>4
<1>5. S \in T
  <2> HIDE DEF T
  <2>1. T \in SUBSET SUBSET S
    BY DEF T
  <2> QED
    BY <1>3, <1>4, <2>1, SubsetInduction
<1> QED
  BY <1>5 DEF Sum

(* A sum depends on the values of its elements only. *)
LEMMA SumOfSame ==
    ASSUME NEW v, NEW w, NEW S, IsFiniteSet(S), \A x \in S : v[x] = w[x]
    PROVE  SumFunctionOnSet(v, S) = SumFunctionOnSet(w, S)
<1> DEFINE T == {s \in SUBSET S : SumFunctionOnSet(v, s) = SumFunctionOnSet(w, s)}
<1>1. {} \in T
  BY SumEquation, FS_EmptySet
<1>2. ASSUME NEW s \in SUBSET S, s # {}, \A x \in s : s \ {x} \in T
      PROVE  s \in T
  <2>1. Chosen(s) \in s /\ IsFiniteSet(s)
    BY <1>2, FS_Subset DEF Chosen
  <2>2. /\ SumFunctionOnSet(v, s) = v[Chosen(s)] + SumFunctionOnSet(v, s \ {Chosen(s)})
        /\ SumFunctionOnSet(w, s) = w[Chosen(s)] + SumFunctionOnSet(w, s \ {Chosen(s)})
    BY <1>2, <2>1, SumEquation
  <2>3. v[Chosen(s)] = w[Chosen(s)] 
        /\ SumFunctionOnSet(v, s \ {Chosen(s)}) = SumFunctionOnSet(w, s \ {Chosen(s)})
    BY <1>2, <2>1
  <2>4. SumFunctionOnSet(v, s) = SumFunctionOnSet(w, s)
    BY <2>2, <2>3
  <2> QED
    BY <2>4
<1>3. S \in T
  <2> HIDE DEF T
  <2>1. T \in SUBSET SUBSET S
    BY DEF T
  <2> QED
    BY <1>1, <1>2, <2>1, SubsetInduction
<1> QED
  BY <1>3

\* Integers over S, which w agrees with outside x.
AgreeBut(v, w, S, x) == \A y \in S : v[y] \in Int /\ (y # x => w[y] = v[y])

(* What a sum loses with one element. *)
LEMMA SumRemoved ==
    ASSUME NEW v, NEW w, NEW S, IsFiniteSet(S), NEW x \in S, AgreeBut(v, w, S, x)
    PROVE  SumFunctionOnSet(w, S \ {x}) = SumFunctionOnSet(v, S) - v[x]
<1> DEFINE R == S \ {x}
<1>1. IsFiniteSet(R)
  BY FS_RemoveElement, Zenon
<1>2. \A y \in R : w[y] = v[y]
  BY DEF AgreeBut
<1>3. SumFunctionOnSet(w, R) = SumFunctionOnSet(v, R)
  BY <1>1, <1>2, SumOfSame
<1>4. \A y \in S : v[y] \in Int
  BY DEF AgreeBut
<1>5. /\ SumFunctionOnSet(v, S) \in Int
      /\ SumFunctionOnSet(v, S) = v[x] + SumFunctionOnSet(v, R)
  BY <1>4, SumOfOne
<1>6. SumFunctionOnSet(v, R) \in Int
  BY <1>1, <1>4, SumOfOne
<1> HIDE DEF R
<1>7. SumFunctionOnSet(w, R) = SumFunctionOnSet(v, S) - v[x]
  BY <1>3, <1>4, <1>5, <1>6
<1> QED
  BY <1>7 DEF R

(* What a sum gains with one element. *)
LEMMA SumAdded ==
    ASSUME NEW v, NEW w, NEW S, IsFiniteSet(S), NEW x, x \notin S, w[x] \in Int,
           AgreeBut(v, w, S, x)
    PROVE  SumFunctionOnSet(w, S \cup {x}) = SumFunctionOnSet(v, S) + w[x]
<1> DEFINE T == S \cup {x}
<1>1. IsFiniteSet(T)
  BY FS_AddElement, Zenon
<1>2. x \in T /\ \A y \in T : w[y] \in Int /\ (y # x => v[y] = w[y])
  BY DEF AgreeBut
<1>3. AgreeBut(w, v, T, x)
  BY <1>2 DEF AgreeBut
<1>4. SumFunctionOnSet(v, T \ {x}) = SumFunctionOnSet(w, T) - w[x]
  BY <1>1, <1>2, <1>3, SumRemoved
<1>5. T \ {x} = S /\ SumFunctionOnSet(w, T) \in Int
  BY <1>1, <1>2, SumOfOne
<1> HIDE DEF T
<1>6. SumFunctionOnSet(w, T) = SumFunctionOnSet(v, S) + w[x]
  BY <1>4, <1>5
<1> QED
  BY <1>6 DEF T

(* What a sum becomes when the value of one element changes. *)
LEMMA SumReplaced ==
    ASSUME NEW v, NEW w, NEW S, IsFiniteSet(S), NEW x \in S, w[x] \in Int, AgreeBut(v, w, S, x)
    PROVE  SumFunctionOnSet(w, S) = SumFunctionOnSet(v, S) + w[x] - v[x]
<1>1. SumFunctionOnSet(w, S \ {x}) = SumFunctionOnSet(v, S) - v[x]
  BY SumRemoved
<1>2. \A y \in S : w[y] \in Int /\ v[y] \in Int
  BY DEF AgreeBut
<1>3. /\ SumFunctionOnSet(w, S) = w[x] + SumFunctionOnSet(w, S \ {x})
      /\ SumFunctionOnSet(w, S) \in Int /\ SumFunctionOnSet(v, S) \in Int
  BY <1>2, SumOfOne
<1> QED
  BY <1>1, <1>2, <1>3

-----------------------------------------------------------------------------
(* The engine *)

(* The array of batches is a sequence: an empty one has no elements of any type. *)
LEMMA EmptyArray == ASSUME NEW S PROVE << >> \in [1..0 -> S]
  BY SMT

(* Each update of a batch yields a batch. *)
LEMMA UpdateTypes ==
    ASSUME NEW batch \in Batch
    PROVE  /\ Attempted(batch) \in Batch
           /\ Approved(batch) \in Batch
           /\ Refused(batch) \in Batch
           /\ Settled(batch) \in Batch
           /\ Unscheduled(batch) \in Batch
           /\ Requeued(batch) \in Batch
           /\ Released(batch) \in Batch
           /\ Rejected(batch) \in Batch
           /\ Elapsed(batch) \in Batch
<1>1. \A r \in Batch : /\ [r EXCEPT !.attempts = @ + 1] \in Batch
                       /\ [r EXCEPT !.fundsReleased = TRUE] \in Batch
                       /\ [r EXCEPT !.rejected = TRUE] \in Batch
  <2>1. \A r \in Batch : [r EXCEPT !.attempts = @ + 1] \in Batch
    BY DEF Batch
  <2>2. \A r \in Batch : [r EXCEPT !.fundsReleased = TRUE] \in Batch
    BY DEF Batch
  <2>3. \A r \in Batch : [r EXCEPT !.rejected = TRUE] \in Batch
    BY DEF Batch
  <2> QED
    BY <2>1, <2>2, <2>3
<1>2. \A r \in Batch, s \in {"pending", "executing", "completed", "failed"} :
         [r EXCEPT !.status = s] \in Batch
  BY DEF Batch
<1>3. \A r \in Batch, n \in {"none", "waiting", "due"} : [r EXCEPT !.nextAttempt = n] \in Batch
  BY DEF Batch
<1>4. Attempted(batch) \in Batch
  BY <1>1, <1>2 DEF Attempted
<1>5. Approved(batch) \in Batch
  BY DEF Approved, Batch
<1>6. Refused(batch) \in Batch
  <2>1. batch.nextAttempt \in {"none", "waiting", "due"}
    BY DEF Batch
  <2> QED
    BY <2>1, <1>2, <1>3 DEF Refused
<1>7. Settled(batch) \in Batch
  BY <1>2, <1>3 DEF Settled
<1>8. Unscheduled(batch) \in Batch /\ Requeued(batch) \in Batch
  BY <1>2, <1>3 DEF Unscheduled, Requeued
<1>9. Released(batch) \in Batch /\ Rejected(batch) \in Batch
  <2>1. Released(batch) \in Batch
    BY <1>1 DEF Released
  <2>2. [batch EXCEPT !.status = "failed"] \in Batch
    BY <1>2
  <2>3. [batch EXCEPT !.status = "failed", !.rejected = TRUE] \in Batch
    BY <1>1, <2>2
  <2>4. Rejected(batch) \in Batch
    BY <1>1, <2>3 DEF Rejected
  <2> QED
    BY <2>1, <2>4
<1>10. Elapsed(batch) \in Batch
  BY <1>3 DEF Elapsed
<1> QED
  BY <1>4, <1>5, <1>6, <1>7, <1>8, <1>9, <1>10

\* What an update of a batch may change, and what it leaves alone.
Becomes(u, r, status, attempts, approvals, nextAttempt) ==
    /\ u.status = status /\ u.attempts = attempts
    /\ u.approvals = approvals /\ u.nextAttempt = nextAttempt
    /\ u.merchant = r.merchant /\ u.kind = r.kind /\ u.asset = r.asset
    /\ u.amount = r.amount /\ u.createdAt = r.createdAt
    /\ u.requiresApproval = r.requiresApproval
Flags(u, rejected, fundsReleased) == u.rejected = rejected /\ u.fundsReleased = fundsReleased

(* What each update of a batch changes, field by field. *)
LEMMA UpdateFields ==
    ASSUME NEW r \in Batch
    PROVE  /\ Becomes(Attempted(r), r, "executing", r.attempts + 1, r.approvals, r.nextAttempt)
           /\ Flags(Attempted(r), r.rejected, r.fundsReleased)
           /\ Becomes(Approved(r), r, r.status, r.attempts, r.approvals + 1, r.nextAttempt)
           /\ Flags(Approved(r), r.rejected, r.fundsReleased)
           /\ Becomes(Refused(r), r, "failed", r.attempts, r.approvals,
                      IF r.attempts >= MaxAttempts THEN r.nextAttempt ELSE "waiting")
           /\ Flags(Refused(r), r.rejected, r.fundsReleased)
           /\ Becomes(Settled(r), r, "completed", r.attempts, r.approvals, "none")
           /\ Flags(Settled(r), r.rejected, r.fundsReleased)
           /\ Becomes(Unscheduled(r), r, r.status, r.attempts, r.approvals, "none")
           /\ Flags(Unscheduled(r), r.rejected, r.fundsReleased)
           /\ Becomes(Requeued(r), r, "pending", r.attempts, r.approvals, "none")
           /\ Flags(Requeued(r), r.rejected, r.fundsReleased)
           /\ Becomes(Released(r), r, r.status, r.attempts, r.approvals, r.nextAttempt)
           /\ Flags(Released(r), r.rejected, TRUE)
           /\ Becomes(Rejected(r), r, "failed", r.attempts, r.approvals, r.nextAttempt)
           /\ Flags(Rejected(r), TRUE, TRUE)
           /\ Becomes(Elapsed(r), r, r.status, r.attempts, r.approvals, "due")
           /\ Flags(Elapsed(r), r.rejected, r.fundsReleased)
  BY DEF Batch, Becomes, Flags, Attempted, Approved, Refused, Settled, Unscheduled, Requeued,
         Released, Rejected, Elapsed

(* A step keeps every type. *)
LEMMA TypeStep == ASSUME TypeOK, [Next]_vars PROVE TypeOK'
<1> USE EngineAssumption DEF TypeOK
<1>1. ASSUME NEW m \in Merchants, NEW amount \in Amounts, SetPendingAmount(m, amount)
      PROVE  TypeOK'
  BY <1>1 DEF SetPendingAmount
<1>2. ASSUME NEW s \in Schedule, ConfigureSchedule(s)
      PROVE  TypeOK'
  BY <1>2 DEF ConfigureSchedule
<1>3. ASSUME NEW m \in Merchants, RemoveSchedule(m)
      PROVE  TypeOK'
  BY <1>3 DEF RemoveSchedule
<1>4. ASSUME NEW s \in Schedule, NEW todo \in SUBSET Schedule, Visit(s, todo)
      PROVE  /\ evaluationTodo' \subseteq Schedule
             /\ created' \in Nat
             /\ created' >= created
             /\ batches' \in [1..created' -> Batch]
             /\ calls' \subseteq [batch: 1..created', by: Callers]
             /\ pendingAmounts' \in [Merchants -> Nat]
             /\ lastMaterialisedAt' \in [Merchants -> Nat \cup {Never}]
             /\ materialisedCycles' \subseteq
                  [merchant: Merchants, kind: Cadences, cycle: Nat]
  <2>1. evaluationTodo' \subseteq Schedule
    BY <1>4 DEF Visit
  <2>2. CASE CreateBatch(s)
    <3> DEFINE batch == NewBatch(s, pendingAmounts[s.merchant])
    <3>1. s.merchant \in Merchants /\ s.kind \in Kinds /\ s.asset \in Assets
      BY DEF Schedule, Kinds
    <3>2. Quantize(pendingAmounts[s.merchant], Grain[s.asset]) \in Nat
      BY <3>1, QuantizeType
    <3>3. batch \in Batch
      BY <3>1, <3>2 DEF NewBatch, Batch, RequiresApproval
    <3>4. Attempted(batch) \in Batch
      BY <3>3, UpdateTypes
    <3> HIDE DEF batch
    <3>5. created' = created + 1
      BY <2>2 DEF CreateBatch
    <3>6. batches' \in [1..created' -> Batch]
      BY <2>2, <3>3, <3>4, <3>5 DEF CreateBatch, batch
    <3>7. IsCalendar(s) => CycleKey(s) \in [merchant: Merchants, kind: Cadences, cycle: Nat]
      BY <3>1, Division DEF IsCalendar, CycleKey, Cycle, Kinds
    <3>8. materialisedCycles' \subseteq [merchant: Merchants, kind: Cadences, cycle: Nat]
      BY <2>2, <3>7 DEF CreateBatch
    <3> QED
      BY <2>1, <2>2, <3>1, <3>5, <3>6, <3>8 DEF CreateBatch, Callers
  <2> QED
    BY <1>4, <2>1, <2>2 DEF Visit
<1>5. CASE StartEvaluation
  BY <1>4, <1>5 DEF StartEvaluation
<1>6. CASE ContinueEvaluation
  BY <1>4, <1>6 DEF ContinueEvaluation
<1>7. CASE FinishEvaluation
  BY <1>7 DEF FinishEvaluation
<1>8. ASSUME NEW p \in Passes, NEW due \in SUBSET (1..created), RunRetries(p, due)
      PROVE  /\ batches' \in [1..created -> Batch]
             /\ passTodo' \in [Passes -> SUBSET (1..created)]
             /\ calls' \subseteq [batch: 1..created, by: Callers]
  <2>1. \A b \in 1..created : /\ Requeued(batches[b]) \in Batch
                              /\ Attempted(Requeued(batches[b])) \in Batch
                              /\ Unscheduled(batches[b]) \in Batch
    BY UpdateTypes
  <2>2. CASE RunToTheEnd(p, due)
    BY <2>1, <2>2 DEF RunToTheEnd
  <2>3. ASSUME NEW stop \in due, RunToSettlement(p, due, stop)
        PROVE  /\ batches' \in [1..created -> Batch]
               /\ passTodo' \in [Passes -> SUBSET (1..created)]
               /\ calls' \subseteq [batch: 1..created, by: Callers]
    <3>1. batches' \in [1..created -> Batch]
      BY <2>1, <2>3 DEF RunToSettlement, BatchesUpTo
    <3>2. passTodo' \in [Passes -> SUBSET (1..created)]
      BY <2>3 DEF RunToSettlement
    <3>3. calls' \subseteq [batch: 1..created, by: Callers]
      BY <2>3 DEF RunToSettlement, Callers
    <3> QED
      BY <3>1, <3>2, <3>3
  <2>4. ASSUME NEW stop \in due, RunToError(p, due, stop)
        PROVE  /\ batches' \in [1..created -> Batch]
               /\ passTodo' \in [Passes -> SUBSET (1..created)]
               /\ calls' \subseteq [batch: 1..created, by: Callers]
    BY <2>1, <2>4 DEF RunToError, BatchesUpTo
  <2> QED
    BY <1>8, <2>2, <2>3, <2>4 DEF RunRetries
<1>9. ASSUME NEW p \in Passes, StartRetryPass(p)
      PROVE  TypeOK'
  <2>1. DueBatches \in SUBSET (1..created)
    BY DEF DueBatches
  <2> QED
    BY <1>8, <1>9, <2>1 DEF StartRetryPass
<1>10. ASSUME NEW p \in Passes, ContinueRetryPass(p)
       PROVE  TypeOK'
  BY <1>8, <1>10 DEF ContinueRetryPass
<1>11. ASSUME NEW c \in calls, RailConfirms(c)
       PROVE  TypeOK'
  BY <1>11, UpdateTypes DEF RailConfirms
<1>12. ASSUME NEW c \in calls, RailRefuses(c)
       PROVE  TypeOK'
  BY <1>12, UpdateTypes DEF RailRefuses
<1>13. ASSUME NEW b \in 1..created, ApproveManualPayout(b)
       PROVE  TypeOK'
  <2>1. Attempted(Approved(batches[b])) \in Batch
    BY UpdateTypes
  <2>2. batches' \in [1..created' -> Batch]
    BY <1>13, <2>1 DEF ApproveManualPayout
  <2>3. calls' \subseteq [batch: 1..created', by: Callers]
    BY <1>13 DEF ApproveManualPayout, Callers
  <2> QED
    BY <1>13, <2>2, <2>3 DEF ApproveManualPayout
<1>14. ASSUME NEW b \in 1..created
       PROVE  BalanceAfterRelease(batches[b]) \in [Merchants -> Nat]
  <2>1. batches[b].merchant \in Merchants /\ batches[b].asset \in Assets
        /\ batches[b].amount \in Nat
    BY DEF Batch
  <2>2. pendingAmounts[batches[b].merchant] + batches[b].amount \in Nat
        /\ Grain[batches[b].asset] \in Nat \ {0}
    BY <2>1
  <2>3. Quantize(pendingAmounts[batches[b].merchant] + batches[b].amount,
                 Grain[batches[b].asset]) \in Nat
    BY <2>2, QuantizeType
  <2> QED
    BY <2>1, <2>3 DEF BalanceAfterRelease
<1>15. ASSUME NEW b \in 1..created, RejectManualPayout(b)
       PROVE  TypeOK'
  BY <1>14, <1>15, UpdateTypes DEF RejectManualPayout
<1>16. ASSUME NEW b \in 1..created, RetryFailedBatch(b)
       PROVE  TypeOK'
  BY <1>16, UpdateTypes DEF RetryFailedBatch
<1>17. ASSUME NEW b \in 1..created, ReleaseReservedFunds(b)
       PROVE  TypeOK'
  BY <1>14, <1>17, UpdateTypes DEF ReleaseReservedFunds
<1>18. ASSUME NEW b \in 1..created, BackoffElapses(b)
       PROVE  TypeOK'
  BY <1>18, UpdateTypes DEF BackoffElapses
<1>19. CASE Tick
  BY <1>19 DEF Tick
<1>20. CASE UNCHANGED vars
  BY <1>20 DEF vars
<1> QED
  BY <1>1, <1>2, <1>3, <1>5, <1>6, <1>7, <1>9, <1>10, <1>11, <1>12, <1>13, <1>15,
     <1>16, <1>17, <1>18, <1>19, <1>20 DEF Next

(* Every value starts with its type. *)
LEMMA TypeInit == ASSUME Init PROVE TypeOK
<1>1. batches \in [1..created -> Batch]
  BY EmptyArray DEF Init
<1>2. /\ pendingAmounts \in [Merchants -> Nat]
      /\ lastMaterialisedAt \in [Merchants -> Nat \cup {Never}]
      /\ credited \in [Merchants -> Int]
      /\ passTodo \in [Passes -> SUBSET (1..created)]
  BY DEF Init
<1> QED
  BY <1>1, <1>2 DEF Init, TypeOK

(* Every value keeps its type, whatever the operators, the passes and the rail do. *)
THEOREM TypeCorrect == Spec => []TypeOK
<1>1. Init => TypeOK
  BY TypeInit
<1>2. TypeOK /\ [Next]_vars => TypeOK'
  BY TypeStep
<1> QED
  BY <1>1, <1>2, PTL DEF Spec

\* Why a failed batch is retried: an operator may retry it, or a pass has it on its list,
\* or finds it due, and takes it off its list.
Eligible(b) ==
    \/ ManualRetry /\ CanRetry(batches[b])
    \/ \E p \in Passes : /\ b \in passTodo[p] \/ DueForRetry(batches[b])
                         /\ b \notin passTodo'[p]

\* What a step may do to a batch that exists.
Keeps(b)    == batches'[b] = batches[b]
Approves(b) == /\ batches[b].status = "pending"
               /\ batches'[b] = Attempted(Approved(batches[b]))
Rejects(b)  == batches[b].status = "pending" /\ batches'[b] = Rejected(batches[b])
Requeues(b) == /\ batches[b].status = "failed" /\ Eligible(b)
               /\ batches'[b] = Requeued(batches[b])
Resettles(b) == /\ batches[b].status = "failed" /\ Eligible(b)
                /\ ~batches[b].requiresApproval
                /\ batches'[b] = Attempted(Requeued(batches[b]))
Unschedules(b) == /\ batches[b].status # "failed" /\ Eligible(b)
                  /\ batches'[b] = Unscheduled(batches[b])
Releases(b) == /\ batches[b].status = "failed"
               /\ EarlyRelease \/ batches[b].attempts >= MaxAttempts
               /\ batches'[b] = Released(batches[b])
Wakes(b)    == batches[b].nextAttempt = "waiting" /\ batches'[b] = Elapsed(batches[b])
Answers(b)  == /\ \E c \in calls : c.batch = b
               /\ \/ batches'[b] = Settled(batches[b]) /\ b \in moved'
                  \/ batches'[b] = Refused(batches[b])

Progress(b) ==
    \/ Keeps(b) \/ Approves(b) \/ Rejects(b) \/ Requeues(b) \/ Resettles(b)
    \/ Unschedules(b) \/ Releases(b) \/ Wakes(b) \/ Answers(b)

\* The rail moves the money of one batch at a time, while that batch is executing.
MovesOne ==
    \/ moved' = moved
    \/ \E c \in calls : /\ moved' = moved \cup {c.batch}
                        /\ AmbiguousRail \/ batches'[c.batch] = Settled(batches[c.batch])

\* A pass only visits what was due when it began.
ListsDue == \A p \in Passes : \A b \in passTodo'[p] :
               b \in passTodo[p] \/ (b \in 1..created /\ DueForRetry(batches[b]))

\* What a batch looks like when it is created.
Fresh(r) ==
    /\ r.status = IF r.requiresApproval THEN "pending" ELSE "executing"
    /\ r.attempts = IF r.requiresApproval THEN 0 ELSE 1
    /\ r.approvals = 0
    /\ ~r.rejected /\ ~r.fundsReleased
    /\ r.nextAttempt = "none"

(* Every step leaves each batch alone or updates it in one of these ways, and a batch it
   adds is fresh. *)
LEMMA BatchStep ==
    ASSUME TypeOK, [Next]_vars
    PROVE  /\ created' >= created
           /\ \A b \in 1..created : Progress(b)
           /\ \A b \in 1..created' : b > created => Fresh(batches'[b])
           /\ MovesOne
           /\ ListsDue
<1> USE EngineAssumption
<1> DEFINE Goal == /\ created' >= created
                   /\ \A b \in 1..created : Progress(b)
                   /\ \A b \in 1..created' : b > created => Fresh(batches'[b])
<1>1. created \in Nat /\ batches \in [1..created -> Batch]
      /\ passTodo \in [Passes -> SUBSET (1..created)]
  BY DEF TypeOK
<1>2. ASSUME UNCHANGED <<created, batches>>
      PROVE  Goal
  BY <1>1, <1>2 DEF Progress, Keeps
<1>3. ASSUME NEW b \in 1..created, NEW u, created' = created,
             batches' = [batches EXCEPT ![b] = u],
             batches'[b] = u => Progress(b)
      PROVE  Goal
  BY <1>1, <1>3 DEF Progress, Keeps
<1>4. ASSUME NEW s \in Schedule, NEW todo, Visit(s, todo)
      PROVE  Goal
  <2>1. CASE UNCHANGED <<created, batches>>
    BY <1>2, <2>1
  <2>2. CASE CreateBatch(s)
    <3> DEFINE batch == NewBatch(s, pendingAmounts[s.merchant])
    <3>1. /\ batch.status = "pending" /\ batch.attempts = 0 /\ batch.approvals = 0
          /\ ~batch.rejected /\ ~batch.fundsReleased /\ batch.nextAttempt = "none"
      BY DEF NewBatch
    <3>2. batch \in Batch
      <4>1. s.merchant \in Merchants /\ s.kind \in Kinds /\ s.asset \in Assets
        BY DEF Schedule, Kinds
      <4>2. Quantize(pendingAmounts[s.merchant], Grain[s.asset]) \in Nat
        BY <4>1, QuantizeType DEF TypeOK
      <4> QED
        BY <4>1, <4>2 DEF NewBatch, Batch, RequiresApproval, TypeOK
    <3> HIDE DEF batch
    <3>3. /\ Becomes(Attempted(batch), batch, "executing", batch.attempts + 1,
                     batch.approvals, batch.nextAttempt)
          /\ Flags(Attempted(batch), batch.rejected, batch.fundsReleased)
      BY <3>2, UpdateFields
    <3>4. /\ created' = created + 1
          /\ \A b \in 1..created : batches'[b] = batches[b]
          /\ batches'[created + 1] = IF batch.requiresApproval THEN batch ELSE Attempted(batch)
      BY <1>1, <2>2 DEF CreateBatch, batch
    <3>5. Fresh(batches'[created + 1])
      BY <3>1, <3>3, <3>4 DEF Fresh, Becomes, Flags
    <3> QED
      BY <1>1, <3>4, <3>5 DEF Progress, Keeps
  <2> QED
    BY <1>4, <2>1, <2>2 DEF Visit
<1>5. ASSUME NEW p \in Passes, NEW due \in SUBSET (1..created), created' = created,
             \A b \in due : b \in passTodo[p] \/ DueForRetry(batches[b]),
             RunRetries(p, due)
      PROVE  Goal /\ ListsDue
  <2>1. ASSUME NEW b \in due, b \notin passTodo'[p]
        PROVE  Eligible(b)
    BY <1>5, <2>1 DEF Eligible
  <2>2. CASE RunToTheEnd(p, due)
    <3>1. \A b \in due : Eligible(b) /\ batches[b].status = "failed"
      BY <1>1, <2>1, <2>2 DEF RunToTheEnd, Stops
    <3>2. \A b \in 1..created : Progress(b)
      BY <1>1, <2>2, <3>1 DEF RunToTheEnd, Progress, Keeps, Requeues
    <3>3. ListsDue
      BY <1>1, <2>2 DEF RunToTheEnd, ListsDue
    <3> QED
      BY <1>1, <1>5, <3>2, <3>3
  <2>3. ASSUME NEW stop \in due, FirstStop(due, stop), NEW b \in due, b < stop
        PROVE  batches[b].status = "failed"
    BY <1>1, <2>3 DEF FirstStop, Stops
  <2>4. ASSUME NEW stop \in due, RunToSettlement(p, due, stop)
        PROVE  Goal /\ ListsDue
    <3>1. ~batches[stop].requiresApproval
      BY <2>4 DEF RunToSettlement, FirstStop, Stops, SettledByPass
    <3>2. passTodo'[p] = {b \in due : b > stop}
      BY <1>1, <2>4 DEF RunToSettlement
    <3>3. \A b \in due : ~(b > stop) => Eligible(b)
      BY <2>1, <3>2
    <3>4. \A b \in 1..created : b \in due /\ b < stop => batches[b].status = "failed" /\ Eligible(b)
      BY <1>1, <2>3, <2>4, <3>3 DEF RunToSettlement
    <3>5. Eligible(stop)
      BY <1>1, <3>3
    <3>6. \A b \in 1..created : Progress(b)
      BY <1>1, <2>4, <3>1, <3>4, <3>5
         DEF RunToSettlement, BatchesUpTo, Progress, Keeps, Requeues, Resettles
    <3>7. ListsDue
      BY <1>1, <1>5, <2>4 DEF RunToSettlement, ListsDue
    <3> QED
      BY <1>1, <1>5, <3>6, <3>7
  <2>5. ASSUME NEW stop \in due, RunToError(p, due, stop)
        PROVE  Goal /\ ListsDue
    <3>1. passTodo'[p] = {}
      BY <1>1, <2>5 DEF RunToError
    <3>2. \A b \in due : Eligible(b)
      BY <2>1, <3>1
    <3>3. \A b \in 1..created : b \in due /\ b < stop => batches[b].status = "failed"
      BY <2>3, <2>5 DEF RunToError
    <3>4. \A b \in 1..created : Progress(b)
      BY <1>1, <2>5, <3>2, <3>3
         DEF RunToError, BatchesUpTo, Progress, Keeps, Requeues, Unschedules
    <3>5. ListsDue
      BY <1>1, <2>5 DEF RunToError, ListsDue
    <3> QED
      BY <1>1, <1>5, <3>4, <3>5
  <2> QED
    BY <1>5, <2>2, <2>4, <2>5 DEF RunRetries
<1>6. UNCHANGED passTodo => ListsDue
  BY DEF ListsDue
<1>7. UNCHANGED moved => MovesOne
  BY DEF MovesOne
<1> HIDE DEF Goal
<1> DEFINE All == Goal /\ MovesOne /\ ListsDue
<1>8. ASSUME NEW m \in Merchants, NEW amount \in Amounts, SetPendingAmount(m, amount)
      PROVE  All
  BY <1>2, <1>6, <1>7, <1>8 DEF SetPendingAmount
<1>9. ASSUME NEW s \in Schedule, ConfigureSchedule(s)
      PROVE  All
  BY <1>2, <1>6, <1>7, <1>9 DEF ConfigureSchedule
<1>10. ASSUME NEW m \in Merchants, RemoveSchedule(m)
       PROVE  All
  BY <1>2, <1>6, <1>7, <1>10 DEF RemoveSchedule
<1>11. ASSUME StartEvaluation PROVE All
  BY <1>4, <1>6, <1>7, <1>11 DEF StartEvaluation, TypeOK
<1>12. ASSUME ContinueEvaluation PROVE All
  BY <1>4, <1>6, <1>7, <1>12 DEF ContinueEvaluation, TypeOK
<1>13. ASSUME FinishEvaluation \/ Tick \/ UNCHANGED vars PROVE All
  BY <1>2, <1>6, <1>7, <1>13 DEF FinishEvaluation, Tick, vars
<1>14. ASSUME NEW p \in Passes, StartRetryPass(p)
       PROVE  All
  <2>1. DueBatches \in SUBSET (1..created) /\ \A b \in DueBatches : DueForRetry(batches[b])
    BY DEF DueBatches
  <2> QED
    BY <1>5, <1>7, <1>14, <2>1 DEF StartRetryPass
<1>15. ASSUME NEW p \in Passes, ContinueRetryPass(p)
       PROVE  All
  BY <1>5, <1>7, <1>15 DEF ContinueRetryPass, TypeOK
<1>16. ASSUME NEW c \in calls, RailConfirms(c) \/ RailRefuses(c)
       PROVE  All
  <2>1. c.batch \in 1..created
    BY DEF TypeOK
  <2>2. CASE RailConfirms(c)
    <3>1. Goal
      BY <1>1, <1>3, <2>1, <2>2 DEF RailConfirms, Progress, Answers
    <3>2. MovesOne
      BY <1>1, <2>1, <2>2 DEF RailConfirms, MovesOne
    <3> QED
      BY <1>6, <2>2, <3>1, <3>2 DEF RailConfirms
  <2>3. CASE RailRefuses(c)
    <3>1. Goal
      BY <1>1, <1>3, <2>1, <2>3 DEF RailRefuses, Progress, Answers
    <3>2. MovesOne
      BY <2>3 DEF RailRefuses, MovesOne
    <3> QED
      BY <1>6, <2>3, <3>1, <3>2 DEF RailRefuses
  <2> QED
    BY <1>16, <2>2, <2>3
<1>17. ASSUME NEW b \in 1..created, ApproveManualPayout(b)
       PROVE  All
  BY <1>3, <1>6, <1>7, <1>17 DEF ApproveManualPayout, CanApprove, Progress, Approves
<1>18. ASSUME NEW b \in 1..created, RejectManualPayout(b)
       PROVE  All
  BY <1>3, <1>6, <1>7, <1>18 DEF RejectManualPayout, CanReject, Progress, Rejects
<1>19. ASSUME NEW b \in 1..created, RetryFailedBatch(b)
       PROVE  All
  <2>1. batches[b].status = "failed" /\ Eligible(b)
    BY <1>19 DEF RetryFailedBatch, CanRetry, Eligible
  <2> QED
    BY <1>3, <1>6, <1>7, <1>19, <2>1 DEF RetryFailedBatch, Progress, Requeues
<1>20. ASSUME NEW b \in 1..created, ReleaseReservedFunds(b)
       PROVE  All
  BY <1>3, <1>6, <1>7, <1>20 DEF ReleaseReservedFunds, CanRelease, Progress, Releases
<1>21. ASSUME NEW b \in 1..created, BackoffElapses(b)
       PROVE  All
  BY <1>3, <1>6, <1>7, <1>21 DEF BackoffElapses, Progress, Wakes
<1>22. All
  BY <1>8, <1>9, <1>10, <1>11, <1>12, <1>13, <1>14, <1>15, <1>16, <1>17, <1>18, <1>19, <1>20,
     <1>21 DEF Next
<1> QED
  BY <1>22 DEF Goal

Executing == {b \in 1..created : batches[b].status = "executing"}

(* A call to the rail begins when its batch starts executing and ends with it. *)
LEMMA CallStep ==
    ASSUME TypeOK, [Next]_vars
    PROVE  \/ calls' = calls /\ Executing' = Executing
           \/ \E c : /\ c.batch \notin Executing
                     /\ calls' = calls \cup {c}
                     /\ Executing' = Executing \cup {c.batch}
           \/ \E c \in calls : calls' = calls \ {c} /\ Executing' = Executing \ {c.batch}
<1> USE EngineAssumption
<1> DEFINE Goal == \/ calls' = calls /\ Executing' = Executing
                   \/ \E c : /\ c.batch \notin Executing
                             /\ calls' = calls \cup {c}
                             /\ Executing' = Executing \cup {c.batch}
                   \/ \E c \in calls : /\ calls' = calls \ {c}
                                       /\ Executing' = Executing \ {c.batch}
<1>1. created \in Nat /\ batches \in [1..created -> Batch]
  BY DEF TypeOK
<1>2. \A b \in 1..created : batches[b] \in Batch
  BY <1>1
<1>3. ASSUME UNCHANGED <<created, batches, calls>>
      PROVE  Goal
  BY <1>3 DEF Executing
<1>4. ASSUME UNCHANGED <<created, calls>>, NEW b \in 1..created, NEW u,
             batches' = [batches EXCEPT ![b] = u],
             (batches[b].status = "executing") <=> (u.status = "executing")
      PROVE  Goal
  BY <1>1, <1>4 DEF Executing
<1>5. ASSUME NEW s \in Schedule, NEW todo, Visit(s, todo)
      PROVE  Goal
  <2>1. CASE UNCHANGED <<created, batches, calls>>
    BY <1>3, <2>1
  <2>2. CASE CreateBatch(s)
    <3> DEFINE batch == NewBatch(s, pendingAmounts[s.merchant])
    <3>1. batch.status = "pending"
      BY DEF NewBatch
    <3>2. Attempted(batch).status = "executing"
      BY DEF NewBatch, Attempted
    <3> HIDE DEF batch
    <3>3. /\ created' = created + 1
          /\ \A b \in 1..created : batches'[b] = batches[b]
          /\ batches'[created + 1] = IF batch.requiresApproval THEN batch ELSE Attempted(batch)
          /\ calls' = IF batch.requiresApproval THEN calls
                      ELSE calls \cup {[batch |-> created + 1, by |-> Evaluator]}
      BY <1>1, <2>2 DEF CreateBatch, batch
    <3>4. CASE batch.requiresApproval
      BY <1>1, <3>1, <3>3, <3>4 DEF Executing
    <3>5. CASE ~batch.requiresApproval
      <4> DEFINE c == [batch |-> created + 1, by |-> Evaluator]
      <4>1. c.batch \notin Executing /\ calls' = calls \cup {c}
        BY <1>1, <3>3, <3>5 DEF Executing
      <4>2. Executing' = Executing \cup {c.batch}
        BY <1>1, <3>2, <3>3, <3>5 DEF Executing
      <4> QED
        BY <4>1, <4>2
    <3> QED
      BY <3>4, <3>5
  <2> QED
    BY <1>5, <2>1, <2>2 DEF Visit
<1>6. ASSUME NEW p \in Passes, NEW due \in SUBSET (1..created), created' = created,
             RunRetries(p, due)
      PROVE  Goal
  <2>1. \A b \in 1..created : /\ Requeued(batches[b]).status = "pending"
                              /\ Unscheduled(batches[b]).status = batches[b].status
                              /\ Attempted(Requeued(batches[b])).status = "executing"
    BY <1>2, UpdateFields, UpdateTypes DEF Becomes
  <2>2. CASE RunToTheEnd(p, due)
    <3>1. \A b \in due : batches[b].status = "failed"
      BY <2>2 DEF RunToTheEnd, Stops
    <3> QED
      BY <1>1, <1>6, <2>1, <2>2, <3>1 DEF RunToTheEnd, Executing
  <2>3. ASSUME NEW stop \in due, FirstStop(due, stop), NEW b \in due, b < stop
        PROVE  batches[b].status = "failed"
    BY <1>1, <2>3 DEF FirstStop, Stops
  <2>4. ASSUME NEW stop \in due, RunToSettlement(p, due, stop)
        PROVE  Goal
    <3> DEFINE c == [batch |-> stop, by |-> p]
    <3>1. \A b \in 1..created : b \in due /\ b < stop => batches[b].status = "failed"
      BY <2>3, <2>4 DEF RunToSettlement
    <3>2. c.batch \notin Executing /\ calls' = calls \cup {c}
      BY <2>4 DEF RunToSettlement, Executing
    <3>3. Executing' = Executing \cup {c.batch}
      BY <1>1, <1>6, <2>1, <2>4, <3>1 DEF RunToSettlement, BatchesUpTo, Executing
    <3> QED
      BY <3>2, <3>3
  <2>5. ASSUME NEW stop \in due, RunToError(p, due, stop)
        PROVE  Goal
    <3>1. \A b \in 1..created : b \in due /\ b < stop => batches[b].status = "failed"
      BY <2>3, <2>5 DEF RunToError
    <3>2. Executing' = Executing
      BY <1>1, <1>6, <2>1, <2>5, <3>1 DEF RunToError, BatchesUpTo, Executing
    <3> QED
      BY <2>5, <3>2 DEF RunToError
  <2> QED
    BY <1>6, <2>2, <2>4, <2>5 DEF RunRetries
<1>7. ASSUME NEW c \in calls, RailConfirms(c) \/ RailRefuses(c)
      PROVE  Goal
  <2>1. c.batch \in 1..created
    BY DEF TypeOK
  <2>2. Settled(batches[c.batch]).status = "completed" /\ Refused(batches[c.batch]).status = "failed"
    BY <1>2, <2>1, UpdateFields DEF Becomes
  <2>3. Executing' = Executing \ {c.batch} /\ calls' = calls \ {c}
    BY <1>1, <1>7, <2>1, <2>2 DEF RailConfirms, RailRefuses, Executing
  <2> QED
    BY <2>3
<1>8. ASSUME NEW b \in 1..created, ApproveManualPayout(b)
      PROVE  Goal
  <2> DEFINE c == [batch |-> b, by |-> Operator]
  <2>1. Attempted(Approved(batches[b])).status = "executing"
    BY <1>2, UpdateFields, UpdateTypes DEF Becomes
  <2>2. Executing' = Executing \cup {c.batch}
    BY <1>1, <1>8, <2>1 DEF ApproveManualPayout, Executing
  <2>3. c.batch \notin Executing /\ calls' = calls \cup {c}
    BY <1>8 DEF ApproveManualPayout, CanApprove, Executing
  <2> QED
    BY <2>2, <2>3
<1>9. ASSUME NEW b \in 1..created, RejectManualPayout(b)
      PROVE  Goal
  <2>1. Rejected(batches[b]).status = "failed"
    BY <1>2, UpdateFields DEF Becomes
  <2> QED
    BY <1>4, <1>9, <2>1 DEF RejectManualPayout, CanReject
<1>10. ASSUME NEW b \in 1..created, RetryFailedBatch(b)
       PROVE  Goal
  <2>1. Requeued(batches[b]).status = "pending"
    BY <1>2, UpdateFields DEF Becomes
  <2> QED
    BY <1>4, <1>10, <2>1 DEF RetryFailedBatch, CanRetry
<1>11. ASSUME NEW b \in 1..created, ReleaseReservedFunds(b)
       PROVE  Goal
  <2>1. Released(batches[b]).status = batches[b].status
    BY <1>2, UpdateFields DEF Becomes
  <2> QED
    BY <1>4, <1>11, <2>1 DEF ReleaseReservedFunds
<1>12. ASSUME NEW b \in 1..created, BackoffElapses(b)
       PROVE  Goal
  <2>1. Elapsed(batches[b]).status = batches[b].status
    BY <1>2, UpdateFields DEF Becomes
  <2> QED
    BY <1>4, <1>12, <2>1 DEF BackoffElapses
<1> HIDE DEF Goal
<1>13. ASSUME NEW m \in Merchants, NEW amount \in Amounts, SetPendingAmount(m, amount)
       PROVE  Goal
  BY <1>3, <1>13 DEF SetPendingAmount
<1>14. ASSUME NEW s \in Schedule, ConfigureSchedule(s)
       PROVE  Goal
  BY <1>3, <1>14 DEF ConfigureSchedule
<1>15. ASSUME NEW m \in Merchants, RemoveSchedule(m)
       PROVE  Goal
  BY <1>3, <1>15 DEF RemoveSchedule
<1>16. ASSUME StartEvaluation PROVE Goal
  BY <1>5, <1>16 DEF StartEvaluation, TypeOK
<1>17. ASSUME ContinueEvaluation PROVE Goal
  BY <1>5, <1>17 DEF ContinueEvaluation, TypeOK
<1>18. ASSUME FinishEvaluation \/ Tick \/ UNCHANGED vars PROVE Goal
  BY <1>3, <1>18 DEF FinishEvaluation, Tick, vars
<1>19. ASSUME NEW p \in Passes, StartRetryPass(p)
       PROVE  Goal
  <2>1. DueBatches \in SUBSET (1..created)
    BY DEF DueBatches
  <2> QED
    BY <1>6, <1>19, <2>1 DEF StartRetryPass
<1>20. ASSUME NEW p \in Passes, ContinueRetryPass(p)
       PROVE  Goal
  BY <1>6, <1>20 DEF ContinueRetryPass, TypeOK
<1>21. Goal
  BY <1>7, <1>8, <1>9, <1>10, <1>11, <1>12, <1>13, <1>14, <1>15, <1>16, <1>17, <1>18, <1>19,
     <1>20 DEF Next
<1> QED
  BY <1>21 DEF Goal

-----------------------------------------------------------------------------
(* What holds in every deployment *)

\* Only a failed batch has a retry scheduled: the strengthening that makes a retry pass
\* which clears the schedule of a batch before it throws harmless.
ScheduledIsFailed ==
    \A b \in 1..created : batches[b].nextAttempt # "none" => batches[b].status = "failed"

EngineInv ==
    /\ TypeOK
    /\ OneAttemptAtATime
    /\ ReviewedBeforeRail
    /\ RetryableIsScheduled
    /\ ScheduledIsFailed

(* The calls to the rail stay in step with the executing batches. *)
LEMMA OneAttemptStep ==
    ASSUME TypeOK, OneAttemptAtATime, [Next]_vars
    PROVE  OneAttemptAtATime'
<1>1. /\ \A c \in calls : c.batch \in Executing
      /\ \A b \in Executing : \E c \in calls : c.batch = b
      /\ \A c, d \in calls : c.batch = d.batch => c = d
  BY DEF OneAttemptAtATime, Executing, TypeOK
<1>2. /\ \A c \in calls' : c.batch \in Executing'
      /\ \A b \in Executing' : \E c \in calls' : c.batch = b
      /\ \A c, d \in calls' : c.batch = d.batch => c = d
  BY <1>1, CallStep
<1> QED
  BY <1>2 DEF OneAttemptAtATime, Executing

(* Whatever a step does to a batch, its attempts stay reviewed and scheduled. *)
LEMMA BatchInvStep ==
    ASSUME EngineInv, [Next]_vars
    PROVE  /\ ReviewedBeforeRail'
           /\ RetryableIsScheduled'
           /\ ScheduledIsFailed'
<1> USE EngineAssumption
<1> DEFINE Good(r) ==
             /\ r.requiresApproval => r.attempts <= r.approvals
             /\ r.status = "failed" /\ ~r.rejected /\ r.attempts < MaxAttempts
                  => r.nextAttempt # "none"
             /\ r.nextAttempt # "none" => r.status = "failed"
<1>1. \A b \in 1..created : batches[b] \in Batch
  BY DEF EngineInv, TypeOK
<1>2. \A b \in 1..created : Good(batches[b])
  BY DEF EngineInv, ReviewedBeforeRail, RetryableIsScheduled, ScheduledIsFailed
<1>3. ASSUME NEW b \in 1..created
      PROVE  Good(batches'[b])
  <2> DEFINE r == batches[b]
  <2>1. r \in Batch /\ Good(r) /\ r.attempts \in Nat /\ r.approvals \in Nat
    BY <1>1, <1>2 DEF Batch
  <2> HIDE DEF r
  <2>2. CASE Keeps(b)
    BY <2>1, <2>2 DEF Keeps, r
  <2>3. CASE Approves(b)
    <3>1. Approved(r) \in Batch
      BY <2>1, UpdateTypes
    <3>2. /\ Becomes(Approved(r), r, r.status, r.attempts, r.approvals + 1, r.nextAttempt)
          /\ Becomes(Attempted(Approved(r)), Approved(r), "executing", Approved(r).attempts + 1,
                     Approved(r).approvals, Approved(r).nextAttempt)
      BY <2>1, <3>1, UpdateFields
    <3> QED
      BY <2>1, <2>3, <3>2 DEF Approves, Becomes, r
  <2>4. CASE Rejects(b)
    <3>1. Becomes(Rejected(r), r, "failed", r.attempts, r.approvals, r.nextAttempt)
          /\ Flags(Rejected(r), TRUE, TRUE)
      BY <2>1, UpdateFields
    <3> QED
      BY <2>1, <2>4, <3>1 DEF Rejects, Becomes, Flags, r
  <2>5. CASE Requeues(b)
    <3>1. Becomes(Requeued(r), r, "pending", r.attempts, r.approvals, "none")
      BY <2>1, UpdateFields
    <3> QED
      BY <2>1, <2>5, <3>1 DEF Requeues, Becomes, r
  <2>6. CASE Resettles(b)
    <3>1. Requeued(r) \in Batch
      BY <2>1, UpdateTypes
    <3>2. /\ Becomes(Requeued(r), r, "pending", r.attempts, r.approvals, "none")
          /\ Becomes(Attempted(Requeued(r)), Requeued(r), "executing", Requeued(r).attempts + 1,
                     Requeued(r).approvals, Requeued(r).nextAttempt)
      BY <2>1, <3>1, UpdateFields
    <3> QED
      BY <2>1, <2>6, <3>2 DEF Resettles, Becomes, r
  <2>7. CASE Unschedules(b)
    <3>1. Becomes(Unscheduled(r), r, r.status, r.attempts, r.approvals, "none")
      BY <2>1, UpdateFields
    <3> QED
      BY <2>1, <2>7, <3>1 DEF Unschedules, Becomes, r
  <2>8. CASE Releases(b)
    <3>1. Becomes(Released(r), r, r.status, r.attempts, r.approvals, r.nextAttempt)
          /\ Flags(Released(r), r.rejected, TRUE)
      BY <2>1, UpdateFields
    <3> QED
      BY <2>1, <2>8, <3>1 DEF Releases, Becomes, Flags, r
  <2>9. CASE Wakes(b)
    <3>1. Becomes(Elapsed(r), r, r.status, r.attempts, r.approvals, "due")
          /\ Flags(Elapsed(r), r.rejected, r.fundsReleased)
      BY <2>1, UpdateFields
    <3> QED
      BY <2>1, <2>9, <3>1 DEF Wakes, Becomes, Flags, r
  <2>10. CASE Answers(b)
    <3>1. r.status = "executing"
      BY <2>10 DEF Answers, EngineInv, OneAttemptAtATime, r
    <3>2. /\ Becomes(Settled(r), r, "completed", r.attempts, r.approvals, "none")
          /\ Becomes(Refused(r), r, "failed", r.attempts, r.approvals,
                     IF r.attempts >= MaxAttempts THEN r.nextAttempt ELSE "waiting")
      BY <2>1, UpdateFields
    <3> QED
      BY <2>1, <2>10, <3>1, <3>2 DEF Answers, Becomes, r
  <2> QED
    BY <2>2, <2>3, <2>4, <2>5, <2>6, <2>7, <2>8, <2>9, <2>10, BatchStep DEF Progress, EngineInv
<1>4. ASSUME NEW b \in 1..created', b > created
      PROVE  Good(batches'[b])
  <2>1. Fresh(batches'[b])
    BY <1>4, BatchStep DEF EngineInv
  <2> QED
    BY <2>1 DEF Fresh
<1>5. \A b \in 1..created' : Good(batches'[b])
  BY <1>3, <1>4, BatchStep, TypeStep DEF EngineInv, TypeOK
<1> QED
  BY <1>5 DEF ReviewedBeforeRail, RetryableIsScheduled, ScheduledIsFailed

(* In every deployment: types, one attempt at a time, no attempt without its review, no
   retryable batch stranded. *)
THEOREM EngineInvariant == Spec => []EngineInv
<1>1. Init => EngineInv
  <2> SUFFICES ASSUME Init PROVE EngineInv
    OBVIOUS
  <2>1. TypeOK
    BY TypeInit
  <2>2. created = 0 /\ calls = {}
    BY DEF Init
  <2> QED
    BY <2>1, <2>2 DEF EngineInv, OneAttemptAtATime, ReviewedBeforeRail, RetryableIsScheduled,
                      ScheduledIsFailed
<1>2. EngineInv /\ [Next]_vars => EngineInv'
  BY TypeStep, OneAttemptStep, BatchInvStep DEF EngineInv
<1> QED
  BY <1>1, <1>2, PTL DEF Spec

(* At most one call to the rail is out for a batch, exactly while it is executing. *)
THEOREM OneAttemptAtATimeHolds == Spec => []OneAttemptAtATime
  BY EngineInvariant, PTL DEF EngineInv

(* No path of retries settles a batch more often than it was approved. *)
THEOREM ReviewedBeforeRailHolds == Spec => []ReviewedBeforeRail
  BY EngineInvariant, PTL DEF EngineInv

(* A failed batch that has attempts left and was not rejected has a retry ahead. *)
THEOREM RetryableIsScheduledHolds == Spec => []RetryableIsScheduled
  BY EngineInvariant, PTL DEF EngineInv

(* No step changes a settled batch. *)
THEOREM CompletedIsFinalHolds == Spec => CompletedIsFinal
<1>1. ASSUME EngineInv, [Next]_vars, NEW b \in 1..created, batches[b].status = "completed"
      PROVE  batches'[b] = batches[b]
  <2> DEFINE r == batches[b]
  <2>1. r \in Batch /\ r.nextAttempt = "none"
    BY <1>1 DEF EngineInv, TypeOK, ScheduledIsFailed
  <2>2. ~Answers(b) /\ ~Wakes(b)
    BY <1>1, <2>1 DEF EngineInv, OneAttemptAtATime, Answers, Wakes
  <2>3. Keeps(b) \/ Unschedules(b)
    BY <1>1, <2>2, BatchStep
       DEF Progress, EngineInv, Approves, Rejects, Requeues, Resettles, Releases
  <2>4. Unscheduled(r) = r
    BY <2>1 DEF Unscheduled, Batch
  <2> QED
    BY <2>3, <2>4 DEF Keeps, Unschedules
<1>2. EngineInv /\ [Next]_vars =>
        [\A b \in 1..created : batches[b].status = "completed" => batches'[b] = batches[b]]_vars
  BY <1>1
<1> QED
  BY <1>2, EngineInvariant, PTL DEF Spec, CompletedIsFinal

-----------------------------------------------------------------------------
(* What holds in a safe environment *)

\* A batch whose money is back in the balance can never be settled again, since it is
\* failed and either rejected or out of attempts; a batch that may be settled has an
\* attempt left, also while a pass has it on its list.
SafeBatch(b) ==
    LET r == batches[b]
    IN  /\ r.status = "completed" <=> b \in moved
        /\ r.rejected => r.status = "failed"
        /\ r.fundsReleased => r.status = "failed" /\ (r.rejected \/ r.attempts >= MaxAttempts)
        /\ r.status = "pending" => r.attempts < MaxAttempts
        /\ r.attempts <= MaxAttempts

SafeInv ==
    /\ \A b \in 1..created : SafeBatch(b)
    /\ \A p \in Passes : \A b \in passTodo[p] : DueForRetry(batches[b])

(* In a safe environment a batch that is retried may be retried: with one pass only, and
   no manual retry beside it, what is on the list of a pass is as it was when it began. *)
LEMMA EligibleIsRetryable ==
    ASSUME SafeInv, NEW b \in 1..created, Eligible(b)
    PROVE  CanRetry(batches[b])
  BY DEF SafeInv, Eligible, DueForRetry, CanRetry

(* No step of a safe environment releases what it may still settle. *)
LEMMA SafeStep ==
    ASSUME SafeEnvironment, EngineInv, SafeInv, [Next]_vars
    PROVE  SafeInv'
<1> USE EngineAssumption
<1>1. ASSUME NEW b \in 1..created
      PROVE  SafeBatch(b)'
  <2> DEFINE r == batches[b]
  <2>1. /\ r \in Batch /\ r.attempts \in Nat /\ r.approvals \in Nat
    BY DEF EngineInv, TypeOK, Batch
  <2>2. /\ r.status = "completed" <=> b \in moved
        /\ r.rejected => r.status = "failed"
        /\ r.fundsReleased => r.status = "failed" /\ (r.rejected \/ r.attempts >= MaxAttempts)
        /\ r.status = "pending" => r.attempts < MaxAttempts
        /\ r.attempts <= MaxAttempts
    BY DEF SafeInv, SafeBatch
  <2>3. ASSUME NEW c \in calls
        PROVE  batches[c.batch].status = "executing"
    BY DEF EngineInv, OneAttemptAtATime
  <2>4. moved \subseteq moved'
    BY BatchStep DEF MovesOne, EngineInv
  <2>5. ~(b \in moved) /\ b \in moved' => batches'[b] = Settled(r)
    BY BatchStep DEF MovesOne, EngineInv, SafeEnvironment
  <2>6. Becomes(Settled(r), r, "completed", r.attempts, r.approvals, "none")
        /\ Flags(Settled(r), r.rejected, r.fundsReleased)
    BY <2>1, UpdateFields
  <2> HIDE DEF r
  <2>7. CASE Keeps(b)
    BY <2>2, <2>4, <2>5, <2>6, <2>7 DEF Keeps, SafeBatch, Becomes, r
  <2>8. CASE Approves(b)
    <3>1. Approved(r) \in Batch
      BY <2>1, UpdateTypes
    <3>2. /\ Becomes(Approved(r), r, r.status, r.attempts, r.approvals + 1, r.nextAttempt)
          /\ Flags(Approved(r), r.rejected, r.fundsReleased)
          /\ Becomes(Attempted(Approved(r)), Approved(r), "executing", Approved(r).attempts + 1,
                     Approved(r).approvals, Approved(r).nextAttempt)
          /\ Flags(Attempted(Approved(r)), Approved(r).rejected, Approved(r).fundsReleased)
      BY <2>1, <3>1, UpdateFields
    <3> QED
      BY <2>1, <2>2, <2>4, <2>5, <2>6, <2>8, <3>2 DEF Approves, SafeBatch, Becomes, Flags, r
  <2>9. CASE Rejects(b)
    <3>1. Becomes(Rejected(r), r, "failed", r.attempts, r.approvals, r.nextAttempt)
          /\ Flags(Rejected(r), TRUE, TRUE)
      BY <2>1, UpdateFields
    <3> QED
      BY <2>1, <2>2, <2>4, <2>5, <2>6, <2>9, <3>1 DEF Rejects, SafeBatch, Becomes, Flags, r
  <2>10. CASE Requeues(b)
    <3>1. Becomes(Requeued(r), r, "pending", r.attempts, r.approvals, "none")
          /\ Flags(Requeued(r), r.rejected, r.fundsReleased)
      BY <2>1, UpdateFields
    <3>2. CanRetry(r)
      BY <2>10, EligibleIsRetryable DEF Requeues, r
    <3> QED
      BY <2>1, <2>2, <2>4, <2>5, <2>6, <2>10, <3>1, <3>2
         DEF Requeues, CanRetry, SafeBatch, Becomes, Flags, r
  <2>11. CASE Resettles(b)
    <3>1. Requeued(r) \in Batch
      BY <2>1, UpdateTypes
    <3>2. /\ Becomes(Requeued(r), r, "pending", r.attempts, r.approvals, "none")
          /\ Flags(Requeued(r), r.rejected, r.fundsReleased)
          /\ Becomes(Attempted(Requeued(r)), Requeued(r), "executing", Requeued(r).attempts + 1,
                     Requeued(r).approvals, Requeued(r).nextAttempt)
          /\ Flags(Attempted(Requeued(r)), Requeued(r).rejected, Requeued(r).fundsReleased)
      BY <2>1, <3>1, UpdateFields
    <3>3. CanRetry(r)
      BY <2>11, EligibleIsRetryable DEF Resettles, r
    <3> QED
      BY <2>1, <2>2, <2>4, <2>5, <2>6, <2>11, <3>2, <3>3
         DEF Resettles, CanRetry, SafeBatch, Becomes, Flags, r
  <2>12. ~Unschedules(b)
    BY EligibleIsRetryable DEF Unschedules, CanRetry
  <2>13. CASE Releases(b)
    <3>1. Becomes(Released(r), r, r.status, r.attempts, r.approvals, r.nextAttempt)
          /\ Flags(Released(r), r.rejected, TRUE)
      BY <2>1, UpdateFields
    <3> QED
      BY <2>1, <2>2, <2>4, <2>5, <2>6, <2>13, <3>1
         DEF Releases, SafeEnvironment, SafeBatch, Becomes, Flags, r
  <2>14. CASE Wakes(b)
    <3>1. Becomes(Elapsed(r), r, r.status, r.attempts, r.approvals, "due")
          /\ Flags(Elapsed(r), r.rejected, r.fundsReleased)
      BY <2>1, UpdateFields
    <3> QED
      BY <2>1, <2>2, <2>4, <2>5, <2>6, <2>14, <3>1 DEF Wakes, SafeBatch, Becomes, Flags, r
  <2>15. CASE Answers(b)
    <3>1. r.status = "executing"
      BY <2>3, <2>15 DEF Answers, r
    <3>2. /\ Becomes(Refused(r), r, "failed", r.attempts, r.approvals,
                     IF r.attempts >= MaxAttempts THEN r.nextAttempt ELSE "waiting")
          /\ Flags(Refused(r), r.rejected, r.fundsReleased)
      BY <2>1, UpdateFields
    <3>3. CASE batches'[b] = Settled(r) /\ b \in moved'
      BY <2>1, <2>2, <2>6, <3>1, <3>3 DEF SafeBatch, Becomes, Flags, r
    <3>4. CASE batches'[b] = Refused(r)
      BY <2>1, <2>2, <2>5, <2>6, <3>1, <3>2, <3>4 DEF SafeBatch, Becomes, Flags, r
    <3> QED
      BY <2>15, <3>3, <3>4 DEF Answers, r
  <2> QED
    BY <2>7, <2>8, <2>9, <2>10, <2>11, <2>12, <2>13, <2>14, <2>15, BatchStep
       DEF Progress, EngineInv
<1>2. ASSUME NEW b \in 1..created', b > created
      PROVE  SafeBatch(b)'
  <2>1. Fresh(batches'[b])
    BY <1>2, BatchStep DEF EngineInv
  <2>2. b \notin moved'
    BY <1>2, BatchStep DEF MovesOne, EngineInv, TypeOK
  <2> QED
    BY <2>1, <2>2 DEF Fresh, SafeBatch
<1>3. ASSUME NEW p \in Passes, NEW b \in passTodo'[p]
      PROVE  DueForRetry(batches'[b])
  <2>1. b \in 1..created /\ DueForRetry(batches[b])
    BY <1>3, BatchStep DEF ListsDue, SafeInv, EngineInv, TypeOK
  <2>2. ~Eligible(b)
    BY <1>3 DEF Eligible, SafeEnvironment
  <2>3. ~Approves(b) /\ ~Rejects(b) /\ ~Releases(b) /\ ~Wakes(b) /\ ~Answers(b)
    <3>1. batches[b].attempts \in Nat
      BY <2>1 DEF EngineInv, TypeOK, Batch
    <3>2. ~Approves(b) /\ ~Rejects(b) /\ ~Wakes(b)
      BY <2>1 DEF Approves, Rejects, Wakes, DueForRetry
    <3>3. ~Releases(b)
      BY <2>1, <3>1 DEF Releases, DueForRetry, SafeEnvironment
    <3>4. ~Answers(b)
      BY <2>1 DEF Answers, DueForRetry, EngineInv, OneAttemptAtATime
    <3> QED
      BY <3>2, <3>3, <3>4
  <2>4. Keeps(b)
    BY <2>1, <2>2, <2>3, BatchStep DEF Progress, Requeues, Resettles, Unschedules, EngineInv
  <2> QED
    BY <2>1, <2>4 DEF Keeps
<1>4. \A b \in 1..created' : SafeBatch(b)'
  BY <1>1, <1>2, BatchStep, TypeStep DEF EngineInv, TypeOK
<1> QED
  BY <1>3, <1>4 DEF SafeInv

(* The strengthening behind the promises about money. *)
LEMMA SafeInvariant == ASSUME SafeEnvironment PROVE Spec => [](EngineInv /\ SafeInv)
<1>1. Init => SafeInv
  BY DEF Init, SafeInv, SafeBatch
<1>2. EngineInv /\ SafeInv /\ [Next]_vars => SafeInv'
  BY SafeStep
<1> QED
  BY <1>1, <1>2, EngineInvariant, PTL DEF Spec

(* Money that went back to a balance is never also paid out, for any number of merchants,
   batches and attempts, if the environment is safe. *)
THEOREM NoDoublePaymentHolds == ASSUME SafeEnvironment PROVE Spec => []NoDoublePayment
<1>1. EngineInv /\ SafeInv => NoDoublePayment
  BY DEF EngineInv, TypeOK, SafeInv, SafeBatch, NoDoublePayment
<1> QED
  BY <1>1, SafeInvariant, PTL

(* The attempt budget holds if the environment is safe. *)
THEOREM AttemptsWithinBudgetHolds == ASSUME SafeEnvironment PROVE Spec => []AttemptsWithinBudget
<1>1. EngineInv /\ SafeInv => AttemptsWithinBudget
  BY DEF SafeInv, SafeBatch, AttemptsWithinBudget
<1> QED
  BY <1>1, SafeInvariant, PTL

(* A rejection is final if the environment is safe. *)
THEOREM RejectedIsFinalHolds == ASSUME SafeEnvironment PROVE Spec => []RejectedIsFinal
<1>1. EngineInv /\ SafeInv => RejectedIsFinal
  BY DEF SafeInv, SafeBatch, RejectedIsFinal
<1> QED
  BY <1>1, SafeInvariant, PTL

-----------------------------------------------------------------------------
(* The engine implements PayoutFunds *)

\* A step that leaves the money of a batch where it is.
SameMoney(b) ==
    /\ batches'[b].merchant = batches[b].merchant
    /\ batches'[b].asset = batches[b].asset
    /\ batches'[b].amount = batches[b].amount
    /\ batches'[b].fundsReleased = batches[b].fundsReleased
    /\ b \in moved' <=> b \in moved

\* An update of the same reservation, which is back in the balance or not.
SameReservation(u, r, released) ==
    /\ u.merchant = r.merchant /\ u.asset = r.asset /\ u.amount = r.amount
    /\ u.fundsReleased = released

(* Only a rejection or a release returns the money of a batch to the balance. *)
LEMMA UpdatesKeepMoney ==
    ASSUME NEW r \in Batch
    PROVE  /\ SameReservation(Attempted(r), r, r.fundsReleased)
           /\ SameReservation(Attempted(Approved(r)), r, r.fundsReleased)
           /\ SameReservation(Refused(r), r, r.fundsReleased)
           /\ SameReservation(Settled(r), r, r.fundsReleased)
           /\ SameReservation(Unscheduled(r), r, r.fundsReleased)
           /\ SameReservation(Requeued(r), r, r.fundsReleased)
           /\ SameReservation(Attempted(Requeued(r)), r, r.fundsReleased)
           /\ SameReservation(Elapsed(r), r, r.fundsReleased)
           /\ SameReservation(Released(r), r, TRUE)
           /\ SameReservation(Rejected(r), r, TRUE)
<1>1. ASSUME NEW u \in Batch
      PROVE  /\ SameReservation(Attempted(u), u, u.fundsReleased)
             /\ SameReservation(Approved(u), u, u.fundsReleased)
             /\ SameReservation(Refused(u), u, u.fundsReleased)
             /\ SameReservation(Settled(u), u, u.fundsReleased)
             /\ SameReservation(Unscheduled(u), u, u.fundsReleased)
             /\ SameReservation(Requeued(u), u, u.fundsReleased)
             /\ SameReservation(Elapsed(u), u, u.fundsReleased)
             /\ SameReservation(Released(u), u, TRUE)
             /\ SameReservation(Rejected(u), u, TRUE)
  BY DEF SameReservation, Batch, Attempted, Approved, Refused, Settled, Unscheduled, Requeued,
         Elapsed, Released, Rejected
<1>2. Approved(r) \in Batch /\ Requeued(r) \in Batch
  BY UpdateTypes
<1>3. SameReservation(Attempted(Approved(r)), r, r.fundsReleased)
  <2>1. SameReservation(Attempted(Approved(r)), Approved(r), Approved(r).fundsReleased)
    BY <1>1, <1>2
  <2>2. SameReservation(Approved(r), r, r.fundsReleased)
    BY <1>1
  <2> QED
    BY <2>1, <2>2 DEF SameReservation
<1>4. SameReservation(Attempted(Requeued(r)), r, r.fundsReleased)
  <2>1. SameReservation(Attempted(Requeued(r)), Requeued(r), Requeued(r).fundsReleased)
    BY <1>1, <1>2
  <2>2. SameReservation(Requeued(r), r, r.fundsReleased)
    BY <1>1
  <2> QED
    BY <2>1, <2>2 DEF SameReservation
<1> QED
  BY <1>1, <1>3, <1>4

(* When no money moves, the view of the payouts does not change. *)
LEMMA ViewUnchanged ==
    ASSUME TypeOK, created' = created, \A b \in 1..created : SameMoney(b)
    PROVE  PayoutView' = PayoutView
<1>1. \A b \in 1..created : Disposition(b)' = Disposition(b)
  BY DEF SameMoney, Disposition
<1>2. ASSUME NEW b \in 1..MaxBatches
      PROVE  PayoutView'[b] = PayoutView[b]
  <2>1. CASE b > created
    BY <2>1 DEF PayoutView
  <2>2. CASE ~(b > created)
    <3>1. b \in 1..created
      BY <2>2, EngineAssumption DEF TypeOK
    <3>2. SameMoney(b) /\ Disposition(b)' = Disposition(b)
      BY <1>1, <3>1
    <3> QED
      BY <2>2, <3>2 DEF PayoutView, SameMoney
  <2> QED
    BY <2>1, <2>2
<1>3. /\ PayoutView = [b \in 1..MaxBatches |-> PayoutView[b]]
      /\ PayoutView' = [b \in 1..MaxBatches |-> PayoutView'[b]]
  BY DEF PayoutView
<1> HIDE DEF PayoutView
<1> QED
  BY <1>2, <1>3

(* When the money of one batch moves, the view changes at that batch only. *)
LEMMA ViewChanges ==
    ASSUME TypeOK, created' = created, created <= MaxBatches, NEW x \in 1..created,
           \A b \in 1..created : b # x => SameMoney(b),
           batches'[x].merchant = batches[x].merchant,
           batches'[x].asset = batches[x].asset,
           batches'[x].amount = batches[x].amount
    PROVE  PayoutView' = [PayoutView EXCEPT ![x].state = Disposition(x)']
<1> USE EngineAssumption
<1>1. \A b \in 1..created : b # x => Disposition(b)' = Disposition(b)
  BY DEF SameMoney, Disposition
<1>2. x \in 1..MaxBatches /\ created \in Nat
  BY DEF TypeOK
<1>3. ASSUME NEW b \in 1..MaxBatches, b # x
      PROVE  PayoutView'[b] = PayoutView[b]
  BY <1>1, <1>2, <1>3 DEF PayoutView, SameMoney
<1>4. PayoutView'[x] = [PayoutView[x] EXCEPT !.state = Disposition(x)']
  BY <1>2 DEF PayoutView
<1>5. /\ PayoutView \in [1..MaxBatches -> {PayoutView[b] : b \in 1..MaxBatches}]
      /\ PayoutView' \in [1..MaxBatches -> {PayoutView'[b] : b \in 1..MaxBatches}]
  BY DEF PayoutView
<1> QED
  BY <1>2, <1>3, <1>4, <1>5

\* The part of the invariant that bounds the identifiers the abstract ledger knows.
Bounded == created <= MaxBatches

(* Both modules round alike. *)
LEMMA SameQuantize == \A n, d : Funds!Quantize(n, d) = Quantize(n, d)
  BY DEF Funds!Quantize, Quantize, Funds!DivRoundHalfUp, DivRoundHalfUp

(* A created batch takes the whole balance of its merchant. *)
LEMMA CreateReserves ==
    ASSUME TypeOK, NEW s \in Schedule, Materialises(s), CreateBatch(s), moved' = moved,
           NEW id, id = created + 1
    PROVE  Funds!Next /\ Bounded'
<1> USE EngineAssumption
<1> DEFINE m == s.merchant
           r == NewBatch(s, pendingAmounts[m])
<1>1. /\ created \in Nat /\ batches \in [1..created -> Batch]
      /\ pendingAmounts \in [Merchants -> Nat]
      /\ moved \subseteq 1..created
      /\ m \in Merchants /\ s.asset \in Assets
  BY DEF TypeOK, Schedule
<1>2. /\ created' = id /\ id \in 1..MaxBatches /\ created < MaxBatches
      /\ pendingAmounts' = [pendingAmounts EXCEPT ![m] = 0]
      /\ pendingAmounts[m] > 0
  BY <1>1 DEF CreateBatch, Materialises, IsTriggerMet
<1>3. batches' = [b \in 1..id |-> IF b # id THEN batches[b]
                                  ELSE IF r.requiresApproval THEN r ELSE Attempted(r)]
  BY DEF CreateBatch
<1>4. \A b \in 1..created : batches'[b] = batches[b]
  BY <1>1, <1>3
<1>5. /\ batches'[id].merchant = m /\ batches'[id].asset = s.asset
      /\ batches'[id].amount = Quantize(pendingAmounts[m], Grain[s.asset])
      /\ ~batches'[id].fundsReleased
  <2>1. batches'[id] = r \/ batches'[id] = Attempted(r)
    BY <1>1, <1>3
  <2>2. /\ r.merchant = m /\ r.asset = s.asset /\ ~r.fundsReleased
        /\ r.amount = Quantize(pendingAmounts[m], Grain[s.asset])
    BY DEF NewBatch
  <2>3. /\ Attempted(r).merchant = m /\ Attempted(r).asset = s.asset
        /\ ~Attempted(r).fundsReleased
        /\ Attempted(r).amount = Quantize(pendingAmounts[m], Grain[s.asset])
    BY DEF NewBatch, Attempted
  <2> QED
    BY <2>1, <2>2, <2>3
<1> HIDE DEF r
<1>6. Disposition(id)' = "held"
  BY <1>1, <1>5 DEF Disposition
<1>7. \A b \in 1..created : Disposition(b)' = Disposition(b)
  BY <1>4 DEF Disposition
<1>8. PayoutView[id] = Funds!Nothing
  BY <1>1, <1>2 DEF PayoutView, Funds!Nothing
<1>9. PayoutView'[id] = Funds!Hold(m, s.asset, Quantize(pendingAmounts[m], Grain[s.asset]))
  BY <1>1, <1>2, <1>5, <1>6 DEF PayoutView, Funds!Hold
<1>10. ASSUME NEW b \in 1..MaxBatches, b # id
       PROVE  PayoutView'[b] = PayoutView[b]
  BY <1>1, <1>2, <1>4, <1>7, <1>10 DEF PayoutView
<1>11. /\ PayoutView = [b \in 1..MaxBatches |-> PayoutView[b]]
       /\ PayoutView' = [b \in 1..MaxBatches |-> PayoutView'[b]]
  BY DEF PayoutView
<1>12. PayoutView' = [PayoutView EXCEPT ![id] =
                        Funds!Hold(m, s.asset, Quantize(pendingAmounts[m], Grain[s.asset]))]
  BY <1>2, <1>9, <1>10, <1>11
<1>13. Funds!Reserve(id, m, s.asset)
  BY <1>2, <1>8, <1>12, SameQuantize DEF Funds!Reserve
<1> QED
  BY <1>1, <1>2, <1>13 DEF Funds!Next, Bounded

(* A rejection or a release puts the money of one batch back into the balance. *)
LEMMA GivingBack ==
    ASSUME TypeOK, Bounded, NEW x \in 1..created, created' = created, moved' = moved,
           NEW u, batches' = [batches EXCEPT ![x] = u], SameReservation(u, batches[x], TRUE),
           ~batches[x].fundsReleased, x \notin moved,
           pendingAmounts' = BalanceAfterRelease(batches[x])
    PROVE  Funds!Next
<1> USE EngineAssumption
<1>1. /\ x \in 1..MaxBatches /\ batches[x] \in Batch /\ batches'[x] = u
      /\ batches \in [1..created -> Batch]
  BY DEF TypeOK, Bounded
<1>2. \A b \in 1..created : b # x => SameMoney(b)
  BY <1>1 DEF SameMoney
<1>3. PayoutView' = [PayoutView EXCEPT ![x].state = Disposition(x)']
  BY <1>1, <1>2, ViewChanges DEF Bounded, SameReservation
<1>4. Disposition(x)' = "returned"
  BY <1>1 DEF Disposition, SameReservation
<1>5. /\ PayoutView[x].state = "held" /\ PayoutView[x].merchant = batches[x].merchant
      /\ PayoutView[x].asset = batches[x].asset /\ PayoutView[x].amount = batches[x].amount
  BY <1>1 DEF PayoutView, Disposition, TypeOK
<1>6. Funds!Return(x)
  <2>1. PayoutView' = [PayoutView EXCEPT ![x].state = "returned"]
    BY <1>3, <1>4
  <2>2. pendingAmounts' = [pendingAmounts EXCEPT ![PayoutView[x].merchant] =
             Funds!Quantize(pendingAmounts[PayoutView[x].merchant] + PayoutView[x].amount,
                            Grain[PayoutView[x].asset])]
    BY <1>1, <1>5, SameQuantize DEF BalanceAfterRelease, Batch, TypeOK
  <2> QED
    BY <1>5, <2>1, <2>2 DEF Funds!Return
<1> QED
  BY <1>1, <1>6 DEF Funds!Next

(* The rail moves the money of a batch that is held. *)
LEMMA Paying ==
    ASSUME SafeEnvironment, EngineInv, SafeInv, Bounded, NEW c \in calls, RailConfirms(c)
    PROVE  Funds!Next
<1> USE EngineAssumption
<1>1. PICK x \in 1..created : x = c.batch
  BY DEF EngineInv, TypeOK
<1>2. /\ x \in 1..MaxBatches /\ batches[x] \in Batch /\ batches \in [1..created -> Batch]
      /\ created \in Nat /\ moved \subseteq 1..created
  BY DEF EngineInv, TypeOK, Bounded
<1>3. batches[x].status = "executing" /\ x \notin moved /\ ~batches[x].fundsReleased
  BY <1>1, <1>2 DEF EngineInv, OneAttemptAtATime, SafeInv, SafeBatch
<1>4. /\ batches' = [batches EXCEPT ![x] = Settled(batches[x])] /\ created' = created
      /\ moved' = moved \cup {x} /\ pendingAmounts' = pendingAmounts
  BY <1>1 DEF RailConfirms
<1>5. SameReservation(batches'[x], batches[x], batches[x].fundsReleased)
  BY <1>2, <1>4, UpdatesKeepMoney
<1>6. \A b \in 1..created : b # x => SameMoney(b)
  BY <1>2, <1>4 DEF SameMoney
<1>7. PayoutView' = [PayoutView EXCEPT ![x].state = Disposition(x)']
  BY <1>4, <1>5, <1>6, ViewChanges DEF Bounded, SameReservation, EngineInv
<1>8. Disposition(x)' = "paid"
  BY <1>4 DEF Disposition
<1>9. PayoutView[x].state = "held"
  BY <1>2, <1>3 DEF PayoutView, Disposition
<1>10. Funds!Pay(x)
  BY <1>4, <1>7, <1>8, <1>9 DEF Funds!Pay
<1> QED
  BY <1>2, <1>10 DEF Funds!Next

(* A step that leaves the balance, the money and the reservations alone is a stutter. *)
LEMMA Stuttering ==
    ASSUME TypeOK, Bounded, created' = created, pendingAmounts' = pendingAmounts,
           moved' = moved,
           \A b \in 1..created :
              \/ batches'[b] = batches[b]
              \/ SameReservation(batches'[b], batches[b], batches[b].fundsReleased)
    PROVE  UNCHANGED Funds!vars /\ Bounded'
<1>1. \A b \in 1..created : SameMoney(b)
  BY DEF SameMoney, SameReservation
<1> QED
  BY <1>1, ViewUnchanged DEF Funds!vars, Bounded

(* A retry pass keeps every reservation. *)
LEMMA PassKeepsMoney ==
    ASSUME TypeOK, NEW p \in Passes, NEW due \in SUBSET (1..created), RunRetries(p, due),
           NEW b \in 1..created
    PROVE  \/ batches'[b] = batches[b]
           \/ SameReservation(batches'[b], batches[b], batches[b].fundsReleased)
<1>1. batches[b] \in Batch
  BY DEF TypeOK
<1>2. \/ batches'[b] = batches[b] \/ batches'[b] = Requeued(batches[b])
      \/ batches'[b] = Attempted(Requeued(batches[b])) \/ batches'[b] = Unscheduled(batches[b])
  BY DEF RunRetries, RunToTheEnd, RunToSettlement, RunToError, BatchesUpTo
<1> QED
  BY <1>1, <1>2, UpdatesKeepMoney

\* What a step does to the money: nothing, or it sets a balance, reserves it for a batch,
\* returns it, or pays it out.
SameReservations ==
    /\ UNCHANGED <<created, pendingAmounts, credited>>
    /\ \A b \in 1..created :
          \/ batches'[b] = batches[b]
          \/ SameReservation(batches'[b], batches[b], batches[b].fundsReleased)
Rests    == SameReservations /\ moved' = moved
Pays     == SameReservations /\ \E c \in calls : RailConfirms(c)
Deposits == \E m \in Merchants, amount \in Amounts : SetPendingAmount(m, amount)
Reserves == \E s \in Schedule : /\ Materialises(s) /\ CreateBatch(s)
                               /\ UNCHANGED <<moved, credited, now>>
ReturnsOf(x, u) ==
    /\ batches' = [batches EXCEPT ![x] = u] /\ SameReservation(u, batches[x], TRUE)
    /\ ~batches[x].fundsReleased /\ x \notin moved
    /\ pendingAmounts' = BalanceAfterRelease(batches[x])
    /\ UNCHANGED <<created, moved, credited>>
Returns  == \E x \in 1..created, u \in Batch : ReturnsOf(x, u)

(* In a safe environment every step does one of these to the money. *)
LEMMA MoneySteps ==
    ASSUME SafeEnvironment, EngineInv, SafeInv, [Next]_vars
    PROVE  Rests \/ Pays \/ Deposits \/ Reserves \/ Returns
<1> USE EngineAssumption
<1> DEFINE Goal == Rests \/ Pays \/ Deposits \/ Reserves \/ Returns
           Same == \A b \in 1..created :
                      \/ batches'[b] = batches[b]
                      \/ SameReservation(batches'[b], batches[b], batches[b].fundsReleased)
<1>1. /\ TypeOK /\ created \in Nat /\ batches \in [1..created -> Batch]
      /\ passTodo \in [Passes -> SUBSET (1..created)]
  BY DEF EngineInv, TypeOK
<1>2. ASSUME UNCHANGED <<created, pendingAmounts, moved, credited>>, Same
      PROVE  Goal
  BY <1>2 DEF Rests, SameReservations
<1>3. ASSUME UNCHANGED <<created, batches, pendingAmounts, moved, credited>>
      PROVE  Goal
  BY <1>2, <1>3
<1>4. ASSUME NEW s \in Schedule, NEW todo, Visit(s, todo),
             UNCHANGED <<moved, credited, now>>
      PROVE  Goal
  <2>1. CASE Materialises(s) /\ CreateBatch(s)
    BY <1>4, <2>1 DEF Reserves
  <2>2. CASE UNCHANGED <<created, batches, calls, pendingAmounts, lastMaterialisedAt,
                         materialisedCycles>>
    BY <1>3, <1>4, <2>2
  <2> QED
    BY <1>4, <2>1, <2>2 DEF Visit
<1>5. ASSUME NEW p \in Passes, NEW due \in SUBSET (1..created), RunRetries(p, due),
             UNCHANGED <<created, pendingAmounts, moved, credited>>
      PROVE  Goal
  <2>1. Same
    BY <1>1, <1>5, PassKeepsMoney
  <2> QED
    BY <1>2, <1>5, <2>1
<1>6. ASSUME NEW x \in 1..created, NEW u, batches' = [batches EXCEPT ![x] = u],
             SameReservation(u, batches[x], batches[x].fundsReleased),
             UNCHANGED <<created, pendingAmounts, moved, credited>>
      PROVE  Goal
  <2>1. Same
    BY <1>1, <1>6
  <2> QED
    BY <1>2, <1>6, <2>1
<1>7. ASSUME NEW x \in 1..created, NEW u \in Batch, batches' = [batches EXCEPT ![x] = u],
             SameReservation(u, batches[x], TRUE), ~batches[x].fundsReleased, x \notin moved,
             pendingAmounts' = BalanceAfterRelease(batches[x]),
             UNCHANGED <<created, moved, credited>>
      PROVE  Goal
  BY <1>7 DEF Returns, ReturnsOf
<1>8. ASSUME NEW m \in Merchants, NEW amount \in Amounts, SetPendingAmount(m, amount)
      PROVE  Goal
  BY <1>8 DEF Deposits
<1>9. ASSUME NEW s \in Schedule, ConfigureSchedule(s)
      PROVE  Goal
  BY <1>3, <1>9 DEF ConfigureSchedule
<1>10. ASSUME NEW m \in Merchants, RemoveSchedule(m)
       PROVE  Goal
  BY <1>3, <1>10 DEF RemoveSchedule
<1>11. CASE StartEvaluation
  BY <1>1, <1>4, <1>11 DEF StartEvaluation, TypeOK
<1>12. CASE ContinueEvaluation
  BY <1>1, <1>4, <1>12 DEF ContinueEvaluation, TypeOK
<1>13. CASE FinishEvaluation
  BY <1>3, <1>13 DEF FinishEvaluation
<1>14. ASSUME NEW p \in Passes, StartRetryPass(p)
       PROVE  Goal
  BY <1>5, <1>14 DEF StartRetryPass, DueBatches
<1>15. ASSUME NEW p \in Passes, ContinueRetryPass(p)
       PROVE  Goal
  BY <1>1, <1>5, <1>15 DEF ContinueRetryPass
<1>16. ASSUME NEW c \in calls, RailConfirms(c)
       PROVE  Goal
  <2>1. PICK x \in 1..created : x = c.batch
    BY <1>1 DEF TypeOK
  <2>2. SameReservation(Settled(batches[x]), batches[x], batches[x].fundsReleased)
    BY <1>1, UpdatesKeepMoney
  <2>3. SameReservations
    BY <1>1, <1>16, <2>1, <2>2 DEF RailConfirms, SameReservations
  <2> QED
    BY <1>16, <2>3 DEF Pays
<1>17. ASSUME NEW c \in calls, RailRefuses(c)
       PROVE  Goal
  <2>1. c.batch \in 1..created
    BY <1>1 DEF TypeOK
  <2>2. SameReservation(Refused(batches[c.batch]), batches[c.batch],
                        batches[c.batch].fundsReleased)
    BY <1>1, <2>1, UpdatesKeepMoney
  <2> QED
    BY <1>6, <1>17, <2>1, <2>2 DEF RailRefuses, SafeEnvironment
<1>18. ASSUME NEW b \in 1..created
       PROVE  /\ ApproveManualPayout(b) => Goal
              /\ RetryFailedBatch(b) => Goal
              /\ BackoffElapses(b) => Goal
              /\ RejectManualPayout(b) => Goal
              /\ ReleaseReservedFunds(b) => Goal
  <2> DEFINE r == batches[b]
  <2>1. r \in Batch
    BY <1>1
  <2>2. /\ SameReservation(Attempted(Approved(r)), r, r.fundsReleased)
        /\ SameReservation(Requeued(r), r, r.fundsReleased)
        /\ SameReservation(Elapsed(r), r, r.fundsReleased)
        /\ SameReservation(Released(r), r, TRUE)
        /\ SameReservation(Rejected(r), r, TRUE)
        /\ Released(r) \in Batch /\ Rejected(r) \in Batch
    BY <2>1, UpdatesKeepMoney, UpdateTypes
  <2>3. /\ r.fundsReleased => r.status = "failed"
        /\ r.status = "completed" <=> b \in moved
    BY DEF SafeInv, SafeBatch
  <2>4. ApproveManualPayout(b) => Goal
    BY <1>6, <2>2 DEF ApproveManualPayout
  <2>5. RetryFailedBatch(b) => Goal
    BY <1>6, <2>2 DEF RetryFailedBatch
  <2>6. BackoffElapses(b) => Goal
    BY <1>6, <2>2 DEF BackoffElapses
  <2>7. RejectManualPayout(b) => Goal
    BY <1>7, <2>2, <2>3 DEF RejectManualPayout, CanReject
  <2>8. ReleaseReservedFunds(b) => Goal
    BY <1>7, <2>2, <2>3 DEF ReleaseReservedFunds, CanRelease
  <2> QED
    BY <2>4, <2>5, <2>6, <2>7, <2>8
<1>19. CASE Tick
  BY <1>3, <1>19 DEF Tick
<1>20. CASE UNCHANGED vars
  BY <1>3, <1>20 DEF vars
<1> QED
  BY <1>8, <1>9, <1>10, <1>11, <1>12, <1>13, <1>14, <1>15, <1>16, <1>17, <1>18, <1>19, <1>20
     DEF Next

(* In a safe environment every step of the engine is a step of PayoutFunds or leaves its
   variables alone. *)
LEMMA FundsStep ==
    ASSUME SafeEnvironment, EngineInv, SafeInv, Bounded, [Next]_vars
    PROVE  [Funds!Next]_(Funds!vars) /\ Bounded'
<1>1. TypeOK
  BY DEF EngineInv
<1>2. CASE Rests
  BY <1>1, <1>2, Stuttering DEF Rests, SameReservations
<1>3. CASE Pays
  BY <1>3, Paying DEF Pays, SameReservations, Bounded
<1>4. CASE Deposits
  <2>1. PICK m \in Merchants, amount \in Amounts : SetPendingAmount(m, amount)
    BY <1>4 DEF Deposits
  <2>2. PayoutView' = PayoutView
    BY <1>1, <2>1, ViewUnchanged DEF SetPendingAmount, SameMoney
  <2>3. Funds!Deposit(m, amount)
    BY <2>1, <2>2 DEF SetPendingAmount, Funds!Deposit
  <2> QED
    BY <2>1, <2>3 DEF SetPendingAmount, Funds!Next, Bounded
<1>5. CASE Reserves
  BY <1>1, <1>5, CreateReserves DEF Reserves
<1>6. CASE Returns
  <2>1. PICK x \in 1..created, u \in Batch : ReturnsOf(x, u)
    BY <1>6 DEF Returns
  <2> QED
    BY <1>1, <2>1, GivingBack DEF ReturnsOf, Bounded
<1> QED
  BY <1>2, <1>3, <1>4, <1>5, <1>6, MoneySteps

(* In a safe environment the engine implements PayoutFunds: with reservations, retries,
   reviews and rejections in any order, a payout takes the whole balance once and then
   either reaches the merchant or returns, for any number of merchants and batches. *)
THEOREM ImplementsFundsHolds == ASSUME SafeEnvironment PROVE Spec => ImplementsFunds
<1>1. Init => Funds!Init /\ Bounded
  <2>1. ASSUME Init
        PROVE  Funds!Init /\ Bounded
    <3>1. pendingAmounts \in [Merchants -> {0}]
      BY <2>1 DEF Init
    <3>2. PayoutView = [p \in 1..MaxBatches |-> Funds!Nothing]
      BY <2>1, EngineAssumption DEF Init, PayoutView, Funds!Nothing
    <3>3. Bounded
      BY <2>1, EngineAssumption DEF Init, Bounded
    <3> QED
      BY <3>1, <3>2, <3>3 DEF Funds!Init
  <2> QED
    BY <2>1
<1>2. EngineInv /\ SafeInv /\ Bounded /\ [Next]_vars => [Funds!Next]_(Funds!vars) /\ Bounded'
  BY FundsStep
<1> QED
  BY <1>1, <1>2, SafeInvariant, PTL DEF Spec, ImplementsFunds, Funds!Spec

-----------------------------------------------------------------------------
(* One batch for a cycle *)

\* What identifies the cycle that a batch pays never changes.
SameCycle(b) ==
    /\ batches'[b].merchant = batches[b].merchant
    /\ batches'[b].kind = batches[b].kind
    /\ batches'[b].createdAt = batches[b].createdAt

(* No update of a batch changes its merchant, its kind or when it was created. *)
LEMMA CyclesKept ==
    ASSUME TypeOK, [Next]_vars
    PROVE  \A b \in 1..created : SameCycle(b)
<1> TAKE b \in 1..created
<1> DEFINE r == batches[b]
           Same(u, t) == u.merchant = t.merchant /\ u.kind = t.kind /\ u.createdAt = t.createdAt
<1>1. r \in Batch /\ Approved(r) \in Batch /\ Requeued(r) \in Batch
  BY UpdateTypes DEF TypeOK
<1> HIDE DEF r
<1>2. ASSUME NEW t \in Batch
      PROVE  /\ Same(Attempted(t), t) /\ Same(Approved(t), t) /\ Same(Rejected(t), t)
             /\ Same(Requeued(t), t) /\ Same(Unscheduled(t), t) /\ Same(Released(t), t)
             /\ Same(Elapsed(t), t) /\ Same(Settled(t), t) /\ Same(Refused(t), t)
  BY DEF Batch, Attempted, Approved, Rejected, Requeued, Unscheduled, Released, Elapsed, Settled,
         Refused
<1>3. Same(Attempted(Approved(r)), r) /\ Same(Attempted(Requeued(r)), r)
  BY <1>1, <1>2
<1>4. Same(batches'[b], r)
  BY <1>1, <1>2, <1>3, BatchStep
     DEF r, Progress, Keeps, Approves, Rejects, Requeues, Resettles, Unschedules, Releases,
         Wakes, Answers
<1> QED
  BY <1>4 DEF r, SameCycle

(* A batch comes into being when a schedule is due whose cycle has none. *)
LEMMA Births ==
    ASSUME TypeOK, [Next]_vars
    PROVE  \/ created' = created /\ materialisedCycles' = materialisedCycles
           \/ \E s \in Schedule : Materialises(s) /\ CreateBatch(s)
<1> DEFINE Goal == \/ created' = created /\ materialisedCycles' = materialisedCycles
                   \/ \E s \in Schedule : Materialises(s) /\ CreateBatch(s)
<1>1. ASSUME NEW s \in Schedule, NEW todo, Visit(s, todo)
      PROVE  Goal
  BY <1>1 DEF Visit
<1>2. CASE StartEvaluation \/ ContinueEvaluation
  BY <1>1, <1>2 DEF StartEvaluation, ContinueEvaluation, TypeOK
<1>3. CASE ~StartEvaluation /\ ~ContinueEvaluation
  BY <1>3 DEF Next, vars, SetPendingAmount, ConfigureSchedule, RemoveSchedule, FinishEvaluation,
              StartRetryPass, ContinueRetryPass, RailConfirms, RailRefuses,
              ApproveManualPayout, RejectManualPayout, RetryFailedBatch, ReleaseReservedFunds,
              BackoffElapses, Tick
<1> QED
  BY <1>2, <1>3

(* A new batch carries its schedule's merchant and kind and the present time. *)
LEMMA NewBatchFields ==
    ASSUME TypeOK, NEW s \in Schedule, CreateBatch(s)
    PROVE  /\ created' = created + 1
           /\ \A b \in 1..created : batches'[b] = batches[b]
           /\ batches'[created + 1].merchant = s.merchant
           /\ batches'[created + 1].kind = s.kind
           /\ batches'[created + 1].createdAt = now
           /\ batches'[created + 1].asset = s.asset
           /\ batches'[created + 1].amount = Quantize(pendingAmounts[s.merchant], Grain[s.asset])
           /\ ~batches'[created + 1].fundsReleased
<1> DEFINE r == NewBatch(s, pendingAmounts[s.merchant])
<1>1. /\ created' = created + 1 /\ created \in Nat
      /\ \A b \in 1..created : batches'[b] = batches[b]
      /\ batches'[created + 1] = r \/ batches'[created + 1] = Attempted(r)
  BY DEF CreateBatch, TypeOK
<1>2. /\ r.merchant = s.merchant /\ r.kind = s.kind /\ r.createdAt = now /\ r.asset = s.asset
      /\ r.amount = Quantize(pendingAmounts[s.merchant], Grain[s.asset]) /\ ~r.fundsReleased
  BY DEF NewBatch
<1>3. /\ Attempted(r).merchant = s.merchant /\ Attempted(r).kind = s.kind
      /\ Attempted(r).createdAt = now /\ Attempted(r).asset = s.asset
      /\ Attempted(r).amount = Quantize(pendingAmounts[s.merchant], Grain[s.asset])
      /\ ~Attempted(r).fundsReleased
  BY DEF NewBatch, Attempted
<1> HIDE DEF r
<1> QED
  BY <1>1, <1>2, <1>3

\* materialisedCycles remembers every calendar batch, by the key of its own cycle.
KeyOf(b) == [merchant |-> batches[b].merchant, kind |-> batches[b].kind,
             cycle |-> Cycle(batches[b].kind, batches[b].createdAt)]
Remembered == \A b \in 1..created : batches[b].kind \in Cadences => KeyOf(b) \in materialisedCycles

(* No step forgets the cycle of a batch: a schedule may go, its keys stay. *)
LEMMA RememberedStep == ASSUME TypeOK, Remembered, [Next]_vars PROVE Remembered'
<1>1. created \in Nat /\ \A b \in 1..created : SameCycle(b)
  BY CyclesKept DEF TypeOK
<1>2. \A b \in 1..created : KeyOf(b)' = KeyOf(b)
  BY <1>1 DEF KeyOf, SameCycle, Cycle
<1>3. CASE created' = created /\ materialisedCycles' = materialisedCycles
  BY <1>1, <1>2, <1>3 DEF Remembered, SameCycle
<1>4. ASSUME NEW s \in Schedule, Materialises(s), CreateBatch(s)
      PROVE  Remembered'
  <2>0. PICK id \in Nat : id = created + 1
    BY <1>1
  <2>1. /\ created' = id
        /\ batches'[id].merchant = s.merchant /\ batches'[id].kind = s.kind
        /\ batches'[id].createdAt = now
    BY <1>4, <2>0, NewBatchFields
  <2>2. /\ materialisedCycles \subseteq materialisedCycles'
        /\ s.kind \in Cadences => CycleKey(s) \in materialisedCycles'
    BY <1>4, EngineAssumption DEF CreateBatch, IsCalendar
  <2>3. KeyOf(id)' = CycleKey(s)
    BY <2>1 DEF KeyOf, CycleKey, Cycle
  <2>4. \A b \in 1..created : batches'[b].kind \in Cadences => KeyOf(b)' \in materialisedCycles'
    BY <1>1, <1>2, <2>2 DEF Remembered, SameCycle
  <2>5. ASSUME NEW b \in 1..id, batches'[b].kind \in Cadences
        PROVE  KeyOf(b)' \in materialisedCycles'
    <3>1. CASE b = id
      BY <2>1, <2>2, <2>3, <2>5, <3>1
    <3>2. CASE b \in 1..created
      BY <2>4, <2>5, <3>2
    <3> QED
      BY <1>1, <2>0, <3>1, <3>2
  <2> QED
    BY <2>1, <2>5 DEF Remembered
<1> QED
  BY <1>3, <1>4, Births

(* A calendar cycle of a merchant gets one batch, whatever happens to its schedule in between,
   for any number of merchants, schedules, cadences and batches, and in every environment. *)
THEOREM OneBatchPerCycleHolds == Spec => []OneBatchPerCycle
<1>1. Init => Remembered /\ OneBatchPerCycle
  BY DEF Init, Remembered, OneBatchPerCycle
<1>2. ASSUME TypeOK, Remembered, OneBatchPerCycle, [Next]_vars
      PROVE  Remembered' /\ OneBatchPerCycle'
  <2>1. created \in Nat /\ \A b \in 1..created : SameCycle(b)
    BY <1>2, CyclesKept DEF TypeOK
  <2>2. ASSUME created' = created
        PROVE  OneBatchPerCycle'
    <3>1. OneBatchPerCycle
      BY <1>2
    <3> QED
      BY <2>1, <2>2, <3>1 DEF OneBatchPerCycle, SameCycle, Cycle
  <2>3. ASSUME NEW s \in Schedule, Materialises(s), CreateBatch(s)
        PROVE  OneBatchPerCycle'
    <3> DEFINE id == created + 1
    <3>1. /\ created' = id
          /\ batches'[id].merchant = s.merchant /\ batches'[id].kind = s.kind
          /\ batches'[id].createdAt = now
      BY <1>2, <2>3, NewBatchFields
    <3>2. ASSUME s.kind \in Cadences
          PROVE  \A b \in 1..created :
                    batches[b].merchant = s.merchant /\ batches[b].kind = s.kind
                      => Cycle(s.kind, batches[b].createdAt) # Cycle(s.kind, now)
      <4>1. CycleKey(s) \notin materialisedCycles
        BY <2>3, <3>2, EngineAssumption DEF Materialises, IsCalendar, CycleMaterialised
      <4> QED
        BY <1>2, <3>2, <4>1 DEF Remembered, KeyOf, CycleKey
    <3>3. ASSUME NEW b \in 1..id, NEW c \in 1..id, b # c,
                 batches'[b].merchant = batches'[c].merchant,
                 batches'[b].kind = batches'[c].kind, batches'[b].kind \in Cadences
          PROVE  Cycle(batches'[b].kind, batches'[b].createdAt)
                   # Cycle(batches'[c].kind, batches'[c].createdAt)
      <4>1. CASE b \in 1..created /\ c \in 1..created
        BY <1>2, <2>1, <3>3, <4>1 DEF OneBatchPerCycle, SameCycle
      <4>2. CASE b = id /\ c \in 1..created
        BY <2>1, <3>1, <3>2, <3>3, <4>2 DEF SameCycle
      <4>3. CASE c = id /\ b \in 1..created
        BY <2>1, <3>1, <3>2, <3>3, <4>3 DEF SameCycle
      <4> QED
        BY <2>1, <3>3, <4>1, <4>2, <4>3
    <3> QED
      BY <3>1, <3>3 DEF OneBatchPerCycle, Cycle
  <2> QED
    BY <1>2, <2>2, <2>3, Births, RememberedStep
<1> QED
  BY <1>1, <1>2, TypeCorrect, PTL DEF Spec

-----------------------------------------------------------------------------
(* Money is conserved *)

Own(m) == {b \in 1..created : batches[b].merchant = m}

\* The payouts that are out of the balance: reserved, on their way or with the merchant.
Out(m) == {b \in Own(m) : ~batches[b].fundsReleased}

Paid(m)  == SumFunctionOnSet(AmountOf, Out(m))
Slack(m) == SumFunctionOnSet(RoundingOf, Own(m))

Within(drift, limit) == 2 * drift <= limit /\ -2 * drift <= limit
Balanced(m) == Within(pendingAmounts[m] + Paid(m) - credited[m], Slack(m))

(* In a safe environment what is reserved or received is what was not returned. *)
LEMMA OutIsReservedOrReceived ==
    ASSUME EngineInv, SafeInv, NEW m \in Merchants
    PROVE  /\ Reserved(m) \cap Received(m) = {}
           /\ Reserved(m) \cup Received(m) = Out(m)
  BY DEF EngineInv, TypeOK, SafeInv, SafeBatch, Reserved, Received, Out, Own

(* The sums of a merchant are over finite sets of integers. *)
LEMMA LedgerTypes ==
    ASSUME TypeOK, NEW m \in Merchants
    PROVE  /\ IsFiniteSet(Own(m)) /\ IsFiniteSet(Out(m)) /\ Out(m) \subseteq Own(m)
           /\ \A b \in Own(m) : AmountOf[b] \in Int /\ RoundingOf[b] \in Int
           /\ Paid(m) \in Int /\ Slack(m) \in Int
           /\ pendingAmounts[m] \in Nat /\ credited[m] \in Int
<1>1. IsFiniteSet(1..created)
  BY FS_Interval DEF TypeOK
<1>2. IsFiniteSet(Own(m)) /\ IsFiniteSet(Out(m)) /\ Out(m) \subseteq Own(m)
  BY <1>1, FS_Subset DEF Own, Out
<1>3. \A b \in 1..created : AmountOf[b] \in Int /\ RoundingOf[b] \in Int
  <2> TAKE b \in 1..created
  <2>1. batches[b].amount \in Nat /\ Grain[batches[b].asset] \in Nat
    BY EngineAssumption DEF TypeOK, Batch
  <2> QED
    BY <2>1 DEF AmountOf, RoundingOf
<1>4. \A b \in Own(m) : AmountOf[b] \in Int /\ RoundingOf[b] \in Int
  BY <1>3 DEF Own
<1>5. Paid(m) \in Int /\ Slack(m) \in Int
  BY <1>2, <1>4, SumOfOne DEF Paid, Slack
<1> QED
  BY <1>2, <1>4, <1>5 DEF TypeOK

(* A rounding moves the drift by half a minor unit, and the limit by one: what is rounded is
   the balance when it is reserved, or balance and reservation when that returns. *)
LEMMA RoundedDrift ==
    ASSUME NEW pending \in Nat, NEW paid \in Int, NEW credit \in Int, NEW limit \in Int,
           NEW amount \in Nat, NEW grain \in Nat \ {0},
           Within(pending + paid - credit, limit)
    PROVE  /\ Within(0 + (paid + Quantize(pending, grain)) - credit, limit + grain)
           /\ Within(Quantize(pending + amount, grain) + (paid - amount) - credit, limit + grain)
<1>1. \A n \in Nat : /\ Quantize(n, grain) \in Nat
                      /\ 2 * (Quantize(n, grain) - n) <= grain
                      /\ 2 * (n - Quantize(n, grain)) <= grain
  BY QuantizeType, QuantizeWithinHalfGrain
<1> DEFINE q == Quantize(pending, grain)
           p == Quantize(pending + amount, grain)
<1>2. q \in Nat /\ 2 * (q - pending) <= grain /\ 2 * (pending - q) <= grain
  BY <1>1
<1>3. p \in Nat /\ 2 * (p - (pending + amount)) <= grain /\ 2 * ((pending + amount) - p) <= grain
  BY <1>1
<1> HIDE DEF p, q
<1>4. Within(0 + (paid + q) - credit, limit + grain)
  BY <1>2 DEF Within
<1>5. Within(p + (paid - amount) - credit, limit + grain)
  BY <1>3 DEF Within
<1> QED
  BY <1>4, <1>5 DEF p, q

(* A merchant whose batches and balance stay as they are stays balanced. *)
LEMMA BalancedKept ==
    ASSUME TypeOK, NEW m \in Merchants, Balanced(m),
           Own(m)' = Own(m),
           \A b \in Own(m) : SameReservation(batches'[b], batches[b], batches[b].fundsReleased),
           created' \in Nat, created' >= created,
           pendingAmounts'[m] - credited'[m] = pendingAmounts[m] - credited[m],
           pendingAmounts'[m] \in Int, credited'[m] \in Int
    PROVE  Balanced(m)'
<1>1. created \in Nat /\ Own(m) \subseteq 1..created /\ Own(m) \subseteq 1..created'
  BY DEF TypeOK, Own
<1>2. Out(m)' = Out(m)
  BY DEF Out, SameReservation
<1>3. \A b \in Own(m) : AmountOf'[b] = AmountOf[b] /\ RoundingOf'[b] = RoundingOf[b]
  BY <1>1 DEF AmountOf, RoundingOf, SameReservation
<1>4. Paid(m)' = Paid(m) /\ Slack(m)' = Slack(m)
  BY LedgerTypes, <1>2, <1>3, SumOfSame DEF Paid, Slack
<1> QED
  BY LedgerTypes, <1>4 DEF Balanced

(* Reserving a balance rounds it once, and adds one rounding to the limit. *)
LEMMA ReservingKeepsBalance ==
    ASSUME TypeOK, NEW s \in Schedule, CreateBatch(s), credited' = credited,
           NEW m \in Merchants, Balanced(m)
    PROVE  Balanced(m)'
<1>0. /\ IsFiniteSet(Own(m)) /\ IsFiniteSet(Out(m)) /\ Out(m) \subseteq Own(m)
      /\ \A b \in Own(m) : AmountOf[b] \in Int /\ RoundingOf[b] \in Int
      /\ Paid(m) \in Int /\ Slack(m) \in Int
      /\ pendingAmounts[m] \in Nat /\ credited[m] \in Int
  BY LedgerTypes
<1> DEFINE id == created + 1
           g  == Grain[s.asset]
<1>1. /\ created \in Nat /\ batches \in [1..created -> Batch]
      /\ s.merchant \in Merchants /\ g \in Nat \ {0}
      /\ pendingAmounts \in [Merchants -> Nat]
      /\ pendingAmounts' = [pendingAmounts EXCEPT ![s.merchant] = 0]
  BY EngineAssumption DEF TypeOK, Schedule, CreateBatch
<1>2. /\ created' = id /\ \A b \in 1..created : batches'[b] = batches[b]
      /\ batches'[id].merchant = s.merchant /\ batches'[id].asset = s.asset
      /\ batches'[id].amount = Quantize(pendingAmounts[s.merchant], g)
      /\ ~batches'[id].fundsReleased
  BY NewBatchFields
<1> HIDE DEF g
<1>3. CASE m # s.merchant
  <2>1. Own(m)' = Own(m)
    BY <1>1, <1>2, <1>3 DEF Own
  <2>2. \A b \in Own(m) :
           SameReservation(batches'[b], batches[b], batches[b].fundsReleased)
    BY <1>2 DEF Own, SameReservation
  <2>3. created' >= created /\ pendingAmounts'[m] = pendingAmounts[m]
    BY <1>1, <1>2, <1>3
  <2> QED
    BY <1>0, <1>1, <1>2, <2>1, <2>2, <2>3, BalancedKept
<1>4. CASE m = s.merchant
  <2>1. /\ Own(m)' = Own(m) \cup {id} /\ Out(m)' = Out(m) \cup {id}
        /\ id \notin Own(m) /\ id \notin Out(m)
    BY <1>1, <1>2, <1>4 DEF Own, Out
  <2>2. /\ \A b \in Own(m) : AmountOf'[b] = AmountOf[b] /\ RoundingOf'[b] = RoundingOf[b]
        /\ AmountOf'[id] = Quantize(pendingAmounts[m], g) /\ RoundingOf'[id] = g
    BY <1>1, <1>2, <1>4 DEF Own, AmountOf, RoundingOf, g
  <2>3. Paid(m)' = Paid(m) + Quantize(pendingAmounts[m], g)
    <3>1. /\ IsFiniteSet(Out(m)) /\ id \notin Out(m)
          /\ AgreeBut(AmountOf, AmountOf', Out(m), id)
      BY <1>0, <2>1, <2>2 DEF AgreeBut
    <3>2. AmountOf'[id] \in Int
      <4>1. Quantize(pendingAmounts[m], g) \in Nat
        BY <1>0, <1>1, QuantizeType
      <4> QED
        BY <2>2, <4>1
    <3>3. SumFunctionOnSet(AmountOf', Out(m) \cup {id})
             = SumFunctionOnSet(AmountOf, Out(m)) + AmountOf'[id]
      BY <3>1, <3>2, SumAdded
    <3> QED
      BY <2>1, <2>2, <3>3 DEF Paid
  <2>4. Slack(m)' = Slack(m) + g
    <3>1. /\ IsFiniteSet(Own(m)) /\ id \notin Own(m) /\ RoundingOf'[id] \in Int
          /\ AgreeBut(RoundingOf, RoundingOf', Own(m), id)
      BY <1>0, <1>1, <2>1, <2>2 DEF AgreeBut
    <3>2. SumFunctionOnSet(RoundingOf', Own(m) \cup {id})
             = SumFunctionOnSet(RoundingOf, Own(m)) + RoundingOf'[id]
      BY <3>1, SumAdded
    <3> QED
      BY <2>1, <2>2, <3>2 DEF Slack
  <2>5. pendingAmounts'[m] = 0 /\ credited'[m] = credited[m]
    BY <1>1, <1>4
  <2>6. Within(0 + (Paid(m) + Quantize(pendingAmounts[m], g)) - credited[m], Slack(m) + g)
    BY <1>0, <1>1, RoundedDrift DEF Balanced
  <2> QED
    BY <2>3, <2>4, <2>5, <2>6 DEF Balanced
<1> QED
  BY <1>3, <1>4

(* Returning a reservation rounds the balance once, and adds one rounding to the limit. *)
LEMMA ReturningKeepsBalance ==
    ASSUME TypeOK, NEW x, x \in 1..created, NEW u \in Batch, ReturnsOf(x, u),
           NEW m \in Merchants, Balanced(m)
    PROVE  Balanced(m)'
<1>0. /\ IsFiniteSet(Own(m)) /\ IsFiniteSet(Out(m)) /\ Out(m) \subseteq Own(m)
      /\ \A b \in Own(m) : AmountOf[b] \in Int /\ RoundingOf[b] \in Int
      /\ Paid(m) \in Int /\ Slack(m) \in Int
      /\ pendingAmounts[m] \in Nat /\ credited[m] \in Int
  BY LedgerTypes
<1> DEFINE r == batches[x]
           g == Grain[r.asset]
<1>1. /\ created \in Nat /\ created' = created /\ batches \in [1..created -> Batch]
      /\ r.merchant \in Merchants /\ r.asset \in Assets /\ r.amount \in Nat
      /\ g \in Nat \ {0}
      /\ pendingAmounts \in [Merchants -> Nat] /\ credited' = credited
      /\ pendingAmounts' = [pendingAmounts EXCEPT ![r.merchant] = Quantize(@ + r.amount, g)]
  BY EngineAssumption DEF TypeOK, Batch, ReturnsOf, BalanceAfterRelease
<1>2. /\ ~r.fundsReleased /\ SameReservation(batches'[x], r, TRUE)
      /\ \A b \in 1..created : b # x => batches'[b] = batches[b]
  BY <1>1 DEF ReturnsOf
<1> HIDE DEF g
<1>3. Own(m)' = Own(m)
  BY <1>1, <1>2 DEF Own, SameReservation
<1>4. CASE m # r.merchant
  <2>1. \A b \in Own(m) :
           SameReservation(batches'[b], batches[b], batches[b].fundsReleased)
    BY <1>2, <1>4 DEF Own, SameReservation
  <2>2. pendingAmounts'[m] = pendingAmounts[m]
    BY <1>1, <1>4
  <2> QED
    BY <1>0, <1>1, <1>3, <2>1, <2>2, BalancedKept
<1>5. CASE m = r.merchant
  <2>1. /\ Out(m)' = Out(m) \ {x} /\ x \in Out(m) /\ x \in Own(m)
    BY <1>1, <1>2, <1>5 DEF Own, Out, SameReservation
  <2>2. /\ \A b \in Own(m) : /\ AmountOf'[b] = AmountOf[b]
                             /\ b # x => RoundingOf'[b] = RoundingOf[b]
        /\ AmountOf[x] = r.amount /\ RoundingOf'[x] = 2 * g /\ RoundingOf[x] = g
    BY <1>1, <1>2 DEF Own, AmountOf, RoundingOf, SameReservation, g
  <2>3. Paid(m)' = Paid(m) - r.amount
    <3>1. /\ IsFiniteSet(Out(m)) /\ x \in Out(m) /\ AmountOf'[x] \in Int
          /\ AgreeBut(AmountOf, AmountOf', Out(m), x)
      BY <1>0, <2>1, <2>2 DEF AgreeBut
    <3>2. SumFunctionOnSet(AmountOf', Out(m) \ {x})
             = SumFunctionOnSet(AmountOf, Out(m)) - AmountOf[x]
      BY <3>1, SumRemoved
    <3> QED
      BY <2>1, <2>2, <3>2 DEF Paid
  <2>4. Slack(m)' = Slack(m) + g
    <3>1. /\ IsFiniteSet(Own(m)) /\ x \in Own(m) /\ RoundingOf'[x] \in Int
          /\ AgreeBut(RoundingOf, RoundingOf', Own(m), x)
      BY <1>0, <1>1, <2>1, <2>2 DEF AgreeBut
    <3>2. SumFunctionOnSet(RoundingOf', Own(m))
             = SumFunctionOnSet(RoundingOf, Own(m)) + RoundingOf'[x] - RoundingOf[x]
      BY <3>1, SumReplaced
    <3> QED
      BY <1>0, <1>1, <1>3, <2>2, <3>2 DEF Slack
  <2>5. pendingAmounts'[m] = Quantize(pendingAmounts[m] + r.amount, g) /\ credited'[m] = credited[m]
    BY <1>1, <1>5
  <2>6. Within(Quantize(pendingAmounts[m] + r.amount, g) + (Paid(m) - r.amount) - credited[m],
               Slack(m) + g)
    BY <1>0, <1>1, RoundedDrift DEF Balanced
  <2> QED
    BY <2>3, <2>4, <2>5, <2>6 DEF Balanced
<1> QED
  BY <1>4, <1>5

(* In a safe environment money is conserved, for any number of merchants, assets and batches:
   whatever order of reservations, attempts, reviews and releases a merchant's money goes
   through, nothing but the roundings separates it from what was put into the balance. *)
THEOREM MoneyConservedHolds == ASSUME SafeEnvironment PROVE Spec => []MoneyConserved
<1> DEFINE LedgerInv == \A m \in Merchants : Balanced(m)
<1>1. Init => LedgerInv
  <2>1. ASSUME Init, NEW m \in Merchants
        PROVE  Balanced(m)
    <3>1. Own(m) = {} /\ Out(m) = {}
      BY <2>1 DEF Init, Own, Out
    <3>2. Paid(m) = 0 /\ Slack(m) = 0
      BY <3>1, SumEquation, FS_EmptySet DEF Paid, Slack
    <3> QED
      BY <2>1, <3>2 DEF Init, Balanced, Within
  <2> QED
    BY <2>1
<1>2. ASSUME EngineInv, SafeInv, LedgerInv, [Next]_vars
      PROVE  LedgerInv'
  <2> SUFFICES ASSUME NEW m \in Merchants
               PROVE  Balanced(m)'
    OBVIOUS
  <2>1. TypeOK /\ TypeOK' /\ created \in Nat /\ Balanced(m)
    BY <1>2, TypeStep DEF EngineInv, TypeOK
  <2>2. ASSUME SameReservations PROVE Balanced(m)'
    <3>1. Own(m)' = Own(m)
      BY <2>2 DEF SameReservations, SameReservation, Own
    <3>2. \A b \in Own(m) :
             SameReservation(batches'[b], batches[b], batches[b].fundsReleased)
      BY <2>2 DEF SameReservations, SameReservation, Own
    <3> QED
      BY <2>1, <2>2, <3>1, <3>2, BalancedKept DEF SameReservations, TypeOK
  <2>3. CASE Deposits
    <3>1. PICK n \in Merchants, amount \in Amounts : SetPendingAmount(n, amount)
      BY <2>3 DEF Deposits
    <3>2. /\ UNCHANGED <<created, batches>>
          /\ amount \in Nat /\ pendingAmounts[n] \in Nat
          /\ pendingAmounts' = [pendingAmounts EXCEPT ![n] = amount]
          /\ credited' = [credited EXCEPT ![n] = @ + amount - pendingAmounts[n]]
      BY <2>1, <3>1, EngineAssumption DEF SetPendingAmount, TypeOK
    <3>3. /\ pendingAmounts'[m] \in Int /\ credited'[m] \in Int
          /\ pendingAmounts'[m] - credited'[m] = pendingAmounts[m] - credited[m]
      BY <2>1, <3>2 DEF TypeOK
    <3>4. Own(m)' = Own(m)
      BY <3>2 DEF Own
    <3>5. \A b \in Own(m) :
             SameReservation(batches'[b], batches[b], batches[b].fundsReleased)
      BY <3>2 DEF SameReservation
    <3> QED
      BY <2>1, <3>2, <3>3, <3>4, <3>5, BalancedKept
  <2>4. CASE Reserves
    BY <2>1, <2>4, ReservingKeepsBalance DEF Reserves
  <2>5. CASE Returns
    BY <2>1, <2>5, ReturningKeepsBalance DEF Returns
  <2> QED
    BY <1>2, <2>2, <2>3, <2>4, <2>5, MoneySteps DEF Rests, Pays
<1>3. EngineInv /\ SafeInv /\ LedgerInv => MoneyConserved
  BY OutIsReservedOrReceived DEF MoneyConserved, Balanced, Within, Paid, Slack, Own
<1> HIDE DEF LedgerInv
<1> QED
  BY <1>1, <1>2, <1>3, SafeInvariant, PTL DEF Spec
=============================================================================
