-------------------------- MODULE WebhookDelivery --------------------------
(***************************************************************************)
(* Outgoing webhooks (backend/src/services/webhooks.ts): deliveries that   *)
(* passes of a worker post one after the other, with retries, dead letters *)
(* and retries by hand.                                                    *)
(*                                                                         *)
(* A step of a pass ends where the code awaits the endpoint.  Secrets,     *)
(* signatures, texts and times are left out, and so is the deduplication:  *)
(* each delivery has an idempotency key of its own, as enqueueWebhookEvent *)
(* refuses a key that has one.                                             *)
(***************************************************************************)
EXTENDS Integers, FiniteSetsExt

CONSTANTS
    MaxDeliveries,  \* bound: events that are accepted
    Merchants,
    Passes,         \* bound: passes under way
    MaxAttempts,    \* MAX_ATTEMPTS
    MaxTroubles     \* bound: retries by hand, restarts of the worker and acceptances not learnt

ASSUME WebhookAssumption ==
    /\ MaxDeliveries \in Nat /\ MaxTroubles \in Nat
    /\ MaxAttempts \in Nat \ {0}

Deliveries == 1..MaxDeliveries

VARIABLES
    configs,        \* webhookConfigs: one a merchant
    deliveries,     \* the deliveries; "none" where there is none yet
    deadLetters,    \* entries of each delivery in deadLetterQueue
    processing,     \* worker.processing
    passes,         \* the passes of processDueDeliveries under way
    restarts,       \* history: times the worker was stopped and started
    posts           \* history: what became of the posts of each delivery

vars == <<configs, deliveries, deadLetters, processing, passes, restarts, posts>>

Delivery == [status: {"none", "pending", "processing", "retrying",
                      "delivered", "failed", "dead_letter"},
             merchant: Merchants \cup {"none"}, attempt: Nat, due: BOOLEAN,
             event: BOOLEAN]        \* responseBody still holds the event
Pass == [on: BOOLEAN, todo: SUBSET Deliveries, posting: Deliveries \cup {0}, event: BOOLEAN]
Posts == [accepted: Nat, lost: Nat, event: BOOLEAN, refused: BOOLEAN, retried: Nat]
Idle == [on |-> FALSE, todo |-> {}, posting |-> 0, event |-> FALSE]

Init ==
    /\ configs = [m \in Merchants |-> "none"]
    /\ deliveries = [d \in Deliveries |-> [status |-> "none", merchant |-> "none",
                                           attempt |-> 0, due |-> TRUE, event |-> TRUE]]
    /\ deadLetters = [d \in Deliveries |-> 0]
    /\ processing = FALSE
    /\ passes = [p \in Passes |-> Idle]
    /\ restarts = 0
    /\ posts = [d \in Deliveries |-> [accepted |-> 0, lost |-> 0, event |-> FALSE,
                                      refused |-> FALSE, retried |-> 0]]

\* The bound on what goes wrong, taken together.
Untroubled ==
    restarts + MapThenSumSet(LAMBDA d : posts[d].lost + posts[d].retried, Deliveries) < MaxTroubles

-----------------------------------------------------------------------------
(* Callers *)

upsertWebhookConfig(m, enabled) ==
    /\ configs' = [configs EXCEPT ![m] = IF enabled THEN "enabled" ELSE "disabled"]
    /\ UNCHANGED <<deliveries, deadLetters, processing, passes, restarts, posts>>

enqueueWebhookEvent(d, m) ==
    /\ \A c \in Deliveries : c <= d => (deliveries[c].status = "none" <=> c = d)
    /\ configs[m] = "enabled"
    /\ deliveries' = [deliveries EXCEPT ![d].status = "pending", ![d].merchant = m]
    /\ UNCHANGED <<configs, deadLetters, processing, passes, restarts, posts>>

\* Mutant: a delivered event may be sent again by hand.
MutRetriable(d) == deliveries[d].status # "none"
Retriable(d) == deliveries[d].status \notin {"none", "delivered"}

\* Also while a pass awaits the endpoint for it.
retryWebhookDeliveryManually(d) ==
    /\ Retriable(d)
    /\ Untroubled                                               \* bound
    /\ deliveries' = [deliveries EXCEPT ![d].status = "pending", ![d].attempt = 0, ![d].due = TRUE]
    /\ posts' = [posts EXCEPT ![d].retried = @ + 1]
    /\ UNCHANGED <<configs, deadLetters, processing, passes, restarts>>

\* stopWebhookWorker and startWebhookWorker; a pass under way goes on.
Restart ==
    /\ Untroubled                                               \* bound
    /\ processing' = FALSE
    /\ restarts' = restarts + 1
    /\ UNCHANGED <<configs, deliveries, deadLetters, passes, posts>>

\* nextAttemptAt is reached.
DelayElapses(d) ==
    /\ deliveries[d].status = "retrying" /\ ~deliveries[d].due
    /\ deliveries' = [deliveries EXCEPT ![d].due = TRUE]
    /\ UNCHANGED <<configs, deadLetters, processing, passes, restarts, posts>>

-----------------------------------------------------------------------------
(* A pass *)

IsFirst(d, S) == d \in S /\ \A c \in S : d <= c

\* deliverOne for the first delivery of todo, up to its await, whatever has become of it.
Deliver(p, todo, d) ==
    LET rest == [on |-> TRUE, todo |-> todo \ {d}, posting |-> 0, event |-> FALSE]
    IN  /\ IsFirst(d, todo)
        /\ \/ /\ configs[deliveries[d].merchant] # "enabled"
              /\ deliveries' = [deliveries EXCEPT ![d].status = "failed"]
              /\ passes' = [passes EXCEPT ![p] = rest]
           \/ /\ configs[deliveries[d].merchant] = "enabled"
              /\ deliveries' = [deliveries EXCEPT ![d].status = "processing", ![d].attempt = @ + 1]
              /\ passes' = [passes EXCEPT ![p] =
                     [rest EXCEPT !.posting = d, !.event = deliveries[d].event]]
        /\ UNCHANGED <<configs, deadLetters, restarts, posts>>

Due == {d \in Deliveries : deliveries[d].status \in {"pending", "retrying"} /\ deliveries[d].due}

\* Mutant: a tick does not ask whether a pass is under way.
MutMayStart == TRUE
MayStart == ~processing

StartPass(p, d) ==
    /\ ~passes[p].on
    /\ MayStart
    /\ processing' = TRUE
    /\ Deliver(p, Due, d)

ContinuePass(p, d) ==
    /\ passes[p].on /\ passes[p].posting = 0
    /\ Deliver(p, passes[p].todo, d)
    /\ UNCHANGED processing

EndPass(p) ==
    /\ passes[p].on /\ passes[p].posting = 0 /\ passes[p].todo = {}
    /\ passes' = [passes EXCEPT ![p] = Idle]
    /\ processing' = FALSE
    /\ UNCHANGED <<configs, deliveries, deadLetters, restarts, posts>>

Last(d) == deliveries[d].attempt >= MaxAttempts

\* Mutant: the last attempt schedules another one, which is never due.
MutUndelivered(d) == IF Last(d) THEN [deliveries[d] EXCEPT !.status = "processing"]
                     ELSE [deliveries[d] EXCEPT !.status = "retrying", !.due = FALSE]
Undelivered(d) == IF Last(d) THEN [deliveries[d] EXCEPT !.status = "dead_letter"]
                  ELSE [deliveries[d] EXCEPT !.status = "retrying", !.due = FALSE]

Buried(d) == IF Last(d) THEN deadLetters[d] + 1 ELSE deadLetters[d]

\* Mutant: the text of the answer is stored before the status is looked at, also of no answer.
MutAfterError(d, answered) == [Undelivered(d) EXCEPT !.event = FALSE]
AfterError(d, answered) == [Undelivered(d) EXCEPT !.event = @ /\ ~answered]

\* The posts of a delivery after one that the code takes for a failure.
Unlearnt(post, answered, accepted, event) ==
    [post EXCEPT !.refused = @ \/ answered,
                 !.accepted = IF accepted THEN @ + 1 ELSE @,
                 !.lost = IF accepted THEN @ + 1 ELSE @,
                 !.event = @ \/ (accepted /\ event)]

Posted(p) == passes' = [passes EXCEPT ![p].posting = 0, ![p].event = FALSE]

\* The endpoint answers 2xx.
EndpointAccepts(p) ==
    LET d == passes[p].posting
    IN  /\ d # 0
        /\ deliveries' = [deliveries EXCEPT ![d].status = "delivered", ![d].event = FALSE]
        /\ posts' = [posts EXCEPT ![d].accepted = @ + 1, ![d].event = @ \/ passes[p].event]
        /\ Posted(p)
        /\ UNCHANGED <<configs, deadLetters, processing, restarts>>

\* It answers with another status, whose text becomes responseBody, the body of the next attempt;
\* or there is no answer: refused, aborted by the timeout, or lost once the post was accepted.
EndpointFails(p, answered, accepted) ==
    LET d == passes[p].posting
    IN  /\ d # 0
        /\ ~(answered /\ accepted)
        /\ accepted => Untroubled                               \* bound
        /\ deliveries' = [deliveries EXCEPT ![d] = AfterError(d, answered)]
        /\ deadLetters' = [deadLetters EXCEPT ![d] = Buried(d)]
        /\ posts' = [posts EXCEPT ![d] = Unlearnt(@, answered, accepted, passes[p].event)]
        /\ Posted(p)
        /\ UNCHANGED <<configs, processing, restarts>>

Answer(p) == \/ EndpointAccepts(p)
             \/ \E answered, accepted \in BOOLEAN : EndpointFails(p, answered, accepted)
Run(p) == EndPass(p) \/ \E d \in Deliveries : ContinuePass(p, d)
Start == \E p \in Passes, d \in Deliveries : StartPass(p, d)

Next ==
    \/ \E m \in Merchants : \/ \E enabled \in BOOLEAN : upsertWebhookConfig(m, enabled)
                            \/ \E d \in Deliveries : enqueueWebhookEvent(d, m)
    \/ \E d \in Deliveries : retryWebhookDeliveryManually(d) \/ DelayElapses(d)
    \/ Restart
    \/ Start
    \/ \E p \in Passes : Run(p) \/ Answer(p)

Spec == Init /\ [][Next]_vars

\* Time passes, the timer ticks, the event loop goes on, and the abort after ATTEMPT_TIMEOUT_MS
\* ends every post.
FairSpec ==
    /\ Spec
    /\ \A d \in Deliveries : WF_vars(DelayElapses(d))
    /\ WF_vars(Start)
    /\ \A p \in Passes : WF_vars(Run(p)) /\ WF_vars(Answer(p))

-----------------------------------------------------------------------------
(* Properties *)

\* Every variable has its type.
TypeOK ==
    /\ configs \in [Merchants -> {"none", "enabled", "disabled"}]
    /\ deliveries \in [Deliveries -> Delivery]
    /\ deadLetters \in [Deliveries -> Nat]
    /\ processing \in BOOLEAN
    /\ passes \in [Passes -> Pass]
    /\ restarts \in Nat
    /\ posts \in [Deliveries -> Posts]

\* Unless the worker was stopped and started: a pass ends before the next one starts, however slow
\* the endpoint, so no two passes post at once; and the endpoint accepts a delivery once, but for
\* posts whose acceptance was not learnt, not even when a retry by hand meets an attempt in flight.
AcceptedOnce ==
    restarts = 0 =>
        /\ \A p, q \in Passes : passes[p].on /\ passes[q].on => p = q
        /\ \A d \in Deliveries : posts[d].accepted <= posts[d].lost + 1

\* A delivery that reads as delivered had its event accepted, unless an endpoint refused an
\* earlier attempt: the text of that answer has then replaced the event.
DeliveredHasEvent ==
    \A d \in Deliveries :
        deliveries[d].status = "delivered" => posts[d].event \/ posts[d].refused

\* A delivered event stays delivered and is not posted again, unless the worker was stopped and
\* started.
DeliveredIsFinal ==
    [][restarts' = 0 => \A d \in Deliveries :
           deliveries[d].status = "delivered" => /\ deliveries'[d] = deliveries[d]
                                                 /\ posts'[d] = posts[d]]_vars

\* Every delivery that is accepted ends as delivered, failed or a dead letter, however slow the
\* endpoint, and with overlapping passes too.
EveryDeliverySettles ==
    \A d \in Deliveries : deliveries[d].status \in {"pending", "processing", "retrying"} ~>
                              deliveries[d].status \in {"delivered", "failed", "dead_letter"}
=============================================================================
