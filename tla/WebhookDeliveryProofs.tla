------------------------ MODULE WebhookDeliveryProofs ------------------------
(***************************************************************************)
(* Proofs that webhooks are accepted once, keep their event and stay       *)
(* delivered, for any number of deliveries, merchants and passes.          *)
(***************************************************************************)
EXTENDS WebhookDelivery, TLAPS

\* An event that was replaced, in a delivery or in the post of it under way, was accepted or
\* refused before.
EventAccounted ==
    /\ \A d \in Deliveries :
          deliveries[d].status = "delivered" \/ ~deliveries[d].event
             => posts[d].event \/ posts[d].refused
    /\ \A p \in Passes : LET d == passes[p].posting
                         IN  d # 0 /\ ~passes[p].event => posts[d].event \/ posts[d].refused

\* A pass that is over holds nothing, and what a pass posts is not to be posted by it again.
PassesTidy ==
    \A p \in Passes :
        /\ ~passes[p].on => passes[p].todo = {} /\ passes[p].posting = 0
        /\ passes[p].posting \notin passes[p].todo

\* No two passes are under way, and none of a delivery that is delivered.
OnePass ==
    /\ \A p \in Passes : passes[p].on => processing
    /\ \A p, q \in Passes : passes[p].on /\ passes[q].on => p = q
    /\ \A d \in Deliveries, p \in Passes :
          deliveries[d].status = "delivered" => d \notin passes[p].todo /\ passes[p].posting # d
    /\ \A d \in Deliveries :
          posts[d].accepted <= posts[d].lost + IF deliveries[d].status = "delivered" THEN 1 ELSE 0

WebhookInv == TypeOK /\ EventAccounted /\ PassesTidy /\ (restarts = 0 => OnePass)

-----------------------------------------------------------------------------
(* Types *)

LEMMA DeliveriesAreNumbers == Deliveries \subseteq Nat /\ 0 \notin Deliveries
BY WebhookAssumption DEF Deliveries

LEMMA ProcessingDelivery ==
    ASSUME NEW v \in Delivery
    PROVE  [v EXCEPT !.status = "processing", !.attempt = v.attempt + 1] \in Delivery
<1> DEFINE a == v.attempt + 1
<1>1. a \in Nat
  BY DEF Delivery
<1> HIDE DEF a
<1>2. [v EXCEPT !.status = "processing", !.attempt = a] \in Delivery
  BY <1>1 DEF Delivery
<1> QED BY <1>2 DEF a

LEMMA PostingPass ==
    ASSUME NEW v \in Pass, NEW d \in Deliveries, NEW e \in BOOLEAN
    PROVE  [v EXCEPT !.posting = d, !.event = e] \in Pass
BY DEF Pass

LEMMA AcceptedPosts ==
    ASSUME NEW v \in Posts, NEW event \in BOOLEAN
    PROVE  [v EXCEPT !.accepted = v.accepted + 1, !.event = v.event \/ event] \in Posts
<1> DEFINE e == v.event \/ event
           a == v.accepted + 1
<1>1. e \in BOOLEAN
  OBVIOUS
<1>2. a \in Nat
  BY DEF Posts
<1> HIDE DEF e, a
<1>3. [v EXCEPT !.accepted = a, !.event = e] \in Posts
  BY <1>1, <1>2 DEF Posts
<1> QED BY <1>3 DEF e, a

LEMMA UnlearntPosts ==
    ASSUME NEW v \in Posts, NEW answered \in BOOLEAN, NEW accepted \in BOOLEAN,
           NEW event \in BOOLEAN
    PROVE  Unlearnt(v, answered, accepted, event) \in Posts
<1> DEFINE r == v.refused \/ answered
           a == IF accepted THEN v.accepted + 1 ELSE v.accepted
           l == IF accepted THEN v.lost + 1 ELSE v.lost
           e == v.event \/ (accepted /\ event)
<1>1. r \in BOOLEAN /\ e \in BOOLEAN
  OBVIOUS
<1>2. a \in Nat /\ l \in Nat
  <2>1. v.accepted \in Nat /\ v.lost \in Nat
    BY DEF Posts
  <2>2. CASE accepted
    BY <2>1, <2>2
  <2>3. CASE ~accepted
    BY <2>1, <2>3
  <2> QED BY <2>2, <2>3
<1> HIDE DEF r, a, l, e
<1>3. [v EXCEPT !.refused = r, !.accepted = a, !.lost = l, !.event = e] \in Posts
  BY <1>1, <1>2 DEF Posts
<1> QED BY <1>3 DEF r, a, l, e, Unlearnt

LEMMA DeliverTypes ==
    ASSUME TypeOK, NEW p \in Passes, NEW todo \in SUBSET Deliveries, NEW d \in Deliveries,
           Deliver(p, todo, d)
    PROVE  deliveries' \in [Deliveries -> Delivery] /\ passes' \in [Passes -> Pass]
<1> DEFINE rest == [on |-> TRUE, todo |-> todo \ {d}, posting |-> 0, event |-> FALSE]
<1>0. rest \in Pass
  BY DEF Pass
<1>1. CASE /\ deliveries' = [deliveries EXCEPT ![d].status = "failed"]
           /\ passes' = [passes EXCEPT ![p] = rest]
  <2>1. [deliveries[d] EXCEPT !.status = "failed"] \in Delivery
    BY DEF TypeOK, Delivery
  <2> QED BY <1>0, <1>1, <2>1 DEF TypeOK
<1>2. CASE /\ deliveries' = [deliveries EXCEPT ![d].status = "processing", ![d].attempt = @ + 1]
           /\ passes' = [passes EXCEPT ![p] =
                            [rest EXCEPT !.posting = d, !.event = deliveries[d].event]]
  <2>1. deliveries[d] \in Delivery
    BY DEF TypeOK
  <2>2. [deliveries[d] EXCEPT !.status = "processing", !.attempt = deliveries[d].attempt + 1]
            \in Delivery
    BY <2>1, ProcessingDelivery
  <2>3. [rest EXCEPT !.posting = d, !.event = deliveries[d].event] \in Pass
    <3>1. deliveries[d].event \in BOOLEAN
      BY <2>1 DEF Delivery
    <3> HIDE DEF rest
    <3> QED BY <1>0, <3>1, PostingPass
  <2> QED BY <1>2, <2>2, <2>3 DEF TypeOK
<1> QED BY <1>1, <1>2 DEF Deliver

\* The delivery and the posts that an answer leaves.
LEMMA AfterErrorTypes ==
    ASSUME TypeOK, NEW d \in Deliveries, NEW answered \in BOOLEAN
    PROVE  /\ AfterError(d, answered) \in Delivery
           /\ AfterError(d, answered).status # "delivered"
           /\ ~AfterError(d, answered).event => ~deliveries[d].event \/ answered
<1>1. deliveries[d] \in Delivery
  BY DEF TypeOK
<1>2. Undelivered(d) \in Delivery /\ Undelivered(d).status # "delivered"
      /\ Undelivered(d).event = deliveries[d].event
  <2>1. CASE Last(d)
    BY <1>1, <2>1 DEF Undelivered, Delivery
  <2>2. CASE ~Last(d)
    BY <1>1, <2>2 DEF Undelivered, Delivery
  <2> QED BY <2>1, <2>2
<1> DEFINE u == Undelivered(d)
<1>3. AfterError(d, answered) = [u EXCEPT !.event = u.event /\ ~answered]
  BY DEF AfterError
<1>4. (u.event /\ ~answered) \in BOOLEAN
  OBVIOUS
<1> HIDE DEF u
<1>5. u \in Delivery /\ u.status # "delivered" /\ u.event = deliveries[d].event
  BY <1>2 DEF u
<1>6. [u EXCEPT !.event = u.event /\ ~answered] \in Delivery
  BY <1>4, <1>5 DEF Delivery
<1>7. AfterError(d, answered).event = (u.event /\ ~answered)
  BY <1>3, <1>5 DEF Delivery
<1>8. AfterError(d, answered).status = u.status
  BY <1>3, <1>5 DEF Delivery
<1> QED BY <1>3, <1>5, <1>6, <1>7, <1>8

LEMMA WebhookTypesStep == TypeOK /\ [Next]_vars => TypeOK'
<1> SUFFICES ASSUME TypeOK, [Next]_vars
             PROVE  TypeOK'
  OBVIOUS
<1> USE DeliveriesAreNumbers
<1>1. ASSUME NEW m \in Merchants, NEW enabled \in BOOLEAN, upsertWebhookConfig(m, enabled)
      PROVE  TypeOK'
  BY <1>1 DEF upsertWebhookConfig, TypeOK
<1>2. ASSUME NEW m \in Merchants, NEW d \in Deliveries, enqueueWebhookEvent(d, m)
      PROVE  TypeOK'
  <2>1. [deliveries[d] EXCEPT !.status = "pending", !.merchant = m] \in Delivery
    BY DEF TypeOK, Delivery
  <2> QED BY <1>2, <2>1 DEF enqueueWebhookEvent, TypeOK
<1>3. ASSUME NEW d \in Deliveries, retryWebhookDeliveryManually(d)
      PROVE  TypeOK'
  <2>1. [deliveries[d] EXCEPT !.status = "pending", !.attempt = 0, !.due = TRUE] \in Delivery
    BY DEF TypeOK, Delivery
  <2>2. [posts[d] EXCEPT !.retried = posts[d].retried + 1] \in Posts
    BY DEF TypeOK, Posts
  <2> QED BY <1>3, <2>1, <2>2 DEF retryWebhookDeliveryManually, TypeOK
<1>4. ASSUME NEW d \in Deliveries, DelayElapses(d)
      PROVE  TypeOK'
  <2>1. [deliveries[d] EXCEPT !.due = TRUE] \in Delivery
    BY DEF TypeOK, Delivery
  <2> QED BY <1>4, <2>1 DEF DelayElapses, TypeOK
<1>5. CASE Restart
  <2>1. restarts' \in Nat
    BY <1>5 DEF Restart, TypeOK
  <2>2. processing' \in BOOLEAN
    BY <1>5 DEF Restart
  <2> QED BY <1>5, <2>1, <2>2 DEF Restart, TypeOK
<1>6. ASSUME NEW p \in Passes, NEW d \in Deliveries, StartPass(p, d)
      PROVE  TypeOK'
  <2>1. Due \in SUBSET Deliveries
    BY DEF Due
  <2>2. deliveries' \in [Deliveries -> Delivery] /\ passes' \in [Passes -> Pass]
    BY <1>6, <2>1, DeliverTypes DEF StartPass
  <2> QED BY <1>6, <2>2 DEF StartPass, Deliver, TypeOK
<1>7. ASSUME NEW p \in Passes, NEW d \in Deliveries, ContinuePass(p, d)
      PROVE  TypeOK'
  <2>1. passes[p].todo \in SUBSET Deliveries
    BY DEF TypeOK, Pass
  <2>2. deliveries' \in [Deliveries -> Delivery] /\ passes' \in [Passes -> Pass]
    BY <1>7, <2>1, DeliverTypes DEF ContinuePass
  <2> QED BY <1>7, <2>2 DEF ContinuePass, Deliver, TypeOK
<1>8. ASSUME NEW p \in Passes, EndPass(p)
      PROVE  TypeOK'
  <2>1. Idle \in Pass
    BY DEF Idle, Pass
  <2> QED BY <1>8, <2>1 DEF EndPass, TypeOK
<1>9. ASSUME NEW p \in Passes, EndpointAccepts(p)
      PROVE  TypeOK'
  <2> DEFINE d == passes[p].posting
  <2>1. d \in Deliveries /\ passes[p] \in Pass /\ deliveries[d] \in Delivery /\ posts[d] \in Posts
    BY <1>9 DEF EndpointAccepts, TypeOK, Pass
  <2>2. [deliveries[d] EXCEPT !.status = "delivered", !.event = FALSE] \in Delivery
    BY <2>1 DEF Delivery
  <2>3. [posts[d] EXCEPT !.accepted = posts[d].accepted + 1,
                         !.event = posts[d].event \/ passes[p].event] \in Posts
    <3>1. passes[p].event \in BOOLEAN
      BY <2>1 DEF Pass
    <3> QED BY <2>1, <3>1, AcceptedPosts
  <2>4. [passes[p] EXCEPT !.posting = 0, !.event = FALSE] \in Pass
    BY <2>1 DEF Pass
  <2>5. deliveries' \in [Deliveries -> Delivery]
    BY <1>9, <2>1, <2>2 DEF EndpointAccepts, TypeOK
  <2>6. posts' \in [Deliveries -> Posts]
    BY <1>9, <2>1, <2>3 DEF EndpointAccepts, TypeOK
  <2>7. passes' \in [Passes -> Pass]
    BY <1>9, <2>4 DEF EndpointAccepts, Posted, TypeOK
  <2> QED BY <1>9, <2>5, <2>6, <2>7 DEF EndpointAccepts, TypeOK
<1>10. ASSUME NEW p \in Passes, NEW answered \in BOOLEAN, NEW accepted \in BOOLEAN,
              EndpointFails(p, answered, accepted)
       PROVE  TypeOK'
  <2> DEFINE d == passes[p].posting
  <2>1. d \in Deliveries /\ passes[p] \in Pass /\ posts[d] \in Posts
    BY <1>10 DEF EndpointFails, TypeOK, Pass
  <2>2. AfterError(d, answered) \in Delivery
    BY <2>1, AfterErrorTypes
  <2>3. Unlearnt(posts[d], answered, accepted, passes[p].event) \in Posts
    <3>1. passes[p].event \in BOOLEAN
      BY <2>1 DEF Pass
    <3> QED BY <2>1, <3>1, UnlearntPosts
  <2>4. [passes[p] EXCEPT !.posting = 0, !.event = FALSE] \in Pass
    BY <2>1 DEF Pass
  <2>5. deliveries' \in [Deliveries -> Delivery]
    BY <1>10, <2>1, <2>2 DEF EndpointFails, TypeOK
  <2>6. posts' \in [Deliveries -> Posts]
    <3> DEFINE v == Unlearnt(posts[d], answered, accepted, passes[p].event)
    <3>1. v \in Posts
      BY <2>3
    <3>2. posts' = [posts EXCEPT ![d] = v]
      BY <1>10 DEF EndpointFails
    <3> HIDE DEF v
    <3> QED BY <3>1, <3>2 DEF TypeOK
  <2>7. passes' \in [Passes -> Pass]
    BY <1>10, <2>4 DEF EndpointFails, Posted, TypeOK
  <2>8. Buried(d) \in Nat
    <3>1. deadLetters[d] \in Nat
      BY <2>1 DEF TypeOK
    <3> HIDE DEF d
    <3> QED BY <3>1 DEF Buried
  <2>9. deadLetters' \in [Deliveries -> Nat]
    BY <1>10, <2>1, <2>8 DEF EndpointFails, TypeOK
  <2> QED BY <1>10, <2>5, <2>6, <2>7, <2>9 DEF EndpointFails, TypeOK
<1>11. CASE UNCHANGED vars
  BY <1>11 DEF vars, TypeOK
<1> QED BY <1>1, <1>2, <1>3, <1>4, <1>5, <1>6, <1>7, <1>8, <1>9, <1>10, <1>11
        DEF Next, Start, Run, Answer

-----------------------------------------------------------------------------
(* What became of the events *)

LEMMA UnlearntFields ==
    ASSUME NEW v \in Posts, NEW answered \in BOOLEAN, NEW accepted \in BOOLEAN,
           NEW event \in BOOLEAN
    PROVE  LET w == Unlearnt(v, answered, accepted, event)
           IN  /\ w.event <=> v.event \/ (accepted /\ event)
               /\ w.refused <=> v.refused \/ answered
               /\ w.accepted - w.lost = v.accepted - v.lost
               /\ w.accepted \in Nat /\ w.lost \in Nat
<1>1. /\ Unlearnt(v, answered, accepted, event).event = (v.event \/ (accepted /\ event))
      /\ Unlearnt(v, answered, accepted, event).refused = (v.refused \/ answered)
  BY DEF Unlearnt, Posts
<1>2. v.accepted \in Nat /\ v.lost \in Nat
  BY DEF Posts
<1>3. /\ Unlearnt(v, answered, accepted, event).accepted
             = IF accepted THEN v.accepted + 1 ELSE v.accepted
      /\ Unlearnt(v, answered, accepted, event).lost = IF accepted THEN v.lost + 1 ELSE v.lost
  BY DEF Unlearnt, Posts
<1> DEFINE w == Unlearnt(v, answered, accepted, event)
<1>4. w.accepted - w.lost = v.accepted - v.lost /\ w.accepted \in Nat /\ w.lost \in Nat
  <2>1. CASE accepted
    BY <1>2, <1>3, <2>1
  <2>2. CASE ~accepted
    BY <1>2, <1>3, <2>2
  <2> QED BY <2>1, <2>2
<1>5. (w.event <=> v.event \/ (accepted /\ event)) /\ (w.refused <=> v.refused \/ answered)
  BY <1>1
<1> QED BY <1>4, <1>5

\* A step that keeps the events of deliveries and of posts under way keeps the account of them.
LEMMA EventsKept ==
    ASSUME EventAccounted,
           \A d \in Deliveries : /\ deliveries'[d].status = "delivered"
                                       => deliveries[d].status = "delivered"
                                 /\ deliveries'[d].event = deliveries[d].event
                                 /\ posts'[d].event = posts[d].event
                                 /\ posts'[d].refused = posts[d].refused,
           \A p \in Passes : \/ passes'[p].posting = 0
                             \/ passes'[p] = passes[p]
                             \/ /\ passes'[p].posting \in Deliveries
                                /\ passes'[p].event = deliveries[passes'[p].posting].event,
           \A p \in Passes : passes[p].posting \in Deliveries \cup {0}
    PROVE  EventAccounted'
<1>1. ASSUME NEW d \in Deliveries, deliveries'[d].status = "delivered" \/ ~deliveries'[d].event
      PROVE  posts'[d].event \/ posts'[d].refused
  BY <1>1 DEF EventAccounted
<1>2. ASSUME NEW p \in Passes, passes'[p].posting # 0, ~passes'[p].event
      PROVE  posts'[passes'[p].posting].event \/ posts'[passes'[p].posting].refused
  BY <1>2 DEF EventAccounted
<1> QED BY <1>1, <1>2 DEF EventAccounted

LEMMA DeliverKeeps ==
    ASSUME TypeOK, NEW p \in Passes, NEW todo \in SUBSET Deliveries, NEW d \in Deliveries,
           Deliver(p, todo, d), EventAccounted
    PROVE  EventAccounted'
<1>0. deliveries[d] \in Delivery
  BY DEF TypeOK
<1>1. \A c \in Deliveries : /\ deliveries'[c].status = "delivered"
                                 => deliveries[c].status = "delivered"
                            /\ deliveries'[c].event = deliveries[c].event
  <2>1. CASE deliveries' = [deliveries EXCEPT ![d].status = "failed"]
    BY <2>1 DEF TypeOK, Delivery
  <2>2. CASE deliveries' = [deliveries EXCEPT ![d].status = "processing", ![d].attempt = @ + 1]
    BY <2>2 DEF TypeOK, Delivery
  <2> QED BY <2>1, <2>2 DEF Deliver
<1>2. ASSUME NEW q \in Passes
      PROVE  \/ passes'[q].posting = 0
             \/ passes'[q] = passes[q]
             \/ /\ passes'[q].posting \in Deliveries
                /\ passes'[q].event = deliveries[passes'[q].posting].event
  <2>1. CASE q # p
    BY <2>1 DEF Deliver, TypeOK
  <2> DEFINE rest == [on |-> TRUE, todo |-> todo \ {d}, posting |-> 0, event |-> FALSE]
  <2>2. CASE q = p /\ passes' = [passes EXCEPT ![p] = rest]
    BY <2>2 DEF TypeOK
  <2>3. CASE q = p /\ passes' = [passes EXCEPT ![p] =
                                    [rest EXCEPT !.posting = d, !.event = deliveries[d].event]]
    <3>1. passes'[q] = [rest EXCEPT !.posting = d, !.event = deliveries[d].event]
      BY <2>3 DEF TypeOK
    <3> DEFINE e == deliveries[d].event
    <3> HIDE DEF e
    <3>2. [rest EXCEPT !.posting = d, !.event = e].posting = d
      OBVIOUS
    <3>3. [rest EXCEPT !.posting = d, !.event = e].event = e
      OBVIOUS
    <3> QED BY <3>1, <3>2, <3>3 DEF e
  <2> QED BY <2>1, <2>2, <2>3 DEF Deliver
<1>3. \A q \in Passes : passes[q].posting \in Deliveries \cup {0}
  BY DEF TypeOK, Pass
<1>4. posts' = posts
  BY DEF Deliver
<1> QED BY <1>1, <1>2, <1>3, <1>4, EventsKept

LEMMA EventStep == TypeOK /\ EventAccounted /\ [Next]_vars => EventAccounted'
<1> SUFFICES ASSUME TypeOK, EventAccounted, [Next]_vars
             PROVE  EventAccounted'
  OBVIOUS
<1> USE DeliveriesAreNumbers
<1>0. \A p \in Passes : passes[p].posting \in Deliveries \cup {0}
  BY DEF TypeOK, Pass
<1>1. ASSUME NEW m \in Merchants, NEW enabled \in BOOLEAN, upsertWebhookConfig(m, enabled)
      PROVE  EventAccounted'
  BY <1>1 DEF upsertWebhookConfig, EventAccounted
<1>2. ASSUME NEW m \in Merchants, NEW d \in Deliveries, enqueueWebhookEvent(d, m)
      PROVE  EventAccounted'
  <2>1. \A c \in Deliveries : /\ deliveries'[c].status = "delivered"
                                   => deliveries[c].status = "delivered"
                              /\ deliveries'[c].event = deliveries[c].event
    BY <1>2 DEF enqueueWebhookEvent, TypeOK, Delivery
  <2> QED BY <1>0, <1>2, <2>1, EventsKept DEF enqueueWebhookEvent
<1>3. ASSUME NEW d \in Deliveries, retryWebhookDeliveryManually(d)
      PROVE  EventAccounted'
  <2>1. \A c \in Deliveries : /\ deliveries'[c].status = "delivered"
                                   => deliveries[c].status = "delivered"
                              /\ deliveries'[c].event = deliveries[c].event
    BY <1>3 DEF retryWebhookDeliveryManually, TypeOK, Delivery
  <2>2. \A c \in Deliveries : /\ posts'[c].event = posts[c].event
                              /\ posts'[c].refused = posts[c].refused
    BY <1>3 DEF retryWebhookDeliveryManually, TypeOK, Posts
  <2> QED BY <1>0, <1>3, <2>1, <2>2, EventsKept DEF retryWebhookDeliveryManually
<1>4. ASSUME NEW d \in Deliveries, DelayElapses(d)
      PROVE  EventAccounted'
  <2>1. \A c \in Deliveries : /\ deliveries'[c].status = "delivered"
                                   => deliveries[c].status = "delivered"
                              /\ deliveries'[c].event = deliveries[c].event
    BY <1>4 DEF DelayElapses, TypeOK, Delivery
  <2> QED BY <1>0, <1>4, <2>1, EventsKept DEF DelayElapses
<1>5. CASE Restart
  BY <1>5 DEF Restart, EventAccounted
<1>6. ASSUME NEW p \in Passes, NEW d \in Deliveries, StartPass(p, d)
      PROVE  EventAccounted'
  <2>1. Due \in SUBSET Deliveries
    BY DEF Due
  <2> QED BY <1>6, <2>1, DeliverKeeps DEF StartPass
<1>7. ASSUME NEW p \in Passes, NEW d \in Deliveries, ContinuePass(p, d)
      PROVE  EventAccounted'
  <2>1. passes[p].todo \in SUBSET Deliveries
    BY DEF TypeOK, Pass
  <2> QED BY <1>7, <2>1, DeliverKeeps DEF ContinuePass
<1>8. ASSUME NEW p \in Passes, EndPass(p)
      PROVE  EventAccounted'
  <2>1. \A q \in Passes : \/ passes'[q].posting = 0
                          \/ passes'[q] = passes[q]
    BY <1>8 DEF EndPass, Idle, TypeOK
  <2> QED BY <1>0, <1>8, <2>1, EventsKept DEF EndPass
<1>9. ASSUME NEW p \in Passes, EndpointAccepts(p)
      PROVE  EventAccounted'
  <2> DEFINE d == passes[p].posting
  <2>1. d \in Deliveries /\ passes[p] \in Pass /\ deliveries[d] \in Delivery /\ posts[d] \in Posts
    BY <1>9 DEF EndpointAccepts, TypeOK, Pass
  <2>2. posts'[d].event = (posts[d].event \/ passes[p].event) /\ posts'[d].refused = posts[d].refused
    BY <1>9, <2>1 DEF EndpointAccepts, TypeOK, Posts
  <2>3. passes[p].event \/ posts[d].event \/ posts[d].refused
    BY <1>9, <2>1 DEF EventAccounted, EndpointAccepts
  <2>4. posts'[d].event \/ posts'[d].refused
    BY <2>2, <2>3
  <2>5. \A c \in Deliveries \ {d} : posts'[c] = posts[c] /\ deliveries'[c] = deliveries[c]
    BY <1>9, <2>1 DEF EndpointAccepts, TypeOK
  <2>6. \A q \in Passes : passes'[q].posting = 0 \/ passes'[q] = passes[q]
    BY <1>9 DEF EndpointAccepts, Posted, TypeOK, Pass
  <2> HIDE DEF d
  <2>8. ASSUME NEW c \in Deliveries, deliveries'[c].status = "delivered" \/ ~deliveries'[c].event
        PROVE  posts'[c].event \/ posts'[c].refused
    <3>1. CASE c = d
      BY <3>1, <2>4
    <3>2. CASE c # d
      BY <2>8, <3>2, <2>5 DEF EventAccounted
    <3> QED BY <3>1, <3>2
  <2>9. ASSUME NEW q \in Passes, passes'[q].posting # 0, ~passes'[q].event
        PROVE  posts'[passes'[q].posting].event \/ posts'[passes'[q].posting].refused
    <3> DEFINE c == passes[q].posting
    <3>1. passes'[q] = passes[q] /\ c \in Deliveries
      BY <1>0, <2>9, <2>6
    <3>2. posts[c].event \/ posts[c].refused
      BY <2>9, <3>1 DEF EventAccounted
    <3> QED BY <2>4, <2>5, <3>1, <3>2
  <2> QED BY <2>8, <2>9 DEF EventAccounted
<1>10. ASSUME NEW p \in Passes, NEW answered \in BOOLEAN, NEW accepted \in BOOLEAN,
              EndpointFails(p, answered, accepted)
       PROVE  EventAccounted'
  <2> DEFINE d == passes[p].posting
  <2>1. d \in Deliveries /\ passes[p] \in Pass /\ deliveries[d] \in Delivery /\ posts[d] \in Posts
    BY <1>10 DEF EndpointFails, TypeOK, Pass
  <2>2. posts'[d] = Unlearnt(posts[d], answered, accepted, passes[p].event)
        /\ deliveries'[d] = AfterError(d, answered)
    BY <1>10, <2>1 DEF EndpointFails, TypeOK
  <2>3. passes[p].event \in BOOLEAN
    BY <2>1 DEF Pass
  <2>4. /\ posts[d].event \/ posts[d].refused => posts'[d].event \/ posts'[d].refused
        /\ answered => posts'[d].refused
    BY <2>1, <2>2, <2>3, UnlearntFields
  <2>5. /\ deliveries'[d].status # "delivered"
        /\ ~deliveries'[d].event => ~deliveries[d].event \/ answered
    BY <2>1, <2>2, AfterErrorTypes
  <2>6. \A c \in Deliveries \ {d} : posts'[c] = posts[c] /\ deliveries'[c] = deliveries[c]
    BY <1>10, <2>1 DEF EndpointFails, TypeOK
  <2>7. \A q \in Passes : passes'[q].posting = 0 \/ passes'[q] = passes[q]
    BY <1>10 DEF EndpointFails, Posted, TypeOK, Pass
  <2> HIDE DEF d
  <2>8. ASSUME NEW c \in Deliveries, deliveries'[c].status = "delivered" \/ ~deliveries'[c].event
        PROVE  posts'[c].event \/ posts'[c].refused
    <3>1. CASE c = d
      BY <2>8, <3>1, <2>1, <2>4, <2>5 DEF EventAccounted
    <3>2. CASE c # d
      BY <2>8, <3>2, <2>6 DEF EventAccounted
    <3> QED BY <3>1, <3>2
  <2>9. ASSUME NEW q \in Passes, passes'[q].posting # 0, ~passes'[q].event
        PROVE  posts'[passes'[q].posting].event \/ posts'[passes'[q].posting].refused
    <3> DEFINE c == passes[q].posting
    <3>1. passes'[q] = passes[q] /\ c \in Deliveries
      BY <1>0, <2>9, <2>7
    <3>2. posts[c].event \/ posts[c].refused
      BY <2>9, <3>1 DEF EventAccounted
    <3> QED BY <2>4, <2>6, <3>1, <3>2
  <2> QED BY <2>8, <2>9 DEF EventAccounted
<1>11. CASE UNCHANGED vars
  BY <1>11 DEF vars, EventAccounted
<1> QED BY <1>1, <1>2, <1>3, <1>4, <1>5, <1>6, <1>7, <1>8, <1>9, <1>10, <1>11
        DEF Next, Start, Run, Answer

-----------------------------------------------------------------------------
(* One pass at a time *)

LEMMA DeliverEffect ==
    ASSUME TypeOK, NEW p \in Passes, NEW todo \in SUBSET Deliveries, NEW d \in Deliveries,
           Deliver(p, todo, d)
    PROVE  /\ d \in todo
           /\ passes'[p].on
           /\ passes'[p].todo = todo \ {d}
           /\ passes'[p].posting \in {0, d}
           /\ \A q \in Passes \ {p} : passes'[q] = passes[q]
           /\ deliveries'[d].status # "delivered"
           /\ \A c \in Deliveries \ {d} : deliveries'[c] = deliveries[c]
           /\ UNCHANGED <<restarts, posts>>
<1> DEFINE rest == [on |-> TRUE, todo |-> todo \ {d}, posting |-> 0, event |-> FALSE]
<1>0. d \in todo /\ UNCHANGED <<restarts, posts>>
  BY DEF Deliver, IsFirst
<1>1. CASE /\ deliveries' = [deliveries EXCEPT ![d].status = "failed"]
           /\ passes' = [passes EXCEPT ![p] = rest]
  <2>1. passes'[p] = rest
    BY <1>1 DEF TypeOK
  <2>2. deliveries'[d].status = "failed"
    BY <1>1 DEF TypeOK, Delivery
  <2>3. \A c \in Deliveries \ {d} : deliveries'[c] = deliveries[c]
    BY <1>1 DEF TypeOK
  <2>4. \A q \in Passes \ {p} : passes'[q] = passes[q]
    BY <1>1 DEF TypeOK
  <2>5. passes'[p].on /\ passes'[p].todo = todo \ {d} /\ passes'[p].posting = 0
    BY <2>1
  <2> QED BY <1>0, <2>2, <2>3, <2>4, <2>5
<1>2. CASE /\ deliveries' = [deliveries EXCEPT ![d].status = "processing", ![d].attempt = @ + 1]
           /\ passes' = [passes EXCEPT ![p] =
                            [rest EXCEPT !.posting = d, !.event = deliveries[d].event]]
  <2> DEFINE e == deliveries[d].event
  <2>1. passes'[p] = [rest EXCEPT !.posting = d, !.event = e]
    BY <1>2 DEF TypeOK
  <2>2. deliveries'[d].status = "processing"
    BY <1>2 DEF TypeOK, Delivery
  <2>3. \A c \in Deliveries \ {d} : deliveries'[c] = deliveries[c]
    BY <1>2 DEF TypeOK
  <2>4. \A q \in Passes \ {p} : passes'[q] = passes[q]
    BY <1>2 DEF TypeOK
  <2> HIDE DEF e
  <2>5. passes'[p].on /\ passes'[p].todo = todo \ {d} /\ passes'[p].posting = d
    BY <2>1
  <2> QED BY <1>0, <2>2, <2>3, <2>4, <2>5
<1> QED BY <1>1, <1>2 DEF Deliver

LEMMA TidyStep == TypeOK /\ PassesTidy /\ [Next]_vars => PassesTidy'
<1> SUFFICES ASSUME TypeOK, PassesTidy, [Next]_vars
             PROVE  PassesTidy'
  OBVIOUS
<1> USE DeliveriesAreNumbers
<1>0. \A p \in Passes : passes[p].todo \in SUBSET Deliveries
  BY DEF TypeOK, Pass
<1>1. ASSUME NEW p \in Passes, NEW todo \in SUBSET Deliveries, NEW d \in Deliveries,
             Deliver(p, todo, d)
      PROVE  PassesTidy'
  <2>1. /\ passes'[p].on /\ passes'[p].todo = todo \ {d} /\ passes'[p].posting \in {0, d}
        /\ \A q \in Passes \ {p} : passes'[q] = passes[q]
    BY <1>1, DeliverEffect
  <2>2. passes'[p].posting \notin passes'[p].todo
    BY <2>1
  <2> QED BY <2>1, <2>2 DEF PassesTidy
<1>2. ASSUME NEW p \in Passes, NEW d \in Deliveries, StartPass(p, d) \/ ContinuePass(p, d)
      PROVE  PassesTidy'
  <2>1. Due \in SUBSET Deliveries
    BY DEF Due
  <2> QED BY <1>0, <1>1, <1>2, <2>1 DEF StartPass, ContinuePass
<1>3. ASSUME NEW p \in Passes, EndPass(p)
      PROVE  PassesTidy'
  BY <1>3 DEF EndPass, Idle, TypeOK, PassesTidy
<1>4. ASSUME NEW p \in Passes, Posted(p)
      PROVE  PassesTidy'
  <2>1. /\ passes'[p].on = passes[p].on /\ passes'[p].todo = passes[p].todo
        /\ passes'[p].posting = 0
        /\ \A q \in Passes \ {p} : passes'[q] = passes[q]
    BY <1>4 DEF Posted, TypeOK, Pass
  <2> QED BY <1>0, <2>1 DEF PassesTidy
<1>5. CASE UNCHANGED passes
  BY <1>5 DEF PassesTidy
<1> QED BY <1>2, <1>3, <1>4, <1>5
        DEF Next, vars, Start, Run, Answer, EndpointAccepts, EndpointFails, upsertWebhookConfig,
            enqueueWebhookEvent, retryWebhookDeliveryManually, DelayElapses, Restart

\* Answers to posts change the delivery that was posted and the pass.
LEMMA AnswerEffect ==
    ASSUME TypeOK, NEW p \in Passes, Answer(p)
    PROVE  LET d == passes[p].posting
           IN  /\ d \in Deliveries
               /\ \A c \in Deliveries \ {d} : deliveries'[c] = deliveries[c] /\ posts'[c] = posts[c]
               /\ passes'[p].on = passes[p].on /\ passes'[p].todo = passes[p].todo
               /\ passes'[p].posting = 0
               /\ \A q \in Passes \ {p} : passes'[q] = passes[q]
               /\ UNCHANGED <<processing, restarts>>
               /\ \/ /\ deliveries'[d].status = "delivered"
                     /\ posts'[d].accepted = posts[d].accepted + 1
                     /\ posts'[d].lost = posts[d].lost
                  \/ /\ deliveries'[d].status # "delivered"
                     /\ posts'[d].accepted - posts'[d].lost = posts[d].accepted - posts[d].lost
               /\ posts'[d].accepted \in Nat /\ posts'[d].lost \in Nat
<1> DEFINE d == passes[p].posting
<1>0. d \in Deliveries /\ passes[p] \in Pass /\ deliveries[d] \in Delivery /\ posts[d] \in Posts
  BY DEF Answer, EndpointAccepts, EndpointFails, TypeOK, Pass
<1>1. passes[p].event \in BOOLEAN /\ posts[d].accepted \in Nat /\ posts[d].lost \in Nat
  BY <1>0 DEF Pass, Posts
<1>2. Posted(p) /\ UNCHANGED <<processing, restarts>>
  BY DEF Answer, EndpointAccepts, EndpointFails
<1>3. /\ passes'[p].on = passes[p].on /\ passes'[p].todo = passes[p].todo
      /\ passes'[p].posting = 0
      /\ \A q \in Passes \ {p} : passes'[q] = passes[q]
  BY <1>2 DEF Posted, TypeOK, Pass
<1>4. CASE EndpointAccepts(p)
  <2>1. \A c \in Deliveries \ {d} : deliveries'[c] = deliveries[c] /\ posts'[c] = posts[c]
    BY <1>0, <1>4 DEF EndpointAccepts, TypeOK
  <2>2. deliveries'[d].status = "delivered"
    BY <1>0, <1>4 DEF EndpointAccepts, TypeOK, Delivery
  <2>3. posts'[d].accepted = posts[d].accepted + 1 /\ posts'[d].lost = posts[d].lost
    BY <1>0, <1>4 DEF EndpointAccepts, TypeOK, Posts
  <2> QED BY <1>0, <1>1, <1>2, <1>3, <2>1, <2>2, <2>3
<1>5. ASSUME NEW answered \in BOOLEAN, NEW accepted \in BOOLEAN,
             EndpointFails(p, answered, accepted)
      PROVE  /\ \A c \in Deliveries \ {d} : deliveries'[c] = deliveries[c] /\ posts'[c] = posts[c]
             /\ deliveries'[d].status # "delivered"
             /\ posts'[d].accepted - posts'[d].lost = posts[d].accepted - posts[d].lost
             /\ posts'[d].accepted \in Nat /\ posts'[d].lost \in Nat
  <2>1. \A c \in Deliveries \ {d} : deliveries'[c] = deliveries[c] /\ posts'[c] = posts[c]
    BY <1>0, <1>5 DEF EndpointFails, TypeOK
  <2>2. deliveries'[d] = AfterError(d, answered)
        /\ posts'[d] = Unlearnt(posts[d], answered, accepted, passes[p].event)
    BY <1>0, <1>5 DEF EndpointFails, TypeOK
  <2> QED BY <1>0, <1>1, <2>1, <2>2, AfterErrorTypes, UnlearntFields
<1> QED BY <1>0, <1>2, <1>3, <1>4, <1>5 DEF Answer

\* Steps outside the passes that leave passes and counts alone and deliver nothing.
LEMMA OnePassKept ==
    ASSUME OnePass, UNCHANGED <<passes, processing>>,
           \A d \in Deliveries : /\ deliveries'[d].status = "delivered"
                                       <=> deliveries[d].status = "delivered"
                                 /\ posts'[d].accepted = posts[d].accepted
                                 /\ posts'[d].lost = posts[d].lost
    PROVE  OnePass'
BY DEF OnePass

\* Where one pass at most is under way, what it takes next is not delivered.
LEMMA DeliverKeepsOne ==
    ASSUME TypeOK, PassesTidy, OnePass, NEW p \in Passes, NEW todo \in SUBSET Deliveries,
           NEW d \in Deliveries, Deliver(p, todo, d), processing', \A q \in Passes : passes[q].on => q = p,
           \A c \in todo : deliveries[c].status # "delivered"
    PROVE  /\ OnePass'
           /\ \A c \in Deliveries : deliveries[c].status = "delivered"
                                       => deliveries'[c] = deliveries[c] /\ posts'[c] = posts[c]
<1>1. /\ d \in todo /\ passes'[p].on /\ passes'[p].todo = todo \ {d}
      /\ passes'[p].posting \in {0, d}
      /\ \A q \in Passes \ {p} : passes'[q] = passes[q]
      /\ deliveries'[d].status # "delivered"
      /\ \A c \in Deliveries \ {d} : deliveries'[c] = deliveries[c]
      /\ posts' = posts
  BY DeliverEffect
<1>2. \A q \in Passes \ {p} : ~passes'[q].on /\ passes'[q].todo = {} /\ passes'[q].posting = 0
  BY <1>1 DEF PassesTidy
<1>3. deliveries[d].status # "delivered"
  BY <1>1
<1>4. ASSUME NEW c \in Deliveries, deliveries'[c].status = "delivered"
      PROVE  /\ deliveries[c].status = "delivered" /\ c # d
             /\ \A q \in Passes : c \notin passes'[q].todo /\ passes'[q].posting # c
  <2>1. c # d /\ deliveries[c].status = "delivered"
    BY <1>1, <1>4
  <2>2. c \notin passes'[p].todo /\ passes'[p].posting # c
    BY <1>1, <2>1, DeliveriesAreNumbers
  <2> QED BY <1>2, <2>1, <2>2, DeliveriesAreNumbers
<1>5. \A c \in Deliveries : deliveries'[c].status = "delivered" <=> deliveries[c].status = "delivered"
  BY <1>1, <1>3, <1>4
<1>6. \A c \in Deliveries :
         posts'[c].accepted <= posts'[c].lost + IF deliveries'[c].status = "delivered" THEN 1 ELSE 0
  BY <1>1, <1>5 DEF OnePass
<1>7. \A q, r \in Passes : passes'[q].on /\ passes'[r].on => q = r
  BY <1>2
<1>8. OnePass'
  BY <1>4, <1>6, <1>7 DEF OnePass
<1> QED BY <1>1, <1>3, <1>8

\* A step without a restart keeps passes apart, and what is delivered as it is.
LEMMA OnePassStep ==
    ASSUME TypeOK, PassesTidy, OnePass, [Next]_vars, ~Restart
    PROVE  /\ OnePass'
           /\ \A c \in Deliveries : deliveries[c].status = "delivered"
                                       => deliveries'[c] = deliveries[c] /\ posts'[c] = posts[c]
<1> DEFINE Kept == \A c \in Deliveries : deliveries[c].status = "delivered"
                                       => deliveries'[c] = deliveries[c] /\ posts'[c] = posts[c]
<1>1. ASSUME NEW m \in Merchants, NEW enabled \in BOOLEAN, upsertWebhookConfig(m, enabled)
      PROVE  OnePass' /\ Kept
  BY <1>1, OnePassKept DEF upsertWebhookConfig
<1>2. ASSUME NEW m \in Merchants, NEW d \in Deliveries, enqueueWebhookEvent(d, m)
      PROVE  OnePass' /\ Kept
  <2>1. deliveries[d].status = "none" /\ deliveries'[d].status = "pending"
        /\ \A c \in Deliveries \ {d} : deliveries'[c] = deliveries[c]
    BY <1>2, DeliveriesAreNumbers DEF enqueueWebhookEvent, TypeOK, Delivery
  <2>2. posts' = posts /\ UNCHANGED <<passes, processing>>
    BY <1>2 DEF enqueueWebhookEvent
  <2>3. \A c \in Deliveries : deliveries'[c].status = "delivered" <=> deliveries[c].status = "delivered"
    BY <2>1
  <2>4. OnePass'
    BY <2>2, <2>3, OnePassKept
  <2> QED BY <2>1, <2>2, <2>4
<1>3. ASSUME NEW d \in Deliveries, retryWebhookDeliveryManually(d)
      PROVE  OnePass' /\ Kept
  <2>1. deliveries[d].status # "delivered" /\ deliveries'[d].status = "pending"
        /\ \A c \in Deliveries \ {d} : deliveries'[c] = deliveries[c] /\ posts'[c] = posts[c]
    BY <1>3 DEF retryWebhookDeliveryManually, Retriable, TypeOK, Delivery
  <2>2. posts'[d].accepted = posts[d].accepted /\ posts'[d].lost = posts[d].lost
    BY <1>3 DEF retryWebhookDeliveryManually, TypeOK, Posts
  <2>3. UNCHANGED <<passes, processing>>
    BY <1>3 DEF retryWebhookDeliveryManually
  <2>4. \A c \in Deliveries : /\ deliveries'[c].status = "delivered"
                                    <=> deliveries[c].status = "delivered"
                              /\ posts'[c].accepted = posts[c].accepted
                              /\ posts'[c].lost = posts[c].lost
    BY <2>1, <2>2
  <2>5. OnePass'
    BY <2>3, <2>4, OnePassKept
  <2> QED BY <2>1, <2>5
<1>4. ASSUME NEW d \in Deliveries, DelayElapses(d)
      PROVE  OnePass' /\ Kept
  <2>1. deliveries[d].status = "retrying" /\ deliveries'[d].status = "retrying"
        /\ \A c \in Deliveries \ {d} : deliveries'[c] = deliveries[c]
    BY <1>4 DEF DelayElapses, TypeOK, Delivery
  <2>2. posts' = posts /\ UNCHANGED <<passes, processing>>
    BY <1>4 DEF DelayElapses
  <2>3. \A c \in Deliveries : deliveries'[c].status = "delivered" <=> deliveries[c].status = "delivered"
    BY <2>1
  <2>4. OnePass'
    BY <2>2, <2>3, OnePassKept
  <2> QED BY <2>1, <2>2, <2>4
<1>5. ASSUME NEW p \in Passes, NEW d \in Deliveries, StartPass(p, d)
      PROVE  OnePass' /\ Kept
  <2>1. Due \in SUBSET Deliveries /\ \A c \in Due : deliveries[c].status # "delivered"
    BY DEF Due
  <2>2. ~processing /\ processing'
    BY <1>5 DEF StartPass, MayStart
  <2>3. \A q \in Passes : ~passes[q].on
    BY <2>2 DEF OnePass
  <2>4. Deliver(p, Due, d)
    BY <1>5 DEF StartPass
  <2> QED BY <2>1, <2>2, <2>3, <2>4, DeliverKeepsOne
<1>6. ASSUME NEW p \in Passes, NEW d \in Deliveries, ContinuePass(p, d)
      PROVE  OnePass' /\ Kept
  <2>1. /\ passes[p].todo \in SUBSET Deliveries
        /\ \A c \in passes[p].todo : deliveries[c].status # "delivered"
    BY DEF TypeOK, Pass, OnePass
  <2>2. Deliver(p, passes[p].todo, d) /\ passes[p].on /\ processing' = processing
    BY <1>6 DEF ContinuePass
  <2>3. processing' /\ \A q \in Passes : passes[q].on => q = p
    BY <2>2 DEF OnePass
  <2> QED BY <2>1, <2>2, <2>3, DeliverKeepsOne
<1>7. ASSUME NEW p \in Passes, EndPass(p)
      PROVE  OnePass' /\ Kept
  <2>1. \A q \in Passes : ~passes'[q].on /\ passes'[q].todo = {} /\ passes'[q].posting = 0
    <3>1. passes[p].on /\ passes' = [passes EXCEPT ![p] = Idle]
      BY <1>7 DEF EndPass
    <3>2. \A q \in Passes \ {p} : passes'[q] = passes[q] /\ ~passes[q].on
      BY <3>1 DEF OnePass, TypeOK
    <3>3. passes'[p] = Idle
      BY <3>1 DEF TypeOK
    <3> QED BY <3>2, <3>3 DEF Idle, PassesTidy
  <2>2. UNCHANGED <<deliveries, posts>>
    BY <1>7 DEF EndPass
  <2> QED BY <2>1, <2>2, DeliveriesAreNumbers DEF OnePass
<1>8. ASSUME NEW p \in Passes, Answer(p)
      PROVE  OnePass' /\ Kept
  <2> DEFINE d == passes[p].posting
  <2>1. /\ d \in Deliveries
        /\ \A c \in Deliveries \ {d} : deliveries'[c] = deliveries[c] /\ posts'[c] = posts[c]
        /\ passes'[p].on = passes[p].on /\ passes'[p].todo = passes[p].todo
        /\ passes'[p].posting = 0
        /\ \A q \in Passes \ {p} : passes'[q] = passes[q]
        /\ processing' = processing
    BY <1>8, AnswerEffect
  <2>2. deliveries[d].status # "delivered" /\ d \notin passes[p].todo /\ passes[p].on
    BY <2>1, DeliveriesAreNumbers DEF OnePass, PassesTidy
  <2>3. \A q \in Passes \ {p} : ~passes[q].on /\ passes[q].todo = {} /\ passes[q].posting = 0
    BY <2>2 DEF OnePass, PassesTidy
  <2>4. posts'[d].accepted <= posts'[d].lost + IF deliveries'[d].status = "delivered" THEN 1 ELSE 0
    <3>1. posts[d].accepted <= posts[d].lost /\ posts[d].accepted \in Nat /\ posts[d].lost \in Nat
      <4>1. posts[d].accepted <= posts[d].lost + 0
        BY <2>1, <2>2 DEF OnePass
      <4>2. posts[d].accepted \in Nat /\ posts[d].lost \in Nat
        BY <2>1 DEF TypeOK, Posts
      <4> QED BY <4>1, <4>2
    <3>2. /\ \/ /\ deliveries'[d].status = "delivered"
                /\ posts'[d].accepted = posts[d].accepted + 1
                /\ posts'[d].lost = posts[d].lost
             \/ /\ deliveries'[d].status # "delivered"
                /\ posts'[d].accepted - posts'[d].lost = posts[d].accepted - posts[d].lost
          /\ posts'[d].accepted \in Nat /\ posts'[d].lost \in Nat
      BY <1>8, AnswerEffect
    <3> HIDE DEF d
    <3> QED BY <3>1, <3>2
  <2> HIDE DEF d
  <2>5. \A c \in Deliveries :
           posts'[c].accepted <= posts'[c].lost + IF deliveries'[c].status = "delivered" THEN 1 ELSE 0
    BY <2>1, <2>4 DEF OnePass
  <2>6. \A c \in Deliveries, q \in Passes :
           deliveries'[c].status = "delivered" => c \notin passes'[q].todo /\ passes'[q].posting # c
    <3> SUFFICES ASSUME NEW c \in Deliveries, NEW q \in Passes, deliveries'[c].status = "delivered"
                 PROVE  c \notin passes'[q].todo /\ passes'[q].posting # c
      OBVIOUS
    <3>1. CASE q # p
      BY <2>1, <2>3, <3>1, DeliveriesAreNumbers
    <3>2. CASE q = p /\ c = d
      BY <2>1, <2>2, <3>2, DeliveriesAreNumbers
    <3>3. CASE q = p /\ c # d
      BY <2>1, <3>3, DeliveriesAreNumbers DEF OnePass
    <3> QED BY <3>1, <3>2, <3>3
  <2>7. \A q, r \in Passes : passes'[q].on /\ passes'[r].on => q = r
    BY <2>1, <2>3
  <2>8. \A q \in Passes : passes'[q].on => processing'
    BY <2>1, <2>3 DEF OnePass
  <2>9. OnePass'
    BY <2>5, <2>6, <2>7, <2>8 DEF OnePass
  <2> QED BY <2>1, <2>2, <2>9
<1>9. CASE UNCHANGED vars
  BY <1>9, OnePassKept DEF vars
<1> QED BY <1>1, <1>2, <1>3, <1>4, <1>5, <1>6, <1>7, <1>8, <1>9 DEF Next, Start, Run

\* A restart shows in the count of restarts for good.
LEMMA NoRestart ==
    ASSUME TypeOK, [Next]_vars, restarts' = 0
    PROVE  restarts = 0 /\ ~Restart
<1>1. restarts \in Nat
  BY DEF TypeOK
<1>2. ~Restart
  BY <1>1 DEF Restart
<1>3. restarts' = restarts
  BY <1>2 DEF Next, vars, Start, Run, Answer, EndpointAccepts, EndpointFails, upsertWebhookConfig,
             enqueueWebhookEvent, retryWebhookDeliveryManually, DelayElapses, StartPass,
             ContinuePass, EndPass, Deliver
<1> QED BY <1>2, <1>3

LEMMA WebhookInit == Init => WebhookInv
<1> SUFFICES ASSUME Init
             PROVE  WebhookInv
  OBVIOUS
<1>1. TypeOK
  <2>1. deliveries \in [Deliveries -> Delivery]
    BY DEF Init, Delivery
  <2>2. passes \in [Passes -> Pass]
    BY DEF Init, Idle, Pass
  <2>3. posts \in [Deliveries -> Posts]
    BY DEF Init, Posts
  <2>4. processing \in BOOLEAN
    BY DEF Init
  <2> QED BY <2>1, <2>2, <2>3, <2>4 DEF Init, TypeOK
<1>2. EventAccounted
  BY DEF Init, EventAccounted, Idle
<1>3. PassesTidy
  BY DEF Init, PassesTidy, Idle
<1>4. OnePass
  BY DEF Init, OnePass, Idle
<1> QED BY <1>1, <1>2, <1>3, <1>4 DEF WebhookInv

LEMMA WebhookStep == WebhookInv /\ [Next]_vars => WebhookInv'
<1> SUFFICES ASSUME WebhookInv, [Next]_vars
             PROVE  WebhookInv'
  OBVIOUS
<1>1. TypeOK' /\ EventAccounted' /\ PassesTidy'
  BY WebhookTypesStep, EventStep, TidyStep DEF WebhookInv
<1>2. ASSUME restarts' = 0
      PROVE  OnePass'
  <2>1. restarts = 0 /\ ~Restart
    BY <1>2, NoRestart DEF WebhookInv
  <2> QED BY <2>1, OnePassStep DEF WebhookInv
<1> QED BY <1>1, <1>2 DEF WebhookInv

LEMMA WebhookInvHolds == Spec => []WebhookInv
<1>1. QED BY WebhookInit, WebhookStep, PTL DEF Spec

\* Configurations, deliveries, passes and what is counted of posts keep their types.
THEOREM WebhookTypes == Spec => []TypeOK
<1>1. WebhookInv => TypeOK
  BY DEF WebhookInv
<1> QED BY <1>1, WebhookInvHolds, PTL

\* Unless the worker was restarted, startWebhookWorker never has two passes under way, and
\* processDueDeliveries and retries by hand have the endpoint accept a delivery once, but for
\* acceptances that were not learnt.
THEOREM WebhookAcceptedOnce == Spec => []AcceptedOnce
<1>1. WebhookInv => AcceptedOnce
  <2> SUFFICES ASSUME WebhookInv, restarts = 0
               PROVE  /\ \A p, q \in Passes : passes[p].on /\ passes[q].on => p = q
                      /\ \A d \in Deliveries : posts[d].accepted <= posts[d].lost + 1
    BY DEF AcceptedOnce
  <2>1. \A p, q \in Passes : passes[p].on /\ passes[q].on => p = q
    BY DEF WebhookInv, OnePass
  <2>2. ASSUME NEW d \in Deliveries
        PROVE  posts[d].accepted <= posts[d].lost + 1
    <3>1. posts[d].accepted <= posts[d].lost + IF deliveries[d].status = "delivered" THEN 1 ELSE 0
      BY DEF WebhookInv, OnePass
    <3>2. posts[d].accepted \in Nat /\ posts[d].lost \in Nat
      BY DEF WebhookInv, TypeOK, Posts
    <3> QED BY <3>1, <3>2
  <2> QED BY <2>1, <2>2
<1> QED BY <1>1, WebhookInvHolds, PTL

\* A delivery that deliverOne took for delivered had its event accepted, or an answer that was
\* refused has replaced the event.
THEOREM WebhookHasEvent == Spec => []DeliveredHasEvent
<1>1. WebhookInv => DeliveredHasEvent
  BY DEF WebhookInv, EventAccounted, DeliveredHasEvent
<1> QED BY <1>1, WebhookInvHolds, PTL

\* A delivered event stays so and is not posted again, unless the worker was restarted.
THEOREM WebhookIsFinal == Spec => DeliveredIsFinal
<1>1. WebhookInv /\ [Next]_vars =>
          [restarts' = 0 => \A d \in Deliveries :
               deliveries[d].status = "delivered" => /\ deliveries'[d] = deliveries[d]
                                                     /\ posts'[d] = posts[d]]_vars
  <2> SUFFICES ASSUME WebhookInv, [Next]_vars, restarts' = 0
               PROVE  \A d \in Deliveries :
                         deliveries[d].status = "delivered" => /\ deliveries'[d] = deliveries[d]
                                                               /\ posts'[d] = posts[d]
    OBVIOUS
  <2>1. restarts = 0 /\ ~Restart
    BY NoRestart DEF WebhookInv
  <2> QED BY <2>1, OnePassStep DEF WebhookInv
<1> QED BY <1>1, WebhookInvHolds, PTL DEF Spec, DeliveredIsFinal
=============================================================================
