------------------------ MODULE WebhookDeliveryProofs ------------------------
(***************************************************************************)
(* What holds of the webhooks service for any number of subscriptions,     *)
(* events, dispatchers, retries and faults, and what holds besides when    *)
(* nobody retries a delivery by hand.                                      *)
(***************************************************************************)
EXTENDS WebhookDelivery, TLAPS

\* Readable events are events: every step may use it.
USE DEF Readable

\* A claim is of a delivery that exists, and one the endpoint accepted was received.
ClaimsSound ==
    \A d \in Dispatchers : \A c \in batch[d] :
        /\ deliveries[c.id] # None
        /\ c.phase = "accepted" => c.id \in received

\* steady names subscriptions that match now.
SteadyMatches == \A e \in Readable : steady[e] \subseteq Matching(subscriptions, e)

\* What the consumer's callback has established at each of its steps
HandledSafely ==
    handling # None =>
        /\ stream[handling.event] = "unacked"
        /\ handling.step = "insert" => steady[handling.event] \subseteq handling.subs
        /\ handling.step = "ack" => \A s \in steady[handling.event] : deliveries[<<s, handling.event>>] # None

\* The inductive invariant
WebhookInvariant ==
    /\ TypeOK
    /\ ClaimsSound
    /\ SteadyMatches
    /\ HandledSafely
    /\ NoEventLost
    /\ DeliveredMeansReceived

\* Nothing is there at the start.
LEMMA InitHolds == Init => WebhookInvariant
  BY WebhookAssumption, NoneAssumption DEF Init, WebhookInvariant, TypeOK, ClaimsSound, SteadyMatches,
     HandledSafely, NoEventLost, DeliveredMeansReceived, Matching

\* Creating or patching a subscription can only shrink steady.
LEMMA SubscriptionKeeps ==
    ASSUME WebhookInvariant, NEW s \in Subs, NEW types \in TypeLists, NEW active \in BOOLEAN,
           CreateSubscription(s, types) \/ UpdateSubscription(s, types, active)
    PROVE  WebhookInvariant'
  <1> DEFINE row(a) == [event_types |-> types, active |-> a]
  <1>1. \A a \in BOOLEAN : ValidateEventTypes(types) => row(a) \in Subscription
    BY DEF ValidateEventTypes, Subscription
  <1>2. subscriptions' \in [Subs -> Subscription \cup {None}]
    BY <1>1 DEF WebhookInvariant, TypeOK, CreateSubscription, UpdateSubscription
  <1>3. /\ Watch
        /\ UNCHANGED <<deliveries, stream, handling, batch, requeues, faults, received, failures>>
    BY DEF CreateSubscription, UpdateSubscription
  <1>4. \A e \in Readable : steady'[e] \subseteq steady[e] /\ steady'[e] \subseteq Matching(subscriptions', e)
    BY <1>3 DEF Watch
  <1>5. steady' \in [Readable -> SUBSET Subs]
    BY <1>3 DEF Watch, WebhookInvariant, TypeOK
  <1>6. TypeOK'
    BY <1>2, <1>3, <1>5 DEF WebhookInvariant, TypeOK
  <1>7. ClaimsSound' /\ DeliveredMeansReceived'
    BY <1>3 DEF WebhookInvariant, ClaimsSound, DeliveredMeansReceived
  <1>8. SteadyMatches'
    BY <1>4 DEF SteadyMatches, Matching
  <1>9. HandledSafely'
    <2> handling # None => handling.event \in Readable
      BY DEF WebhookInvariant, TypeOK, Message
    <2> QED
      BY <1>3, <1>4 DEF WebhookInvariant, HandledSafely
  <1>10. NoEventLost'
    BY <1>3, <1>4 DEF WebhookInvariant, NoEventLost
  <1> QED
    BY <1>6, <1>7, <1>8, <1>9, <1>10 DEF WebhookInvariant

\* Publishing an event, for the first time or again, acks nothing.
LEMMA PublishKeeps ==
    ASSUME WebhookInvariant, NEW e \in Events, Publish(e)
    PROVE  WebhookInvariant'
  <1>1. Matching(subscriptions, e) \subseteq Subs
    BY DEF Matching
  <1>2. TypeOK'
    BY <1>1 DEF WebhookInvariant, TypeOK, Publish
  <1>3. ClaimsSound' /\ DeliveredMeansReceived'
    BY DEF WebhookInvariant, ClaimsSound, DeliveredMeansReceived, Publish
  <1>4. SteadyMatches'
    BY DEF WebhookInvariant, TypeOK, SteadyMatches, Publish, Matching
  <1>5. HandledSafely'
    <2> handling # None => handling.event \in Readable
      BY DEF WebhookInvariant, TypeOK, Message
    <2> QED
      BY DEF WebhookInvariant, TypeOK, HandledSafely, Publish
  <1>6. NoEventLost'
    BY DEF WebhookInvariant, TypeOK, NoEventLost, Publish
  <1> QED
    BY <1>2, <1>3, <1>4, <1>5, <1>6 DEF WebhookInvariant

\* The consumer's steps: it acks only what it has inserted.
LEMMA ConsumerKeeps ==
    ASSUME WebhookInvariant,
           Consume \/ Redeliver \/ \E e \in Events : Discard(e) \/ Handle(e)
    PROVE  WebhookInvariant'
  <1> USE DEF WebhookInvariant
  <1>m. handling # None => /\ handling.event \in Readable
                           /\ handling.subs \in SUBSET Subs
                           /\ handling \in Message
    BY DEF TypeOK, Message
  <1>1. CASE \E e \in Events : Discard(e)
    <2> PICK e \in Events : Discard(e)
      BY <1>1
    <2>1. TypeOK' /\ ClaimsSound' /\ SteadyMatches' /\ DeliveredMeansReceived' /\ HandledSafely'
      BY DEF Discard, TypeOK, ClaimsSound, SteadyMatches, Matching, DeliveredMeansReceived, HandledSafely
    <2>2. NoEventLost'
      BY DEF Discard, TypeOK, NoEventLost
    <2> QED
      BY <2>1, <2>2
  <1>2. CASE \E e \in Events : Handle(e)
    <2> PICK e \in Events : Handle(e)
      BY <1>2
    <2>1. handling' \in Message /\ handling'.event = e /\ handling'.step = "list"
      BY DEF Handle, Message
    <2>2. TypeOK' /\ ClaimsSound' /\ SteadyMatches' /\ DeliveredMeansReceived' /\ NoEventLost'
      BY <2>1 DEF Handle, TypeOK, ClaimsSound, SteadyMatches, Matching, DeliveredMeansReceived, NoEventLost
    <2>3. HandledSafely'
      BY <2>1 DEF Handle, HandledSafely
    <2> QED
      BY <2>2, <2>3
  <1>3. CASE ListActive
    <2> DEFINE subs == Matching(subscriptions, handling.event)
    <2>0. handling # None
      BY <1>3 DEF ListActive
    <2>1. subs \in SUBSET Subs
      BY DEF Matching
    <2>2. /\ handling' \in Message
          /\ handling'.event = handling.event
          /\ handling'.subs = subs
          /\ handling'.step = IF subs = {} THEN "ack" ELSE "insert"
      BY <1>3, <1>m, <2>0, <2>1 DEF ListActive, Message
    <2>3. TypeOK' /\ ClaimsSound' /\ SteadyMatches' /\ DeliveredMeansReceived' /\ NoEventLost'
      BY <1>3, <2>2 DEF ListActive, TypeOK, ClaimsSound, SteadyMatches, Matching, DeliveredMeansReceived, NoEventLost
    <2>4. steady[handling.event] \subseteq subs
      BY <1>m, <2>0 DEF SteadyMatches
    <2>5. HandledSafely'
      BY <1>3, <2>0, <2>2, <2>4 DEF ListActive, HandledSafely
    <2> QED
      BY <2>3, <2>5
  <1>4. CASE InsertPending
    <2>0. handling # None /\ handling.step = "insert"
      BY <1>4 DEF InsertPending
    <2>1. Pending \in Delivery
      BY DEF Pending, Delivery
    <2>2. /\ handling' \in Message
          /\ handling'.event = handling.event
          /\ handling'.step = "ack"
      BY <1>4, <1>m, <2>0 DEF InsertPending, Message
    <2>3. /\ deliveries' \in [Ids -> Delivery \cup {None}]
          /\ \A k \in Ids : deliveries[k] # None => deliveries'[k] = deliveries[k]
          /\ \A k \in Ids : deliveries[k] = None /\ deliveries'[k] # None => deliveries'[k].status = "pending"
      BY <1>4, <2>1 DEF InsertPending, TypeOK, Pending
    <2>4. \A s \in handling.subs : deliveries'[<<s, handling.event>>] # None
      <3> TAKE s \in handling.subs
      <3>1. <<s, handling.event>> \in Ids
        BY <1>m, <2>0 DEF Ids
      <3> QED
        BY <1>4, <2>0, <2>1, <3>1, NoneAssumption DEF InsertPending
    <2>5. TypeOK' /\ SteadyMatches'
      BY <1>4, <2>2, <2>3 DEF InsertPending, TypeOK, SteadyMatches, Matching
    <2>6. ClaimsSound'
      <3> \A d \in Dispatchers : \A c \in batch[d] : c.id \in Ids
        BY DEF TypeOK, ClaimedDelivery
      <3> QED
        BY <1>4, <2>3 DEF InsertPending, ClaimsSound
    <2>7. DeliveredMeansReceived'
      BY <1>4, <2>3 DEF InsertPending, DeliveredMeansReceived
    <2>8. NoEventLost'
      <3> \A e \in Readable : \A s \in steady[e] : <<s, e>> \in Ids
        BY DEF TypeOK, Ids
      <3> QED
        BY <1>4, <2>3 DEF InsertPending, NoEventLost
    <2>9. HandledSafely'
      BY <1>4, <2>0, <2>2, <2>4 DEF InsertPending, HandledSafely
    <2> QED
      BY <2>5, <2>6, <2>7, <2>8, <2>9
  <1>5. CASE Ack
    <2>1. TypeOK' /\ ClaimsSound' /\ SteadyMatches' /\ DeliveredMeansReceived' /\ HandledSafely'
      BY <1>5, <1>m DEF Ack, TypeOK, ClaimsSound, SteadyMatches, Matching, DeliveredMeansReceived, HandledSafely
    <2>2. NoEventLost'
      BY <1>5, <1>m DEF Ack, TypeOK, NoEventLost, HandledSafely
    <2> QED
      BY <2>1, <2>2
  <1>6. CASE Redeliver
    BY <1>6 DEF Redeliver, Fault, TypeOK, ClaimsSound, SteadyMatches, Matching, DeliveredMeansReceived,
       HandledSafely, NoEventLost
  <1> QED
    BY <1>1, <1>2, <1>3, <1>4, <1>5, <1>6 DEF Consume

\* A step of a dispatcher keeps what it does not write, and no row disappears.
LEMMA DispatcherFrame ==
    ASSUME WebhookInvariant,
           UNCHANGED <<subscriptions, stream, handling, steady>>,
           \A k \in Ids : deliveries[k] # None => deliveries'[k] # None,
           TypeOK', ClaimsSound', DeliveredMeansReceived'
    PROVE  WebhookInvariant'
  <1> USE DEF WebhookInvariant
  <1>1. SteadyMatches'
    BY DEF SteadyMatches, Matching
  <1>2. \A e \in Readable : \A s \in steady[e] : <<s, e>> \in Ids
    BY DEF TypeOK, Ids
  <1>3. HandledSafely'
    <2> handling # None => handling.event \in Readable
      BY DEF TypeOK, Message
    <2> QED
      BY <1>2 DEF HandledSafely
  <1>4. NoEventLost'
    BY <1>2 DEF NoEventLost
  <1> QED
    BY <1>1, <1>3, <1>4

\* The claims of a dispatcher are typed.
LEMMA ClaimType ==
    ASSUME TypeOK, NEW d \in Dispatchers, NEW c \in batch[d]
    PROVE  c \in ClaimedDelivery /\ c.id \in Ids /\ c.attempts \in Nat
  BY DEF TypeOK, ClaimedDelivery

\* Claiming leases rows that exist and keeps their status and attempts.
LEMMA ClaimEffect ==
    ASSUME WebhookInvariant, NEW d \in Dispatchers, ClaimDue(d)
    PROVE  \E S \in SUBSET Ids :
              /\ \A k \in S : Due(k)
              /\ batch' = [batch EXCEPT ![d] =
                    {[id |-> k, attempts |-> deliveries[k].attempts, phase |-> "send"] : k \in S}]
              /\ deliveries' \in [Ids -> Delivery \cup {None}]
              /\ \A k \in Ids \ S : deliveries'[k] = deliveries[k]
              /\ \A k \in S : /\ deliveries'[k] # None
                             /\ deliveries'[k].status = deliveries[k].status
                             /\ deliveries'[k].attempts = deliveries[k].attempts
                             /\ ~deliveries'[k].due
  <1>1. PICK S \in SUBSET {k \in Ids : Due(k)} :
          /\ deliveries' = [k \in Ids |->
                IF k \in S THEN [deliveries[k] EXCEPT !.due = FALSE] ELSE deliveries[k]]
          /\ batch' = [batch EXCEPT ![d] =
                {[id |-> k, attempts |-> deliveries[k].attempts, phase |-> "send"] : k \in S}]
    BY DEF ClaimDue
  <1>2. \A k \in S : deliveries[k] \in Delivery
    BY DEF Due, WebhookInvariant, TypeOK
  <1>3. \A k \in S : LET b == [deliveries[k] EXCEPT !.due = FALSE]
                     IN  /\ b \in Delivery
                         /\ b.status = deliveries[k].status
                         /\ b.attempts = deliveries[k].attempts
                         /\ ~b.due
    BY <1>2 DEF Delivery
  <1>4. deliveries' \in [Ids -> Delivery \cup {None}]
    BY <1>1, <1>3 DEF WebhookInvariant, TypeOK
  <1>5. \A k \in S : deliveries'[k] = [deliveries[k] EXCEPT !.due = FALSE] /\ deliveries'[k] # None
    BY <1>1, <1>3, NoneAssumption
  <1> QED
    BY <1>1, <1>3, <1>4, <1>5

\* ClaimDue keeps the invariant.
LEMMA ClaimKeeps ==
    ASSUME WebhookInvariant, NEW d \in Dispatchers, ClaimDue(d)
    PROVE  WebhookInvariant'
  <1> PICK S \in SUBSET Ids :
        /\ \A k \in S : Due(k)
        /\ batch' = [batch EXCEPT ![d] =
              {[id |-> k, attempts |-> deliveries[k].attempts, phase |-> "send"] : k \in S}]
        /\ deliveries' \in [Ids -> Delivery \cup {None}]
        /\ \A k \in Ids \ S : deliveries'[k] = deliveries[k]
        /\ \A k \in S : /\ deliveries'[k] # None
                       /\ deliveries'[k].status = deliveries[k].status
    BY ClaimEffect
  <1>1. UNCHANGED <<subscriptions, stream, handling, requeues, faults, steady, received, failures>>
    BY DEF ClaimDue
  <1>2. \A k \in S : deliveries[k] \in Delivery
    BY DEF Due, WebhookInvariant, TypeOK
  <1>3. {[id |-> k, attempts |-> deliveries[k].attempts, phase |-> "send"] : k \in S} \subseteq ClaimedDelivery
    BY <1>2 DEF ClaimedDelivery, Delivery
  <1>4. TypeOK'
    BY <1>1, <1>3 DEF WebhookInvariant, TypeOK
  <1>5. ClaimsSound'
    <2> SUFFICES ASSUME NEW f \in Dispatchers, NEW c \in batch'[f]
                 PROVE  deliveries'[c.id] # None /\ (c.phase = "accepted" => c.id \in received')
      BY DEF ClaimsSound
    <2>1. CASE f = d
      <3> PICK k \in S : c = [id |-> k, attempts |-> deliveries[k].attempts, phase |-> "send"]
        BY <2>1 DEF WebhookInvariant, TypeOK
      <3> QED
        OBVIOUS
    <2>2. CASE f # d
      <3> c \in batch[f] /\ c.id \in Ids
        BY <2>2, ClaimType DEF WebhookInvariant, TypeOK
      <3> QED
        BY <1>1 DEF WebhookInvariant, ClaimsSound
    <2> QED
      BY <2>1, <2>2
  <1>6. DeliveredMeansReceived'
    BY <1>1 DEF WebhookInvariant, DeliveredMeansReceived, Due
  <1> QED
    BY <1>1, <1>4, <1>5, <1>6, DispatcherFrame

\* One goroutine's step: the POST, or the record of its outcome.
LEMMA ProcessKeeps ==
    ASSUME WebhookInvariant, NEW d \in Dispatchers, NEW c \in batch[d],
           \/ \E answered \in BOOLEAN, phase \in {"accepted", "refused"} : Send(d, c, answered, phase)
           \/ MarkDelivered(d, c) \/ MarkFailed(d, c) \/ MarkLost(d, c)
    PROVE  WebhookInvariant'
  <1> USE DEF WebhookInvariant
  <1>t. c \in ClaimedDelivery /\ c.id \in Ids /\ c.attempts \in Nat
    BY ClaimType
  <1>r. deliveries[c.id] \in Delivery /\ deliveries[c.id] # None
    BY <1>t DEF ClaimsSound, TypeOK
  <1>u. UNCHANGED <<subscriptions, stream, handling, steady>>
    BY DEF Send, MarkDelivered, MarkFailed, MarkLost
  <1>1. ASSUME NEW answered \in BOOLEAN, NEW phase \in {"accepted", "refused"}, Send(d, c, answered, phase)
        PROVE  WebhookInvariant'
    <2> DEFINE n == [c EXCEPT !.phase = phase]
    <2>1. n \in ClaimedDelivery /\ n.id = c.id /\ n.phase = phase
      BY <1>t DEF ClaimedDelivery
    <2>2. /\ received \subseteq received' /\ received' \in SUBSET Ids
          /\ phase = "accepted" => c.id \in received'
          /\ deliveries' = deliveries /\ requeues' = requeues /\ faults' = faults
          /\ batch' = [batch EXCEPT ![d] = (@ \ {c}) \cup {n}]
      BY <1>1, <1>t DEF Send, TypeOK
    <2>3. failures' \in [Ids -> Nat]
      BY <1>1, <1>t DEF Send, TypeOK
    <2>4. TypeOK'
      BY <1>u, <2>1, <2>2, <2>3 DEF TypeOK
    <2>5. ClaimsSound'
      BY <1>r, <2>1, <2>2 DEF ClaimsSound, TypeOK
    <2>6. DeliveredMeansReceived'
      BY <2>2 DEF DeliveredMeansReceived
    <2> QED
      BY <1>u, <2>2, <2>4, <2>5, <2>6, DispatcherFrame
  <1>2. CASE MarkDelivered(d, c)
    <2> DEFINE b == [deliveries[c.id] EXCEPT !.status = "delivered"]
    <2>1. b \in Delivery /\ b # None
      BY <1>r, NoneAssumption DEF Delivery
    <2>2. /\ deliveries' = [deliveries EXCEPT ![c.id] = b]
          /\ batch' = [batch EXCEPT ![d] = @ \ {c}]
          /\ UNCHANGED <<requeues, faults, received, failures>>
          /\ c.phase = "accepted"
      BY <1>2 DEF MarkDelivered
    <2>3. \A k \in Ids : deliveries[k] # None => deliveries'[k] # None
      BY <1>t, <2>1, <2>2 DEF TypeOK
    <2>4. TypeOK'
      BY <1>t, <1>u, <2>1, <2>2 DEF TypeOK
    <2>5. ClaimsSound'
      BY <2>2, <2>3, ClaimType DEF ClaimsSound, TypeOK
    <2>6. DeliveredMeansReceived'
      BY <1>t, <2>2 DEF DeliveredMeansReceived, ClaimsSound, TypeOK
    <2> QED
      BY <1>u, <2>3, <2>4, <2>5, <2>6, DispatcherFrame
  <1>3. CASE MarkFailed(d, c)
    <2> DEFINE b == [status |-> IF IsDead(c.attempts + 1) THEN "dead" ELSE "failed",
                     attempts |-> c.attempts + 1,
                     due |-> IsDead(c.attempts + 1)]
    <2>1. b \in Delivery /\ b # None /\ b.status # "delivered"
      <3> IsDead(c.attempts + 1) \in BOOLEAN
        BY DEF IsDead
      <3> QED
        BY <1>t, NoneAssumption DEF Delivery
    <2>2. /\ deliveries' = [deliveries EXCEPT ![c.id] = b]
          /\ batch' = [batch EXCEPT ![d] = @ \ {c}]
          /\ UNCHANGED <<requeues, faults, received, failures>>
      BY <1>3 DEF MarkFailed
    <2> HIDE DEF b
    <2>3. \A k \in Ids : deliveries[k] # None => deliveries'[k] # None
      BY <1>t, <2>1, <2>2 DEF TypeOK
    <2>4. TypeOK'
      BY <1>t, <1>u, <2>1, <2>2 DEF TypeOK
    <2>5. ClaimsSound'
      BY <2>2, <2>3, ClaimType DEF ClaimsSound, TypeOK
    <2>6. DeliveredMeansReceived'
      BY <1>t, <2>1, <2>2 DEF DeliveredMeansReceived, TypeOK
    <2> QED
      BY <1>u, <2>3, <2>4, <2>5, <2>6, DispatcherFrame
  <1>4. CASE MarkLost(d, c)
    <2>1. TypeOK' /\ ClaimsSound' /\ DeliveredMeansReceived'
      BY <1>4, <1>u DEF MarkLost, Fault, TypeOK, ClaimsSound, DeliveredMeansReceived
    <2>2. deliveries' = deliveries
      BY <1>4 DEF MarkLost
    <2> QED
      BY <1>u, <2>1, <2>2, DispatcherFrame
  <1> QED
    BY <1>1, <1>2, <1>3, <1>4

\* A crash, the passing of time and a manual retry keep the invariant.
LEMMA OthersKeep ==
    ASSUME WebhookInvariant,
           \/ \E d \in Dispatchers : DispatcherCrash(d)
           \/ \E k \in Ids : Elapse(k) \/ Requeue(k)
    PROVE  WebhookInvariant'
  <1> USE DEF WebhookInvariant
  <1>1. CASE \E d \in Dispatchers : DispatcherCrash(d)
    <2> PICK d \in Dispatchers : DispatcherCrash(d)
      BY <1>1
    <2>1. TypeOK' /\ ClaimsSound' /\ DeliveredMeansReceived'
      BY DEF DispatcherCrash, Fault, TypeOK, ClaimsSound, DeliveredMeansReceived
    <2>2. UNCHANGED <<subscriptions, deliveries, stream, handling, steady>>
      BY DEF DispatcherCrash
    <2> QED
      BY <2>1, <2>2, DispatcherFrame
  <1>2. CASE \E k \in Ids : Elapse(k) \/ Requeue(k)
    <2> PICK k \in Ids : Elapse(k) \/ Requeue(k)
      BY <1>2
    <2>1. PICK b \in Delivery :
            /\ deliveries' = [deliveries EXCEPT ![k] = b]
            /\ b.status = "delivered" => deliveries[k].status = "delivered"
      <3>1. deliveries[k] \in Delivery
        BY DEF Elapse, Requeue, TypeOK
      <3>2. CASE Elapse(k)
        <4> DEFINE b == [deliveries[k] EXCEPT !.due = TRUE]
        <4>1. b \in Delivery /\ b.status = deliveries[k].status
          BY <3>1 DEF Delivery
        <4>2. deliveries' = [deliveries EXCEPT ![k] = b]
          BY <3>2 DEF Elapse
        <4> QED
          BY <4>1, <4>2
      <3>3. CASE Requeue(k)
        <4> Pending \in Delivery
          BY DEF Pending, Delivery
        <4> WITNESS Pending \in Delivery
        <4> QED
          BY <3>3 DEF Requeue, Pending
      <3> QED
        BY <3>2, <3>3
    <2>2. /\ UNCHANGED <<subscriptions, stream, handling, batch, faults, steady, received>>
          /\ requeues' \in Nat
          /\ failures' \in [Ids -> Nat]
          /\ deliveries[k] # None
      BY DEF Elapse, Requeue, TypeOK
    <2>3. b # None
      BY NoneAssumption
    <2>4. \A j \in Ids : deliveries[j] # None => deliveries'[j] # None
      BY <2>1, <2>3 DEF TypeOK
    <2>5. TypeOK'
      BY <2>1, <2>2 DEF TypeOK
    <2>6. ClaimsSound'
      BY <2>2, <2>4, ClaimType DEF ClaimsSound
    <2>7. DeliveredMeansReceived'
      BY <2>1, <2>2 DEF DeliveredMeansReceived, TypeOK
    <2> QED
      BY <2>2, <2>4, <2>5, <2>6, <2>7, DispatcherFrame
  <1> QED
    BY <1>1, <1>2

\* The invariant is inductive: one case for each kind of step.
LEMMA StepKeeps == WebhookInvariant /\ [Next]_vars => WebhookInvariant'
  <1> SUFFICES ASSUME WebhookInvariant, [Next]_vars
               PROVE  WebhookInvariant'
    OBVIOUS
  <1>1. CASE \E s \in Subs, types \in TypeLists :
                \/ CreateSubscription(s, types)
                \/ \E active \in BOOLEAN : UpdateSubscription(s, types, active)
    BY <1>1, SubscriptionKeeps
  <1>2. CASE \E e \in Events : Publish(e)
    BY <1>2, PublishKeeps
  <1>3. CASE Consume \/ Redeliver \/ \E e \in Events : Discard(e) \/ Handle(e)
    BY <1>3, ConsumerKeeps
  <1>4. CASE \E d \in Dispatchers : ClaimDue(d)
    BY <1>4, ClaimKeeps
  <1>5. CASE \E d \in Dispatchers, k \in Ids : Process(d, k)
    BY <1>5, ProcessKeeps DEF Process
  <1>6. CASE \E d \in Dispatchers : \E c \in batch[d] : MarkLost(d, c)
    BY <1>6, ProcessKeeps
  <1>7. CASE (\E d \in Dispatchers : DispatcherCrash(d)) \/ (\E k \in Ids : Elapse(k) \/ Requeue(k))
    BY <1>7, OthersKeep
  <1>8. CASE UNCHANGED vars
    BY <1>8 DEF vars, WebhookInvariant, TypeOK, ClaimsSound, SteadyMatches, Matching, HandledSafely,
       NoEventLost, DeliveredMeansReceived
  <1> QED
    BY <1>1, <1>2, <1>3, <1>4, <1>5, <1>6, <1>7, <1>8 DEF Next

\* The inductive invariant holds in every behaviour of the webhooks service.
THEOREM WebhookInvariantHolds == Spec => []WebhookInvariant
  BY InitHolds, StepKeeps, PTL DEF Spec

\* Type correctness: the tables, messages and batches keep their shapes.
THEOREM WebhookTypeCorrect == Spec => []TypeOK
  <1>1. WebhookInvariant => TypeOK
    BY DEF WebhookInvariant
  <1> QED
    BY <1>1, WebhookInvariantHolds, PTL

\* At-least-once up to the table: no acked event is missing a delivery of a
\* subscription that has matched it since it was published, for any number of
\* redeliveries, patches, errors and crashes (EnqueueEnvelope, handle).
THEOREM EventsAreNeverLost == Spec => []NoEventLost
  <1>1. WebhookInvariant => NoEventLost
    BY DEF WebhookInvariant
  <1> QED
    BY <1>1, WebhookInvariantHolds, PTL

\* A delivery recorded as delivered was accepted by its endpoint, for any number
\* of dispatchers, late writers and manual retries (process, MarkDelivered).
THEOREM DeliveredWasReceived == Spec => []DeliveredMeansReceived
  <1>1. WebhookInvariant => DeliveredMeansReceived
    BY DEF WebhookInvariant
  <1> QED
    BY <1>1, WebhookInvariantHolds, PTL

(***************************************************************************)
(* While nobody retries by hand, and batches end in time.                  *)
(***************************************************************************)
\* k has had n failed POSTs, or MaxAttempts of them.
Failed(k, n) == failures[k] >= n \/ failures[k] >= MaxAttempts

\* attempts never runs ahead of the failed POSTs.
CountsFailures ==
    /\ \A k \in Ids : deliveries[k] # None =>
          /\ Failed(k, deliveries[k].attempts)
          /\ deliveries[k].status = "dead" => deliveries[k].attempts >= MaxAttempts
    /\ \A d \in Dispatchers : \A c \in batch[d] : c.phase = "refused" => Failed(c.id, c.attempts + 1)

\* The inductive invariant, with the one above
QuietInvariant == WebhookInvariant /\ LeasesHold /\ CountsFailures

\* A step that leaves deliveries, batches and failures alone
LEMMA QuietFrame ==
    ASSUME QuietInvariant, UNCHANGED <<deliveries, batch, failures>>
    PROVE  LeasesHold' /\ CountsFailures'
  BY DEF QuietInvariant, LeasesHold, CountsFailures, Failed

\* InsertPending touches no row that a dispatcher has claimed.
LEMMA QuietInsert ==
    ASSUME QuietInvariant, InsertPending
    PROVE  LeasesHold' /\ CountsFailures'
  <1> USE DEF QuietInvariant
  <1>1. /\ \A k \in Ids : deliveries[k] # None => deliveries'[k] = deliveries[k]
        /\ \A k \in Ids : deliveries[k] = None /\ deliveries'[k] # None => deliveries'[k] = Pending
        /\ UNCHANGED <<batch, failures>>
    BY DEF InsertPending
  <1>2. \A d \in Dispatchers : \A c \in batch[d] : deliveries'[c.id] = deliveries[c.id]
    BY <1>1, ClaimType DEF LeasesHold, WebhookInvariant
  <1>3. LeasesHold'
    BY <1>1, <1>2 DEF LeasesHold
  <1>4. \A k \in Ids : failures[k] >= 0
    BY DEF WebhookInvariant, TypeOK
  <1>5. CountsFailures'
    BY <1>1, <1>4 DEF CountsFailures, Failed, Pending
  <1> QED
    BY <1>3, <1>5

\* A claim takes rows that nobody has, and reads their attempts.
LEMMA QuietClaim ==
    ASSUME QuietInvariant, NEW d \in Dispatchers, ClaimDue(d)
    PROVE  LeasesHold' /\ CountsFailures'
  <1> USE DEF QuietInvariant
  <1> DEFINE claim(k) == [id |-> k, attempts |-> deliveries[k].attempts, phase |-> "send"]
  <1>1. PICK S \in SUBSET Ids :
              /\ \A k \in S : Due(k)
              /\ batch' = [batch EXCEPT ![d] = {claim(k) : k \in S}]
              /\ \A k \in Ids \ S : deliveries'[k] = deliveries[k]
              /\ \A k \in S : /\ deliveries'[k] # None
                             /\ deliveries'[k].status = deliveries[k].status
                             /\ deliveries'[k].attempts = deliveries[k].attempts
                             /\ ~deliveries'[k].due
    BY ClaimEffect
  <1>2. failures' = failures
    BY DEF ClaimDue
  <1>3. \A f \in Dispatchers : \A c \in batch[f] : c.id \notin S /\ c.id \in Ids
    BY <1>1, ClaimType DEF LeasesHold, Due, WebhookInvariant
  <1>4. ASSUME NEW f \in Dispatchers, NEW c \in batch'[f]
        PROVE  \/ f = d /\ c.id \in S /\ c = claim(c.id)
               \/ f # d /\ c \in batch[f] /\ c.id \notin S /\ c.id \in Ids
    <2>1. CASE f = d
      <3> c \in {claim(k) : k \in S}
        BY <1>1, <2>1 DEF WebhookInvariant, TypeOK
      <3> QED
        BY <2>1
    <2>2. CASE f # d
      BY <1>1, <1>3, <2>2 DEF WebhookInvariant, TypeOK
    <2> QED
      BY <2>1, <2>2
  <1>5. LeasesHold'
    <2>1. ASSUME NEW f \in Dispatchers, NEW c \in batch'[f]
          PROVE  /\ deliveries'[c.id] # None
                 /\ deliveries'[c.id].status \in {"pending", "failed"}
                 /\ deliveries'[c.id].attempts = c.attempts
                 /\ ~deliveries'[c.id].due
      <3>1. CASE f = d /\ c.id \in S /\ c = claim(c.id)
        BY <1>1, <3>1 DEF Due
      <3>2. CASE f # d /\ c \in batch[f] /\ c.id \notin S /\ c.id \in Ids
        BY <1>1, <3>2 DEF LeasesHold
      <3> QED
        BY <1>4, <3>1, <3>2
    <2>2. ASSUME NEW f \in Dispatchers, NEW g \in Dispatchers, NEW c \in batch'[f], NEW h \in batch'[g],
                 c.id = h.id
          PROVE  f = g /\ c = h
      <3> HIDE DEF claim
      <3> QED
        BY <1>4, <2>2 DEF LeasesHold
    <2> QED
      BY <2>1, <2>2 DEF LeasesHold
  <1>6. CountsFailures'
    <2>1. ASSUME NEW k \in Ids, deliveries'[k] # None
          PROVE  /\ Failed(k, deliveries[k].attempts)
                 /\ deliveries'[k].attempts = deliveries[k].attempts
                 /\ deliveries'[k].status = "dead" => deliveries'[k].attempts >= MaxAttempts
      <3> deliveries[k] # None
        BY <1>1, <2>1 DEF Due
      <3> QED
        BY <1>1, <2>1 DEF CountsFailures
    <2>2. ASSUME NEW f \in Dispatchers, NEW c \in batch'[f], c.phase = "refused"
          PROVE  Failed(c.id, c.attempts + 1)
      <3> c \in batch[f]
        BY <1>4, <2>2
      <3> QED
        BY <2>2 DEF CountsFailures
    <2> QED
      BY <1>2, <2>1, <2>2 DEF CountsFailures, Failed
  <1> QED
    BY <1>5, <1>6

\* A POST changes its own claim's phase, and a refused one is counted.
LEMMA QuietSend ==
    ASSUME QuietInvariant, NEW d \in Dispatchers, NEW c \in batch[d],
           NEW answered \in BOOLEAN, NEW phase \in {"accepted", "refused"}, Send(d, c, answered, phase)
    PROVE  LeasesHold' /\ CountsFailures'
  <1> USE DEF QuietInvariant
  <1> DEFINE n == [c EXCEPT !.phase = phase]
  <1>1. n.id = c.id /\ n.attempts = c.attempts /\ n.phase = phase /\ c.id \in Ids /\ c.attempts \in Nat
    BY ClaimType DEF ClaimedDelivery, WebhookInvariant
  <1>2. deliveries' = deliveries /\ batch' = [batch EXCEPT ![d] = (@ \ {c}) \cup {n}]
    BY DEF Send
  <1> HIDE DEF n
  <1>3. ASSUME NEW f \in Dispatchers, NEW x \in batch'[f]
        PROVE  \/ x = n /\ f = d
               \/ x \in batch[f] /\ x.id # c.id
    <2>1. CASE f = d
      <3>1. x \in (batch[d] \ {c}) \cup {n}
        BY <1>2, <2>1 DEF WebhookInvariant, TypeOK
      <3>2. x # n => x \in batch[d] /\ x.id # c.id
        BY <3>1 DEF LeasesHold
      <3> QED
        BY <2>1, <3>2
    <2>2. CASE f # d
      BY <1>1, <1>2, <2>2 DEF WebhookInvariant, TypeOK, LeasesHold
    <2> QED
      BY <2>1, <2>2
  <1>4. LeasesHold'
    BY <1>1, <1>2, <1>3 DEF LeasesHold
  <1>5. /\ \A k \in Ids : failures'[k] >= failures[k]
        /\ phase = "refused" => failures'[c.id] >= failures[c.id] + 1 \/ failures'[c.id] >= MaxAttempts
        /\ failures \in [Ids -> Nat] /\ failures' \in [Ids -> Nat]
    BY <1>1, WebhookAssumption DEF Send, WebhookInvariant, TypeOK
  <1>6. \A k \in Ids : deliveries[k] # None => deliveries[k].attempts \in Nat
    BY DEF WebhookInvariant, TypeOK, Delivery
  <1>7. ASSUME NEW k \in Ids, deliveries[k] # None
        PROVE  Failed(k, deliveries[k].attempts)'
    <2> Failed(k, deliveries[k].attempts)
      BY <1>7 DEF CountsFailures
    <2> QED
      BY <1>2, <1>5, <1>6, <1>7, WebhookAssumption DEF Failed
  <1>8. ASSUME NEW f \in Dispatchers, NEW x \in batch'[f], x.phase = "refused"
        PROVE  failures'[x.id] >= x.attempts + 1 \/ failures'[x.id] >= MaxAttempts
    <2>1. CASE x = n /\ f = d
      <3> Failed(c.id, c.attempts)
        BY <1>1 DEF CountsFailures, LeasesHold
      <3> QED
        BY <1>1, <1>5, <1>8, <2>1, WebhookAssumption DEF Failed
    <2>2. CASE x \in batch[f]
      <3> x.id \in Ids /\ x.attempts \in Nat /\ Failed(x.id, x.attempts + 1)
        BY <1>8, <2>2, ClaimType DEF CountsFailures, WebhookInvariant
      <3> QED
        BY <1>5, WebhookAssumption DEF Failed
    <2> QED
      BY <1>3, <2>1, <2>2
  <1>9. CountsFailures'
    BY <1>2, <1>7, <1>8 DEF CountsFailures, Failed
  <1> QED
    BY <1>4, <1>9

\* A claim that ends, with or without a record, leaves only its own row changed.
LEMMA QuietEnd ==
    ASSUME QuietInvariant, NEW d \in Dispatchers, NEW c \in batch[d],
           MarkDelivered(d, c) \/ MarkFailed(d, c) \/ MarkLost(d, c)
    PROVE  LeasesHold' /\ CountsFailures'
  <1> USE DEF QuietInvariant
  <1>1. c.id \in Ids /\ c.attempts \in Nat /\ deliveries[c.id] \in Delivery
    BY ClaimType DEF WebhookInvariant, TypeOK, LeasesHold
  <1>2. /\ batch' = [batch EXCEPT ![d] = @ \ {c}]
        /\ failures' = failures
        /\ \A k \in Ids : k # c.id => deliveries'[k] = deliveries[k]
    BY <1>1 DEF MarkDelivered, MarkFailed, MarkLost, WebhookInvariant, TypeOK
  <1>3. \A f \in Dispatchers : \A x \in batch'[f] : x \in batch[f] /\ x.id # c.id /\ x.id \in Ids
    BY <1>2, ClaimType DEF WebhookInvariant, TypeOK, LeasesHold
  <1>4. LeasesHold'
    BY <1>2, <1>3 DEF LeasesHold
  <1>5. /\ Failed(c.id, deliveries'[c.id].attempts)
        /\ deliveries'[c.id].status = "dead" => deliveries'[c.id].attempts >= MaxAttempts
    <2>0. /\ Failed(c.id, deliveries[c.id].attempts)
          /\ deliveries[c.id].status \in {"pending", "failed"}
      BY <1>1 DEF CountsFailures, LeasesHold
    <2>1. CASE MarkDelivered(d, c)
      <3> DEFINE b == [deliveries[c.id] EXCEPT !.status = "delivered"]
      <3>1. b.attempts = deliveries[c.id].attempts /\ b.status = "delivered"
        BY <1>1 DEF Delivery
      <3>2. deliveries'[c.id] = b
        BY <1>1, <2>1 DEF MarkDelivered, WebhookInvariant, TypeOK
      <3> QED
        BY <2>0, <3>1, <3>2
    <2>2. CASE MarkFailed(d, c)
      <3>1. /\ deliveries'[c.id].attempts = c.attempts + 1
            /\ deliveries'[c.id].status = "dead" => IsDead(c.attempts + 1)
        BY <1>1, <2>2 DEF MarkFailed, WebhookInvariant, TypeOK
      <3>2. Failed(c.id, c.attempts + 1)
        BY <2>2 DEF CountsFailures, MarkFailed
      <3> QED
        BY <3>1, <3>2 DEF IsDead
    <2>3. CASE MarkLost(d, c)
      BY <2>0, <2>3 DEF MarkLost
    <2> QED
      BY <2>1, <2>2, <2>3
  <1>6. CountsFailures'
    <2>1. ASSUME NEW k \in Ids, deliveries'[k] # None
          PROVE  /\ Failed(k, deliveries'[k].attempts)
                 /\ deliveries'[k].status = "dead" => deliveries'[k].attempts >= MaxAttempts
      BY <1>2, <1>5, <2>1 DEF CountsFailures
    <2>2. \A f \in Dispatchers : \A x \in batch'[f] : x.phase = "refused" => Failed(x.id, x.attempts + 1)
      BY <1>3 DEF CountsFailures
    <2> QED
      BY <1>2, <2>1, <2>2 DEF CountsFailures, Failed
  <1> QED
    BY <1>4, <1>6

\* A crash drops claims; time ends no lease that is in use.
LEMMA QuietOthers ==
    ASSUME QuietInvariant, Timely,
           (\E d \in Dispatchers : DispatcherCrash(d)) \/ (\E k \in Ids : Elapse(k))
    PROVE  LeasesHold' /\ CountsFailures'
  <1> USE DEF QuietInvariant
  <1>1. CASE \E d \in Dispatchers : DispatcherCrash(d)
    <2> PICK d \in Dispatchers : DispatcherCrash(d)
      BY <1>1
    <2>1. UNCHANGED <<deliveries, failures>> /\ \A f \in Dispatchers : batch'[f] \subseteq batch[f]
      BY DEF DispatcherCrash, WebhookInvariant, TypeOK
    <2> QED
      BY <2>1 DEF LeasesHold, CountsFailures, Failed
  <1>2. CASE \E k \in Ids : Elapse(k)
    <2> PICK k \in Ids : Elapse(k)
      BY <1>2
    <2>1. deliveries[k] \in Delivery
      BY DEF Elapse, WebhookInvariant, TypeOK
    <2> DEFINE b == [deliveries[k] EXCEPT !.due = TRUE]
    <2>2. b.status = deliveries[k].status /\ b.attempts = deliveries[k].attempts
      BY <2>1 DEF Delivery
    <2>3. /\ deliveries'[k] = b
          /\ \A j \in Ids : j # k => deliveries'[j] = deliveries[j]
          /\ UNCHANGED <<batch, failures>>
          /\ ~InFlight(k)
      BY DEF Elapse, WebhookInvariant, TypeOK
    <2>4. LeasesHold'
      BY <2>3, ClaimType DEF LeasesHold, InFlight, WebhookInvariant
    <2>5. deliveries[k] # None
      BY DEF Elapse
    <2> HIDE DEF b
    <2>6. CountsFailures'
      BY <2>2, <2>3, <2>5 DEF CountsFailures, Failed
    <2> QED
      BY <2>4, <2>6
  <1> QED
    BY <1>1, <1>2

\* The quiet invariant is inductive.
LEMMA QuietStep ==
    ASSUME Timely, MaxRequeues = 0, QuietInvariant, requeues \in Nat, [Next]_vars
    PROVE  QuietInvariant'
  <1>0. WebhookInvariant'
    BY StepKeeps DEF QuietInvariant
  <1>1. CASE UNCHANGED <<deliveries, batch, failures>>
    BY <1>0, <1>1, QuietFrame DEF QuietInvariant
  <1>2. CASE InsertPending
    BY <1>0, <1>2, QuietInsert DEF QuietInvariant
  <1>3. CASE \E d \in Dispatchers : ClaimDue(d)
    BY <1>0, <1>3, QuietClaim DEF QuietInvariant
  <1>4. CASE \E d \in Dispatchers, k \in Ids : Process(d, k)
    BY <1>0, <1>4, QuietSend, QuietEnd DEF QuietInvariant, Process
  <1>5. CASE \E d \in Dispatchers : \E c \in batch[d] : MarkLost(d, c)
    BY <1>0, <1>5, QuietEnd DEF QuietInvariant
  <1>6. CASE (\E d \in Dispatchers : DispatcherCrash(d)) \/ (\E k \in Ids : Elapse(k))
    BY <1>0, <1>6, QuietOthers DEF QuietInvariant
  <1>7. ~(\E k \in Ids : Requeue(k))
    BY DEF Requeue
  <1> QED
    BY <1>1, <1>2, <1>3, <1>4, <1>5, <1>6, <1>7
    DEF Next, vars, Consume, CreateSubscription, UpdateSubscription, Publish, Discard, Handle,
        ListActive, Ack, Redeliver

\* The quiet invariant holds.
LEMMA QuietHolds ==
    ASSUME Timely, MaxRequeues = 0
    PROVE  Spec => []QuietInvariant
  <1>1. Init => QuietInvariant
    <2>1. Init => LeasesHold /\ CountsFailures
      BY DEF Init, LeasesHold, CountsFailures
    <2> QED
      BY <2>1, InitHolds DEF QuietInvariant
  <1>2. QuietInvariant /\ [Next]_vars => QuietInvariant'
    <2> QuietInvariant => requeues \in Nat
      BY DEF QuietInvariant, WebhookInvariant, TypeOK
    <2> QED
      BY QuietStep
  <1> QED
    BY <1>1, <1>2, PTL DEF Spec

\* For any number of dispatchers, crashes and lost outcomes, while nobody retries
\* by hand: a claim is exclusive and what it read stays so until it is recorded.
THEOREM LeasesAlwaysHold ==
    ASSUME Timely, MaxRequeues = 0
    PROVE  Spec => []LeasesHold
  <1>1. QuietInvariant => LeasesHold
    BY DEF QuietInvariant
  <1> QED
    BY <1>1, QuietHolds, PTL

\* Then a claimed delivery is never sent twice at once (docs/concurrency.md).
THEOREM NeverDoubleSent ==
    ASSUME Timely, MaxRequeues = 0
    PROVE  Spec => []NoDoubleSend
  <1>1. QuietInvariant => NoDoubleSend
    BY DEF QuietInvariant, LeasesHold, NoDoubleSend
  <1> QED
    BY <1>1, QuietHolds, PTL

\* Then a delivery is declared dead only after MaxAttempts failed POSTs.
THEOREM DeadIsExhausted ==
    ASSUME Timely, MaxRequeues = 0
    PROVE  Spec => []DeadMeansExhausted
  <1>1. QuietInvariant => DeadMeansExhausted
    <2> SUFFICES ASSUME QuietInvariant, NEW k \in Ids, deliveries[k] # None, deliveries[k].status = "dead"
                 PROVE  failures[k] >= MaxAttempts
      BY DEF DeadMeansExhausted
    <2>1. Failed(k, deliveries[k].attempts) /\ deliveries[k].attempts >= MaxAttempts
      BY DEF QuietInvariant, CountsFailures
    <2>2. failures[k] \in Nat /\ deliveries[k].attempts \in Nat
      BY DEF QuietInvariant, WebhookInvariant, TypeOK, Delivery
    <2> QED
      BY <2>1, <2>2, WebhookAssumption DEF Failed
  <1> QED
    BY <1>1, QuietHolds, PTL

\* Then delivered is final: no late writer takes it back.
THEOREM DeliveredStaysDelivered ==
    ASSUME Timely, MaxRequeues = 0
    PROVE  Spec => DeliveredIsFinal
  <1>1. QuietInvariant /\ [Next]_vars => [StaysDelivered]_vars
    <2> SUFFICES ASSUME QuietInvariant, Next, NEW k \in Ids,
                        deliveries[k] # None, deliveries[k].status = "delivered"
                 PROVE  deliveries'[k] # None /\ deliveries'[k].status = "delivered"
      BY DEF StaysDelivered
    <2> USE DEF QuietInvariant
    <2>1. CASE UNCHANGED deliveries
      BY <2>1
    <2>2. CASE InsertPending
      BY <2>2 DEF InsertPending
    <2>3. CASE \E d \in Dispatchers : ClaimDue(d)
      BY <2>3 DEF ClaimDue, Due
    <2>4. CASE \E d \in Dispatchers, j \in Ids : Process(d, j)
      <3> PICK d \in Dispatchers, j \in Ids : Process(d, j)
        BY <2>4
      <3> PICK c \in batch[d] :
             \/ \E answered \in BOOLEAN, phase \in {"accepted", "refused"} : Send(d, c, answered, phase)
             \/ MarkDelivered(d, c) \/ MarkFailed(d, c)
        BY DEF Process
      <3>1. c.id # k
        BY DEF LeasesHold
      <3> QED
        BY <3>1 DEF Send, MarkDelivered, MarkFailed, WebhookInvariant, TypeOK
    <2>5. CASE \E j \in Ids : Elapse(j)
      <3> PICK j \in Ids : Elapse(j)
        BY <2>5
      <3>1. CASE j # k
        BY <3>1 DEF Elapse, WebhookInvariant, TypeOK
      <3>2. CASE j = k
        <4> DEFINE b == [deliveries[k] EXCEPT !.due = TRUE]
        <4>1. b \in Delivery /\ b.status = "delivered"
          BY DEF WebhookInvariant, TypeOK, Delivery
        <4>2. deliveries'[k] = b
          BY <3>2 DEF Elapse, WebhookInvariant, TypeOK
        <4> QED
          BY <4>1, <4>2, NoneAssumption
      <3> QED
        BY <3>1, <3>2
    <2>6. CASE \E j \in Ids : Requeue(j)
      BY <2>6 DEF Requeue, WebhookInvariant, TypeOK
    <2> QED
      BY <2>1, <2>2, <2>3, <2>4, <2>5, <2>6
      DEF Next, Consume, CreateSubscription, UpdateSubscription, Publish, Discard, Handle,
          ListActive, Ack, Redeliver, MarkLost, DispatcherCrash
  <1> QED
    BY <1>1, QuietHolds, PTL DEF Spec, DeliveredIsFinal

\* Then no redelivered event and no late writer resets a delivery's progress.
THEOREM ProgressIsAlwaysKept ==
    ASSUME Timely, MaxRequeues = 0
    PROVE  Spec => ProgressIsKept
  <1>1. QuietInvariant /\ [Next]_vars => [KeepsProgress]_vars
    <2> SUFFICES ASSUME QuietInvariant, Next, NEW k \in Ids, deliveries[k] # None
                 PROVE  /\ deliveries'[k] # None
                        /\ deliveries'[k].status = "pending" => deliveries[k].status = "pending"
                        /\ deliveries'[k].attempts >= deliveries[k].attempts
      BY DEF KeepsProgress
    <2> USE DEF QuietInvariant
    <2>0. deliveries[k] \in Delivery /\ deliveries[k].attempts \in Nat
      BY DEF WebhookInvariant, TypeOK, Delivery
    <2>1. CASE deliveries'[k] = deliveries[k]
      BY <2>0, <2>1
    <2>2. CASE InsertPending
      BY <2>0, <2>2 DEF InsertPending
    <2>3. CASE \E d \in Dispatchers : ClaimDue(d)
      <3> PICK d \in Dispatchers : ClaimDue(d)
        BY <2>3
      <3> QED
        BY <2>0, ClaimEffect
    <2>4. CASE \E d \in Dispatchers, j \in Ids : Process(d, j)
      <3> PICK d \in Dispatchers, j \in Ids : Process(d, j)
        BY <2>4
      <3> PICK c \in batch[d] :
             \/ \E answered \in BOOLEAN, phase \in {"accepted", "refused"} : Send(d, c, answered, phase)
             \/ MarkDelivered(d, c) \/ MarkFailed(d, c)
        BY DEF Process
      <3>1. CASE c.id # k
        BY <2>0, <3>1 DEF Send, MarkDelivered, MarkFailed, WebhookInvariant, TypeOK
      <3>2. CASE c.id = k /\ MarkDelivered(d, c)
        <4> DEFINE b == [deliveries[k] EXCEPT !.status = "delivered"]
        <4>1. b \in Delivery /\ b.status = "delivered" /\ b.attempts = deliveries[k].attempts
          BY <2>0 DEF Delivery
        <4>2. deliveries'[k] = b
          BY <3>2 DEF MarkDelivered, WebhookInvariant, TypeOK
        <4> QED
          BY <2>0, <4>1, <4>2, NoneAssumption
      <3>3. CASE c.id = k /\ MarkFailed(d, c)
        <4> DEFINE b == [status |-> IF IsDead(c.attempts + 1) THEN "dead" ELSE "failed",
                         attempts |-> c.attempts + 1, due |-> IsDead(c.attempts + 1)]
        <4>1. c.attempts = deliveries[k].attempts
          BY <3>3 DEF LeasesHold
        <4>2. b \in Delivery /\ b.status # "pending" /\ b.attempts = c.attempts + 1
          <5> IsDead(c.attempts + 1) \in BOOLEAN
            BY DEF IsDead
          <5> QED
            BY <2>0, <4>1 DEF Delivery
        <4>3. deliveries'[k] = b
          BY <3>3 DEF MarkFailed, WebhookInvariant, TypeOK
        <4> HIDE DEF b
        <4> QED
          BY <2>0, <4>1, <4>2, <4>3, NoneAssumption
      <3>4. CASE \E answered \in BOOLEAN, phase \in {"accepted", "refused"} : Send(d, c, answered, phase)
        BY <2>1, <3>4 DEF Send
      <3> QED
        BY <3>1, <3>2, <3>3, <3>4
    <2>5. CASE \E j \in Ids : Elapse(j)
      <3> PICK j \in Ids : Elapse(j)
        BY <2>5
      <3>1. CASE j # k
        BY <2>1, <3>1 DEF Elapse, WebhookInvariant, TypeOK
      <3>2. CASE j = k
        <4> DEFINE b == [deliveries[k] EXCEPT !.due = TRUE]
        <4>1. b \in Delivery /\ b.status = deliveries[k].status /\ b.attempts = deliveries[k].attempts
          BY <2>0 DEF Delivery
        <4>2. deliveries'[k] = b
          BY <3>2 DEF Elapse, WebhookInvariant, TypeOK
        <4> HIDE DEF b
        <4> QED
          BY <2>0, <4>1, <4>2, NoneAssumption
      <3> QED
        BY <3>1, <3>2
    <2>6. ~(\E j \in Ids : Requeue(j))
      BY DEF Requeue, WebhookInvariant, TypeOK
    <2> QED
      BY <2>1, <2>2, <2>3, <2>4, <2>5, <2>6
      DEF Next, Consume, CreateSubscription, UpdateSubscription, Publish, Discard, Handle,
          ListActive, Ack, Redeliver, MarkLost, DispatcherCrash
  <1> QED
    BY <1>1, QuietHolds, PTL DEF Spec, ProgressIsKept
=============================================================================
