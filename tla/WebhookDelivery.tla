---------------------------- MODULE WebhookDelivery ----------------------------
(***************************************************************************)
(* The webhooks service: its JetStream consumer fans an event out into one *)
(* delivery per matching subscription, and the dispatchers of its replicas *)
(* lease the due deliveries, POST them and record the outcome.             *)
(*                                                                         *)
(* One action per database transaction and per POST.  Time is abstract: a  *)
(* delivery is due or it is not, and Elapse ends its lease or backoff.     *)
(* Tenants share nothing, so the subscriptions are one tenant's.  Secrets  *)
(* and signatures are left out.                                            *)
(***************************************************************************)
EXTENDS Integers, FiniteSets, FiniteSetsExt

CONSTANTS
    Subs,           \* subscription ids
    Events,         \* event ids
    Types,          \* event types
    TypeOf,         \* the type of each event
    TypeLists,      \* the event_types lists clients send
    Malformed,      \* the envelopes without identity
    Dispatchers,    \* one per replica of the service
    MaxAttempts,    \* domain.MaxAttempts
    BatchSize,      \* dispatcher.DefaultBatchSize
    Timely,         \* a batch always ends before a lease or a backoff does
    MaxRequeues,    \* bound: manual retries
    MaxFaults,      \* bound: crashes, database errors and lost acks
    None            \* no row

ASSUME WebhookAssumption ==
    /\ TypeOf \in [Events -> Types]
    /\ Malformed \subseteq Events
    /\ MaxAttempts \in Nat \ {0}
    /\ BatchSize \in Nat \ {0}
    /\ Timely \in BOOLEAN
    /\ MaxRequeues \in Nat /\ MaxFaults \in Nat

VARIABLES
    subscriptions,  \* the two tables
    deliveries,
    stream,         \* what JetStream keeps of each event for this consumer
    handling,       \* the message the consumer's callback is working on
    batch,          \* the claimed deliveries each dispatcher is working on
    requeues, faults,
    steady,         \* history: the subscriptions that have matched an event since it was published
    received,       \* history: the deliveries some endpoint has answered with 2xx
    failures        \* history: failed POSTs since the last requeue, up to MaxAttempts

service == <<subscriptions, deliveries, stream, handling, batch>>
vars    == <<subscriptions, deliveries, stream, handling, batch,
             requeues, faults, steady, received, failures>>

Wildcard == "*"

Readable == Events \ Malformed

\* (subscription_id, event_id), which is unique
Ids == Subs \X Readable

Subscription == [event_types : SUBSET (Types \cup {Wildcard}), active : BOOLEAN]

Delivery == [status : {"pending", "delivered", "failed", "dead"}, attempts : Nat, due : BOOLEAN]

\* One goroutine of a tick.  attempts is what ClaimDue read.
ClaimedDelivery == [id : Ids, attempts : Nat, phase : {"send", "accepted", "refused"}]

Message == [event : Readable, subs : SUBSET Subs, step : {"list", "insert", "ack"}]

ASSUME NoneAssumption == None \notin Subscription \cup Delivery \cup Message

Fault == faults < MaxFaults /\ faults' = faults + 1

ValidateEventTypes(types) == types # {} /\ types \subseteq Types \cup {Wildcard}

Matches(types, t) == Wildcard \in types \/ t \in types

\* ListActive, then the filter of EnqueueEnvelope
Matching(table, e) ==
    {s \in Subs : /\ table[s] # None
                  /\ table[s].active
                  /\ Matches(table[s].event_types, TypeOf[e])}

(***************************************************************************)
(* Subscriptions.                                                          *)
(***************************************************************************)
\* History: only what matches without interruption stays.
Watch == steady' = [e \in Readable |-> steady[e] \cap Matching(subscriptions', e)]

CreateSubscription(s, types) ==
    /\ subscriptions[s] = None
    /\ ValidateEventTypes(types)
    /\ subscriptions' = [subscriptions EXCEPT ![s] = [event_types |-> types, active |-> TRUE]]
    /\ Watch
    /\ UNCHANGED <<deliveries, stream, handling, batch, requeues, faults, received, failures>>

\* A patch replaces the event types, the active flag, or both.
UpdateSubscription(s, types, active) ==
    /\ subscriptions[s] # None
    /\ ValidateEventTypes(types)
    /\ subscriptions' = [subscriptions EXCEPT ![s] = [event_types |-> types, active |-> active]]
    /\ Watch
    /\ UNCHANGED <<deliveries, stream, handling, batch, requeues, faults, received, failures>>

(***************************************************************************)
(* The consumer.  A publisher may publish an event again (its outbox is at *)
(* least once), and JetStream delivers a message until it is acked.        *)
(***************************************************************************)
Publish(e) ==
    /\ stream[e] # "unacked"
    /\ stream' = [stream EXCEPT ![e] = "unacked"]
    /\ steady' = IF stream[e] = "unpublished" /\ e \in Readable
                 THEN [steady EXCEPT ![e] = Matching(subscriptions, e)] ELSE steady
    /\ UNCHANGED <<subscriptions, deliveries, handling, batch, requeues, faults, received, failures>>

\* Mutant: an envelope without identity is NAKed.
DiscardNaked(e) ==
    /\ handling = None
    /\ stream[e] = "unacked"
    /\ e \in Malformed
    /\ UNCHANGED vars

\* handle: an envelope without identity is terminated.
Discard(e) ==
    /\ handling = None
    /\ stream[e] = "unacked"
    /\ e \in Malformed
    /\ stream' = [stream EXCEPT ![e] = "acked"]
    /\ UNCHANGED <<subscriptions, deliveries, handling, batch, requeues, faults, steady, received, failures>>

Handle(e) ==
    /\ handling = None
    /\ stream[e] = "unacked"
    /\ e \notin Malformed
    /\ handling' = [event |-> e, subs |-> {}, step |-> "list"]
    /\ UNCHANGED <<subscriptions, deliveries, stream, batch, requeues, faults, steady, received, failures>>

\* The first database transaction of EnqueueEnvelope
ListActive ==
    LET subs == Matching(subscriptions, handling.event) IN
    /\ handling # None
    /\ handling.step = "list"
    /\ handling' = [handling EXCEPT !.subs = subs, !.step = IF subs = {} THEN "ack" ELSE "insert"]
    /\ UNCHANGED <<subscriptions, deliveries, stream, batch, requeues, faults, steady, received, failures>>

Pending == [status |-> "pending", attempts |-> 0, due |-> TRUE]

\* Mutant: ON CONFLICT DO UPDATE.
UpsertPending ==
    /\ handling # None
    /\ handling.step = "insert"
    /\ deliveries' = [k \in Ids |-> IF k[1] \in handling.subs /\ k[2] = handling.event
                                    THEN Pending ELSE deliveries[k]]
    /\ handling' = [handling EXCEPT !.step = "ack"]
    /\ UNCHANGED <<subscriptions, stream, batch, requeues, faults, steady, received, failures>>

\* The second one: ON CONFLICT (subscription_id, event_id) DO NOTHING
InsertPending ==
    /\ handling # None
    /\ handling.step = "insert"
    /\ deliveries' = [k \in Ids |->
          IF k[1] \in handling.subs /\ k[2] = handling.event /\ deliveries[k] = None
          THEN Pending ELSE deliveries[k]]
    /\ handling' = [handling EXCEPT !.step = "ack"]
    /\ UNCHANGED <<subscriptions, stream, batch, requeues, faults, steady, received, failures>>

Ack ==
    /\ handling # None
    /\ handling.step = "ack"
    /\ stream' = [stream EXCEPT ![handling.event] = "acked"]
    /\ handling' = None
    /\ UNCHANGED <<subscriptions, deliveries, batch, requeues, faults, steady, received, failures>>

\* Mutant: a message is acked before its deliveries are stored.
AckOnError ==
    /\ Fault
    /\ handling # None
    /\ handling' = None
    /\ stream' = [stream EXCEPT ![handling.event] = "acked"]
    /\ UNCHANGED <<subscriptions, deliveries, batch, requeues, steady, received, failures>>

\* A database error and its Nak, the consumer's crash, or a lost ack: the message stays.
Redeliver ==
    /\ Fault
    /\ handling # None
    /\ handling' = None
    /\ UNCHANGED <<subscriptions, deliveries, stream, batch, requeues, steady, received, failures>>

(***************************************************************************)
(* The dispatchers.                                                        *)
(***************************************************************************)
\* Mutant: delivered rows are claimed too.
AnyDue(k) ==
    /\ deliveries[k] # None
    /\ deliveries[k].status # "dead"
    /\ deliveries[k].due
    /\ subscriptions[k[1]].active

Due(k) ==
    /\ deliveries[k] # None
    /\ deliveries[k].status \in {"pending", "failed"}
    /\ deliveries[k].due
    /\ subscriptions[k[1]].active

\* claim_due_deliveries: up to BatchSize of the due deliveries, skipping the rows
\* another transaction has locked; their leases start.  A dispatcher claims
\* again when its whole batch is done (wg.Wait).
ClaimDue(d) ==
    /\ batch[d] = {}
    /\ \E S \in SUBSET {k \in Ids : Due(k)} :
          /\ S # {}
          /\ Cardinality(S) <= BatchSize
          /\ deliveries' = [k \in Ids |->
                IF k \in S THEN [deliveries[k] EXCEPT !.due = FALSE] ELSE deliveries[k]]
          /\ batch' = [batch EXCEPT ![d] =
                {[id |-> k, attempts |-> deliveries[k].attempts, phase |-> "send"] : k \in S}]
    /\ UNCHANGED <<subscriptions, stream, handling, requeues, faults, steady, received, failures>>

InFlight(k) == \E d \in Dispatchers : \E c \in batch[d] : c.id = k

\* The lease or the backoff of k ends: next_attempt_at <= now().
Elapse(k) ==
    /\ deliveries[k] # None
    /\ ~deliveries[k].due
    /\ Timely => ~InFlight(k)
    /\ deliveries' = [deliveries EXCEPT ![k] = [@ EXCEPT !.due = TRUE]]
    /\ UNCHANGED <<subscriptions, stream, handling, batch, requeues, faults, steady, received, failures>>

\* Mutant: any answer is a success.
AnyAnswer(d, c, answered, phase) ==
    /\ c \in batch[d]
    /\ c.phase = "send"
    /\ batch' = [batch EXCEPT ![d] = (@ \ {c}) \cup {[c EXCEPT !.phase = "accepted"]}]
    /\ received' = IF answered THEN received \cup {c.id} ELSE received
    /\ failures' = failures
    /\ UNCHANGED <<subscriptions, deliveries, stream, handling, requeues, faults, steady>>

\* Send: the endpoint may accept the event and the answer still be lost (timeout).
Send(d, c, answered, phase) ==
    /\ c \in batch[d]
    /\ c.phase = "send"
    /\ phase = "accepted" => answered
    /\ batch' = [batch EXCEPT ![d] = (@ \ {c}) \cup {[c EXCEPT !.phase = phase]}]
    /\ received' = IF answered THEN received \cup {c.id} ELSE received
    /\ failures' = IF phase = "refused" /\ failures[c.id] < MaxAttempts
                   THEN [failures EXCEPT ![c.id] = @ + 1] ELSE failures
    /\ UNCHANGED <<subscriptions, deliveries, stream, handling, requeues, faults, steady>>

MarkDelivered(d, c) ==
    /\ c \in batch[d]
    /\ c.phase = "accepted"
    /\ deliveries' = [deliveries EXCEPT ![c.id] = [@ EXCEPT !.status = "delivered"]]
    /\ batch' = [batch EXCEPT ![d] = @ \ {c}]
    /\ UNCHANGED <<subscriptions, stream, handling, requeues, faults, steady, received, failures>>

\* Mutant: the last attempt is not made.
IsDeadEarly(attempts) == attempts >= MaxAttempts - 1

IsDead(attempts) == attempts >= MaxAttempts

\* Mutant: a failure forgets to count the attempt.
MarkFailedUncounted(d, c) ==
    /\ c \in batch[d]
    /\ c.phase = "refused"
    /\ deliveries' = [deliveries EXCEPT ![c.id] =
          [status |-> "failed", attempts |-> c.attempts, due |-> FALSE]]
    /\ batch' = [batch EXCEPT ![d] = @ \ {c}]
    /\ UNCHANGED <<subscriptions, stream, handling, requeues, faults, steady, received, failures>>

\* The row is written whatever its status is by now, with the attempts counted
\* from what was claimed.  A dead delivery is due at once, but never claimed.
MarkFailed(d, c) ==
    /\ c \in batch[d]
    /\ c.phase = "refused"
    /\ deliveries' = [deliveries EXCEPT ![c.id] =
          [status |-> IF IsDead(c.attempts + 1) THEN "dead" ELSE "failed",
           attempts |-> c.attempts + 1,
           due |-> IsDead(c.attempts + 1)]]
    /\ batch' = [batch EXCEPT ![d] = @ \ {c}]
    /\ UNCHANGED <<subscriptions, stream, handling, requeues, faults, steady, received, failures>>

\* The outcome of one delivery is not recorded: a database error.
MarkLost(d, c) ==
    /\ Fault
    /\ c \in batch[d]
    /\ c.phase # "send"
    /\ batch' = [batch EXCEPT ![d] = @ \ {c}]
    /\ UNCHANGED <<subscriptions, deliveries, stream, handling, requeues, steady, received, failures>>

\* The replica dies or is shut down with its batch.
DispatcherCrash(d) ==
    /\ Fault
    /\ batch[d] # {}
    /\ batch' = [batch EXCEPT ![d] = {}]
    /\ UNCHANGED <<subscriptions, deliveries, stream, handling, requeues, steady, received, failures>>

\* RetryDelivery
Requeue(k) ==
    /\ requeues < MaxRequeues
    /\ deliveries[k] # None
    /\ deliveries[k].status \in {"failed", "dead"}
    /\ deliveries' = [deliveries EXCEPT ![k] = Pending]
    /\ requeues' = requeues + 1
    /\ failures' = [failures EXCEPT ![k] = 0]
    /\ UNCHANGED <<subscriptions, stream, handling, batch, faults, steady, received>>

Init ==
    /\ subscriptions = [s \in Subs |-> None]
    /\ deliveries = [k \in Ids |-> None]
    /\ stream = [e \in Events |-> "unpublished"]
    /\ handling = None
    /\ batch = [d \in Dispatchers |-> {}]
    /\ requeues = 0
    /\ faults = 0
    /\ steady = [e \in Readable |-> {}]
    /\ received = {}
    /\ failures = [k \in Ids |-> 0]

Consume == ListActive \/ InsertPending \/ Ack

\* The goroutine of dispatcher d for delivery k
Process(d, k) ==
    \E c \in batch[d] :
        /\ c.id = k
        /\ \/ \E answered \in BOOLEAN, phase \in {"accepted", "refused"} : Send(d, c, answered, phase)
           \/ MarkDelivered(d, c)
           \/ MarkFailed(d, c)

Next ==
    \/ \E s \in Subs, types \in TypeLists :
          \/ CreateSubscription(s, types)
          \/ \E active \in BOOLEAN : UpdateSubscription(s, types, active)
    \/ \E e \in Events : Publish(e) \/ Discard(e) \/ Handle(e)
    \/ Consume \/ Redeliver
    \/ \E d \in Dispatchers : ClaimDue(d) \/ DispatcherCrash(d)
    \/ \E d \in Dispatchers, k \in Ids : Process(d, k)
    \/ \E d \in Dispatchers : \E c \in batch[d] : MarkLost(d, c)
    \/ \E k \in Ids : Elapse(k) \/ Requeue(k)

Spec == Init /\ [][Next]_vars

\* JetStream delivers what is not acked, in stream order, so that no message is
\* passed over for ever; the callback and the dispatchers run on, and time passes.
\* Nothing makes clients act, and faults are finitely many (MaxFaults).
FairSpec ==
    /\ Spec
    /\ WF_vars(Consume)
    /\ \A e \in Events : SF_vars(Discard(e) \/ Handle(e))
    /\ \A d \in Dispatchers : WF_vars(ClaimDue(d))
    /\ \A d \in Dispatchers, k \in Ids : WF_vars(Process(d, k))
    /\ \A k \in Ids : WF_vars(Elapse(k))

(***************************************************************************)
(* Correctness.                                                            *)
(***************************************************************************)
\* The tables, the messages and the batches have the shapes their declarations
\* give them (0001_init.sql of webhooks, domain.go).
TypeOK ==
    /\ subscriptions \in [Subs -> Subscription \cup {None}]
    /\ deliveries \in [Ids -> Delivery \cup {None}]
    /\ stream \in [Events -> {"unpublished", "unacked", "acked"}]
    /\ handling \in Message \cup {None}
    /\ batch \in [Dispatchers -> SUBSET ClaimedDelivery]
    /\ requeues \in Nat
    /\ faults \in Nat
    /\ steady \in [Readable -> SUBSET Subs]
    /\ received \in SUBSET Ids
    /\ failures \in [Ids -> Nat]

\* No event is lost between the stream and the table: once a message is acked,
\* every subscription that has matched it without interruption since it was
\* published has its delivery, whatever failed or was patched between the two
\* transactions of EnqueueEnvelope ("Handlers ack only after the deliveries are
\* persisted", natsconsumer; I-11).
NoEventLost ==
    \A e \in Readable : stream[e] = "acked" =>
        \A s \in steady[e] : deliveries[<<s, e>>] # None

\* What is recorded as delivered was accepted: some POST of it was answered with
\* 2xx, whichever dispatcher recorded it and however late (process, MarkDelivered).
DeliveredMeansReceived ==
    \A k \in Ids : (deliveries[k] # None /\ deliveries[k].status = "delivered") => k \in received

\* A dispatcher's claim is exclusive and what it read is still so when it writes:
\* the delivery is unsettled and not due, its attempts are the ones it claimed,
\* and no other goroutine has it (claim_due_deliveries, process).  It holds while
\* nobody calls retry.
LeasesHold ==
    /\ \A d1, d2 \in Dispatchers : \A c1 \in batch[d1], c2 \in batch[d2] :
          c1.id = c2.id => d1 = d2 /\ c1 = c2
    /\ \A d \in Dispatchers : \A c \in batch[d] :
          /\ deliveries[c.id] # None
          /\ deliveries[c.id].status \in {"pending", "failed"}
          /\ deliveries[c.id].attempts = c.attempts
          /\ ~deliveries[c.id].due

\* No two dispatchers are sending the same delivery (docs/concurrency.md:
\* "multiple dispatcher instances do not double-send a claimed delivery").  It
\* holds while nobody calls retry.
NoDoubleSend ==
    \A d1, d2 \in Dispatchers : \A c1 \in batch[d1], c2 \in batch[d2] :
        (c1.id = c2.id /\ c1.phase = "send" /\ c2.phase = "send") => (d1 = d2 /\ c1 = c2)

StaysDelivered ==
    \A k \in Ids : (deliveries[k] # None /\ deliveries[k].status = "delivered") =>
        deliveries'[k] # None /\ deliveries'[k].status = "delivered"

\* The lifecycle of domain.go: delivered is final, and only a manual retry takes
\* a delivery back to pending.  It holds while nobody calls retry.
DeliveredIsFinal == [][StaysDelivered]_vars

\* A delivery is given up only after MaxAttempts failed POSTs, a manual retry
\* giving it "a fresh attempt budget" (Requeue).  It holds while nobody calls retry.
DeadMeansExhausted ==
    \A k \in Ids : (deliveries[k] # None /\ deliveries[k].status = "dead") =>
        failures[k] >= MaxAttempts

KeepsProgress ==
    \A k \in Ids : (deliveries[k] # None /\ requeues' = requeues) =>
        /\ deliveries'[k] # None
        /\ deliveries'[k].status = "pending" => deliveries[k].status = "pending"
        /\ deliveries'[k].attempts >= deliveries[k].attempts

\* A redelivered or republished event never resets a delivery: a row goes back
\* to pending, or loses attempts, only by a manual retry (InsertPending's ON
\* CONFLICT DO NOTHING).  It holds while nobody calls retry.
ProgressIsKept == [][KeepsProgress]_vars

\* Every delivery is settled: it is delivered or declared dead, unless its
\* subscription is deactivated, although replicas crash and outcomes get lost
\* (the lease of claim_due_deliveries, "so a crashed worker's claims resurface").
EveryDeliverySettles ==
    \A k \in Ids :
        (deliveries[k] # None) ~>
            (deliveries[k] # None /\ (\/ deliveries[k].status \in {"delivered", "dead"}
                                     \/ ~subscriptions[k[1]].active))

\* Every event is eventually acked or terminated: errors and crashes of the consumer
\* only delay it, and one without identity does not come back for ever (handle).
EveryEventIsConsumed == \A e \in Events : stream[e] = "unacked" ~> stream[e] = "acked"
=============================================================================
