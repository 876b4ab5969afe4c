----------------------------- MODULE OutboxRelay -----------------------------
(***************************************************************************)
(* The transactional outbox of a service and the pollers that drain it     *)
(* into JetStream.  The pollers of ledger-core and of identity are the     *)
(* same code; that of reconciliation differs in what it does with a row it *)
(* cannot decode.  Several instances of a service poll one outbox.         *)
(***************************************************************************)
EXTENDS Integers, Sequences, FiniteSets, FiniteSetsExt, SequencesExt

CONSTANTS
    Rows,        \* the ids of the outbox rows, positive numbers
    Malformed,   \* the rows whose envelope cannot be decoded
    Pollers,     \* the instances of the service
    BatchSize,   \* batchSize, DefaultBatchSize
    MaxForgets,  \* bound: how often the broker's duplicate window passes
    MaxCrashes   \* bound: how often a poller or its session is lost

ASSUME RelayAssumption ==
    /\ Rows \subseteq Nat /\ Malformed \subseteq Rows
    /\ BatchSize \in Nat \ {0} /\ MaxForgets \in Nat /\ MaxCrashes \in Nat

VARIABLES
    service,    \* whose relay it is
    committed,  \* the rows whose business transaction has committed
    published,  \* the rows with published_at
    poller,     \* poller[p]: the poller's pass, "lost" when its session has gone
    stream,     \* the LEDGERCORE stream
    window,     \* the message ids in the broker's duplicate window
    forgets,    \* how often a message id left the window
    crashes     \* how often a poller or its session was lost

vars == <<service, committed, published, poller, stream, window, forgets, crashes>>

Services == {"ledger-core", "identity", "reconciliation"}

-----------------------------------------------------------------------------
Idle == [pc |-> "idle", batch |-> {}, left |-> {}, done |-> {}]

Draining == {p \in Pollers : poller[p].pc = "draining"}

\* Rows that an open transaction has locked
Locked == UNION {poller[p].batch : p \in Draining}

Pending == committed \ published

\* A business transaction commits with its event.  Ids are drawn when the row is
\* inserted, so rows do not become visible in their order.
InsertOutbox(i) ==
    /\ i \notin committed
    /\ committed' = committed \cup {i}
    /\ UNCHANGED <<service, published, poller, stream, window, forgets, crashes>>

\* ORDER BY id (in reconciliation created_at) LIMIT batchSize FOR UPDATE SKIP LOCKED
FirstRows(S) == {i \in S : Cardinality({j \in S : j < i}) < BatchSize}

\* A tick: the poller opens a transaction and locks a batch.
Select(p) ==
    /\ poller[p].pc = "idle"
    /\ Pending \ Locked # {}
    /\ LET batch == FirstRows(Pending \ Locked)
       IN  poller' = [poller EXCEPT ![p] = [pc |-> "draining", batch |-> batch, left |-> batch, done |-> {}]]
    /\ UNCHANGED <<service, committed, published, stream, window, forgets, crashes>>

NextRow(p) == Min(poller[p].left)

\* The loop over the batch reads no row and writes none: it does not notice that its
\* session is lost.
InLoop(p) == poller[p].pc \in {"draining", "lost"} /\ poller[p].left # {}

\* Mutant: the batch ends at a row that cannot be decoded.
SkipEndsBatch(p) ==
    /\ InLoop(p)
    /\ NextRow(p) \in Malformed
    /\ poller' = [poller EXCEPT ![p].left = {}]
    /\ UNCHANGED <<service, committed, published, stream, window, forgets, crashes>>

\* A row that cannot be decoded stays unpublished in ledger-core and identity and
\* is marked published in reconciliation.
Skip(p) ==
    /\ InLoop(p)
    /\ NextRow(p) \in Malformed
    /\ poller' = [poller EXCEPT ![p].left = @ \ {NextRow(p)},
                                ![p].done = IF service = "reconciliation" THEN @ \cup {NextRow(p)} ELSE @]
    /\ UNCHANGED <<service, committed, published, stream, window, forgets, crashes>>

\* Mutant: messages are published without MsgId.
StoreAlways(i) ==
    /\ stream' = Append(stream, i)
    /\ window' = window

\* The broker drops a message whose id is in its window.
Store(i) ==
    /\ stream' = IF i \in window THEN stream ELSE Append(stream, i)
    /\ window' = window \cup {i}

Publish(p) ==
    /\ InLoop(p)
    /\ NextRow(p) \notin Malformed
    /\ Store(NextRow(p))
    /\ poller' = [poller EXCEPT ![p].left = @ \ {NextRow(p)}, ![p].done = @ \cup {NextRow(p)}]
    /\ UNCHANGED <<service, committed, published, forgets, crashes>>

\* Mutant: the row that failed is marked too.
PublishFailedMarked(p) ==
    /\ InLoop(p)
    /\ NextRow(p) \notin Malformed
    /\ poller' = [poller EXCEPT ![p].left = {}, ![p].done = @ \cup {NextRow(p)}]
    /\ UNCHANGED <<service, committed, published, stream, window, forgets, crashes>>

\* The first failure ends the batch: the broker is away ...
PublishFailed(p) ==
    /\ InLoop(p)
    /\ NextRow(p) \notin Malformed
    /\ poller' = [poller EXCEPT ![p].left = {}]
    /\ UNCHANGED <<service, committed, published, stream, window, forgets, crashes>>

\* ... or it has stored the message and its answer is lost.
PublishUnanswered(p) ==
    /\ InLoop(p)
    /\ NextRow(p) \notin Malformed
    /\ Store(NextRow(p))
    /\ poller' = [poller EXCEPT ![p].left = {}]
    /\ UNCHANGED <<service, committed, published, forgets, crashes>>

\* Mutant: the whole batch is marked.
CommitBatch(p) ==
    /\ poller[p].pc = "draining" /\ poller[p].left = {}
    /\ published' = published \cup poller[p].batch
    /\ poller' = [poller EXCEPT ![p] = Idle]
    /\ UNCHANGED <<service, committed, stream, window, forgets, crashes>>

\* What went out is marked, also after a failure.
Commit(p) ==
    /\ poller[p].pc = "draining" /\ poller[p].left = {}
    /\ published' = published \cup poller[p].done
    /\ poller' = [poller EXCEPT ![p] = Idle]
    /\ UNCHANGED <<service, committed, stream, window, forgets, crashes>>

\* The process dies, or the update or the commit fails: nothing is marked.
Crash(p) ==
    /\ poller[p].pc # "idle" /\ crashes < MaxCrashes
    /\ poller' = [poller EXCEPT ![p] = Idle]
    /\ crashes' = crashes + 1
    /\ UNCHANGED <<service, committed, published, stream, window, forgets>>

\* The session is lost and its locks go, while the process lives on.
LoseSession(p) ==
    /\ poller[p].pc = "draining" /\ crashes < MaxCrashes
    /\ poller' = [poller EXCEPT ![p].pc = "lost"]
    /\ crashes' = crashes + 1
    /\ UNCHANGED <<service, committed, published, stream, window, forgets>>

\* The update, or without one the commit, then fails.
GiveUp(p) ==
    /\ poller[p].pc = "lost" /\ poller[p].left = {}
    /\ poller' = [poller EXCEPT ![p] = Idle]
    /\ UNCHANGED <<service, committed, published, stream, window, forgets, crashes>>

\* The duplicate window of a message id passes.
Forget(i) ==
    /\ i \in window /\ forgets < MaxForgets
    /\ window' = window \ {i}
    /\ forgets' = forgets + 1
    /\ UNCHANGED <<service, committed, published, poller, stream, crashes>>

-----------------------------------------------------------------------------
Init ==
    /\ service \in Services
    /\ committed = {} /\ published = {}
    /\ poller = [p \in Pollers |-> Idle]
    /\ stream = <<>> /\ window = {} /\ forgets = 0 /\ crashes = 0

DrainOnce(p) ==
    \/ Select(p) \/ Skip(p) \/ Publish(p) \/ PublishFailed(p) \/ PublishUnanswered(p)
    \/ Commit(p) \/ GiveUp(p) \/ Crash(p) \/ LoseSession(p)

Next ==
    \/ \E i \in Rows : InsertOutbox(i) \/ Forget(i)
    \/ \E p \in Pollers : DrainOnce(p)

Spec == Init /\ [][Next]_vars

\* Run ticks for ever, the broker does not refuse every time, and only so many
\* passes are lost.
Fairness ==
    \A p \in Pollers : WF_vars(Select(p) \/ Skip(p) \/ Commit(p) \/ GiveUp(p)) /\ SF_vars(Publish(p))

FairSpec == Spec /\ Fairness

-----------------------------------------------------------------------------
TypeOK ==
    /\ service \in Services
    /\ committed \subseteq Rows /\ published \subseteq committed
    /\ poller \in [Pollers -> [pc : {"idle", "draining", "lost"}, batch : SUBSET Rows,
                               left : SUBSET Rows, done : SUBSET Rows]]
    /\ stream \in Seq(Rows) /\ window \subseteq Rows /\ forgets \in 0..MaxForgets /\ crashes \in 0..MaxCrashes

(***************************************************************************)
(* A row is in one open transaction only, and in none once it is marked:   *)
(* "FOR UPDATE SKIP LOCKED makes concurrent instances cooperate instead of *)
(* double-publishing" (drainOnce).  A poller whose session is lost goes on *)
(* publishing rows that another may hold or have marked.                   *)
(***************************************************************************)
PollersCooperate ==
    /\ \A p, q \in Draining : p # q => poller[p].batch \cap poller[q].batch = {}
    /\ \A p \in Draining : poller[p].batch \cap published = {}

(***************************************************************************)
(* Marking follows publishing: what has published_at, and what a poller is *)
(* about to mark, is on the stream, whatever failed or died between the    *)
(* two; only reconciliation marks a row that it could not decode.          *)
(***************************************************************************)
MarkedIsOnStream ==
    \A i \in published \cup UNION {poller[p].done : p \in Pollers} :
        i \in ToSet(stream) \/ (i \in Malformed /\ service = "reconciliation")

(***************************************************************************)
(* "The JetStream MsgId dedupes any crash-window redelivery": an event is  *)
(* on the stream twice only if the duplicate window passed between its     *)
(* publications (Publish).                                                 *)
(***************************************************************************)
DuplicatesNeedForgetting ==
    /\ Len(stream) <= Cardinality(ToSet(stream)) + forgets
    /\ ToSet(stream) \subseteq committed \ Malformed

(***************************************************************************)
(* Inside a batch events keep their order: a row is on its way to be       *)
(* marked only when every earlier row of the batch that can be decoded is  *)
(* on the stream (drainOnce stops at the first failure).                   *)
(***************************************************************************)
BatchesKeepOrder ==
    \A p \in Pollers : \A i \in poller[p].done, j \in poller[p].batch \ Malformed :
        j < i => j \in poller[p].done

\* The abstract channel, with the rows as its messages
Channel == INSTANCE AtLeastOnce WITH
    Messages <- Rows, Poison <- Malformed,
    emitted <- committed, delivered <- stream, settled <- published

(***************************************************************************)
(* The relay is an at-least-once channel: every behaviour of the pollers,  *)
(* crashes, lost sessions and broker failures included, is one of          *)
(* AtLeastOnce with the rows as messages, the stream as what is delivered  *)
(* and published_at as settled.                                            *)
(***************************************************************************)
ImplementsAtLeastOnce == Channel!ASpec

(***************************************************************************)
(* Every event that was committed and can be decoded reaches the stream,   *)
(* past rows that cannot (Run, drainOnce, DrainOutbox).                    *)
(***************************************************************************)
EveryEventIsDelivered == Channel!EventuallyDelivered

\* An idle poller holds nothing; another works through its batch of committed
\* rows, and until a failure has left out no row that can be decoded.
DrainsItsBatch ==
    \A p \in Pollers :
        LET t == poller[p] IN
        /\ t.pc = "idle" => t = Idle
        /\ t.batch \subseteq committed /\ t.left \subseteq t.batch /\ t.done \subseteq t.batch
        /\ t.left # {} => t.batch \ Malformed \subseteq t.left \cup t.done

\* Every duplicate on the stream, and every message the broker could store again
\* because its id left the window, is one that was forgotten.
WindowCounts ==
    /\ window \subseteq ToSet(stream) /\ IsFiniteSet(ToSet(stream))
    /\ ToSet(stream) \subseteq committed \ Malformed
    /\ Len(stream) + Cardinality(ToSet(stream) \ window) <= Cardinality(ToSet(stream)) + forgets

(***************************************************************************)
(* What drainOnce keeps true in every state: open transactions hold        *)
(* disjoint sets of unpublished rows, a mark follows its publication, a    *)
(* batch goes out in its order up to its first failure, and the broker's   *)
(* window accounts for every duplicate.                                    *)
(***************************************************************************)
RelayInvariant ==
    /\ TypeOK /\ PollersCooperate /\ MarkedIsOnStream /\ BatchesKeepOrder
    /\ DrainsItsBatch /\ WindowCounts
=============================================================================
