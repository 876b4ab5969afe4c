----------------------------- MODULE AtLeastOnce -----------------------------
(***************************************************************************)
(* What an outbox promises the consumers of its events: an event that was  *)
(* emitted with a committed transaction is delivered to the stream, at     *)
(* least once, and the sender is done with it only after that.             *)
(***************************************************************************)
EXTENDS Sequences, SequencesExt

CONSTANTS
    Messages,
    Poison      \* messages that nobody can read: they need not be delivered

VARIABLES
    emitted,    \* the messages that were emitted
    delivered,  \* the stream, in the order of the deliveries
    settled     \* the messages the sender is done with

avars == <<emitted, delivered, settled>>

AInit == emitted = {} /\ delivered = <<>> /\ settled = {}

Emit(m) ==
    /\ m \notin emitted
    /\ emitted' = emitted \cup {m}
    /\ UNCHANGED <<delivered, settled>>

Deliver(m) ==
    /\ m \in emitted \ Poison
    /\ delivered' = Append(delivered, m)
    /\ UNCHANGED <<emitted, settled>>

Settle(S) ==
    /\ S \subseteq ToSet(delivered) \cup (emitted \cap Poison)
    /\ settled' = settled \cup S
    /\ UNCHANGED <<emitted, delivered>>

ANext ==
    \/ \E m \in Messages : Emit(m) \/ Deliver(m)
    \/ \E S \in SUBSET Messages : Settle(S)

ASpec == AInit /\ [][ANext]_avars

\* No readable message waits for ever.
EventuallyDelivered ==
    \A m \in Messages \ Poison : m \in emitted ~> m \in ToSet(delivered)
=============================================================================
