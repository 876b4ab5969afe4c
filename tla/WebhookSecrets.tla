---------------------------- MODULE WebhookSecrets ----------------------------
(***************************************************************************)
(* The signing secrets of one webhook subscription: their rotation with a  *)
(* grace window, their sealing at start-up, and the signatures of the      *)
(* deliveries the dispatcher claims and posts                              *)
(* (services/webhooks/internal).  Secrets are numbered in the order they   *)
(* are handed to the tenant; a stored secret is a number and whether it is *)
(* sealed with the master key, which every instance has.                   *)
(***************************************************************************)
EXTENDS Integers, FiniteSets

CONSTANTS
    Instances,      \* processes of the webhooks service
    RotationGrace,  \* ticks a retired secret keeps verifying (24 hours)
    MaxSendDelay,   \* ticks between a claim and its POST (lease and client timeout)
    MaxTime,        \* bound: the clock stops here
    MaxSecrets,     \* bound: secrets handed out
    None

(* A claim is posted long before the grace window ends, and NULL is no     *)
(* instant.                                                                *)
ASSUME SendsArePrompt ==
    /\ {RotationGrace, MaxSendDelay, MaxTime, MaxSecrets} \subseteq Nat
    /\ MaxSendDelay < RotationGrace
    /\ MaxSecrets > 1
    /\ None \notin Int

VARIABLES
    now,
    row,       \* the subscription's secret columns
    newest,    \* the last secret handed to the tenant
    until,     \* the instant each secret stops verifying, as the tenant was told
    phase,     \* where each instance is in its start-up
    listed,    \* the row each starting instance has read
    claim,     \* the secrets of the delivery each instance has claimed
    sent,      \* the last POST
    undone     \* a start-up has overwritten a rotation

vars == <<now, row, newest, until, phase, listed, claim, sent, undone>>

Secrets == 1..MaxSecrets
Never == MaxTime + RotationGrace + 1
Blank == [secret |-> 0, sealed |-> TRUE]
NoClaim == [current |-> 0, previous |-> 0, expires |-> 0, time |-> 0]
NothingSent == [secrets |-> {}, time |-> 0, claimed |-> 0, newest |-> 0, undone |-> FALSE]

(* A subscription of before encryption at rest, in the middle of a rotation. *)
Init ==
    /\ now = 0
    /\ row = [current |-> [secret |-> 2, sealed |-> FALSE],
              previous |-> [secret |-> 1, sealed |-> FALSE], expires |-> RotationGrace]
    /\ newest = 2
    /\ until = [s \in Secrets |-> IF s = 1 THEN RotationGrace ELSE Never]
    /\ phase = [i \in Instances |-> "down"]
    /\ listed = [i \in Instances |-> None]
    /\ claim = [i \in Instances |-> NoClaim]
    /\ sent = NothingSent
    /\ undone = FALSE

Tick ==
    /\ now < MaxTime
    /\ \A i \in Instances : claim[i] /= NoClaim => now - claim[i].time < MaxSendDelay
    /\ now' = now + 1
    /\ UNCHANGED <<row, newest, until, phase, listed, claim, sent, undone>>

-----------------------------------------------------------------------------

IsEncrypted(stored) == stored.sealed
Encrypt(stored) == [stored EXCEPT !.sealed = TRUE]

(* Start-up lists the rows that still hold a plaintext secret...           *)
ListPlaintextSecrets(i) ==
    /\ phase[i] = "down"
    /\ IF IsEncrypted(row.current) /\ IsEncrypted(row.previous)
       THEN /\ phase' = [phase EXCEPT ![i] = "up"]
            /\ UNCHANGED listed
       ELSE /\ phase' = [phase EXCEPT ![i] = "listed"]
            /\ listed' = [listed EXCEPT ![i] = row]
    /\ UNCHANGED <<now, row, newest, until, claim, sent, undone>>

\* Mutant: the previous secret stays as it is.
SetEncryptedSecret_CurrentOnly(i) ==
    /\ phase[i] = "listed"
    /\ row' = [row EXCEPT !.current = Encrypt(listed[i].current), !.previous = listed[i].previous]
    /\ undone' = (undone \/ listed[i].current.secret /= row.current.secret)
    /\ phase' = [phase EXCEPT ![i] = "up"]
    /\ listed' = [listed EXCEPT ![i] = None]
    /\ UNCHANGED <<now, newest, until, claim, sent>>

(* ...and writes back what it read, sealed, whatever the row holds by then. *)
SetEncryptedSecret(i) ==
    /\ phase[i] = "listed"
    /\ row' = [row EXCEPT !.current = Encrypt(listed[i].current),
                          !.previous = Encrypt(listed[i].previous)]
    /\ undone' = (undone \/ listed[i].current.secret /= row.current.secret)
    /\ phase' = [phase EXCEPT ![i] = "up"]
    /\ listed' = [listed EXCEPT ![i] = None]
    /\ UNCHANGED <<now, newest, until, claim, sent>>

Crash(i) ==
    /\ phase[i] /= "down"
    /\ phase' = [phase EXCEPT ![i] = "down"]
    /\ listed' = [listed EXCEPT ![i] = None]
    /\ claim' = [claim EXCEPT ![i] = NoClaim]
    /\ UNCHANGED <<now, row, newest, until, sent, undone>>

\* Mutant: a rotation forgets the secret it replaces.
RotateSecret_DropsOld(i) ==
    /\ phase[i] = "up"
    /\ newest < MaxSecrets
    /\ newest' = newest + 1
    /\ row' = [current |-> [secret |-> newest + 1, sealed |-> TRUE],
               previous |-> Blank, expires |-> now + RotationGrace]
    /\ until' = [until EXCEPT ![newest] = now + RotationGrace]
    /\ UNCHANGED <<now, phase, listed, claim, sent, undone>>

(* POST .../rotate-secret: one UPDATE.                                     *)
RotateSecret(i) ==
    /\ phase[i] = "up"
    /\ newest < MaxSecrets
    /\ newest' = newest + 1
    /\ row' = [current |-> [secret |-> newest + 1, sealed |-> TRUE],
               previous |-> row.current, expires |-> now + RotationGrace]
    /\ until' = [until EXCEPT ![newest] = now + RotationGrace]
    /\ UNCHANGED <<now, phase, listed, claim, sent, undone>>

(* The hourly sweep. *)
PurgeExpiredPreviousSecrets(i) ==
    /\ phase[i] = "up"
    /\ row.previous /= Blank /\ row.expires /= None /\ row.expires =< now
    /\ row' = [row EXCEPT !.previous = Blank, !.expires = None]
    /\ UNCHANGED <<now, newest, until, phase, listed, claim, sent, undone>>

-----------------------------------------------------------------------------

(* The claim takes the secrets as they are; they are signed with later.    *)
ClaimDue(i) ==
    /\ phase[i] = "up"
    /\ claim[i] = NoClaim
    /\ claim' = [claim EXCEPT ![i] =
           [current |-> row.current.secret, previous |-> row.previous.secret,
            expires |-> row.expires, time |-> now]]
    /\ UNCHANGED <<now, row, newest, until, phase, listed, sent, undone>>

\* Mutant: the expiry is left to the sweep.
SigningSecrets_Lasting(c) == {c.current} \cup IF c.previous = 0 THEN {} ELSE {c.previous}

SigningSecrets(c) ==
    {c.current} \cup
    IF c.previous /= 0 /\ c.expires /= None /\ now < c.expires THEN {c.previous} ELSE {}

(* One v1 entry for each secret. *)
Send(i) ==
    /\ claim[i] /= NoClaim
    /\ sent' = [secrets |-> SigningSecrets(claim[i]), time |-> now,
                claimed |-> claim[i].current, newest |-> newest, undone |-> undone]
    /\ claim' = [claim EXCEPT ![i] = NoClaim]
    /\ UNCHANGED <<now, row, newest, until, phase, listed, undone>>

Next ==
    \/ Tick
    \/ \E i \in Instances :
           \/ ListPlaintextSecrets(i) \/ SetEncryptedSecret(i) \/ Crash(i)
           \/ RotateSecret(i) \/ PurgeExpiredPreviousSecrets(i)
           \/ ClaimDue(i) \/ Send(i)

Spec == Init /\ [][Next]_vars

-----------------------------------------------------------------------------

Stored == [secret : 0..MaxSecrets, sealed : BOOLEAN]
Row == [current : Stored, previous : Stored, expires : 0..Never \cup {None}]

(* The columns, the claims and the last POST keep their shapes.            *)
TypeOK ==
    /\ now \in 0..MaxTime
    /\ row \in Row /\ row.current.secret \in Secrets
    /\ newest \in Secrets
    /\ until \in [Secrets -> 0..Never]
    /\ phase \in [Instances -> {"down", "listed", "up"}]
    /\ listed \in [Instances -> Row \cup {None}]
    /\ claim \in [Instances -> [current : 0..MaxSecrets, previous : 0..MaxSecrets,
                                expires : 0..Never \cup {None}, time : 0..MaxTime]]
    /\ sent \in [secrets : SUBSET Secrets, time : 0..MaxTime, claimed : 0..MaxSecrets,
                 newest : 0..MaxSecrets, undone : BOOLEAN]
    /\ undone \in BOOLEAN

(***************************************************************************)
(* From the moment one instance has started, nothing is stored in the      *)
(* clear, whatever rotations, sweeps, crashes and start-ups of other       *)
(* instances interleave (ReencryptPlaintextSecrets, RotateSecret).         *)
(***************************************************************************)
SealedOnceUp ==
    (\E i \in Instances : phase[i] = "up")
        => IsEncrypted(row.current) /\ IsEncrypted(row.previous)

(***************************************************************************)
(* A secret never signs after the instant the tenant was told it stops     *)
(* verifying, even when the sweep is late and the delivery was claimed     *)
(* before (signingSecrets checks the expiry when it signs), unless a       *)
(* start-up has overwritten a rotation.                                    *)
(***************************************************************************)
ExpiredSecretsNeverSign ==
    ~sent.undone => \A s \in sent.secrets : sent.time < until[s]

(***************************************************************************)
(* A receiver that keeps the secret that was retired last verifies every   *)
(* delivery until the announced instant, a delivery claimed before the     *)
(* rotation included, unless a start-up has overwritten the rotation or    *)
(* two rotations fall between claim and POST (RotateSecret, ClaimDue,      *)
(* Send).                                                                  *)
(***************************************************************************)
OldSecretVerifiesInGrace ==
    LET old == sent.newest - 1 IN
    ( /\ old > 0 /\ ~sent.undone
      /\ sent.claimed >= old
      /\ sent.time < until[old] ) => old \in sent.secrets

\* Every secret that is stored, listed, claimed or has signed was handed out.
SecretsWereHandedOut ==
    /\ newest > 1
    /\ \A s \in newest..MaxSecrets : until[s] = Never
    /\ row.current.secret =< newest /\ row.previous.secret =< newest
    /\ \A i \in Instances :
           /\ phase[i] = "listed" => /\ listed[i] \in Row /\ listed[i].current.secret \in 1..newest
                                     /\ listed[i].previous.secret =< newest
           /\ claim[i] /= NoClaim => claim[i].current \in 1..newest /\ claim[i].previous =< newest
    /\ sent.secrets \subseteq 1..newest /\ sent.newest =< newest /\ sent.time =< now

\* Until a start-up overwrites a rotation the row holds what the tenant was told last,
\* and the sweep has emptied it only after the announced instant.
RowIsWhatWasTold ==
    ~undone =>
        /\ row.current.secret = newest
        /\ \/ row.previous.secret = newest - 1 /\ row.expires = until[newest - 1]
           \/ /\ row.previous.secret \in {0, newest - 1}
              /\ row.expires = None /\ until[newest - 1] =< now
        /\ \A i \in Instances :
               phase[i] = "listed" /\ listed[i].current.secret = newest
                   => \/ listed[i].previous.secret = newest - 1
                      \/ listed[i].previous.secret = 0 /\ row.expires = None

\* A claim is young, and the secrets it took are those of one moment of the row.
ClaimsAreYoung ==
    \A i \in Instances : claim[i] /= NoClaim =>
        LET c == claim[i] IN
        /\ c.time =< now /\ now =< c.time + MaxSendDelay
        /\ ~undone =>
               /\ c.current > 1 /\ until[c.current] >= c.time + RotationGrace
               /\ \/ c.previous = c.current - 1 /\ c.expires = until[c.current - 1]
                  \/ c.expires = None /\ until[c.current - 1] =< c.time

(***************************************************************************)
(* The columns keep their shapes; from the first completed start-up on     *)
(* they hold ciphertext only, a previous secret included; and as long as   *)
(* no start-up has overwritten a rotation, row, claims and announced       *)
(* instants agree (ReencryptPlaintextSecrets, RotateSecret,                *)
(* PurgeExpiredPreviousSecrets, ClaimDue).                                 *)
(***************************************************************************)
SecretsInvariant ==
    /\ TypeOK /\ SealedOnceUp
    /\ SecretsWereHandedOut /\ RowIsWhatWasTold /\ ClaimsAreYoung
=============================================================================
