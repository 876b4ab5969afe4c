------------------------- MODULE WebhookSecretsProofs -------------------------
(***************************************************************************)
(* Proofs about WebhookSecrets: what the columns, the claims and the       *)
(* announced instants have to do with each other, and that neither an      *)
(* expired secret signs nor a secret stops signing early.                  *)
(***************************************************************************)
EXTENDS WebhookSecrets, TLAPS

\* What is kept: the invariant and what it says about the last POST
Kept == SecretsInvariant /\ ExpiredSecretsNeverSign /\ OldSecretVerifiesInGrace

Claims == [current : 0..MaxSecrets, previous : 0..MaxSecrets,
           expires : 0..Never \cup {None}, time : 0..MaxTime]

\* Facts that arithmetic needs
LEMMA Numbers ==
    ASSUME Kept
    PROVE  /\ now \in Int /\ newest \in Int /\ newest > 1 /\ newest =< MaxSecrets
           /\ MaxTime \in Int /\ MaxSecrets \in Int /\ MaxSendDelay \in Int /\ RotationGrace \in Int
           /\ MaxTime >= 0 /\ MaxSendDelay >= 0
           /\ RotationGrace > MaxSendDelay /\ Never = MaxTime + RotationGrace + 1
           /\ now >= 0 /\ now =< MaxTime
           /\ \A s \in 1..MaxSecrets : until[s] \in Int /\ until[s] >= 0 /\ until[s] =< Never
  <1>1. newest \in Secrets /\ now \in 0..MaxTime /\ until \in [Secrets -> 0..Never]
    BY DEF Kept, SecretsInvariant, TypeOK
  <1>2. newest > 1
    BY DEF Kept, SecretsInvariant, SecretsWereHandedOut
  <1>3. /\ MaxTime \in Nat /\ MaxSecrets \in Nat /\ MaxSendDelay \in Nat /\ RotationGrace \in Nat
        /\ MaxSendDelay < RotationGrace
    BY SendsArePrompt
  <1>4. Never \in Nat /\ Never = MaxTime + RotationGrace + 1
    BY <1>3 DEF Never
  <1>5. \A s \in 1..MaxSecrets : until[s] \in 0..Never
    BY <1>1 DEF Secrets
  <1>6. newest \in 1..MaxSecrets
    BY <1>1 DEF Secrets
  <1> QED
    BY <1>1, <1>2, <1>3, <1>4, <1>5, <1>6

\* The invariant holds of the endpoints as they are created.
LEMMA SecretsInit ==
    Init => Kept
  <1> SUFFICES ASSUME Init
               PROVE  Kept
    OBVIOUS
  <1>n. /\ MaxTime \in Nat /\ MaxSecrets \in Nat /\ MaxSendDelay \in Nat /\ RotationGrace \in Nat
        /\ MaxSecrets > 1 /\ Never \in Nat /\ RotationGrace =< Never
    BY SendsArePrompt DEF Never
  <1>s. /\ now = 0 /\ newest = 2 /\ undone = FALSE /\ sent = NothingSent
        /\ row = [current |-> [secret |-> 2, sealed |-> FALSE],
                  previous |-> [secret |-> 1, sealed |-> FALSE], expires |-> RotationGrace]
        /\ until = [s \in Secrets |-> IF s = 1 THEN RotationGrace ELSE Never]
        /\ phase = [i \in Instances |-> "down"]
        /\ listed = [i \in Instances |-> None]
        /\ claim = [i \in Instances |-> NoClaim]
    BY DEF Init
  <1>1. TypeOK
    <2>1. row \in Row /\ row.current.secret \in Secrets
      BY <1>n, <1>s DEF Row, Stored, Secrets
    <2>2. NoClaim \in Claims
      BY <1>n DEF NoClaim, Claims
    <2>3. claim \in [Instances -> Claims]
      BY <1>s, <2>2
    <2>4. until \in [Secrets -> 0..Never] /\ newest \in Secrets /\ now \in 0..MaxTime
      BY <1>n, <1>s DEF Secrets
    <2>5. sent \in [secrets : SUBSET Secrets, time : 0..MaxTime, claimed : 0..MaxSecrets,
                    newest : 0..MaxSecrets, undone : BOOLEAN]
      BY <1>n, <1>s DEF NothingSent
    <2>6. phase \in [Instances -> {"down", "listed", "up"}] /\ listed \in [Instances -> Row \cup {None}]
      BY <1>s
    <2> QED
      BY <1>s, <2>1, <2>3, <2>4, <2>5, <2>6 DEF TypeOK, Claims
  <1>2. SealedOnceUp
    BY <1>s DEF SealedOnceUp
  <1>3. SecretsWereHandedOut
    BY <1>n, <1>s DEF SecretsWereHandedOut, NothingSent, Secrets
  <1>4. RowIsWhatWasTold
    BY <1>n, <1>s DEF RowIsWhatWasTold, Secrets
  <1>5. ClaimsAreYoung
    BY <1>s DEF ClaimsAreYoung
  <1>6. ExpiredSecretsNeverSign /\ OldSecretVerifiesInGrace
    BY <1>s DEF ExpiredSecretsNeverSign, OldSecretVerifiesInGrace, NothingSent
  <1> QED
    BY <1>1, <1>2, <1>3, <1>4, <1>5, <1>6 DEF Kept, SecretsInvariant

\* The passing of time keeps the invariant: a send is over before a grace period that
\* starts with it is.
LEMMA TickKeeps ==
    ASSUME Kept, Tick
    PROVE  Kept'
  <1> USE Numbers
  <1>1. /\ now' = now + 1 /\ now < MaxTime
        /\ \A i \in Instances : claim[i] /= NoClaim => now - claim[i].time < MaxSendDelay
        /\ UNCHANGED <<row, newest, until, phase, listed, claim, sent, undone>>
    BY DEF Tick
  <1>2. TypeOK'
    BY <1>1 DEF Kept, SecretsInvariant, TypeOK
  <1>3. SealedOnceUp'
    BY <1>1 DEF Kept, SecretsInvariant, SealedOnceUp, IsEncrypted
  <1>4. SecretsWereHandedOut'
    BY <1>1 DEF Kept, SecretsInvariant, SecretsWereHandedOut, TypeOK, Never, NoClaim
  <1>5. RowIsWhatWasTold'
    BY <1>1 DEF Kept, SecretsInvariant, RowIsWhatWasTold
  <1>6. ClaimsAreYoung'
    <2>1. \A i \in Instances : claim[i].time \in Int
      BY DEF Kept, SecretsInvariant, TypeOK
    <2> QED
      BY <1>1, <2>1 DEF Kept, SecretsInvariant, ClaimsAreYoung, NoClaim
  <1>7. ExpiredSecretsNeverSign' /\ OldSecretVerifiesInGrace'
    BY <1>1 DEF Kept, ExpiredSecretsNeverSign, OldSecretVerifiesInGrace
  <1> QED
    BY <1>2, <1>3, <1>4, <1>5, <1>6, <1>7 DEF Kept, SecretsInvariant

\* Start-up: listing the secrets stored in the clear keeps the invariant.
LEMMA ListPlaintextSecretsKeeps ==
    ASSUME Kept, NEW i \in Instances, ListPlaintextSecrets(i)
    PROVE  Kept'
  <1> USE Numbers
  <1>1. /\ phase[i] = "down"
        /\ UNCHANGED <<now, row, newest, until, claim, sent, undone>>
        /\ \/ /\ row.current.sealed /\ row.previous.sealed
              /\ phase' = [phase EXCEPT ![i] = "up"] /\ listed' = listed
           \/ /\ phase' = [phase EXCEPT ![i] = "listed"]
              /\ listed' = [listed EXCEPT ![i] = row]
    BY DEF ListPlaintextSecrets, IsEncrypted
  <1>t. /\ phase \in [Instances -> {"down", "listed", "up"}] /\ listed \in [Instances -> Row \cup {None}]
        /\ row \in Row /\ row.current.secret \in Secrets
    BY DEF Kept, SecretsInvariant, TypeOK
  <1>n. /\ \A j \in Instances : phase'[j] = "up" => phase[j] = "up" \/ (row.current.sealed /\ row.previous.sealed)
        /\ \A j \in Instances : phase'[j] = "listed" =>
               (phase[j] = "listed" /\ listed'[j] = listed[j]) \/ listed'[j] = row
    BY <1>1, <1>t
  <1>2. TypeOK'
    BY <1>1, <1>t DEF Kept, SecretsInvariant, TypeOK
  <1>3. SealedOnceUp'
    BY <1>1, <1>n DEF Kept, SecretsInvariant, SealedOnceUp, IsEncrypted
  <1>4. SecretsWereHandedOut'
    BY <1>1, <1>n, <1>t DEF Kept, SecretsInvariant, SecretsWereHandedOut, Never, NoClaim, Secrets
  <1>5. RowIsWhatWasTold'
    BY <1>1, <1>n, <1>t DEF Kept, SecretsInvariant, RowIsWhatWasTold
  <1>6. ClaimsAreYoung'
    BY <1>1 DEF Kept, SecretsInvariant, ClaimsAreYoung, NoClaim
  <1>7. ExpiredSecretsNeverSign' /\ OldSecretVerifiesInGrace'
    BY <1>1 DEF Kept, ExpiredSecretsNeverSign, OldSecretVerifiesInGrace
  <1> QED
    BY <1>2, <1>3, <1>4, <1>5, <1>6, <1>7 DEF Kept, SecretsInvariant

\* Start-up: writing a listed secret back encrypted keeps the invariant, a rotation in
\* between included.
LEMMA SetEncryptedSecretKeeps ==
    ASSUME Kept, NEW i \in Instances, SetEncryptedSecret(i)
    PROVE  Kept'
  <1> USE Numbers
  <1> DEFINE l == listed[i]
  <1>t. /\ phase \in [Instances -> {"down", "listed", "up"}] /\ listed \in [Instances -> Row \cup {None}]
        /\ row \in Row /\ phase[i] = "listed" /\ undone \in BOOLEAN
    BY DEF Kept, SecretsInvariant, TypeOK, SetEncryptedSecret
  <1>l. l \in Row /\ l.current.secret \in 1..newest /\ l.previous.secret =< newest
    BY <1>t DEF Kept, SecretsInvariant, SecretsWereHandedOut
  <1>1. /\ UNCHANGED <<now, newest, until, claim, sent>>
        /\ undone' = (undone \/ l.current.secret /= row.current.secret)
        /\ phase' = [phase EXCEPT ![i] = "up"]
        /\ listed' = [listed EXCEPT ![i] = None]
    BY DEF SetEncryptedSecret
  <1>r. /\ row' \in Row /\ row'.current.secret = l.current.secret /\ row'.previous.secret = l.previous.secret
        /\ row'.current.sealed = TRUE /\ row'.previous.sealed = TRUE /\ row'.expires = row.expires
    BY <1>t, <1>l DEF SetEncryptedSecret, Encrypt, Row, Stored
  <1>n. /\ \A j \in Instances : phase'[j] = "listed" => phase[j] = "listed" /\ listed'[j] = listed[j]
    BY <1>1, <1>t
  <1>s. 1..newest \subseteq Secrets
    BY DEF Secrets
  <1> HIDE DEF l
  <1>2. TypeOK'
    BY <1>1, <1>t, <1>l, <1>r, <1>s DEF Kept, SecretsInvariant, TypeOK
  <1>3. SealedOnceUp'
    BY <1>r DEF SealedOnceUp, IsEncrypted
  <1>4. SecretsWereHandedOut'
    BY <1>1, <1>n, <1>l, <1>r DEF Kept, SecretsInvariant, SecretsWereHandedOut, Never, NoClaim, Secrets
  <1>5. RowIsWhatWasTold'
    <2> SUFFICES ASSUME ~undone'
                 PROVE  /\ row'.current.secret = newest
                        /\ \/ row'.previous.secret = newest - 1 /\ row'.expires = until[newest - 1]
                           \/ /\ row'.previous.secret \in {0, newest - 1}
                              /\ row'.expires = None /\ until[newest - 1] =< now
                        /\ \A j \in Instances :
                               phase[j] = "listed" /\ listed[j].current.secret = newest
                                   => \/ listed[j].previous.secret = newest - 1
                                      \/ listed[j].previous.secret = 0 /\ row'.expires = None
      BY <1>1, <1>n DEF RowIsWhatWasTold
    <2>1. ~undone /\ l.current.secret = row.current.secret
      BY <1>1
    <2>2. /\ row.current.secret = newest
          /\ \/ row.previous.secret = newest - 1 /\ row.expires = until[newest - 1]
             \/ row.expires = None /\ until[newest - 1] =< now
          /\ \A j \in Instances :
                 phase[j] = "listed" /\ listed[j].current.secret = newest
                     => \/ listed[j].previous.secret = newest - 1
                        \/ listed[j].previous.secret = 0 /\ row.expires = None
      BY <2>1 DEF Kept, SecretsInvariant, RowIsWhatWasTold
    <2>3. l.previous.secret = newest - 1 \/ (l.previous.secret = 0 /\ row.expires = None)
      BY <1>t, <2>1, <2>2 DEF l
    <2>4. row'.current.secret = newest
      BY <1>r, <2>1, <2>2
    <2>5. \/ row'.previous.secret = newest - 1 /\ row'.expires = until[newest - 1]
          \/ /\ row'.previous.secret \in {0, newest - 1}
             /\ row'.expires = None /\ until[newest - 1] =< now
      <3>1. CASE row.expires = until[newest - 1] /\ row.expires /= None
        BY <1>r, <2>3, <3>1
      <3>2. CASE row.expires = None /\ until[newest - 1] =< now
        BY <1>r, <2>3, <3>2
      <3>3. CASE row.expires = None /\ row.expires = until[newest - 1]
        <4>1. newest - 1 \in 1..MaxSecrets
          OBVIOUS
        <4> QED
          BY <3>3, <4>1, SendsArePrompt
      <3> QED
        BY <2>2, <3>1, <3>2, <3>3
    <2>6. \A j \in Instances :
              phase[j] = "listed" /\ listed[j].current.secret = newest
                  => \/ listed[j].previous.secret = newest - 1
                     \/ listed[j].previous.secret = 0 /\ row'.expires = None
      BY <1>r, <2>2
    <2> QED
      BY <2>4, <2>5, <2>6
  <1>6. ClaimsAreYoung'
    BY <1>1 DEF Kept, SecretsInvariant, ClaimsAreYoung, NoClaim
  <1>7. ExpiredSecretsNeverSign' /\ OldSecretVerifiesInGrace'
    BY <1>1 DEF Kept, ExpiredSecretsNeverSign, OldSecretVerifiesInGrace
  <1> QED
    BY <1>2, <1>3, <1>4, <1>5, <1>6, <1>7 DEF Kept, SecretsInvariant

\* A process that dies while it re-encrypts keeps the invariant.
LEMMA CrashKeeps ==
    ASSUME Kept, NEW i \in Instances, Crash(i)
    PROVE  Kept'
  <1> USE Numbers
  <1>t. /\ phase \in [Instances -> {"down", "listed", "up"}] /\ listed \in [Instances -> Row \cup {None}]
        /\ claim \in [Instances -> Claims]
    BY DEF Kept, SecretsInvariant, TypeOK, Claims
  <1>1. /\ UNCHANGED <<now, row, newest, until, sent, undone>>
        /\ phase' = [phase EXCEPT ![i] = "down"]
        /\ listed' = [listed EXCEPT ![i] = None]
        /\ claim' = [claim EXCEPT ![i] = NoClaim]
    BY DEF Crash
  <1>n. /\ \A j \in Instances : phase'[j] = "listed" => phase[j] = "listed" /\ listed'[j] = listed[j]
        /\ \A j \in Instances : phase'[j] = "up" => phase[j] = "up"
        /\ \A j \in Instances : claim'[j] /= NoClaim => claim[j] /= NoClaim /\ claim'[j] = claim[j]
    BY <1>1, <1>t
  <1>2. TypeOK'
    <2>1. NoClaim \in Claims
      BY DEF NoClaim, Claims, Never
    <2>2. claim' \in [Instances -> Claims]
      BY <1>1, <1>t, <2>1
    <2> QED
      BY <1>1, <1>t, <2>2 DEF Kept, SecretsInvariant, TypeOK, Claims
  <1>3. SealedOnceUp'
    BY <1>1, <1>n DEF Kept, SecretsInvariant, SealedOnceUp, IsEncrypted
  <1>4. SecretsWereHandedOut'
    BY <1>1, <1>n DEF Kept, SecretsInvariant, SecretsWereHandedOut, NoClaim, Never
  <1>5. RowIsWhatWasTold'
    BY <1>1, <1>n DEF Kept, SecretsInvariant, RowIsWhatWasTold
  <1>6. ClaimsAreYoung'
    BY <1>1, <1>n DEF Kept, SecretsInvariant, ClaimsAreYoung, NoClaim
  <1>7. ExpiredSecretsNeverSign' /\ OldSecretVerifiesInGrace'
    BY <1>1 DEF Kept, ExpiredSecretsNeverSign, OldSecretVerifiesInGrace
  <1> QED
    BY <1>2, <1>3, <1>4, <1>5, <1>6, <1>7 DEF Kept, SecretsInvariant

\* Purging the expired secrets keeps the invariant (PurgeExpiredPreviousSecrets).
LEMMA PurgeKeeps ==
    ASSUME Kept, NEW i \in Instances, PurgeExpiredPreviousSecrets(i)
    PROVE  Kept'
  <1> USE Numbers
  <1>1. /\ UNCHANGED <<now, newest, until, phase, listed, claim, sent, undone>>
        /\ phase[i] = "up" /\ row.expires /= None /\ row.expires =< now
    BY DEF PurgeExpiredPreviousSecrets
  <1>t. row \in Row /\ row.current.secret \in Secrets
    BY DEF Kept, SecretsInvariant, TypeOK
  <1>r. /\ row' \in Row /\ row'.current = row.current /\ row'.previous.secret = 0
        /\ row'.previous.sealed = TRUE /\ row'.expires = None
    <2>1. Blank \in Stored /\ Blank.secret = 0 /\ Blank.sealed = TRUE
      BY DEF Blank, Stored
    <2>2. row' = [row EXCEPT !.previous = Blank, !.expires = None]
      BY DEF PurgeExpiredPreviousSecrets
    <2> QED
      BY <1>t, <2>1, <2>2 DEF Row
  <1>2. TypeOK'
    BY <1>1, <1>r DEF Kept, SecretsInvariant, TypeOK
  <1>3. SealedOnceUp'
    BY <1>1, <1>r DEF Kept, SecretsInvariant, SealedOnceUp, IsEncrypted
  <1>4. SecretsWereHandedOut'
    BY <1>1, <1>r DEF Kept, SecretsInvariant, SecretsWereHandedOut, NoClaim, Never
  <1>5. RowIsWhatWasTold'
    BY <1>1, <1>r DEF Kept, SecretsInvariant, RowIsWhatWasTold
  <1>6. ClaimsAreYoung'
    BY <1>1 DEF Kept, SecretsInvariant, ClaimsAreYoung, NoClaim
  <1>7. ExpiredSecretsNeverSign' /\ OldSecretVerifiesInGrace'
    BY <1>1 DEF Kept, ExpiredSecretsNeverSign, OldSecretVerifiesInGrace
  <1> QED
    BY <1>2, <1>3, <1>4, <1>5, <1>6, <1>7 DEF Kept, SecretsInvariant

\* A rotation announces the end of the newest secret only, an instant that lies after
\* every claim and every POST that used it.
LEMMA RotateSecretKeeps ==
    ASSUME Kept, NEW i \in Instances, RotateSecret(i)
    PROVE  Kept'
  <1> USE Numbers
  <1>1. /\ phase[i] = "up" /\ newest < MaxSecrets /\ newest' = newest + 1
        /\ UNCHANGED <<now, phase, listed, claim, sent, undone>>
        /\ until' = [until EXCEPT ![newest] = now + RotationGrace]
    BY DEF RotateSecret
  <1>t. row \in Row /\ row.current.secret \in Secrets /\ until \in [Secrets -> 0..Never]
    BY DEF Kept, SecretsInvariant, TypeOK
  <1>r. /\ row' \in Row /\ row'.current.secret = newest + 1 /\ row'.previous = row.current
        /\ row'.current.sealed = TRUE /\ row'.expires = now + RotationGrace
    <2>1. now + RotationGrace \in 0..Never /\ newest + 1 \in 0..MaxSecrets
      BY <1>1
    <2> QED
      BY <1>t, <2>1 DEF RotateSecret, Row, Stored
  <1>u. /\ until'[newest] = now + RotationGrace
        /\ \A s \in Secrets : s /= newest => until'[s] = until[s]
        /\ until' \in [Secrets -> 0..Never]
    <2>1. now + RotationGrace \in 0..Never /\ newest \in Secrets
      BY <1>1 DEF Secrets
    <2> QED
      BY <1>1, <1>t, <2>1
  <1>h. SecretsWereHandedOut
    BY DEF Kept, SecretsInvariant
  <1>2. TypeOK'
    <2>1. newest + 1 \in Secrets
      BY <1>1 DEF Secrets
    <2> QED
      BY <1>1, <1>r, <1>u, <2>1 DEF Kept, SecretsInvariant, TypeOK
  <1>3. SealedOnceUp'
    BY <1>1, <1>r DEF Kept, SecretsInvariant, SealedOnceUp, IsEncrypted
  <1>4. SecretsWereHandedOut'
    <2>1. \A s \in (newest + 1)..MaxSecrets : until'[s] = Never
      <3>1. \A s \in (newest + 1)..MaxSecrets : s \in newest..MaxSecrets /\ s \in Secrets /\ s /= newest
        BY DEF Secrets
      <3> QED
        BY <1>h, <1>u, <3>1 DEF SecretsWereHandedOut
    <2>2. row'.current.secret =< newest + 1 /\ row'.previous.secret =< newest + 1
      <3>1. row.current.secret \in Int /\ row.current.secret =< newest
        BY <1>h, <1>t DEF SecretsWereHandedOut, Secrets
      <3> QED
        BY <1>r, <3>1
    <2>3. ASSUME NEW j \in Instances
          PROVE  /\ phase[j] = "listed" => /\ listed[j] \in Row /\ listed[j].current.secret \in 1..(newest + 1)
                                           /\ listed[j].previous.secret =< newest + 1
                 /\ claim[j] /= NoClaim => claim[j].current \in 1..(newest + 1) /\ claim[j].previous =< newest + 1
      <3>1. /\ phase[j] = "listed" => /\ listed[j] \in Row /\ listed[j].current.secret \in 1..newest
                                      /\ listed[j].previous.secret =< newest
            /\ claim[j] /= NoClaim => claim[j].current \in 1..newest /\ claim[j].previous =< newest
        BY <1>h DEF SecretsWereHandedOut
      <3>2. claim[j].previous \in Int /\ (listed[j] \in Row => listed[j].previous.secret \in Int)
        BY DEF Kept, SecretsInvariant, TypeOK, Row, Stored
      <3> QED
        BY <3>1, <3>2
    <2>4. sent.secrets \subseteq 1..(newest + 1) /\ sent.newest =< newest + 1 /\ sent.time =< now
      <3>1. sent.newest \in Int
        BY DEF Kept, SecretsInvariant, TypeOK
      <3> QED
        BY <1>h, <3>1 DEF SecretsWereHandedOut
    <2> QED
      BY <1>1, <2>1, <2>2, <2>3, <2>4 DEF SecretsWereHandedOut, NoClaim, Never
  <1>5. RowIsWhatWasTold'
    <2> SUFFICES ASSUME ~undone
                 PROVE  /\ row'.current.secret = newest + 1
                        /\ row'.previous.secret = newest /\ row'.expires = until'[newest]
                        /\ \A j \in Instances : ~(phase[j] = "listed" /\ listed[j].current.secret = newest + 1)
      <3>1. (newest + 1) - 1 = newest
        OBVIOUS
      <3> QED
        BY <1>1, <3>1 DEF RowIsWhatWasTold
    <2>1. row.current.secret = newest
      BY DEF Kept, SecretsInvariant, RowIsWhatWasTold
    <2>2. \A j \in Instances : phase[j] = "listed" => listed[j].current.secret \in 1..newest
      BY <1>h DEF SecretsWereHandedOut
    <2>3. newest + 1 \notin 1..newest
      OBVIOUS
    <2> QED
      BY <1>r, <1>u, <2>1, <2>2, <2>3
  <1>6. ClaimsAreYoung'
    <2> SUFFICES ASSUME NEW j \in Instances, claim[j] /= NoClaim
                 PROVE  LET c == claim[j] IN
                        /\ c.time =< now /\ now =< c.time + MaxSendDelay
                        /\ ~undone =>
                               /\ c.current > 1 /\ until'[c.current] >= c.time + RotationGrace
                               /\ \/ c.previous = c.current - 1 /\ c.expires = until'[c.current - 1]
                                  \/ c.expires = None /\ until'[c.current - 1] =< c.time
      BY <1>1 DEF ClaimsAreYoung, NoClaim
    <2> DEFINE c == claim[j]
    <2>1. /\ c.time =< now /\ now =< c.time + MaxSendDelay
          /\ ~undone =>
                 /\ c.current > 1 /\ until[c.current] >= c.time + RotationGrace
                 /\ \/ c.previous = c.current - 1 /\ c.expires = until[c.current - 1]
                    \/ c.expires = None /\ until[c.current - 1] =< c.time
      BY DEF Kept, SecretsInvariant, ClaimsAreYoung
    <2>2. c.current \in 1..newest /\ c.time \in Int
      BY <1>h DEF SecretsWereHandedOut, Kept, SecretsInvariant, TypeOK
    <2> HIDE DEF c
    <2>3. ASSUME ~undone
          PROVE  until'[c.current] >= c.time + RotationGrace /\ until'[c.current - 1] = until[c.current - 1]
      <3>1. c.current \in Secrets /\ c.current - 1 \in Secrets /\ c.current - 1 /= newest
        BY <2>1, <2>2, <2>3 DEF Secrets
      <3>2. until'[c.current - 1] = until[c.current - 1]
        BY <1>u, <3>1
      <3>3. CASE c.current = newest
        BY <1>u, <2>1, <2>2, <3>2, <3>3
      <3>4. CASE c.current /= newest
        BY <1>u, <2>1, <2>3, <3>1, <3>2, <3>4
      <3> QED
        BY <3>3, <3>4
    <2> QED
      BY <2>1, <2>3 DEF c
  <1>7. ExpiredSecretsNeverSign'
    <2> SUFFICES ASSUME ~sent.undone, NEW s \in sent.secrets
                 PROVE  sent.time < until'[s]
      BY <1>1 DEF ExpiredSecretsNeverSign
    <2>1. s \in Secrets /\ sent.time \in Int /\ sent.time =< now
      BY <1>h DEF SecretsWereHandedOut, Kept, SecretsInvariant, TypeOK
    <2>2. sent.time < until[s]
      BY DEF Kept, ExpiredSecretsNeverSign
    <2>3. CASE s = newest
      BY <1>u, <2>1, <2>3
    <2>4. CASE s /= newest
      BY <1>u, <2>1, <2>2, <2>4
    <2> QED
      BY <2>3, <2>4
  <1>8. OldSecretVerifiesInGrace'
    <2> SUFFICES ASSUME sent.newest - 1 > 0, ~sent.undone, sent.claimed >= sent.newest - 1,
                        sent.time < until'[sent.newest - 1]
                 PROVE  sent.newest - 1 \in sent.secrets
      BY <1>1 DEF OldSecretVerifiesInGrace
    <2>1. sent.newest \in 0..MaxSecrets /\ sent.newest =< newest
      BY <1>h DEF SecretsWereHandedOut, Kept, SecretsInvariant, TypeOK
    <2>2. sent.newest - 1 \in Secrets /\ sent.newest - 1 /= newest
      BY <2>1 DEF Secrets
    <2>3. until'[sent.newest - 1] = until[sent.newest - 1]
      BY <1>u, <2>2
    <2> QED
      BY <2>3 DEF Kept, OldSecretVerifiesInGrace
  <1> QED
    BY <1>2, <1>3, <1>4, <1>5, <1>6, <1>7, <1>8 DEF Kept, SecretsInvariant

\* Claiming a delivery with the secrets of the moment keeps the invariant (ClaimDue).
LEMMA ClaimDueKeeps ==
    ASSUME Kept, NEW i \in Instances, ClaimDue(i)
    PROVE  Kept'
  <1> USE Numbers
  <1> DEFINE n == [current |-> row.current.secret, previous |-> row.previous.secret,
                   expires |-> row.expires, time |-> now]
  <1>t. /\ row \in Row /\ row.current.secret \in Secrets
        /\ claim \in [Instances -> Claims] /\ now \in 0..MaxTime
    BY DEF Kept, SecretsInvariant, TypeOK, Claims
  <1>1. /\ UNCHANGED <<now, row, newest, until, phase, listed, sent, undone>>
        /\ claim' = [claim EXCEPT ![i] = n]
    BY DEF ClaimDue
  <1>c. n \in Claims
    BY <1>t DEF Claims, Row, Stored
  <1>n. claim'[i] = n /\ \A j \in Instances : j /= i => claim'[j] = claim[j]
    <2> HIDE DEF n
    <2> QED
      BY <1>1, <1>t
  <1>h. SecretsWereHandedOut /\ RowIsWhatWasTold
    BY DEF Kept, SecretsInvariant
  <1>2. TypeOK'
    <2>1. claim' \in [Instances -> Claims]
      <3> HIDE DEF n
      <3> QED
        BY <1>1, <1>t, <1>c
    <2> QED
      BY <1>1, <2>1 DEF Kept, SecretsInvariant, TypeOK, Claims
  <1>3. SealedOnceUp'
    BY <1>1 DEF Kept, SecretsInvariant, SealedOnceUp, IsEncrypted
  <1>4. SecretsWereHandedOut'
    <2>1. n.current \in 1..newest /\ n.previous =< newest
      BY <1>h, <1>t DEF SecretsWereHandedOut, Secrets
    <2> HIDE DEF n
    <2> QED
      BY <1>1, <1>h, <1>n, <2>1 DEF SecretsWereHandedOut, NoClaim, Never
  <1>5. RowIsWhatWasTold'
    BY <1>1 DEF Kept, SecretsInvariant, RowIsWhatWasTold
  <1>6. ClaimsAreYoung'
    <2>1. /\ n.time =< now /\ now =< n.time + MaxSendDelay
          /\ ~undone =>
                 /\ n.current > 1 /\ until[n.current] >= n.time + RotationGrace
                 /\ \/ n.previous = n.current - 1 /\ n.expires = until[n.current - 1]
                    \/ n.expires = None /\ until[n.current - 1] =< n.time
      <3>1. n.time = now /\ n.current = row.current.secret /\ n.previous = row.previous.secret /\ n.expires = row.expires
        OBVIOUS
      <3> HIDE DEF n
      <3>2. newest \in newest..MaxSecrets /\ until[newest] = Never
        BY <1>h DEF SecretsWereHandedOut
      <3>3. Never >= now + RotationGrace
        OBVIOUS
      <3> QED
        BY <1>h, <3>1, <3>2, <3>3 DEF RowIsWhatWasTold
    <2> HIDE DEF n
    <2> QED
      BY <1>1, <1>n, <2>1 DEF Kept, SecretsInvariant, ClaimsAreYoung, NoClaim
  <1>7. ExpiredSecretsNeverSign' /\ OldSecretVerifiesInGrace'
    BY <1>1 DEF Kept, ExpiredSecretsNeverSign, OldSecretVerifiesInGrace
  <1> QED
    BY <1>2, <1>3, <1>4, <1>5, <1>6, <1>7 DEF Kept, SecretsInvariant

\* What a claim signs with: no secret whose instant has passed, and the secret that was
\* retired last as long as it verifies, if the claim is not older than its successor's.
LEMMA SigningSecretsFit ==
    ASSUME Kept, NEW i \in Instances, claim[i] /= NoClaim
    PROVE  /\ SigningSecrets(claim[i]) \subseteq 1..newest
           /\ ~undone => \A s \in SigningSecrets(claim[i]) : now < until[s]
           /\ ~undone /\ claim[i].current >= newest - 1 /\ now < until[newest - 1]
                  => newest - 1 \in SigningSecrets(claim[i])
  <1> USE Numbers
  <1> DEFINE c == claim[i]
  <1>1. c \in Claims
    BY DEF Kept, SecretsInvariant, TypeOK, Claims
  <1>2. c.current \in 1..newest /\ c.previous \in 0..newest
    BY <1>1 DEF Kept, SecretsInvariant, SecretsWereHandedOut, Claims
  <1>3. /\ c.time \in Int /\ c.time =< now /\ now =< c.time + MaxSendDelay
        /\ ~undone =>
               /\ c.current > 1 /\ until[c.current] >= c.time + RotationGrace
               /\ \/ c.previous = c.current - 1 /\ c.expires = until[c.current - 1]
                  \/ c.expires = None /\ until[c.current - 1] =< c.time
    BY <1>1 DEF Kept, SecretsInvariant, ClaimsAreYoung, Claims
  <1>4. /\ \A s \in SigningSecrets(c) :
               s = c.current \/ (s = c.previous /\ s /= 0 /\ c.expires /= None /\ now < c.expires)
        /\ c.current \in SigningSecrets(c)
        /\ c.previous /= 0 /\ c.expires /= None /\ now < c.expires => c.previous \in SigningSecrets(c)
    BY DEF SigningSecrets
  <1> HIDE DEF c
  <1>5. SigningSecrets(c) \subseteq 1..newest
    BY <1>2, <1>4
  <1>6. ASSUME ~undone, NEW s \in SigningSecrets(c)
        PROVE  now < until[s]
    <2>1. c.current \in 1..MaxSecrets
      BY <1>2
    <2>2. CASE s = c.current
      BY <1>3, <1>6, <2>1, <2>2
    <2>3. CASE s = c.previous /\ s /= 0 /\ c.expires /= None /\ now < c.expires
      BY <1>3, <1>6, <2>3
    <2> QED
      BY <1>4, <1>6, <2>2, <2>3
  <1>7. ASSUME ~undone, c.current >= newest - 1, now < until[newest - 1]
        PROVE  newest - 1 \in SigningSecrets(c)
    <2>0. newest - 1 \in 1..MaxSecrets
      OBVIOUS
    <2>1. CASE c.current = newest - 1
      BY <1>4, <2>1
    <2>2. CASE c.current = newest
      <3>1. c.previous = newest - 1 /\ c.expires = until[newest - 1]
        BY <1>3, <1>7, <2>0, <2>2
      <3>2. c.expires /= None /\ c.previous /= 0
        BY <2>0, <3>1, SendsArePrompt
      <3> QED
        BY <1>4, <1>7, <3>1, <3>2
    <2> QED
      BY <1>2, <1>7, <2>1, <2>2
  <1> QED
    BY <1>5, <1>6, <1>7 DEF c

\* Signing and sending a claimed delivery keeps the invariant (Send).
LEMMA SendKeeps ==
    ASSUME Kept, NEW i \in Instances, Send(i)
    PROVE  Kept'
  <1> USE Numbers
  <1>t. claim \in [Instances -> Claims] /\ undone \in BOOLEAN
    BY DEF Kept, SecretsInvariant, TypeOK, Claims
  <1>1. /\ UNCHANGED <<now, row, newest, until, phase, listed, undone>>
        /\ claim[i] /= NoClaim
        /\ claim' = [claim EXCEPT ![i] = NoClaim]
    BY DEF Send
  <1>s. /\ sent'.secrets = SigningSecrets(claim[i]) /\ sent'.time = now /\ sent'.claimed = claim[i].current
        /\ sent'.newest = newest /\ sent'.undone = undone
    BY DEF Send
  <1>n. \A j \in Instances : claim'[j] /= NoClaim => claim[j] /= NoClaim /\ claim'[j] = claim[j]
    BY <1>1, <1>t
  <1>f. /\ SigningSecrets(claim[i]) \subseteq 1..newest
        /\ ~undone => \A s \in SigningSecrets(claim[i]) : now < until[s]
        /\ ~undone /\ claim[i].current >= newest - 1 /\ now < until[newest - 1]
               => newest - 1 \in SigningSecrets(claim[i])
    BY <1>1, SigningSecretsFit
  <1>2. TypeOK'
    <2>1. NoClaim \in Claims
      BY DEF NoClaim, Claims, Never
    <2>2. claim' \in [Instances -> Claims]
      BY <1>1, <1>t, <2>1
    <2>3. SigningSecrets(claim[i]) \in SUBSET Secrets /\ newest \in 0..MaxSecrets
      BY <1>f DEF Secrets
    <2>4. claim[i].current \in 0..MaxSecrets
      BY <1>t DEF Claims
    <2>5. sent' \in [secrets : SUBSET Secrets, time : 0..MaxTime, claimed : 0..MaxSecrets,
                     newest : 0..MaxSecrets, undone : BOOLEAN]
      <3>1. sent' = [secrets |-> SigningSecrets(claim[i]), time |-> now,
                     claimed |-> claim[i].current, newest |-> newest, undone |-> undone]
        BY DEF Send
      <3>2. now \in 0..MaxTime
        BY DEF Kept, SecretsInvariant, TypeOK
      <3> QED
        BY <1>t, <2>3, <2>4, <3>1, <3>2
    <2> QED
      BY <1>1, <2>2, <2>5 DEF Kept, SecretsInvariant, TypeOK, Claims
  <1>3. SealedOnceUp'
    BY <1>1 DEF Kept, SecretsInvariant, SealedOnceUp, IsEncrypted
  <1>4. SecretsWereHandedOut'
    BY <1>1, <1>f, <1>n, <1>s DEF Kept, SecretsInvariant, SecretsWereHandedOut, NoClaim, Never
  <1>5. RowIsWhatWasTold'
    BY <1>1 DEF Kept, SecretsInvariant, RowIsWhatWasTold
  <1>6. ClaimsAreYoung'
    BY <1>1, <1>n DEF Kept, SecretsInvariant, ClaimsAreYoung, NoClaim
  <1>7. ExpiredSecretsNeverSign'
    BY <1>1, <1>f, <1>s DEF ExpiredSecretsNeverSign
  <1>8. OldSecretVerifiesInGrace'
    BY <1>1, <1>f, <1>s DEF OldSecretVerifiesInGrace
  <1> QED
    BY <1>2, <1>3, <1>4, <1>5, <1>6, <1>7, <1>8 DEF Kept, SecretsInvariant

\* Every step of the rotations, the purge, the start-up and the dispatch keeps the
\* invariant.
LEMMA SecretsStep ==
    Kept /\ [Next]_vars => Kept'
  <1> SUFFICES ASSUME Kept, [Next]_vars
               PROVE  Kept'
    OBVIOUS
  <1>1. CASE UNCHANGED vars
    BY <1>1 DEF vars, Kept, SecretsInvariant, TypeOK, SealedOnceUp, SecretsWereHandedOut, RowIsWhatWasTold,
                ClaimsAreYoung, ExpiredSecretsNeverSign, OldSecretVerifiesInGrace, IsEncrypted
  <1>2. CASE Tick
    BY <1>2, TickKeeps
  <1>3. ASSUME NEW i \in Instances,
               \/ ListPlaintextSecrets(i) \/ SetEncryptedSecret(i) \/ Crash(i)
               \/ RotateSecret(i) \/ PurgeExpiredPreviousSecrets(i)
               \/ ClaimDue(i) \/ Send(i)
        PROVE  Kept'
    BY <1>3, ListPlaintextSecretsKeeps, SetEncryptedSecretKeeps, CrashKeeps, RotateSecretKeeps, PurgeKeeps,
       ClaimDueKeeps, SendKeeps
  <1> QED
    BY <1>1, <1>2, <1>3 DEF Next

(***************************************************************************)
(* With any number of instances, rotations and crashes: once an instance   *)
(* is up the columns hold ciphertext only, and until a start-up overwrites *)
(* a rotation the row, the claims and the announced instants agree         *)
(* (ReencryptPlaintextSecrets, RotateSecret, ClaimDue).                    *)
(***************************************************************************)
THEOREM SecretsAlwaysInvariant == Spec => []SecretsInvariant
  <1>1. Kept => SecretsInvariant
    BY DEF Kept
  <1> QED
    BY <1>1, SecretsInit, SecretsStep, PTL DEF Spec

(***************************************************************************)
(* No secret signs after the instant the tenant was told, for every grace  *)
(* window that is longer than a send may take (signingSecrets).            *)
(***************************************************************************)
THEOREM ExpiredNeverSign == Spec => []ExpiredSecretsNeverSign
  <1>1. Kept => ExpiredSecretsNeverSign
    BY DEF Kept
  <1> QED
    BY <1>1, SecretsInit, SecretsStep, PTL DEF Spec

(***************************************************************************)
(* A receiver with the secret that was retired last verifies every         *)
(* delivery until the announced instant, also one that was claimed before  *)
(* the rotation (RotateSecret, ClaimDue, Send).                            *)
(***************************************************************************)
THEOREM OldSecretAlwaysVerifies == Spec => []OldSecretVerifiesInGrace
  <1>1. Kept => OldSecretVerifiesInGrace
    BY DEF Kept
  <1> QED
    BY <1>1, SecretsInit, SecretsStep, PTL DEF Spec
=============================================================================
