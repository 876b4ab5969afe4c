-------------------------- MODULE SigningKeysProofs --------------------------
(***************************************************************************)
(* Proofs about SigningKeys: a key signs only once it is published, an     *)
(* instance that is up has left no key in the clear, and no request takes  *)
(* a valid token's key for unknown.                                        *)
(***************************************************************************)
EXTENDS SigningKeys, TLAPS, FiniteSetTheorems, WellFoundedInduction

\* A non-empty set of key numbers has a last one: of the intervals x..MaxKeys that begin
\* in the set, one contains no other.
LEMMA MaxIsLast ==
    ASSUME NEW S, S \subseteq 0..MaxKeys, S # {}
    PROVE  Max(S) \in S
  <1>1. MaxKeys \in Nat /\ S \subseteq Nat
    BY KeysAreNumbered
  <1> DEFINE Base == 0..MaxKeys
             B == {x..MaxKeys : x \in S}
  <1>2. IsFiniteSet(Base) /\ B \subseteq SUBSET Base /\ B # {}
    <2>1. IsFiniteSet(Base)
      BY <1>1, FS_Interval
    <2>2. \A x \in S : x..MaxKeys \in SUBSET Base
      BY <1>1
    <2>3. B # {}
      OBVIOUS
    <2> HIDE DEF Base
    <2> QED
      BY <2>1, <2>2, <2>3
  <1>3. PICK s \in B : \A t \in B : ~(<<t, s>> \in StrictSubsetOrdering(Base))
    <2> HIDE DEF B, Base
    <2>1. B \subseteq FiniteSubsetsOf(Base)
      BY <1>2, FS_FiniteSubsetsOfFinite
    <2> QED
      BY <1>2, <2>1, WFMin, FS_StrictSubsetOrderingWellFounded
  <1>4. PICK x \in S : s = x..MaxKeys
    BY <1>3
  <1>5. ASSUME NEW y \in S, y > x
        PROVE  FALSE
    <2>1. x \in 0..MaxKeys /\ y \in 0..MaxKeys
      OBVIOUS
    <2>2. y..MaxKeys \in B /\ y..MaxKeys \subseteq s /\ y..MaxKeys # s
      <3>1. x \in x..MaxKeys /\ x \notin y..MaxKeys
        BY <1>1, <1>5, <2>1
      <3> QED
        BY <1>1, <1>4, <1>5, <2>1, <3>1
    <2>3. <<y..MaxKeys, s>> \in StrictSubsetOrdering(Base)
      BY <1>2, <1>3, <2>2 DEF StrictSubsetOrdering
    <2> QED
      BY <1>3, <2>2, <2>3
  <1>6. \A y \in S : x >= y
    BY <1>1, <1>5
  <1> QED
    BY <1>6 DEF Max

\* The records of the state
InstanceState == [at : {"down", "sealing", "inserting", "up"}, kid : 0..MaxKeys, todo : SUBSET Kids]
CallState == [at : Settled \cup {"fetching", "answered", "stored"},
              kid : 0..MaxKeys, known : BOOLEAN, doc : SUBSET Kids]

\* The shapes of the state, one by one.
LEMMA Shapes ==
    ASSUME KeysInvariant
    PROVE  /\ table \in [Kids -> {"none", "plain", "sealed"}]
           /\ instance \in [Instances -> InstanceState]
           /\ call \in [Callers -> CallState]
           /\ signed \subseteq Kids /\ cache \subseteq Kids
           /\ fresh \in BOOLEAN /\ started \in BOOLEAN /\ faults \in 0..MaxFaults
           /\ MaxKeys \in Nat /\ MaxFaults \in Nat
  BY KeysAreNumbered DEF KeysInvariant, TypeOK, InstanceState, CallState

\* What only an instance's start-up changes: the calls and the cache stay sound as long
\* as the keys that have signed do.
LEMMA StartingKeeps ==
    ASSUME KeysInvariant, NEW i \in Instances, NEW s \in InstanceState,
           instance' = [instance EXCEPT ![i] = s],
           table' \in [Kids -> {"none", "plain", "sealed"}],
           \A k \in Kids : table[k] /= "none" => table'[k] /= "none",
           \A k \in Kids : table'[k] = "plain" => table[k] = "plain",
           s.at = "sealing" => {k \in Kids : table'[k] = "plain"} \subseteq s.todo,
           s.at = "inserting" => s.kid \in Kids,
           s.at \in {"inserting", "up"} => \A k \in Kids : table'[k] /= "plain",
           s.at \in {"sealing", "up"} => s.kid \in Kids /\ table'[s.kid] /= "none",
           faults' \in 0..MaxFaults,
           UNCHANGED <<signed, cache, fresh, started, call>>
    PROVE  KeysInvariant'
  <1> USE Shapes
  <1>n. instance'[i] = s /\ \A j \in Instances : j /= i => instance'[j] = instance[j]
    OBVIOUS
  <1>a. ActiveKeys \subseteq ActiveKeys'
    BY DEF ActiveKeys
  <1>1. TypeOK'
    <2>1. instance' \in [Instances -> InstanceState]
      OBVIOUS
    <2> QED
      BY <2>1 DEF KeysInvariant, TypeOK, InstanceState
  <1>2. SignersArePublished'
    BY <1>a DEF KeysInvariant, SignersArePublished
  <1>3. SealedOnceUp'
    BY <1>n DEF KeysInvariant, SealedOnceUp
  <1>4. StartUpSealsAll'
    <2> SUFFICES ASSUME NEW j \in Instances
                 PROVE  /\ instance'[j].at = "sealing" => {k \in Kids : table'[k] = "plain"} \subseteq instance'[j].todo
                        /\ instance'[j].at = "inserting" =>
                               instance'[j].kid \in Kids /\ \A k \in Kids : table'[k] /= "plain"
                        /\ instance'[j].at \in {"sealing", "up"} => instance'[j].kid \in ActiveKeys'
      BY DEF StartUpSealsAll
    <2>1. CASE j = i
      BY <1>n, <2>1 DEF ActiveKeys
    <2>2. CASE j /= i
      BY <1>a, <1>n, <2>2 DEF KeysInvariant, StartUpSealsAll
    <2> QED
      BY <2>1, <2>2
  <1>5. AnswersHoldTheKey'
    BY DEF KeysInvariant, AnswersHoldTheKey
  <1> QED
    BY <1>1, <1>2, <1>3, <1>4, <1>5 DEF KeysInvariant

\* Start-up: listing the active keys and taking the newest keeps the invariant.
LEMMA ListActiveSigningKeysKeeps ==
    ASSUME KeysInvariant, NEW i \in Instances, ListActiveSigningKeys(i)
    PROVE  KeysInvariant'
  <1> USE Shapes
  <1>1. UNCHANGED <<table, signed, cache, fresh, started, call, faults>>
    BY DEF ListActiveSigningKeys
  <1>2. CASE ActiveKeys /= {}
    <2> DEFINE s == [at |-> "sealing", kid |-> Max(ActiveKeys), todo |-> {k \in ActiveKeys : table[k] = "plain"}]
    <2>1. instance' = [instance EXCEPT ![i] = s]
      BY <1>2 DEF ListActiveSigningKeys
    <2>2. Max(ActiveKeys) \in ActiveKeys /\ ActiveKeys \subseteq Kids
      <3>1. ActiveKeys \subseteq Kids /\ Kids \subseteq 0..MaxKeys
        BY DEF ActiveKeys, Kids
      <3> QED
        BY <1>2, <3>1, MaxIsLast
    <2>3. s \in InstanceState
      <3>1. {k \in ActiveKeys : table[k] = "plain"} \in SUBSET Kids /\ Max(ActiveKeys) \in 0..MaxKeys
        <4>1. Max(ActiveKeys) \in Kids
          BY <2>2
        <4>2. Kids \subseteq 0..MaxKeys
          BY DEF Kids
        <4>3. {k \in ActiveKeys : table[k] = "plain"} \in SUBSET Kids
          BY <2>2
        <4> QED
          BY <4>1, <4>2, <4>3
      <3> QED
        BY <3>1 DEF InstanceState
    <2>4. /\ s.at = "sealing" /\ {k \in Kids : table'[k] = "plain"} \subseteq s.todo
          /\ s.kid \in Kids /\ table'[s.kid] /= "none"
      BY <1>1, <2>2 DEF ActiveKeys
    <2> HIDE DEF s
    <2> QED
      BY <1>1, <2>1, <2>3, <2>4, StartingKeeps
  <1>3. CASE ActiveKeys = {}
    <2> DEFINE s == [at |-> "inserting", kid |-> Max(Made) + 1, todo |-> {}]
    <2>1. instance' = [instance EXCEPT ![i] = s] /\ Max(Made) < MaxKeys
      BY <1>3 DEF ListActiveSigningKeys
    <2>2. Max(Made) \in 0..MaxKeys
      <3>1. Made \subseteq 0..MaxKeys /\ Made # {}
        <4>1. \A j \in Instances : instance[j].kid \in 0..MaxKeys
          BY DEF InstanceState
        <4> QED
          BY <4>1 DEF Made, ActiveKeys, Kids
      <3> QED
        BY <3>1, MaxIsLast
    <2>3. s \in InstanceState /\ s.kid \in Kids
      BY <2>1, <2>2 DEF InstanceState, Kids
    <2>4. s.at = "inserting" /\ \A k \in Kids : table'[k] /= "plain"
      BY <1>1, <1>3 DEF ActiveKeys
    <2> HIDE DEF s
    <2> QED
      BY <1>1, <2>1, <2>3, <2>4, StartingKeeps
  <1> QED
    BY <1>2, <1>3

\* Start-up: sealing one key that was stored in the clear keeps the invariant.
LEMMA UpdateSigningKeyKeeps ==
    ASSUME KeysInvariant, NEW i \in Instances, UpdateSigningKeyPrivatePEM(i)
    PROVE  KeysInvariant'
  <1> USE Shapes
  <1> DEFINE k == Max(instance[i].todo)
             s == [instance[i] EXCEPT !.todo = @ \ {k}]
  <1>1. /\ instance[i].at = "sealing" /\ instance[i].todo /= {}
        /\ table' = [table EXCEPT ![k] = "sealed"]
        /\ instance' = [instance EXCEPT ![i] = s]
        /\ UNCHANGED <<signed, cache, fresh, started, call, faults>>
    BY DEF UpdateSigningKeyPrivatePEM
  <1>2. k \in instance[i].todo /\ k \in Kids
    <2>1. instance[i].todo \subseteq Kids /\ Kids \subseteq 0..MaxKeys
      BY DEF InstanceState, Kids
    <2> QED
      BY <1>1, <2>1, MaxIsLast
  <1> HIDE DEF k
  <1>3. s \in InstanceState /\ s.at = "sealing" /\ s.kid = instance[i].kid /\ s.todo = instance[i].todo \ {k}
    BY <1>1 DEF InstanceState
  <1>4. /\ {j \in Kids : table[j] = "plain"} \subseteq instance[i].todo
        /\ instance[i].kid \in ActiveKeys
    BY <1>1 DEF KeysInvariant, StartUpSealsAll
  <1>5. /\ table' \in [Kids -> {"none", "plain", "sealed"}]
        /\ table'[k] = "sealed" /\ \A j \in Kids : j /= k => table'[j] = table[j]
    BY <1>1, <1>2
  <1>6. {j \in Kids : table'[j] = "plain"} \subseteq s.todo
    BY <1>3, <1>4, <1>5
  <1>7. s.kid \in Kids /\ table'[s.kid] /= "none"
    BY <1>3, <1>4, <1>5 DEF ActiveKeys
  <1>8. /\ \A j \in Kids : table[j] /= "none" => table'[j] /= "none"
        /\ \A j \in Kids : table'[j] = "plain" => table[j] = "plain"
    BY <1>5
  <1> HIDE DEF s
  <1> QED
    BY <1>1, <1>3, <1>5, <1>6, <1>7, <1>8, StartingKeeps

\* Start-up: signing with the key that was found keeps the invariant.
LEMMA UseExistingKeeps ==
    ASSUME KeysInvariant, NEW i \in Instances, UseExisting(i)
    PROVE  KeysInvariant'
  <1> USE Shapes
  <1> DEFINE s == [instance[i] EXCEPT !.at = "up"]
  <1>1. /\ instance[i].at = "sealing" /\ instance[i].todo = {}
        /\ instance' = [instance EXCEPT ![i] = s]
        /\ UNCHANGED <<table, signed, cache, fresh, started, call, faults>>
    BY DEF UseExisting
  <1>2. s \in InstanceState /\ s.at = "up" /\ s.kid = instance[i].kid
    BY DEF InstanceState
  <1>3. (\A j \in Kids : table[j] /= "plain") /\ instance[i].kid \in ActiveKeys
    BY <1>1 DEF KeysInvariant, StartUpSealsAll
  <1>4. s.kid \in Kids /\ table'[s.kid] /= "none"
    BY <1>1, <1>2, <1>3 DEF ActiveKeys
  <1> HIDE DEF s
  <1> QED
    BY <1>1, <1>2, <1>3, <1>4, StartingKeeps

\* Start-up: generating and storing a first key keeps the invariant.
LEMMA InsertSigningKeyKeeps ==
    ASSUME KeysInvariant, NEW i \in Instances, InsertSigningKey(i)
    PROVE  KeysInvariant'
  <1> USE Shapes
  <1> DEFINE s == [instance[i] EXCEPT !.at = "up"]
             k == instance[i].kid
  <1>1. /\ instance[i].at = "inserting"
        /\ table' = [table EXCEPT ![k] = "sealed"]
        /\ instance' = [instance EXCEPT ![i] = s]
        /\ UNCHANGED <<signed, cache, fresh, started, call, faults>>
    BY DEF InsertSigningKey
  <1>2. s \in InstanceState /\ s.at = "up" /\ s.kid = k
    BY DEF InstanceState
  <1>3. k \in Kids /\ (\A j \in Kids : table[j] /= "plain")
    BY <1>1 DEF KeysInvariant, StartUpSealsAll
  <1> HIDE DEF k, s
  <1>4. /\ table' \in [Kids -> {"none", "plain", "sealed"}]
        /\ table'[k] = "sealed" /\ \A j \in Kids : j /= k => table'[j] = table[j]
    BY <1>1, <1>3
  <1>5. /\ \A j \in Kids : table[j] /= "none" => table'[j] /= "none"
        /\ \A j \in Kids : table'[j] /= "plain"
    BY <1>3, <1>4
  <1> QED
    BY <1>1, <1>2, <1>3, <1>4, <1>5, StartingKeeps

\* An instance that dies anywhere in its start-up or after keeps the invariant.
LEMMA CrashKeeps ==
    ASSUME KeysInvariant, NEW i \in Instances, Crash(i)
    PROVE  KeysInvariant'
  <1> USE Shapes
  <1>1. /\ instance' = [instance EXCEPT ![i] = Down]
        /\ faults' \in 0..MaxFaults
        /\ UNCHANGED <<table, signed, cache, fresh, started, call>>
    BY DEF Crash
  <1>2. Down \in InstanceState /\ Down.at = "down"
    BY DEF Down, InstanceState
  <1> QED
    BY <1>1, <1>2, StartingKeeps

\* Signing a token with the instance's key keeps the invariant.
LEMMA IssueKeeps ==
    ASSUME KeysInvariant, NEW i \in Instances, Issue(i)
    PROVE  KeysInvariant'
  <1> USE Shapes
  <1>1. /\ instance[i].at = "up" /\ signed' = signed \cup {instance[i].kid}
        /\ UNCHANGED <<table, instance, cache, fresh, started, call, faults>>
    BY DEF Issue
  <1>2. instance[i].kid \in ActiveKeys /\ ActiveKeys \subseteq Kids
    BY <1>1 DEF KeysInvariant, StartUpSealsAll, ActiveKeys
  <1>3. ActiveKeys' = ActiveKeys
    BY <1>1 DEF ActiveKeys
  <1> QED
    BY <1>1, <1>2, <1>3 DEF KeysInvariant, TypeOK, SignersArePublished, SealedOnceUp, StartUpSealsAll, AnswersHoldTheKey

\* What a step of one caller leaves alone: the table and the instances.  A request's
\* answer holds its key because a document holds every key that has signed.
LEMMA CallingKeeps ==
    ASSUME KeysInvariant, NEW c \in Callers, NEW s \in CallState,
           call' = [call EXCEPT ![c] = s],
           c \in Requests /\ s.at \in {"fetching", "answered", "stored"} => s.kid \in signed,
           c \in Requests /\ s.at \in {"answered", "stored"} => s.kid \in s.doc,
           cache' \subseteq Kids, fresh' \in BOOLEAN, started' \in BOOLEAN, faults' \in 0..MaxFaults,
           UNCHANGED <<table, instance, signed>>
    PROVE  KeysInvariant'
  <1> USE Shapes
  <1>n. call'[c] = s /\ \A d \in Callers : d /= c => call'[d] = call[d]
    OBVIOUS
  <1>1. TypeOK'
    <2>1. call' \in [Callers -> CallState]
      OBVIOUS
    <2> QED
      BY <2>1 DEF KeysInvariant, TypeOK, CallState
  <1>2. ActiveKeys' = ActiveKeys
    BY DEF ActiveKeys
  <1>3. SignersArePublished' /\ SealedOnceUp' /\ StartUpSealsAll'
    BY <1>2 DEF KeysInvariant, SignersArePublished, SealedOnceUp, StartUpSealsAll
  <1>4. AnswersHoldTheKey'
    <2> SUFFICES ASSUME NEW r \in Requests
                 PROVE  /\ call'[r].at \in {"fetching", "answered", "stored"} => call'[r].kid \in signed
                        /\ call'[r].at \in {"answered", "stored"} => call'[r].kid \in call'[r].doc
      BY DEF AnswersHoldTheKey
    <2>1. r \in Callers
      BY DEF Callers
    <2>2. CASE r = c
      BY <1>n, <2>2
    <2>3. CASE r /= c
      BY <1>n, <2>1, <2>3 DEF KeysInvariant, AnswersHoldTheKey
    <2> QED
      BY <2>2, <2>3
  <1> QED
    BY <1>1, <1>3, <1>4 DEF KeysInvariant

\* A call that is over has the shape of one that has not begun.
LEMMA CallShape ==
    ASSUME NEW at \in Settled
    PROVE  Call(at) \in CallState /\ Call(at).at = at /\ at \notin {"fetching", "answered", "stored"}
  BY KeysAreNumbered DEF Call, CallState, Settled

\* What is true after each step of a caller: the invariant, and no request is refused.
Served == KeysInvariant /\ NoValidTokenIsUnknown

\* A verifier that looks a key up in its cache keeps the invariant.
LEMMA LookupKeeps ==
    ASSUME Served, NEW r \in Requests, NEW k \in signed, Lookup(r, k)
    PROVE  Served'
  <1> USE Shapes DEF Served
  <1> DEFINE s == IF fresh /\ k \in cache THEN Call("accepted")
                  ELSE [at |-> "fetching", kid |-> k, known |-> k \in cache, doc |-> {}]
  <1>1. /\ call' = [call EXCEPT ![r] = s] /\ started' = TRUE
        /\ UNCHANGED <<table, instance, signed, cache, fresh, faults>>
    BY DEF Lookup
  <1>2. s \in CallState /\ s.at /= "refused" /\ (s.at \in {"fetching", "answered", "stored"} => s.kid \in signed)
        /\ s.at \notin {"answered", "stored"}
    <2>1. CASE fresh /\ k \in cache
      BY <2>1, CallShape DEF Settled
    <2>2. CASE ~(fresh /\ k \in cache)
      <3>1. k \in 0..MaxKeys /\ k \in Kids
        BY DEF Kids
      <3> QED
        BY <2>2, <3>1 DEF CallState
    <2> QED
      BY <2>1, <2>2
  <1>3. r \in Callers
    BY DEF Callers
  <1> HIDE DEF s
  <1>4. KeysInvariant'
    BY <1>1, <1>2, <1>3, CallingKeeps
  <1>5. NoValidTokenIsUnknown'
    BY <1>1, <1>2 DEF NoValidTokenIsUnknown, Callers
  <1> QED
    BY <1>4, <1>5

\* A verifier that starts a fetch of the key set keeps the invariant.
LEMMA RefreshKeeps ==
    ASSUME Served, Refresh
    PROVE  Served'
  <1> USE Shapes DEF Served
  <1> DEFINE s == [call[Refresher] EXCEPT !.at = "fetching"]
  <1>1. /\ call' = [call EXCEPT ![Refresher] = s]
        /\ UNCHANGED <<table, instance, signed, cache, fresh, started, faults>>
    BY DEF Refresh
  <1>2. Refresher \in Callers /\ Refresher \notin Requests
    BY KeysAreNumbered DEF Callers
  <1>3. s \in CallState
    BY <1>2 DEF CallState
  <1> HIDE DEF s
  <1>4. KeysInvariant'
    BY <1>1, <1>2, <1>3, CallingKeeps
  <1>5. NoValidTokenIsUnknown'
    BY <1>1, <1>2 DEF NoValidTokenIsUnknown, Callers
  <1> QED
    BY <1>4, <1>5

\* The cache growing old keeps the invariant.
LEMMA StaleKeeps ==
    ASSUME Served, Stale
    PROVE  Served'
  <1>1. fresh' = FALSE /\ UNCHANGED <<table, instance, signed, cache, started, call, faults>>
    BY DEF Stale
  <1>2. ActiveKeys' = ActiveKeys
    BY <1>1 DEF ActiveKeys
  <1> QED
    BY <1>1, <1>2 DEF Served, KeysInvariant, TypeOK, SignersArePublished, SealedOnceUp, StartUpSealsAll,
                      AnswersHoldTheKey, NoValidTokenIsUnknown

\* An instance that answers with the key set keeps the invariant.
LEMMA JWKSKeeps ==
    ASSUME Served, NEW c \in Callers, JWKS(c)
    PROVE  Served'
  <1> USE Shapes DEF Served
  <1> DEFINE s == [call[c] EXCEPT !.at = "answered", !.doc = ActiveKeys]
  <1>1. /\ call' = [call EXCEPT ![c] = s] /\ call[c].at = "fetching"
        /\ UNCHANGED <<table, instance, signed, cache, fresh, started, faults>>
    <2>1. call' = [call EXCEPT ![c].at = "answered", ![c].doc = ActiveKeys]
      BY DEF JWKS
    <2> QED
      BY <2>1 DEF JWKS
  <1>2. ActiveKeys \subseteq Kids /\ signed \subseteq ActiveKeys
    BY DEF ActiveKeys, KeysInvariant, SignersArePublished
  <1>3. s \in CallState /\ s.at = "answered" /\ s.kid = call[c].kid /\ s.doc = ActiveKeys
    BY <1>2 DEF CallState
  <1>4. c \in Requests => call[c].kid \in signed
    BY <1>1 DEF KeysInvariant, AnswersHoldTheKey
  <1> HIDE DEF s
  <1>5. KeysInvariant'
    BY <1>1, <1>2, <1>3, <1>4, CallingKeeps
  <1>6. NoValidTokenIsUnknown'
    BY <1>1, <1>3 DEF NoValidTokenIsUnknown, Callers
  <1> QED
    BY <1>5, <1>6

\* A fetch that fails keeps the invariant: the cache is left as it was.
LEMMA FetchFailsKeeps ==
    ASSUME Served, NEW c \in Callers, FetchFails(c)
    PROVE  Served'
  <1> USE Shapes DEF Served
  <1> DEFINE at == IF c = Refresher THEN "idle" ELSE IF call[c].known THEN "accepted" ELSE "failed"
             s == Call(at)
  <1>1. /\ call' = [call EXCEPT ![c] = s] /\ faults' \in 0..MaxFaults
        /\ UNCHANGED <<table, instance, signed, cache, fresh, started>>
    BY DEF FetchFails
  <1>2. at \in Settled /\ at /= "refused"
    BY DEF Settled
  <1>3. s \in CallState /\ s.at = at /\ s.at \notin {"fetching", "answered", "stored"}
    <2> HIDE DEF at
    <2> QED
      BY <1>2, CallShape
  <1> HIDE DEF s, at
  <1>4. KeysInvariant'
    BY <1>1, <1>3, CallingKeeps
  <1>5. NoValidTokenIsUnknown'
    BY <1>1, <1>2, <1>3 DEF NoValidTokenIsUnknown, Callers
  <1> QED
    BY <1>4, <1>5

\* Replacing the cache by a fetched answer, a late one included, keeps the invariant.
LEMMA StoreKeeps ==
    ASSUME Served, NEW c \in Callers, Store(c)
    PROVE  Served'
  <1> USE Shapes DEF Served
  <1> DEFINE s == IF c = Refresher THEN Call("idle") ELSE [call[c] EXCEPT !.at = "stored"]
  <1>1. /\ call' = [call EXCEPT ![c] = s] /\ call[c].at = "answered"
        /\ cache' = call[c].doc /\ fresh' = TRUE
        /\ UNCHANGED <<table, instance, signed, started, faults>>
    BY DEF Store
  <1>2. /\ s \in CallState /\ s.at /= "refused"
        /\ c \in Requests => s.kid = call[c].kid /\ s.doc = call[c].doc
    <2>1. CASE c = Refresher
      BY <2>1, CallShape, KeysAreNumbered DEF Settled
    <2>2. CASE c /= Refresher
      BY <2>2 DEF CallState
    <2> QED
      BY <2>1, <2>2
  <1>3. call[c].doc \subseteq Kids /\ (c \in Requests => call[c].kid \in signed /\ call[c].kid \in call[c].doc)
    BY <1>1 DEF CallState, KeysInvariant, AnswersHoldTheKey
  <1> HIDE DEF s
  <1>4. KeysInvariant'
    BY <1>1, <1>2, <1>3, CallingKeeps
  <1>5. NoValidTokenIsUnknown'
    BY <1>1, <1>2 DEF NoValidTokenIsUnknown, Callers
  <1> QED
    BY <1>4, <1>5

\* The second look cannot refuse: the request's own answer held the key.
LEMMA RecheckKeeps ==
    ASSUME Served, NEW r \in Requests, Recheck(r)
    PROVE  Served'
  <1> USE Shapes DEF Served
  <1> DEFINE at == IF call[r].kid \in cache THEN "accepted"
                   ELSE IF call[r].kid \in call[r].doc THEN "overtaken" ELSE "refused"
             s == Call(at)
  <1>1. /\ call' = [call EXCEPT ![r] = s] /\ call[r].at = "stored"
        /\ UNCHANGED <<table, instance, signed, cache, fresh, started, faults>>
    BY DEF Recheck
  <1>2. call[r].kid \in call[r].doc
    BY <1>1 DEF KeysInvariant, AnswersHoldTheKey
  <1>3. at \in Settled /\ at /= "refused"
    BY <1>2 DEF Settled
  <1>4. s \in CallState /\ s.at = at /\ s.at \notin {"fetching", "answered", "stored"}
    <2> HIDE DEF at
    <2> QED
      BY <1>3, CallShape
  <1>5. r \in Callers
    BY DEF Callers
  <1> HIDE DEF s, at
  <1>6. KeysInvariant'
    BY <1>1, <1>4, <1>5, CallingKeeps
  <1>7. NoValidTokenIsUnknown'
    BY <1>1, <1>3, <1>4 DEF NoValidTokenIsUnknown, Callers
  <1> QED
    BY <1>6, <1>7

\* Every step of the instances and the verifiers keeps the invariant.
LEMMA KeysStep ==
    Served /\ [Next]_vars => Served'
  <1> SUFFICES ASSUME Served, [Next]_vars
               PROVE  Served'
    OBVIOUS
  <1>1. CASE UNCHANGED vars
    <2>1. ActiveKeys' = ActiveKeys
      BY <1>1 DEF vars, ActiveKeys
    <2> QED
      BY <1>1, <2>1 DEF vars, Served, KeysInvariant, TypeOK, SignersArePublished, SealedOnceUp,
                        StartUpSealsAll, AnswersHoldTheKey, NoValidTokenIsUnknown
  <1>2. ASSUME NEW i \in Instances,
               \/ ListActiveSigningKeys(i) \/ UpdateSigningKeyPrivatePEM(i) \/ UseExisting(i)
               \/ InsertSigningKey(i) \/ Crash(i) \/ Issue(i)
        PROVE  Served'
    <2>1. KeysInvariant'
      BY <1>2, ListActiveSigningKeysKeeps, UpdateSigningKeyKeeps, UseExistingKeeps, InsertSigningKeyKeeps,
         CrashKeeps, IssueKeeps DEF Served
    <2>2. call' = call
      BY <1>2 DEF ListActiveSigningKeys, UpdateSigningKeyPrivatePEM, UseExisting, InsertSigningKey, Crash, Issue
    <2> QED
      BY <2>1, <2>2 DEF Served, NoValidTokenIsUnknown
  <1>3. ASSUME NEW r \in Requests, Recheck(r) \/ \E k \in signed : Lookup(r, k)
        PROVE  Served'
    BY <1>3, RecheckKeeps, LookupKeeps
  <1>4. CASE Refresh \/ Stale
    BY <1>4, RefreshKeeps, StaleKeeps
  <1>5. ASSUME NEW c \in Callers, JWKS(c) \/ FetchFails(c) \/ Store(c)
        PROVE  Served'
    BY <1>5, JWKSKeeps, FetchFailsKeeps, StoreKeeps
  <1> QED
    BY <1>1, <1>2, <1>3, <1>4, <1>5 DEF Next

\* The invariant holds before the first start-up.
LEMMA KeysInit ==
    Init => Served
  <1> SUFFICES ASSUME Init
               PROVE  Served
    OBVIOUS
  <1>1. /\ table \in [Kids -> {"none", "plain", "sealed"}]
        /\ instance = [i \in Instances |-> Down]
        /\ call = [c \in Callers |-> Call("idle")]
        /\ signed = {} /\ cache = {} /\ fresh = FALSE /\ started = FALSE /\ faults = 0
    BY DEF Init
  <1>2. Down \in InstanceState /\ Down.at = "down"
    BY KeysAreNumbered DEF Down, InstanceState
  <1>3. Call("idle") \in CallState /\ Call("idle").at = "idle"
    BY CallShape DEF Settled
  <1>4. TypeOK
    <2>1. instance \in [Instances -> InstanceState] /\ call \in [Callers -> CallState]
      BY <1>1, <1>2, <1>3
    <2>2. signed \in SUBSET Kids /\ cache \in SUBSET Kids /\ {fresh, started} \subseteq BOOLEAN
      BY <1>1
    <2>3. faults \in 0..MaxFaults
      BY <1>1, KeysAreNumbered
    <2> QED
      BY <1>1, <2>1, <2>2, <2>3 DEF TypeOK, InstanceState, CallState
  <1>5. SignersArePublished /\ SealedOnceUp /\ StartUpSealsAll
    BY <1>1, <1>2 DEF SignersArePublished, SealedOnceUp, StartUpSealsAll
  <1>6. AnswersHoldTheKey /\ NoValidTokenIsUnknown
    BY <1>1, <1>3 DEF AnswersHoldTheKey, NoValidTokenIsUnknown, Callers
  <1> QED
    BY <1>4, <1>5, <1>6 DEF Served, KeysInvariant

(***************************************************************************)
(* For any number of instances and keys: a key signs only once it is       *)
(* published, and no key is left in the clear behind an instance that is   *)
(* up, whatever instances start together and die half way                  *)
(* (EnsureSigningKey).                                                     *)
(***************************************************************************)
THEOREM KeysAlwaysInvariant == Spec => []KeysInvariant
  <1>1. Served => KeysInvariant
    BY DEF Served
  <1> QED
    BY <1>1, KeysInit, KeysStep, PTL DEF Spec

(***************************************************************************)
(* No request takes the key of a valid token for unknown: if its cache     *)
(* lacks the key it fetches, and the answer holds every key that has       *)
(* signed (jwksCache.key).                                                 *)
(***************************************************************************)
THEOREM NoValidTokenRefused == Spec => []NoValidTokenIsUnknown
  <1>1. Served => NoValidTokenIsUnknown
    BY DEF Served
  <1> QED
    BY <1>1, KeysInit, KeysStep, PTL DEF Spec
=============================================================================
