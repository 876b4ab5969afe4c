------------------------- MODULE SandboxTenantsProofs -------------------------
(***************************************************************************)
(* Proofs about SandboxTenants: signups are whole and keep to the daily    *)
(* cap, an expiry is announced exactly once, and a token outlives the      *)
(* announcement by no more than its lifetime and its signing.              *)
(***************************************************************************)
EXTENDS SandboxTenants, TLAPS, FiniteSetTheorems

\* What is kept
Kept == TenantInvariant /\ DailyCapHolds /\ SignupsAreWhole

Event == [tenant : Tenants, time : 0..MaxTime]

\* The shapes of the state, one by one.
LEMMA Shapes ==
    ASSUME Kept
    PROVE  /\ now \in 0..MaxTime
           /\ request \in [Tenants -> RequestType]
           /\ status \in [Tenants -> {"none", "active", "purging", "purged"}]
           /\ keys \in [Tenants \cup Keys -> {"none", "checked", "valid", "revoked", "deleted"}]
           /\ session \in [Sessions -> SessionType]
           /\ sweeper \in [Sweepers -> SweeperType]
           /\ outbox \in Seq(Event)
           /\ relayed \in SUBSET Tenants
           /\ pending \in [Services -> SUBSET Tenants]
           /\ purge \in [Services -> PurgeType]
           /\ admitted \in [Services -> SUBSET Sessions]
           /\ rows \in [Services -> [Tenants -> {"none", "rows", "live"}]]
           /\ faults \in 0..MaxFaults
           /\ MaxTime \in Nat /\ MaxFaults \in Nat /\ TokenTTL \in Nat /\ SandboxTTL \in Nat
           /\ DailyLimit \in Nat /\ PurgeGrace \in Nat /\ DayLength \in Nat \ {0}
  BY DurationsAreOrdered DEF Kept, TenantInvariant, TypeOK, Event

---------------------------------------------------------------------------
(* Which steps change what                                                 *)

\* A request comes forward only by the steps of its signup.
LEMMA RequestChanges ==
    ASSUME [Next]_vars
    PROVE  request' = request \/ \E t \in Tenants : Signup(t) \/ Begin(t) \/ LockSignups(t) \/ Provision(t)
  BY DEF Next, vars, Tick, CreateTenant, Relay, FindTenant, InsertAPIKey, RevokeAPIKey, FindAPIKey, GetTenant,
         IssueToken, Admit, Write, SweepStart, SweepPurgeable, SweepDone, SweepFails, MarkTenantPurging, FinalizeTenantPurge,
         PurgeBegin, PurgeCommit, PurgeAck, PurgeFails

\* A tenant's status changes when it is created, announced or purged, and only an
\* announcement writes to the outbox.
LEMMA StatusChanges ==
    ASSUME [Next]_vars
    PROVE  \/ UNCHANGED <<status, outbox>>
           \/ \E t \in Tenants : CreateTenant(t) \/ Provision(t)
           \/ \E w \in Sweepers, t \in Tenants : MarkTenantPurging(w, t) \/ FinalizeTenantPurge(w, t)
  BY DEF Next, vars, Tick, Signup, Begin, LockSignups, Relay, FindTenant, InsertAPIKey, RevokeAPIKey, FindAPIKey,
         GetTenant, IssueToken, Admit, Write, SweepStart, SweepPurgeable, SweepDone, SweepFails, PurgeBegin,
         PurgeCommit, PurgeAck, PurgeFails

\* A client's exchange is two reads and a signature.
LEMMA SessionChanges ==
    ASSUME [Next]_vars
    PROVE  \/ session' = session
           \/ \E i \in Sessions : GetTenant(i) \/ IssueToken(i) \/ \E k \in Keys \cup Tenants : FindAPIKey(i, k)
  BY DEF Next, vars, Tick, CreateTenant, Signup, Begin, LockSignups, Provision, Relay, FindTenant, InsertAPIKey,
         RevokeAPIKey, Admit, Write, SweepStart, SweepPurgeable, SweepDone, SweepFails, MarkTenantPurging,
         FinalizeTenantPurge, PurgeBegin, PurgeCommit, PurgeAck, PurgeFails

\* A key is asked for, inserted, revoked, deleted with its tenant, or made by a signup.
LEMMA KeyChanges ==
    ASSUME [Next]_vars
    PROVE  \/ keys' = keys
           \/ \E t \in Tenants : Provision(t)
           \/ \E k \in Keys : FindTenant(k) \/ InsertAPIKey(k)
           \/ \E k \in Keys \cup Tenants : RevokeAPIKey(k)
           \/ \E w \in Sweepers, t \in Tenants : FinalizeTenantPurge(w, t)
  BY DEF Next, vars, Tick, CreateTenant, Signup, Begin, LockSignups, Relay, FindAPIKey, GetTenant, IssueToken,
         Admit, Write, SweepStart, SweepPurgeable, SweepDone, SweepFails, MarkTenantPurging, PurgeBegin, PurgeCommit,
         PurgeAck, PurgeFails

\* A sweeper moves only by the steps of its own pass.
LEMMA SweeperChanges ==
    ASSUME [Next]_vars
    PROVE  \/ sweeper' = sweeper
           \/ \E w \in Sweepers : \/ SweepStart(w) \/ SweepPurgeable(w) \/ SweepDone(w) \/ SweepFails(w)
                                  \/ \E t \in Tenants : MarkTenantPurging(w, t) \/ FinalizeTenantPurge(w, t)
  BY DEF Next, vars, Tick, CreateTenant, Signup, Begin, LockSignups, Provision, Relay, FindTenant, InsertAPIKey,
         RevokeAPIKey, FindAPIKey, GetTenant, IssueToken, Admit, Write, PurgeBegin, PurgeCommit, PurgeAck, PurgeFails

\* Time passes, or stands still.
LEMMA ClockChanges ==
    ASSUME Kept, [Next]_vars
    PROVE  now' \in 0..MaxTime /\ now =< now'
  <1>1. now' = now \/ Tick
    BY DEF Next, vars, CreateTenant, Signup, Begin, LockSignups, Provision, Relay, FindTenant, InsertAPIKey,
           RevokeAPIKey, FindAPIKey, GetTenant, IssueToken, Admit, Write, SweepStart, SweepPurgeable, SweepDone,
           SweepFails, MarkTenantPurging, FinalizeTenantPurge, PurgeBegin, PurgeCommit, PurgeAck, PurgeFails
  <1> QED
    BY <1>1, Shapes DEF Tick

---------------------------------------------------------------------------
(* Signups                                                                 *)

\* The calendar day of an instant
LEMMA DayType ==
    ASSUME NEW a \in 0..MaxTime
    PROVE  Day(a) \in 0..Day(MaxTime)
  <1>1. MaxTime \in Nat /\ DayLength \in Nat \ {0}
    BY DurationsAreOrdered
  <1> QED
    BY <1>1 DEF Day

\* A step of the signup of t: the others' requests stay, and how far t has come
Comes(t, at) ==
    /\ request' \in [Tenants -> RequestType]
    /\ request'[t].at = at
    /\ \A u \in Tenants \ {t} : request'[u] = request[u]

\* What each step of a signup does to the request, the tenant and its key (Signup,
\* LockSignups, Provision).
LEMMA SignupSteps ==
    ASSUME Kept, NEW t \in Tenants
    PROVE  /\ Signup(t) => Comes(t, "validated") /\ request[t].at = "new" /\ Email[t] /= None
           /\ Begin(t) => Comes(t, "begun") /\ request[t].at = "validated" /\ request'[t].created = request[t].created
           /\ LockSignups(t) =>
                  /\ request[t].at = "begun" /\ \A u \in Tenants : request[u].at /= "locked"
                  /\ request'[t].created = request[t].created /\ request'[t].day = request[t].day
                  /\ \/ Comes(t, "limit")
                     \/ Comes(t, "locked") /\ Cardinality(Todays(t)) < DailyLimit
           /\ Provision(t) =>
                  /\ request[t].at = "locked"
                  /\ request'[t].created = request[t].created /\ request'[t].day = request[t].day
                  /\ \/ Comes(t, "slug") /\ UNCHANGED <<status, keys>>
                     \/ Comes(t, "email") /\ UNCHANGED <<status, keys>>
                     \/ /\ Comes(t, "done") /\ ~EmailTaken(t)
                        /\ status' = [status EXCEPT ![t] = "active"]
                        /\ keys' = [keys EXCEPT ![t] = "valid"]
  <1> USE Shapes
  <1>t. request[t] \in RequestType
    OBVIOUS
  <1>1. ASSUME Signup(t)
        PROVE  Comes(t, "validated") /\ request[t].at = "new" /\ Email[t] /= None
    BY <1>1, <1>t DEF Signup, Comes, RequestType
  <1>2. ASSUME Begin(t)
        PROVE  Comes(t, "begun") /\ request[t].at = "validated" /\ request'[t].created = request[t].created
    <2>1. Day(now) \in 0..Day(MaxTime)
      BY DayType
    <2> QED
      BY <1>2, <1>t, <2>1 DEF Begin, Comes, RequestType
  <1>3. ASSUME LockSignups(t)
        PROVE  /\ request[t].at = "begun" /\ \A u \in Tenants : request[u].at /= "locked"
               /\ request'[t].created = request[t].created /\ request'[t].day = request[t].day
               /\ \/ Comes(t, "limit")
                  \/ Comes(t, "locked") /\ Cardinality(Todays(t)) < DailyLimit
    <2>1. Cardinality(Todays(t)) \in Nat
      <3>1. Todays(t) \in SUBSET Tenants
        BY DEF Todays
      <3> QED
        BY <3>1, IdsAreDistinct, FS_Subset, FS_CardinalityType
    <2>2. CASE Cardinality(Todays(t)) >= DailyLimit
      BY <1>3, <1>t, <2>2 DEF LockSignups, Comes, RequestType
    <2>3. CASE ~(Cardinality(Todays(t)) >= DailyLimit)
      <3>1. Cardinality(Todays(t)) < DailyLimit
        BY <2>1, <2>3
      <3> QED
        BY <1>3, <1>t, <2>3, <3>1 DEF LockSignups, Comes, RequestType
    <2> QED
      BY <2>2, <2>3
  <1>4. ASSUME Provision(t)
        PROVE  /\ request[t].at = "locked"
               /\ request'[t].created = request[t].created /\ request'[t].day = request[t].day
               /\ \/ Comes(t, "slug") /\ UNCHANGED <<status, keys>>
                  \/ Comes(t, "email") /\ UNCHANGED <<status, keys>>
                  \/ /\ Comes(t, "done") /\ ~EmailTaken(t)
                     /\ status' = [status EXCEPT ![t] = "active"]
                     /\ keys' = [keys EXCEPT ![t] = "valid"]
    <2>1. ASSUME NEW at \in {"slug", "email", "done"}, request' = [request EXCEPT ![t].at = at]
          PROVE  Comes(t, at) /\ request'[t].created = request[t].created /\ request'[t].day = request[t].day
      BY <1>t, <2>1 DEF Comes, RequestType
    <2>2. /\ request[t].at = "locked"
          /\ \/ request' = [request EXCEPT ![t].at = "slug"] /\ UNCHANGED <<status, keys>>
             \/ request' = [request EXCEPT ![t].at = "email"] /\ UNCHANGED <<status, keys>>
             \/ /\ request' = [request EXCEPT ![t].at = "done"] /\ ~EmailTaken(t)
                /\ status' = [status EXCEPT ![t] = "active"]
                /\ keys' = [keys EXCEPT ![t] = "valid"]
      BY <1>4 DEF Provision
    <2> QED
      BY <2>1, <2>2
  <1> QED
    BY <1>1, <1>2, <1>3, <1>4

\* The signups that t counts, and those of day d, in the requests rq
TodaysIn(t, rq) == {u \in Tenants : rq[u].at = "done" /\ Day(rq[u].created) >= rq[t].day}
OfDay(d, rq) == {t \in Tenants : /\ rq[t].at = "done"
                                 /\ Day(rq[t].created) = d
                                 /\ rq[t].day = d}

\* A signup that is not done, before and after, is counted by nobody.
LEMMA NotDoneNotCounted ==
    ASSUME NEW u \in Tenants, NEW at, Comes(u, at), at /= "done", request[u].at /= "done"
    PROVE  /\ \A t \in Tenants : request'[t].day = request[t].day => TodaysIn(t, request') = TodaysIn(t, request)
           /\ \A d : OfDay(d, request') = OfDay(d, request)
  <1>1. \A v \in Tenants : /\ request'[v].at = "done" <=> request[v].at = "done"
                           /\ request[v].at = "done" => request'[v] = request[v]
    BY DEF Comes
  <1> QED
    BY <1>1 DEF TodaysIn, OfDay

\* Signups hold the lock one at a time and count what they are going to be counted with.
LEMMA TurnsStep ==
    ASSUME Kept, [Next]_vars
    PROVE  SignupsTakeTurns'
  <1> USE Shapes
  <1>i. \A t \in Tenants :
            /\ request[t].at /= "new" => Email[t] /= None
            /\ request[t].at = "locked" => /\ Cardinality(TodaysIn(t, request)) < DailyLimit
                                           /\ \A u \in Tenants \ {t} : request[u].at /= "locked"
    BY DEF Kept, TenantInvariant, SignupsTakeTurns, Todays, TodaysIn
  <1> DEFINE Goal == \A t \in Tenants :
                 /\ request'[t].at /= "new" => Email[t] /= None
                 /\ request'[t].at = "locked" => /\ Cardinality(TodaysIn(t, request')) < DailyLimit
                                                 /\ \A u \in Tenants \ {t} : request'[u].at /= "locked"
  <1> SUFFICES Goal
    BY DEF SignupsTakeTurns, Todays, TodaysIn
  <1>1. CASE request' = request
    BY <1>i, <1>1
  <1>2. ASSUME NEW u \in Tenants, NEW at, Comes(u, at), at \notin {"done", "locked"}, request[u].at \notin {"done", "locked"},
               Email[u] /= None
        PROVE  Goal
    <2> SUFFICES ASSUME NEW t \in Tenants
                 PROVE  /\ request'[t].at /= "new" => Email[t] /= None
                        /\ request'[t].at = "locked" => /\ Cardinality(TodaysIn(t, request')) < DailyLimit
                                                        /\ \A v \in Tenants \ {t} : request'[v].at /= "locked"
      OBVIOUS
    <2>1. CASE t = u
      BY <1>2, <2>1 DEF Comes
    <2>2. CASE t /= u
      <3>1. request'[t] = request[t]
        BY <1>2, <2>2 DEF Comes
      <3>2. TodaysIn(t, request') = TodaysIn(t, request)
        BY <1>2, <3>1, NotDoneNotCounted
      <3>3. \A v \in Tenants : request'[v].at = "locked" => request[v].at = "locked"
        BY <1>2 DEF Comes
      <3> QED
        BY <1>i, <3>1, <3>2, <3>3
    <2> QED
      BY <2>1, <2>2
  <1>3. ASSUME NEW u \in Tenants, Signup(u)
        PROVE  Goal
    <2> HIDE DEF Goal
    <2> QED
      BY <1>2, <1>3, SignupSteps
  <1>4. ASSUME NEW u \in Tenants, Begin(u)
        PROVE  Goal
    <2> HIDE DEF Goal
    <2> QED
      BY <1>i, <1>2, <1>4, SignupSteps
  <1>5. ASSUME NEW u \in Tenants, LockSignups(u)
        PROVE  Goal
    <2>1. /\ request[u].at = "begun" /\ \A v \in Tenants : request[v].at /= "locked"
          /\ request'[u].day = request[u].day
          /\ \/ Comes(u, "limit")
             \/ Comes(u, "locked") /\ Cardinality(TodaysIn(u, request)) < DailyLimit
      BY <1>5, SignupSteps DEF Todays, TodaysIn
    <2>2. Email[u] /= None
      BY <1>i, <2>1
    <2>3. CASE Comes(u, "limit")
      <3> HIDE DEF Goal
      <3> QED
        BY <1>2, <2>1, <2>2, <2>3
    <2>4. CASE Comes(u, "locked") /\ Cardinality(TodaysIn(u, request)) < DailyLimit
      <3>1. TodaysIn(u, request') = TodaysIn(u, request)
        BY <2>1, <2>4, NotDoneNotCounted
      <3>2. \A v \in Tenants : v /= u => request'[v] = request[v]
        BY <2>4 DEF Comes
      <3> QED
        BY <1>i, <2>1, <2>2, <2>4, <3>1, <3>2
    <2> QED
      BY <2>1, <2>3, <2>4
  <1>6. ASSUME NEW u \in Tenants, Provision(u)
        PROVE  Goal
    <2>1. request[u].at = "locked" /\ \E at \in {"slug", "email", "done"} : Comes(u, at)
      BY <1>6, SignupSteps
    <2>2. \A v \in Tenants : request'[v].at /= "locked"
      BY <1>i, <2>1 DEF Comes
    <2>3. \A v \in Tenants : request'[v].at /= "new" => request[v].at /= "new"
      BY <2>1 DEF Comes
    <2> QED
      BY <1>i, <2>2, <2>3
  <1> HIDE DEF Goal
  <1> QED
    BY <1>1, <1>3, <1>4, <1>5, <1>6, RequestChanges

\* The cap: the signups of a day that are done are among those the last one counted.
LEMMA CapStep ==
    ASSUME Kept, [Next]_vars
    PROVE  DailyCapHolds'
  <1> USE Shapes
  <1> SUFFICES ASSUME NEW d \in 0..Day(MaxTime)
               PROVE  Cardinality(OfDay(d, request')) =< DailyLimit
    BY DEF DailyCapHolds, OfDay
  <1>i. Cardinality(OfDay(d, request)) =< DailyLimit
    BY DEF Kept, DailyCapHolds, OfDay
  <1>1. CASE request' = request
    BY <1>i, <1>1
  <1>2. ASSUME NEW u \in Tenants, NEW at, Comes(u, at), at /= "done", request[u].at /= "done"
        PROVE  Cardinality(OfDay(d, request')) =< DailyLimit
    BY <1>i, <1>2, NotDoneNotCounted
  <1>3. ASSUME NEW u \in Tenants, Signup(u) \/ Begin(u) \/ LockSignups(u)
        PROVE  Cardinality(OfDay(d, request')) =< DailyLimit
    BY <1>2, <1>3, SignupSteps
  <1>4. ASSUME NEW u \in Tenants, Provision(u)
        PROVE  Cardinality(OfDay(d, request')) =< DailyLimit
    <2>1. /\ request[u].at = "locked"
          /\ request'[u].created = request[u].created /\ request'[u].day = request[u].day
          /\ \E at \in {"slug", "email", "done"} : Comes(u, at)
      BY <1>4, SignupSteps
    <2>2. CASE Comes(u, "slug") \/ Comes(u, "email")
      BY <1>2, <2>1, <2>2
    <2>3. CASE Comes(u, "done")
      <3> DEFINE S == OfDay(d, request)
                 S1 == OfDay(d, request')
                 T == TodaysIn(u, request)
      <3>1. \A v \in Tenants : v /= u => request'[v] = request[v]
        BY <2>3 DEF Comes
      <3>2. u \notin S1 => S1 = S
        BY <2>1, <3>1 DEF OfDay
      <3>3. ASSUME u \in S1
            PROVE  Cardinality(S1) =< DailyLimit
        <4>1. S1 = S \cup {u} /\ u \notin S
          BY <2>1, <3>1, <3>3 DEF OfDay
        <4>2. S \in SUBSET T
          <5>1. request[u].day = d
            BY <2>1, <3>3 DEF OfDay
          <5>2. \A a : a = d => d \in Int /\ a >= d
            <6>1. Day(MaxTime) \in Int
              BY DEF Day
            <6> QED
              BY <6>1
          <5> QED
            BY <5>1, <5>2 DEF OfDay, TodaysIn
        <4>3. IsFiniteSet(T) /\ Cardinality(T) < DailyLimit
          <5>1. T \in SUBSET Tenants
            BY DEF TodaysIn
          <5>2. Cardinality(T) < DailyLimit
            BY <2>1 DEF Kept, TenantInvariant, SignupsTakeTurns, Todays, TodaysIn
          <5> QED
            BY <5>1, <5>2, IdsAreDistinct, FS_Subset
        <4> HIDE DEF S, S1, T
        <4>4. IsFiniteSet(S) /\ Cardinality(S) =< Cardinality(T)
          BY <4>2, <4>3, FS_Subset
        <4>5. Cardinality(S \cup {u}) = Cardinality(S) + 1
          BY <4>1, <4>4, FS_AddElement
        <4>6. Cardinality(S) \in Nat /\ Cardinality(T) \in Nat
          BY <4>3, <4>4, FS_CardinalityType
        <4>7. \A a, b, c \in Nat : a =< b /\ b < c => a + 1 =< c
          OBVIOUS
        <4>8. DailyLimit \in Nat
          OBVIOUS
        <4>9. Cardinality(S) + 1 =< DailyLimit
          BY <4>3, <4>4, <4>6, <4>7, <4>8
        <4> QED
          BY <4>1, <4>5, <4>9
      <3> QED
        BY <1>i, <3>2, <3>3
    <2> QED
      BY <2>1, <2>2, <2>3
  <1> QED
    BY <1>1, <1>3, <1>4, RequestChanges

\* What a step of the sweeper does to the tenant it takes from its list
LEMMA SweepSteps ==
    ASSUME Kept, NEW w \in Sweepers, NEW t \in Tenants
    PROVE  /\ MarkTenantPurging(w, t) =>
                  /\ sweeper[w].at = "announcing" /\ t \in sweeper[w].todo
                  /\ sweeper' = [sweeper EXCEPT ![w].todo = @ \ {t}]
                  /\ \/ status[t] /= "active" /\ UNCHANGED <<status, outbox>>
                     \/ /\ status[t] = "active" /\ status' = [status EXCEPT ![t] = "purging"]
                        /\ outbox' = Append(outbox, [tenant |-> t, time |-> now])
                  /\ UNCHANGED <<now, request, keys, session, serviceVars, faults>>
           /\ FinalizeTenantPurge(w, t) =>
                  /\ sweeper[w].at = "finalizing" /\ t \in sweeper[w].todo
                  /\ sweeper' = [sweeper EXCEPT ![w].todo = @ \ {t}]
                  /\ \/ UNCHANGED <<status, keys>>
                     \/ /\ status[t] = "purging" /\ status' = [status EXCEPT ![t] = "purged"]
                        /\ keys' \in [Tenants \cup Keys -> {"none", "checked", "valid", "revoked", "deleted"}]
                        /\ \A k \in Tenants \cup Keys : keys'[k] = "none" <=> keys[k] = "none"
                  /\ UNCHANGED <<now, request, session, outbox, serviceVars, faults>>
  <1> USE Shapes
  <1>1. ASSUME MarkTenantPurging(w, t)
        PROVE  /\ sweeper[w].at = "announcing" /\ t \in sweeper[w].todo
               /\ sweeper' = [sweeper EXCEPT ![w].todo = @ \ {t}]
               /\ \/ status[t] /= "active" /\ UNCHANGED <<status, outbox>>
                  \/ /\ status[t] = "active" /\ status' = [status EXCEPT ![t] = "purging"]
                     /\ outbox' = Append(outbox, [tenant |-> t, time |-> now])
               /\ UNCHANGED <<now, request, keys, session, serviceVars, faults>>
    BY <1>1 DEF MarkTenantPurging, Oldest
  <1>2. ASSUME FinalizeTenantPurge(w, t)
        PROVE  /\ sweeper[w].at = "finalizing" /\ t \in sweeper[w].todo
               /\ sweeper' = [sweeper EXCEPT ![w].todo = @ \ {t}]
               /\ \/ UNCHANGED <<status, keys>>
                  \/ /\ status[t] = "purging" /\ status' = [status EXCEPT ![t] = "purged"]
                     /\ keys' \in [Tenants \cup Keys -> {"none", "checked", "valid", "revoked", "deleted"}]
                     /\ \A k \in Tenants \cup Keys : keys'[k] = "none" <=> keys[k] = "none"
               /\ UNCHANGED <<now, request, session, outbox, serviceVars, faults>>
    <2>1. CASE status[t] = "purging"
      <3>1. DOMAIN keys = Tenants \cup Keys
        OBVIOUS
      <3>2. keys' = [k \in Tenants \cup Keys |->
                        IF k \in KeysOf(t) /\ keys[k] \in {"valid", "revoked"} THEN "deleted" ELSE keys[k]]
        BY <1>2, <2>1, <3>1 DEF FinalizeTenantPurge
      <3>3. /\ keys' \in [Tenants \cup Keys -> {"none", "checked", "valid", "revoked", "deleted"}]
            /\ \A k \in Tenants \cup Keys : keys'[k] = "none" <=> keys[k] = "none"
        BY <3>2
      <3> QED
        BY <1>2, <2>1, <3>3 DEF FinalizeTenantPurge
    <2>2. CASE status[t] /= "purging"
      BY <1>2, <2>2 DEF FinalizeTenantPurge
    <2> QED
      BY <2>1, <2>2
  <1> QED
    BY <1>1, <1>2

\* A tenant exists from its creation on, and only a signup's last step makes one of those
\* that have an address.
LEMMA ExistenceStep ==
    ASSUME Kept, [Next]_vars, NEW t \in Tenants
    PROVE  /\ status' \in [Tenants -> {"none", "active", "purging", "purged"}]
           /\ status[t] /= "none" => status'[t] /= "none"
           /\ Email[t] /= None /\ status[t] = "none" /\ status'[t] /= "none" =>
                  Provision(t) /\ request'[t].at = "done"
  <1> USE Shapes
  <1>1. CASE UNCHANGED <<status, outbox>>
    BY <1>1
  <1>2. ASSUME NEW u \in Tenants, CreateTenant(u)
        PROVE  /\ status' \in [Tenants -> {"none", "active", "purging", "purged"}]
               /\ status[t] /= "none" => status'[t] /= "none"
               /\ Email[t] /= None /\ status[t] = "none" => status'[t] = "none"
    BY <1>2 DEF CreateTenant
  <1>3. ASSUME NEW u \in Tenants, Provision(u)
        PROVE  /\ status' \in [Tenants -> {"none", "active", "purging", "purged"}]
               /\ status[t] /= "none" => status'[t] /= "none"
               /\ status[t] = "none" /\ status'[t] /= "none" => u = t /\ request'[t].at = "done"
    <2>1. \/ status' = status
          \/ status' = [status EXCEPT ![u] = "active"] /\ request'[u].at = "done"
      BY <1>3, SignupSteps DEF Comes
    <2> QED
      BY <2>1
  <1>4. ASSUME NEW u \in Tenants, NEW w \in Sweepers, MarkTenantPurging(w, u) \/ FinalizeTenantPurge(w, u)
        PROVE  /\ status' \in [Tenants -> {"none", "active", "purging", "purged"}]
               /\ status[t] /= "none" => status'[t] /= "none"
               /\ status[t] = "none" => status'[t] = "none"
    BY <1>4, SweepSteps, ZenonT(60)
  <1> QED
    BY <1>1, <1>2, <1>3, <1>4, StatusChanges

\* A key row of a signup appears with its tenant, and never ceases to have existed.
LEMMA KeyStep ==
    ASSUME Kept, [Next]_vars
    PROVE  /\ keys' \in [Tenants \cup Keys -> {"none", "checked", "valid", "revoked", "deleted"}]
           /\ \A t \in Tenants : keys[t] /= "none" => keys'[t] /= "none"
           /\ \A t \in Tenants : keys[t] = "none" /\ keys'[t] /= "none" => Provision(t) /\ request'[t].at = "done"
           /\ \A k \in Keys : keys[k] = "none" /\ keys'[k] /= "none" => Asked[k] \subseteq AllowedScopes
  <1> USE Shapes, IdsAreDistinct
  <1> DEFINE Goal == /\ keys' \in [Tenants \cup Keys -> {"none", "checked", "valid", "revoked", "deleted"}]
                     /\ \A t \in Tenants : keys[t] /= "none" => keys'[t] /= "none"
                     /\ \A t \in Tenants : keys[t] = "none" /\ keys'[t] /= "none" => Provision(t) /\ request'[t].at = "done"
                     /\ \A k \in Keys : keys[k] = "none" /\ keys'[k] /= "none" => Asked[k] \subseteq AllowedScopes
  <1> SUFFICES Goal
    OBVIOUS
  <1>1. CASE keys' = keys
    BY <1>1
  <1>2. ASSUME NEW u \in Tenants, Provision(u)
        PROVE  Goal
    <2>1. CASE keys' = keys
      BY <2>1
    <2>2. CASE keys' = [keys EXCEPT ![u] = "valid"] /\ request'[u].at = "done"
      <3>1. \A k \in Tenants \cup Keys : k /= u => keys'[k] = keys[k]
        BY <2>2
      <3>2. \A k \in Keys : k /= u
        OBVIOUS
      <3> QED
        BY <1>2, <2>2, <3>1, <3>2
    <2> QED
      BY <1>2, <2>1, <2>2, SignupSteps DEF Comes
  <1>3. ASSUME NEW k \in Keys, FindTenant(k)
        PROVE  Goal
    BY <1>3 DEF FindTenant
  <1>4. ASSUME NEW k \in Keys, InsertAPIKey(k)
        PROVE  Goal
    BY <1>4 DEF InsertAPIKey
  <1>5. ASSUME NEW k \in Keys \cup Tenants, RevokeAPIKey(k)
        PROVE  Goal
    BY <1>5 DEF RevokeAPIKey
  <1>6. ASSUME NEW w \in Sweepers, NEW t \in Tenants, FinalizeTenantPurge(w, t)
        PROVE  Goal
    BY <1>6, SweepSteps
  <1> HIDE DEF Goal
  <1> QED
    BY <1>1, <1>2, <1>3, <1>4, <1>5, <1>6, KeyChanges

\* How far a request has come is never undone, and only Provision completes one.
LEMMA RequestStep ==
    ASSUME Kept, [Next]_vars, NEW t \in Tenants
    PROVE  /\ request' \in [Tenants -> RequestType]
           /\ request[t].at = "done" => request'[t] = request[t]
           /\ request[t].at /= "new" => request'[t].created = request[t].created
           /\ request[t].at /= "done" /\ request'[t].at = "done" =>
                  /\ Provision(t) /\ ~EmailTaken(t)
                  /\ status' = [status EXCEPT ![t] = "active"] /\ keys' = [keys EXCEPT ![t] = "valid"]
                  /\ \A u \in Tenants \ {t} : request'[u] = request[u]
  <1> USE Shapes
  <1>1. CASE request' = request
    BY <1>1
  <1>2. ASSUME NEW u \in Tenants, Signup(u) \/ Begin(u) \/ LockSignups(u)
        PROVE  /\ request' \in [Tenants -> RequestType]
               /\ request[t].at = "done" => request'[t] = request[t]
               /\ request[t].at /= "new" => request'[t].created = request[t].created
               /\ ~(request[t].at /= "done" /\ request'[t].at = "done")
    <2>1. /\ request' \in [Tenants -> RequestType] /\ request[u].at /= "done" /\ request'[u].at /= "done"
          /\ \A v \in Tenants \ {u} : request'[v] = request[v]
          /\ request[u].at /= "new" => request'[u].created = request[u].created
      BY <1>2, SignupSteps DEF Comes
    <2> QED
      BY <2>1
  <1>3. ASSUME NEW u \in Tenants, Provision(u)
        PROVE  /\ request' \in [Tenants -> RequestType]
               /\ request[t].at = "done" => request'[t] = request[t]
               /\ request[t].at /= "new" => request'[t].created = request[t].created
               /\ request[t].at /= "done" /\ request'[t].at = "done" =>
                      /\ Provision(t) /\ ~EmailTaken(t)
                      /\ status' = [status EXCEPT ![t] = "active"] /\ keys' = [keys EXCEPT ![t] = "valid"]
                      /\ \A v \in Tenants \ {t} : request'[v] = request[v]
    <2>1. /\ request[u].at = "locked" /\ request'[u].created = request[u].created
          /\ request' \in [Tenants -> RequestType]
          /\ \A v \in Tenants \ {u} : request'[v] = request[v]
          /\ \/ request'[u].at /= "done"
             \/ /\ ~EmailTaken(u)
                /\ status' = [status EXCEPT ![u] = "active"] /\ keys' = [keys EXCEPT ![u] = "valid"]
      BY <1>3, SignupSteps DEF Comes
    <2> QED
      BY <1>3, <2>1
  <1> QED
    BY <1>1, <1>2, <1>3, RequestChanges

\* Every step keeps signups whole: a tenant and its key exist together, or neither.
LEMMA WholeStep ==
    ASSUME Kept, [Next]_vars
    PROVE  SignupsAreWhole'
  <1> USE Shapes
  <1> SUFFICES ASSUME NEW t \in Tenants, Email[t] /= None
               PROVE  /\ status'[t] /= "none" <=> request'[t].at = "done"
                      /\ keys'[t] = "none" <=> request'[t].at /= "done"
                      /\ \A u \in Tenants \ {t} :
                             (request'[t].at = "done" /\ request'[u].at = "done") => Email[u] /= Email[t]
    BY DEF SignupsAreWhole
  <1>i. /\ status[t] /= "none" <=> request[t].at = "done"
        /\ keys[t] = "none" <=> request[t].at /= "done"
        /\ \A u \in Tenants \ {t} :
               (request[t].at = "done" /\ request[u].at = "done") => Email[u] /= Email[t]
    BY DEF Kept, SignupsAreWhole
  <1>1. CASE request[t].at = "done"
    <2>1. request'[t].at = "done" /\ status'[t] /= "none" /\ keys'[t] /= "none"
      BY <1>i, <1>1, RequestStep, ExistenceStep, KeyStep
    <2>2. ASSUME NEW u \in Tenants \ {t}, request'[u].at = "done", request[u].at /= "done"
          PROVE  Email[u] /= Email[t]
      BY <1>1, <2>2, RequestStep DEF EmailTaken
    <2> QED
      BY <1>i, <1>1, <2>1, <2>2
  <1>2. CASE request[t].at /= "done" /\ request'[t].at = "done"
    <2>1. /\ ~EmailTaken(t) /\ \A u \in Tenants \ {t} : request'[u] = request[u]
          /\ status' = [status EXCEPT ![t] = "active"] /\ keys' = [keys EXCEPT ![t] = "valid"]
      BY <1>2, RequestStep
    <2> QED
      BY <1>2, <2>1 DEF EmailTaken
  <1>3. CASE request[t].at /= "done" /\ request'[t].at /= "done"
    BY <1>i, <1>3, ExistenceStep, KeyStep
  <1> QED
    BY <1>1, <1>2, <1>3
---------------------------------------------------------------------------
(* Expiry                                                                  *)

\* The expiry of t, and the events of t, as functions of the tables
ExpiresIn(t, st, rq) ==
    IF Email[t] = None \/ st[t] = "none" THEN Never ELSE rq[t].created + SandboxTTL
EventsOf(t, ob) == {n \in DOMAIN ob : ob[n].tenant = t}

\* The expiry of a tenant that exists is fixed.
LEMMA ExpiryIsFixed ==
    ASSUME Kept, [Next]_vars, NEW t \in Tenants, status[t] /= "none"
    PROVE  ExpiresIn(t, status', request') = ExpiresIn(t, status, request)
  <1>1. status'[t] /= "none"
    BY ExistenceStep
  <1>2. CASE Email[t] = None
    BY <1>2 DEF ExpiresIn
  <1>3. CASE Email[t] /= None
    <2>1. request[t].at = "done"
      BY <1>3 DEF Kept, SignupsAreWhole
    <2>2. request'[t] = request[t]
      BY <2>1, RequestStep
    <2> QED
      BY <1>1, <2>2 DEF ExpiresIn
  <1> QED
    BY <1>2, <1>3

\* The shape and effect of a sweeper's other steps
LEMMA SweepStep2 ==
    ASSUME Kept, NEW w \in Sweepers
    PROVE  /\ SweepStart(w) =>
                  /\ UNCHANGED <<now, request, status>>
                  /\ \E T \in SUBSET Tenants :
                         /\ sweeper' = [sweeper EXCEPT ![w] = [at |-> "announcing", time |-> now, todo |-> T]]
                         /\ \A t \in T : status[t] = "active" /\ ExpiresIn(t, status, request) < now
           /\ SweepPurgeable(w) \/ SweepDone(w) \/ SweepFails(w) =>
                  \E s \in SweeperType : sweeper' = [sweeper EXCEPT ![w] = s] /\ s.at /= "announcing"
  <1> USE Shapes
  <1>1. ASSUME SweepStart(w)
        PROVE  /\ UNCHANGED <<now, request, status>>
               /\ \E T \in SUBSET Tenants :
                      /\ sweeper' = [sweeper EXCEPT ![w] = [at |-> "announcing", time |-> now, todo |-> T]]
                      /\ \A t \in T : status[t] = "active" /\ ExpiresIn(t, status, request) < now
    <2> DEFINE T == {t \in Tenants : status[t] = "active" /\ ExpiresAt(t) < now}
    <2>1. T \in SUBSET Tenants /\ \A t \in T : status[t] = "active" /\ ExpiresIn(t, status, request) < now
      BY DEF ExpiresAt, ExpiresIn
    <2>2. /\ sweeper' = [sweeper EXCEPT ![w] = [at |-> "announcing", time |-> now, todo |-> T]]
          /\ UNCHANGED <<now, request, status>>
      BY <1>1 DEF SweepStart
    <2> HIDE DEF T
    <2> QED
      BY <2>1, <2>2
  <1>2. ASSUME SweepPurgeable(w)
        PROVE  \E s \in SweeperType : sweeper' = [sweeper EXCEPT ![w] = s] /\ s.at /= "announcing"
    <2> DEFINE T == PurgeableTenants(sweeper[w].time)
               s == [at |-> "finalizing", time |-> 0, todo |-> T]
    <2>1. T \in SUBSET Tenants
      BY DEF PurgeableTenants
    <2>2. sweeper' = [sweeper EXCEPT ![w] = s]
      BY <1>2 DEF SweepPurgeable
    <2> HIDE DEF T
    <2>3. s \in SweeperType /\ s.at /= "announcing"
      BY <2>1 DEF SweeperType
    <2> QED
      BY <2>2, <2>3
  <1>3. ASSUME SweepDone(w) \/ SweepFails(w)
        PROVE  \E s \in SweeperType : sweeper' = [sweeper EXCEPT ![w] = s] /\ s.at /= "announcing"
    <2>1. Idle \in SweeperType /\ Idle.at /= "announcing"
      BY DEF Idle, SweeperType
    <2> QED
      BY <1>3, <2>1 DEF SweepDone, SweepFails
  <1> QED
    BY <1>1, <1>2, <1>3

\* Every step keeps a sweeper's list one of expired tenants (SweepStart, MarkTenantPurging).
LEMMA SweeperStep ==
    ASSUME Kept, [Next]_vars
    PROVE  sweeper' \in [Sweepers -> SweeperType] /\ SweepsFindTheExpired'
  <1> USE Shapes
  <1> DEFINE Goal == /\ sweeper' \in [Sweepers -> SweeperType]
                     /\ \A w \in Sweepers : sweeper'[w].at = "announcing" =>
                            /\ sweeper'[w].time =< now'
                            /\ \A t \in sweeper'[w].todo :
                                   status'[t] /= "none" /\ ExpiresIn(t, status', request') < sweeper'[w].time
  <1> SUFFICES Goal
    BY DEF SweepsFindTheExpired, ExpiresAt, ExpiresIn
  <1>i. \A w \in Sweepers : sweeper[w].at = "announcing" =>
            /\ sweeper[w].time =< now
            /\ \A t \in sweeper[w].todo :
                   status[t] /= "none" /\ ExpiresIn(t, status, request) < sweeper[w].time
    BY DEF Kept, TenantInvariant, SweepsFindTheExpired, ExpiresAt, ExpiresIn
  <1>t. \A w \in Sweepers : sweeper[w].time \in Int /\ sweeper[w].todo \subseteq Tenants
    BY DEF SweeperType
  <1>f. \A w \in Sweepers : sweeper[w].at = "announcing" =>
            /\ sweeper[w].time =< now'
            /\ \A t \in sweeper[w].todo :
                   status'[t] /= "none" /\ ExpiresIn(t, status', request') < sweeper[w].time
    <2> SUFFICES ASSUME NEW w \in Sweepers, sweeper[w].at = "announcing"
                 PROVE  /\ sweeper[w].time =< now'
                        /\ \A t \in sweeper[w].todo :
                               status'[t] /= "none" /\ ExpiresIn(t, status', request') < sweeper[w].time
      OBVIOUS
    <2>1. sweeper[w].time =< now'
      BY <1>i, <1>t, ClockChanges
    <2>2. ASSUME NEW t \in sweeper[w].todo
          PROVE  status'[t] /= "none" /\ ExpiresIn(t, status', request') < sweeper[w].time
      <3>1. t \in Tenants /\ status[t] /= "none" /\ ExpiresIn(t, status, request) < sweeper[w].time
        BY <1>i, <1>t
      <3> QED
        BY <3>1, ExpiryIsFixed, ExistenceStep
    <2> QED
      BY <2>1, <2>2
  <1>1. CASE sweeper' = sweeper
    BY <1>f, <1>1
  <1>2. ASSUME NEW w \in Sweepers, SweepStart(w)
        PROVE  Goal
    <2>1. PICK T \in SUBSET Tenants :
              /\ sweeper' = [sweeper EXCEPT ![w] = [at |-> "announcing", time |-> now, todo |-> T]]
              /\ \A t \in T : status[t] = "active" /\ ExpiresIn(t, status, request) < now
      BY <1>2, SweepStep2
    <2>2. UNCHANGED <<now, request, status>>
      BY <1>2, SweepStep2
    <2>3. sweeper' \in [Sweepers -> SweeperType]
      BY <2>1 DEF SweeperType
    <2>4. /\ sweeper'[w].time = now /\ sweeper'[w].todo = T
          /\ \A v \in Sweepers : v /= w => sweeper'[v] = sweeper[v]
      BY <2>1
    <2> QED
      BY <1>f, <2>1, <2>2, <2>3, <2>4
  <1>3. ASSUME NEW w \in Sweepers, SweepPurgeable(w) \/ SweepDone(w) \/ SweepFails(w)
        PROVE  Goal
    <2>1. PICK s \in SweeperType : sweeper' = [sweeper EXCEPT ![w] = s] /\ s.at /= "announcing"
      BY <1>3, SweepStep2
    <2>2. /\ sweeper'[w] = s /\ sweeper' \in [Sweepers -> SweeperType]
          /\ \A v \in Sweepers : v /= w => sweeper'[v] = sweeper[v]
      BY <2>1
    <2> QED
      BY <1>f, <2>1, <2>2
  <1>4. ASSUME NEW w \in Sweepers, NEW u \in Tenants, MarkTenantPurging(w, u) \/ FinalizeTenantPurge(w, u)
        PROVE  Goal
    <2>1. sweeper' = [sweeper EXCEPT ![w].todo = @ \ {u}]
      BY <1>4, SweepSteps
    <2>2. /\ sweeper' \in [Sweepers -> SweeperType]
          /\ sweeper'[w].at = sweeper[w].at /\ sweeper'[w].time = sweeper[w].time
          /\ sweeper'[w].todo \subseteq sweeper[w].todo
          /\ \A v \in Sweepers : v /= w => sweeper'[v] = sweeper[v]
      <3> DEFINE s == [sweeper[w] EXCEPT !.todo = @ \ {u}]
      <3>1. sweeper' = [sweeper EXCEPT ![w] = s]
        BY <2>1
      <3>2. sweeper[w] \in SweeperType
        OBVIOUS
      <3>3. s \in SweeperType /\ s.at = sweeper[w].at /\ s.time = sweeper[w].time /\ s.todo \subseteq sweeper[w].todo
        BY <3>2 DEF SweeperType
      <3> HIDE DEF s
      <3> QED
        BY <3>1, <3>3
    <2> QED
      BY <1>f, <2>2
  <1> HIDE DEF Goal
  <1> QED
    BY <1>1, <1>2, <1>3, <1>4, SweeperChanges

\* The events of a tenant are positions of the outbox.
LEMMA EventsAreFinite ==
    ASSUME NEW ob \in Seq(Event), NEW t
    PROVE  IsFiniteSet(EventsOf(t, ob)) /\ Cardinality(EventsOf(t, ob)) \in Nat
  <1>1. DOMAIN ob = 1..Len(ob) /\ Len(ob) \in Nat
    OBVIOUS
  <1>2. IsFiniteSet(1..Len(ob))
    BY <1>1, FS_Interval
  <1>3. EventsOf(t, ob) \in SUBSET (1..Len(ob))
    BY <1>1 DEF EventsOf
  <1>4. IsFiniteSet(EventsOf(t, ob))
    BY <1>2, <1>3, FS_Subset
  <1> QED
    BY <1>4, FS_CardinalityType

\* Whoever has an event is no longer active.
LEMMA EventsAreOfTheAnnounced ==
    ASSUME Kept, NEW n \in DOMAIN outbox
    PROVE  outbox[n].tenant \in Tenants /\ status[outbox[n].tenant] \in {"purging", "purged"}
  <1> DEFINE t == outbox[n].tenant
  <1>1. t \in Tenants /\ outbox \in Seq(Event)
    <2>1. outbox \in Seq(Event)
      BY Shapes
    <2>2. outbox[n] \in Event
      BY <2>1
    <2> QED
      BY <2>1, <2>2 DEF Event
  <1>2. Cardinality(EventsOf(t, outbox)) = IF status[t] \in {"purging", "purged"} THEN 1 ELSE 0
    BY <1>1 DEF Kept, TenantInvariant, ExpiryIsAnnouncedOnce, EventsOf
  <1>3. n \in EventsOf(t, outbox)
    BY DEF EventsOf
  <1> HIDE DEF t
  <1>4. Cardinality(EventsOf(t, outbox)) /= 0
    <2>1. IsFiniteSet(EventsOf(t, outbox))
      BY <1>1, EventsAreFinite
    <2> DEFINE E == EventsOf(t, outbox)
    <2>2. E /= {} /\ IsFiniteSet(E)
      BY <1>3, <2>1
    <2> HIDE DEF E
    <2>3. Cardinality(E) /= 0
      BY <2>2, FS_EmptySet
    <2> QED
      BY <2>3 DEF E
  <1> QED
    BY <1>1, <1>2, <1>4 DEF t

\* Either nobody's life as an active tenant ends, or that of one tenant does, and the
\* same step appends its event.
LEMMA AnnouncingStep ==
    ASSUME Kept, [Next]_vars
    PROVE  \/ /\ outbox' = outbox
              /\ \A t \in Tenants : status'[t] \in {"purging", "purged"} <=> status[t] \in {"purging", "purged"}
           \/ \E u \in Tenants :
                  /\ status[u] = "active" /\ status' = [status EXCEPT ![u] = "purging"]
                  /\ outbox' = Append(outbox, [tenant |-> u, time |-> now])
                  /\ ExpiresIn(u, status, request) < now
                  /\ UNCHANGED <<now, request, session>>
  <1> USE Shapes
  <1>1. CASE UNCHANGED <<status, outbox>>
    BY <1>1
  <1>2. ASSUME NEW u \in Tenants, CreateTenant(u)
        PROVE  /\ outbox' = outbox
               /\ \A t \in Tenants : status'[t] \in {"purging", "purged"} <=> status[t] \in {"purging", "purged"}
    BY <1>2 DEF CreateTenant
  <1>3. ASSUME NEW u \in Tenants, Provision(u)
        PROVE  /\ outbox' = outbox
               /\ \A t \in Tenants : status'[t] \in {"purging", "purged"} <=> status[t] \in {"purging", "purged"}
    <2>1. /\ request[u].at = "locked" /\ outbox' = outbox
          /\ status' = status \/ status' = [status EXCEPT ![u] = "active"]
      BY <1>3, SignupSteps DEF Provision
    <2>2. status[u] = "none"
      BY <2>1 DEF Kept, TenantInvariant, SignupsTakeTurns, SignupsAreWhole
    <2> QED
      BY <2>1, <2>2
  <1>4. ASSUME NEW u \in Tenants, NEW w \in Sweepers, FinalizeTenantPurge(w, u)
        PROVE  /\ outbox' = outbox
               /\ \A t \in Tenants : status'[t] \in {"purging", "purged"} <=> status[t] \in {"purging", "purged"}
    <2>1. /\ outbox' = outbox
          /\ status' = status \/ (status[u] = "purging" /\ status' = [status EXCEPT ![u] = "purged"])
      BY <1>4, SweepSteps
    <2> QED
      BY <2>1
  <1>5. ASSUME NEW u \in Tenants, NEW w \in Sweepers, MarkTenantPurging(w, u)
        PROVE  \/ UNCHANGED <<status, outbox>>
               \/ /\ status[u] = "active" /\ status' = [status EXCEPT ![u] = "purging"]
                  /\ outbox' = Append(outbox, [tenant |-> u, time |-> now])
                  /\ ExpiresIn(u, status, request) < now
                  /\ UNCHANGED <<now, request, session>>
    <2>1. /\ sweeper[w].at = "announcing" /\ u \in sweeper[w].todo
          /\ \/ UNCHANGED <<status, outbox>>
             \/ /\ status[u] = "active" /\ status' = [status EXCEPT ![u] = "purging"]
                /\ outbox' = Append(outbox, [tenant |-> u, time |-> now])
          /\ UNCHANGED <<now, request, session>>
      BY <1>5, SweepSteps
    <2>2. sweeper[w].time =< now /\ ExpiresIn(u, status, request) < sweeper[w].time
      BY <2>1 DEF Kept, TenantInvariant, SweepsFindTheExpired, ExpiresAt, ExpiresIn
    <2>3. ExpiresIn(u, status, request) \in Int
      BY SMTT(30) DEF ExpiresIn, Never, RequestType
    <2>4. sweeper[w].time \in Int
      BY DEF SweeperType
    <2>5. ExpiresIn(u, status, request) < now
      <3> DEFINE e == ExpiresIn(u, status, request)
      <3>1. e \in Int /\ e < sweeper[w].time
        BY <2>2, <2>3
      <3> HIDE DEF e
      <3>2. e < now
        BY <2>2, <2>4, <3>1
      <3> QED
        BY <3>2 DEF e
    <2> QED
      BY <2>1, <2>5
  <1> QED
    BY <1>1, <1>2, <1>3, <1>4, <1>5, StatusChanges

\* Every step keeps one announcement per tenant that is purging or purged, and none of
\* any other (MarkTenantPurging).
LEMMA AnnouncedStep ==
    ASSUME Kept, [Next]_vars
    PROVE  outbox' \in Seq(Event) /\ ExpiryIsAnnouncedOnce'
  <1> USE Shapes
  <1> DEFINE Goal == /\ outbox' \in Seq(Event)
                     /\ \A t \in Tenants :
                            /\ Cardinality(EventsOf(t, outbox')) = IF status'[t] \in {"purging", "purged"} THEN 1 ELSE 0
                            /\ \A n \in EventsOf(t, outbox') : ExpiresIn(t, status', request') < outbox'[n].time
  <1> SUFFICES Goal
    BY DEF ExpiryIsAnnouncedOnce, EventsOf, ExpiresAt, ExpiresIn
  <1>i. \A t \in Tenants :
            /\ Cardinality(EventsOf(t, outbox)) = IF status[t] \in {"purging", "purged"} THEN 1 ELSE 0
            /\ \A n \in EventsOf(t, outbox) : ExpiresIn(t, status, request) < outbox[n].time
    BY DEF Kept, TenantInvariant, ExpiryIsAnnouncedOnce, EventsOf, ExpiresAt, ExpiresIn
  <1>f. \A t \in Tenants : \A n \in EventsOf(t, outbox) : ExpiresIn(t, status', request') < outbox[n].time
    <2> SUFFICES ASSUME NEW t \in Tenants, NEW n \in EventsOf(t, outbox)
                 PROVE  ExpiresIn(t, status', request') < outbox[n].time
      OBVIOUS
    <2>1. n \in DOMAIN outbox /\ outbox[n].tenant = t
      BY DEF EventsOf
    <2>2. status[t] /= "none"
      BY <2>1, EventsAreOfTheAnnounced
    <2> QED
      BY <1>i, <2>2, ExpiryIsFixed
  <1>1. CASE /\ outbox' = outbox
             /\ \A t \in Tenants : status'[t] \in {"purging", "purged"} <=> status[t] \in {"purging", "purged"}
    BY <1>1, <1>f, <1>i
  <1>2. ASSUME NEW u \in Tenants,
               status[u] = "active", status' = [status EXCEPT ![u] = "purging"],
               outbox' = Append(outbox, [tenant |-> u, time |-> now]),
               ExpiresIn(u, status, request) < now
        PROVE  Goal
    <2> DEFINE e == [tenant |-> u, time |-> now]
               m == Len(outbox) + 1
    <2>1. e \in Event
      BY DEF Event
    <2>2. /\ outbox' \in Seq(Event) /\ DOMAIN outbox = 1..Len(outbox) /\ DOMAIN outbox' = 1..m
          /\ Len(outbox) \in Nat /\ outbox'[m] = e /\ \A n \in 1..Len(outbox) : outbox'[n] = outbox[n]
      <3>1. outbox' = Append(outbox, e)
        BY <1>2
      <3> HIDE DEF e
      <3> QED
        BY <2>1, <3>1
    <2>3. m \notin DOMAIN outbox /\ DOMAIN outbox' = DOMAIN outbox \cup {m}
      BY <2>2
    <2>4. e.tenant = u /\ e.time = now
      OBVIOUS
    <2> HIDE DEF e, m
    <2>5. \A t \in Tenants : t /= u => EventsOf(t, outbox') = EventsOf(t, outbox)
      BY <2>2, <2>3, <2>4 DEF EventsOf
    <2>6. EventsOf(u, outbox') = EventsOf(u, outbox) \cup {m} /\ m \notin EventsOf(u, outbox)
      BY <2>2, <2>3, <2>4 DEF EventsOf
    <2>7. Cardinality(EventsOf(u, outbox')) = 1
      <3> DEFINE E == EventsOf(u, outbox)
      <3>1. IsFiniteSet(E) /\ m \notin E /\ Cardinality(E) = 0
        BY <1>2, <1>i, <2>6, EventsAreFinite
      <3> HIDE DEF E
      <3>2. Cardinality(E \cup {m}) = Cardinality(E) + 1
        BY <3>1, FS_AddElement
      <3>3. Cardinality(E \cup {m}) = 1
        BY <3>1, <3>2
      <3> QED
        BY <2>6, <3>3 DEF E
    <2>8. ExpiresIn(u, status', request') < outbox'[m].time
      <3>1. outbox'[m].time = now
        BY <2>2, <2>4
      <3>2. ExpiresIn(u, status', request') = ExpiresIn(u, status, request)
        BY <1>2, ExpiryIsFixed
      <3> QED
        BY <1>2, <3>1, <3>2
    <2>9. \A n \in EventsOf(u, outbox') : ExpiresIn(u, status', request') < outbox'[n].time
      BY <1>f, <2>2, <2>6, <2>8 DEF EventsOf
    <2>10. status'[u] = "purging" /\ \A t \in Tenants : t /= u => status'[t] = status[t]
      BY <1>2
    <2>11. \A t \in Tenants : t /= u => \A n \in EventsOf(t, outbox) : outbox'[n] = outbox[n]
      BY <2>2 DEF EventsOf
    <2>12. ASSUME NEW t \in Tenants, t /= u
           PROVE  /\ Cardinality(EventsOf(t, outbox')) = IF status'[t] \in {"purging", "purged"} THEN 1 ELSE 0
                  /\ \A n \in EventsOf(t, outbox') : ExpiresIn(t, status', request') < outbox'[n].time
      BY <1>f, <1>i, <2>5, <2>10, <2>11, <2>12
    <2> QED
      BY <2>2, <2>7, <2>9, <2>10, <2>12
  <1> HIDE DEF Goal
  <1> QED
    BY <1>1, <1>2, AnnouncingStep

---------------------------------------------------------------------------
(* Tokens                                                                  *)

\* A client's steps: the first read finds a key, the second an active tenant, and a
\* token is signed with the scopes of the key, which lives TokenTTL.
LEMMA ExchangeSteps ==
    ASSUME Kept, NEW i \in Sessions
    PROVE  /\ \A k \in Keys \cup Tenants : FindAPIKey(i, k) =>
                  /\ keys[k] = "valid" /\ outbox' = outbox
                  /\ session' \in [Sessions -> SessionType]
                  /\ session'[i].at = "found" /\ session'[i].key = k
                  /\ \A j \in Sessions \ {i} : session'[j] = session[j]
           /\ GetTenant(i) =>
                  /\ session[i].at = "found" /\ now' = now /\ outbox' = outbox
                  /\ session' \in [Sessions -> SessionType]
                  /\ session'[i].key = session[i].key
                  /\ \/ session'[i].at = "denied"
                     \/ /\ session'[i].at = "cleared" /\ session'[i].read = now
                        /\ status[TenantOf(session[i].key)] = "active"
                  /\ \A j \in Sessions \ {i} : session'[j] = session[j]
           /\ IssueToken(i) =>
                  /\ session[i].at = "cleared" /\ now' = now /\ outbox' = outbox
                  /\ session' \in [Sessions -> SessionType]
                  /\ session'[i].key = session[i].key /\ session'[i].at = "holds"
                  /\ session'[i].scopes = Granted(session[i].key)
                  /\ session'[i].read = session[i].read /\ session'[i].expires = now + TokenTTL
                  /\ \A j \in Sessions \ {i} : session'[j] = session[j]
  <1> USE Shapes
  <1>t. session[i] \in SessionType
    OBVIOUS
  <1>1. ASSUME NEW k \in Keys \cup Tenants, FindAPIKey(i, k)
        PROVE  /\ keys[k] = "valid" /\ outbox' = outbox
               /\ session' \in [Sessions -> SessionType]
               /\ session'[i].at = "found" /\ session'[i].key = k
               /\ \A j \in Sessions \ {i} : session'[j] = session[j]
    BY <1>1, <1>t DEF FindAPIKey, SessionType
  <1>2. ASSUME GetTenant(i)
        PROVE  /\ session[i].at = "found" /\ now' = now /\ outbox' = outbox
               /\ session' \in [Sessions -> SessionType]
               /\ session'[i].key = session[i].key
               /\ \/ session'[i].at = "denied"
                  \/ /\ session'[i].at = "cleared" /\ session'[i].read = now
                     /\ status[TenantOf(session[i].key)] = "active"
               /\ \A j \in Sessions \ {i} : session'[j] = session[j]
    <2>1. session[i].at = "found" /\ now' = now /\ outbox' = outbox
      BY <1>2 DEF GetTenant
    <2>2. CASE status[TenantOf(session[i].key)] = "active"
      <3> DEFINE s == [session[i] EXCEPT !.at = "cleared", !.read = now]
      <3>1. session' = [session EXCEPT ![i] = s]
        BY <1>2, <2>2 DEF GetTenant
      <3>2. s \in SessionType /\ s.at = "cleared" /\ s.key = session[i].key /\ s.read = now
        BY <1>t DEF SessionType
      <3> HIDE DEF s
      <3> QED
        BY <2>1, <2>2, <3>1, <3>2
    <2>3. CASE status[TenantOf(session[i].key)] /= "active"
      <3> DEFINE s == [session[i] EXCEPT !.at = "denied"]
      <3>1. session' = [session EXCEPT ![i] = s]
        BY <1>2, <2>3 DEF GetTenant
      <3>2. s \in SessionType /\ s.at = "denied" /\ s.key = session[i].key
        BY <1>t DEF SessionType
      <3> HIDE DEF s
      <3> QED
        BY <2>1, <3>1, <3>2
    <2> QED
      BY <2>2, <2>3
  <1>3. ASSUME IssueToken(i)
        PROVE  /\ session[i].at = "cleared" /\ now' = now /\ outbox' = outbox
               /\ session' \in [Sessions -> SessionType]
               /\ session'[i].key = session[i].key /\ session'[i].at = "holds"
               /\ session'[i].scopes = Granted(session[i].key)
               /\ session'[i].read = session[i].read /\ session'[i].expires = now + TokenTTL
               /\ \A j \in Sessions \ {i} : session'[j] = session[j]
    <2>1. session[i].at = "cleared" /\ now' = now /\ outbox' = outbox
      BY <1>3 DEF IssueToken
    <2>2. Granted(session[i].key) \subseteq AllowedScopes
      <3>1. session[i].key \in Keys => Asked[session[i].key] \subseteq AllowedScopes
        BY <2>1 DEF Kept, TenantInvariant, TokensBelongToKeys
      <3> QED
        BY <3>1 DEF Granted, Scopes, DefaultScopes
    <2> DEFINE s == [session[i] EXCEPT !.at = "holds", !.scopes = Granted(session[i].key), !.expires = now + TokenTTL]
    <2>3. session' = [session EXCEPT ![i] = s]
      BY <1>3 DEF IssueToken
    <2>4. now + TokenTTL \in 0..(MaxTime + TokenTTL)
      OBVIOUS
    <2>5. /\ s \in SessionType /\ s.at = "holds" /\ s.key = session[i].key /\ s.read = session[i].read
          /\ s.scopes = Granted(session[i].key) /\ s.expires = now + TokenTTL
      BY <1>t, <2>2, <2>4 DEF SessionType
    <2> HIDE DEF s
    <2> QED
      BY <2>1, <2>3, <2>5
  <1> QED
    BY <1>1, <1>2, <1>3

\* Tokens keep to their key, belong to a key that was inserted, and end within a lifetime.
LEMMA TokenStep ==
    ASSUME Kept, [Next]_vars
    PROVE  session' \in [Sessions -> SessionType] /\ TokensKeepToTheirKey' /\ TokensBelongToKeys'
  <1> USE Shapes
  <1> DEFINE Fine(s) ==
               /\ (s.at = "holds" /\ s.key \in Keys) => (Asked[s.key] = {} \/ s.scopes \subseteq Asked[s.key])
               /\ s.at \in {"found", "cleared", "holds"} =>
                      /\ s.key \in Tenants \cup Keys
                      /\ s.key \in Keys => Asked[s.key] \subseteq AllowedScopes
             Timely(s, time) ==
               /\ s.at \in {"cleared", "holds"} => s.read =< time
               /\ s.at = "holds" => s.read + TokenTTL =< s.expires /\ s.expires =< time + TokenTTL
  <1>k. \A k \in Keys : keys'[k] /= "none" => Asked[k] \subseteq AllowedScopes
    BY KeyStep DEF Kept, TenantInvariant, TokensBelongToKeys
  <1>i. \A j \in Sessions : Fine(session[j]) /\ Timely(session[j], now)
    BY DEF Kept, TenantInvariant, TokensKeepToTheirKey, TokensBelongToKeys
  <1>n. now \in Int /\ now' \in Int /\ TokenTTL \in Int /\ now =< now'
    BY ClockChanges
  <1> DEFINE Goal == /\ session' \in [Sessions -> SessionType]
                     /\ \A j \in Sessions : Fine(session'[j]) /\ Timely(session'[j], now')
  <1> SUFFICES Goal
    BY <1>k DEF TokensKeepToTheirKey, TokensBelongToKeys
  <1>f. \A j \in Sessions : Fine(session[j]) /\ Timely(session[j], now')
    <2>1. \A j \in Sessions : session[j].expires \in Int /\ session[j].read \in Int
      BY DEF SessionType
    <2>2. \A a, b, c, e \in Int : a =< b /\ e =< a + c => e =< b + c
      OBVIOUS
    <2>3. \A e \in Int : e =< now + TokenTTL => e =< now' + TokenTTL
      BY <1>n, <2>2
    <2>4. \A e \in Int : e =< now => e =< now'
      BY <1>n
    <2>5. \A j \in Sessions : Timely(session[j], now')
      BY <1>i, <2>1, <2>3, <2>4
    <2> HIDE DEF Fine, Timely
    <2> QED
      BY <1>i, <2>5
  <1>1. CASE session' = session
    BY <1>f, <1>1
  <1>2. ASSUME NEW i \in Sessions, NEW k \in Keys \cup Tenants, FindAPIKey(i, k)
        PROVE  Goal
    <2>1. /\ keys[k] = "valid" /\ session' \in [Sessions -> SessionType]
          /\ session'[i].at = "found" /\ session'[i].key = k
          /\ \A j \in Sessions \ {i} : session'[j] = session[j]
      BY <1>2, ExchangeSteps
    <2>2. k \in Keys => Asked[k] \subseteq AllowedScopes
      BY <2>1 DEF Kept, TenantInvariant, TokensBelongToKeys
    <2>3. Fine(session'[i]) /\ Timely(session'[i], now')
      BY <2>1, <2>2
    <2> HIDE DEF Fine, Timely
    <2> QED
      BY <1>f, <2>1, <2>3
  <1>3. ASSUME NEW i \in Sessions, GetTenant(i)
        PROVE  Goal
    <2>1. /\ session[i].at = "found" /\ now' = now
          /\ session' \in [Sessions -> SessionType]
          /\ session'[i].key = session[i].key
          /\ \/ session'[i].at = "denied"
             \/ session'[i].at = "cleared" /\ session'[i].read = now
          /\ \A j \in Sessions \ {i} : session'[j] = session[j]
      BY <1>3, ExchangeSteps
    <2>2. /\ session[i].key \in Tenants \cup Keys
          /\ session[i].key \in Keys => Asked[session[i].key] \subseteq AllowedScopes
      <3>1. Fine(session[i])
        <4> HIDE DEF Fine, Timely
        <4> QED
          BY <1>i
      <3> QED
        BY <2>1, <3>1
    <2>3. Fine(session'[i])
      BY <2>1, <2>2
    <2>4. Timely(session'[i], now')
      BY <1>n, <2>1
    <2> HIDE DEF Fine, Timely
    <2> QED
      BY <1>f, <2>1, <2>3, <2>4
  <1>4. ASSUME NEW i \in Sessions, IssueToken(i)
        PROVE  Goal
    <2>1. /\ session[i].at = "cleared" /\ now' = now
          /\ session' \in [Sessions -> SessionType]
          /\ session'[i].key = session[i].key /\ session'[i].at = "holds"
          /\ session'[i].scopes = Granted(session[i].key)
          /\ session'[i].read = session[i].read /\ session'[i].expires = now + TokenTTL
          /\ \A j \in Sessions \ {i} : session'[j] = session[j]
      BY <1>4, ExchangeSteps
    <2>2. session[i].key \in Keys => Asked[session[i].key] = {} \/ Granted(session[i].key) = Asked[session[i].key]
      BY DEF Granted, Scopes
    <2>3. /\ session[i].key \in Tenants \cup Keys
          /\ session[i].key \in Keys => Asked[session[i].key] \subseteq AllowedScopes
          /\ session[i].read =< now
      BY <1>i, <2>1
    <2>4. Fine(session'[i])
      BY <2>1, <2>2, <2>3
    <2>5. Timely(session'[i], now')
      <3>1. session[i].read \in Int
        BY DEF SessionType
      <3> QED
        BY <1>n, <2>1, <2>3, <3>1
    <2> HIDE DEF Fine, Timely
    <2> QED
      BY <1>f, <2>1, <2>4, <2>5
  <1> HIDE DEF Goal
  <1> QED
    BY <1>1, <1>2, <1>3, <1>4, SessionChanges

\* The tenant is read while it is active and has no event, and an event comes after
\* every read that was made before it.
LEMMA ReadStep ==
    ASSUME Kept, [Next]_vars
    PROVE  ReadsPrecedeAnnouncements'
  <1> USE Shapes
  <1> DEFINE In(s, e) == (s.at \in {"cleared", "holds"} /\ TenantOf(s.key) = e.tenant) => s.read =< e.time
             Goal == \A i \in Sessions, n \in DOMAIN outbox' : In(session'[i], outbox'[n])
  <1> SUFFICES Goal
    BY DEF ReadsPrecedeAnnouncements, TenantOf
  <1>i. \A i \in Sessions, n \in DOMAIN outbox : In(session[i], outbox[n])
    BY DEF Kept, TenantInvariant, ReadsPrecedeAnnouncements
  <1>1. CASE outbox' = outbox
    <2>1. CASE session' = session
      BY <1>i, <1>1, <2>1
    <2>2. ASSUME NEW i \in Sessions, NEW k \in Keys \cup Tenants, FindAPIKey(i, k)
          PROVE  Goal
      <3>1. session'[i].at = "found" /\ \A j \in Sessions \ {i} : session'[j] = session[j]
        BY <2>2, ExchangeSteps
      <3> QED
        BY <1>i, <1>1, <3>1
    <2>3. ASSUME NEW i \in Sessions, GetTenant(i)
          PROVE  Goal
      <3>1. /\ session'[i].key = session[i].key
            /\ \/ session'[i].at = "denied"
               \/ session'[i].at = "cleared" /\ status[TenantOf(session[i].key)] = "active"
            /\ \A j \in Sessions \ {i} : session'[j] = session[j]
        BY <2>3, ExchangeSteps
      <3>2. \A n \in DOMAIN outbox : In(session'[i], outbox[n])
        BY <3>1, EventsAreOfTheAnnounced
      <3> HIDE DEF In
      <3> QED
        BY <1>i, <1>1, <3>1, <3>2
    <2>4. ASSUME NEW i \in Sessions, IssueToken(i)
          PROVE  Goal
      <3>1. /\ session[i].at = "cleared" /\ session'[i].at = "holds"
            /\ session'[i].key = session[i].key /\ session'[i].read = session[i].read
            /\ \A j \in Sessions \ {i} : session'[j] = session[j]
        BY <2>4, ExchangeSteps
      <3>2. \A n \in DOMAIN outbox : In(session'[i], outbox[n])
        BY <1>i, <3>1
      <3> HIDE DEF In
      <3> QED
        BY <1>i, <1>1, <3>1, <3>2
    <2> HIDE DEF Goal
    <2> QED
      BY <2>1, <2>2, <2>3, <2>4, SessionChanges
  <1>2. ASSUME NEW u \in Tenants,
               outbox' = Append(outbox, [tenant |-> u, time |-> now]), session' = session
        PROVE  Goal
    <2> DEFINE e == [tenant |-> u, time |-> now]
    <2>1. e \in Event /\ e.time = now
      BY DEF Event
    <2>2. outbox' = Append(outbox, e)
      BY <1>2
    <2> HIDE DEF e
    <2>3. \A n \in DOMAIN outbox' : (n \in DOMAIN outbox /\ outbox'[n] = outbox[n]) \/ outbox'[n] = e
      <3>1. /\ DOMAIN outbox = 1..Len(outbox) /\ DOMAIN outbox' = 1..(Len(outbox) + 1) /\ Len(outbox) \in Nat
            /\ outbox'[Len(outbox) + 1] = e /\ \A n \in 1..Len(outbox) : outbox'[n] = outbox[n]
        BY <2>1, <2>2
      <3> QED
        BY <3>1
    <2>4. \A i \in Sessions : In(session[i], e)
      BY <2>1 DEF Kept, TenantInvariant, TokensBelongToKeys
    <2> HIDE DEF In
    <2> QED
      BY <1>2, <1>i, <2>3, <2>4
  <1> HIDE DEF Goal
  <1> QED
    BY <1>1, <1>2, AnnouncingStep

\* A token whose tenant was read before the announcement outlives it by no more than
\* its lifetime and the time its signing took.
LEMMA ReadsBoundTokens ==
    ASSUME Kept
    PROVE  TokensDieAfterAnnouncement
  <1> SUFFICES ASSUME NEW i \in Sessions, NEW n \in DOMAIN outbox,
                      session[i].at = "holds", TenantOf(session[i].key) = outbox[n].tenant
               PROVE  session[i].expires =< outbox[n].time + TokenTTL + SigningDelay(i)
    BY DEF TokensDieAfterAnnouncement
  <1>1. session[i].read =< outbox[n].time
    BY DEF Kept, TenantInvariant, ReadsPrecedeAnnouncements
  <1>2. session[i] \in SessionType /\ outbox[n] \in Event /\ MaxTime \in Nat /\ TokenTTL \in Nat
    BY Shapes
  <1>3. session[i].read \in Int /\ session[i].expires \in Int /\ outbox[n].time \in Int
    BY <1>2 DEF SessionType, Event
  <1>4. \A r, e, a, l \in Int : r =< a => e =< a + l + ((e - l) - r)
    OBVIOUS
  <1> QED
    BY <1>1, <1>2, <1>3, <1>4 DEF SigningDelay

---------------------------------------------------------------------------
(* The whole invariant                                                     *)

Rows == {"none", "rows", "live"}

\* What the purge consumers and the writes change, and their shape
ServiceTypes ==
    /\ relayed \in SUBSET Tenants /\ pending \in [Services -> SUBSET Tenants]
    /\ purge \in [Services -> PurgeType] /\ admitted \in [Services -> SUBSET Sessions]
    /\ rows \in [Services -> [Tenants -> Rows]] /\ faults \in 0..MaxFaults

\* A consumer's step keeps the shape of what it changes.
LEMMA PurgeSteps ==
    ASSUME Kept, NEW s \in Services,
           PurgeCommit(s) \/ PurgeAck(s) \/ PurgeFails(s) \/ \E t \in Tenants : PurgeBegin(s, t)
    PROVE  ServiceTypes'
  <1> USE Shapes DEF ServiceTypes, Rows
  <1>t. purge[s] \in PurgeType /\ NoPurge \in PurgeType
    BY DEF NoPurge, PurgeType
  <1>1. CASE PurgeCommit(s)
    <2> DEFINE p == [purge[s] EXCEPT !.at = "committed", !.left = "none"]
    <2>1. p \in PurgeType /\ purge[s].left \in Rows
      BY <1>t DEF PurgeType
    <2>2. /\ purge' = [purge EXCEPT ![s] = p]
          /\ rows' = [rows EXCEPT ![s][purge[s].tenant] = purge[s].left]
          /\ UNCHANGED <<relayed, pending, admitted, faults>>
      BY <1>1 DEF PurgeCommit
    <2> HIDE DEF p
    <2> QED
      BY <2>1, <2>2
  <1>2. CASE PurgeAck(s)
    BY <1>2, <1>t DEF PurgeAck
  <1>3. CASE PurgeFails(s)
    BY <1>3, <1>t DEF PurgeFails
  <1>4. ASSUME NEW t \in Tenants, PurgeBegin(s, t)
        PROVE  ServiceTypes'
    <2>1. [at |-> "deleting", tenant |-> t, left |-> "none"] \in PurgeType
      BY DEF PurgeType
    <2> QED
      BY <1>4, <2>1 DEF PurgeBegin
  <1> QED
    BY <1>1, <1>2, <1>3, <1>4

\* A request that is let in and served keeps the shape of what it changes.
LEMMA WriteSteps ==
    ASSUME Kept, NEW i \in Sessions, NEW s \in Services, Admit(i, s) \/ Write(i, s)
    PROVE  ServiceTypes'
  <1> USE Shapes DEF ServiceTypes, Rows
  <1>1. CASE Admit(i, s)
    BY <1>1 DEF Admit
  <1>2. CASE Write(i, s)
    <2> DEFINE t == TenantOf(session[i].key)
    <2>1. UNCHANGED <<relayed, pending, faults>> /\ admitted' \in [Services -> SUBSET Sessions]
      BY <1>2 DEF Write
    <2>2. \A held \in Rows : Holding(held, i, s) \in Rows
      BY DEF Holding
    <2>3. rows' = rows \/ rows' = [rows EXCEPT ![s][t] = Holding(rows[s][t], i, s)]
      BY <1>2 DEF Write
    <2>4. purge' = purge \/ purge' = [purge EXCEPT ![s].left = Holding(purge[s].left, i, s)]
      BY <1>2 DEF Write
    <2> HIDE DEF t
    <2>5. rows' \in [Services -> [Tenants -> Rows]]
      <3>1. CASE rows' = rows
        BY <3>1
      <3>2. CASE rows' = [rows EXCEPT ![s][t] = Holding(rows[s][t], i, s)]
        <4>1. CASE t \in Tenants
          <5>1. Holding(rows[s][t], i, s) \in Rows
            BY <2>2, <4>1
          <5> QED
            BY <3>2, <4>1, <5>1
        <4>2. CASE t \notin Tenants
          BY <3>2, <4>2
        <4> QED
          BY <4>1, <4>2
      <3> QED
        BY <2>3, <3>1, <3>2
    <2>6. purge' \in [Services -> PurgeType]
      <3> DEFINE p == [purge[s] EXCEPT !.left = Holding(purge[s].left, i, s)]
      <3>1. purge[s] \in PurgeType /\ Holding(purge[s].left, i, s) \in Rows
        BY <2>2 DEF PurgeType
      <3>2. p \in PurgeType
        BY <3>1 DEF PurgeType
      <3>3. purge' = purge \/ purge' = [purge EXCEPT ![s] = p]
        BY <2>4
      <3> HIDE DEF p
      <3> QED
        BY <3>2, <3>3
    <2> QED
      BY <2>1, <2>5, <2>6
  <1> QED
    BY <1>1, <1>2

\* What only the relay, the purge consumers, the writes and the faults touch keeps its shape.
LEMMA RestStep ==
    ASSUME Kept, [Next]_vars
    PROVE  ServiceTypes'
  <1>1. CASE UNCHANGED <<serviceVars, faults>>
    BY <1>1, Shapes DEF ServiceTypes, Rows, serviceVars
  <1>2. ASSUME NEW t \in Tenants, Relay(t)
        PROVE  ServiceTypes'
    BY <1>2, Shapes DEF ServiceTypes, Rows, Relay
  <1>3. ASSUME NEW w \in Sweepers, SweepFails(w)
        PROVE  ServiceTypes'
    BY <1>3, Shapes DEF ServiceTypes, Rows, SweepFails, serviceVars
  <1>4. \/ UNCHANGED <<serviceVars, faults>>
        \/ \E t \in Tenants : Relay(t)
        \/ \E w \in Sweepers : SweepFails(w)
        \/ \E s \in Services :
               PurgeCommit(s) \/ PurgeAck(s) \/ PurgeFails(s) \/ \E t \in Tenants : PurgeBegin(s, t)
        \/ \E i \in Sessions, s \in Services : Admit(i, s) \/ Write(i, s)
    BY ZenonT(60) DEF Next, vars, Tick, CreateTenant, Signup, Begin, LockSignups, Provision, FindTenant, InsertAPIKey,
           RevokeAPIKey, FindAPIKey, GetTenant, IssueToken, SweepStart, SweepPurgeable, SweepDone, MarkTenantPurging,
           FinalizeTenantPurge
  <1> QED
    BY <1>1, <1>2, <1>3, <1>4, PurgeSteps, WriteSteps

\* Every step keeps the whole invariant.
LEMMA TenantsStep ==
    Kept /\ [Next]_vars => Kept'
  <1> SUFFICES ASSUME Kept, [Next]_vars
               PROVE  Kept'
    OBVIOUS
  <1>1. TypeOK'
    <2>1. now' \in 0..MaxTime
      BY ClockChanges
    <2>2. request' \in [Tenants -> RequestType]
      <3>1. CASE Tenants = {}
        <4>1. request' = request
          BY <3>1, RequestChanges
        <4> QED
          BY <4>1, Shapes
      <3>2. CASE Tenants /= {}
        BY <3>2, RequestStep
      <3> QED
        BY <3>1, <3>2
    <2>3. status' \in [Tenants -> {"none", "active", "purging", "purged"}]
      <3>1. CASE Tenants = {}
        <4>1. status' = status
          BY <3>1, StatusChanges
        <4> QED
          BY <4>1, Shapes
      <3>2. CASE Tenants /= {}
        BY <3>2, ExistenceStep
      <3> QED
        BY <3>1, <3>2
    <2> QED
      BY <2>1, <2>2, <2>3, KeyStep, TokenStep, SweeperStep, AnnouncedStep, RestStep
         DEF TypeOK, Event, ServiceTypes, Rows
  <1>2. TenantInvariant'
    BY <1>1, AnnouncedStep, TokenStep, ReadStep, SweeperStep, TurnsStep DEF TenantInvariant
  <1> QED
    BY <1>2, CapStep, WholeStep DEF Kept

\* The invariant holds before the first signup.
LEMMA TenantsInit ==
    Init => Kept
  <1> SUFFICES ASSUME Init
               PROVE  Kept
    OBVIOUS
  <1>n. /\ MaxTime \in Nat /\ MaxFaults \in Nat /\ TokenTTL \in Nat /\ DailyLimit \in Nat /\ DayLength \in Nat \ {0}
    BY DurationsAreOrdered
  <1>1. TypeOK
    <2>1. NewRequest \in RequestType
      <3>1. 0 \in 0..Day(MaxTime)
        BY <1>n DEF Day
      <3> QED
        BY <1>n, <3>1 DEF NewRequest, RequestType
    <2>2. NoToken \in SessionType
      BY <1>n DEF NoToken, SessionType
    <2>3. Idle \in SweeperType /\ NoPurge \in PurgeType
      BY <1>n DEF Idle, SweeperType, NoPurge, PurgeType
    <2>4. /\ request \in [Tenants -> RequestType] /\ session \in [Sessions -> SessionType]
          /\ sweeper \in [Sweepers -> SweeperType] /\ purge \in [Services -> PurgeType]
      BY <2>1, <2>2, <2>3 DEF Init
    <2>5. /\ now \in 0..MaxTime /\ faults \in 0..MaxFaults /\ relayed \in SUBSET Tenants
          /\ outbox \in Seq([tenant : Tenants, time : 0..MaxTime])
      BY <1>n DEF Init
    <2>6. /\ status \in [Tenants -> {"none", "active", "purging", "purged"}]
          /\ keys \in [Tenants \cup Keys -> {"none", "checked", "valid", "revoked", "deleted"}]
          /\ pending \in [Services -> SUBSET Tenants] /\ admitted \in [Services -> SUBSET Sessions]
          /\ rows \in [Services -> [Tenants -> {"none", "rows", "live"}]]
      BY DEF Init
    <2> QED
      BY <2>4, <2>5, <2>6 DEF TypeOK
  <1>e. /\ \A t \in Tenants : request[t].at = "new" /\ status[t] = "none" /\ keys[t] = "none"
        /\ \A k \in Keys : keys[k] = "none"
        /\ \A i \in Sessions : session[i].at = "new"
        /\ \A w \in Sweepers : sweeper[w].at = "idle"
        /\ DOMAIN outbox = {}
    BY DEF Init, NewRequest, NoToken, Idle
  <1>2. ExpiryIsAnnouncedOnce
    <2>1. Cardinality({}) = 0
      BY FS_EmptySet
    <2>2. \A t : {n \in DOMAIN outbox : outbox[n].tenant = t} = {}
      BY <1>e
    <2> QED
      BY <1>e, <2>1, <2>2 DEF ExpiryIsAnnouncedOnce
  <1>3. TokensKeepToTheirKey /\ TokensBelongToKeys
    BY <1>e DEF TokensKeepToTheirKey, TokensBelongToKeys
  <1>4. SweepsFindTheExpired
    BY <1>e DEF SweepsFindTheExpired
  <1>5. SignupsTakeTurns /\ SignupsAreWhole
    BY <1>e DEF SignupsTakeTurns, SignupsAreWhole
  <1>6. ReadsPrecedeAnnouncements
    BY <1>e DEF ReadsPrecedeAnnouncements
  <1>7. DailyCapHolds
    <2>1. Cardinality({}) = 0
      BY FS_EmptySet
    <2>2. \A d : {t \in Tenants : /\ request[t].at = "done"
                                  /\ Day(request[t].created) = d
                                  /\ request[t].day = d} = {}
      BY <1>e
    <2> QED
      BY <1>n, <2>1, <2>2 DEF DailyCapHolds
  <1> QED
    BY <1>1, <1>2, <1>3, <1>4, <1>5, <1>6, <1>7 DEF Kept, TenantInvariant

(***************************************************************************)
(* For any tenants, keys, sweepers and durations: an expiry is announced   *)
(* exactly once, in the step that ends the tenant's active life and after  *)
(* its expiry, and tokens keep to the scopes of their key                  *)
(* (MarkTenantPurging, IssueToken).                                        *)
(***************************************************************************)
THEOREM TenantsAlwaysInvariant == Spec => []TenantInvariant
  <1>1. Kept => TenantInvariant
    BY DEF Kept
  <1> QED
    BY <1>1, TenantsInit, TenantsStep, PTL DEF Spec

(***************************************************************************)
(* Whichever key mints it, a token outlives its tenant's announcement by   *)
(* at most its lifetime and the time that passed between the read of the   *)
(* tenant and the signing (IssueToken).                                    *)
(***************************************************************************)
THEOREM TokensAlwaysDie == Spec => []TokensDieAfterAnnouncement
  <1>1. Kept => TokensDieAfterAnnouncement
    BY ReadsBoundTokens
  <1> QED
    BY <1>1, TenantsInit, TenantsStep, PTL DEF Spec

(***************************************************************************)
(* However many signups race, no day passes its cap                        *)
(* (ProvisionSandboxTenant counts under a table lock).                     *)
(***************************************************************************)
THEOREM CapAlwaysHolds == Spec => []DailyCapHolds
  <1>1. Kept => DailyCapHolds
    BY DEF Kept
  <1> QED
    BY <1>1, TenantsInit, TenantsStep, PTL DEF Spec

(***************************************************************************)
(* A signup is all or nothing, and an address signs up once                *)
(* (ProvisionSandboxTenant).                                               *)
(***************************************************************************)
THEOREM SignupsAlwaysWhole == Spec => []SignupsAreWhole
  <1>1. Kept => SignupsAreWhole
    BY DEF Kept
  <1> QED
    BY <1>1, TenantsInit, TenantsStep, PTL DEF Spec
=============================================================================
