---------------------------- MODULE SandboxTenants ----------------------------
(***************************************************************************)
(* The identity service's tenants, API keys and tokens                     *)
(* (services/identity/internal), the sandbox sweeper that expires tenants, *)
(* and the purge consumers of the other services, which delete an expired  *)
(* tenant's rows.  Time is a clock that ticks; every duration of the code  *)
(* is a number of ticks.  One model step is one statement or transaction   *)
(* of the code, so the reads that precede a write can be stale.            *)
(***************************************************************************)
EXTENDS Integers, Sequences, FiniteSets

CONSTANTS
    Tenants,       \* one id for each request that may create a tenant
    Email,         \* the address a request signs up with; None: an operator's
    Company,       \* the company name a request carries
    Keys,          \* one id for each API key an operator asks for
    Owner,         \* the tenant of each of those keys
    Environment,   \* "sandbox" or "live"
    Asked,         \* the scopes asked for, {} when the request names none
    Sessions,      \* clients that exchange a key for a token
    Sweepers,      \* identity instances running the sweeper
    Services,      \* services with a purge consumer
    Ledger,        \* the one of them that is ledger-core
    SandboxTTL, PurgeGrace, TokenTTL, ClockSkew,
    DayLength,     \* ticks in a calendar day
    SlugWindow,    \* ticks in which the leading digits of a UUIDv7 are the same
    DailyLimit,
    LastSignup,    \* bound: no signup is received after this time
    FirstExchange, \* bound: no key is exchanged before this time
    MaxTime,       \* bound: the clock stops here
    MaxFaults,     \* bound: sweeps and purges that fail half-way
    None

(* The durations of the code are positive, and tokens are far shorter than *)
(* the grace period (15 minutes and a minute of skew against 24 hours).    *)
ASSUME DurationsAreOrdered ==
    /\ {SandboxTTL, PurgeGrace, TokenTTL, DayLength, SlugWindow} \subseteq Nat \ {0}
    /\ {ClockSkew, DailyLimit, LastSignup, FirstExchange, MaxTime, MaxFaults} \subseteq Nat
    /\ TokenTTL + ClockSkew =< PurgeGrace

ASSUME LedgerIsAService == Ledger \in Services

(* Tenants and keys have ids of their own, and a key is asked for on       *)
(* behalf of a tenant.                                                     *)
ASSUME IdsAreDistinct ==
    /\ IsFiniteSet(Tenants) /\ Keys \cap Tenants = {}
    /\ Owner \in [Keys -> Tenants]

VARIABLES
    now,         \* the clock
    request,     \* how far each tenant-creating request has come
    status,      \* tenants.status, "none" before the row exists
    keys,        \* api_keys rows: those of signups (the tenant's id) and Keys
    session,     \* each client's exchange and the token it holds
    sweeper,     \* where each sweeper is in its pass
    outbox,      \* expiry events in the order they were enqueued
    relayed,     \* tenants whose event reached the broker
    pending,     \* events not yet acknowledged by each service's consumer
    purge,       \* the delivery each service's consumer is working on
    admitted,    \* requests each service has let in and not yet served
    rows,        \* what each service's schema holds of each tenant
    faults

serviceVars == <<relayed, pending, purge, admitted, rows>>
vars == <<now, request, status, keys, session, sweeper, outbox, serviceVars, faults>>

Never == MaxTime + SandboxTTL + PurgeGrace + 1
AllowedScopes == {"read", "write"}
DefaultScopes == AllowedScopes

NewRequest == [at |-> "new", created |-> 0, day |-> 0]
NoToken == [at |-> "new", key |-> None, scopes |-> {}, read |-> 0, expires |-> 0]
NoPurge == [at |-> "idle", tenant |-> None, left |-> "none"]
Idle == [at |-> "idle", time |-> 0, todo |-> {}]

Init ==
    /\ now = 0
    /\ request = [t \in Tenants |-> NewRequest]
    /\ status = [t \in Tenants |-> "none"]
    /\ keys = [k \in Tenants \cup Keys |-> "none"]
    /\ session = [i \in Sessions |-> NoToken]
    /\ sweeper = [w \in Sweepers |-> Idle]
    /\ outbox = <<>>
    /\ relayed = {}
    /\ pending = [s \in Services |-> {}]
    /\ purge = [s \in Services |-> NoPurge]
    /\ admitted = [s \in Services |-> {}]
    /\ rows = [s \in Services |-> [t \in Tenants |-> "none"]]
    /\ faults = 0

Tick ==
    /\ now < MaxTime
    /\ now' = now + 1
    /\ UNCHANGED <<request, status, keys, session, sweeper, outbox, serviceVars, faults>>

-----------------------------------------------------------------------------
(***************************************************************************)
(* Tenants                                                                 *)
(***************************************************************************)

ExpiresAt(t) ==
    IF Email[t] = None \/ status[t] = "none" THEN Never
    ELSE request[t].created + SandboxTTL

(* A signup's slug is the company name and the first six hex digits of the *)
(* tenant's UUIDv7, which are the high bits of its creation time.          *)
Slug(t) ==
    <<Company[t], IF Email[t] = None THEN -1 ELSE request[t].created \div SlugWindow>>

SlugTaken(t) == \E u \in Tenants : status[u] /= "none" /\ Slug(u) = Slug(t)
EmailTaken(t) == \E u \in Tenants : request[u].at = "done" /\ Email[u] = Email[t]

(* Operator: POST /v1/tenants. *)
CreateTenant(t) ==
    /\ Email[t] = None
    /\ status[t] = "none"
    /\ ~SlugTaken(t)
    /\ status' = [status EXCEPT ![t] = "active"]
    /\ UNCHANGED <<now, request, keys, session, sweeper, outbox, serviceVars, faults>>

(* A signup reads its clock, and makes the id and the expiry from it, before *)
(* it opens its transaction.                                                *)
Signup(t) ==
    /\ Email[t] /= None
    /\ request[t].at = "new"
    /\ now =< LastSignup
    /\ request' = [request EXCEPT ![t].at = "validated", ![t].created = now]
    /\ UNCHANGED <<now, status, keys, session, sweeper, outbox, serviceVars, faults>>

Day(time) == time \div DayLength

(* BEGIN: the database's now(), which the count truncates to a day, is     *)
(* fixed here, before the wait for the lock.                               *)
Begin(t) ==
    /\ request[t].at = "validated"
    /\ request' = [request EXCEPT ![t].at = "begun", ![t].day = Day(now)]
    /\ UNCHANGED <<now, status, keys, session, sweeper, outbox, serviceVars, faults>>

Todays(t) ==
    {u \in Tenants : request[u].at = "done"
                     /\ Day(request[u].created) >= request[t].day}

\* Mutant: signups are counted without the table lock.
LockSignups_Racy(t) ==
    /\ request[t].at = "begun"
    /\ request' = [request EXCEPT ![t].at =
                       IF Cardinality(Todays(t)) >= DailyLimit THEN "limit" ELSE "locked"]
    /\ UNCHANGED <<now, status, keys, session, sweeper, outbox, serviceVars, faults>>

(* LOCK TABLE and the count of the day's signups. *)
LockSignups(t) ==
    /\ request[t].at = "begun"
    /\ \A u \in Tenants : request[u].at /= "locked"
    /\ request' = [request EXCEPT ![t].at =
                       IF Cardinality(Todays(t)) >= DailyLimit THEN "limit" ELSE "locked"]
    /\ UNCHANGED <<now, status, keys, session, sweeper, outbox, serviceVars, faults>>

\* Mutant: the inserts are separate transactions.
Provision_NotAtomic(t) ==
    /\ request[t].at = "locked"
    /\ request' = [request EXCEPT ![t].at = IF SlugTaken(t) THEN "slug"
                                            ELSE IF EmailTaken(t) THEN "email" ELSE "done"]
    /\ status' = IF SlugTaken(t) THEN status ELSE [status EXCEPT ![t] = "active"]
    /\ keys' = IF SlugTaken(t) THEN keys ELSE [keys EXCEPT ![t] = "valid"]
    /\ UNCHANGED <<now, session, sweeper, outbox, serviceVars, faults>>

(* The three inserts and the commit, or the unique constraint that rolls   *)
(* all of them back.                                                       *)
Provision(t) ==
    /\ request[t].at = "locked"
    /\ \/ /\ SlugTaken(t)
          /\ request' = [request EXCEPT ![t].at = "slug"]
          /\ UNCHANGED <<status, keys>>
       \/ /\ ~SlugTaken(t) /\ EmailTaken(t)
          /\ request' = [request EXCEPT ![t].at = "email"]
          /\ UNCHANGED <<status, keys>>
       \/ /\ ~SlugTaken(t) /\ ~EmailTaken(t)
          /\ request' = [request EXCEPT ![t].at = "done"]
          /\ status' = [status EXCEPT ![t] = "active"]
          /\ keys' = [keys EXCEPT ![t] = "valid"]
    /\ UNCHANGED <<now, session, sweeper, outbox, serviceVars, faults>>

-----------------------------------------------------------------------------
(***************************************************************************)
(* API keys and tokens                                                     *)
(***************************************************************************)

TenantOf(k) == IF k \in Keys THEN Owner[k] ELSE k
EnvironmentOf(k) == IF k \in Keys THEN Environment[k] ELSE "sandbox"

(* The scopes column: a signup's insert leaves it out, so it is empty.     *)
Scopes(k) ==
    IF k \notin Keys THEN {} ELSE IF Asked[k] = {} THEN DefaultScopes ELSE Asked[k]

(* POST /v1/api-keys: the tenant must exist, whatever its status.          *)
FindTenant(k) ==
    /\ keys[k] = "none"
    /\ Asked[k] \subseteq AllowedScopes
    /\ status[Owner[k]] /= "none"
    /\ keys' = [keys EXCEPT ![k] = "checked"]
    /\ UNCHANGED <<now, request, status, session, sweeper, outbox, serviceVars, faults>>

InsertAPIKey(k) ==
    /\ keys[k] = "checked"
    /\ keys' = [keys EXCEPT ![k] = "valid"]
    /\ UNCHANGED <<now, request, status, session, sweeper, outbox, serviceVars, faults>>

RevokeAPIKey(k) ==
    /\ keys[k] = "valid"
    /\ keys' = [keys EXCEPT ![k] = "revoked"]
    /\ UNCHANGED <<now, request, status, session, sweeper, outbox, serviceVars, faults>>

(* POST /v1/auth/token, first read: the key, which must not be revoked.    *)
FindAPIKey(i, k) ==
    /\ session[i].at = "new"
    /\ now >= FirstExchange
    /\ keys[k] = "valid"
    /\ session' = [session EXCEPT ![i].at = "found", ![i].key = k]
    /\ UNCHANGED <<now, request, status, keys, sweeper, outbox, serviceVars, faults>>

Granted(k) == IF Scopes(k) = {} THEN DefaultScopes ELSE Scopes(k)

\* Mutant: the tenant's status is not checked.
GetTenant_AnyStatus(i) ==
    /\ session[i].at = "found"
    /\ session' = [session EXCEPT ![i].at = "cleared", ![i].read = now]
    /\ UNCHANGED <<now, request, status, keys, sweeper, outbox, serviceVars, faults>>

(* Second read: the tenant, which must be active.                          *)
GetTenant(i) ==
    /\ session[i].at = "found"
    /\ session' = IF status[TenantOf(session[i].key)] = "active"
                  THEN [session EXCEPT ![i].at = "cleared", ![i].read = now]
                  ELSE [session EXCEPT ![i].at = "denied"]
    /\ UNCHANGED <<now, request, status, keys, sweeper, outbox, serviceVars, faults>>

(* The token is signed; its lifetime starts at the signer's own clock,     *)
(* however long ago the tenant was read.                                   *)
IssueToken(i) ==
    /\ session[i].at = "cleared"
    /\ session' = [session EXCEPT ![i].at = "holds",
                                  ![i].scopes = Granted(session[i].key),
                                  ![i].expires = now + TokenTTL]
    /\ UNCHANGED <<now, request, status, keys, sweeper, outbox, serviceVars, faults>>

(* What every service's middleware accepts: an unexpired token, whatever   *)
(* has happened to its key or tenant since.                                *)
Accepted(i) == session[i].at = "holds" /\ now < session[i].expires + ClockSkew

(* A request that writes passes the middleware of a service; its           *)
(* transaction commits later, when the token may have expired.             *)
Admit(i, s) ==
    /\ Accepted(i)
    /\ "write" \in session[i].scopes
    /\ i \notin admitted[s]
    /\ admitted' = [admitted EXCEPT ![s] = @ \cup {i}]
    /\ UNCHANGED <<now, request, status, keys, session, sweeper, outbox, relayed,
                   pending, purge, rows, faults>>

(* A tenant's rows once those of a request are among them; a ledger takes  *)
(* the environment of the token.                                           *)
Holding(held, i, s) ==
    IF s = Ledger /\ EnvironmentOf(session[i].key) = "live" THEN "live"
    ELSE IF held = "none" THEN "rows" ELSE held

(* The request's transaction commits, or fails and stores nothing.  While  *)
(* a purge of the tenant runs, the rows go with it if its DELETE has yet to *)
(* come to their table and stay if it has passed.                          *)
Write(i, s) ==
    LET t == TenantOf(session[i].key) IN
    /\ i \in admitted[s]
    /\ admitted' = [admitted EXCEPT ![s] = @ \ {i}]
    /\ \/ UNCHANGED <<purge, rows>>
       \/ /\ rows' = [rows EXCEPT ![s][t] = Holding(@, i, s)]
          /\ \/ UNCHANGED purge
             \/ /\ purge[s].at = "deleting" /\ purge[s].tenant = t
                /\ purge' = [purge EXCEPT ![s].left = Holding(@, i, s)]
    /\ UNCHANGED <<now, request, status, keys, session, sweeper, outbox, relayed,
                   pending, faults>>

-----------------------------------------------------------------------------
(***************************************************************************)
(* The sweeper                                                             *)
(***************************************************************************)

SweepStart(w) ==
    /\ sweeper[w].at = "idle"
    /\ sweeper' = [sweeper EXCEPT ![w] =
           [at |-> "announcing", time |-> now,
            todo |-> {t \in Tenants : status[t] = "active" /\ ExpiresAt(t) < now}]]
    /\ UNCHANGED <<now, request, status, keys, session, outbox, serviceVars, faults>>

Oldest(t, S) == t \in S /\ \A u \in S : ExpiresAt(t) =< ExpiresAt(u)

\* Mutant: the update is not conditional on the status.
MarkTenantPurging_NoGuard(w, t) ==
    /\ sweeper[w].at = "announcing" /\ Oldest(t, sweeper[w].todo)
    /\ sweeper' = [sweeper EXCEPT ![w].todo = @ \ {t}]
    /\ status' = [status EXCEPT ![t] = "purging"]
    /\ outbox' = Append(outbox, [tenant |-> t, time |-> now])
    /\ UNCHANGED <<now, request, keys, session, serviceVars, faults>>

(* The status and the outbox row, in one transaction, unless a concurrent  *)
(* pass has announced the tenant.                                          *)
MarkTenantPurging(w, t) ==
    /\ sweeper[w].at = "announcing" /\ Oldest(t, sweeper[w].todo)
    /\ sweeper' = [sweeper EXCEPT ![w].todo = @ \ {t}]
    /\ IF status[t] = "active"
       THEN /\ status' = [status EXCEPT ![t] = "purging"]
            /\ outbox' = Append(outbox, [tenant |-> t, time |-> now])
       ELSE UNCHANGED <<status, outbox>>
    /\ UNCHANGED <<now, request, keys, session, serviceVars, faults>>

\* Mutant: tenants that were not announced are purged.
PurgeableTenants_Active(time) ==
    {t \in Tenants : status[t] = "active" /\ ExpiresAt(t) < time - PurgeGrace}

PurgeableTenants(time) ==
    {t \in Tenants : status[t] = "purging" /\ ExpiresAt(t) < time - PurgeGrace}

SweepPurgeable(w) ==
    /\ sweeper[w].at = "announcing" /\ sweeper[w].todo = {}
    /\ sweeper' = [sweeper EXCEPT ![w] =
           [at |-> "finalizing", time |-> 0, todo |-> PurgeableTenants(sweeper[w].time)]]
    /\ UNCHANGED <<now, request, status, keys, session, outbox, serviceVars, faults>>

KeysOf(t) == {k \in DOMAIN keys : TenantOf(k) = t}

FinalizeTenantPurge(w, t) ==
    /\ sweeper[w].at = "finalizing" /\ t \in sweeper[w].todo
    /\ sweeper' = [sweeper EXCEPT ![w].todo = @ \ {t}]
    /\ IF status[t] = "purging"
       THEN /\ status' = [status EXCEPT ![t] = "purged"]
            /\ keys' = [k \in DOMAIN keys |->
                  IF k \in KeysOf(t) /\ keys[k] \in {"valid", "revoked"}
                  THEN "deleted" ELSE keys[k]]
       ELSE UNCHANGED <<status, keys>>
    /\ UNCHANGED <<now, request, session, outbox, serviceVars, faults>>

SweepDone(w) ==
    /\ sweeper[w].at = "finalizing" /\ sweeper[w].todo = {}
    /\ sweeper' = [sweeper EXCEPT ![w] = Idle]
    /\ UNCHANGED <<now, request, status, keys, session, outbox, serviceVars, faults>>

(* A query fails or the process dies: the rest of the pass is abandoned.   *)
SweepFails(w) ==
    /\ sweeper[w].at /= "idle"
    /\ faults < MaxFaults
    /\ faults' = faults + 1
    /\ sweeper' = [sweeper EXCEPT ![w] = Idle]
    /\ UNCHANGED <<now, request, status, keys, session, outbox, serviceVars>>

-----------------------------------------------------------------------------
(***************************************************************************)
(* The purge of the other services                                         *)
(***************************************************************************)

(* The relay publishes an enqueued event; every durable consumer gets it.  *)
Relay(t) ==
    /\ t \notin relayed
    /\ \E n \in DOMAIN outbox : outbox[n].tenant = t
    /\ relayed' = relayed \cup {t}
    /\ pending' = [s \in Services |-> pending[s] \cup {t}]
    /\ UNCHANGED <<now, request, status, keys, session, sweeper, outbox, purge,
                   admitted, rows, faults>>

(* purge_expired_sandbox_tenant refuses a tenant that owns a live ledger.  *)
Refused(s, t) == s = Ledger /\ rows[s][t] = "live"

(* The delivery: the guard is read, and the DELETEs of the tables follow   *)
(* one by one, each with a snapshot of its own.  A refused delivery is     *)
(* NAKed and changes nothing.                                              *)
PurgeBegin(s, t) ==
    /\ t \in pending[s]
    /\ purge[s] = NoPurge
    /\ ~Refused(s, t)
    /\ purge' = [purge EXCEPT ![s] = [at |-> "deleting", tenant |-> t, left |-> "none"]]
    /\ UNCHANGED <<now, request, status, keys, session, sweeper, outbox, relayed,
                   pending, admitted, rows, faults>>

PurgeCommit(s) ==
    /\ purge[s].at = "deleting"
    /\ rows' = [rows EXCEPT ![s][purge[s].tenant] = purge[s].left]
    /\ purge' = [purge EXCEPT ![s].at = "committed", ![s].left = "none"]
    /\ UNCHANGED <<now, request, status, keys, session, sweeper, outbox, relayed,
                   pending, admitted, faults>>

PurgeAck(s) ==
    /\ purge[s].at = "committed"
    /\ pending' = [pending EXCEPT ![s] = @ \ {purge[s].tenant}]
    /\ purge' = [purge EXCEPT ![s] = NoPurge]
    /\ UNCHANGED <<now, request, status, keys, session, sweeper, outbox, relayed,
                   admitted, rows, faults>>

\* Mutant: a failed purge is acknowledged.
PurgeFails_Acked(s) ==
    /\ purge[s].at /= "idle"
    /\ faults < MaxFaults
    /\ faults' = faults + 1
    /\ pending' = [pending EXCEPT ![s] = @ \ {purge[s].tenant}]
    /\ purge' = [purge EXCEPT ![s] = NoPurge]
    /\ UNCHANGED <<now, request, status, keys, session, sweeper, outbox, relayed,
                   admitted, rows>>

(* The purge is rolled back and the message NAKed, or the process dies     *)
(* before the commit or before the ack: the message is delivered again.    *)
PurgeFails(s) ==
    /\ purge[s].at /= "idle"
    /\ faults < MaxFaults
    /\ faults' = faults + 1
    /\ purge' = [purge EXCEPT ![s] = NoPurge]
    /\ UNCHANGED <<now, request, status, keys, session, sweeper, outbox, relayed,
                   pending, admitted, rows>>

Next ==
    \/ Tick
    \/ \E t \in Tenants : \/ CreateTenant(t) \/ Signup(t) \/ Begin(t)
                          \/ LockSignups(t) \/ Provision(t) \/ Relay(t)
    \/ \E k \in Keys : FindTenant(k) \/ InsertAPIKey(k)
    \/ \E k \in Keys \cup Tenants : RevokeAPIKey(k) \/ \E i \in Sessions : FindAPIKey(i, k)
    \/ \E i \in Sessions : \/ GetTenant(i) \/ IssueToken(i)
                           \/ \E s \in Services : Admit(i, s) \/ Write(i, s)
    \/ \E w \in Sweepers : \/ SweepStart(w) \/ SweepPurgeable(w) \/ SweepDone(w)
                           \/ SweepFails(w)
                           \/ \E t \in Tenants : MarkTenantPurging(w, t) \/ FinalizeTenantPurge(w, t)
    \/ \E s \in Services : \/ PurgeCommit(s) \/ PurgeAck(s) \/ PurgeFails(s)
                           \/ \E t \in Tenants : PurgeBegin(s, t)

Spec == Init /\ [][Next]_vars

(***************************************************************************)
(* Time passes; RunSweeper starts a pass on every tick of its timer and a  *)
(* pass runs to its end; the relay polls; the broker redelivers what is    *)
(* not acknowledged.  Nothing is assumed of clients or operators.          *)
(***************************************************************************)
SweepStep(w) ==
    \/ SweepStart(w) \/ SweepPurgeable(w) \/ SweepDone(w)
    \/ \E t \in Tenants : MarkTenantPurging(w, t) \/ FinalizeTenantPurge(w, t)

PurgeStep(s) ==
    PurgeCommit(s) \/ PurgeAck(s) \/ \E t \in Tenants : PurgeBegin(s, t)

Fairness ==
    /\ WF_vars(Tick)
    /\ \A w \in Sweepers : WF_vars(SweepStep(w))
    /\ \A t \in Tenants : WF_vars(Relay(t))
    /\ \A s \in Services : WF_vars(PurgeStep(s))

FairSpec == Spec /\ Fairness

-----------------------------------------------------------------------------
(***************************************************************************)
(* Properties                                                              *)
(***************************************************************************)

RequestType == [at : {"new", "validated", "begun", "locked", "limit", "slug", "email", "done"},
                created : 0..MaxTime, day : 0..Day(MaxTime)]
SessionType == [at : {"new", "found", "cleared", "holds", "denied"},
                key : Tenants \cup Keys \cup {None},
                scopes : SUBSET AllowedScopes, read : 0..MaxTime, expires : 0..(MaxTime + TokenTTL)]
SweeperType == [at : {"idle", "announcing", "finalizing"}, time : 0..MaxTime,
                todo : SUBSET Tenants]
PurgeType == [at : {"idle", "deleting", "committed"}, tenant : Tenants \cup {None},
              left : {"none", "rows", "live"}]

(* Every variable keeps the shape its table, message or local variable has. *)
TypeOK ==
    /\ now \in 0..MaxTime
    /\ request \in [Tenants -> RequestType]
    /\ status \in [Tenants -> {"none", "active", "purging", "purged"}]
    /\ keys \in [Tenants \cup Keys -> {"none", "checked", "valid", "revoked", "deleted"}]
    /\ session \in [Sessions -> SessionType]
    /\ sweeper \in [Sweepers -> SweeperType]
    /\ outbox \in Seq([tenant : Tenants, time : 0..MaxTime])
    /\ relayed \in SUBSET Tenants
    /\ pending \in [Services -> SUBSET Tenants]
    /\ purge \in [Services -> PurgeType]
    /\ admitted \in [Services -> SUBSET Sessions]
    /\ rows \in [Services -> [Tenants -> {"none", "rows", "live"}]]
    /\ faults \in 0..MaxFaults

(***************************************************************************)
(* Concurrent signups never pass the daily cap (ProvisionSandboxTenant     *)
(* counts under a table lock): of the signups whose clock reading and      *)
(* transaction fall on one day, at most DailyLimit succeed.  A signup that *)
(* reads its clock before midnight and begins after it is counted on       *)
(* neither day.                                                            *)
(***************************************************************************)
DailyCapHolds ==
    \A d \in 0..Day(MaxTime) :
        Cardinality({t \in Tenants : /\ request[t].at = "done"
                                     /\ Day(request[t].created) = d
                                     /\ request[t].day = d}) =< DailyLimit

(***************************************************************************)
(* A signup is all or nothing (ProvisionSandboxTenant's one transaction):  *)
(* a sandbox tenant exists exactly when its signup row does, one per       *)
(* address, and a request refused for its slug or its address leaves       *)
(* neither tenant nor key behind.                                          *)
(***************************************************************************)
SignupsAreWhole ==
    \A t \in Tenants : Email[t] /= None =>
        /\ status[t] /= "none" <=> request[t].at = "done"
        /\ keys[t] = "none" <=> request[t].at /= "done"
        /\ \A u \in Tenants \ {t} :
               (request[t].at = "done" /\ request[u].at = "done") => Email[u] /= Email[t]

(***************************************************************************)
(* However many sweepers run, and whichever of them fail, a tenant's       *)
(* expiry is announced exactly once, in the transaction that stops it      *)
(* being active (MarkTenantPurging), and only tenants that expire are      *)
(* announced.                                                              *)
(***************************************************************************)
ExpiryIsAnnouncedOnce ==
    \A t \in Tenants :
        LET events == {n \in DOMAIN outbox : outbox[n].tenant = t} IN
        /\ Cardinality(events) = IF status[t] \in {"purging", "purged"} THEN 1 ELSE 0
        /\ \A n \in events : ExpiresAt(t) < outbox[n].time

(* The tenant's status is read while it is active and never after its      *)
(* expiry was announced (IssueToken), whichever key mints the token, a key *)
(* an operator adds after the purge included: a token outlives the         *)
(* announcement by at most a token lifetime and the time that passed       *)
(* between the read and the signing, which nothing in the code bounds.     *)
(***************************************************************************)
SigningDelay(i) == (session[i].expires - TokenTTL) - session[i].read

TokensDieAfterAnnouncement ==
    \A i \in Sessions, n \in DOMAIN outbox :
        (session[i].at = "holds" /\ TenantOf(session[i].key) = outbox[n].tenant)
            => session[i].expires =< outbox[n].time + TokenTTL + SigningDelay(i)

(***************************************************************************)
(* A token never carries a scope its key was not asked to have             *)
(* (normalizeScopes, then IssueToken's fallback for keys without scopes).  *)
(***************************************************************************)
TokensKeepToTheirKey ==
    \A i \in Sessions : (session[i].at = "holds" /\ session[i].key \in Keys) =>
        (Asked[session[i].key] = {} \/ session[i].scopes \subseteq Asked[session[i].key])

\* A pass announces tenants that exist and had expired when it began.
SweepsFindTheExpired ==
    \A w \in Sweepers : sweeper[w].at = "announcing" =>
        /\ sweeper[w].time =< now
        /\ \A t \in sweeper[w].todo : status[t] /= "none" /\ ExpiresAt(t) < sweeper[w].time

\* A token belongs to a key that was inserted with scopes that exist, and its life
\* began after its tenant was read.
TokensBelongToKeys ==
    /\ \A k \in Keys : keys[k] /= "none" => Asked[k] \subseteq AllowedScopes
    /\ \A i \in Sessions :
           /\ session[i].at \in {"found", "cleared", "holds"} =>
                  /\ session[i].key \in Tenants \cup Keys
                  /\ session[i].key \in Keys => Asked[session[i].key] \subseteq AllowedScopes
           /\ session[i].at \in {"cleared", "holds"} => session[i].read =< now
           /\ session[i].at = "holds" => /\ session[i].read + TokenTTL =< session[i].expires
                                         /\ session[i].expires =< now + TokenTTL

\* An exchange that goes on read its tenant before the expiry was announced.
ReadsPrecedeAnnouncements ==
    \A i \in Sessions, n \in DOMAIN outbox :
        (session[i].at \in {"cleared", "holds"} /\ TenantOf(session[i].key) = outbox[n].tenant)
            => session[i].read =< outbox[n].time

\* Signups hold the table lock one at a time, and what one has counted is still true.
SignupsTakeTurns ==
    \A t \in Tenants :
        /\ request[t].at /= "new" => Email[t] /= None
        /\ request[t].at = "locked" => /\ Cardinality(Todays(t)) < DailyLimit
                                       /\ \A u \in Tenants \ {t} : request[u].at /= "locked"

(***************************************************************************)
(* What a tenant's tables and tokens keep in every state, whatever sweeps  *)
(* overlap or fail: expiry is announced with the step that ends the        *)
(* tenant's active life and never twice (MarkTenantPurging), tokens keep   *)
(* to the scopes of their key (IssueToken), and a signup's count holds     *)
(* until it commits (ProvisionSandboxTenant).                              *)
(***************************************************************************)
TenantInvariant ==
    /\ TypeOK /\ ExpiryIsAnnouncedOnce /\ TokensKeepToTheirKey
    /\ SweepsFindTheExpired /\ TokensBelongToKeys /\ ReadsPrecedeAnnouncements
    /\ SignupsTakeTurns

(***************************************************************************)
(* Every sandbox tenant ends purged, with its signup key deleted, whatever *)
(* passes fail on the way (RunSweeper).                                    *)
(***************************************************************************)
SandboxTenantsArePurged ==
    \A t \in Tenants : (Email[t] /= None /\ status[t] = "active")
                           ~> (status[t] = "purged" /\ keys[t] = "deleted")

\* Nobody can write for t again: no exchange, token or request under way.
Silent(t) ==
    /\ status[t] \in {"purging", "purged"}
    /\ \A i \in Sessions : TenantOf(session[i].key) = t =>
           /\ session[i].at /= "cleared" /\ ~Accepted(i)
           /\ \A s \in Services : i \notin admitted[s]

Acknowledged(s, t) == t \in relayed /\ t \notin pending[s]

(***************************************************************************)
(* Every announcement is relayed, and every service acknowledges it; only  *)
(* the ledger refuses, and is redelivered, as long as the tenant owns a    *)
(* live ledger.  A purge that begins when clients are silent leaves none   *)
(* of the tenant's rows, whatever purges fail or die before the ack; what  *)
(* they write during an earlier one, or later, outlives it                 *)
(* (SubscribeTenantExpired, purge_expired_sandbox_tenant).                 *)
(***************************************************************************)
AnnouncementsReachServices ==
    \A t \in Tenants, s \in Services :
        /\ status[t] = "purging" ~> Acknowledged(s, t) \/ Refused(s, t)
        /\ (t \in pending[s] /\ purge[s].tenant /= t /\ Silent(t))
               ~> (Acknowledged(s, t) /\ rows[s][t] = "none") \/ Refused(s, t)
=============================================================================
