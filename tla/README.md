# A TLA+ verification of LedgerCore

LedgerCore is a multi-tenant double-entry ledger: four Go services over
PostgreSQL that exchange events through NATS JetStream. The modules here model
the parts of it in which several requests, replicas or messages meet. TLC checks
small instances; TLAPS proves the safety properties for every value of the
constants. `PROJECT.json` lists the runs, the mutants (a plausible bug in
the code for every property, which the property catches), the source lines
behind every definition, the findings and the hazards.

    tlc -workers 2 -config LedgerTransactions.cfg MCLedger   # a run
    tlapm LedgerStoreProofs.tla                              # the proofs

## Inventory

| Component | State | Operations | Talks to |
|---|---|---|---|
| **ledger-core**, transactions and holds (`services/ledger-core`) | `transactions`, `postings`, `account_balances`, `holds`, `idempotency_keys`, `outbox` | create (draft or posted), post, reverse; create, capture, release a hold | clients over HTTP; its outbox |
| ledger-core, set-up and reports | `ledgers`, `accounts`, `assets` | create them; balances, statement, trial balance, verify | – |
| **outbox relays** (`adapters/outbox` of ledger-core and identity, `internal/outbox` of reconciliation) | `outbox.published_at` | poll, publish, mark | JetStream, which drops a repeated message id |
| **webhooks** (`services/webhooks`) | `subscriptions`, `deliveries` | consume an event, fan out, claim, POST, record, retry by hand; create and patch subscriptions, rotate secrets | JetStream; customers' endpoints |
| **reconciliation** (`services/reconciliation`) | mirror entries, sources, imports, external transactions, runs, discrepancies | mirror a posting, import a statement, run the matcher, triage | JetStream; its outbox |
| **identity** (`services/identity`) | tenants, API keys, signing keys, sandbox sign-ups, outbox | sign up, announce expiry, finalise purge, issue tokens | `identity.tenant.expired`, on which every service purges the tenant |
| shared libraries (`libs/go`) | – | transactions, envelopes, money, HTTP, token checks | – |
| console, SDKs, infrastructure | – | – | HTTP |

Every handler is one database transaction (`pgxutil.WithTenantTx`, Read
Committed) in the tenant's row-level-security scope. Its effect and its event
commit together; the rest of the system learns of it from the event, at least
once.

What is hard, and what makes each part correct:

* **ledger-core.** Requests run concurrently and clients retry. The code relies
  on unique indexes, `FOR UPDATE` and additive upserts instead of a
  serializable isolation level. Correct means: the stored balances are the sums
  of the postings; every posted transaction balances per asset; a key has one
  effect and a retry gets its result; a transaction is reversed once and
  exactly undone; holds never reserve more than is available and are settled
  once; each effect has its event; requests that deadlock are still answered.
* **outbox relays.** Several pollers share the table with `SKIP LOCKED` and can
  die between publishing and marking. Correct means: nothing is lost, and
  repetition and reordering are what the consumers can bear.
* **webhooks.** Redelivered events, subscriptions edited during the fan-out,
  several dispatchers, crashes, leases, a bounded number of attempts, manual
  retries at any moment. Correct means: a matching subscription gets its
  delivery; `delivered` means that it was received; no two replicas send the
  same delivery at once; it is given up only after all attempts; it is settled
  eventually.
* **reconciliation.** Events come again and in any order; runs are not
  serialized and lock rows in different orders; triage is read-modify-write.
  Correct means: the mirror is the acknowledged ledger; a match is backed by a
  posting that agrees; a row a run has read is matched or has its discrepancy
  and its event.
* **identity, tenants.** A cap on sign-ups, several sweepers that fail half way,
  downtime longer than the grace period, tokens that outlive the tenant, purges
  in every service. Correct means: the cap holds, expiry is announced once,
  no token is granted after it, purges complete.
* **secrets and signing keys.** Several instances seal old plaintext at start-up
  while secrets are rotated; a receiver or a service checks with what it knows.
  Correct means: nothing stays in the clear; a retired secret verifies through
  its grace period and no longer; a valid token is accepted.

## Modules

| Module | Purpose |
|---|---|
| `LedgerStore` | the write path of ledger-core |
| `AtomicLedger` | what ledger-core promises: requests served one at a time; `LedgerStore` is shown to implement it |
| `OutboxRelay` | the pollers of an outbox and the broker |
| `AtLeastOnce` | what an outbox promises; `OutboxRelay` is shown to implement it |
| `WebhookDelivery` | fan-out and dispatch of webhooks |
| `WebhookSecrets` | rotation, sealing and use of a subscription's secrets |
| `Reconciliation` | mirror, imports, runs, discrepancies, triage |
| `Matcher` | the matcher's loop, compared with the verdicts of `Reconciliation` |
| `SandboxTenants` | identity's tenants, keys, tokens and sweeper, and every service's purge |
| `SigningKeys` | identity's keys at start-up, and the key cache of the services |
| `MCLedger`, `MCWebhooks`, `MCRecon`, `MCSandbox` | instances; the other modules are run as they are |
| `LedgerStoreProofs`, `LedgerBooksProofs` | theorems about `LedgerStore`: control, and what the tables add up to |
| `WebhookDeliveryProofs`, `WebhookSecretsProofs`, `OutboxRelayProofs`, `ReconciliationProofs`, `SandboxTenantsProofs`, `SigningKeysProofs` | theorems about the module each is named after |

Components meet in three places. `SandboxTenants` composes identity, the relay
of its outbox and the purge consumers of the services. `SigningKeys` composes
identity and the verifiers of its tokens. Between an outbox and the consumers of
webhooks and reconciliation stands `AtLeastOnce`: both consumers are modelled
against a stream that repeats and reorders, which is all it promises.

### LedgerStore

Each request is a process and takes one step per statement that can wait or can
see another request:

| `pc` | Action | Code |
|---|---|---|
| `idle` | `Receive`, `Reject` | handler and service validation |
| `lookup` | `LookupHit`, `LookupMiss` | `lookupIdempotentTx`, `lookupHoldTx` |
| `check` | `CheckReferences` | the ledger's `SELECT 1`, `checkAccountsInLedger`, `getAccountTx`: later statements, which see what committed since the lookup |
| `lock` | `PostLock`, `ReverseLock`, `HoldLock`, `SettleLock`, `TargetMissing` | the `SELECT ... FOR UPDATE` of each handler and the checks after it |
| `insert` | `InsertTransaction`, `InsertHold`, `UniqueViolation` | the `INSERT` that takes the unique index entry |
| `apply` | `ApplyBalance`, `ReleaseHeld` | one balance row per step, in the request's order |
| `commit` | `CommitCreate` ... `CommitRelease` | the remaining writes, the outbox row, `COMMIT` |
| `recheck` | `Recheck`, `RecheckFails` | the second transaction of a request that lost the race for its key; if it fails the first error stands, a 409 |
| any | `Crash`, `DeadlockVictim` | rollback |

A request's writes stay in `uncommitted` and its locks in `locks` until it
commits or rolls back. A statement sees committed rows and the request's own
versions, which is Read Committed. PostgreSQL's locks, unique-index waits and
deadlock detector are external and modelled from how the code uses them.
A payload is what `transactionFingerprint` and the other fingerprints hash, the
order of the postings excluded; the hash itself is taken to be injective.

Simplifications: one tenant (row-level security); a row is named after the
request that creates it (its UUID); the `KEY SHARE` locks of foreign keys are
left out, for they only delay; `resp` is the answer the handler gives, received
or not; no code sets the hold status `expired`, so it does not occur.

### AtomicLedger

A ledger with no locks, transactions under way, stored balances or stored answers. A request arrives
(`Receive`) and is answered once: by its effect (`Create`, `Post`, `Reverse`, `Hold`, `Capture`,
`Release`), by what its key has already made (`Replay`, `PostAgain`), or by `Refuse`, for a reason
that is true of the rows at that instant (`Refusable`); only a fault or a lost answer needs none.
Balances are sums over the postings and the active holds, and `InRange` bounds them. The refinement
keeps the requests, the answers, `transactions`, `holds` and `outbox` as they are and hides the
rest. What it says beyond the invariants is that a check made early, in a statement of its own,
against a balance that the code keeps incrementally, is as good as one made at the instant of the
answer against the postings. It says nothing about which of two legitimate answers a retry gets
while the first attempt is open: a conflict or `insufficient_funds` is then true as well (Findings).

### WebhookDelivery

One action per database transaction and per POST. `stream` is what JetStream
keeps for the consumer, `handling` the callback's progress between the two
transactions of `EnqueueEnvelope`, `batch` the deliveries each dispatcher has
claimed, with the attempt count that it read. Time is a flag: `due` is
`next_attempt_at <= now()`, and `Elapse` ends a lease or a back-off.
`ClaimDue` takes any non-empty set of due rows up to the batch size, because
rows locked by another replica are skipped. `Timely` says that a batch ends
before its leases do. The code expects it (POSTs time out after 10 seconds, leases
last two minutes, back-offs at least one); the runs that do not need it set it to
FALSE. `steady`, `received` and `failures` are history variables.

Left out: payloads and reads.

### OutboxRelay and AtLeastOnce

`poller[p]` is one `drainOnce`: the rows it has selected, those still to be published and those that
went out. While it is `draining` its transaction locks the rows. `LoseSession` ends the transaction
and not the process: the loop over the batch makes no database call, so it goes on publishing
without locks (`InLoop`), next to a poller that takes the same rows, until its update or commit
fails (`GiveUp`). `Select` is the query with `FOR UPDATE SKIP LOCKED`, `Publish` one acknowledged
publication, `PublishFailed` and `PublishUnanswered` the two ways in which it fails (the broker has
the message or not), `Skip` a row that cannot be decoded, `Commit` the mark. `window` is the
broker's memory of message ids, and `Forget` ends it. The services differ in what `Skip` does, so
`service` is chosen in `Init`. In `AtLeastOnce` messages are emitted, delivered any number of times,
and settled only once delivered. A message may come again after it is settled: a poller that lost
its session may publish a row that another has marked, past the broker's window. The refinement maps
the committed rows, the stream and the marked rows to these; pollers, window and crashes are hidden.

### Reconciliation and Matcher

A run (`tx[r]`) is a Read Committed transaction: it lists the rows, lists the mirror with a later
snapshot, marks row by row under row locks, and commits marks, discrepancies, events and counters
together; it may fail or be a deadlock victim at any point. `MatchNaive` gives each row its verdict
declaratively (is there an earlier row with its reference, an agreeing posting, any posting);
`Matcher` is the loop of `matcher.go` with its `consumed` and `seen` maps, a recursive function of
the rows it has gone through, and `LoopMeetsVerdicts` compares the two on every reachable table.
`Rank` is the order of the mirror, `posted_at` and then the hash that is a posting's id; in the
instance it is not that of the postings. Amounts are read with `ParseUnits`, scale and range
included. Triage reads a discrepancy and writes it back in a second step. `rivals` is a history
variable.

### SandboxTenants

One clock; each duration of the code is a number of ticks. A sign-up is `Signup` (its clock and id),
`Begin` (the database's `now()`), `LockSignups` (table lock and count), `Provision` (three inserts,
or the constraint that rolls them back). A sweep is a list, one transaction per tenant, a second
list, one transaction per tenant. A token is issued in three steps, the read of the key
(`FindAPIKey`), the read of the tenant's status (`GetTenant`), and the signature with the clock of
its own (`IssueToken`); it lives on by itself. While it is valid a service admits the client's
requests (`Admit`), which commit or fail later (`Write`). `purge[s]` is the delivery of an
announcement that service `s` is working on: `PurgeBegin` is the ledger's guard, which refuses
tenants with live ledgers; the deletes go on until `PurgeCommit`, and what is written meanwhile may
fall behind a delete and stay, or be deleted; `PurgeAck` is a step of its own. `PurgeFails` is a
rollback, or a process that dies before the ack, and the message comes again. Hashes and secrets are
the key they belong to.

Simplifications: a service handles one delivery at a time, as the subscription's
callback does, and a message is not delivered again while it is handled (the broker waits twice
the purge's own timeout), so an announcement does not come again after its ack.
`FirstExchange` is a bound: no key is exchanged before it.

### WebhookSecrets

One subscription that predates encryption at rest and is in the middle of a rotation. A
stored secret is its number and whether it is sealed. Start-up lists and later
writes back what it read; rotation and the hourly purge are single `UPDATE`s; a
claim copies both secrets and a POST signs with those that have not expired by
then. `until` is what the tenant was told; `undone` records that a start-up
overwrote a rotation.

### SigningKeys

`EnsureSigningKey` as list, seal one by one, insert; a crash anywhere. A service
looks a token's key up in its cache, fetches the document when it is unknown
or the cache is old, and looks again; answers are stored in the order in which they
arrive, not in the order in which they were made. The cache falls back on what it has when a fetch
fails.

## Runs

| Run | Instance | Shows | Distinct states |
|---|---|---|---|
| `ledger_transactions` | 3 requests out of every operation, every refusal, partial captures and retries with one key | balances are the sums of postings, held amounts the sums of active holds, transactions balance, keys have one effect, reversals pair, one event per effect, what a retried create can be answered; the refinement of `AtomicLedger` | 663,699 |
| `ledger_holds` | 4 requests: funding, two holds, their captures and releases | `LedgerInductive`, the whole inductive invariant of the proofs, balance columns in their range and successes with the request's own payload included; no over-reservation | 154,444 |
| `ledger_liveness` | 3 requests that lock two rows in opposite orders, fair | deadlocks form and are resolved; every request is answered | 25,761 |
| `ledger_reversal_retry` | a reversal and its concurrent retry | expected to fail: see Findings | |
| `webhook_fanout` | a subscription that is edited, an event and a malformed one, 2 dispatchers that may outlast their leases, a manual retry, a fault, fair | no event is lost, delivered means received; both events are consumed and the delivery settles | 183,312 |
| `webhook_dispatch` | 2 events and a malformed one, 2 dispatchers with batches of two, no manual retry | a claim is exclusive and agrees with its row, a delivery dies only after all attempts, delivered is final | 757,263 |
| `outbox_relay` | 3 rows, one malformed, 2 pollers, batches of two, 2 lost passes or sessions, the window passing once, fair | open transactions share no row, marks follow publications, order within a batch, duplicates only past the window, the refinement, delivery of every readable event | 237,425 |
| `reconciliation` | 3 events, one malformed, 2 imports out of 5 statements, 2 runs, 2 editors | the mirror is exact and runs add up; matches are real; nothing a run read drops out; the loop meets its definition; which overwrites can and cannot happen | 311,832 |
| `sandbox_tenants` | a tenant, its sign-up key and a live key, a client, 2 sweepers, the ledger's purge, a failing sweep or purge, fair | expiry is announced once, tokens keep to their key and were read for before the announcement, the tenant is purged, the announcement is acknowledged, with the rows gone if the purge met no writer | 349,830 |
| `sandbox_signups` | 3 sign-ups of one company, two with one address, an operator's tenant, 2 days | the daily cap, and sign-ups that are whole or leave nothing | 44,650 |
| `webhook_secrets` | 2 instances, 4 secrets, a grace period of 2 ticks, sends delayed by up to 1 | everything is sealed once an instance is up; a retired secret verifies in its grace period and not after | 176,003 |
| `signing_keys` | 2 identity instances, 2 keys, an empty or an old table, a request and the refresher, 2 faults, fair | signers are published, keys sealed; a valid token is turned away only by a failed or overtaken fetch; the cache converges | 32,664 |

**Bounds.** A conflict in the ledger is between two requests over one row, key, transaction or hold,
after a third has funded the account or created the target: three requests reach all of them, and
four let two settle races follow on a funded hold. Rows are made by requests, so nothing else needs
a bound. `MaxInt64 = 2` makes `BIGINT` overflow reachable with the amounts used. Two replicas, two
attempts and two deliveries suffice for a claim to be contended, retried and exhausted. Three outbox
rows and batches of two let two pollers hold rows at once and a malformed row stand in front of a
good one. Two runs and two editors are what it takes to overlap; the statements have a correct row,
a wrong amount, a wrong direction, a repeated reference, a value with too many decimals, and amounts
at and past the ends of a small int64. In `SandboxTenants` time to live, grace period and token
lifetime are one tick each and the clock runs for three, so that a sweep can come in time, late, and
later than the grace period; `sandbox_signups` sees a day change. Four secrets allow two rotations
between a claim and its POST. `MaxFaults`, `MaxCrashes`, `MaxForgets`, `MaxRequeues`, `MaxImports`,
`LastSignup`, `FirstExchange` and `MaxTime` bound faults, uploads and time. Requests, subscriptions,
dispatchers and editors are symmetric in the safety runs. Deadlock is checked in all runs but two,
where nothing is left to do: pollers with nothing to publish in `outbox_relay`, and all sign-ups
answered in `sandbox_signups`. In `LedgerStore` the end is an explicit `Finished` step.

**Fairness.** Only what the code's loops do again and again is fair.

* `LedgerStore`: each request's steps, weakly. A goroutine runs on, and PostgreSQL
  grants locks or ends a wait cycle after `deadlock_timeout`.
* `WebhookDelivery`: callback, dispatchers, their goroutines and the clock, weakly.
  Starting to handle a message, strongly: JetStream delivers in stream order
  and the single callback is free again and again.
* `OutboxRelay`: the ticker's poll, skip and the end of a pass, weakly; a publication, strongly,
  for the broker does not refuse for ever. Crashes are finite.
* `SandboxTenants`: the clock, the sweeper's timer, the relay and, with the broker's
  redelivery, each service's purge step by step, weakly; failing sweeps and purges are finite.
  Nothing makes an issuing request sign its token.
* `SigningKeys`: start-up (a supervisor restarts instances), the refresh ticker and a
  fetch under way, weakly; crashes and failing fetches are finite.

Nothing is assumed of clients, operators or customers' endpoints.

## Findings

`ledger_reversal_retry` refutes `ReversalRetriesReplay`. A reversal that is retried while
the first attempt is open passes the lookup, waits for the original, finds it
reversed and is answered 409; `store.go:942` and `docs/invariants.md:111`
promise the stored reversal. Nothing is applied twice (`OneEffectPerKey`
holds).

Further places where code and comments part, met while modelling. The passing
runs state what does hold there.

* **Ledger.** `docs/concurrency.md:42` says of duplicate requests that there is no window. A create
  looks its key up and checks its ledger and accounts in later statements; if its payload differs
  from that of a create that commits in between, and names what its ledger does not have, it is
  answered 404 or 400 and not the conflict that the stored answer calls for (`store.go:665`, `676`).
  `RetryAnswers` lists what such a retry can be told; one with the same payload is replayed. A loser
  of the race for a key whose second lookup fails gets a conflict although its payload may be the
  winner's (`store.go:736`). A hold retried while the first attempt is open waits for the balance
  row and is answered `insufficient_funds` (`store.go:1060`), although line 1100 and
  `docs/invariants.md:86` promise the winner's hold. `CaptureHold` accepts a draft as the
  transaction it links. A deadlock victim is answered 500; nothing retries it.
* **Manual retry of a delivery** (`repo.go:395`) during an attempt: a second replica may
  send at once (against `docs/concurrency.md:154`), the older attempt's failure may
  overwrite `delivered` (against `domain.go:197`) and write back its own attempt
  count (`dispatcher.go:121` against `repo.go:388`). `webhook_dispatch`
  therefore has no manual retries; `webhook_fanout` has one, and checks what
  survives it.
* **Relays.** A full batch of rows that cannot be decoded stops the relays of
  ledger-core and identity (`poller.go:112`); the run has fewer of them than a
  batch holds.
* **Matcher.** "Each mirror entry backs at most one match" (`matcher.go:45`) holds
  within a pass only: a later run can match the same posting to another row.
  `model.go:71` says that duplicates are never found; the matcher finds them. Rows
  disputed "so they are not silently reconciled later" (`service.go:211`) can
  be matched by a run that had listed them before: this is the exception in
  `SettledUnlessRivals`.
* **Sandbox.** The slug's suffix is the first six digits of a UUIDv7 and stays the same for hours,
  so two sign-ups of one company name collide (`sandbox.go:87` expects otherwise). The grace period
  is measured from the expiry and not from the announcement (`sandbox.go:21`): after a long downtime
  one sweep does both. A tenant becomes `purged` in identity whether or not the services have purged
  (`domain/tenant.go:21`), a tenant with a live ledger is refused by the ledger for ever, and rows
  written with a still valid token after a purge stay. So do rows written during it: the deletes are
  separate Read Committed statements, the event is acknowledged, and nothing purges them later; a
  live ledger created after the guard is deleted, or stays, unseen. `AnnouncementsReachServices`
  promises empty tables to purges that begin when no client can write. A token is dated by the clock
  at its signature and granted by a read before it (`service.go:324`, `token.go:67`): if a sweep
  announces the expiry in between, the token outlives the announcement by more than its lifetime, by
  the delay between the two, which nothing bounds. Operators can add keys to a purged tenant; such
  keys never get a token. The day of the cap is that of the transaction's start, so that a sign-up
  that waits across midnight counts the sign-ups of the new day with those of its own.
* **Secrets.** A start-up that has listed a plaintext secret overwrites a rotation
  that commits before it writes (`repo.go:252`, `291`), and may restore a
  previous secret that was purged; `undone` marks these behaviours. "Signs every
  delivery with both secrets" (`webhooks/internal/app/service.go:134`) does not hold of deliveries
  claimed before the rotation, hence `OldSecretVerifiesInGrace`. A secret that cannot be
  decrypted fails the whole claim (`repo.go:440`).
* **Key cache.** Key documents may be stored out of order (`ident.go:230`), so that a
  request can miss a key that it has just fetched. The model calls it
  `overtaken`; the next refresh mends it.

## Theorems

Every safety property that a passing run checks is a theorem, and so are both
refinements. The theorems hold for all values of the constants that satisfy the named
assumptions: any number of requests, accounts, rows, replicas, runs and tenants,
and any bounds. Each is proved the same way. An invariant is strengthened until it is
inductive, with what the code relies on but never says (what a lock protects,
what a list in memory still guarantees, what a step was allowed to assume); the
strengthening is part of an invariant that a run checks (that of `WebhookDelivery` is
stated with its proofs); lemmas say
which actions touch which table, and one lemma per conjunct shows that those
actions keep it.

The assumptions on constants are of three kinds: inputs have the types of
their columns; durations are ordered as the configuration orders them
(`MaxSendDelay < RotationGrace`, `TokenTTL + ClockSkew =< PurgeGrace`); ids are
distinct and `None` is no row, key, answer, reason or number. TLC evaluates those of a module
in its runs.

**LedgerStoreProofs.** `InvariantHolds` proves `Spec => []LedgerInvariant`,
which is `TypeOK /\ LocksProtect /\ RowsExist /\ OneEffectPerKey /\
ReversalsPair`. No property is inductive by itself: that a key has one row
depends on an inserter holding the index entry from the insert to the commit;
that a reversal is the only one depends on its lock of the original; and that a
check still holds at the commit depends on nobody else being able to change
what was read. `LocksProtect` states this for each program counter: the locks
held, their exclusiveness, what they freeze, and that uncommitted versions are
based on the committed rows. `RowsExist` says that requests past their checks
name rows that exist. From the invariant follow `TypeCorrect`,
`LocksAlwaysProtect`, `KeysHaveOneEffect`, `ReversalsAlwaysPair`, and, for
steps, `NeverOverReserved` and `HistoryNeverRewritten`. They hold for all sets
of requests, accounts, keys and inputs that satisfy the named assumptions of
`LedgerStore`.

**LedgerBooksProofs.** `BooksAddUp` proves `Spec => []LedgerInductive`, which adds to
`LedgerInvariant` what the tables add up to. Balances follow the postings only because the
uncommitted versions do: `VersionsAddUp` says of each request by how much its versions differ from
the committed rows, so that the commit changes the stored row by exactly what the new transaction
adds to the sum. `RowsRemember` ties the stored answers and the rows to the requests that made them,
`ChecksStand` and `AdmissionsStand` keep what a request was let through for, and `KeysAnswer` says
that every transaction has left its answer under its key, so that a request that lost the race for
it finds one. From it follow `BalancesAlwaysMatch`, `HeldAlwaysMatches`,
`TransactionsAlwaysBalance`, `SuccessIsAlwaysOwn`, `OutboxAlwaysTellsTheStory` and
`AmountsAlwaysFit`, and, for steps, `CreatesAlwaysReplay`. `AmountsAlwaysFit` needs the sums: `held`
is written without a check of its range and fits only because a hold is let through up to what is
available, of a posted total that was checked. The sums are over sets of transactions, holds and
postings. What adding, changing or joining terms does to a sum is proved from the definition of the
fold, by taking a smallest set for which it fails: the strict-subset order on the subsets of a
finite set is well-founded, and `WFMin` gives the smallest one without an induction over an
operator.

`StoreIsAtomic` proves `Spec => ImplementsAtomicLedger`, one lemma per way in which a step can
answer. A commit is the instant at which a request takes effect, and there its earlier checks must
still be true of the committed rows: those on the target by its row lock, that the key is unused by
the index entry, the available balance because the locked balance row is the sum of the postings,
the range of the totals because the versions under way are in range. A refusal or a replay takes
effect when it is given, and reads committed rows then. A step that answers nothing is a stutter,
for rows and events change only at a commit.

**WebhookDeliveryProofs.** Without assumptions on time or retries:
`WebhookTypeCorrect`, `EventsAreNeverLost` and `DeliveredWasReceived`, from
`WebhookInvariant`. It strengthens them with what a message in hand guarantees
(every steadily matching subscription is in the list it works from, or has its
delivery) and what a claim guarantees (its row exists, and an accepted claim was
received). Assuming `Timely` and `MaxRequeues = 0`: `LeasesAlwaysHold`,
`NeverDoubleSent`, `DeadIsExhausted`, `DeliveredStaysDelivered` and
`ProgressIsAlwaysKept`, from `QuietInvariant`, which adds that attempts count
the failures. What a manual retry does (Findings) shows that the second
assumption is needed.

**WebhookSecretsProofs.** `SecretsAlwaysInvariant`, `ExpiredNeverSign` and
`OldSecretAlwaysVerifies`. The invariant adds that stored and claimed secrets
were handed out (`SecretsWereHandedOut`); that the row holds the last two secrets the tenant
was told of, with the announced instant, until a start-up overwrites a rotation
(`RowIsWhatWasTold`); and that a claim is no older than a send may take
(`ClaimsAreYoung`). The last is why `MaxSendDelay < RotationGrace` is needed: a claim made
before two rotations would otherwise sign with a secret that nobody expects.

**OutboxRelayProofs.** `RelayAlwaysInvariant`, `DuplicatesAlwaysForgotten` and the refinement
`RelayIsAtLeastOnce`. They hold of pollers that have lost their session, too, except that those
share their rows. `DrainsItsBatch` says that until a failure a poller has left out no row of its
batch that can be decoded; `WindowCounts` bounds the length of the stream by the number of events on
it and of forgotten ids, less the ids that are forgotten and not yet used. The refinement goes step
by step: an insert is an `Emit`, a publication that reaches the broker a `Deliver`, a commit a
`Settle` (which needs that what is marked was delivered), everything else a stutter.

**ReconciliationProofs.** `BooksAlwaysAgree`, `MatchesAlwaysReal` and `NothingEverDropsOut`, and,
for steps, `SettledForGood` and `NotesAlwaysKept`. What is inductive is `Core`: an event is mirrored
whole or not at all (`MirrorIsWhole`); what a run has decided to match is backed from its verdict
on, because the mirror only grows and a row's data never change (`VerdictsAreBacked`); discrepancies
and events are exactly the findings of the committed runs, one each, and an editor holds one of them
(`FindingsAreReported`); and a run that still reads a settled row is one of its rivals
(`ReadersAreRivals`). `MirrorIsExact` and `RunsAddUp` follow by counting: postings and entries,
findings and discrepancies are in bijection. `LoopAlwaysMeetsVerdicts` is about the matcher as an
algorithm. What the loop's variables are after any set of rows is written down without a loop
(`Closed`: the verdicts of those rows, their references, the entries their matches use);
`TurnOfLoop` shows that one turn leads from the closed form of the earlier rows to that of all,
because an entry that was used has the reference of an earlier row and is no candidate of a row that
is not a duplicate. So the closed form is a solution of the loop's recursion, and a smallest set of
rows at which another solution differed would contradict that turn.

**SandboxTenantsProofs.** `TenantsAlwaysInvariant`, `TokensAlwaysDie`, `CapAlwaysHolds` and
`SignupsAlwaysWhole`. The invariant adds that a sweep's list holds only tenants that had expired
when it began (`SweepsFindTheExpired`), that a token belongs to a key that was inserted with scopes
that exist, and lives no longer than its lifetime from its signature (`TokensBelongToKeys`), that no
session read a tenant as active after its announcement (`ReadsPrecedeAnnouncements`), and that the
count of the sign-up that holds the table lock is still right when it inserts (`SignupsTakeTurns`).
`TokensAlwaysDie` follows: the announcement bounds the instant of the read and not that of the
signature, so the time between the two (`SigningDelay`) stays in the bound.

**SigningKeysProofs.** `KeysAlwaysInvariant` and `NoValidTokenRefused`. The invariant adds
that an instance in its start-up has every key in the clear on its list, and a
published key before it is up (`StartUpSealsAll`), and that the answer a request got
holds the key it asked for, which has signed (`AnswersHoldTheKey`).

**Only model-checked.**

* Liveness: `EveryRequestIsAnswered`, `EveryEventIsConsumed`, `EveryDeliverySettles`,
  `EveryEventIsDelivered`, `SandboxTenantsArePurged`, `AnnouncementsReachServices`,
  `CacheConverges`. The prover does not reason about fairness.
* That deadlocks are resolved and that nothing is stuck (`ENABLED`): TLC's deadlock
  check.

## Not modelled

* Set-up and reports of ledger-core: rows that are written once, and reads. What
  `VerifyBalances` recomputes is `BalancesMatchPostings`.
* Tenant isolation (row-level security): every module has one tenant, or treats
  them apart. The policies are declarative and keep no state.
* HTTP routing, rendering, paging, observability, the address check of the webhook
  dialer: no state that the properties speak of.
* Console, SDKs, infrastructure: clients and deployment.

## Plan

Done: the seven state machines above and their runs, the theorems about all of them, two
refinements and the matcher's loop. What could follow, in order of importance:

1. An abstract specification of webhook delivery under manual retries, once the code says what
   a retry during an attempt should do (Findings).
2. `SandboxTenants` and `OutboxRelay` joined by a theorem: the relay that the former has inside
   as a step of `AtLeastOnce`.
