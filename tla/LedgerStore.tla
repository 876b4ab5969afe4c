---------------------------- MODULE LedgerStore ----------------------------
(***************************************************************************)
(* The write path of ledger-core: the HTTP requests that create, post and  *)
(* reverse transactions and create, capture and release holds, each run by *)
(* its own goroutine as one PostgreSQL transaction (pgxutil.WithTenantTx,  *)
(* Read Committed) over the tables of migration 0001.                      *)
(*                                                                         *)
(* A request is a process.  It takes one step per statement that can wait  *)
(* or can see another request: the idempotency look-up, the referential    *)
(* checks after it, SELECT ... FOR UPDATE, an INSERT into a unique index,  *)
(* the update of one balance row, COMMIT.  What it writes stays in its own *)
(* row versions (uncommitted) and reaches the tables at COMMIT; what it    *)
(* locks (rows, unique-index entries) it keeps until it commits or rolls   *)
(* back.                                                                   *)
(*                                                                         *)
(* One tenant: row-level security keeps tenants apart.  A row created by   *)
(* request r has r as its id, standing for the UUID the handler draws.     *)
(***************************************************************************)
EXTENDS Integers, Sequences, FiniteSets, Functions

CONSTANTS
    Requests,       \* HTTP requests, a client's retries included
    Accounts,       \* accounts of the tenant
    AccountIds,     \* account ids a client may send, known or not
    Ledgers,        \* ledgers of the tenant
    LedgerIds,      \* ledger ids a client may send, known or not
    LedgerOf,       \* the ledger of each account
    NormalBalance,  \* the normal side of each account
    Assets,         \* asset codes
    Keys,           \* idempotency keys clients choose
    Memos,          \* every other semantic field of a request body
    Inputs,         \* the requests clients send in this instance
    MaxInt64,       \* the largest BIGINT
    None            \* SQL NULL, or no row

Directions == {"DEBIT", "CREDIT"}

Posting == [account : AccountIds, direction : Directions, asset : Assets, units : Int]

\* "reversal-of:<id>", the key of a reversal that names none
ReversalKey(t) == <<"reversal-of", t>>

KeySpace == Keys \cup {ReversalKey(t) : t \in Requests}

(***************************************************************************)
(* The request bodies.                                                     *)
(***************************************************************************)
CreateInput  == [op : {"create"}, key : KeySpace, ledger : LedgerIds,
                 status : {"draft", "posted"}, postings : Seq(Posting), memo : Memos]
PostInput    == [op : {"post"}, target : Requests]
ReverseInput == [op : {"reverse"}, target : Requests, key : KeySpace \cup {None}, memo : Memos]
HoldInput    == [op : {"hold"}, key : KeySpace, account : AccountIds,
                 ledger : LedgerIds \cup {None}, asset : Assets, units : Int, memo : Memos]
CaptureInput == [op : {"capture"}, target : Requests, asset : Assets \cup {None},
                 units : Int, transaction : Requests \cup {None}]
ReleaseInput == [op : {"release"}, target : Requests]

InputType == CreateInput \cup PostInput \cup ReverseInput
               \cup HoldInput \cup CaptureInput \cup ReleaseInput

EffectiveKey(in) == IF in.op = "reverse" /\ in.key = None THEN ReversalKey(in.target) ELSE in.key

\* The postings as a bag: the fingerprint sorts them, so their order is not part of it.
PostingBag(ps) == [p \in {ps[i] : i \in 1..Len(ps)} |-> Cardinality({i \in 1..Len(ps) : ps[i] = p})]

\* The SHA-256 of the semantic payload, as the payload itself.  A hold's does
\* not cover ledger_id.
Fingerprint(in) ==
    CASE in.op = "create"  -> [op |-> "create", ledger |-> in.ledger, status |-> in.status,
                               postings |-> PostingBag(in.postings), memo |-> in.memo]
      [] in.op = "reverse" -> [op |-> "reverse", target |-> in.target, memo |-> in.memo]
      [] in.op = "hold"    -> [account |-> in.account, asset |-> in.asset,
                               units |-> in.units, memo |-> in.memo]

Keyed == {in \in Inputs : in.op \in {"create", "reverse", "hold"}}

Hashes == {Fingerprint(in) : in \in Keyed}

VARIABLES
    pc,             \* the statement each request is at
    req,            \* its body
    resp,           \* the answer its handler returns, received by the client or not
    idx,            \* postings whose balance row it has already updated
    locks,          \* row locks and unique-index entries it holds
    uncommitted,    \* the balance row versions it wrote and has not committed
    transactions,   \* the tables
    idempotency_keys,
    holds,
    account_balances,
    outbox

local  == <<pc, req, resp, idx, locks, uncommitted>>
tables == <<transactions, idempotency_keys, holds, account_balances, outbox>>
vars   == <<pc, req, resp, idx, locks, uncommitted,
            transactions, idempotency_keys, holds, account_balances, outbox>>

(***************************************************************************)
(* The tables' rows.                                                       *)
(***************************************************************************)
Rows == Accounts \X Assets

\* The balance row of a posting, of a hold or of a hold's request
RowOf(p) == <<p.account, p.asset>>

Transaction == [key : KeySpace, status : {"draft", "posted", "reversed"},
                postings : Seq(Posting),
                reverses_id : Requests \cup {None}, reversed_by_id : Requests \cup {None}]

Hold == [key : KeySpace, account : Accounts, asset : Assets, amount : Int,
         status : {"active", "captured", "released"},
         captured_transaction_id : Requests \cup {None}, hash : Hashes]

Balance == [posted_debits : Int, posted_credits : Int,
            pending_debits : Int, pending_credits : Int, held : Int]

\* A row of idempotency_keys: the request's fingerprint and the stored answer
StoredAnswer == [hash : Hashes, id : Requests, status : {"draft", "posted"}]

\* What is answered from a row of holds: its fingerprint and the hold as it is now
HoldAnswer == [hash : Hashes, id : Requests, status : {"active", "captured", "released"}]

\* A row of the outbox.  captured and released are the amounts of ledger.hold.captured.
Event == [topic : {"ledger.transaction.posted", "ledger.transaction.reversed",
                   "ledger.hold.created", "ledger.hold.captured", "ledger.hold.released"},
          id : Requests, captured : Int, released : Int]

ASSUME ConstantsAssumption ==
    /\ Inputs \subseteq InputType
    /\ Accounts \subseteq AccountIds
    /\ Ledgers \subseteq LedgerIds
    /\ LedgerOf \in [Accounts -> Ledgers]
    /\ NormalBalance \in [Accounts -> Directions]
    /\ MaxInt64 \in Nat
    /\ None \notin Requests \cup KeySpace \cup LedgerIds \cup Assets \cup InputType
    /\ None \notin Balance \cup Transaction \cup Hold \cup StoredAnswer \cup HoldAnswer
    /\ None \notin {"validation", "not_found"}

ZeroBalance == [posted_debits |-> 0, posted_credits |-> 0,
                pending_debits |-> 0, pending_credits |-> 0, held |-> 0]

NoVersions == [x \in Rows |-> None]

\* What a request may lock: a row of transactions, holds or account_balances,
\* or an entry of the unique (tenant_id, idempotency_key) index of a table.
TxRow(t)      == <<"transactions", t>>
HoldRow(h)    == <<"holds", h>>
BalanceRow(x) == <<"account_balances", x>>
TxKey(k)      == <<"transactions_key", k>>
HoldKey(k)    == <<"holds_key", k>>

Resources == {TxRow(t) : t \in Requests} \cup {HoldRow(h) : h \in Requests}
               \cup {BalanceRow(x) : x \in Rows}
               \cup {TxKey(k) : k \in KeySpace} \cup {HoldKey(k) : k \in KeySpace}

\* Mutant: balance rows are read and written back without a lock.
FreeButBalances(r, x) == x[1] = "account_balances" \/ \A s \in Requests \ {r} : x \notin locks[s]

\* No other open database transaction holds x.
Free(r, x) == \A s \in Requests \ {r} : x \notin locks[s]

(***************************************************************************)
(* The domain's pure functions.                                            *)
(***************************************************************************)
Opposite(d) == IF d = "DEBIT" THEN "CREDIT" ELSE "DEBIT"

Units(ps) == [i \in 1..Len(ps) |-> ps[i].units]

\* SUM(units) of the postings of one direction and asset
SumUnits(ps, d, c) ==
    SumFunctionOnSet(Units(ps), {i \in 1..Len(ps) : ps[i].direction = d /\ ps[i].asset = c})

\* Mutant: the totals are compared over all assets at once.
BalancedOverall(ps) ==
    /\ Len(ps) >= 2
    /\ \A i \in 1..Len(ps) : ps[i].units > 0
    /\ SumFunction([c \in Assets |-> SumUnits(ps, "DEBIT", c) - SumUnits(ps, "CREDIT", c)]) = 0

ValidateBalanced(ps) ==
    /\ Len(ps) >= 2
    /\ \A i \in 1..Len(ps) : ps[i].units > 0
    /\ \A c \in Assets : /\ SumUnits(ps, "DEBIT", c) <= MaxInt64
                         /\ SumUnits(ps, "DEBIT", c) = SumUnits(ps, "CREDIT", c)

\* domain.Reverse: the same postings, the directions inverted
ReversePostings(ps) ==
    [i \in 1..Len(ps) |-> [ps[i] EXCEPT !.direction = Opposite(ps[i].direction)]]

PostedNet(b, nb) == IF nb = "DEBIT" THEN b.posted_debits - b.posted_credits
                                    ELSE b.posted_credits - b.posted_debits

Available(b, nb) == PostedNet(b, nb) - b.held

\* What the service layer checks before it opens a database transaction
Valid(in) ==
    CASE in.op = "create"  -> ValidateBalanced(in.postings)
      [] in.op = "hold"    -> in.units > 0
      [] in.op = "capture" -> in.asset # None => in.units > 0
      [] OTHER             -> TRUE

(***************************************************************************)
(* The end of a request's database transaction: its locks are released and *)
(* its answer is out.                                                      *)
(***************************************************************************)
Answer(r, code, id, status) ==
    /\ pc' = [pc EXCEPT ![r] = "done"]
    /\ resp' = [resp EXCEPT ![r] = [code |-> code, id |-> id, status |-> status]]
    /\ locks' = [locks EXCEPT ![r] = {}]
    /\ uncommitted' = [uncommitted EXCEPT ![r] = NoVersions]
    /\ idx' = [idx EXCEPT ![r] = 0]
    /\ UNCHANGED req

\* ROLLBACK with an error: nothing the request wrote remains.
Fail(r, code) == Answer(r, code, None, None) /\ UNCHANGED tables

\* The next statement, with what has been locked so far.
Advance(r, step, held) ==
    /\ pc' = [pc EXCEPT ![r] = step]
    /\ locks' = [locks EXCEPT ![r] = @ \cup held]
    /\ UNCHANGED tables

Receive(r, in) ==
    /\ pc[r] = "idle"
    /\ Valid(in)
    /\ pc' = [pc EXCEPT ![r] = IF in \in Keyed THEN "lookup" ELSE "lock"]
    /\ req' = [req EXCEPT ![r] = in]
    /\ UNCHANGED <<resp, idx, locks, uncommitted>>
    /\ UNCHANGED tables

Reject(r, in) ==
    /\ pc[r] = "idle"
    /\ ~Valid(in)
    /\ pc' = [pc EXCEPT ![r] = "done"]
    /\ req' = [req EXCEPT ![r] = in]
    /\ resp' = [resp EXCEPT ![r] = [code |-> "validation", id |-> None, status |-> None]]
    /\ UNCHANGED <<idx, locks, uncommitted>>
    /\ UNCHANGED tables

(***************************************************************************)
(* Idempotency.  The stored answer of a key, as a record of its request's  *)
(* fingerprint and of the row to return: a snapshot for a transaction, the *)
(* current row for a hold.                                                 *)
(***************************************************************************)
FirmTransactionsWithKey(k) ==
    {t \in Requests : transactions[t] # None /\ transactions[t].key = k /\ transactions[t].status # "draft"}

HoldsWithKey(k) == {h \in Requests : holds[h] # None /\ holds[h].key = k}

TransactionsWithKey(k) ==
    {t \in Requests : transactions[t] # None /\ transactions[t].key = k}

Stored(in) ==
    LET k == EffectiveKey(in) IN
    IF in.op # "hold" THEN idempotency_keys[k]
    ELSE IF HoldsWithKey(k) = {} THEN None
    ELSE LET h == CHOOSE h \in HoldsWithKey(k) : TRUE
         IN  [hash |-> holds[h].hash, id |-> h, status |-> holds[h].status]

\* Mutant: the stored answer is served whatever the payload.
ReplayAnyPayload(in) ==
    LET s == Stored(in) IN
    IF s = None THEN <<"conflict", None, None>> ELSE <<"replayed", s.id, s.status>>

\* What a request whose key is taken is answered with.  Without a stored
\* answer, the unique violation itself is reported.
Replay(in) ==
    LET s == Stored(in) IN
    IF s = None THEN <<"conflict", None, None>>
    ELSE IF s.hash = Fingerprint(in) THEN <<"replayed", s.id, s.status>>
    ELSE <<"idempotency_conflict", None, None>>

LookupHit(r) ==
    LET ans == Replay(req[r]) IN
    /\ pc[r] = "lookup"
    /\ Stored(req[r]) # None
    /\ Answer(r, ans[1], ans[2], ans[3])
    /\ UNCHANGED tables

\* The accounts a request names, and the ledger it says they belong to
AccountsOf(in) ==
    CASE in.op = "create" -> {in.postings[i].account : i \in 1..Len(in.postings)}
      [] in.op = "hold"   -> {in.account}
      [] OTHER            -> {}

\* A create looks its ledger up; a hold only compares it with its account's.
NamesUnknown(in) ==
    \/ in.op = "create" /\ in.ledger \notin Ledgers
    \/ ~(AccountsOf(in) \subseteq Accounts)

CrossesLedgers(in) == \E a \in AccountsOf(in) : in.ledger # None /\ LedgerOf[a] # in.ledger

\* No stored answer yet.  Nothing keeps another request with the key from
\* committing before the next statement of this one.
LookupMiss(r) ==
    /\ pc[r] = "lookup"
    /\ Stored(req[r]) = None
    /\ Advance(r, IF req[r].op = "reverse" THEN "lock" ELSE "check", {})
    /\ UNCHANGED <<req, resp, idx, uncommitted>>

\* The referential checks: the ledger and the accounts of a create, the account
\* of a hold.  What is refused here is refused without another look at the key.
CheckReferences(r) ==
    /\ pc[r] = "check"
    /\ \/ /\ NamesUnknown(req[r])
          /\ Fail(r, "not_found")
       \/ /\ ~NamesUnknown(req[r])
          /\ CrossesLedgers(req[r])
          /\ Fail(r, "validation")
       \/ /\ ~NamesUnknown(req[r])
          /\ ~CrossesLedgers(req[r])
          /\ Advance(r, IF req[r].op = "create" THEN "insert" ELSE "lock", {})
          /\ UNCHANGED <<req, resp, idx, uncommitted>>

\* Mutant: the unique violation is reported as it is.
NoRecheck(r) ==
    /\ pc[r] = "recheck"
    /\ Answer(r, "conflict", None, None)
    /\ UNCHANGED tables

\* After a unique violation and ROLLBACK: the look-up again, in a transaction of its own
Recheck(r) ==
    LET ans == Replay(req[r]) IN
    /\ pc[r] = "recheck"
    /\ Answer(r, ans[1], ans[2], ans[3])
    /\ UNCHANGED tables

UniqueViolation(r) ==
    /\ pc' = [pc EXCEPT ![r] = "recheck"]
    /\ locks' = [locks EXCEPT ![r] = {}]
    /\ UNCHANGED <<req, resp, idx, uncommitted>>
    /\ UNCHANGED tables

(***************************************************************************)
(* SELECT ... FOR UPDATE.                                                  *)
(***************************************************************************)
TargetMissing(r) ==
    /\ pc[r] = "lock"
    /\ \/ req[r].op \in {"post", "reverse"} /\ transactions[req[r].target] = None
       \/ req[r].op \in {"capture", "release"} /\ holds[req[r].target] = None
    /\ Fail(r, "not_found")

\* loadTransactionTx(forUpdate), then the switch on the status
PostLock(r) ==
    LET t == req[r].target IN
    /\ pc[r] = "lock"
    /\ req[r].op = "post"
    /\ transactions[t] # None
    /\ Free(r, TxRow(t))
    /\ \/ /\ transactions[t].status = "posted"
          /\ Answer(r, "ok", t, "posted")
          /\ UNCHANGED tables
       \/ /\ transactions[t].status = "reversed"
          /\ Fail(r, "conflict")
       \/ /\ transactions[t].status = "draft"
          /\ Advance(r, "apply", {TxRow(t)})
          /\ UNCHANGED <<req, resp, idx, uncommitted>>

\* Mutant: the original is read without FOR UPDATE.
UnlockedReverse(r) ==
    LET t == req[r].target IN
    /\ pc[r] = "lock"
    /\ req[r].op = "reverse"
    /\ transactions[t] # None
    /\ transactions[t].status = "posted"
    /\ Advance(r, "insert", {})
    /\ UNCHANGED <<req, resp, idx, uncommitted>>

ReverseLock(r) ==
    LET t == req[r].target IN
    /\ pc[r] = "lock"
    /\ req[r].op = "reverse"
    /\ transactions[t] # None
    /\ Free(r, TxRow(t))
    /\ \/ /\ transactions[t].status # "posted"
          /\ Fail(r, "conflict")
       \/ /\ transactions[t].status = "posted"
          /\ Advance(r, "insert", {TxRow(t)})
          /\ UNCHANGED <<req, resp, idx, uncommitted>>

\* Mutant: what other holds have reserved is not subtracted.
HoldIgnoresHeld(r) ==
    LET x == RowOf(req[r])
        b == account_balances[x]
    IN
    /\ pc[r] = "lock"
    /\ req[r].op = "hold"
    /\ b # None
    /\ Free(r, BalanceRow(x))
    /\ PostedNet(b, NormalBalance[x[1]]) >= req[r].units
    /\ Advance(r, "insert", {BalanceRow(x)})
    /\ UNCHANGED <<req, resp, idx, uncommitted>>

\* With no balance row there is nothing to lock and nothing available.
HoldLock(r) ==
    LET x == RowOf(req[r])
        b == account_balances[x]
    IN
    /\ pc[r] = "lock"
    /\ req[r].op = "hold"
    /\ \/ /\ b = None
          /\ Fail(r, "insufficient_funds")
       \/ /\ b # None
          /\ Free(r, BalanceRow(x))
          /\ Available(b, NormalBalance[x[1]]) < req[r].units
          /\ Fail(r, "insufficient_funds")
       \/ /\ b # None
          /\ Free(r, BalanceRow(x))
          /\ Available(b, NormalBalance[x[1]]) >= req[r].units
          /\ Advance(r, "insert", {BalanceRow(x)})
          /\ UNCHANGED <<req, resp, idx, uncommitted>>

\* What CaptureHold verifies of an active hold besides its status
CaptureError(in, h) ==
    IF in.asset # None /\ (in.asset # h.asset \/ in.units > h.amount) THEN "validation"
    ELSE IF in.transaction # None /\ transactions[in.transaction] = None THEN "not_found"
    ELSE None

\* CaptureHold and ReleaseHold, up to the update of the hold's own row
SettleLock(r) ==
    LET h == req[r].target IN
    /\ pc[r] = "lock"
    /\ req[r].op \in {"capture", "release"}
    /\ holds[h] # None
    /\ Free(r, HoldRow(h))
    /\ \/ /\ holds[h].status # "active"
          /\ Fail(r, "conflict")
       \/ /\ holds[h].status = "active"
          /\ req[r].op = "capture"
          /\ CaptureError(req[r], holds[h]) # None
          /\ Fail(r, CaptureError(req[r], holds[h]))
       \/ /\ holds[h].status = "active"
          /\ req[r].op = "capture" => CaptureError(req[r], holds[h]) = None
          /\ Advance(r, "apply", {HoldRow(h)})
          /\ UNCHANGED <<req, resp, idx, uncommitted>>

(***************************************************************************)
(* INSERT into a unique index: it waits for an open inserter of the same   *)
(* key, and fails if that one, or an earlier one, has committed.           *)
(***************************************************************************)
InsertTransaction(r) ==
    LET k == EffectiveKey(req[r]) IN
    /\ pc[r] = "insert"
    /\ req[r].op \in {"create", "reverse"}
    /\ Free(r, TxKey(k))
    /\ \/ /\ TransactionsWithKey(k) # {}
          /\ UniqueViolation(r)
       \/ /\ TransactionsWithKey(k) = {}
          /\ Advance(r, "apply", {TxKey(k)})
          /\ UNCHANGED <<req, resp, idx, uncommitted>>

\* The hold's row, then the upsert of held in the balance row locked before
InsertHold(r) ==
    LET k == EffectiveKey(req[r])
        x == RowOf(req[r])
    IN
    /\ pc[r] = "insert"
    /\ req[r].op = "hold"
    /\ Free(r, HoldKey(k))
    /\ \/ /\ HoldsWithKey(k) # {}
          /\ UniqueViolation(r)
       \/ /\ HoldsWithKey(k) = {}
          /\ Advance(r, "commit", {HoldKey(k)})
          /\ uncommitted' = [uncommitted EXCEPT
                ![r][x] = [account_balances[x] EXCEPT !.held = @ + req[r].units]]
          /\ UNCHANGED <<req, resp, idx>>

(***************************************************************************)
(* The balance rows, one posting at a time and in the order of the request.*)
(***************************************************************************)
PostingsOf(r) ==
    CASE req[r].op = "create"  -> req[r].postings
      [] req[r].op = "post"    -> transactions[req[r].target].postings
      [] req[r].op = "reverse" -> ReversePostings(transactions[req[r].target].postings)

\* The row version the next statement of r sees: its own, or the committed one
Current(r, x) == IF BalanceRow(x) \in locks[r] THEN uncommitted[r][x] ELSE account_balances[x]

OrZero(b) == IF b = None THEN ZeroBalance ELSE b

debitCredit(p) == IF p.direction = "DEBIT" THEN <<p.units, 0>> ELSE <<0, p.units>>

\* b with debits and credits added to its posted and to its pending totals
AddTo(b, posted, pending) ==
    [posted_debits   |-> b.posted_debits + posted[1],
     posted_credits  |-> b.posted_credits + posted[2],
     pending_debits  |-> b.pending_debits + pending[1],
     pending_credits |-> b.pending_credits + pending[2],
     held            |-> b.held]

upsertPostedBalance(b, p) == AddTo(OrZero(b), debitCredit(p), <<0, 0>>)

upsertPendingBalance(b, p) == AddTo(OrZero(b), <<0, 0>>, debitCredit(p))

\* Mutant: posting forgets to take the amounts out of pending.
copyPendingToPosted(b, p) == IF b = None THEN None ELSE AddTo(b, debitCredit(p), <<0, 0>>)

\* A plain UPDATE: without a row it changes nothing.
movePendingToPosted(b, p) ==
    LET dc == debitCredit(p) IN
    IF b = None THEN None ELSE AddTo(b, dc, <<-dc[1], -dc[2]>>)

NewVersion(r, b, p) ==
    CASE req[r].op = "post" -> movePendingToPosted(b, p)
      [] req[r].op = "create" /\ req[r].status = "draft" -> upsertPendingBalance(b, p)
      [] OTHER -> upsertPostedBalance(b, p)

\* BIGINT out of range: PostgreSQL raises an error and the transaction rolls back.
OutOfRange(b) == b # None /\ \E f \in DOMAIN b : b[f] > MaxInt64

ApplyBalance(r) ==
    LET p == PostingsOf(r)[idx[r] + 1]
        x == RowOf(p)
        b == NewVersion(r, Current(r, x), p)
    IN
    /\ pc[r] = "apply"
    /\ req[r].op \in {"create", "post", "reverse"}
    /\ Free(r, BalanceRow(x))
    /\ \/ /\ OutOfRange(b)
          /\ Fail(r, "error")
       \/ /\ ~OutOfRange(b)
          /\ Advance(r, IF idx[r] + 1 = Len(PostingsOf(r)) THEN "commit" ELSE "apply",
                     {BalanceRow(x)})
          /\ uncommitted' = [uncommitted EXCEPT ![r][x] = b]
          /\ idx' = [idx EXCEPT ![r] = @ + 1]
          /\ UNCHANGED <<req, resp>>

\* Mutant: a partial capture frees only what it captured.
ReleaseCapturedOnly(r) ==
    LET h == holds[req[r].target]
        x == RowOf(h)
        n == IF req[r].op = "capture" /\ req[r].asset # None THEN req[r].units ELSE h.amount
    IN
    /\ pc[r] = "apply"
    /\ req[r].op \in {"capture", "release"}
    /\ Free(r, BalanceRow(x))
    /\ Advance(r, "commit", {BalanceRow(x)})
    /\ uncommitted' = [uncommitted EXCEPT ![r][x] = [account_balances[x] EXCEPT !.held = @ - n]]
    /\ UNCHANGED <<req, resp, idx>>

\* releaseHeld, for a capture as for a release
ReleaseHeld(r) ==
    LET h == holds[req[r].target]
        x == RowOf(h)
    IN
    /\ pc[r] = "apply"
    /\ req[r].op \in {"capture", "release"}
    /\ Free(r, BalanceRow(x))
    /\ Advance(r, "commit", {BalanceRow(x)})
    /\ uncommitted' = [uncommitted EXCEPT
          ![r][x] = [account_balances[x] EXCEPT !.held = @ - h.amount]]
    /\ UNCHANGED <<req, resp, idx>>

(***************************************************************************)
(* COMMIT.                                                                 *)
(***************************************************************************)
CommitBalances(r) ==
    account_balances' = [x \in Rows |-> Current(r, x)]

\* insertOutbox
Emit(topic, id, captured, released) ==
    outbox' = Append(outbox, [topic |-> topic, id |-> id,
                              captured |-> captured, released |-> released])

CommitCreate(r) ==
    LET in == req[r] IN
    /\ pc[r] = "commit"
    /\ in.op = "create"
    /\ transactions' = [transactions EXCEPT ![r] =
          [key |-> in.key, status |-> in.status, postings |-> in.postings,
           reverses_id |-> None, reversed_by_id |-> None]]
    /\ CommitBalances(r)
    /\ IF in.status = "posted" THEN Emit("ledger.transaction.posted", r, 0, 0) ELSE UNCHANGED outbox
    /\ idempotency_keys' = [idempotency_keys EXCEPT ![in.key] =
          [hash |-> Fingerprint(in), id |-> r, status |-> in.status]]
    /\ Answer(r, "created", r, in.status)
    /\ UNCHANGED holds

\* Mutant: posting a draft announces nothing.
SilentPost(r) ==
    LET t == req[r].target IN
    /\ pc[r] = "commit"
    /\ req[r].op = "post"
    /\ transactions' = [transactions EXCEPT ![t] = [@ EXCEPT !.status = "posted"]]
    /\ CommitBalances(r)
    /\ Answer(r, "ok", t, "posted")
    /\ UNCHANGED <<idempotency_keys, holds, outbox>>

CommitPost(r) ==
    LET t == req[r].target IN
    /\ pc[r] = "commit"
    /\ req[r].op = "post"
    /\ transactions' = [transactions EXCEPT ![t] = [@ EXCEPT !.status = "posted"]]
    /\ CommitBalances(r)
    /\ Emit("ledger.transaction.posted", t, 0, 0)
    /\ Answer(r, "ok", t, "posted")
    /\ UNCHANGED <<idempotency_keys, holds>>

CommitReverse(r) ==
    LET t == req[r].target
        k == EffectiveKey(req[r])
    IN
    /\ pc[r] = "commit"
    /\ req[r].op = "reverse"
    /\ transactions' = [transactions EXCEPT
          ![r] = [key |-> k, status |-> "posted", postings |-> PostingsOf(r),
                  reverses_id |-> t, reversed_by_id |-> None],
          ![t] = [@ EXCEPT !.status = "reversed", !.reversed_by_id = r]]
    /\ CommitBalances(r)
    /\ idempotency_keys' = [idempotency_keys EXCEPT ![k] =
          [hash |-> Fingerprint(req[r]), id |-> r, status |-> "posted"]]
    /\ Emit("ledger.transaction.reversed", t, 0, 0)
    /\ Answer(r, "created", r, "posted")
    /\ UNCHANGED holds

CommitHold(r) ==
    LET in == req[r] IN
    /\ pc[r] = "commit"
    /\ in.op = "hold"
    /\ holds' = [holds EXCEPT ![r] =
          [key |-> in.key, account |-> in.account, asset |-> in.asset, amount |-> in.units,
           status |-> "active", captured_transaction_id |-> None, hash |-> Fingerprint(in)]]
    /\ CommitBalances(r)
    /\ Emit("ledger.hold.created", r, 0, 0)
    /\ Answer(r, "created", r, "active")
    /\ UNCHANGED <<transactions, idempotency_keys>>

\* A capture takes the whole hold unless it names an amount; the rest is released.
CommitCapture(r) ==
    LET h == req[r].target
        captured == IF req[r].asset = None THEN holds[h].amount ELSE req[r].units
    IN
    /\ pc[r] = "commit"
    /\ req[r].op = "capture"
    /\ holds' = [holds EXCEPT ![h] =
          [@ EXCEPT !.status = "captured", !.captured_transaction_id = req[r].transaction]]
    /\ CommitBalances(r)
    /\ Emit("ledger.hold.captured", h, captured, holds[h].amount - captured)
    /\ Answer(r, "ok", h, "captured")
    /\ UNCHANGED <<transactions, idempotency_keys>>

CommitRelease(r) ==
    LET h == req[r].target IN
    /\ pc[r] = "commit"
    /\ req[r].op = "release"
    /\ holds' = [holds EXCEPT ![h] = [@ EXCEPT !.status = "released"]]
    /\ CommitBalances(r)
    /\ Emit("ledger.hold.released", h, 0, holds[h].amount)
    /\ Answer(r, "ok", h, "released")
    /\ UNCHANGED <<transactions, idempotency_keys>>

(***************************************************************************)
(* What can end a request early.                                           *)
(***************************************************************************)
Open(r) == pc[r] \notin {"idle", "done"}

\* The process or its connection dies, or the client's context is cancelled.
Crash(r) ==
    /\ Open(r)
    /\ Fail(r, "lost")

\* The look-up after a unique violation fails: the violation is reported, with a
\* 409 that is kept apart here because it says nothing of the stored answer.
RecheckFails(r) ==
    /\ pc[r] = "recheck"
    /\ Fail(r, "unresolved")

Fault(r) == Crash(r) \/ RecheckFails(r)

\* What the next statement of r must lock
Wanted(r) ==
    CASE pc[r] = "lock" /\ req[r].op \in {"post", "reverse"} -> TxRow(req[r].target)
      [] pc[r] = "lock" /\ req[r].op \in {"capture", "release"} -> HoldRow(req[r].target)
      [] pc[r] = "lock" /\ req[r].op = "hold" -> BalanceRow(RowOf(req[r]))
      [] pc[r] = "insert" /\ req[r].op = "hold" -> HoldKey(EffectiveKey(req[r]))
      [] pc[r] = "insert" /\ req[r].op # "hold" -> TxKey(EffectiveKey(req[r]))
      [] pc[r] = "apply" /\ req[r].op \in {"capture", "release"} ->
            BalanceRow(RowOf(holds[req[r].target]))
      [] pc[r] = "apply" /\ req[r].op \notin {"capture", "release"} ->
            BalanceRow(RowOf(PostingsOf(r)[idx[r] + 1]))

WaitsFor(r, s) ==
    /\ pc[r] \in {"lock", "insert", "apply"}
    /\ s # r
    /\ Wanted(r) \in locks[s]

\* Mutant: nothing detects deadlocks.
NoDetector(r) == FALSE

\* A cycle of the wait-for graph through r
InWaitCycle(r) ==
    \E C \in SUBSET Requests :
        /\ r \in C
        /\ \A s \in C : \E u \in C : WaitsFor(s, u)
        /\ \A u \in C : \E s \in C : WaitsFor(s, u)

\* PostgreSQL's deadlock detector aborts one member (40P01).  mapErr does not
\* know the code and nobody retries: the client gets a 500.
DeadlockVictim(r) ==
    /\ InWaitCycle(r)
    /\ Fail(r, "error")

Step(r) ==
    \/ LookupHit(r) \/ LookupMiss(r) \/ CheckReferences(r) \/ Recheck(r)
    \/ TargetMissing(r) \/ PostLock(r) \/ ReverseLock(r) \/ HoldLock(r) \/ SettleLock(r)
    \/ InsertTransaction(r) \/ InsertHold(r)
    \/ ApplyBalance(r) \/ ReleaseHeld(r)
    \/ CommitCreate(r) \/ CommitPost(r) \/ CommitReverse(r)
    \/ CommitHold(r) \/ CommitCapture(r) \/ CommitRelease(r)
    \/ DeadlockVictim(r)

\* Every request is answered: the only state in which nothing more happens.
Finished ==
    /\ \A r \in Requests : pc[r] = "done"
    /\ UNCHANGED vars

Next ==
    \/ \E r \in Requests, in \in Inputs : Receive(r, in) \/ Reject(r, in)
    \/ \E r \in Requests : Step(r) \/ Fault(r)
    \/ Finished

Init ==
    /\ pc = [r \in Requests |-> "idle"]
    /\ req = [r \in Requests |-> None]
    /\ resp = [r \in Requests |-> None]
    /\ idx = [r \in Requests |-> 0]
    /\ locks = [r \in Requests |-> {}]
    /\ uncommitted = [r \in Requests |-> NoVersions]
    /\ transactions = [t \in Requests |-> None]
    /\ idempotency_keys = [k \in KeySpace |-> None]
    /\ holds = [h \in Requests |-> None]
    /\ account_balances = [x \in Rows |-> None]
    /\ outbox = <<>>

Spec == Init /\ [][Next]_vars

\* The goroutine of a request that has been received runs on, and PostgreSQL
\* serves its statements and breaks its deadlocks; nothing makes clients send
\* requests or processes crash.
FairSpec == Spec /\ \A r \in Requests : WF_vars(Step(r))

(***************************************************************************)
(* Correctness.                                                            *)
(***************************************************************************)
Codes == {"created", "replayed", "ok", "validation", "not_found", "idempotency_conflict",
          "conflict", "unresolved", "insufficient_funds", "error", "lost"}

Steps == {"idle", "lookup", "check", "lock", "insert", "apply", "commit", "recheck", "done"}

\* The tables and the requests' own state have the shapes their declarations
\* give them (0001_init.sql, domain.go).
TypeOK ==
    /\ pc \in [Requests -> Steps]
    /\ req \in [Requests -> Inputs \cup {None}]
    /\ resp \in [Requests -> [code : Codes, id : Requests \cup {None},
                              status : {"draft", "posted", "active", "captured", "released", None}]
                              \cup {None}]
    /\ idx \in [Requests -> Nat]
    /\ locks \in [Requests -> SUBSET Resources]
    /\ uncommitted \in [Requests -> [Rows -> Balance \cup {None}]]
    /\ transactions \in [Requests -> Transaction \cup {None}]
    /\ idempotency_keys \in [KeySpace -> StoredAnswer \cup {None}]
    /\ holds \in [Requests -> Hold \cup {None}]
    /\ account_balances \in [Rows -> Balance \cup {None}]
    /\ outbox \in Seq(Event)

TxIds   == {t \in Requests : transactions[t] # None}
HoldIds == {h \in Requests : holds[h] # None}

Firm(t) == transactions[t].status \in {"posted", "reversed"}

\* SUM(amount) over the first n of the postings ps on row x, one direction
SumUpTo(ps, n, x, d) ==
    SumFunctionOnSet(Units(ps), {i \in 1..n : RowOf(ps[i]) = x /\ ps[i].direction = d})

\* SUM(amount) over the postings of the transactions in T on row x, one direction
SumPostings(T, x, d) ==
    SumFunction([t \in T |-> SumUpTo(transactions[t].postings, Len(transactions[t].postings), x, d)])

\* verify_account_balances returns no row, at any moment: the materialised
\* posted and pending totals of every account and asset are the sums over the
\* postings of its firm and of its draft transactions, whatever requests ran,
\* waited, deadlocked or died in between (docs/invariants.md I-6).
BalancesMatchPostings ==
    \A x \in Rows :
        LET b == OrZero(account_balances[x])
            firm == {t \in TxIds : Firm(t)}
            draft == TxIds \ firm
        IN  /\ b.posted_debits = SumPostings(firm, x, "DEBIT")
            /\ b.posted_credits = SumPostings(firm, x, "CREDIT")
            /\ b.pending_debits = SumPostings(draft, x, "DEBIT")
            /\ b.pending_credits = SumPostings(draft, x, "CREDIT")

\* held is the sum of the active holds on the account and asset: no capture,
\* release or retry frees a hold twice or forgets it (CreateHold, releaseHeld).
HeldMatchesHolds ==
    \A x \in Rows :
        OrZero(account_balances[x]).held =
            SumFunctionOnSet([h \in HoldIds |-> holds[h].amount],
                             {h \in HoldIds : holds[h].status = "active" /\ RowOf(holds[h]) = x})

\* The deferred trigger check_transaction_balance has nothing to reject: every
\* firm transaction, a reversal included, has at least two postings and balances
\* in every asset, so ValidateBalanced and Reverse are as strict as the database (I-1).
FirmTransactionsBalance ==
    \A t \in TxIds : Firm(t) =>
        LET ps == transactions[t].postings IN
        /\ Len(ps) >= 2
        /\ \A c \in Assets : SumUnits(ps, "DEBIT", c) = SumUnits(ps, "CREDIT", c)

\* One idempotency key is one effect: no two transactions and no two holds carry
\* the same key, and a stored answer names the transaction that has the key (I-4).
OneEffectPerKey ==
    /\ \A t, u \in TxIds : transactions[t].key = transactions[u].key => t = u
    /\ \A h, g \in HoldIds : holds[h].key = holds[g].key => h = g
    /\ \A k \in KeySpace : idempotency_keys[k] # None =>
          /\ idempotency_keys[k].id \in TxIds
          /\ transactions[idempotency_keys[k].id].key = k

\* A request that is told of success under a key was sent with the payload that
\* created the row it is told about; never another client's payload, never a row
\* that was rolled back (CreateTransaction, ReverseTransaction, CreateHold).
SuccessMeansSamePayload ==
    \A r \in Requests :
        (resp[r] # None /\ resp[r].code \in {"created", "replayed"}) =>
            LET w == resp[r].id IN
            /\ IF req[r].op = "hold" THEN w \in HoldIds ELSE w \in TxIds
            /\ req[w].op = req[r].op
            /\ EffectiveKey(req[w]) = EffectiveKey(req[r])
            /\ Fingerprint(req[w]) = Fingerprint(req[r])

\* A transaction is reversed exactly when its compensating transaction exists:
\* one, posted, with every posting inverted, and linked both ways (I-5).  No
\* reversal is orphaned and no transaction is reversed twice.
ReversalsPair ==
    /\ \A t \in TxIds :
          /\ transactions[t].status = "reversed" <=> transactions[t].reversed_by_id # None
          /\ transactions[t].reversed_by_id # None =>
                LET u == transactions[t].reversed_by_id IN
                /\ u \in TxIds
                /\ transactions[u].reverses_id = t
                /\ transactions[u].postings = ReversePostings(transactions[t].postings)
    /\ \A u \in TxIds : transactions[u].reverses_id # None =>
          /\ transactions[u].reverses_id \in TxIds
          /\ transactions[transactions[u].reverses_id].reversed_by_id = u

Events(topic, id) == {i \in 1..Len(outbox) : outbox[i].topic = topic /\ outbox[i].id = id}

\* i: there is one event, and it is event i
Sole(S, there) == Cardinality(S) = IF there THEN 1 ELSE 0

\* The outbox tells exactly what happened: one event for each transaction posted
\* (a reversal announces itself as ledger.transaction.reversed of its target, and
\* only so), reversed, and for each hold created, captured and released, in the
\* order of their commits; a capture's two amounts add up to the hold (I-12).
OutboxTellsTheStory ==
    /\ \A t \in Requests :
          LET P == Events("ledger.transaction.posted", t)
              R == Events("ledger.transaction.reversed", t)
          IN  /\ Sole(P, t \in TxIds /\ Firm(t) /\ transactions[t].reverses_id = None)
              /\ Sole(R, t \in TxIds /\ transactions[t].status = "reversed")
              /\ \A i \in P, j \in R : i < j
    /\ \A h \in Requests :
          LET C == Events("ledger.hold.created", h)
              E == Events("ledger.hold.captured", h)
              F == Events("ledger.hold.released", h)
          IN  /\ Sole(C, h \in HoldIds)
              /\ Sole(E, h \in HoldIds /\ holds[h].status = "captured")
              /\ Sole(F, h \in HoldIds /\ holds[h].status = "released")
              /\ \A i \in C, j \in E \cup F : i < j
              /\ \A j \in E : /\ outbox[j].captured > 0
                             /\ outbox[j].released >= 0
                             /\ outbox[j].captured + outbox[j].released = holds[h].amount

\* A step only appends to history.
AppendsOnly ==
    /\ \A t \in TxIds :
          /\ transactions'[t] # None
          /\ transactions'[t].key = transactions[t].key
          /\ transactions'[t].postings = transactions[t].postings
          /\ transactions'[t].reverses_id = transactions[t].reverses_id
          /\ <<transactions[t].status, transactions'[t].status>> \in
                {<<"draft", "draft">>, <<"draft", "posted">>, <<"posted", "posted">>,
                 <<"posted", "reversed">>, <<"reversed", "reversed">>}
    /\ \A h \in HoldIds :
          /\ holds'[h] # None
          /\ holds[h].status # "active" => holds'[h] = holds[h]
    /\ Len(outbox') >= Len(outbox) /\ SubSeq(outbox', 1, Len(outbox)) = outbox

\* Posted history is append-only: a committed transaction keeps its key, its
\* postings and its link to the one it reverses, and moves only from draft to
\* posted to reversed; a settled hold stays settled; no row is deleted and no
\* event is withdrawn (transactions_guard, postings_append_only, I-2).
HistoryIsAppendOnly == [][AppendsOnly]_vars

\* A step that raises held leaves nothing overdrawn.
ReservesAvailable ==
    \A x \in Rows :
        LET b == OrZero(account_balances[x])
            c == OrZero(account_balances'[x])
        IN  c.held > b.held => Available(c, NormalBalance[x[1]]) >= 0

\* Funds are never reserved twice: whenever a step raises held, what is left
\* available on that account and asset is not negative (docs/concurrency.md,
\* "Not one cent over-reserved"; I-10).
NoOverReservation == [][ReservesAvailable]_vars

\* r is answered in this step.
Answered(r) == pc[r] # "done" /\ pc'[r] = "done"

\* It names a ledger or an account that is not there, or accounts of two ledgers.
Misnames(in) == NamesUnknown(in) \/ CrossesLedgers(in)

\* What a create may be answered once its key has a stored answer
RetryAnswers(in) ==
    {"lost", "unresolved"} \cup
    IF Stored(in).hash = Fingerprint(in) THEN {"replayed"}
    ELSE {"idempotency_conflict"} \cup (IF Misnames(in) THEN {"not_found", "validation"} ELSE {})

\* A retry of CreateTransaction is deterministic: once its key has a stored answer,
\* a request that is still running with the same payload is answered with it, and
\* one with another payload with idempotency_conflict, however they interleaved
\* (I-4).  docs/concurrency.md says "There is no window": there is one, and only for
\* another payload that names no valid ledger or accounts.  It may have missed the
\* key before, and is then refused for its own fault although the key is taken by
\* now.  Only a crash, or a failure of the second look-up itself, takes an answer away.
CreateRetriesReplay == [][
    \A r \in Requests :
        (Answered(r) /\ req[r] # None /\ req[r].op = "create" /\ Stored(req[r]) # None) =>
            resp'[r].code \in RetryAnswers(req[r])
    ]_vars

\* What the comments of ReverseTransaction promise of a retry, and I-5 ("Retrying
\* the same reversal ... replays"): a reversal whose key already has the stored
\* answer of the same request is answered with it.  The code does not keep it.
ReversalRetriesReplay == [][
    \A r \in Requests :
        (Answered(r) /\ req[r] # None /\ req[r].op = "reverse" /\ Stored(req[r]) # None
            /\ Stored(req[r]).hash = Fingerprint(req[r])) =>
            resp'[r].code \in {"lost", "unresolved", "replayed"}
    ]_vars

\* Every request that is received is answered: lock waits end, and PostgreSQL
\* breaks the deadlocks that updating balance rows in request order can cause.
EveryRequestIsAnswered == \A r \in Requests : Open(r) ~> pc[r] = "done"

(***************************************************************************)
(* Why it is correct: what a request has locked stays as the request saw   *)
(* it until the request ends.                                              *)
(***************************************************************************)
TxOps     == {"create", "post", "reverse"}
SettleOps == {"capture", "release"}

LocksExclusive == \A r, s \in Requests : r # s => locks[r] \cap locks[s] = {}

\* The control state of one request
Shape(r) ==
    LET in == req[r] IN
    /\ Open(r) => in \in Inputs /\ Valid(in)
    /\ pc[r] # "done" => transactions[r] = None /\ holds[r] = None
    /\ pc[r] \notin {"insert", "apply", "commit"} => locks[r] = {}
    /\ pc[r] \notin {"apply", "commit"} => idx[r] = 0 /\ uncommitted[r] = NoVersions
    /\ pc[r] \in {"lookup", "check", "recheck"} => in \in Keyed
    /\ pc[r] = "lock" => in.op # "create"
    /\ pc[r] = "insert" => in \in Keyed
    /\ pc[r] = "apply" => in.op # "hold"
    /\ pc[r] \in {"insert", "apply", "commit"} /\ in.op = "create" => AccountsOf(in) \subseteq Accounts
    /\ pc[r] \in {"lock", "insert", "commit"} /\ in.op = "hold" => in.account \in Accounts

\* What it has read under its locks and decided on is still so.
Protects(r) ==
    LET in == req[r]
        k  == EffectiveKey(in)
    IN
    /\ pc[r] \in {"apply", "commit"} /\ in.op = "post" =>
          /\ TxRow(in.target) \in locks[r]
          /\ transactions[in.target] # None
          /\ transactions[in.target].status = "draft"
    /\ pc[r] \in {"insert", "apply", "commit"} /\ in.op = "reverse" =>
          /\ TxRow(in.target) \in locks[r]
          /\ transactions[in.target] # None
          /\ transactions[in.target].status = "posted"
    /\ pc[r] \in {"apply", "commit"} /\ in.op \in {"create", "reverse"} =>
          /\ TxKey(k) \in locks[r]
          /\ TransactionsWithKey(k) = {}
    /\ pc[r] \in {"insert", "commit"} /\ in.op = "hold" =>
          /\ BalanceRow(RowOf(in)) \in locks[r]
          /\ account_balances[RowOf(in)] # None
          /\ Available(account_balances[RowOf(in)], NormalBalance[in.account]) >= in.units
    /\ pc[r] = "commit" /\ in.op = "hold" =>
          /\ HoldKey(k) \in locks[r]
          /\ HoldsWithKey(k) = {}
    /\ pc[r] \in {"apply", "commit"} /\ in.op \in SettleOps =>
          /\ HoldRow(in.target) \in locks[r]
          /\ holds[in.target] # None
          /\ holds[in.target].status = "active"

\* The row versions it wrote are the committed ones with its own change.
Versions(r) ==
    LET in == req[r] IN
    /\ pc[r] \in {"apply", "commit"} /\ in.op \in TxOps =>
          /\ \A x \in Rows : BalanceRow(x) \in locks[r] =>
                /\ uncommitted[r][x] # None
                /\ uncommitted[r][x].held = OrZero(account_balances[x]).held
          /\ \A i \in 1..Len(PostingsOf(r)) :
                i <= idx[r] => BalanceRow(RowOf(PostingsOf(r)[i])) \in locks[r]
          /\ pc[r] = "apply" => idx[r] < Len(PostingsOf(r))
          /\ pc[r] = "commit" => idx[r] = Len(PostingsOf(r))
    /\ pc[r] = "commit" /\ in.op = "hold" =>
          \A x \in Rows : BalanceRow(x) \in locks[r] =>
              /\ x = RowOf(in)
              /\ uncommitted[r][x] = [account_balances[x] EXCEPT !.held = @ + in.units]
    /\ pc[r] = "insert" /\ in.op = "hold" =>
          \A x \in Rows : BalanceRow(x) \in locks[r] => x = RowOf(in)
    /\ pc[r] = "insert" /\ in.op # "hold" => \A x \in Rows : BalanceRow(x) \notin locks[r]
    /\ pc[r] = "apply" /\ in.op \in SettleOps => \A x \in Rows : BalanceRow(x) \notin locks[r]
    /\ pc[r] = "commit" /\ in.op \in SettleOps =>
          \A x \in Rows : BalanceRow(x) \in locks[r] =>
              /\ x = RowOf(holds[in.target])
              /\ uncommitted[r][x] =
                    [account_balances[x] EXCEPT !.held = @ - holds[in.target].amount]

\* A request's decision is never stale: no two requests hold the same lock, and
\* what a request found under its locks (a transaction still draft or posted, a
\* key still free, a hold still active, enough still available, the balance rows
\* it copied) is unchanged when it commits (the FOR UPDATE and unique-index
\* protocol of store.go).
LocksProtect ==
    /\ LocksExclusive
    /\ \A r \in Requests : Shape(r) /\ Protects(r) /\ Versions(r)

\* Rows refer to rows: a posting and a hold have their balance row, and a
\* transaction has postings.
RowsExist ==
    /\ \A t \in TxIds :
          /\ Len(transactions[t].postings) >= 2
          /\ \A i \in 1..Len(transactions[t].postings) :
                /\ transactions[t].postings[i].account \in Accounts
                /\ account_balances[RowOf(transactions[t].postings[i])] # None
    /\ \A h \in HoldIds :
          /\ holds[h].amount > 0
          /\ account_balances[RowOf(holds[h])] # None

\* The inductive invariant of the store: concurrent requests keep the tables well
\* formed, decide on rows that their locks keep as they read them, give a key one
\* effect and pair every reversed transaction with its one reversal (the locking
\* protocol of CreateTransaction, PostTransaction, ReverseTransaction, CreateHold,
\* CaptureHold and ReleaseHold in store.go).
LedgerInvariant == TypeOK /\ LocksProtect /\ RowsExist /\ OneEffectPerKey /\ ReversalsPair

\* b with the debits and credits of a request's postings added where its
\* operation adds them
Applied(r, b, debits, credits) ==
    CASE req[r].op = "post" -> AddTo(b, <<debits, credits>>, <<-debits, -credits>>)
      [] req[r].op = "create" /\ req[r].status = "draft" -> AddTo(b, <<0, 0>>, <<debits, credits>>)
      [] OTHER -> AddTo(b, <<debits, credits>>, <<0, 0>>)

\* Half-way through its postings, the row versions a request wrote are the
\* committed ones with the postings it has reached added.
VersionsAddUp ==
    \A r \in Requests :
        /\ pc[r] \in {"apply", "commit"} /\ req[r].op \in TxOps =>
              \A x \in Rows : BalanceRow(x) \in locks[r] =>
                  uncommitted[r][x] = Applied(r, OrZero(account_balances[x]),
                                              SumUpTo(PostingsOf(r), idx[r], x, "DEBIT"),
                                              SumUpTo(PostingsOf(r), idx[r], x, "CREDIT"))
        /\ pc[r] = "commit" /\ req[r].op \in SettleOps =>
              BalanceRow(RowOf(holds[req[r].target])) \in locks[r]

BalancedPostings(ps) ==
    /\ Len(ps) >= 2
    /\ \A c \in Assets : SumUnits(ps, "DEBIT", c) = SumUnits(ps, "CREDIT", c)

\* Only drafts are posted later, and no reversal is ever a draft.
DraftsReverseNothing ==
    \A t \in TxIds : transactions[t].status = "draft" => transactions[t].reverses_id = None

\* A committed row remembers its request: its key and, through the stored answer
\* or the hold's own hash, its payload.  Only a request that has ended has an answer.
RowsRemember ==
    /\ \A t \in TxIds :
          /\ req[t] \in Keyed
          /\ req[t].op # "hold"
          /\ transactions[t].key = EffectiveKey(req[t])
    /\ \A h \in HoldIds :
          /\ req[h] \in Keyed
          /\ req[h].op = "hold"
          /\ holds[h].key = EffectiveKey(req[h])
          /\ holds[h].hash = Fingerprint(req[h])
    /\ \A k \in KeySpace : idempotency_keys[k] # None =>
          idempotency_keys[k].hash = Fingerprint(req[idempotency_keys[k].id])
    /\ \A r \in Requests : resp[r] # None => pc[r] = "done"

\* An idle process has no request yet, a create has locked nothing when it inserts,
\* and a capture that was let through takes no more than its hold has.
ChecksStand ==
    \A r \in Requests :
        /\ pc[r] = "idle" => req[r] = None
        /\ pc[r] = "insert" /\ req[r].op = "create" => locks[r] = {}
        /\ pc[r] \in {"apply", "commit"} /\ req[r].op = "capture" /\ req[r].asset # None =>
              req[r].units <= holds[req[r].target].amount

\* The status a transaction is created with, and its answer says
FirstStatus(in) == IF in.op = "create" THEN in.status ELSE "posted"

\* Every transaction has left its answer under its key, with the status it was
\* created with; so a request that lost the race for its key finds one.
KeysAnswer ==
    /\ \A t \in TxIds : idempotency_keys[transactions[t].key] # None
    /\ \A k \in KeySpace : idempotency_keys[k] # None =>
          idempotency_keys[k].status = FirstStatus(req[idempotency_keys[k].id])
    /\ \A r \in Requests : pc[r] = "recheck" => Stored(req[r]) # None

\* What was refused to others was checked of a request that is let through, and
\* of one that has made a transaction: its ledger and accounts are there and go
\* together.  A capture that is let through still has nothing against it.
AdmissionsStand ==
    /\ \A r \in Requests :
          /\ pc[r] \in {"lock", "insert", "apply", "commit"} /\ req[r].op \in {"create", "hold"} =>
                ~Misnames(req[r])
          /\ pc[r] \in {"apply", "commit"} /\ req[r].op = "capture" =>
                CaptureError(req[r], holds[req[r].target]) = None
    /\ \A t \in TxIds : req[t].op = "create" => ~Misnames(req[t])

\* The columns of the balance rows hold what they are given: no total, written
\* or committed, exceeds a BIGINT, none that is committed is negative, and held
\* needs no check of its own, because a hold is let through only up to what is
\* available (upsertPostedBalance, upsertPendingBalance, CreateHold).
AmountsFit ==
    /\ \A x \in Rows : \A f \in DOMAIN ZeroBalance : OrZero(account_balances[x])[f] \in 0..MaxInt64
    /\ \A r \in Requests, x \in Rows :
          pc[r] \in {"apply", "commit"} /\ BalanceRow(x) \in locks[r] => ~OutOfRange(uncommitted[r][x])
    /\ \A t \in TxIds : \A i \in 1..Len(transactions[t].postings) : transactions[t].postings[i].units > 0

\* The inductive invariant of what the tables add up to: drafts balance as well
\* as firm transactions, and the sums follow the rows.
LedgerInductive ==
    /\ LedgerInvariant
    /\ IsFiniteSet(TxIds) /\ IsFiniteSet(HoldIds)
    /\ \A t \in TxIds : BalancedPostings(transactions[t].postings)
    /\ DraftsReverseNothing
    /\ VersionsAddUp
    /\ BalancesMatchPostings
    /\ HeldMatchesHolds
    /\ RowsRemember
    /\ ChecksStand
    /\ SuccessMeansSamePayload
    /\ OutboxTellsTheStory
    /\ KeysAnswer
    /\ AdmissionsStand
    /\ AmountsFit

(***************************************************************************)
(* What it amounts to for the clients.                                     *)
(***************************************************************************)
AmountOn(ps, x, d) == SumUpTo(ps, Len(ps), x, d)

Atomic == INSTANCE AtomicLedger WITH Amount <- AmountOn

\* Every request is served as if it ran alone, at one instant: what interleaved,
\* waited, lost a race or rolled back is invisible in the rows, in the events and
\* in the answers, and the balances that store.go maintains are never relied on
\* when they differ from the sums (CreateTransaction, PostTransaction,
\* ReverseTransaction, CreateHold, CaptureHold, ReleaseHold).
ImplementsAtomicLedger == Atomic!Spec
=============================================================================
