---------------------------- MODULE AtomicLedger ----------------------------
(***************************************************************************)
(* What ledger-core promises its clients: a ledger that serves one request *)
(* at a time.  A request takes effect, or is refused for a reason that     *)
(* holds, at one instant between its arrival and its answer.  There are no *)
(* locks, no half-done work and no stored balances or answers: a balance   *)
(* is the sum of the postings, and a retry is answered from the row that   *)
(* its key has made.                                                       *)
(***************************************************************************)
EXTENDS Integers, Sequences, Functions

CONSTANTS
    Requests, Inputs, Rows, MaxInt64, None,
    NormalBalance,              \* the normal side of each account
    EffectiveKey(_),            \* the idempotency key of a body
    Fingerprint(_),             \* its payload
    Valid(_),                   \* what is checked of a body by itself
    NamesUnknown(_),            \* what is checked of its ledger and accounts
    CrossesLedgers(_),
    RowOf(_),                   \* the account and asset of a hold or of its body
    ReversePostings(_),
    Amount(_, _, _)             \* what postings add to a row, on one side

VARIABLES
    req,            \* the bodies of the requests that have arrived
    resp,           \* their answers
    transactions,
    holds,
    outbox

KeyedOps == {"create", "reverse", "hold"}

vars == <<req, resp, transactions, holds, outbox>>

TxIds   == {t \in Requests : transactions[t] # None}
HoldIds == {h \in Requests : holds[h] # None}

Drafts == {t \in TxIds : transactions[t].status = "draft"}
Firm   == TxIds \ Drafts

Total(T, x, d) == SumFunction([t \in T |-> Amount(transactions[t].postings, x, d)])

Held(x) ==
    SumFunction([h \in {h \in HoldIds : holds[h].status = "active" /\ RowOf(holds[h]) = x}
                    |-> holds[h].amount])

PostedNet(x) ==
    IF NormalBalance[x[1]] = "DEBIT" THEN Total(Firm, x, "DEBIT") - Total(Firm, x, "CREDIT")
                                     ELSE Total(Firm, x, "CREDIT") - Total(Firm, x, "DEBIT")

Available(x) == PostedNet(x) - Held(x)

\* No total is too large to be stored.
InRange ==
    \A x \in Rows, d \in {"DEBIT", "CREDIT"} :
        Total(Firm, x, d) <= MaxInt64 /\ Total(Drafts, x, d) <= MaxInt64

\* The row that was made under the key of a body
MadeUnderKeyOf(in) ==
    IF in.op = "hold" THEN {h \in HoldIds : holds[h].key = EffectiveKey(in)}
                      ELSE {t \in TxIds : transactions[t].key = EffectiveKey(in)}

(***************************************************************************)
(* A request arrives, and is answered.                                     *)
(***************************************************************************)
Asks(r, ops) == req[r] # None /\ req[r].op \in ops

Respond(r, code, id, status) ==
    /\ req[r] # None /\ resp[r] = None
    /\ resp' = [resp EXCEPT ![r] = [code |-> code, id |-> id, status |-> status]]
    /\ UNCHANGED req

Emit(topic, id, captured, released) ==
    outbox' = Append(outbox, [topic |-> topic, id |-> id,
                              captured |-> captured, released |-> released])

Receive(r) ==
    LET in == req'[r] IN
    /\ req[r] = None
    /\ in \in Inputs
    /\ req' = [req EXCEPT ![r] = in]
    /\ \/ Valid(in) /\ UNCHANGED resp
       \/ ~Valid(in) /\ resp' = [resp EXCEPT ![r] =
                            [code |-> "validation", id |-> None, status |-> None]]
    /\ UNCHANGED <<transactions, holds, outbox>>

(***************************************************************************)
(* The operations.                                                         *)
(***************************************************************************)
Create(r) ==
    LET in == req[r] IN
    /\ Asks(r, {"create"})
    /\ Respond(r, "created", r, in.status)
    /\ ~NamesUnknown(in) /\ ~CrossesLedgers(in)
    /\ MadeUnderKeyOf(in) = {}
    /\ transactions' = [transactions EXCEPT ![r] =
          [key |-> in.key, status |-> in.status, postings |-> in.postings,
           reverses_id |-> None, reversed_by_id |-> None]]
    /\ InRange'
    /\ IF in.status = "posted" THEN Emit("ledger.transaction.posted", r, 0, 0) ELSE UNCHANGED outbox
    /\ UNCHANGED holds

Post(r) ==
    LET t == req[r].target IN
    /\ Asks(r, {"post"})
    /\ Respond(r, "ok", t, "posted")
    /\ t \in Drafts
    /\ transactions' = [transactions EXCEPT ![t].status = "posted"]
    /\ InRange'
    /\ Emit("ledger.transaction.posted", t, 0, 0)
    /\ UNCHANGED holds

PostAgain(r) ==
    LET t == req[r].target IN
    /\ Asks(r, {"post"})
    /\ Respond(r, "ok", t, "posted")
    /\ t \in TxIds /\ transactions[t].status = "posted"
    /\ UNCHANGED <<transactions, holds, outbox>>

Reverse(r) ==
    LET t == req[r].target IN
    /\ Asks(r, {"reverse"})
    /\ Respond(r, "created", r, "posted")
    /\ MadeUnderKeyOf(req[r]) = {}
    /\ t \in TxIds /\ transactions[t].status = "posted"
    /\ transactions' = [transactions EXCEPT
          ![r] = [key |-> EffectiveKey(req[r]), status |-> "posted",
                  postings |-> ReversePostings(transactions[t].postings),
                  reverses_id |-> t, reversed_by_id |-> None],
          ![t].status = "reversed", ![t].reversed_by_id = r]
    /\ InRange'
    /\ Emit("ledger.transaction.reversed", t, 0, 0)
    /\ UNCHANGED holds

Hold(r) ==
    LET in == req[r] IN
    /\ Asks(r, {"hold"})
    /\ Respond(r, "created", r, "active")
    /\ ~NamesUnknown(in) /\ ~CrossesLedgers(in)
    /\ MadeUnderKeyOf(in) = {}
    /\ Available(RowOf(in)) >= in.units
    /\ holds' = [holds EXCEPT ![r] =
          [key |-> in.key, account |-> in.account, asset |-> in.asset, amount |-> in.units,
           status |-> "active", captured_transaction_id |-> None, hash |-> Fingerprint(in)]]
    /\ Emit("ledger.hold.created", r, 0, 0)
    /\ UNCHANGED transactions

\* What a capture asks of its hold
Fits(in, h) == in.asset # None => in.asset = h.asset /\ in.units <= h.amount

Capture(r) ==
    LET in == req[r]
        h  == in.target
        captured == IF in.asset = None THEN holds[h].amount ELSE in.units
    IN
    /\ Asks(r, {"capture"})
    /\ Respond(r, "ok", h, "captured")
    /\ h \in HoldIds /\ holds[h].status = "active"
    /\ Fits(in, holds[h])
    /\ in.transaction \in TxIds \cup {None}
    /\ holds' = [holds EXCEPT ![h].status = "captured",
                              ![h].captured_transaction_id = in.transaction]
    /\ Emit("ledger.hold.captured", h, captured, holds[h].amount - captured)
    /\ UNCHANGED transactions

Release(r) ==
    LET h == req[r].target IN
    /\ Asks(r, {"release"})
    /\ Respond(r, "ok", h, "released")
    /\ h \in HoldIds /\ holds[h].status = "active"
    /\ holds' = [holds EXCEPT ![h].status = "released"]
    /\ Emit("ledger.hold.released", h, 0, holds[h].amount)
    /\ UNCHANGED transactions

\* A retry: the answer that the row was created with, or the hold as it is now
Replay(r) ==
    /\ Asks(r, KeyedOps)
    /\ \E w \in MadeUnderKeyOf(req[r]) :
          /\ Respond(r, "replayed", w, CASE req[w].op = "create"  -> req[w].status
                                         [] req[w].op = "reverse" -> "posted"
                                         [] req[w].op = "hold"    -> holds[w].status)
          /\ Fingerprint(req[w]) = Fingerprint(req[r])
    /\ UNCHANGED <<transactions, holds, outbox>>

\* Why a request may be refused.  Only a fault needs no reason.
Refusable(in, code) ==
    \/ code \in {"error", "lost"}
    \/ /\ code = "not_found"
       /\ \/ in.op \in {"create", "hold"} /\ NamesUnknown(in)
          \/ in.op \in {"post", "reverse"} /\ in.target \notin TxIds
          \/ in.op \in {"capture", "release"} /\ in.target \notin HoldIds
          \/ in.op = "capture" /\ in.transaction \notin TxIds \cup {None}
    \/ /\ code = "validation"
       /\ \/ in.op \in {"create", "hold"} /\ ~NamesUnknown(in) /\ CrossesLedgers(in)
          \/ in.op = "capture" /\ in.target \in HoldIds /\ ~Fits(in, holds[in.target])
    \/ /\ code = "conflict"
       /\ \/ in.op = "post" /\ in.target \in TxIds /\ transactions[in.target].status = "reversed"
          \/ in.op = "reverse" /\ in.target \in TxIds /\ transactions[in.target].status # "posted"
          \/ /\ in.op \in {"capture", "release"}
             /\ in.target \in HoldIds /\ holds[in.target].status # "active"
    \/ /\ code = "insufficient_funds"
       /\ in.op = "hold" /\ ~NamesUnknown(in) /\ Available(RowOf(in)) < in.units
    \/ /\ code = "idempotency_conflict"
       /\ in.op \in KeyedOps
       /\ \E w \in MadeUnderKeyOf(in) : Fingerprint(req[w]) # Fingerprint(in)
    \/ /\ code = "unresolved"
       /\ in.op \in KeyedOps
       /\ MadeUnderKeyOf(in) # {}

Codes == {"not_found", "validation", "conflict", "insufficient_funds", "idempotency_conflict",
          "unresolved", "error", "lost"}

Refuse(r, code) ==
    /\ Respond(r, code, None, None)
    /\ Refusable(req[r], code)
    /\ UNCHANGED <<transactions, holds, outbox>>

Init ==
    /\ req = [r \in Requests |-> None]
    /\ resp = [r \in Requests |-> None]
    /\ transactions = [t \in Requests |-> None]
    /\ holds = [h \in Requests |-> None]
    /\ outbox = <<>>

Next ==
    \E r \in Requests :
        \/ Receive(r)
        \/ Create(r) \/ Post(r) \/ PostAgain(r) \/ Reverse(r)
        \/ Hold(r) \/ Capture(r) \/ Release(r)
        \/ Replay(r)
        \/ \E code \in Codes : Refuse(r, code)

Spec == Init /\ [][Next]_vars
=============================================================================
