------------------------------- MODULE MCLedger -------------------------------
(***************************************************************************)
(* Instances of LedgerStore.  Accounts cash (debit-normal) and equity      *)
(* (credit-normal) are in ledger main, foreign in ledger other; no account *)
(* has the id unknown, and no ledger the id nowhere.                       *)
(***************************************************************************)
EXTENDS LedgerStore, TLC

CONSTANTS cash, equity, foreign, unknown, k1, k2, main, other, nowhere, usd, eur, m1, m2

MCLedgerOf == (cash :> main) @@ (equity :> main) @@ (foreign :> other)
MCNormalBalance == (cash :> "DEBIT") @@ (equity :> "CREDIT") @@ (foreign :> "DEBIT")

P(acc, dir, cur, n) == [account |-> acc, direction |-> dir, asset |-> cur, units |-> n]

\* n usd from equity to cash: it makes n available on cash.
Transfer(n) == <<P(cash, "DEBIT", usd, n), P(equity, "CREDIT", usd, n)>>

\* The same transfer with its postings in the other order
Shuffled(n) == <<P(equity, "CREDIT", usd, n), P(cash, "DEBIT", usd, n)>>

\* Equal totals, but not per asset
Mixed == <<P(cash, "DEBIT", usd, 1), P(equity, "CREDIT", eur, 1)>>

\* One account twice
Twice == <<P(cash, "DEBIT", usd, 1), P(cash, "DEBIT", usd, 1), P(equity, "CREDIT", usd, 2)>>

To(acc) == <<P(acc, "DEBIT", usd, 1), P(equity, "CREDIT", usd, 1)>>

Create(k, st, ps, m) == [op |-> "create", key |-> k, ledger |-> main, status |-> st,
                         postings |-> ps, memo |-> m]

HoldOn(k, acc, led, n, m) == [op |-> "hold", key |-> k, account |-> acc, ledger |-> led,
                              asset |-> usd, units |-> n, memo |-> m]

Posts    == [op : {"post"}, target : Requests]
Releases == [op : {"release"}, target : Requests]

\* Create, post and reverse: retries, one key with two payloads, drafts, bodies
\* that are refused, reversals of reversals and under an explicit key.
TransactionInputs ==
    {Create(k1, "posted", Transfer(1), m1), Create(k1, "posted", Shuffled(1), m1),
     Create(k2, "draft", Twice, m1),
     Create(k2, "posted", Mixed, m1),
     Create(k2, "posted", To(foreign), m1), Create(k2, "posted", To(unknown), m1),
     [Create(k2, "posted", Transfer(1), m1) EXCEPT !.ledger = nowhere]}
    \cup Posts
    \cup [op : {"reverse"}, target : Requests, key : {None, k2}, memo : {m1}]

\* Fund cash with 2, reserve against it, and capture and release the holds at once.
HoldInputs ==
    {Create(k1, "posted", Transfer(2), m1),
     HoldOn(k1, cash, None, 1, m1), HoldOn(k2, cash, None, 2, m1)}
    \cup Releases
    \cup [op : {"capture"}, target : Requests, asset : {None}, units : {0}, transaction : {None}]

\* Every way a hold or a capture is refused, partial captures, captures that name
\* a transaction, and funds that are taken back while they are reserved
CaptureInputs ==
    {Create(k1, "posted", Transfer(2), m1),
     HoldOn(k1, cash, None, 2, m1), HoldOn(k1, cash, main, 1, m1),
     HoldOn(k2, cash, None, 0, m1), HoldOn(k2, foreign, main, 1, m1)}
    \cup Releases
    \cup {c \in [op : {"capture"}, target : Requests, asset : {None}, units : {0},
                transaction : Requests \cup {None}] : c.transaction # c.target}
    \cup [op : {"capture"}, target : Requests, asset : {usd}, units : {1, 3},
          transaction : {None}]
    \cup [op : {"capture"}, target : Requests, asset : {eur}, units : {1},
          transaction : {None}]

OperationInputs == TransactionInputs \cup CaptureInputs

\* Transactions over the same rows in opposite orders, and a reversal
CrossingInputs ==
    {Create(k1, "posted", Transfer(1), m1), Create(k2, "posted", Shuffled(1), m1)}
    \cup [op : {"reverse"}, target : Requests, key : {None}, memo : {m1}]

\* One transaction and retries of its reversal with the same key and reason
ReversalRetryInputs ==
    {Create(k1, "posted", Transfer(1), m1)}
    \cup [op : {"reverse"}, target : Requests, key : {None}, memo : {m1}]

Symmetry == Permutations(Requests)
=============================================================================
