-------------------------- MODULE LedgerStoreProofs --------------------------
(***************************************************************************)
(* Proofs about LedgerStore, for every set of requests, accounts, assets,  *)
(* keys and inputs.                                                        *)
(***************************************************************************)
EXTENDS LedgerStore, TLAPS

Local(r) == Shape(r) /\ Protects(r) /\ Versions(r)

---------------------------------------------------------------------------
(* Facts about the data.                                                   *)

\* The op of a request body determines its other fields.
LEMMA InputFields ==
    ASSUME NEW in \in Inputs
    PROVE  /\ in.op = "create"  => in \in CreateInput
           /\ in.op = "post"    => in \in PostInput
           /\ in.op = "reverse" => in \in ReverseInput
           /\ in.op = "hold"    => in \in HoldInput
           /\ in.op = "capture" => in \in CaptureInput
           /\ in.op = "release" => in \in ReleaseInput
           /\ in.op \in TxOps \cup SettleOps \cup {"hold"}
  BY ConstantsAssumption
  DEF InputType, CreateInput, PostInput, ReverseInput, HoldInput, CaptureInput, ReleaseInput,
      TxOps, SettleOps

\* The key of a keyed request is in the key space.
LEMMA KeyType ==
    ASSUME NEW in \in Keyed
    PROVE  EffectiveKey(in) \in KeySpace /\ Fingerprint(in) \in Hashes
  <1>1. Fingerprint(in) \in Hashes
    BY DEF Hashes
  <1>2. in \in Inputs /\ in.op \in {"create", "reverse", "hold"}
    BY DEF Keyed
  <1>3. EffectiveKey(in) \in KeySpace
    BY <1>2, InputFields DEF EffectiveKey, CreateInput, ReverseInput, HoldInput, KeySpace, ReversalKey
  <1> QED
    BY <1>1, <1>3

\* Inverting the directions of a list of postings keeps everything else.
LEMMA ReversePostingsType ==
    ASSUME NEW ps \in Seq(Posting)
    PROVE  /\ ReversePostings(ps) \in Seq(Posting)
           /\ Len(ReversePostings(ps)) = Len(ps)
           /\ \A i \in 1..Len(ps) : /\ ReversePostings(ps)[i].account = ps[i].account
                                    /\ ReversePostings(ps)[i].asset = ps[i].asset
                                    /\ ReversePostings(ps)[i].units = ps[i].units
  <1>1. \A i \in 1..Len(ps) : ps[i] \in Posting
    OBVIOUS
  <1>2. \A i \in 1..Len(ps) : [ps[i] EXCEPT !.direction = Opposite(ps[i].direction)] \in Posting
    BY <1>1 DEF Posting, Opposite, Directions
  <1>3. ReversePostings(ps) \in Seq(Posting)
    BY <1>2 DEF ReversePostings
  <1>4. \A i \in 1..Len(ps) : /\ ReversePostings(ps)[i].account = ps[i].account
                              /\ ReversePostings(ps)[i].asset = ps[i].asset
                              /\ ReversePostings(ps)[i].units = ps[i].units
    BY <1>1 DEF ReversePostings, Posting
  <1>5. Len(ReversePostings(ps)) = Len(ps)
    BY DEF ReversePostings
  <1> QED
    BY <1>3, <1>4, <1>5

\* The three balance statements produce balance rows and leave held alone.
LEMMA VersionType ==
    ASSUME NEW b \in Balance \cup {None}, NEW p \in Posting
    PROVE  /\ upsertPostedBalance(b, p) \in Balance
           /\ upsertPostedBalance(b, p).held = OrZero(b).held
           /\ upsertPendingBalance(b, p) \in Balance
           /\ upsertPendingBalance(b, p).held = OrZero(b).held
           /\ b # None => /\ movePendingToPosted(b, p) \in Balance
                          /\ movePendingToPosted(b, p).held = b.held
  <1>1. OrZero(b) \in Balance
    BY DEF OrZero, Balance, ZeroBalance
  <1>2. debitCredit(p)[1] \in Int /\ debitCredit(p)[2] \in Int
    BY DEF debitCredit, Posting
  <1>3. upsertPostedBalance(b, p) \in Balance /\ upsertPostedBalance(b, p).held = OrZero(b).held
    BY <1>1, <1>2 DEF upsertPostedBalance, AddTo, Balance
  <1>4. upsertPendingBalance(b, p) \in Balance /\ upsertPendingBalance(b, p).held = OrZero(b).held
    BY <1>1, <1>2 DEF upsertPendingBalance, AddTo, Balance
  <1>5. ASSUME b # None
        PROVE  movePendingToPosted(b, p) \in Balance /\ movePendingToPosted(b, p).held = b.held
    BY <1>2, <1>5 DEF movePendingToPosted, AddTo, Balance
  <1> QED
    BY <1>3, <1>4, <1>5

---------------------------------------------------------------------------
(* A request keeps what it knows while others run.                         *)

\* A step leaves the control state of s alone.
SameControl(s) ==
    /\ pc'[s] = pc[s]
    /\ req'[s] = req[s]
    /\ idx'[s] = idx[s]
    /\ locks'[s] = locks[s]
    /\ uncommitted'[s] = uncommitted[s]

\* A step leaves what s has locked alone, and creates no row in its name.
SameLocked(s) ==
    /\ pc[s] # "done" => transactions'[s] = transactions[s] /\ holds'[s] = holds[s]
    /\ \A t \in Requests : TxRow(t) \in locks[s] /\ transactions[t] # None =>
          transactions'[t] = transactions[t]
    /\ \A h \in Requests : HoldRow(h) \in locks[s] /\ holds[h] # None => holds'[h] = holds[h]
    /\ \A x \in Rows : BalanceRow(x) \in locks[s] => account_balances'[x] = account_balances[x]
    /\ \A k \in KeySpace : TxKey(k) \in locks[s] /\ TransactionsWithKey(k) = {} =>
          TransactionsWithKey(k)' = {}
    /\ \A k \in KeySpace : HoldKey(k) \in locks[s] /\ HoldsWithKey(k) = {} => HoldsWithKey(k)' = {}

\* Then all that s has decided under its locks still holds.
LEMMA Frame ==
    ASSUME TypeOK, NEW s \in Requests, Local(s), SameControl(s), SameLocked(s)
    PROVE  Local(s)'
  <1> DEFINE in == req[s]
  <1>a. /\ Shape(s) /\ Protects(s) /\ Versions(s)
        /\ in' = in
    BY DEF Local, SameControl
  <1>b. Open(s) => in \in Inputs
    BY <1>a DEF Shape
  <1>c. pc[s] \in {"insert", "apply", "commit", "lock"} => Open(s)
    BY DEF Open
  <1>1. Shape(s)'
    BY <1>a DEF Shape, SameControl, SameLocked, Open
  <1>2. Protects(s)'
    <2>1. (EffectiveKey(in))' = EffectiveKey(in)
      BY <1>a DEF EffectiveKey
    <2>2. Open(s) /\ in.op \in {"post", "reverse", "capture", "release"} => in.target \in Requests
      BY <1>b, InputFields DEF PostInput, ReverseInput, CaptureInput, ReleaseInput
    <2>3. Open(s) /\ in.op \in {"create", "reverse", "hold"} => EffectiveKey(in) \in KeySpace
      BY <1>b, KeyType DEF Keyed
    <2>4. pc[s] \in {"insert", "commit"} /\ in.op = "hold" => RowOf(in) \in Rows
      BY <1>a, <1>b, <1>c, InputFields DEF Shape, RowOf, Rows, HoldInput
    <2>5. (RowOf(in))' = RowOf(in)
      BY <1>a DEF RowOf
    <2> HIDE DEF in
    <2> QED
      BY <1>a, <1>c, <2>1, <2>2, <2>3, <2>4, <2>5 DEF Protects, SameControl, SameLocked, in, SettleOps
  <1>3. Versions(s)'
    <2>1. pc[s] \in {"apply", "commit"} /\ in.op \in TxOps => PostingsOf(s)' = PostingsOf(s)
      <3>1. Open(s) /\ in.op \in {"post", "reverse"} => in.target \in Requests
        BY <1>b, InputFields DEF PostInput, ReverseInput
      <3> QED
        BY <1>a, <1>c, <3>1 DEF Protects, SameControl, SameLocked, PostingsOf, TxOps
    <2>2. pc[s] \in {"apply", "commit"} /\ in.op \in SettleOps =>
             holds'[in.target] = holds[in.target]
      <3>1. Open(s) /\ in.op \in SettleOps => in.target \in Requests
        BY <1>b, InputFields DEF CaptureInput, ReleaseInput, SettleOps
      <3> QED
        BY <1>a, <1>c, <3>1 DEF Protects, SameControl, SameLocked
    <2>3. \A x \in Rows : BalanceRow(x)' = BalanceRow(x)
      BY DEF BalanceRow
    <2> HIDE DEF in
    <2> QED
      BY <1>a, <2>1, <2>2, <2>3 DEF Versions, SameControl, SameLocked, in, RowOf, OrZero
  <1> QED
    BY <1>1, <1>2, <1>3 DEF Local

\* A step of r that writes no table keeps the invariant if it keeps the types,
\* the exclusiveness of locks and what r itself knows.
LEMMA PrivateStep ==
    ASSUME LedgerInvariant, NEW r \in Requests,
           \A s \in Requests \ {r} : SameControl(s),
           UNCHANGED tables, TypeOK', LocksExclusive', Local(r)'
    PROVE  LedgerInvariant'
  <1>1. ASSUME NEW s \in Requests \ {r}
        PROVE  Local(s)'
    <2>1. SameLocked(s)
      BY DEF SameLocked, tables, TransactionsWithKey, HoldsWithKey
    <2> QED
      BY <2>1, Frame DEF LedgerInvariant, LocksProtect, Local
  <1>2. \A s \in Requests : Local(s)'
    BY <1>1
  <1>3. LocksProtect'
    BY <1>2 DEF LocksProtect, Local
  <1>4. RowsExist' /\ OneEffectPerKey' /\ ReversalsPair'
    BY DEF LedgerInvariant, tables, RowsExist, OneEffectPerKey, ReversalsPair, TxIds, HoldIds
  <1> QED
    BY <1>3, <1>4 DEF LedgerInvariant

\* A request that ends without writing keeps the invariant: every refusal,
\* replay, crash and deadlock.
LEMMA EndKeeps ==
    ASSUME LedgerInvariant, NEW r \in Requests,
           NEW code \in Codes, NEW id \in Requests \cup {None},
           NEW status \in {"draft", "posted", "active", "captured", "released", None},
           Answer(r, code, id, status), UNCHANGED tables
    PROVE  LedgerInvariant'
  <1>1. \A s \in Requests \ {r} : SameControl(s)
    BY DEF LedgerInvariant, TypeOK, Answer, SameControl
  <1>2. TypeOK'
    BY DEF LedgerInvariant, TypeOK, Answer, tables, Steps, NoVersions
  <1>3. LocksExclusive'
    BY DEF LedgerInvariant, LocksProtect, LocksExclusive, TypeOK, Answer
  <1>4. /\ pc'[r] = "done" /\ locks'[r] = {} /\ idx'[r] = 0
        /\ uncommitted'[r] = NoVersions
    BY DEF LedgerInvariant, TypeOK, Answer
  <1>5. Local(r)'
    BY <1>4 DEF Local, Shape, Protects, Versions, Open, NoVersions
  <1> QED
    BY <1>1, <1>2, <1>3, <1>5, PrivateStep

\* A rollback with an error keeps the invariant (withTx's deferred Rollback).
LEMMA FailKeeps ==
    ASSUME LedgerInvariant, NEW r \in Requests, NEW code \in Codes, Fail(r, code)
    PROVE  LedgerInvariant'
  BY EndKeeps DEF Fail

\* A request that only moves on and takes free locks keeps the invariant if
\* it keeps what it knows.
LEMMA AdvanceKeeps ==
    ASSUME LedgerInvariant, NEW r \in Requests, NEW step \in Steps, NEW taken \in SUBSET Resources,
           \A x \in taken : Free(r, x),
           Advance(r, step, taken), UNCHANGED <<req, resp, idx, uncommitted>>,
           Local(r)'
    PROVE  LedgerInvariant'
  <1>1. \A s \in Requests \ {r} : SameControl(s)
    BY DEF LedgerInvariant, TypeOK, Advance, SameControl
  <1>2. TypeOK'
    BY DEF LedgerInvariant, TypeOK, Advance, tables
  <1>3. LocksExclusive'
    BY DEF LedgerInvariant, LocksProtect, LocksExclusive, TypeOK, Advance, Free
  <1> QED
    BY <1>1, <1>2, <1>3, PrivateStep DEF Advance

---------------------------------------------------------------------------
(* One lemma per action: it keeps the invariant.                           *)

\* A stored answer is a request's row and its status.
LEMMA ReplayType ==
    ASSUME TypeOK, NEW in \in Keyed
    PROVE  /\ Replay(in)[1] \in Codes
           /\ Replay(in)[2] \in Requests \cup {None}
           /\ Replay(in)[3] \in {"draft", "posted", "active", "captured", "released", None}
  <1> DEFINE k == EffectiveKey(in)
             h == CHOOSE h \in HoldsWithKey(k) : TRUE
             s == Stored(in)
  <1>1. k \in KeySpace
    BY KeyType
  <1>2. HoldsWithKey(k) # {} => h \in Requests /\ holds[h] \in Hold
    BY DEF HoldsWithKey, TypeOK
  <1>3. HoldsWithKey(k) # {} => holds[h].status \in {"active", "captured", "released"}
    BY <1>2 DEF Hold
  <1>4. idempotency_keys[k] # None =>
           /\ idempotency_keys[k].id \in Requests
           /\ idempotency_keys[k].status \in {"draft", "posted"}
    BY <1>1 DEF TypeOK, StoredAnswer
  <1>5. s # None => /\ s.id \in Requests
                    /\ s.status \in {"draft", "posted", "active", "captured", "released"}
    <2>1. CASE in.op # "hold"
      BY <1>4, <2>1 DEF Stored
    <2>2. CASE in.op = "hold" /\ HoldsWithKey(k) = {}
      BY <2>2 DEF Stored
    <2>3. CASE in.op = "hold" /\ HoldsWithKey(k) # {}
      <3>1. s = [hash |-> holds[h].hash, id |-> h, status |-> holds[h].status]
        BY <2>3 DEF Stored
      <3> QED
        BY <3>1, <1>2, <1>3, <2>3
    <2> QED
      BY <2>1, <2>2, <2>3
  <1> HIDE DEF s
  <1>6. Replay(in) = IF s = None THEN <<"conflict", None, None>>
                     ELSE IF s.hash = Fingerprint(in) THEN <<"replayed", s.id, s.status>>
                     ELSE <<"idempotency_conflict", None, None>>
    BY DEF Replay, s
  <1> QED
    BY <1>5, <1>6 DEF Codes

\* Serving a stored answer keeps the invariant: it reads and ends.
LEMMA LookupHitKeeps ==
    ASSUME LedgerInvariant, NEW r \in Requests, LookupHit(r) \/ Recheck(r)
    PROVE  LedgerInvariant'
  <1> DEFINE ans == Replay(req[r])
  <1>1. req[r] \in Keyed
    BY DEF LedgerInvariant, LocksProtect, Shape, LookupHit, Recheck
  <1>2. /\ ans[1] \in Codes
        /\ ans[2] \in Requests \cup {None}
        /\ ans[3] \in {"draft", "posted", "active", "captured", "released", None}
    BY <1>1, ReplayType DEF LedgerInvariant
  <1>3. Answer(r, ans[1], ans[2], ans[3]) /\ UNCHANGED tables
    BY DEF LookupHit, Recheck
  <1> QED
    BY <1>2, <1>3, EndKeeps

\* Accepting or refusing a request body touches no table and no lock.
LEMMA ReceiveKeeps ==
    ASSUME LedgerInvariant, NEW r \in Requests, NEW in \in Inputs, Receive(r, in) \/ Reject(r, in)
    PROVE  LedgerInvariant'
  <1>1. \A s \in Requests \ {r} : SameControl(s)
    BY DEF LedgerInvariant, TypeOK, Receive, Reject, SameControl
  <1>2. UNCHANGED tables /\ UNCHANGED <<locks, idx, uncommitted>> /\ pc[r] = "idle"
    BY DEF Receive, Reject
  <1>3. TypeOK'
    <2>1. CASE Receive(r, in)
      BY <2>1 DEF LedgerInvariant, TypeOK, Receive, tables, Steps
    <2>2. CASE Reject(r, in)
      BY <2>2 DEF LedgerInvariant, TypeOK, Reject, tables, Steps, Codes
    <2> QED
      BY <2>1, <2>2
  <1>4. LocksExclusive'
    BY <1>2 DEF LedgerInvariant, LocksProtect, LocksExclusive
  <1>5. Shape(r) /\ req'[r] = in
    BY DEF LedgerInvariant, LocksProtect, TypeOK, Receive, Reject
  <1>6. \/ pc'[r] = "done"
        \/ pc'[r] = "lookup" /\ Valid(in) /\ in \in Keyed
        \/ pc'[r] = "lock" /\ Valid(in) /\ in \notin Keyed
    BY DEF LedgerInvariant, TypeOK, Receive, Reject
  <1>7. Shape(r)'
    BY <1>2, <1>5, <1>6 DEF Shape, Open, tables, Keyed
  <1>8. Protects(r)' /\ Versions(r)'
    BY <1>6 DEF Protects, Versions
  <1> QED
    BY <1>1, <1>2, <1>3, <1>4, <1>7, <1>8, PrivateStep DEF Local

\* A request that dies or fails leaves nothing behind.
LEMMA FaultKeeps ==
    ASSUME LedgerInvariant, NEW r \in Requests, Fault(r) \/ DeadlockVictim(r) \/ TargetMissing(r)
    PROVE  LedgerInvariant'
  <1>1. \E code \in Codes : Fail(r, code)
    BY DEF Fault, Crash, RecheckFails, DeadlockVictim, TargetMissing, Codes
  <1> QED
    BY <1>1, FailKeeps

\* What an open request that holds no lock yet has
LEMMA NoLocksYet ==
    ASSUME LedgerInvariant, NEW r \in Requests, pc[r] \in {"lookup", "check", "lock"}
    PROVE  /\ req[r] \in Inputs /\ Valid(req[r])
           /\ transactions[r] = None /\ holds[r] = None
           /\ locks[r] = {} /\ idx[r] = 0 /\ uncommitted[r] = NoVersions
  BY DEF LedgerInvariant, LocksProtect, Shape, Open

\* A key without a stored answer: the request goes on without locks.
LEMMA LookupMissKeeps ==
    ASSUME LedgerInvariant, NEW r \in Requests, LookupMiss(r)
    PROVE  LedgerInvariant'
  <1> DEFINE step == IF req[r].op = "reverse" THEN "lock" ELSE "check"
  <1>0. pc[r] = "lookup" /\ req[r] \in Keyed
    BY DEF LookupMiss, LedgerInvariant, LocksProtect, Shape
  <1>1. Advance(r, step, {}) /\ UNCHANGED <<req, resp, idx, uncommitted>>
    BY DEF LookupMiss
  <1>2. /\ pc'[r] = step /\ locks'[r] = {} /\ req' = req
        /\ idx'[r] = 0 /\ uncommitted'[r] = NoVersions
        /\ transactions'[r] = None /\ holds'[r] = None
    BY <1>0, <1>1, NoLocksYet DEF LedgerInvariant, TypeOK, Advance, tables
  <1>3. Shape(r)'
    BY <1>0, <1>2, NoLocksYet DEF Shape, Open, Keyed
  <1>4. Protects(r)' /\ Versions(r)'
    BY <1>0, <1>2 DEF Protects, Versions, Keyed
  <1>5. step \in Steps
    BY DEF Steps
  <1> QED
    BY <1>1, <1>3, <1>4, <1>5, AdvanceKeeps DEF Local

\* The referential checks: the request fails or goes on, still without locks.
LEMMA CheckReferencesKeeps ==
    ASSUME LedgerInvariant, NEW r \in Requests, CheckReferences(r)
    PROVE  LedgerInvariant'
  <1> DEFINE step == IF req[r].op = "create" THEN "insert" ELSE "lock"
  <1>0. pc[r] = "check" /\ req[r] \in Keyed
    BY DEF CheckReferences, LedgerInvariant, LocksProtect, Shape
  <1>1. CASE Fail(r, "not_found") \/ Fail(r, "validation")
    BY <1>1, FailKeeps DEF Codes
  <1>2. CASE /\ ~NamesUnknown(req[r])
             /\ Advance(r, step, {})
             /\ UNCHANGED <<req, resp, idx, uncommitted>>
    <2>1. /\ pc'[r] = step /\ locks'[r] = {} /\ req' = req
          /\ idx'[r] = 0 /\ uncommitted'[r] = NoVersions
          /\ transactions'[r] = None /\ holds'[r] = None
      BY <1>0, <1>2, NoLocksYet DEF LedgerInvariant, TypeOK, Advance, tables
    <2>2. AccountsOf(req[r]) \subseteq Accounts
      BY <1>2 DEF NamesUnknown
    <2>3. req[r].op = "hold" => req[r].account \in Accounts
      BY <2>2 DEF AccountsOf
    <2>4. Shape(r)'
      BY <1>0, <2>1, <2>2, <2>3, NoLocksYet DEF Shape, Open, Keyed
    <2>5. Protects(r)' /\ Versions(r)'
      BY <1>0, <2>1 DEF Protects, Versions, Keyed
    <2>6. step \in Steps
      BY DEF Steps
    <2> QED
      BY <1>2, <2>4, <2>5, <2>6, AdvanceKeeps DEF Local
  <1> QED
    BY <1>1, <1>2 DEF CheckReferences

\* Facts about an open request's target
LEMMA TargetType ==
    ASSUME NEW in \in Inputs, in.op \in {"post", "reverse", "capture", "release"}
    PROVE  in.target \in Requests /\ TxRow(in.target) \in Resources /\ HoldRow(in.target) \in Resources
  BY InputFields DEF PostInput, ReverseInput, CaptureInput, ReleaseInput, Resources

\* PostTransaction's FOR UPDATE establishes what it protects: a locked draft.
LEMMA PostLockKeeps ==
    ASSUME LedgerInvariant, NEW r \in Requests, PostLock(r)
    PROVE  LedgerInvariant'
  <1> DEFINE t == req[r].target
  <1>0. /\ pc[r] = "lock" /\ req[r].op = "post" /\ transactions[t] # None
        /\ Free(r, TxRow(t))
    BY DEF PostLock
  <1>t. t \in Requests /\ TxRow(t) \in Resources
    BY <1>0, NoLocksYet, TargetType
  <1>1. CASE Answer(r, "ok", t, "posted") /\ UNCHANGED tables
    BY <1>1, <1>t, EndKeeps DEF Codes
  <1>2. CASE Fail(r, "conflict")
    BY <1>2, FailKeeps DEF Codes
  <1>3. CASE /\ transactions[t].status = "draft"
             /\ Advance(r, "apply", {TxRow(t)})
             /\ UNCHANGED <<req, resp, idx, uncommitted>>
    <2>1. /\ pc'[r] = "apply" /\ locks'[r] = {TxRow(t)} /\ req' = req
          /\ idx'[r] = 0 /\ uncommitted'[r] = NoVersions
          /\ transactions' = transactions /\ holds' = holds
      BY <1>0, <1>3, NoLocksYet DEF LedgerInvariant, TypeOK, Advance, tables
    <2>2. Shape(r)'
      BY <1>0, <2>1, NoLocksYet DEF Shape, Open
    <2>3. Protects(r)'
      BY <1>0, <1>3, <2>1 DEF Protects, SettleOps
    <2>4. PostingsOf(r)' = transactions[t].postings
      BY <1>0, <2>1 DEF PostingsOf
    <2>5. /\ transactions[t].postings \in Seq(Posting)
          /\ Len(transactions[t].postings) >= 2
      BY <1>0, <1>t DEF LedgerInvariant, RowsExist, TxIds, TypeOK, Transaction
    <2>6. Versions(r)'
      BY <1>0, <2>1, <2>4, <2>5 DEF Versions, SettleOps, BalanceRow, TxRow
    <2> QED
      BY <1>0, <1>t, <1>3, <2>2, <2>3, <2>6, AdvanceKeeps DEF Local, Steps
  <1> QED
    BY <1>1, <1>2, <1>3 DEF PostLock

\* ReverseTransaction's FOR UPDATE establishes a locked posted transaction.
LEMMA ReverseLockKeeps ==
    ASSUME LedgerInvariant, NEW r \in Requests, ReverseLock(r)
    PROVE  LedgerInvariant'
  <1> DEFINE t == req[r].target
  <1>0. /\ pc[r] = "lock" /\ req[r].op = "reverse" /\ transactions[t] # None
        /\ Free(r, TxRow(t))
    BY DEF ReverseLock
  <1>t. t \in Requests /\ TxRow(t) \in Resources
    BY <1>0, NoLocksYet, TargetType
  <1>1. CASE Fail(r, "conflict")
    BY <1>1, FailKeeps DEF Codes
  <1>2. CASE /\ transactions[t].status = "posted"
             /\ Advance(r, "insert", {TxRow(t)})
             /\ UNCHANGED <<req, resp, idx, uncommitted>>
    <2>1. /\ pc'[r] = "insert" /\ locks'[r] = {TxRow(t)} /\ req' = req
          /\ idx'[r] = 0 /\ uncommitted'[r] = NoVersions
          /\ transactions' = transactions /\ holds' = holds
      BY <1>0, <1>2, NoLocksYet DEF LedgerInvariant, TypeOK, Advance, tables
    <2>2. Shape(r)'
      BY <1>0, <2>1, NoLocksYet DEF Shape, Open, Keyed
    <2>3. Protects(r)'
      BY <1>0, <1>2, <2>1 DEF Protects, SettleOps
    <2>4. Versions(r)'
      BY <1>0, <2>1 DEF Versions, SettleOps, BalanceRow, TxRow
    <2> QED
      BY <1>0, <1>t, <1>2, <2>2, <2>3, <2>4, AdvanceKeeps DEF Local, Steps
  <1> QED
    BY <1>1, <1>2 DEF ReverseLock

\* CreateHold's FOR UPDATE establishes a locked row with enough available.
LEMMA HoldLockKeeps ==
    ASSUME LedgerInvariant, NEW r \in Requests, HoldLock(r)
    PROVE  LedgerInvariant'
  <1> DEFINE in == req[r]
             x  == RowOf(in)
             b  == account_balances[x]
  <1>0. pc[r] = "lock" /\ in.op = "hold" /\ in \in Inputs
    BY NoLocksYet DEF HoldLock
  <1>x. x \in Rows /\ BalanceRow(x) \in Resources
    BY <1>0, InputFields DEF LedgerInvariant, LocksProtect, Shape, RowOf, Rows, HoldInput, Resources
  <1>1. CASE Fail(r, "insufficient_funds")
    BY <1>1, FailKeeps DEF Codes
  <1>2. CASE /\ b # None /\ Free(r, BalanceRow(x))
             /\ Available(b, NormalBalance[x[1]]) >= in.units
             /\ Advance(r, "insert", {BalanceRow(x)})
             /\ UNCHANGED <<req, resp, idx, uncommitted>>
    <2>1. /\ pc'[r] = "insert" /\ locks'[r] = {BalanceRow(x)} /\ req' = req
          /\ idx'[r] = 0 /\ uncommitted'[r] = NoVersions
          /\ transactions' = transactions /\ holds' = holds /\ account_balances' = account_balances
      BY <1>0, <1>2, NoLocksYet DEF LedgerInvariant, TypeOK, Advance, tables
    <2>2. in.account \in Accounts
      BY <1>0 DEF LedgerInvariant, LocksProtect, Shape
    <2>3. Shape(r)'
      BY <1>0, <2>1, <2>2, NoLocksYet DEF Shape, Open, Keyed
    <2>4. Available(b, NormalBalance[in.account]) >= in.units
      BY <1>2 DEF RowOf
    <2>5. Protects(r)'
      BY <1>0, <1>2, <2>1, <2>4 DEF Protects, SettleOps, RowOf
    <2>6. Versions(r)'
      BY <1>0, <2>1 DEF Versions, SettleOps, TxOps, BalanceRow
    <2> QED
      BY <1>x, <1>2, <2>3, <2>5, <2>6, AdvanceKeeps DEF Local, Steps
  <1> QED
    BY <1>1, <1>2 DEF HoldLock

\* The FOR UPDATE of CaptureHold and ReleaseHold establishes a locked active hold.
LEMMA SettleLockKeeps ==
    ASSUME LedgerInvariant, NEW r \in Requests, SettleLock(r)
    PROVE  LedgerInvariant'
  <1> DEFINE h == req[r].target
  <1>0. /\ pc[r] = "lock" /\ req[r].op \in SettleOps /\ holds[h] # None
        /\ Free(r, HoldRow(h))
    BY DEF SettleLock, SettleOps
  <1>t. h \in Requests /\ HoldRow(h) \in Resources
    BY <1>0, NoLocksYet, TargetType DEF SettleOps
  <1>2. CASE /\ holds[h].status = "active"
             /\ Advance(r, "apply", {HoldRow(h)})
             /\ UNCHANGED <<req, resp, idx, uncommitted>>
    <2>1. /\ pc'[r] = "apply" /\ locks'[r] = {HoldRow(h)} /\ req' = req
          /\ idx'[r] = 0 /\ uncommitted'[r] = NoVersions
          /\ transactions' = transactions /\ holds' = holds
      BY <1>0, <1>2, NoLocksYet DEF LedgerInvariant, TypeOK, Advance, tables
    <2>2. Shape(r)'
      BY <1>0, <2>1, NoLocksYet DEF Shape, Open, SettleOps
    <2>3. Protects(r)'
      BY <1>0, <1>2, <2>1 DEF Protects, SettleOps
    <2>4. Versions(r)'
      BY <1>0, <2>1 DEF Versions, SettleOps, TxOps, BalanceRow, HoldRow
    <2> QED
      BY <1>0, <1>t, <1>2, <2>2, <2>3, <2>4, AdvanceKeeps DEF Local, Steps
  <1>3. CASE /\ CaptureError(req[r], holds[h]) # None
             /\ Fail(r, CaptureError(req[r], holds[h]))
    <2>1. CaptureError(req[r], holds[h]) \in Codes
      BY <1>3 DEF CaptureError, Codes
    <2> QED
      BY <1>3, <2>1, FailKeeps
  <1>4. CASE Fail(r, "conflict")
    BY <1>4, FailKeeps DEF Codes
  <1> QED
    BY <1>2, <1>3, <1>4 DEF SettleLock

\* A unique violation drops the request's locks before it looks up again.
LEMMA UniqueViolationKeeps ==
    ASSUME LedgerInvariant, NEW r \in Requests, pc[r] = "insert", UniqueViolation(r)
    PROVE  LedgerInvariant'
  <1>1. \A s \in Requests \ {r} : SameControl(s)
    BY DEF LedgerInvariant, TypeOK, UniqueViolation, SameControl
  <1>2. TypeOK'
    BY DEF LedgerInvariant, TypeOK, UniqueViolation, tables, Steps
  <1>3. LocksExclusive'
    BY DEF LedgerInvariant, LocksProtect, LocksExclusive, TypeOK, UniqueViolation
  <1>4. /\ pc'[r] = "recheck" /\ locks'[r] = {}
        /\ UNCHANGED <<req, idx, uncommitted, transactions, holds>>
    BY DEF LedgerInvariant, TypeOK, UniqueViolation, tables
  <1>5. Shape(r)
    BY DEF LedgerInvariant, LocksProtect
  <1>6. Shape(r)'
    BY <1>4, <1>5 DEF Shape, Open
  <1>7. Protects(r)' /\ Versions(r)'
    BY <1>4 DEF Protects, Versions
  <1> QED
    BY <1>1, <1>2, <1>3, <1>6, <1>7, PrivateStep DEF Local, UniqueViolation

\* The postings a request applies: at least two, each on a known account.
LEMMA PostingsType ==
    ASSUME LedgerInvariant, NEW r \in Requests,
           pc[r] \in {"insert", "apply", "commit"}, req[r].op \in TxOps
    PROVE  /\ PostingsOf(r) \in Seq(Posting)
           /\ Len(PostingsOf(r)) >= 2
           /\ \A i \in 1..Len(PostingsOf(r)) : RowOf(PostingsOf(r)[i]) \in Rows
           /\ req[r].op # "create" =>
                 \A i \in 1..Len(PostingsOf(r)) : account_balances[RowOf(PostingsOf(r)[i])] # None
  <1> DEFINE in == req[r]
             ps == PostingsOf(r)
             T  == transactions[in.target]
  <1>s. Shape(r) /\ Protects(r)
    BY DEF LedgerInvariant, LocksProtect
  <1>i. in \in Inputs /\ Valid(in)
    BY <1>s DEF Shape, Open
  <1>1. CASE in.op = "create"
    <2>1. ps = in.postings /\ in.postings \in Seq(Posting)
      BY <1>i, <1>1, InputFields DEF PostingsOf, CreateInput
    <2>2. Len(in.postings) >= 2
      BY <1>i, <1>1 DEF Valid, ValidateBalanced
    <2>3. \A i \in 1..Len(ps) : ps[i].account \in Accounts
      BY <1>s, <1>1, <2>1 DEF Shape, AccountsOf
    <2>4. \A i \in 1..Len(ps) : ps[i] \in Posting
      BY <2>1
    <2> QED
      BY <1>1, <2>1, <2>2, <2>3, <2>4 DEF Posting, RowOf, Rows
  <1>2. CASE in.op \in {"post", "reverse"}
    <2>1. in.target \in Requests /\ T # None
      BY <1>s, <1>i, <1>2, TargetType DEF Protects, Shape, Keyed
    <2>2. T.postings \in Seq(Posting) /\ Len(T.postings) >= 2
      BY <2>1 DEF LedgerInvariant, RowsExist, TxIds, TypeOK, Transaction
    <2>3. \A i \in 1..Len(T.postings) : /\ T.postings[i].account \in Accounts
                                        /\ account_balances[RowOf(T.postings[i])] # None
      BY <2>1 DEF LedgerInvariant, RowsExist, TxIds
    <2>4. \A i \in 1..Len(T.postings) : T.postings[i].asset \in Assets
      <3>1. \A i \in 1..Len(T.postings) : T.postings[i] \in Posting
        BY <2>2
      <3> QED
        BY <3>1 DEF Posting
    <2>5. \/ ps = T.postings
          \/ ps = ReversePostings(T.postings)
      BY <1>2 DEF PostingsOf
    <2> HIDE DEF T
    <2>6. /\ ps \in Seq(Posting) /\ Len(ps) = Len(T.postings)
          /\ \A i \in 1..Len(ps) : RowOf(ps[i]) = RowOf(T.postings[i])
      BY <2>2, <2>5, ReversePostingsType DEF RowOf
    <2> QED
      BY <2>2, <2>3, <2>4, <2>6 DEF RowOf, Rows
  <1> QED
    BY <1>1, <1>2 DEF TxOps

\* An accepted insert reserves its key: no committed transaction has it.
LEMMA InsertTransactionKeeps ==
    ASSUME LedgerInvariant, NEW r \in Requests, InsertTransaction(r)
    PROVE  LedgerInvariant'
  <1> DEFINE in == req[r]
             k  == EffectiveKey(in)
  <1>0. /\ pc[r] = "insert" /\ in.op \in {"create", "reverse"}
        /\ Free(r, TxKey(k))
    BY DEF InsertTransaction
  <1>s. Shape(r) /\ Protects(r) /\ Versions(r)
    BY DEF LedgerInvariant, LocksProtect
  <1>i. in \in Inputs /\ in \in Keyed /\ Valid(in)
    BY <1>0, <1>s DEF Shape, Open
  <1>k. k \in KeySpace /\ TxKey(k) \in Resources
    BY <1>i, KeyType DEF Resources
  <1>1. CASE UniqueViolation(r)
    BY <1>0, <1>1, UniqueViolationKeeps
  <1>2. CASE /\ TransactionsWithKey(k) = {}
             /\ Advance(r, "apply", {TxKey(k)})
             /\ UNCHANGED <<req, resp, idx, uncommitted>>
    <2>1. /\ pc'[r] = "apply" /\ locks'[r] = locks[r] \cup {TxKey(k)} /\ req' = req
          /\ idx'[r] = 0 /\ uncommitted'[r] = NoVersions
          /\ transactions' = transactions /\ holds' = holds
      BY <1>0, <1>s, <1>2 DEF Shape, LedgerInvariant, TypeOK, Advance, tables
    <2>2. Shape(r)'
      BY <1>0, <1>s, <2>1 DEF Shape, Open
    <2>3. TransactionsWithKey(k)' = {}
      BY <1>2, <2>1 DEF TransactionsWithKey, EffectiveKey
    <2>4. Protects(r)'
      BY <1>0, <1>s, <2>1, <2>3 DEF Protects, SettleOps
    <2>5. PostingsOf(r)' = PostingsOf(r)
      BY <2>1 DEF PostingsOf
    <2>6. Len(PostingsOf(r)) \in Nat /\ Len(PostingsOf(r)) >= 2
      BY <1>0, PostingsType DEF TxOps
    <2>7. \A x \in Rows : BalanceRow(x) \notin locks'[r]
      BY <1>0, <1>s, <2>1 DEF Versions, BalanceRow, TxKey
    <2>8. Versions(r)'
      BY <1>0, <2>1, <2>5, <2>6, <2>7 DEF Versions, SettleOps
    <2> QED
      BY <1>0, <1>k, <1>2, <2>2, <2>4, <2>8, AdvanceKeeps DEF Local, Steps
  <1> QED
    BY <1>1, <1>2 DEF InsertTransaction

\* A request that also writes a version of one balance row
LEMMA WriteKeeps ==
    ASSUME LedgerInvariant, NEW r \in Requests, NEW step \in Steps, NEW taken \in SUBSET Resources,
           \A y \in taken : Free(r, y),
           NEW x \in Rows, NEW b \in Balance, NEW n \in Nat,
           Advance(r, step, taken),
           uncommitted' = [uncommitted EXCEPT ![r][x] = b],
           idx' = [idx EXCEPT ![r] = n],
           UNCHANGED <<req, resp>>,
           Local(r)'
    PROVE  LedgerInvariant'
  <1>1. \A s \in Requests \ {r} : SameControl(s)
    BY DEF LedgerInvariant, TypeOK, Advance, SameControl
  <1>2. TypeOK'
    BY DEF LedgerInvariant, TypeOK, Advance, tables
  <1>3. LocksExclusive'
    BY DEF LedgerInvariant, LocksProtect, LocksExclusive, TypeOK, Advance, Free
  <1> QED
    BY <1>1, <1>2, <1>3, PrivateStep DEF Advance

\* Changing held in a balance row gives a balance row.
LEMMA HeldType ==
    ASSUME NEW b \in Balance, NEW n \in Int
    PROVE  /\ [b EXCEPT !.held = @ + n] \in Balance
           /\ [b EXCEPT !.held = @ + n].held = b.held + n
           /\ [b EXCEPT !.held = @ - n] \in Balance
           /\ [b EXCEPT !.held = @ - n].held = b.held - n
  BY DEF Balance

\* An accepted hold reserves its key and adds its units to a private version.
LEMMA InsertHoldKeeps ==
    ASSUME LedgerInvariant, NEW r \in Requests, InsertHold(r)
    PROVE  LedgerInvariant'
  <1> DEFINE in == req[r]
             k  == EffectiveKey(in)
             x  == RowOf(in)
             b  == [account_balances[x] EXCEPT !.held = @ + in.units]
  <1>0. /\ pc[r] = "insert" /\ in.op = "hold"
        /\ Free(r, HoldKey(k))
    BY DEF InsertHold
  <1>s. Shape(r) /\ Protects(r) /\ Versions(r)
    BY DEF LedgerInvariant, LocksProtect
  <1>i. in \in Keyed /\ in.units \in Int /\ x \in Rows
    BY <1>0, <1>s, InputFields DEF Shape, Open, Keyed, HoldInput, RowOf, Rows
  <1>k. k \in KeySpace /\ HoldKey(k) \in Resources
    BY <1>i, KeyType DEF Resources
  <1>b. /\ BalanceRow(x) \in locks[r] /\ account_balances[x] \in Balance
        /\ Available(account_balances[x], NormalBalance[in.account]) >= in.units
        /\ \A y \in Rows : BalanceRow(y) \in locks[r] => y = x
    BY <1>0, <1>s, <1>i DEF Protects, Versions, LedgerInvariant, TypeOK
  <1>1. CASE UniqueViolation(r)
    BY <1>0, <1>1, UniqueViolationKeeps
  <1>2. CASE /\ HoldsWithKey(k) = {}
             /\ Advance(r, "commit", {HoldKey(k)})
             /\ uncommitted' = [uncommitted EXCEPT ![r][x] = b]
             /\ UNCHANGED <<req, resp, idx>>
    <2>1. /\ pc'[r] = "commit" /\ locks'[r] = locks[r] \cup {HoldKey(k)} /\ req' = req
          /\ uncommitted'[r][x] = b
          /\ transactions' = transactions /\ holds' = holds /\ account_balances' = account_balances
      BY <1>i, <1>2 DEF LedgerInvariant, TypeOK, Advance, tables
    <2>2. Shape(r)'
      BY <1>0, <1>s, <2>1 DEF Shape, Open
    <2>3. HoldsWithKey(k)' = {}
      BY <1>2, <2>1 DEF HoldsWithKey, EffectiveKey
    <2>4. Protects(r)'
      BY <1>0, <1>s, <1>b, <2>1, <2>3 DEF Protects, SettleOps
    <2>5. \A y \in Rows : BalanceRow(y) \in locks'[r] => y = x
      BY <1>b, <2>1 DEF BalanceRow, HoldKey
    <2>6. Versions(r)'
      BY <1>0, <2>1, <2>5 DEF Versions, SettleOps, TxOps, RowOf
    <2>7. b \in Balance
      BY <1>i, <1>b, HeldType DEF Balance
    <2>8. idx' = [idx EXCEPT ![r] = idx[r]] /\ idx[r] \in Nat
      BY <1>2 DEF LedgerInvariant, TypeOK
    <2> HIDE DEF b, x, k, in
    <2> QED
      BY <1>0, <1>i, <1>k, <1>2, <2>2, <2>4, <2>6, <2>7, <2>8, WriteKeeps, ZenonT(60) DEF Local, Steps
  <1> QED
    BY <1>1, <1>2 DEF InsertHold

\* releaseHeld subtracts the hold in a private version of its balance row.
LEMMA ReleaseHeldKeeps ==
    ASSUME LedgerInvariant, NEW r \in Requests, ReleaseHeld(r)
    PROVE  LedgerInvariant'
  <1> DEFINE in == req[r]
             h  == holds[in.target]
             x  == RowOf(h)
             b  == [account_balances[x] EXCEPT !.held = @ - h.amount]
  <1>0. /\ pc[r] = "apply" /\ in.op \in SettleOps
        /\ Free(r, BalanceRow(x))
        /\ Advance(r, "commit", {BalanceRow(x)})
        /\ uncommitted' = [uncommitted EXCEPT ![r][x] = b]
        /\ UNCHANGED <<req, resp, idx>>
    BY DEF ReleaseHeld, SettleOps
  <1>s. Shape(r) /\ Protects(r) /\ Versions(r)
    BY DEF LedgerInvariant, LocksProtect
  <1>i. in \in Inputs /\ in.target \in Requests
    BY <1>0, <1>s, TargetType DEF Shape, Open, SettleOps
  <1>h. h \in Hold /\ in.target \in HoldIds
    BY <1>0, <1>s, <1>i DEF Protects, LedgerInvariant, TypeOK, HoldIds
  <1>x. x \in Rows /\ account_balances[x] \in Balance /\ h.amount \in Int
    BY <1>h DEF Hold, RowOf, Rows, LedgerInvariant, RowsExist, TypeOK
  <1>1. /\ pc'[r] = "commit" /\ locks'[r] = locks[r] \cup {BalanceRow(x)} /\ req' = req
        /\ uncommitted'[r][x] = b
        /\ transactions' = transactions /\ holds' = holds /\ account_balances' = account_balances
    BY <1>0, <1>x DEF LedgerInvariant, TypeOK, Advance, tables
  <1>2. Shape(r)'
    BY <1>0, <1>s, <1>1 DEF Shape, Open, SettleOps
  <1>3. Protects(r)'
    BY <1>0, <1>s, <1>1 DEF Protects, SettleOps
  <1>4. \A y \in Rows : BalanceRow(y) \in locks'[r] => y = x
    BY <1>0, <1>s, <1>1 DEF Versions, BalanceRow
  <1>5. Versions(r)'
    BY <1>0, <1>1, <1>4 DEF Versions, SettleOps, TxOps, RowOf
  <1>6. b \in Balance
    BY <1>x, HeldType DEF Balance
  <1>7. idx' = [idx EXCEPT ![r] = idx[r]] /\ idx[r] \in Nat
    BY <1>0 DEF LedgerInvariant, TypeOK
  <1>8. BalanceRow(x) \in Resources
    BY <1>x DEF Resources
  <1> HIDE DEF b, x, h, in
  <1> QED
    BY <1>0, <1>x, <1>2, <1>3, <1>5, <1>6, <1>7, <1>8, WriteKeeps DEF Local, Steps

\* Applying one posting writes a private version of the row it has locked.
LEMMA ApplyBalanceKeeps ==
    ASSUME LedgerInvariant, NEW r \in Requests, ApplyBalance(r)
    PROVE  LedgerInvariant'
  <1> DEFINE in   == req[r]
             ps   == PostingsOf(r)
             p    == ps[idx[r] + 1]
             x    == RowOf(p)
             c    == Current(r, x)
             b    == NewVersion(r, c, p)
             step == IF idx[r] + 1 = Len(ps) THEN "commit" ELSE "apply"
  <1>0. /\ pc[r] = "apply" /\ in.op \in TxOps
        /\ Free(r, BalanceRow(x))
    BY DEF ApplyBalance, TxOps
  <1>s. Shape(r) /\ Protects(r) /\ Versions(r)
    BY DEF LedgerInvariant, LocksProtect
  <1>p. /\ ps \in Seq(Posting) /\ idx[r] \in Nat /\ idx[r] < Len(ps)
        /\ p \in Posting /\ x \in Rows
        /\ in.op = "post" => account_balances[x] # None
    <2>1. /\ idx[r] \in Nat /\ idx[r] < Len(ps) /\ ps \in Seq(Posting)
      BY <1>0, <1>s, PostingsType DEF LedgerInvariant, TypeOK, Versions
    <2>2. idx[r] + 1 \in 1..Len(ps)
      BY <2>1
    <2> HIDE DEF ps
    <2>3. p \in Posting
      BY <2>1, <2>2
    <2>4. x \in Rows /\ (in.op = "post" => account_balances[x] # None)
      BY <1>0, <2>2, PostingsType DEF ps
    <2> QED
      BY <2>1, <2>3, <2>4
  <1>c. /\ c \in Balance \cup {None}
        /\ OrZero(c).held = OrZero(account_balances[x]).held
        /\ in.op = "post" => c # None
    <2>1. BalanceRow(x) \in locks[r] =>
             c # None /\ c.held = OrZero(account_balances[x]).held
      BY <1>0, <1>s, <1>p DEF Versions, Current
    <2>2. BalanceRow(x) \notin locks[r] => c = account_balances[x]
      BY DEF Current
    <2>3. c \in Balance \cup {None}
      BY <1>p DEF Current, LedgerInvariant, TypeOK
    <2> HIDE DEF c
    <2> QED
      BY <1>p, <2>1, <2>2, <2>3 DEF OrZero
  <1>b. b \in Balance /\ b.held = OrZero(account_balances[x]).held
    <2>1. b \in {movePendingToPosted(c, p), upsertPendingBalance(c, p), upsertPostedBalance(c, p)}
          /\ (b = movePendingToPosted(c, p) => in.op = "post" \/ b = upsertPostedBalance(c, p)
                                                 \/ b = upsertPendingBalance(c, p))
      BY DEF NewVersion
    <2> HIDE DEF b, c, p, x, in
    <2>2. c # None => OrZero(c) = c
      BY DEF OrZero
    <2> QED
      BY <1>p, <1>c, <2>1, <2>2, VersionType, ZenonT(60)
  <1>1. CASE Fail(r, "error")
    BY <1>1, FailKeeps DEF Codes
  <1>2. CASE /\ Advance(r, step, {BalanceRow(x)})
             /\ uncommitted' = [uncommitted EXCEPT ![r][x] = b]
             /\ idx' = [idx EXCEPT ![r] = @ + 1]
             /\ UNCHANGED <<req, resp>>
    <2>1. /\ pc'[r] = step /\ locks'[r] = locks[r] \cup {BalanceRow(x)} /\ req' = req
          /\ idx'[r] = idx[r] + 1
          /\ uncommitted'[r][x] = b
          /\ \A y \in Rows : y # x => uncommitted'[r][y] = uncommitted[r][y]
          /\ transactions' = transactions /\ holds' = holds /\ account_balances' = account_balances
      BY <1>p, <1>2 DEF LedgerInvariant, TypeOK, Advance, tables
    <2>2. step \in {"apply", "commit"}
      OBVIOUS
    <2>3. Shape(r)'
      BY <1>0, <1>s, <2>1, <2>2 DEF Shape, Open, TxOps
    <2>4. Protects(r)'
      <3>1. TransactionsWithKey(EffectiveKey(in))' = TransactionsWithKey(EffectiveKey(in))
        BY <2>1 DEF TransactionsWithKey, EffectiveKey
      <3> QED
        BY <1>0, <1>s, <2>1, <2>2, <3>1 DEF Protects, SettleOps, TxOps
    <2>5. PostingsOf(r)' = ps
      BY <2>1 DEF PostingsOf
    <2>6. ASSUME NEW y \in Rows, BalanceRow(y) \in locks'[r]
          PROVE  uncommitted'[r][y] # None /\ uncommitted'[r][y].held = OrZero(account_balances[y]).held
      <3>1. CASE y = x
        BY <1>b, <2>1, <3>1, ConstantsAssumption
      <3>2. CASE y # x
        <4>1. BalanceRow(y) \in locks[r]
          BY <2>1, <2>6, <3>2 DEF BalanceRow
        <4> QED
          BY <1>0, <1>s, <2>1, <3>2, <4>1 DEF Versions
      <3> QED
        BY <3>1, <3>2
    <2>7. \A i \in 1..Len(ps) : i <= idx'[r] => BalanceRow(RowOf(ps[i])) \in locks'[r]
      <3>1. SUFFICES ASSUME NEW i \in 1..Len(ps), i <= idx[r] + 1
                     PROVE  BalanceRow(RowOf(ps[i])) \in locks'[r]
        BY <2>1
      <3>2. CASE i = idx[r] + 1
        BY <2>1, <3>2
      <3>3. CASE i <= idx[r]
        BY <1>0, <1>s, <2>1, <3>3 DEF Versions
      <3> QED
        BY <3>1, <3>2, <3>3, <1>p
    <2>8. Versions(r)'
      <3>1. pc'[r] = "apply" => idx'[r] < Len(ps)
        BY <1>p, <2>1
      <3>2. pc'[r] = "commit" => idx'[r] = Len(ps)
        BY <1>p, <2>1
      <3> HIDE DEF ps, step
      <3>3. req'[r].op \in TxOps /\ req'[r].op \notin SettleOps \cup {"hold"}
        BY <1>0, <2>1 DEF TxOps, SettleOps
      <3> QED
        BY <2>1, <2>2, <2>5, <2>6, <2>7, <3>1, <3>2, <3>3 DEF Versions, OrZero
    <2>9. BalanceRow(x) \in Resources /\ idx[r] + 1 \in Nat
      BY <1>p DEF Resources
    <2> HIDE DEF b, x, in, step, ps, p, c
    <2> QED
      BY <1>0, <1>p, <1>b, <1>2, <2>2, <2>3, <2>4, <2>8, <2>9, WriteKeeps DEF Local, Steps
  <1> QED
    BY <1>1, <1>2 DEF ApplyBalance

---------------------------------------------------------------------------
(* COMMIT.                                                                 *)

\* Committing the versions of r keeps every balance row, leaves the rows that
\* others have locked alone, and has a row for every posting of r.
LEMMA BalancesKept ==
    ASSUME LedgerInvariant, NEW r \in Requests, pc[r] = "commit", CommitBalances(r)
    PROVE  /\ account_balances' \in [Rows -> Balance \cup {None}]
           /\ \A x \in Rows : account_balances[x] # None => account_balances'[x] # None
           /\ \A s \in Requests \ {r} : \A x \in Rows :
                 BalanceRow(x) \in locks[s] => account_balances'[x] = account_balances[x]
           /\ req[r].op \in TxOps => \A i \in 1..Len(PostingsOf(r)) :
                 account_balances'[RowOf(PostingsOf(r)[i])] # None
  <1> DEFINE in == req[r]
  <1>s. Shape(r) /\ Protects(r) /\ Versions(r)
    BY DEF LedgerInvariant, LocksProtect
  <1>i. in \in Inputs
    BY <1>s DEF Shape, Open
  <1>1. \A x \in Rows : account_balances'[x] = Current(r, x)
    BY DEF CommitBalances
  <1>2. account_balances' \in [Rows -> Balance \cup {None}]
    BY DEF CommitBalances, Current, LedgerInvariant, TypeOK
  <1>3. \A s \in Requests \ {r} : \A x \in Rows :
           BalanceRow(x) \in locks[s] => account_balances'[x] = account_balances[x]
    BY <1>1 DEF Current, LedgerInvariant, LocksProtect, LocksExclusive
  <1>4. ASSUME NEW x \in Rows, BalanceRow(x) \in locks[r]
        PROVE  account_balances'[x] # None
    <2>0. account_balances'[x] = uncommitted[r][x]
      BY <1>1, <1>4 DEF Current
    <2>1. CASE in.op \in TxOps
      BY <1>s, <1>4, <2>0, <2>1 DEF Versions
    <2>2. CASE in.op = "hold"
      <3>1. x = RowOf(in) /\ account_balances[x] # None
            /\ uncommitted[r][x] = [account_balances[x] EXCEPT !.held = @ + in.units]
        BY <1>s, <1>4, <2>2 DEF Versions, Protects
      <3>2. account_balances[x] \in Balance /\ in.units \in Int
        BY <1>i, <2>2, <3>1, InputFields DEF LedgerInvariant, TypeOK, HoldInput
      <3>3. uncommitted[r][x] \in Balance
        BY <3>1, <3>2, HeldType DEF Balance
      <3> QED
        BY <2>0, <3>3, ConstantsAssumption
    <2>3. CASE in.op \in SettleOps
      <3>1. /\ in.target \in Requests /\ holds[in.target] # None
            /\ x = RowOf(holds[in.target])
            /\ uncommitted[r][x] = [account_balances[x] EXCEPT !.held = @ - holds[in.target].amount]
        BY <1>s, <1>i, <1>4, <2>3, TargetType DEF Versions, Protects, SettleOps
      <3>2. account_balances[x] \in Balance /\ holds[in.target].amount \in Int
        BY <3>1 DEF LedgerInvariant, TypeOK, RowsExist, HoldIds, Hold
      <3>3. uncommitted[r][x] \in Balance
        BY <3>1, <3>2, HeldType DEF Balance
      <3> QED
        BY <2>0, <3>3, ConstantsAssumption
    <2> QED
      BY <1>i, <2>1, <2>2, <2>3, InputFields
  <1>5. \A x \in Rows : account_balances[x] # None => account_balances'[x] # None
    BY <1>1, <1>4 DEF Current
  <1>6. in.op \in TxOps => \A i \in 1..Len(PostingsOf(r)) :
           account_balances'[RowOf(PostingsOf(r)[i])] # None
    <2> SUFFICES ASSUME in.op \in TxOps, NEW i \in 1..Len(PostingsOf(r))
                 PROVE  account_balances'[RowOf(PostingsOf(r)[i])] # None
      OBVIOUS
    <2>1. RowOf(PostingsOf(r)[i]) \in Rows /\ PostingsOf(r) \in Seq(Posting)
      BY PostingsType
    <2>2. BalanceRow(RowOf(PostingsOf(r)[i])) \in locks[r]
      BY <1>s, <2>1 DEF Versions
    <2> QED
      BY <1>4, <2>1, <2>2
  <1> QED
    BY <1>2, <1>3, <1>5, <1>6

\* A commit keeps the invariant if it keeps the tables' own invariants and
\* writes nothing that another request has locked.
LEMMA CommitKeeps ==
    ASSUME LedgerInvariant, NEW r \in Requests, pc[r] = "commit",
           NEW code \in Codes, NEW id \in Requests \cup {None},
           NEW status \in {"draft", "posted", "active", "captured", "released", None},
           Answer(r, code, id, status), CommitBalances(r),
           transactions' \in [Requests -> Transaction \cup {None}],
           idempotency_keys' \in [KeySpace -> StoredAnswer \cup {None}],
           holds' \in [Requests -> Hold \cup {None}],
           outbox' \in Seq(Event),
           \A s \in Requests \ {r} : SameLocked(s),
           RowsExist', OneEffectPerKey', ReversalsPair'
    PROVE  LedgerInvariant'
  <1>1. TypeOK'
    BY BalancesKept DEF LedgerInvariant, TypeOK, Answer, Steps, NoVersions
  <1>2. LocksExclusive'
    BY DEF LedgerInvariant, LocksProtect, LocksExclusive, TypeOK, Answer
  <1>3. /\ pc'[r] = "done" /\ locks'[r] = {} /\ idx'[r] = 0
        /\ uncommitted'[r] = NoVersions
    BY DEF LedgerInvariant, TypeOK, Answer
  <1>4. Local(r)'
    BY <1>3 DEF Local, Shape, Protects, Versions, Open, NoVersions
  <1>5. ASSUME NEW s \in Requests \ {r}
        PROVE  Local(s)'
    <2>1. SameControl(s)
      BY DEF LedgerInvariant, TypeOK, Answer, SameControl
    <2> QED
      BY <2>1, Frame DEF LedgerInvariant, LocksProtect, Local
  <1>6. \A s \in Requests : Local(s)'
    BY <1>4, <1>5
  <1>7. LocksProtect'
    BY <1>2, <1>6 DEF LocksProtect, Local
  <1> QED
    BY <1>1, <1>7 DEF LedgerInvariant

\* Committing balances keeps the balance rows that transactions and holds refer to.
LEMMA RowsKept ==
    ASSUME LedgerInvariant, NEW r \in Requests, pc[r] = "commit", CommitBalances(r)
    PROVE  /\ \A t \in TxIds :
                 /\ transactions[t].postings \in Seq(Posting)
                 /\ Len(transactions[t].postings) >= 2
                 /\ \A i \in 1..Len(transactions[t].postings) :
                       /\ transactions[t].postings[i].account \in Accounts
                       /\ account_balances'[RowOf(transactions[t].postings[i])] # None
           /\ \A h \in HoldIds : /\ holds[h].amount > 0
                                 /\ account_balances'[RowOf(holds[h])] # None
  <1>1. ASSUME NEW t \in TxIds
        PROVE  /\ transactions[t].postings \in Seq(Posting)
               /\ \A i \in 1..Len(transactions[t].postings) :
                     account_balances'[RowOf(transactions[t].postings[i])] # None
    <2>1. transactions[t].postings \in Seq(Posting)
      BY DEF LedgerInvariant, TypeOK, TxIds, Transaction
    <2>2. \A i \in 1..Len(transactions[t].postings) : transactions[t].postings[i] \in Posting
      BY <2>1
    <2>3. \A i \in 1..Len(transactions[t].postings) : RowOf(transactions[t].postings[i]) \in Rows
      BY <2>2 DEF LedgerInvariant, RowsExist, Posting, RowOf, Rows
    <2> QED
      BY <2>1, <2>3, BalancesKept DEF LedgerInvariant, RowsExist
  <1>2. ASSUME NEW h \in HoldIds
        PROVE  account_balances'[RowOf(holds[h])] # None
    <2>1. RowOf(holds[h]) \in Rows
      BY DEF HoldIds, LedgerInvariant, TypeOK, Hold, RowOf, Rows
    <2> QED
      BY <2>1, BalancesKept DEF LedgerInvariant, RowsExist
  <1> QED
    BY <1>1, <1>2 DEF LedgerInvariant, RowsExist

\* Appending an event to the outbox
LEMMA EmitType ==
    ASSUME TypeOK, NEW topic \in {"ledger.transaction.posted", "ledger.transaction.reversed",
                                  "ledger.hold.created", "ledger.hold.captured",
                                  "ledger.hold.released"},
           NEW id \in Requests, NEW captured \in Int, NEW released \in Int,
           Emit(topic, id, captured, released)
    PROVE  outbox' \in Seq(Event)
  <1>1. [topic |-> topic, id |-> id, captured |-> captured, released |-> released] \in Event
    BY DEF Event
  <1>2. outbox \in Seq(Event)
    BY DEF TypeOK
  <1> QED
    BY <1>1, <1>2 DEF Emit

\* Committing a new transaction adds a row under a key nobody else has.
LEMMA CommitCreateKeeps ==
    ASSUME LedgerInvariant, NEW r \in Requests, CommitCreate(r)
    PROVE  LedgerInvariant'
  <1> DEFINE in  == req[r]
             row == [key |-> in.key, status |-> in.status, postings |-> in.postings,
                     reverses_id |-> None, reversed_by_id |-> None]
             ans == [hash |-> Fingerprint(in), id |-> r, status |-> in.status]
  <1>0. /\ pc[r] = "commit" /\ in.op = "create"
        /\ transactions' = [transactions EXCEPT ![r] = row]
        /\ idempotency_keys' = [idempotency_keys EXCEPT ![in.key] = ans]
        /\ holds' = holds
        /\ CommitBalances(r)
        /\ Answer(r, "created", r, in.status)
    BY DEF CommitCreate
  <1>s. Shape(r) /\ Protects(r)
    BY DEF LedgerInvariant, LocksProtect
  <1>i. in \in Inputs /\ in \in Keyed /\ in \in CreateInput
    BY <1>0, <1>s, InputFields DEF Shape, Open, Keyed
  <1>k. /\ in.key \in KeySpace /\ TxKey(in.key) \in locks[r]
        /\ TransactionsWithKey(in.key) = {}
        /\ transactions[r] = None
    BY <1>0, <1>s, <1>i DEF Protects, EffectiveKey, CreateInput, Shape
  <1>p. PostingsOf(r) = in.postings
    BY <1>0 DEF PostingsOf
  <1>r. row \in Transaction /\ row # None
    <2>1. row \in Transaction
      BY <1>i DEF CreateInput, Transaction
    <2> HIDE DEF row
    <2> QED
      BY <2>1, ConstantsAssumption
  <1>a. ans \in StoredAnswer /\ ans # None
    <2>1. ans \in StoredAnswer
      BY <1>i, KeyType DEF CreateInput, StoredAnswer
    <2> HIDE DEF ans
    <2> QED
      BY <2>1, ConstantsAssumption
  <1>t. /\ transactions'[r] = row
        /\ \A t \in Requests \ {r} : transactions'[t] = transactions[t]
        /\ transactions' \in [Requests -> Transaction \cup {None}]
    BY <1>0, <1>r DEF LedgerInvariant, TypeOK
  <1>d. /\ idempotency_keys'[in.key] = ans
        /\ \A k \in KeySpace \ {in.key} : idempotency_keys'[k] = idempotency_keys[k]
        /\ idempotency_keys' \in [KeySpace -> StoredAnswer \cup {None}]
    BY <1>0, <1>k, <1>a DEF LedgerInvariant, TypeOK
  <1>o. outbox' \in Seq(Event)
    <2>1. outbox \in Seq(Event) /\ TypeOK
      BY DEF LedgerInvariant, TypeOK
    <2>2. CASE in.status = "posted"
      <3>1. Emit("ledger.transaction.posted", r, 0, 0)
        BY <2>2 DEF CommitCreate
      <3> HIDE DEF in, row, ans
      <3> QED
        BY ONLY <2>1, <3>1, r \in Requests, EmitType
    <2>3. CASE in.status # "posted"
      BY <2>1, <2>3 DEF CommitCreate
    <2> QED
      BY <2>2, <2>3
  <1>u. TxIds' = TxIds \cup {r} /\ r \notin TxIds /\ HoldIds' = HoldIds
    BY <1>0, <1>k, <1>r, <1>t DEF TxIds, HoldIds
  <1>1. ASSUME NEW s \in Requests \ {r}
        PROVE  SameLocked(s)
    <2>1. \A k \in KeySpace : TxKey(k) \in locks[s] /\ TransactionsWithKey(k) = {} =>
             TransactionsWithKey(k)' = {}
      <3> SUFFICES ASSUME NEW k \in KeySpace, TxKey(k) \in locks[s], TransactionsWithKey(k) = {}
                   PROVE  TransactionsWithKey(k)' = {}
        OBVIOUS
      <3>1. k # in.key
        BY <1>k DEF LedgerInvariant, LocksProtect, LocksExclusive
      <3> QED
        BY <1>t, <3>1 DEF TransactionsWithKey
    <2> QED
      BY <1>0, <1>k, <1>t, <2>1, BalancesKept DEF SameLocked, HoldsWithKey
  <1>2. RowsExist'
    <2>1. ASSUME NEW t \in TxIds'
          PROVE  /\ Len(transactions'[t].postings) >= 2
                 /\ \A i \in 1..Len(transactions'[t].postings) :
                       /\ transactions'[t].postings[i].account \in Accounts
                       /\ account_balances'[RowOf(transactions'[t].postings[i])] # None
      <3>1. CASE t = r
        <4>1. transactions'[t].postings = PostingsOf(r)
          BY <1>t, <1>p, <3>1
        <4>2. \A i \in 1..Len(PostingsOf(r)) : PostingsOf(r)[i].account \in Accounts
          BY <1>0, <1>s, <1>p DEF Shape, AccountsOf
        <4> QED
          BY <1>0, <4>1, <4>2, PostingsType, BalancesKept DEF TxOps
      <3>2. CASE t # r
        <4>1. t \in TxIds /\ t \in Requests /\ transactions'[t] = transactions[t]
          BY <1>t, <1>u, <3>2 DEF TxIds
        <4> QED
          BY <1>0, <4>1, RowsKept
      <3> QED
        BY <3>1, <3>2
    <2>2. ASSUME NEW h \in HoldIds'
          PROVE  holds'[h].amount > 0 /\ account_balances'[RowOf(holds'[h])] # None
      BY <1>0, <1>u, RowsKept
    <2> QED
      BY <2>1, <2>2 DEF RowsExist
  <1>3. OneEffectPerKey'
    <2>1. \A t, u \in TxIds' : transactions'[t].key = transactions'[u].key => t = u
      BY <1>t, <1>u, <1>k DEF LedgerInvariant, OneEffectPerKey, TransactionsWithKey, TxIds
    <2>2. \A h, g \in HoldIds' : holds'[h].key = holds'[g].key => h = g
      BY <1>0, <1>u DEF LedgerInvariant, OneEffectPerKey
    <2>3. ASSUME NEW k \in KeySpace, idempotency_keys'[k] # None
          PROVE  /\ idempotency_keys'[k].id \in TxIds'
                 /\ transactions'[idempotency_keys'[k].id].key = k
      <3>1. CASE k = in.key
        BY <1>d, <1>u, <1>t, <3>1
      <3>2. CASE k # in.key
        <4>1. /\ idempotency_keys'[k] = idempotency_keys[k]
              /\ idempotency_keys[k].id \in TxIds
              /\ transactions[idempotency_keys[k].id].key = k
          BY <1>d, <2>3, <3>2 DEF LedgerInvariant, OneEffectPerKey
        <4> QED
          BY <1>t, <1>u, <4>1 DEF TxIds
      <3> QED
        BY <3>1, <3>2
    <2> QED
      BY <2>1, <2>2, <2>3 DEF OneEffectPerKey
  <1>4. ReversalsPair'
    <2>1. ASSUME NEW t \in TxIds'
          PROVE  /\ transactions'[t].status = "reversed" <=> transactions'[t].reversed_by_id # None
                 /\ transactions'[t].reversed_by_id # None =>
                       /\ transactions'[t].reversed_by_id \in TxIds'
                       /\ transactions'[transactions'[t].reversed_by_id].reverses_id = t
                       /\ transactions'[transactions'[t].reversed_by_id].postings
                             = ReversePostings(transactions'[t].postings)
      <3>1. CASE t = r
        BY <1>t, <1>i, <3>1 DEF CreateInput
      <3>2. CASE t # r
        <4>1. t \in TxIds /\ transactions'[t] = transactions[t]
          BY <1>t, <1>u, <3>2 DEF TxIds
        <4> QED
          BY <1>t, <1>u, <4>1 DEF LedgerInvariant, ReversalsPair, TxIds
      <3> QED
        BY <3>1, <3>2
    <2>2. ASSUME NEW u \in TxIds', transactions'[u].reverses_id # None
          PROVE  /\ transactions'[u].reverses_id \in TxIds'
                 /\ transactions'[transactions'[u].reverses_id].reversed_by_id = u
      <3>1. u # r
        BY <1>t, <2>2
      <3>2. u \in TxIds /\ transactions'[u] = transactions[u]
        BY <1>t, <1>u, <3>1 DEF TxIds
      <3> QED
        BY <1>t, <1>u, <2>2, <3>2 DEF LedgerInvariant, ReversalsPair, TxIds
    <2> QED
      BY <2>1, <2>2 DEF ReversalsPair
  <1>5. in.status \in {"draft", "posted"} /\ "created" \in Codes
    BY <1>i DEF CreateInput, Codes
  <1>6. holds' \in [Requests -> Hold \cup {None}]
    BY <1>0 DEF LedgerInvariant, TypeOK
  <1> HIDE DEF in, row, ans
  <1> QED
    BY <1>0, <1>t, <1>d, <1>o, <1>1, <1>2, <1>3, <1>4, <1>5, <1>6, CommitKeeps

\* Committing a post turns the locked draft into a posted transaction.
LEMMA CommitPostKeeps ==
    ASSUME LedgerInvariant, NEW r \in Requests, CommitPost(r)
    PROVE  LedgerInvariant'
  <1> DEFINE t   == req[r].target
             row == [transactions[t] EXCEPT !.status = "posted"]
  <1>0. /\ pc[r] = "commit" /\ req[r].op = "post"
        /\ transactions' = [transactions EXCEPT ![t] = row]
        /\ idempotency_keys' = idempotency_keys /\ holds' = holds
        /\ CommitBalances(r)
        /\ Emit("ledger.transaction.posted", t, 0, 0)
        /\ Answer(r, "ok", t, "posted")
    BY DEF CommitPost
  <1>s. Shape(r) /\ Protects(r)
    BY DEF LedgerInvariant, LocksProtect
  <1>t. /\ t \in Requests /\ TxRow(t) \in locks[r]
        /\ transactions[t] # None /\ transactions[t].status = "draft"
    BY <1>0, <1>s, TargetType DEF Protects, Shape, Open
  <1>r. /\ transactions[t] \in Transaction /\ row \in Transaction /\ row # None
        /\ row.key = transactions[t].key /\ row.postings = transactions[t].postings
        /\ row.reverses_id = transactions[t].reverses_id
        /\ row.reversed_by_id = transactions[t].reversed_by_id /\ row.status = "posted"
    <2>1. transactions[t] \in Transaction
      BY <1>t DEF LedgerInvariant, TypeOK
    <2>2. row \in Transaction
      BY <2>1 DEF Transaction
    <2>3. /\ row.key = transactions[t].key /\ row.postings = transactions[t].postings
          /\ row.reverses_id = transactions[t].reverses_id
          /\ row.reversed_by_id = transactions[t].reversed_by_id /\ row.status = "posted"
      BY <2>1 DEF Transaction
    <2> HIDE DEF row
    <2> QED
      BY <2>1, <2>2, <2>3, ConstantsAssumption
  <1>u. /\ transactions'[t] = row
        /\ \A u \in Requests \ {t} : transactions'[u] = transactions[u]
        /\ transactions' \in [Requests -> Transaction \cup {None}]
    BY <1>0, <1>t, <1>r DEF LedgerInvariant, TypeOK
  <1> HIDE DEF row
  <1>v. TxIds' = TxIds /\ HoldIds' = HoldIds
    BY <1>0, <1>t, <1>r, <1>u DEF TxIds, HoldIds
  <1>w. \A u \in TxIds : /\ transactions'[u].key = transactions[u].key
                         /\ transactions'[u].postings = transactions[u].postings
                         /\ transactions'[u].reverses_id = transactions[u].reverses_id
                         /\ transactions'[u].reversed_by_id = transactions[u].reversed_by_id
    BY <1>r, <1>u DEF TxIds
  <1>1. ASSUME NEW s \in Requests \ {r}
        PROVE  SameLocked(s)
    <2>1. \A k \in KeySpace : TransactionsWithKey(k)' = TransactionsWithKey(k)
      BY <1>r, <1>t, <1>u DEF TransactionsWithKey
    <2>2. TxRow(t) \notin locks[s]
      BY <1>t DEF LedgerInvariant, LocksProtect, LocksExclusive
    <2>3. pc[s] # "done" => s # t
      BY <1>t DEF LedgerInvariant, LocksProtect, Shape
    <2> QED
      BY <1>0, <1>u, <2>1, <2>2, <2>3, BalancesKept DEF SameLocked, HoldsWithKey
  <1>2. RowsExist'
    BY <1>0, <1>v, <1>w, RowsKept DEF RowsExist
  <1>3. OneEffectPerKey'
    BY <1>0, <1>v, <1>w DEF LedgerInvariant, OneEffectPerKey
  <1>4. ReversalsPair'
    <2>1. transactions'[t].status # "reversed" /\ transactions[t].status # "reversed"
      BY <1>t, <1>r, <1>u
    <2>2. \A u \in TxIds : transactions'[u].status = "reversed" <=> transactions[u].status = "reversed"
      BY <2>1, <1>u DEF TxIds
    <2> QED
      BY <1>v, <1>w, <2>2 DEF LedgerInvariant, ReversalsPair
  <1>5. outbox' \in Seq(Event)
    <2>1. Emit("ledger.transaction.posted", t, 0, 0) /\ t \in Requests /\ TypeOK
      BY <1>0, <1>t DEF LedgerInvariant
    <2> HIDE DEF t
    <2> QED
      BY ONLY <2>1, EmitType
  <1>6. /\ holds' \in [Requests -> Hold \cup {None}]
        /\ idempotency_keys' \in [KeySpace -> StoredAnswer \cup {None}]
    BY <1>0 DEF LedgerInvariant, TypeOK
  <1> HIDE DEF t
  <1> QED
    BY <1>0, <1>t, <1>u, <1>1, <1>2, <1>3, <1>4, <1>5, <1>6, CommitKeeps DEF Codes

\* Committing a reversal writes both ends of the pair in one step.
LEMMA CommitReverseKeeps ==
    ASSUME LedgerInvariant, NEW r \in Requests, CommitReverse(r)
    PROVE  LedgerInvariant'
  <1> DEFINE in  == req[r]
             t   == in.target
             k   == EffectiveKey(in)
             row == [key |-> k, status |-> "posted", postings |-> PostingsOf(r),
                     reverses_id |-> t, reversed_by_id |-> None]
             old == [transactions[t] EXCEPT !.status = "reversed", !.reversed_by_id = r]
             ans == [hash |-> Fingerprint(in), id |-> r, status |-> "posted"]
  <1>s. Shape(r) /\ Protects(r)
    BY DEF LedgerInvariant, LocksProtect
  <1>c. pc[r] = "commit" /\ in.op = "reverse"
    BY DEF CommitReverse
  <1>t. /\ t \in Requests /\ TxRow(t) \in locks[r]
        /\ transactions[t] # None /\ transactions[t].status = "posted"
        /\ transactions[r] = None /\ r # t
    BY <1>c, <1>s, TargetType DEF Protects, Shape, Open
  <1>0. /\ transactions' = [transactions EXCEPT ![r] = row, ![t] = old]
        /\ idempotency_keys' = [idempotency_keys EXCEPT ![k] = ans]
        /\ holds' = holds
        /\ CommitBalances(r)
        /\ Emit("ledger.transaction.reversed", t, 0, 0)
        /\ Answer(r, "created", r, "posted")
    BY <1>t DEF CommitReverse, LedgerInvariant, TypeOK
  <1>k. /\ in \in Keyed /\ k \in KeySpace /\ TxKey(k) \in locks[r]
        /\ TransactionsWithKey(k) = {}
    BY <1>c, <1>s, KeyType DEF Protects, Shape, Open, Keyed
  <1>o. /\ transactions[t] \in Transaction /\ old \in Transaction /\ old # None
        /\ old.key = transactions[t].key /\ old.postings = transactions[t].postings
        /\ old.reverses_id = transactions[t].reverses_id
        /\ old.reversed_by_id = r /\ old.status = "reversed"
    <2> DEFINE half == [transactions[t] EXCEPT !.status = "reversed"]
    <2>1. transactions[t] \in Transaction
      BY <1>t DEF LedgerInvariant, TypeOK
    <2>2. half \in Transaction
      BY <2>1 DEF Transaction
    <2>3. old = [half EXCEPT !.reversed_by_id = r]
      BY <2>1 DEF Transaction
    <2>4. /\ old.key = transactions[t].key /\ old.postings = transactions[t].postings
          /\ old.reverses_id = transactions[t].reverses_id
          /\ old.reversed_by_id = r /\ old.status = "reversed"
      BY <2>1 DEF Transaction
    <2> HIDE DEF half, old
    <2>5. old \in Transaction
      BY <2>2, <2>3 DEF Transaction
    <2> QED
      BY <2>1, <2>4, <2>5, ConstantsAssumption
  <1>r. row \in Transaction /\ row # None
    <2>1. row \in Transaction
      BY <1>c, <1>t, <1>k, PostingsType DEF Transaction, TxOps
    <2> HIDE DEF row
    <2> QED
      BY <2>1, ConstantsAssumption
  <1>a. ans \in StoredAnswer /\ ans # None
    <2>1. ans \in StoredAnswer
      BY <1>k, KeyType DEF StoredAnswer
    <2> HIDE DEF ans
    <2> QED
      BY <2>1, ConstantsAssumption
  <1>f. /\ row.key = k /\ row.status = "posted" /\ row.postings = PostingsOf(r)
        /\ row.reverses_id = t /\ row.reversed_by_id = None
        /\ ans.id = r
    OBVIOUS
  <1>p. PostingsOf(r) = ReversePostings(transactions[t].postings)
    BY <1>c DEF PostingsOf
  <1> HIDE DEF row, old, ans
  <1>u. /\ transactions'[r] = row /\ transactions'[t] = old
        /\ \A u \in Requests \ {r, t} : transactions'[u] = transactions[u]
        /\ transactions' \in [Requests -> Transaction \cup {None}]
    BY <1>0, <1>t, <1>r, <1>o DEF LedgerInvariant, TypeOK
  <1>d. /\ idempotency_keys'[k] = ans
        /\ \A l \in KeySpace \ {k} : idempotency_keys'[l] = idempotency_keys[l]
        /\ idempotency_keys' \in [KeySpace -> StoredAnswer \cup {None}]
    BY <1>0, <1>k, <1>a DEF LedgerInvariant, TypeOK
  <1>v. TxIds' = TxIds \cup {r} /\ r \notin TxIds /\ t \in TxIds /\ HoldIds' = HoldIds
    BY <1>0, <1>t, <1>r, <1>o, <1>u DEF TxIds, HoldIds
  <1>w. \A u \in TxIds : /\ u # r /\ u \in Requests
                         /\ transactions'[u].key = transactions[u].key
                         /\ transactions'[u].postings = transactions[u].postings
                         /\ transactions'[u].reverses_id = transactions[u].reverses_id
    BY <1>o, <1>u, <1>v DEF TxIds
  <1>5. outbox' \in Seq(Event)
    <2>1. Emit("ledger.transaction.reversed", t, 0, 0) /\ t \in Requests /\ TypeOK
      BY <1>0, <1>t DEF LedgerInvariant
    <2> HIDE DEF t
    <2> QED
      BY ONLY <2>1, EmitType
  <1> HIDE DEF t, k, in
  <1>1. ASSUME NEW s \in Requests \ {r}
        PROVE  SameLocked(s)
    <2>1. \A l \in KeySpace : TxKey(l) \in locks[s] /\ TransactionsWithKey(l) = {} =>
             TransactionsWithKey(l)' = {}
      <3> SUFFICES ASSUME NEW l \in KeySpace, TxKey(l) \in locks[s], TransactionsWithKey(l) = {}
                   PROVE  TransactionsWithKey(l)' = {}
        OBVIOUS
      <3>1. l # k
        BY <1>k DEF LedgerInvariant, LocksProtect, LocksExclusive
      <3> QED
        BY <1>u, <1>f, <1>o, <1>t, <3>1 DEF TransactionsWithKey
    <2>2. TxRow(t) \notin locks[s]
      BY <1>t DEF LedgerInvariant, LocksProtect, LocksExclusive
    <2>3. pc[s] # "done" => s # t
      BY <1>t DEF LedgerInvariant, LocksProtect, Shape
    <2> QED
      BY <1>0, <1>c, <1>t, <1>u, <2>1, <2>2, <2>3, BalancesKept DEF SameLocked, HoldsWithKey
  <1>2. RowsExist'
    <2>1. ASSUME NEW u \in TxIds'
          PROVE  /\ Len(transactions'[u].postings) >= 2
                 /\ \A i \in 1..Len(transactions'[u].postings) :
                       /\ transactions'[u].postings[i].account \in Accounts
                       /\ account_balances'[RowOf(transactions'[u].postings[i])] # None
      <3>1. CASE u = r
        <4>1. transactions'[u].postings = PostingsOf(r)
          BY <1>u, <1>f, <3>1
        <4>2. Len(PostingsOf(r)) >= 2 /\ \A i \in 1..Len(PostingsOf(r)) :
                 /\ account_balances'[RowOf(PostingsOf(r)[i])] # None
                 /\ RowOf(PostingsOf(r)[i]) \in Rows
          BY <1>0, <1>c, PostingsType, BalancesKept DEF TxOps, in
        <4>3. \A i \in 1..Len(PostingsOf(r)) : PostingsOf(r)[i].account \in Accounts
          BY <4>2 DEF RowOf, Rows
        <4> QED
          BY <4>1, <4>2, <4>3
      <3>2. CASE u # r
        BY <1>0, <1>c, <1>v, <1>w, <3>2, RowsKept, ZenonT(60)
      <3> QED
        BY <3>1, <3>2
    <2>2. \A h \in HoldIds' : holds'[h].amount > 0 /\ account_balances'[RowOf(holds'[h])] # None
      BY <1>0, <1>c, <1>v, RowsKept
    <2> QED
      BY <2>1, <2>2 DEF RowsExist
  <1>3. OneEffectPerKey'
    <2>1. \A u, v \in TxIds' : transactions'[u].key = transactions'[v].key => u = v
      BY <1>f, <1>k, <1>u, <1>v, <1>w DEF LedgerInvariant, OneEffectPerKey, TransactionsWithKey, TxIds
    <2>2. \A h, g \in HoldIds' : holds'[h].key = holds'[g].key => h = g
      BY <1>0, <1>v DEF LedgerInvariant, OneEffectPerKey
    <2>3. ASSUME NEW l \in KeySpace, idempotency_keys'[l] # None
          PROVE  /\ idempotency_keys'[l].id \in TxIds'
                 /\ transactions'[idempotency_keys'[l].id].key = l
      <3>1. CASE l = k
        BY <1>d, <1>f, <1>u, <1>v, <3>1
      <3>2. CASE l # k
        BY <1>d, <1>v, <1>w, <2>3, <3>2 DEF LedgerInvariant, OneEffectPerKey
      <3> QED
        BY <3>1, <3>2
    <2> QED
      BY <2>1, <2>2, <2>3 DEF OneEffectPerKey
  <1>4. ReversalsPair'
    <2>0. transactions[t].reversed_by_id = None
      BY <1>t, <1>v DEF LedgerInvariant, ReversalsPair
    <2>1. ASSUME NEW u \in TxIds'
          PROVE  /\ transactions'[u].status = "reversed" <=> transactions'[u].reversed_by_id # None
                 /\ transactions'[u].reversed_by_id # None =>
                       /\ transactions'[u].reversed_by_id \in TxIds'
                       /\ transactions'[transactions'[u].reversed_by_id].reverses_id = u
                       /\ transactions'[transactions'[u].reversed_by_id].postings
                             = ReversePostings(transactions'[u].postings)
      <3>1. CASE u = r
        BY <1>u, <1>f, <3>1
      <3>2. CASE u = t
        <4>1. r # None
          BY ConstantsAssumption
        <4> QED
          BY <1>u, <1>f, <1>o, <1>p, <1>v, <3>2, <4>1
      <3>3. CASE u # r /\ u # t
        <4>1. u \in TxIds /\ transactions'[u] = transactions[u]
          BY <1>u, <1>v, <1>w, <3>3
        <4> QED
          BY <1>v, <1>w, <4>1 DEF LedgerInvariant, ReversalsPair
      <3> QED
        BY <3>1, <3>2, <3>3
    <2>2. ASSUME NEW u \in TxIds', transactions'[u].reverses_id # None
          PROVE  /\ transactions'[u].reverses_id \in TxIds'
                 /\ transactions'[transactions'[u].reverses_id].reversed_by_id = u
      <3>1. CASE u = r
        BY <1>u, <1>f, <1>o, <1>v, <3>1
      <3>2. CASE u # r
        <4>1. /\ u \in TxIds /\ transactions[u].reverses_id \in TxIds
              /\ transactions'[u].reverses_id = transactions[u].reverses_id
              /\ transactions[transactions[u].reverses_id].reversed_by_id = u
          BY <1>v, <1>w, <2>2, <3>2 DEF LedgerInvariant, ReversalsPair
        <4>2. transactions[u].reverses_id # t
          BY <2>0, <4>1, ConstantsAssumption DEF TxIds
        <4> QED
          BY <1>u, <1>v, <1>w, <4>1, <4>2
      <3> QED
        BY <3>1, <3>2
    <2> QED
      BY <2>1, <2>2 DEF ReversalsPair
  <1>6. holds' \in [Requests -> Hold \cup {None}]
    BY <1>0 DEF LedgerInvariant, TypeOK
  <1> QED
    BY <1>0, <1>c, <1>u, <1>d, <1>1, <1>2, <1>3, <1>4, <1>5, <1>6, CommitKeeps DEF Codes

\* Committing a hold adds an active hold on a balance row that exists.
LEMMA CommitHoldKeeps ==
    ASSUME LedgerInvariant, NEW r \in Requests, CommitHold(r)
    PROVE  LedgerInvariant'
  <1> DEFINE in  == req[r]
             row == [key |-> in.key, account |-> in.account, asset |-> in.asset,
                     amount |-> in.units, status |-> "active",
                     captured_transaction_id |-> None, hash |-> Fingerprint(in)]
  <1>0. /\ pc[r] = "commit" /\ in.op = "hold"
        /\ holds' = [holds EXCEPT ![r] = row]
        /\ transactions' = transactions /\ idempotency_keys' = idempotency_keys
        /\ CommitBalances(r)
        /\ Emit("ledger.hold.created", r, 0, 0)
        /\ Answer(r, "created", r, "active")
    BY DEF CommitHold
  <1>s. Shape(r) /\ Protects(r)
    BY DEF LedgerInvariant, LocksProtect
  <1>i. in \in Inputs /\ in \in Keyed /\ in \in HoldInput /\ in.account \in Accounts /\ in.units > 0
    BY <1>0, <1>s, InputFields DEF Shape, Open, Keyed, Valid
  <1>k. /\ in.key \in KeySpace /\ HoldKey(in.key) \in locks[r]
        /\ HoldsWithKey(in.key) = {}
        /\ holds[r] = None
        /\ account_balances[RowOf(in)] # None
    BY <1>0, <1>s, <1>i DEF Protects, EffectiveKey, HoldInput, Shape
  <1>r. row \in Hold /\ row # None
    <2>1. row \in Hold
      BY <1>i, KeyType DEF HoldInput, Hold
    <2> HIDE DEF row
    <2> QED
      BY <2>1, ConstantsAssumption
  <1>f. row.key = in.key /\ row.amount = in.units /\ RowOf(row) = RowOf(in) /\ RowOf(in) \in Rows
    BY <1>i DEF RowOf, Rows, HoldInput
  <1> HIDE DEF row
  <1>h. /\ holds'[r] = row
        /\ \A h \in Requests \ {r} : holds'[h] = holds[h]
        /\ holds' \in [Requests -> Hold \cup {None}]
    BY <1>0, <1>r DEF LedgerInvariant, TypeOK
  <1>u. HoldIds' = HoldIds \cup {r} /\ r \notin HoldIds /\ TxIds' = TxIds
    BY <1>0, <1>k, <1>r, <1>h DEF TxIds, HoldIds
  <1>1. ASSUME NEW s \in Requests \ {r}
        PROVE  SameLocked(s)
    <2>1. \A k \in KeySpace : HoldKey(k) \in locks[s] /\ HoldsWithKey(k) = {} => HoldsWithKey(k)' = {}
      <3> SUFFICES ASSUME NEW k \in KeySpace, HoldKey(k) \in locks[s], HoldsWithKey(k) = {}
                   PROVE  HoldsWithKey(k)' = {}
        OBVIOUS
      <3>1. k # in.key
        BY <1>k DEF LedgerInvariant, LocksProtect, LocksExclusive
      <3> QED
        BY <1>f, <1>h, <3>1 DEF HoldsWithKey
    <2> QED
      BY <1>0, <1>k, <1>h, <2>1, BalancesKept DEF SameLocked, TransactionsWithKey
  <1>2. RowsExist'
    <2>1. ASSUME NEW h \in HoldIds'
          PROVE  holds'[h].amount > 0 /\ account_balances'[RowOf(holds'[h])] # None
      <3>1. CASE h = r
        BY <1>0, <1>i, <1>k, <1>f, <1>h, <3>1, BalancesKept
      <3>2. CASE h # r
        <4>1. h \in HoldIds /\ holds'[h] = holds[h]
          BY <1>h, <1>u, <3>2 DEF HoldIds
        <4> QED
          BY <1>0, <4>1, RowsKept
      <3> QED
        BY <3>1, <3>2
    <2> QED
      BY <1>0, <1>u, <2>1, RowsKept DEF RowsExist
  <1>3. OneEffectPerKey'
    <2>1. \A h, g \in HoldIds' : holds'[h].key = holds'[g].key => h = g
      BY <1>f, <1>h, <1>u, <1>k DEF LedgerInvariant, OneEffectPerKey, HoldsWithKey, HoldIds
    <2> QED
      BY <1>0, <1>u, <2>1 DEF LedgerInvariant, OneEffectPerKey
  <1>4. ReversalsPair'
    BY <1>0, <1>u DEF LedgerInvariant, ReversalsPair
  <1>5. outbox' \in Seq(Event)
    <2>1. Emit("ledger.hold.created", r, 0, 0) /\ TypeOK
      BY <1>0 DEF LedgerInvariant
    <2> QED
      BY ONLY <2>1, r \in Requests, EmitType
  <1>6. /\ transactions' \in [Requests -> Transaction \cup {None}]
        /\ idempotency_keys' \in [KeySpace -> StoredAnswer \cup {None}]
    BY <1>0 DEF LedgerInvariant, TypeOK
  <1> HIDE DEF in
  <1> QED
    BY <1>0, <1>h, <1>1, <1>2, <1>3, <1>4, <1>5, <1>6, CommitKeeps DEF Codes

\* Settling a hold changes its status only (and, for a capture, its link).
LEMMA SettleKeeps ==
    ASSUME LedgerInvariant, NEW r \in Requests, pc[r] = "commit", req[r].op \in SettleOps,
           NEW h, h = req[r].target, NEW row \in Hold, NEW status \in {"captured", "released"},
           row.key = holds[h].key, row.amount = holds[h].amount, RowOf(row) = RowOf(holds[h]),
           holds' = [holds EXCEPT ![h] = row],
           UNCHANGED <<transactions, idempotency_keys>>,
           outbox' \in Seq(Event),
           CommitBalances(r), Answer(r, "ok", h, status)
    PROVE  LedgerInvariant'
  <1>s. Shape(r) /\ Protects(r)
    BY DEF LedgerInvariant, LocksProtect
  <1>t. h \in Requests /\ HoldRow(h) \in locks[r] /\ holds[h] # None
    BY <1>s, TargetType DEF Protects, Shape, Open, SettleOps
  <1>r. row # None
    BY ConstantsAssumption
  <1>h. /\ holds'[h] = row
        /\ \A g \in Requests \ {h} : holds'[g] = holds[g]
        /\ holds' \in [Requests -> Hold \cup {None}]
    BY <1>t DEF LedgerInvariant, TypeOK
  <1>u. HoldIds' = HoldIds /\ TxIds' = TxIds
    BY <1>t, <1>r, <1>h DEF TxIds, HoldIds
  <1>w. \A g \in HoldIds : /\ holds'[g].key = holds[g].key
                           /\ holds'[g].amount = holds[g].amount
                           /\ RowOf(holds'[g]) = RowOf(holds[g])
    BY <1>h DEF HoldIds
  <1>1. ASSUME NEW s \in Requests \ {r}
        PROVE  SameLocked(s)
    <2>1. \A k \in KeySpace : HoldsWithKey(k)' = HoldsWithKey(k)
      BY <1>t, <1>r, <1>h DEF HoldsWithKey
    <2>2. HoldRow(h) \notin locks[s]
      BY <1>t DEF LedgerInvariant, LocksProtect, LocksExclusive
    <2>3. pc[s] # "done" => s # h
      BY <1>t DEF LedgerInvariant, LocksProtect, Shape
    <2> QED
      BY <1>h, <2>1, <2>2, <2>3, BalancesKept DEF SameLocked, TransactionsWithKey
  <1>2. RowsExist'
    BY <1>u, <1>w, RowsKept DEF RowsExist
  <1>3. OneEffectPerKey' /\ ReversalsPair'
    BY <1>u, <1>w DEF LedgerInvariant, OneEffectPerKey, ReversalsPair
  <1>4. /\ transactions' \in [Requests -> Transaction \cup {None}]
        /\ idempotency_keys' \in [KeySpace -> StoredAnswer \cup {None}]
    BY DEF LedgerInvariant, TypeOK
  <1>5. /\ "ok" \in Codes /\ h \in Requests \cup {None}
        /\ status \in {"draft", "posted", "active", "captured", "released", None}
    BY <1>t DEF Codes
  <1> QED
    BY <1>h, <1>1, <1>2, <1>3, <1>4, <1>5, CommitKeeps

\* The hold a request settles
LEMMA SettledHold ==
    ASSUME LedgerInvariant, NEW r \in Requests, pc[r] = "commit", req[r].op \in SettleOps
    PROVE  /\ req[r].target \in Requests /\ holds[req[r].target] \in Hold
           /\ holds[req[r].target].status = "active"
           /\ req[r].op = "capture" => req[r] \in CaptureInput
  <1>1. Shape(r) /\ Protects(r)
    BY DEF LedgerInvariant, LocksProtect
  <1>2. req[r] \in Inputs
    BY <1>1 DEF Shape, Open
  <1> QED
    BY <1>1, <1>2, TargetType, InputFields DEF Protects, SettleOps, LedgerInvariant, TypeOK

\* Committing a capture settles the hold the request has locked.
LEMMA CommitCaptureKeeps ==
    ASSUME LedgerInvariant, NEW r \in Requests, CommitCapture(r)
    PROVE  LedgerInvariant'
  <1> DEFINE in   == req[r]
             h    == in.target
             half == [holds[h] EXCEPT !.status = "captured"]
             row  == [holds[h] EXCEPT !.status = "captured",
                                      !.captured_transaction_id = in.transaction]
             captured == IF in.asset = None THEN holds[h].amount ELSE in.units
  <1>0. pc[r] = "commit" /\ in.op \in SettleOps /\ in.op = "capture"
    BY DEF CommitCapture, SettleOps
  <1>1. h \in Requests /\ holds[h] \in Hold /\ in \in CaptureInput
    BY <1>0, SettledHold
  <1>2. /\ holds' = [holds EXCEPT ![h] = row]
        /\ UNCHANGED <<transactions, idempotency_keys>>
        /\ Emit("ledger.hold.captured", h, captured, holds[h].amount - captured)
        /\ CommitBalances(r)
        /\ Answer(r, "ok", h, "captured")
    BY <1>1 DEF CommitCapture
  <1>3. outbox' \in Seq(Event)
    <2>1. captured \in Int /\ holds[h].amount - captured \in Int
      BY <1>1 DEF Hold, CaptureInput
    <2> DEFINE left == holds[h].amount - captured
    <2>2. Emit("ledger.hold.captured", h, captured, left) /\ left \in Int /\ TypeOK
      BY <1>2, <2>1 DEF LedgerInvariant
    <2> HIDE DEF captured, left, h, row
    <2> QED
      BY ONLY <1>1, <2>1, <2>2, EmitType
  <1>4. /\ row.key = holds[h].key /\ row.amount = holds[h].amount
        /\ RowOf(row) = RowOf(holds[h])
    BY <1>1 DEF Hold, RowOf
  <1>5. row \in Hold
    <2>1. half \in Hold
      BY <1>1 DEF Hold
    <2>2. row = [half EXCEPT !.captured_transaction_id = in.transaction]
      BY <1>1 DEF Hold
    <2>3. in.transaction \in Requests \cup {None}
      BY <1>1 DEF CaptureInput
    <2> HIDE DEF half, row
    <2> QED
      BY <2>1, <2>2, <2>3 DEF Hold
  <1> HIDE DEF row
  <1> QED
    BY <1>0, <1>2, <1>3, <1>4, <1>5, SettleKeeps

\* Committing a release settles the hold the request has locked.
LEMMA CommitReleaseKeeps ==
    ASSUME LedgerInvariant, NEW r \in Requests, CommitRelease(r)
    PROVE  LedgerInvariant'
  <1> DEFINE h   == req[r].target
             row == [holds[h] EXCEPT !.status = "released"]
  <1>0. pc[r] = "commit" /\ req[r].op \in SettleOps
    BY DEF CommitRelease, SettleOps
  <1>1. h \in Requests /\ holds[h] \in Hold
    BY <1>0, SettledHold
  <1>2. /\ holds' = [holds EXCEPT ![h] = row]
        /\ UNCHANGED <<transactions, idempotency_keys>>
        /\ Emit("ledger.hold.released", h, 0, holds[h].amount)
        /\ CommitBalances(r)
        /\ Answer(r, "ok", h, "released")
    BY <1>1 DEF CommitRelease
  <1>3. outbox' \in Seq(Event)
    <2> DEFINE amount == holds[h].amount
    <2>1. amount \in Int
      BY <1>1 DEF Hold
    <2>2. Emit("ledger.hold.released", h, 0, amount) /\ TypeOK
      BY <1>2 DEF LedgerInvariant
    <2> HIDE DEF amount, h, row
    <2> QED
      BY ONLY <1>1, <2>1, <2>2, EmitType
  <1>4. /\ row \in Hold
        /\ row.key = holds[h].key /\ row.amount = holds[h].amount
        /\ RowOf(row) = RowOf(holds[h])
    BY <1>1 DEF Hold, RowOf
  <1> HIDE DEF row
  <1> QED
    BY <1>0, <1>2, <1>3, <1>4, SettleKeeps

---------------------------------------------------------------------------
(* The theorems.                                                           *)

\* The empty tables satisfy the invariant.
LEMMA InitEstablishes == Init => LedgerInvariant
  <1> SUFFICES ASSUME Init
               PROVE  LedgerInvariant
    OBVIOUS
  <1>1. TypeOK
    BY DEF Init, TypeOK, Steps, NoVersions
  <1>2. LocksExclusive
    BY DEF Init, LocksExclusive
  <1>3. \A r \in Requests : Shape(r) /\ Protects(r) /\ Versions(r)
    BY DEF Init, Shape, Protects, Versions, Open
  <1>4. TxIds = {} /\ HoldIds = {}
    BY DEF Init, TxIds, HoldIds
  <1>5. RowsExist /\ ReversalsPair
    BY <1>4 DEF RowsExist, ReversalsPair
  <1>6. OneEffectPerKey
    BY <1>4 DEF Init, OneEffectPerKey
  <1> QED
    BY <1>1, <1>2, <1>3, <1>5, <1>6 DEF LedgerInvariant, LocksProtect

\* A step that changes nothing keeps the invariant.
LEMMA StutterKeeps ==
    ASSUME LedgerInvariant, UNCHANGED vars
    PROVE  LedgerInvariant'
  <1>1. TypeOK'
    BY DEF LedgerInvariant, TypeOK, vars
  <1>2. LocksExclusive'
    BY DEF LedgerInvariant, LocksProtect, LocksExclusive, vars
  <1>3. ASSUME NEW s \in Requests
        PROVE  Local(s)'
    <2>1. SameControl(s) /\ SameLocked(s)
      BY DEF vars, SameControl, SameLocked, TransactionsWithKey, HoldsWithKey
    <2> QED
      BY <2>1, Frame DEF LedgerInvariant, LocksProtect, Local
  <1>4. RowsExist' /\ OneEffectPerKey' /\ ReversalsPair'
    BY DEF LedgerInvariant, vars, RowsExist, OneEffectPerKey, ReversalsPair, TxIds, HoldIds
  <1> QED
    BY <1>1, <1>2, <1>3, <1>4 DEF LedgerInvariant, LocksProtect, Local

\* The invariant is inductive: one case for each action of Next.
LEMMA NextKeeps == LedgerInvariant /\ [Next]_vars => LedgerInvariant'
  <1> SUFFICES ASSUME LedgerInvariant, [Next]_vars
               PROVE  LedgerInvariant'
    OBVIOUS
  <1>1. ASSUME NEW r \in Requests, NEW in \in Inputs, Receive(r, in) \/ Reject(r, in)
        PROVE  LedgerInvariant'
    BY <1>1, ReceiveKeeps
  <1>2. ASSUME NEW r \in Requests, Step(r)
        PROVE  LedgerInvariant'
    BY <1>2, LookupHitKeeps, LookupMissKeeps, CheckReferencesKeeps, FaultKeeps, PostLockKeeps, ReverseLockKeeps,
       HoldLockKeeps, SettleLockKeeps, InsertTransactionKeeps, InsertHoldKeeps,
       ApplyBalanceKeeps, ReleaseHeldKeeps, CommitCreateKeeps, CommitPostKeeps,
       CommitReverseKeeps, CommitHoldKeeps, CommitCaptureKeeps, CommitReleaseKeeps
    DEF Step
  <1>3. ASSUME NEW r \in Requests, Fault(r)
        PROVE  LedgerInvariant'
    BY <1>3, FaultKeeps
  <1>4. CASE Finished \/ UNCHANGED vars
    BY <1>4, StutterKeeps DEF Finished
  <1> QED
    BY <1>1, <1>2, <1>3, <1>4 DEF Next

\* The inductive invariant holds in every state of every behaviour of the write
\* path of ledger-core.
THEOREM InvariantHolds == Spec => []LedgerInvariant
  BY InitEstablishes, NextKeeps, PTL DEF Spec

\* Type correctness: for any set of requests, whatever the interleaving, the
\* tables of migration 0001 and the requests' own state keep their shapes.
THEOREM TypeCorrect == Spec => []TypeOK
  <1>1. LedgerInvariant => TypeOK
    BY DEF LedgerInvariant
  <1> QED
    BY <1>1, InvariantHolds, PTL

\* The FOR UPDATE and unique-index protocol of store.go works: whatever a
\* request found under its locks is still so when it commits.
THEOREM LocksAlwaysProtect == Spec => []LocksProtect
  <1>1. LedgerInvariant => LocksProtect
    BY DEF LedgerInvariant
  <1> QED
    BY <1>1, InvariantHolds, PTL

\* Exactly-once effects: no two transactions and no two holds share an
\* idempotency key, however many retries run at once.
THEOREM KeysHaveOneEffect == Spec => []OneEffectPerKey
  <1>1. LedgerInvariant => OneEffectPerKey
    BY DEF LedgerInvariant
  <1> QED
    BY <1>1, InvariantHolds, PTL

\* A transaction is reversed if and only if its one compensating transaction exists.
THEOREM ReversalsAlwaysPair == Spec => []ReversalsPair
  <1>1. LedgerInvariant => ReversalsPair
    BY DEF LedgerInvariant
  <1> QED
    BY <1>1, InvariantHolds, PTL

---------------------------------------------------------------------------
(* What a step may never do.                                               *)

Commit(r) ==
    \/ CommitCreate(r) \/ CommitPost(r) \/ CommitReverse(r)
    \/ CommitHold(r) \/ CommitCapture(r) \/ CommitRelease(r)

\* Only a commit writes the tables.
LEMMA OnlyCommitsWrite ==
    ASSUME [Next]_vars
    PROVE  UNCHANGED tables \/ \E r \in Requests : Commit(r)
  <1>1. ASSUME NEW r \in Requests, NEW in \in Inputs, Receive(r, in) \/ Reject(r, in)
        PROVE  UNCHANGED tables
    BY <1>1 DEF Receive, Reject
  <1>2. ASSUME NEW r \in Requests, Step(r)
        PROVE  UNCHANGED tables \/ Commit(r)
    <2>1. CASE LookupHit(r) \/ LookupMiss(r) \/ CheckReferences(r) \/ Recheck(r)
      BY <2>1 DEF LookupHit, LookupMiss, CheckReferences, Recheck, Fail, Advance
    <2>2. CASE TargetMissing(r) \/ PostLock(r) \/ ReverseLock(r) \/ HoldLock(r) \/ SettleLock(r)
      BY <2>2 DEF TargetMissing, PostLock, ReverseLock, HoldLock, SettleLock, Fail, Advance
    <2>3. CASE InsertTransaction(r) \/ InsertHold(r)
      BY <2>3 DEF InsertTransaction, InsertHold, UniqueViolation, Advance
    <2>4. CASE ApplyBalance(r) \/ ReleaseHeld(r) \/ DeadlockVictim(r)
      BY <2>4 DEF ApplyBalance, ReleaseHeld, DeadlockVictim, Fail, Advance
    <2> QED
      BY <1>2, <2>1, <2>2, <2>3, <2>4 DEF Step, Commit
  <1>3. ASSUME NEW r \in Requests, Fault(r)
        PROVE  UNCHANGED tables
    BY <1>3 DEF Fault, Crash, RecheckFails, Fail
  <1>4. CASE Finished \/ UNCHANGED vars
    BY <1>4 DEF Finished, vars, tables
  <1> QED
    BY <1>1, <1>2, <1>3, <1>4 DEF Next

\* The only commit that raises held is a hold's, and it was checked under the lock.
LEMMA CommitReserves ==
    ASSUME LedgerInvariant, NEW r \in Requests, Commit(r)
    PROVE  ReservesAvailable
  <1> DEFINE in == req[r]
  <1>0. pc[r] = "commit" /\ CommitBalances(r)
    BY DEF Commit, CommitCreate, CommitPost, CommitReverse, CommitHold, CommitCapture, CommitRelease
  <1>s. Shape(r) /\ Protects(r) /\ Versions(r)
    BY DEF LedgerInvariant, LocksProtect
  <1>i. in \in Inputs
    BY <1>0, <1>s DEF Shape, Open
  <1> SUFFICES ASSUME NEW x \in Rows,
                      OrZero(account_balances'[x]).held > OrZero(account_balances[x]).held
               PROVE  Available(OrZero(account_balances'[x]), NormalBalance[x[1]]) >= 0
    BY DEF ReservesAvailable
  <1>1. account_balances'[x] = Current(r, x)
    BY <1>0 DEF CommitBalances
  <1>t. account_balances[x] \in Balance \cup {None} /\ OrZero(account_balances[x]) \in Balance
    <2>1. account_balances[x] \in Balance \cup {None}
      BY DEF LedgerInvariant, TypeOK
    <2>2. ZeroBalance \in Balance
      BY DEF ZeroBalance, Balance
    <2> QED
      BY <2>1, <2>2 DEF OrZero
  <1>h. OrZero(account_balances[x]).held \in Int
    BY <1>t DEF Balance
  <1>2. BalanceRow(x) \in locks[r] /\ account_balances'[x] = uncommitted[r][x]
    BY <1>1, <1>h DEF Current
  <1>3. CASE in.op \in TxOps
    <2>1. uncommitted[r][x] # None /\ uncommitted[r][x].held = OrZero(account_balances[x]).held
      BY <1>0, <1>s, <1>2, <1>3 DEF Versions
    <2>2. OrZero(account_balances'[x]).held = OrZero(account_balances[x]).held
      BY <1>2, <2>1 DEF OrZero
    <2> QED
      BY <1>h, <2>2
  <1>4. CASE in.op \in SettleOps
    <2>1. /\ x = RowOf(holds[in.target])
          /\ uncommitted[r][x] = [account_balances[x] EXCEPT !.held = @ - holds[in.target].amount]
      BY <1>0, <1>s, <1>2, <1>4 DEF Versions
    <2>2. in.target \in HoldIds /\ holds[in.target] \in Hold
      BY <1>0, <1>4, SettledHold, ConstantsAssumption DEF HoldIds
    <2>3. account_balances[x] # None /\ holds[in.target].amount > 0
      BY <2>1, <2>2 DEF LedgerInvariant, RowsExist
    <2>4. holds[in.target].amount \in Int /\ account_balances[x] \in Balance
      BY <1>t, <2>2, <2>3 DEF Hold
    <2>5. /\ uncommitted[r][x] \in Balance
          /\ uncommitted[r][x].held = account_balances[x].held - holds[in.target].amount
      BY <2>1, <2>4, HeldType DEF Balance
    <2>6. OrZero(account_balances'[x]).held = account_balances[x].held - holds[in.target].amount
      BY <1>2, <2>5, ConstantsAssumption DEF OrZero
    <2>7. OrZero(account_balances[x]) = account_balances[x]
      BY <2>3 DEF OrZero
    <2> QED
      BY <1>h, <2>3, <2>4, <2>6, <2>7
  <1>5. CASE in.op = "hold"
    <2>1. /\ x = RowOf(in) /\ account_balances[x] # None
          /\ uncommitted[r][x] = [account_balances[x] EXCEPT !.held = @ + in.units]
          /\ Available(account_balances[x], NormalBalance[in.account]) >= in.units
      BY <1>0, <1>s, <1>2, <1>5 DEF Versions, Protects
    <2>2. in.units \in Int /\ x[1] = in.account /\ account_balances[x] \in Balance
      BY <1>i, <1>5, <1>t, <2>1, InputFields DEF HoldInput, RowOf
    <2>3. uncommitted[r][x] \in Balance
      BY <2>1, <2>2, HeldType DEF Balance
    <2>4. OrZero(account_balances'[x]) = [account_balances[x] EXCEPT !.held = @ + in.units]
      BY <1>2, <2>1, <2>3, ConstantsAssumption DEF OrZero
    <2> QED
      BY <2>1, <2>2, <2>4 DEF Available, PostedNet, Balance
  <1> QED
    BY <1>i, <1>3, <1>4, <1>5, InputFields

\* Funds are never reserved twice, for any number of concurrent holds, captures,
\* releases and transactions on one account (docs/concurrency.md).
THEOREM NeverOverReserved == Spec => NoOverReservation
  <1>1. LedgerInvariant /\ [Next]_vars => [ReservesAvailable]_vars
    <2> SUFFICES ASSUME LedgerInvariant, [Next]_vars
                 PROVE  ReservesAvailable
      OBVIOUS
    <2>1. CASE UNCHANGED tables
      <3>1. \A x \in Rows : OrZero(account_balances[x]).held \in Int
        BY DEF LedgerInvariant, TypeOK, OrZero, ZeroBalance, Balance
      <3> QED
        BY <2>1, <3>1 DEF ReservesAvailable, tables
    <2> QED
      BY <2>1, OnlyCommitsWrite, CommitReserves
  <1> QED
    BY <1>1, InvariantHolds, PTL DEF Spec, NoOverReservation

\* Appending keeps what was there.
LEMMA AppendPrefix ==
    ASSUME NEW s \in Seq(Event), NEW e \in Event
    PROVE  Len(Append(s, e)) >= Len(s) /\ SubSeq(Append(s, e), 1, Len(s)) = s
  OBVIOUS

\* The events so far stay where they are.
OutboxGrows == Len(outbox') >= Len(outbox) /\ SubSeq(outbox', 1, Len(outbox)) = outbox

\* An emitted event goes to the end of the outbox.
LEMMA EmitGrows ==
    ASSUME TypeOK, NEW topic \in {"ledger.transaction.posted", "ledger.transaction.reversed",
                                  "ledger.hold.created", "ledger.hold.captured",
                                  "ledger.hold.released"},
           NEW id \in Requests, NEW captured \in Int, NEW released \in Int,
           Emit(topic, id, captured, released)
    PROVE  OutboxGrows
  <1>1. [topic |-> topic, id |-> id, captured |-> captured, released |-> released] \in Event
    BY DEF Event
  <1>2. outbox \in Seq(Event)
    BY DEF TypeOK
  <1> QED
    BY <1>1, <1>2, AppendPrefix DEF Emit, OutboxGrows

\* An untouched outbox keeps all its events.
LEMMA StillOutboxGrows ==
    ASSUME TypeOK, UNCHANGED outbox
    PROVE  OutboxGrows
  <1>1. outbox \in Seq(Event)
    BY DEF TypeOK
  <1> QED
    BY <1>1 DEF OutboxGrows

\* Every commit only appends to transactions, settled holds and the outbox.
LEMMA CommitAppends ==
    ASSUME LedgerInvariant, NEW r \in Requests, Commit(r)
    PROVE  AppendsOnly
  <1> DEFINE in == req[r]
             TxKept(t) ==
                 /\ transactions'[t] # None
                 /\ transactions'[t].key = transactions[t].key
                 /\ transactions'[t].postings = transactions[t].postings
                 /\ transactions'[t].reverses_id = transactions[t].reverses_id
                 /\ <<transactions[t].status, transactions'[t].status>> \in
                       {<<"draft", "draft">>, <<"draft", "posted">>, <<"posted", "posted">>,
                        <<"posted", "reversed">>, <<"reversed", "reversed">>}
             HoldKept(h) ==
                 /\ holds'[h] # None
                 /\ holds[h].status # "active" => holds'[h] = holds[h]
  <1>c. pc[r] = "commit"
    BY DEF Commit, CommitCreate, CommitPost, CommitReverse, CommitHold, CommitCapture, CommitRelease
  <1>s. Shape(r) /\ Protects(r) /\ TypeOK
    BY DEF LedgerInvariant, LocksProtect
  <1>i. /\ in \in Inputs /\ r \notin TxIds /\ r \notin HoldIds
    BY <1>c, <1>s DEF Shape, Open, TxIds, HoldIds
  <1>t. ASSUME NEW t \in TxIds
        PROVE  t \in Requests /\ transactions[t] \in Transaction /\ transactions[t] # None
               /\ transactions[t].status \in {"draft", "posted", "reversed"}
    BY <1>s DEF TxIds, TypeOK, Transaction
  <1>a. ASSUME NEW t \in TxIds, transactions'[t] = transactions[t]
        PROVE  TxKept(t)
    BY <1>t, <1>a
  <1>b. ASSUME NEW h \in HoldIds, holds'[h] = holds[h]
        PROVE  HoldKept(h)
    BY <1>b DEF HoldIds
  <1>1. CASE CommitCreate(r)
    <2>1. \A t \in TxIds : TxKept(t)
      BY <1>1, <1>a, <1>i, <1>s DEF CommitCreate, TypeOK, TxIds
    <2>2. \A h \in HoldIds : HoldKept(h)
      BY <1>1, <1>b DEF CommitCreate
    <2>3. OutboxGrows
      <3>1. CASE in.status = "posted"
        BY <1>1, <1>s, <3>1, EmitGrows DEF CommitCreate
      <3>2. CASE in.status # "posted"
        BY <1>1, <1>s, <3>2, StillOutboxGrows DEF CommitCreate
      <3> QED
        BY <3>1, <3>2
    <2> QED
      BY <2>1, <2>2, <2>3 DEF AppendsOnly, OutboxGrows
  <1>2. CASE CommitPost(r)
    <2> DEFINE t == in.target
    <2>0. t \in TxIds /\ transactions[t].status = "draft" /\ t \in Requests
      BY <1>2, <1>c, <1>s, <1>i, TargetType DEF CommitPost, Protects, TxIds
    <2>r. LET row == [transactions[t] EXCEPT !.status = "posted"]
          IN  /\ row \in Transaction /\ row.key = transactions[t].key
              /\ row.postings = transactions[t].postings /\ row.status = "posted"
              /\ row.reverses_id = transactions[t].reverses_id
      BY <1>t, <2>0 DEF Transaction
    <2>u. /\ transactions'[t] = [transactions[t] EXCEPT !.status = "posted"]
          /\ \A u \in Requests \ {t} : transactions'[u] = transactions[u]
      BY <1>2, <1>s, <2>0 DEF CommitPost, TypeOK
    <2>1. \A u \in TxIds : TxKept(u)
      <3>1. TxKept(t)
        BY <2>0, <2>r, <2>u, ConstantsAssumption
      <3> QED
        BY <1>a, <2>u, <3>1 DEF TxIds
    <2>2. \A h \in HoldIds : HoldKept(h)
      BY <1>2, <1>b DEF CommitPost
    <2>3. OutboxGrows
      BY <1>2, <1>s, <2>0, EmitGrows DEF CommitPost
    <2> QED
      BY <2>1, <2>2, <2>3 DEF AppendsOnly, OutboxGrows
  <1>3. CASE CommitReverse(r)
    <2> DEFINE t   == in.target
               old == [transactions[t] EXCEPT !.status = "reversed", !.reversed_by_id = r]
    <2>0. t \in TxIds /\ transactions[t].status = "posted" /\ t \in Requests /\ t # r
      BY <1>3, <1>c, <1>s, <1>i, TargetType DEF CommitReverse, Protects, TxIds
    <2>r. /\ old.key = transactions[t].key
          /\ old.postings = transactions[t].postings /\ old.status = "reversed"
          /\ old.reverses_id = transactions[t].reverses_id
      BY <1>t, <2>0 DEF Transaction
    <2>n. old # None
      <3> DEFINE half == [transactions[t] EXCEPT !.status = "reversed"]
      <3>1. half \in Transaction
        BY <1>t, <2>0 DEF Transaction
      <3>2. old = [half EXCEPT !.reversed_by_id = r]
        BY <1>t, <2>0 DEF Transaction
      <3> HIDE DEF half, old
      <3>3. old \in Transaction
        BY <3>1, <3>2 DEF Transaction
      <3> QED
        BY <3>3, ConstantsAssumption
    <2>u. /\ transactions'[t] = old
          /\ \A u \in Requests \ {r, t} : transactions'[u] = transactions[u]
      BY <1>3, <1>s, <2>0 DEF CommitReverse, TypeOK
    <2>1. \A u \in TxIds : TxKept(u)
      <3> HIDE DEF old
      <3>1. TxKept(t)
        BY <2>0, <2>r, <2>n, <2>u
      <3> QED
        BY <1>a, <1>i, <2>u, <3>1 DEF TxIds
    <2>2. \A h \in HoldIds : HoldKept(h)
      BY <1>3, <1>b DEF CommitReverse
    <2>3. OutboxGrows
      <3>1. Emit("ledger.transaction.reversed", t, 0, 0)
        BY <1>3 DEF CommitReverse
      <3> HIDE DEF t
      <3> QED
        BY <1>s, <2>0, <3>1, EmitGrows
    <2> QED
      BY <2>1, <2>2, <2>3 DEF AppendsOnly, OutboxGrows
  <1>4. CASE CommitHold(r)
    <2>1. \A t \in TxIds : TxKept(t)
      BY <1>4, <1>a DEF CommitHold
    <2>2. \A h \in HoldIds : HoldKept(h)
      BY <1>4, <1>b, <1>i, <1>s DEF CommitHold, TypeOK, HoldIds
    <2>3. OutboxGrows
      BY <1>4, <1>s, EmitGrows DEF CommitHold
    <2> QED
      BY <2>1, <2>2, <2>3 DEF AppendsOnly, OutboxGrows
  <1>5. CASE CommitCapture(r) \/ CommitRelease(r)
    <2> DEFINE h == in.target
    <2>0. /\ h \in Requests /\ holds[h] \in Hold /\ holds[h].status = "active"
          /\ CommitCapture(r) => in \in CaptureInput
      BY <1>5, <1>c, SettledHold DEF CommitCapture, CommitRelease, SettleOps
    <2>1. \A t \in TxIds : TxKept(t)
      BY <1>5, <1>a DEF CommitCapture, CommitRelease
    <2>2. \A g \in HoldIds : HoldKept(g)
      <3>1. \A g \in Requests \ {h} : holds'[g] = holds[g]
        BY <1>5, <1>s, <2>0 DEF CommitCapture, CommitRelease, TypeOK
      <3>3. holds'[h] # None
        <4>1. CASE CommitRelease(r)
          <5>1. holds'[h] = [holds[h] EXCEPT !.status = "released"]
            BY <4>1, <1>s, <2>0 DEF CommitRelease, TypeOK
          <5>2. [holds[h] EXCEPT !.status = "released"] \in Hold
            BY <2>0 DEF Hold
          <5> QED
            BY <5>1, <5>2, ConstantsAssumption
        <4>2. CASE CommitCapture(r)
          <5> DEFINE half == [holds[h] EXCEPT !.status = "captured"]
          <5>1. holds'[h] = [half EXCEPT !.captured_transaction_id = in.transaction]
            BY <4>2, <1>s, <2>0 DEF CommitCapture, TypeOK, Hold
          <5>2. half \in Hold /\ in.transaction \in Requests \cup {None}
            BY <4>2, <2>0 DEF Hold, CaptureInput
          <5> HIDE DEF half
          <5>3. [half EXCEPT !.captured_transaction_id = in.transaction] \in Hold
            BY <5>2 DEF Hold
          <5> QED
            BY <5>1, <5>3, ConstantsAssumption
        <4> QED
          BY <1>5, <4>1, <4>2
      <3> QED
        BY <1>b, <2>0, <3>1, <3>3 DEF HoldIds
    <2>3. OutboxGrows
      <3> DEFINE amount   == holds[h].amount
                 captured == IF in.asset = None THEN amount ELSE in.units
                 rest     == amount - captured
      <3>1. amount \in Int
        BY <2>0 DEF Hold
      <3>2. CASE CommitRelease(r)
        <4>1. Emit("ledger.hold.released", h, 0, amount)
          BY <3>2 DEF CommitRelease
        <4> HIDE DEF amount
        <4> QED
          BY <1>s, <2>0, <3>1, <4>1, EmitGrows
      <3>3. CASE CommitCapture(r)
        <4>1. Emit("ledger.hold.captured", h, captured, rest)
          BY <3>3 DEF CommitCapture
        <4>2. captured \in Int /\ rest \in Int
          BY <2>0, <3>1, <3>3 DEF CaptureInput
        <4> HIDE DEF captured, rest
        <4> QED
          BY <1>s, <2>0, <4>1, <4>2, EmitGrows
      <3> QED
        BY <1>5, <3>2, <3>3
    <2> QED
      BY <2>1, <2>2, <2>3 DEF AppendsOnly, OutboxGrows
  <1> QED
    BY <1>1, <1>2, <1>3, <1>4, <1>5 DEF Commit

\* Posted history is append-only, for any number of requests (I-2): a committed
\* transaction never changes its key, its postings or its reversal link, a settled
\* hold is final, and the outbox only grows.
THEOREM HistoryNeverRewritten == Spec => HistoryIsAppendOnly
  <1>1. LedgerInvariant /\ [Next]_vars => [AppendsOnly]_vars
    <2> SUFFICES ASSUME LedgerInvariant, [Next]_vars
                 PROVE  AppendsOnly
      OBVIOUS
    <2>1. CASE UNCHANGED tables
      <3>1. OutboxGrows
        BY <2>1, StillOutboxGrows DEF LedgerInvariant, tables
      <3>2. \A t \in TxIds : transactions[t].status \in {"draft", "posted", "reversed"}
        BY DEF LedgerInvariant, TypeOK, TxIds, Transaction
      <3> QED
        BY <2>1, <3>1, <3>2 DEF AppendsOnly, OutboxGrows, tables, TxIds, HoldIds
    <2> QED
      BY <2>1, OnlyCommitsWrite, CommitAppends
  <1> QED
    BY <1>1, InvariantHolds, PTL DEF Spec, HistoryIsAppendOnly
=============================================================================
