---------------------------- MODULE Reconciliation ----------------------------
(***************************************************************************)
(* The reconciliation service of one tenant: the mirror of the ledger's    *)
(* postings fed by ledger.transaction.posted events, the sources and their *)
(* imported statements, the runs of the matcher and the triage of the      *)
(* discrepancies they find.  A run is one Read Committed transaction of    *)
(* several statements; imports, which only insert, are one step.  The      *)
(* stream holds every event from the start: the consumer is DeliverAll, so *)
(* an event that is published late is one that is delivered late.          *)
(*                                                                         *)
(* An external row is identified by its place in the sequence externals    *)
(* (ids are UUIDv7: they grow), a mirror entry by its event and the index  *)
(* of the posting, a discrepancy by its run and its row.                   *)
(***************************************************************************)
EXTENDS Integers, Sequences, FiniteSets, FiniteSetsExt

CONSTANTS
    Sources,     \* the names under which sources are registered
    Events,      \* the ledger.transaction.posted events
    Malformed,   \* those whose envelope, tenant or payload cannot be decoded
    Reference,   \* Reference[e]: the idempotency key of the event's transaction
    Postings,    \* Postings[e]: its postings, a sequence of [direction, amount, asset]
    Rank,        \* Rank[id]: the place of a mirror entry in the order of (posted_at, id)
    Assets,
    Exponent,    \* Exponent[a]: the decimal places DefaultAssetExponent gives a
    MaxInt64,    \* the largest number of minor units
    Statements,  \* the CSV files that are uploaded, sequences of rows
    Runs,        \* one per POST /v1/reconciliation/runs
    Editors,     \* one per PATCH of a discrepancy
    Triages,     \* what editors ask for: a discrepancy, its status and a note or None
    MaxImports,  \* bound: the number of uploads
    None

\* The ledger's idempotency keys are unique in a tenant, so a reference names
\* one transaction.
ASSUME ReferencesAreKeys ==
    /\ Reference \in [Events -> STRING]
    /\ \A d, e \in Events : d # e => Reference[d] # Reference[e]

Directions == {"DEBIT", "CREDIT"}

\* A statement's row as the CSV reader sees it; None: no direction is declared
StatementRow ==
    [ref : STRING, value : Int, scale : Nat, asset : Assets, direction : Directions \cup {None},
     occurred : Nat, wellFormed : BOOLEAN]

\* A row of reconciliation_runs
RunRow == [source : Sources, status : {"completed"}, matched : Nat, unmatched : Nat]

\* The kinds of recon.discrepancy.detected events (nothing finds "missing_in_source")
WireKinds == {"missing_in_ledger", "amount_mismatch"}

\* Postings and rows have their columns, dates are numbers, and None is no value
\* of a column.
ASSUME InputsAreTyped ==
    /\ \A e \in Events : Postings[e] \in Seq([direction : Directions, amount : Int, asset : Assets])
    /\ Statements \subseteq Seq(StatementRow)
    /\ MaxInt64 \in Nat
    /\ None \notin WireKinds /\ None \notin RunRow

VARIABLES
    stream,         \* stream[e]: "ready" (to be delivered) or "done" (acknowledged or terminated)
    mirror,         \* ledger_entries_mirror
    sources,        \* sources
    imports,        \* imports, in the order of their ids
    externals,      \* external_transactions, in the order of their ids
    tx,             \* tx[r]: the transaction of run r
    runs,           \* reconciliation_runs: what is committed of run r, or None
    discrepancies,  \* discrepancies
    outbox,         \* outbox: the recon.discrepancy.detected events
    edit,           \* edit[d]: the transaction of editor d
    rivals          \* history: the runs that had read row i when it was settled

vars == <<stream, mirror, sources, imports, externals, tx, runs, discrepancies,
          outbox, edit, rivals>>

-----------------------------------------------------------------------------
Kinds    == {"missing_internal", "amount_mismatch", "duplicate"}
Statuses == {"open", "investigating", "resolved"}
Settled  == {"matched", "disputed"}

\* Mutant: the id of a posting leaves out its index.
IdOfTransaction(e, i) == <<e, 1>>

\* An id that is the same whenever the event is delivered
PostingID(e, i) == <<e, i>>

Entry(e, i) ==
    [id |-> PostingID(e, i), reference |-> Reference[e],
     direction |-> Postings[e][i].direction, amount |-> Postings[e][i].amount,
     asset |-> Postings[e][i].asset]

EntriesOf(e) == {Entry(e, i) : i \in DOMAIN Postings[e]}

Entries   == UNION {EntriesOf(e) : e \in Events}
EntryIds  == {m.id : m \in Entries}

\* The postings of an event share posted_at, and their ids are hashes: the order of
\* the entries is total, and not that of the postings.
ASSUME EntriesAreOrdered ==
    /\ \A id \in EntryIds : Rank[id] \in Nat
    /\ \A id, jd \in EntryIds : id # jd => Rank[id] # Rank[jd]

\* ORDER BY posted_at, id
Earlier(m, n) == Rank[m.id] < Rank[n.id]

FirstOf(S) == CHOOSE m \in S : \A n \in S \ {m} : Earlier(m, n)

-----------------------------------------------------------------------------
(* The mirror: handle of the durable consumer *)

\* The ledger's relay publishes an event again.
Republish(e) ==
    /\ stream[e] = "done"
    /\ stream' = [stream EXCEPT ![e] = "ready"]
    /\ UNCHANGED <<mirror, sources, imports, externals, tx, runs, discrepancies, outbox, edit, rivals>>

\* What cannot be decoded is terminated: it is not delivered again.
Term(e) ==
    /\ stream[e] = "ready" /\ e \in Malformed
    /\ stream' = [stream EXCEPT ![e] = "done"]
    /\ UNCHANGED <<mirror, sources, imports, externals, tx, runs, discrepancies, outbox, edit, rivals>>

\* ON CONFLICT (id) DO NOTHING
InsertMirrorEntries(entries) ==
    mirror' = mirror \cup {m \in entries : \A n \in mirror : n.id # m.id}

\* The entries are committed and the event acknowledged.
Mirror(e) ==
    /\ stream[e] = "ready" /\ e \notin Malformed
    /\ InsertMirrorEntries(EntriesOf(e))
    /\ stream' = [stream EXCEPT ![e] = "done"]
    /\ UNCHANGED <<sources, imports, externals, tx, runs, discrepancies, outbox, edit, rivals>>

\* The entries are committed but the acknowledgement is lost, or the process
\* dies before it: the event is delivered again.  (If the insert fails the event
\* is NAKed, which leaves everything as it is.)
MirrorUnacked(e) ==
    /\ stream[e] = "ready" /\ e \notin Malformed
    /\ InsertMirrorEntries(EntriesOf(e))
    /\ UNCHANGED <<stream, sources, imports, externals, tx, runs, discrepancies, outbox, edit, rivals>>

-----------------------------------------------------------------------------
(* Sources and imports *)

\* UNIQUE (tenant_id, name)
CreateSource(s) ==
    /\ s \notin sources
    /\ sources' = sources \cup {s}
    /\ UNCHANGED <<stream, mirror, imports, externals, tx, runs, discrepancies, outbox, edit, rivals>>

Int64 == (-MaxInt64 - 1)..MaxInt64

\* The minor units of a decimal with row.scale digits after the point
ParseUnits(row) == row.value * 10 ^ (Exponent[row.asset] - row.scale)

\* A row is refused for a missing field, a bad date or direction (~row.wellFormed),
\* more decimals than the asset has, or an amount that is no int64.
ValidRow(row) ==
    /\ row.wellFormed
    /\ row.scale <= Exponent[row.asset]
    /\ ParseUnits(row) \in Int64

\* The first bad row aborts the parse.
ParseStatementCSV(statement) == \A i \in DOMAIN statement : ValidRow(statement[i])

External(s, row) ==
    [source |-> s, ref |-> row.ref, amount |-> ParseUnits(row), asset |-> row.asset,
     direction |-> row.direction, occurred |-> row.occurred,
     status |-> "unmatched", entry |-> None]

InsertImport(s, status, n) == imports' = Append(imports, [source |-> s, status |-> status, rows |-> n])

InsertExternalTransactions(s, statement) ==
    /\ externals' = externals \o [i \in DOMAIN statement |-> External(s, statement[i])]
    /\ rivals' = rivals \o [i \in DOMAIN statement |-> {}]

\* The import record is always made; its rows only if all of them are valid.
ImportStatement(s, statement) ==
    /\ Len(imports) < MaxImports
    /\ s \in sources
    /\ IF ParseStatementCSV(statement)
       THEN /\ InsertImport(s, "processed", Len(statement))
            /\ InsertExternalTransactions(s, statement)
       ELSE /\ InsertImport(s, "failed", 0)
            /\ UNCHANGED <<externals, rivals>>
    /\ UNCHANGED <<stream, mirror, sources, tx, runs, discrepancies, outbox, edit>>

-----------------------------------------------------------------------------
(* The matcher *)

\* ORDER BY occurred_at, id
Before(i, j) ==
    \/ externals[i].occurred < externals[j].occurred
    \/ externals[i].occurred = externals[j].occurred /\ i < j

DirectionMatches(external, m) == external = None \/ external = m

\* The entries with the row's reference, and among them those that agree with it
Candidates(x, entries) == {m \in entries : m.reference = x.ref}

\* Mutant: the declared direction is not compared.
AgreeingEitherSide(x, entries) ==
    {m \in Candidates(x, entries) : m.amount = x.amount /\ m.asset = x.asset}

Agreeing(x, entries) ==
    {m \in Candidates(x, entries) :
        m.amount = x.amount /\ m.asset = x.asset /\ DirectionMatches(x.direction, m.direction)}

\* Only the first row of the batch with a reference is looked up.
Repeated(i, batch) == \E j \in batch : externals[j].ref = externals[i].ref /\ Before(j, i)

\* What MatchNaive decides for row i of the batch.  A candidate is never consumed
\* by another row: that row would have the same reference, and be a duplicate.
Verdict(i, batch, entries) ==
    LET x == externals[i] IN
    CASE Repeated(i, batch) -> [kind |-> "duplicate", entry |-> None]
      [] ~Repeated(i, batch) /\ Agreeing(x, entries) # {}
            -> [kind |-> "match", entry |-> FirstOf(Agreeing(x, entries)).id]
      [] ~Repeated(i, batch) /\ Agreeing(x, entries) = {} /\ Candidates(x, entries) # {}
            -> [kind |-> "amount_mismatch", entry |-> FirstOf(Candidates(x, entries)).id]
      [] OTHER -> [kind |-> "missing_internal", entry |-> None]

MatchNaive(batch, entries) == [i \in batch |-> Verdict(i, batch, entries)]

-----------------------------------------------------------------------------
(* Runs *)

NoTx == [pc |-> "idle", source |-> None, batch |-> {}, verdicts |-> <<>>, marked |-> {}]

\* Mutant: rows that are settled are listed again.
ListExternals(s) == {i \in DOMAIN externals : externals[i].source = s}

ListUnmatchedExternals(s) ==
    {i \in DOMAIN externals : externals[i].source = s /\ externals[i].status = "unmatched"}

\* The transaction opens, finds its source, inserts its run and lists the rows.
StartRun(r, s) ==
    /\ tx[r].pc = "idle"
    /\ s \in sources
    /\ tx' = [tx EXCEPT ![r].pc = "listed", ![r].source = s, ![r].batch = ListUnmatchedExternals(s)]
    /\ UNCHANGED <<stream, mirror, sources, imports, externals, runs, discrepancies, outbox, edit, rivals>>

\* The mirror is listed by a statement of its own, and so with a later snapshot.
ListMirrorEntries(r) ==
    /\ tx[r].pc = "listed"
    /\ tx' = [tx EXCEPT ![r].pc = "marking", ![r].verdicts = MatchNaive(tx[r].batch, mirror)]
    /\ UNCHANGED <<stream, mirror, sources, imports, externals, runs, discrepancies, outbox, edit, rivals>>

Matches(r)  == {i \in tx[r].batch : tx[r].verdicts[i].kind = "match"}
Findings(r) == tx[r].batch \ Matches(r)

\* Findings whose row is disputed, so that it is not reconciled later
Disputes(r) == {i \in Findings(r) : tx[r].verdicts[i].kind \in {"amount_mismatch", "duplicate"}}

\* The rows left to mark: the matches, then the disputed rows, each in the batch's order
ToMark(r) ==
    LET left == IF Matches(r) \subseteq tx[r].marked
                THEN Disputes(r) \ tx[r].marked
                ELSE Matches(r) \ tx[r].marked
    IN  {i \in left : \A j \in left \ {i} : Before(i, j)}

\* The row locks of the UPDATEs, kept to the end of the transaction
LockedBy(r, i) == tx[r].pc = "marking" /\ i \in tx[r].marked

Mark(r) ==
    /\ tx[r].pc = "marking"
    /\ \E i \in ToMark(r) :
          /\ \A q \in Runs \ {r} : ~LockedBy(q, i)
          /\ tx' = [tx EXCEPT ![r].marked = @ \cup {i}]
    /\ UNCHANGED <<stream, mirror, sources, imports, externals, runs, discrepancies, outbox, edit, rivals>>

\* Both updates are by id alone: whatever is committed meanwhile is overwritten,
\* and a disputed row keeps the entry it was matched to.
MarkExternalMatched(x, id) == [x EXCEPT !.status = "matched", !.entry = id]
MarkExternalDisputed(x)    == [x EXCEPT !.status = "disputed"]

Marked(r, i) ==
    IF i \in Matches(r)       THEN MarkExternalMatched(externals[i], tx[r].verdicts[i].entry)
    ELSE IF i \in Disputes(r) THEN MarkExternalDisputed(externals[i])
    ELSE externals[i]

\* A duplicate has no kind on the wire: it is kept, but not published.
EventKind(kind) ==
    CASE kind = "missing_internal" -> "missing_in_ledger"
      [] kind = "amount_mismatch"  -> "amount_mismatch"
      [] OTHER -> None

DiscrepancyFromFinding(r, i) ==
    [run |-> r, external |-> i, kind |-> tx[r].verdicts[i].kind,
     entry |-> tx[r].verdicts[i].entry, status |-> "open", note |-> None]

DiscrepancyEnvelope(r, i) ==
    [run |-> r, external |-> i, kind |-> EventKind(tx[r].verdicts[i].kind)]

\* Runs that have read row i and are not finished
Reading(i) == {q \in Runs : tx[q].pc \in {"listed", "marking"} /\ i \in tx[q].batch}

\* Mutant: a finding without a wire kind is skipped before it is stored.
InsertPublishedDiscrepancies(r) ==
    discrepancies' = discrepancies \cup
        {DiscrepancyFromFinding(r, i) : i \in {j \in Findings(r) : EventKind(tx[r].verdicts[j].kind) # None}}

InsertDiscrepancies(r) ==
    discrepancies' = discrepancies \cup {DiscrepancyFromFinding(r, i) : i \in Findings(r)}

InsertOutboxEnvelopes(r) ==
    outbox' = outbox \cup {DiscrepancyEnvelope(r, i) :
                             i \in {j \in Findings(r) : EventKind(tx[r].verdicts[j].kind) # None}}

\* Marks, discrepancies, events and the run's counters commit together.
Commit(r) ==
    /\ tx[r].pc = "marking" /\ ToMark(r) = {}
    /\ externals' = [i \in DOMAIN externals |-> Marked(r, i)]
    /\ InsertDiscrepancies(r)
    /\ InsertOutboxEnvelopes(r)
    /\ runs' = [runs EXCEPT ![r] = [source |-> tx[r].source, status |-> "completed",
                                    matched |-> Cardinality(Matches(r)),
                                    unmatched |-> Cardinality(Findings(r))]]
    /\ rivals' = [i \in DOMAIN externals |->
                    IF externals[i].status = "unmatched" /\ i \in tx[r].marked
                    THEN Reading(i) \ {r} ELSE rivals[i]]
    /\ tx' = [tx EXCEPT ![r].pc = "done"]
    /\ UNCHANGED <<stream, mirror, sources, imports, edit>>

\* A statement fails, the client goes away or the process dies: all is rolled back.
Rollback(r) ==
    /\ tx[r].pc \in {"listed", "marking"}
    /\ tx' = [tx EXCEPT ![r] = [NoTx EXCEPT !.pc = "failed"]]
    /\ UNCHANGED <<stream, mirror, sources, imports, externals, runs, discrepancies, outbox, edit, rivals>>

WaitsFor(r, q) == tx[r].pc = "marking" /\ \E i \in ToMark(r) : LockedBy(q, i)

\* Postgres aborts one of two runs that wait for each other's rows.
DeadlockAbort(r) ==
    /\ \E q \in Runs \ {r} : WaitsFor(r, q) /\ WaitsFor(q, r)
    /\ tx' = [tx EXCEPT ![r] = [NoTx EXCEPT !.pc = "failed"]]
    /\ UNCHANGED <<stream, mirror, sources, imports, externals, runs, discrepancies, outbox, edit, rivals>>

-----------------------------------------------------------------------------
(* Triage *)

NoEdit == [pc |-> "idle", row |-> None, status |-> None, note |-> None]

\* UpdateDiscrepancy reads the row without locking it ...
GetDiscrepancy(d, t) ==
    /\ edit[d].pc = "idle"
    /\ t.status \in Statuses
    /\ \E x \in discrepancies :
          /\ x.run = t.run /\ x.external = t.external
          /\ edit' = [edit EXCEPT ![d] = [pc |-> "read", row |-> x, status |-> t.status, note |-> t.note]]
    /\ UNCHANGED <<stream, mirror, sources, imports, externals, tx, runs, discrepancies, outbox, rivals>>

\* Mutant: the details are replaced by the request's.
EditedAnew(d) == [edit[d].row EXCEPT !.status = edit[d].status, !.note = edit[d].note]

\* ... and writes its status and its details, the note among them, back.
Edited(d) ==
    [edit[d].row EXCEPT !.status = edit[d].status,
                        !.note = IF edit[d].note # None THEN edit[d].note ELSE @]

UpdateDiscrepancy(d) ==
    /\ edit[d].pc = "read"
    /\ discrepancies' =
          {IF x.run = edit[d].row.run /\ x.external = edit[d].row.external THEN Edited(d) ELSE x :
              x \in discrepancies}
    /\ edit' = [edit EXCEPT ![d] = [NoEdit EXCEPT !.pc = "done"]]
    /\ UNCHANGED <<stream, mirror, sources, imports, externals, tx, runs, outbox, rivals>>

-----------------------------------------------------------------------------
Init ==
    /\ stream = [e \in Events |-> "ready"]
    /\ mirror = {}
    /\ sources = {}
    /\ imports = <<>>
    /\ externals = <<>>
    /\ tx = [r \in Runs |-> NoTx]
    /\ runs = [r \in Runs |-> None]
    /\ discrepancies = {}
    /\ outbox = {}
    /\ edit = [d \in Editors |-> NoEdit]
    /\ rivals = <<>>

Consumer(e) == Republish(e) \/ Term(e) \/ Mirror(e) \/ MirrorUnacked(e)

Run(r) ==
    \/ \E s \in Sources : StartRun(r, s)
    \/ ListMirrorEntries(r) \/ Mark(r) \/ Commit(r) \/ Rollback(r) \/ DeadlockAbort(r)

Triage(d) ==
    \/ \E t \in Triages : GetDiscrepancy(d, t)
    \/ UpdateDiscrepancy(d)

Next ==
    \/ \E e \in Events : Consumer(e)
    \/ \E s \in Sources : CreateSource(s)
    \/ \E s \in Sources, statement \in Statements : ImportStatement(s, statement)
    \/ \E r \in Runs : Run(r)
    \/ \E d \in Editors : Triage(d)

Spec == Init /\ [][Next]_vars

-----------------------------------------------------------------------------
Notes == {t.note : t \in Triages}

ExternalRow ==
    [source : Sources, ref : STRING, amount : Int64, asset : Assets,
     direction : Directions \cup {None}, occurred : Nat,
     status : {"unmatched"} \cup Settled, entry : EntryIds \cup {None}]

VerdictRow == [kind : {"match"} \cup Kinds, entry : EntryIds \cup {None}]

DiscrepancyRow ==
    [run : Runs, external : DOMAIN externals, kind : Kinds, entry : EntryIds \cup {None},
     status : Statuses, note : Notes \cup {None}]

TypeOK ==
    /\ stream \in [Events -> {"ready", "done"}]
    /\ mirror \subseteq Entries
    /\ sources \subseteq Sources
    /\ imports \in Seq([source : Sources, status : {"processed", "failed"}, rows : Nat])
    /\ externals \in Seq(ExternalRow)
    /\ DOMAIN tx = Runs
    /\ \A r \in Runs :
          /\ tx[r] \in [pc : {"idle", "listed", "marking", "done", "failed"},
                        source : Sources \cup {None}, batch : SUBSET DOMAIN externals,
                        verdicts : {<<>>} \cup [tx[r].batch -> VerdictRow],
                        marked : SUBSET tx[r].batch]
          /\ tx[r].pc = "idle" => tx[r] = NoTx
          /\ tx[r].pc \in {"listed", "marking", "done"} => tx[r].source \in Sources
          /\ tx[r].pc \in {"marking", "done"} => tx[r].verdicts \in [tx[r].batch -> VerdictRow]
    /\ runs \in [Runs -> RunRow \cup {None}]
    /\ \A r \in Runs : runs[r] = None <=> tx[r].pc # "done"
    /\ discrepancies \subseteq DiscrepancyRow
    /\ outbox \subseteq [run : Runs, external : DOMAIN externals, kind : WireKinds]
    /\ edit \in [Editors -> [pc : {"idle", "read", "done"}, row : DiscrepancyRow \cup {None},
                             status : Statuses \cup {None}, note : Notes \cup {None}]]
    /\ \A d \in Editors : edit[d].pc = "read" => edit[d].row \in DiscrepancyRow /\ edit[d].status \in Statuses
    /\ rivals \in Seq(SUBSET Runs)
    /\ Len(rivals) = Len(externals)

(***************************************************************************)
(* The mirror is exactly the ledger that was acknowledged: an event that   *)
(* the consumer acknowledged has every one of its postings in the mirror,  *)
(* once, however often it was delivered, nothing of it is there in part,   *)
(* and a malformed event leaves nothing (InsertMirrorEntries, handle).     *)
(***************************************************************************)
MirrorIsExact ==
    /\ \A e \in Events :
          LET here == {m \in mirror : m.id[1] = e}
          IN  /\ Cardinality(here) \in {0, Len(Postings[e])}
              /\ stream[e] = "done" /\ e \notin Malformed =>
                    \A i \in DOMAIN Postings[e] :
                        \E m \in here :
                            /\ m.id = <<e, i>> /\ m.amount = Postings[e][i].amount
                            /\ m.reference = Reference[e]
    /\ \A m \in mirror : m.id[1] \notin Malformed

\* The mirror has entry id, and the entry agrees with row x.
Backed(x, id) ==
    \E m \in mirror :
        /\ m.id = id /\ m.reference = x.ref
        /\ m.amount = x.amount /\ m.asset = x.asset
        /\ x.direction \in {None, m.direction}

(***************************************************************************)
(* A row that is matched is backed by a mirrored posting that carries its  *)
(* reference, its amount, its asset and its direction, whatever runs have  *)
(* overlapped (StartRun, MatchNaive).                                      *)
(***************************************************************************)
MatchesAreReal ==
    \A i \in DOMAIN externals : externals[i].status = "matched" => Backed(externals[i], externals[i].entry)

(***************************************************************************)
(* No row is taken out of reconciliation unseen: a disputed row has a      *)
(* discrepancy that says why, and a row that some run read and that is     *)
(* still unmatched has been reported missing by that run.                  *)
(***************************************************************************)
NothingDropsOut ==
    /\ \A i \in DOMAIN externals : externals[i].status = "disputed" =>
          \E x \in discrepancies : x.external = i /\ x.kind \in {"amount_mismatch", "duplicate"}
    /\ \A r \in Runs : tx[r].pc = "done" =>
          \A i \in tx[r].batch : externals[i].status = "unmatched" =>
              \E x \in discrepancies : x.run = r /\ x.external = i /\ x.kind = "missing_internal"

(***************************************************************************)
(* A completed run accounts for every row it read: its counters add up to  *)
(* them, its discrepancies are its unmatched rows, and the outbox reports  *)
(* each of them but the duplicates (StartRun).                             *)
(***************************************************************************)
RunsAddUp ==
    \A r \in Runs : runs[r] # None =>
        LET mine == {x \in discrepancies : x.run = r}
        IN  /\ runs[r].matched + runs[r].unmatched = Cardinality(tx[r].batch)
            /\ Cardinality(mine) = runs[r].unmatched
            /\ \A x \in mine : x.kind = "duplicate" \/ \E v \in outbox : v.run = r /\ v.external = x.external
            /\ \A v \in outbox : v.run = r =>
                  \E x \in mine : v.external = x.external /\ v.kind = EventKind(x.kind)

(***************************************************************************)
(* A settled row is settled for good, except by a run that had read it     *)
(* before: only runs that overlap can overwrite each other's verdict       *)
(* (ListUnmatchedExternals, MarkExternalMatched, MarkExternalDisputed).    *)
(***************************************************************************)
SettledUnlessRivals ==
    [][\A i \in DOMAIN externals :
          externals[i].status \in Settled /\ externals'[i] # externals[i] =>
              \E r \in rivals[i] : tx[r].pc = "marking" /\ tx'[r].pc = "done"]_vars

(***************************************************************************)
(* Triage never loses a note that its writer has seen: an update removes   *)
(* or replaces a note only if it was given a note itself, or read the row  *)
(* before that note was there (UpdateDiscrepancy).                         *)
(***************************************************************************)
NotesAreKept ==
    [][\A x \in discrepancies :
          LET y == CHOOSE y \in discrepancies' : y.run = x.run /\ y.external = x.external
          IN  x.note # y.note /\ x.note # None =>
                \E d \in Editors : edit[d].pc = "read" /\ (edit[d].note # None \/ edit[d].row.note # x.note)]_vars

\* An event is mirrored whole or not at all, and whole once it is acknowledged.
MirrorIsWhole ==
    \A e \in Events :
        /\ EntriesOf(e) \subseteq mirror \/ \A m \in mirror : m.id[1] # e
        /\ stream[e] = "done" /\ e \notin Malformed => EntriesOf(e) \subseteq mirror

\* What a run has decided to match is backed, until it commits and after.
VerdictsAreBacked ==
    \A r \in Runs : tx[r].pc \in {"marking", "done"} =>
        \A i \in Matches(r) : Backed(externals[i], tx[r].verdicts[i].entry)

\* x reports a finding of a run that has committed.
Reports(x) ==
    /\ tx[x.run].pc = "done"
    /\ x.external \in Findings(x.run)
    /\ x.kind = tx[x.run].verdicts[x.external].kind

\* Discrepancies and events are the findings of the committed runs, one discrepancy
\* each, and an editor has read one of them.
FindingsAreReported ==
    /\ \A x \in discrepancies : Reports(x)
    /\ \A x, y \in discrepancies : x.run = y.run /\ x.external = y.external => x = y
    /\ \A d \in Editors : edit[d].pc = "read" => Reports(edit[d].row)
    /\ \A v \in outbox :
          /\ tx[v.run].pc = "done" /\ v.external \in Findings(v.run)
          /\ v.kind = EventKind(tx[v.run].verdicts[v.external].kind)
    /\ \A r \in Runs : tx[r].pc = "done" =>
          \A i \in Findings(r) :
              /\ \E x \in discrepancies : x.run = r /\ x.external = i
              /\ EventKind(tx[r].verdicts[i].kind) # None => DiscrepancyEnvelope(r, i) \in outbox

\* The counters are those of the run's verdicts.
CountsAreRight ==
    \A r \in Runs : runs[r] # None =>
        /\ runs[r].matched = Cardinality(Matches(r))
        /\ runs[r].unmatched = Cardinality(Findings(r))

\* A run that still reads a settled row is one of its rivals.
ReadersAreRivals ==
    \A i \in DOMAIN externals : externals[i].status \in Settled => Reading(i) \subseteq rivals[i]

(***************************************************************************)
(* The books of the service agree in every state: the tables keep their     *)
(* shapes, the mirror is exactly what was acknowledged                      *)
(* (InsertMirrorEntries), every completed run's counters, discrepancies     *)
(* and events add up to the rows it read, what a run is about to match is   *)
(* backed, and who may overwrite a settled row is known (StartRun).         *)
(***************************************************************************)
ReconInvariant ==
    /\ TypeOK /\ MirrorIsExact /\ RunsAddUp
    /\ MirrorIsWhole /\ VerdictsAreBacked /\ FindingsAreReported /\ CountsAreRight
    /\ ReadersAreRivals
=============================================================================
