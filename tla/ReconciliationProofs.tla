------------------------- MODULE ReconciliationProofs -------------------------
(***************************************************************************)
(* Proofs about Reconciliation: its invariant, that matches are real and   *)
(* that nothing drops out, what a step never does to a settled row or to a *)
(* note, and that the matcher's loop (Matcher) computes the verdicts.      *)
(***************************************************************************)
EXTENDS Matcher, TLAPS, FiniteSetTheorems, WellFoundedInduction, SequenceTheorems

---------------------------------------------------------------------------
(* Orders: the first posting and the first row exist.                      *)

\* A non-empty set of naturals has a least element: of the intervals 0..x that end
\* in the set, one contains no other.
LEMMA LeastNat ==
    ASSUME NEW S, S \subseteq Nat, S # {}
    PROVE  \E x \in S : \A y \in S : x <= y
  <1>2. PICK m \in S : TRUE
    OBVIOUS
  <1> DEFINE Base == 0..m
             B == {0..x : x \in {y \in S : y <= m}}
  <1>3. IsFiniteSet(Base) /\ B \subseteq SUBSET Base /\ B # {}
    <2>1. m \in Nat /\ 0 \in Int /\ m \in Int
      BY <1>2
    <2>2. IsFiniteSet(Base)
      BY <2>1, FS_Interval
    <2> QED
      BY <2>1, <2>2
  <1>4. PICK s \in B : \A t \in B : ~(<<t, s>> \in StrictSubsetOrdering(Base))
    <2> HIDE DEF B, Base
    <2>1. B \subseteq FiniteSubsetsOf(Base)
      BY <1>3, FS_FiniteSubsetsOfFinite
    <2> QED
      BY <1>3, <2>1, WFMin, FS_StrictSubsetOrderingWellFounded
  <1>5. PICK x \in S : x <= m /\ s = 0..x
    BY <1>4
  <1>6. ASSUME NEW y \in S, y < x
        PROVE  FALSE
    <2>1. x \in Nat /\ y \in Nat /\ m \in Nat /\ y <= m
      BY <1>5, <1>6
    <2>2. 0..y \in B /\ 0..y \subseteq s /\ 0..y # s
      <3>1. x \in 0..x /\ x \notin 0..y
        BY <1>6, <2>1
      <3> QED
        BY <1>5, <1>6, <2>1, <3>1
    <2>3. <<0..y, s>> \in StrictSubsetOrdering(Base)
      BY <1>3, <1>4, <2>2 DEF StrictSubsetOrdering
    <2> QED
      BY <1>4, <2>2, <2>3
  <1>7. \A y \in S : x <= y
    BY <1>6
  <1> QED
    BY <1>7

\* A non-empty set has a first element in the order of two numbers.
LEMMA LeastPair ==
    ASSUME NEW S, S # {}, NEW f \in [S -> Nat], NEW g \in [S -> Nat]
    PROVE  \E x \in S : \A y \in S : f[x] < f[y] \/ (f[x] = f[y] /\ g[x] <= g[y])
  <1> DEFINE F == {f[x] : x \in S}
  <1>1. F \subseteq Nat /\ F # {}
    OBVIOUS
  <1>2. PICK a \in F : \A y \in F : a <= y
    <2> HIDE DEF F
    <2> QED
      BY <1>1, LeastNat
  <1> DEFINE G == {g[x] : x \in {z \in S : f[z] = a}}
  <1>3. G \subseteq Nat /\ G # {}
    BY <1>2
  <1>4. PICK b \in G : \A y \in G : b <= y
    <2> HIDE DEF G
    <2> QED
      BY <1>3, LeastNat
  <1>5. PICK x \in S : f[x] = a /\ g[x] = b
    BY <1>4
  <1>6. ASSUME NEW y \in S
        PROVE  f[x] < f[y] \/ (f[x] = f[y] /\ g[x] <= g[y])
    <2>1. f[x] \in Nat /\ f[y] \in Nat /\ f[x] <= f[y]
      BY <1>2, <1>5
    <2>2. f[y] = f[x] => g[x] <= g[y]
      BY <1>4, <1>5
    <2> QED
      BY <2>1, <2>2
  <1> QED
    BY <1>6

---------------------------------------------------------------------------
(* Entries of the mirror.                                                  *)

\* An entry is a posting of one event, and its id says which.
LEMMA EntryFacts ==
    /\ \A e \in Events : \A m \in EntriesOf(e) : m \in Entries /\ m.id[1] = e /\ m.id \in EntryIds
    /\ \A m \in Entries : m.id \in EntryIds /\ m.id[1] \in Events /\ m.id[2] \in Nat /\ m \in EntriesOf(m.id[1])
    /\ \A m, n \in Entries : m.id[1] = n.id[1] /\ m.id[2] = n.id[2] => m = n
    /\ \A e \in Events : \A i \in DOMAIN Postings[e] :
          /\ Entry(e, i) \in EntriesOf(e)
          /\ Entry(e, i).id = <<e, i>>
          /\ Entry(e, i).amount = Postings[e][i].amount /\ Entry(e, i).reference = Reference[e]
  <1>1. \A e \in Events : \A i \in DOMAIN Postings[e] : i \in Nat
    BY InputsAreTyped
  <1> QED
    BY <1>1 DEF EntriesOf, Entries, EntryIds, Entry, PostingID

\* An event has as many entries as postings.
LEMMA CountEntries ==
    ASSUME NEW e \in Events
    PROVE  Cardinality(EntriesOf(e)) = Len(Postings[e])
  <1> DEFINE n == Len(Postings[e])
             f == [i \in 1..n |-> Entry(e, i)]
  <1>1. n \in Nat /\ DOMAIN Postings[e] = 1..n
    BY InputsAreTyped
  <1>2. \A i, j \in 1..n : Entry(e, i) = Entry(e, j) => i = j
    BY <1>1, EntryFacts
  <1>3. f \in Bijection(1..n, EntriesOf(e))
    <2>1. f \in [1..n -> EntriesOf(e)]
      BY <1>1 DEF EntriesOf
    <2>2. \A m \in EntriesOf(e) : \E i \in 1..n : f[i] = m
      BY <1>1 DEF EntriesOf
    <2> QED
      BY <1>2, <2>1, <2>2 DEF Bijection, Injection, Surjection, IsInjective
  <1>4. ExistsBijection(1..n, EntriesOf(e))
    BY <1>3 DEF ExistsBijection
  <1>5. IsFiniteSet(1..n) /\ Cardinality(1..n) = n
    <2>1. 1 \in Int /\ n \in Int
      BY <1>1
    <2> QED
      BY <1>1, <2>1, FS_Interval
  <1> HIDE DEF n, f
  <1>6. Cardinality(EntriesOf(e)) = n
    BY <1>4, <1>5, FS_Bijection
  <1> QED
    BY <1>6 DEF n

\* ORDER BY posted_at, id has a first row among any entries.
LEMMA FirstOfIsMember ==
    ASSUME NEW S, S \subseteq Entries, S # {}
    PROVE  FirstOf(S) \in S
  <1> DEFINE R == {Rank[m.id] : m \in S}
  <1>1. R \subseteq Nat /\ R # {}
    BY EntryFacts, EntriesAreOrdered
  <1>2. PICK a \in R : \A b \in R : a <= b
    <2> HIDE DEF R
    <2> QED
      BY <1>1, LeastNat
  <1>m. PICK m \in S : Rank[m.id] = a
    BY <1>2
  <1>3. ASSUME NEW n \in S \ {m}
        PROVE  Earlier(m, n)
    <2>1. m.id \in EntryIds /\ n.id \in EntryIds /\ m.id # n.id
      BY EntryFacts
    <2>2. Rank[m.id] <= Rank[n.id]
      BY <1>2, <1>m
    <2>3. Rank[m.id] \in Nat /\ Rank[n.id] \in Nat /\ Rank[m.id] # Rank[n.id]
      BY <2>1, EntriesAreOrdered
    <2> QED
      BY <2>2, <2>3 DEF Earlier
  <1> QED
    BY <1>3 DEF FirstOf

\* Inserting with ON CONFLICT DO NOTHING adds what is not there.
LEMMA InsertAdds ==
    ASSUME mirror \subseteq Entries, NEW e \in Events, InsertMirrorEntries(EntriesOf(e))
    PROVE  mirror' = mirror \cup EntriesOf(e)
  <1>1. \A m \in EntriesOf(e), n \in mirror : n.id = m.id => n = m
    BY EntryFacts
  <1> QED
    BY <1>1 DEF InsertMirrorEntries

\* Only the consumer touches the stream and the mirror.
LEMMA MirrorWriters ==
    ASSUME [Next]_vars
    PROVE  UNCHANGED <<stream, mirror>> \/ \E e \in Events : Consumer(e)
  <1>1. ASSUME NEW s \in Sources, CreateSource(s)
        PROVE  UNCHANGED <<stream, mirror>>
    BY <1>1 DEF CreateSource
  <1>2. ASSUME NEW s \in Sources, NEW st \in Statements, ImportStatement(s, st)
        PROVE  UNCHANGED <<stream, mirror>>
    BY <1>2 DEF ImportStatement
  <1>3. ASSUME NEW r \in Runs, Run(r)
        PROVE  UNCHANGED <<stream, mirror>>
    BY <1>3 DEF Run, StartRun, ListMirrorEntries, Mark, Commit, Rollback, DeadlockAbort
  <1>4. ASSUME NEW d \in Editors, Triage(d)
        PROVE  UNCHANGED <<stream, mirror>>
    BY <1>4 DEF Triage, GetDiscrepancy, UpdateDiscrepancy
  <1>5. CASE UNCHANGED vars
    BY <1>5 DEF vars
  <1> QED
    BY <1>1, <1>2, <1>3, <1>4, <1>5 DEF Next

\* The mirror only grows, and stays whole.
LEMMA MirrorStep ==
    ASSUME TypeOK, MirrorIsWhole, \A m \in mirror : m.id[1] \notin Malformed, [Next]_vars
    PROVE  /\ stream' \in [Events -> {"ready", "done"}]
           /\ mirror' \subseteq Entries /\ mirror \subseteq mirror'
           /\ MirrorIsWhole'
           /\ \A m \in mirror' : m.id[1] \notin Malformed
  <1>1. stream \in [Events -> {"ready", "done"}] /\ mirror \subseteq Entries
    BY DEF TypeOK
  <1>2. CASE UNCHANGED <<stream, mirror>>
    BY <1>1, <1>2 DEF MirrorIsWhole
  <1>3. ASSUME NEW e \in Events, Republish(e) \/ Term(e)
        PROVE  /\ stream' \in [Events -> {"ready", "done"}] /\ mirror' = mirror
               /\ MirrorIsWhole'
    BY <1>1, <1>3 DEF Republish, Term, MirrorIsWhole
  <1>4. ASSUME NEW e \in Events, Mirror(e) \/ MirrorUnacked(e)
        PROVE  /\ stream' \in [Events -> {"ready", "done"}]
               /\ mirror' \subseteq Entries /\ mirror \subseteq mirror'
               /\ MirrorIsWhole'
               /\ \A m \in mirror' : m.id[1] \notin Malformed
    <2>1. mirror' = mirror \cup EntriesOf(e) /\ e \notin Malformed
      BY <1>1, <1>4, InsertAdds DEF Mirror, MirrorUnacked
    <2>2. /\ stream' \in [Events -> {"ready", "done"}]
          /\ \A d \in Events \ {e} : stream'[d] = stream[d]
      BY <1>1, <1>4 DEF Mirror, MirrorUnacked
    <2>3. mirror' \subseteq Entries /\ \A m \in mirror' : m.id[1] \notin Malformed
      BY <1>1, <2>1, EntryFacts
    <2>4. ASSUME NEW d \in Events
          PROVE  /\ EntriesOf(d) \subseteq mirror' \/ \A m \in mirror' : m.id[1] # d
                 /\ stream'[d] = "done" /\ d \notin Malformed => EntriesOf(d) \subseteq mirror'
      <3>1. CASE d = e
        BY <2>1, <3>1
      <3>2. CASE d # e
        <4>1. \A m \in EntriesOf(e) : m.id[1] # d
          BY <3>2, EntryFacts
        <4> QED
          BY <2>1, <2>2, <3>2, <4>1 DEF MirrorIsWhole
      <3> QED
        BY <3>1, <3>2
    <2> QED
      BY <2>1, <2>2, <2>3, <2>4 DEF MirrorIsWhole
  <1> QED
    BY <1>1, <1>2, <1>3, <1>4, MirrorWriters DEF Consumer

\* A mirror of whole events is exact.
LEMMA WholeIsExact ==
    ASSUME TypeOK, MirrorIsWhole, \A m \in mirror : m.id[1] \notin Malformed
    PROVE  MirrorIsExact
  <1>1. ASSUME NEW e \in Events
        PROVE  LET here == {m \in mirror : m.id[1] = e}
               IN  /\ Cardinality(here) \in {0, Len(Postings[e])}
                   /\ stream[e] = "done" /\ e \notin Malformed =>
                        \A i \in DOMAIN Postings[e] :
                            \E m \in here :
                                /\ m.id = <<e, i>> /\ m.amount = Postings[e][i].amount
                                /\ m.reference = Reference[e]
    <2> DEFINE here == {m \in mirror : m.id[1] = e}
    <2>1. CASE EntriesOf(e) \subseteq mirror
      <3>1. here = EntriesOf(e)
        BY <2>1, EntryFacts DEF TypeOK
      <3>2. \A i \in DOMAIN Postings[e] : Entry(e, i) \in here
        BY <3>1, EntryFacts
      <3>3. Cardinality(here) = Len(Postings[e])
        BY <3>1, CountEntries
      <3> QED
        BY <3>2, <3>3, EntryFacts
    <2>2. CASE \A m \in mirror : m.id[1] # e
      <3>1. here = {}
        BY <2>2
      <3>2. Cardinality(here) = 0
        BY <3>1, FS_EmptySet
      <3>3. stream[e] = "done" /\ e \notin Malformed => DOMAIN Postings[e] = {}
        BY <2>2, EntryFacts DEF MirrorIsWhole
      <3> QED
        BY <3>2, <3>3
    <2> QED
      BY <2>1, <2>2 DEF MirrorIsWhole
  <1> QED
    BY <1>1 DEF MirrorIsExact

---------------------------------------------------------------------------
(* The imported rows.                                                      *)

\* What of a row never changes
SameData(x, y) ==
    /\ y.source = x.source /\ y.ref = x.ref /\ y.amount = x.amount /\ y.asset = x.asset
    /\ y.direction = x.direction /\ y.occurred = x.occurred

\* The transaction of a run, over n rows
TxShape(t, n) ==
    /\ t \in [pc : {"idle", "listed", "marking", "done", "failed"},
              source : Sources \cup {None}, batch : SUBSET (1..n),
              verdicts : {<<>>} \cup [t.batch -> VerdictRow], marked : SUBSET t.batch]
    /\ t.pc = "idle" => t = NoTx
    /\ t.pc \in {"listed", "marking", "done"} => t.source \in Sources
    /\ t.pc \in {"marking", "done"} => t.verdicts \in [t.batch -> VerdictRow]

\* The shapes of rows, rivals and transactions, one by one.
LEMMA Shapes ==
    ASSUME TypeOK
    PROVE  /\ externals \in Seq(ExternalRow) /\ rivals \in Seq(SUBSET Runs)
           /\ Len(externals) \in Nat /\ Len(rivals) = Len(externals)
           /\ DOMAIN externals = 1..Len(externals) /\ DOMAIN rivals = DOMAIN externals
           /\ \A i \in DOMAIN externals : externals[i] \in ExternalRow /\ rivals[i] \subseteq Runs
           /\ DOMAIN tx = Runs
           /\ \A r \in Runs : TxShape(tx[r], Len(externals))
  BY DEF TypeOK, TxShape

\* A committed run marks its matches and its disputed rows, and no others.
LEMMA CommitRows ==
    ASSUME TypeOK, NEW r \in Runs, Commit(r)
    PROVE  /\ externals' \in Seq(ExternalRow) /\ DOMAIN externals' = DOMAIN externals
           /\ Len(externals') = Len(externals)
           /\ \A i \in DOMAIN externals : SameData(externals[i], externals'[i])
           /\ \A i \in Matches(r) :
                 externals'[i].status = "matched" /\ externals'[i].entry = tx[r].verdicts[i].entry
           /\ \A i \in Disputes(r) :
                 externals'[i].status = "disputed" /\ externals'[i].entry = externals[i].entry
           /\ \A i \in DOMAIN externals : i \notin Matches(r) \cup Disputes(r) => externals'[i] = externals[i]
  <1>1. /\ externals' = [i \in DOMAIN externals |-> Marked(r, i)]
        /\ tx[r].pc = "marking"
    BY DEF Commit
  <1>2. /\ tx[r].batch \subseteq DOMAIN externals
        /\ tx[r].verdicts \in [tx[r].batch -> VerdictRow]
    BY <1>1, Shapes DEF TxShape
  <1>3. Matches(r) \subseteq DOMAIN externals /\ Disputes(r) \subseteq DOMAIN externals
        /\ Matches(r) \cap Disputes(r) = {}
    BY <1>2 DEF Matches, Disputes, Findings
  <1>4. \A i \in Matches(r) : tx[r].verdicts[i].entry \in EntryIds \cup {None}
    BY <1>2 DEF Matches, VerdictRow
  <1>5. ASSUME NEW i \in DOMAIN externals
        PROVE  /\ Marked(r, i) \in ExternalRow /\ SameData(externals[i], Marked(r, i))
               /\ i \in Matches(r) => Marked(r, i).status = "matched" /\ Marked(r, i).entry = tx[r].verdicts[i].entry
               /\ i \in Disputes(r) => Marked(r, i).status = "disputed" /\ Marked(r, i).entry = externals[i].entry
               /\ i \notin Matches(r) \cup Disputes(r) => Marked(r, i) = externals[i]
    <2>1. externals[i] \in ExternalRow
      BY Shapes
    <2>2. ASSUME NEW id \in EntryIds \cup {None}
          PROVE  /\ MarkExternalMatched(externals[i], id) \in ExternalRow
                 /\ SameData(externals[i], MarkExternalMatched(externals[i], id))
                 /\ MarkExternalMatched(externals[i], id).status = "matched"
                 /\ MarkExternalMatched(externals[i], id).entry = id
      BY <2>1 DEF MarkExternalMatched, ExternalRow, SameData, Settled
    <2>3. /\ MarkExternalDisputed(externals[i]) \in ExternalRow
          /\ SameData(externals[i], MarkExternalDisputed(externals[i]))
          /\ MarkExternalDisputed(externals[i]).status = "disputed"
          /\ MarkExternalDisputed(externals[i]).entry = externals[i].entry
      BY <2>1 DEF MarkExternalDisputed, ExternalRow, SameData, Settled
    <2>4. CASE i \in Matches(r)
      BY <1>3, <1>4, <2>2, <2>4 DEF Marked
    <2>5. CASE i \in Disputes(r)
      BY <1>3, <2>3, <2>5 DEF Marked
    <2>6. CASE i \notin Matches(r) \cup Disputes(r)
      BY <2>1, <2>6 DEF Marked, SameData
    <2> QED
      BY <2>4, <2>5, <2>6
  <1>6. DOMAIN externals' = DOMAIN externals /\ \A i \in DOMAIN externals : externals'[i] = Marked(r, i)
    BY <1>1
  <1>7. externals' \in Seq(ExternalRow) /\ Len(externals') = Len(externals)
    <2>1. /\ Len(externals) \in Nat /\ externals' \in [1..Len(externals) -> ExternalRow]
      BY <1>1, <1>5, Shapes
    <2> QED
      BY <2>1, SeqDef, LenProperties
  <1> QED
    BY <1>3, <1>5, <1>6, <1>7

\* An import appends rows that are unmatched.
LEMMA ImportRows ==
    ASSUME TypeOK, NEW s \in Sources, NEW st \in Statements, ImportStatement(s, st)
    PROVE  /\ externals' \in Seq(ExternalRow) /\ rivals' \in Seq(SUBSET Runs)
           /\ Len(rivals') = Len(externals') /\ Len(externals) <= Len(externals')
           /\ \A i \in DOMAIN externals : externals'[i] = externals[i] /\ rivals'[i] = rivals[i]
           /\ \A i \in DOMAIN externals' \ DOMAIN externals : externals'[i].status = "unmatched"
  <1>1. CASE UNCHANGED <<externals, rivals>>
    BY <1>1, Shapes
  <1>2. ASSUME ParseStatementCSV(st), InsertExternalTransactions(s, st)
        PROVE  /\ externals' \in Seq(ExternalRow) /\ rivals' \in Seq(SUBSET Runs)
               /\ Len(rivals') = Len(externals') /\ Len(externals) <= Len(externals')
               /\ \A i \in DOMAIN externals : externals'[i] = externals[i] /\ rivals'[i] = rivals[i]
               /\ \A i \in DOMAIN externals' \ DOMAIN externals : externals'[i].status = "unmatched"
    <2> DEFINE X == [i \in DOMAIN st |-> External(s, st[i])]
               Y == [i \in DOMAIN st |-> {}]
               n == Len(st)
               k == Len(externals)
    <2>1. st \in Seq(StatementRow) /\ n \in Nat /\ DOMAIN st = 1..n
      BY InputsAreTyped
    <2>2. \A i \in 1..n : External(s, st[i]) \in ExternalRow /\ External(s, st[i]).status = "unmatched"
      <3>1. ASSUME NEW i \in 1..n
            PROVE  External(s, st[i]) \in ExternalRow /\ External(s, st[i]).status = "unmatched"
        <4>1. st[i] \in StatementRow
          BY <2>1
        <4>2. ParseUnits(st[i]) \in Int64
          BY <1>2, <2>1 DEF ParseStatementCSV, ValidRow
        <4> QED
          BY <4>1, <4>2 DEF External, ExternalRow, StatementRow, Settled
      <3> QED
        BY <3>1
    <2>3. X \in Seq(ExternalRow) /\ Len(X) = n /\ Y \in Seq(SUBSET Runs) /\ Len(Y) = n
      <3>1. X \in [1..n -> ExternalRow] /\ Y \in [1..n -> SUBSET Runs]
        BY <2>1, <2>2
      <3> HIDE DEF X, Y, n
      <3> QED
        BY <2>1, <3>1, SeqDef, LenProperties
    <2>4. \A i \in 1..n : X[i].status = "unmatched"
      BY <2>1, <2>2
    <2>5. externals' = externals \o X /\ rivals' = rivals \o Y
      BY <1>2 DEF InsertExternalTransactions
    <2>6. /\ externals \in Seq(ExternalRow) /\ rivals \in Seq(SUBSET Runs)
          /\ k \in Nat /\ Len(externals) = k /\ Len(rivals) = k /\ DOMAIN externals = 1..k
      BY Shapes
    <2> HIDE DEF X, Y, n, k
    <2>7. /\ externals' \in Seq(ExternalRow) /\ Len(externals') = k + n
          /\ \A i \in 1..(k + n) : externals'[i] = IF i <= k THEN externals[i] ELSE X[i - k]
      BY <2>3, <2>5, <2>6, ConcatProperties
    <2>8. /\ rivals' \in Seq(SUBSET Runs) /\ Len(rivals') = k + n
          /\ \A i \in 1..(k + n) : rivals'[i] = IF i <= k THEN rivals[i] ELSE Y[i - k]
      BY <2>3, <2>5, <2>6, ConcatProperties
    <2>9. DOMAIN externals' = 1..(k + n)
      BY <2>7
    <2>10. \A i \in 1..k : i \in 1..(k + n) /\ i <= k
      BY <2>1, <2>6
    <2>11. \A i \in 1..(k + n) : i \notin 1..k => ~(i <= k) /\ i - k \in 1..n
      BY <2>1, <2>6
    <2>12. Len(externals) <= Len(externals')
      BY <2>1, <2>6, <2>7
    <2>13. \A i \in DOMAIN externals : externals'[i] = externals[i] /\ rivals'[i] = rivals[i]
      BY <2>6, <2>7, <2>8, <2>10
    <2>14. \A i \in DOMAIN externals' \ DOMAIN externals : externals'[i].status = "unmatched"
      BY <2>4, <2>6, <2>7, <2>9, <2>11
    <2> QED
      BY <2>7, <2>8, <2>12, <2>13, <2>14
  <1> QED
    BY <1>1, <1>2 DEF ImportStatement

\* Imports and commits are what changes rows.
LEMMA RowWriters ==
    ASSUME [Next]_vars
    PROVE  \/ UNCHANGED <<externals, rivals>>
           \/ \E s \in Sources, st \in Statements : ImportStatement(s, st)
           \/ \E r \in Runs : Commit(r)
  <1>1. ASSUME NEW s \in Sources, CreateSource(s)
        PROVE  UNCHANGED <<externals, rivals>>
    BY <1>1 DEF CreateSource
  <1>2. ASSUME NEW e \in Events, Consumer(e)
        PROVE  UNCHANGED <<externals, rivals>>
    BY <1>2 DEF Consumer, Republish, Term, Mirror, MirrorUnacked
  <1>3. ASSUME NEW r \in Runs, Run(r), ~Commit(r)
        PROVE  UNCHANGED <<externals, rivals>>
    BY <1>3 DEF Run, StartRun, ListMirrorEntries, Mark, Rollback, DeadlockAbort
  <1>4. ASSUME NEW d \in Editors, Triage(d)
        PROVE  UNCHANGED <<externals, rivals>>
    BY <1>4 DEF Triage, GetDiscrepancy, UpdateDiscrepancy
  <1>5. CASE UNCHANGED vars
    BY <1>5 DEF vars
  <1> QED
    BY <1>1, <1>2, <1>3, <1>4, <1>5 DEF Next

\* Rows are never removed or rewritten but for their status and entry, and a settled
\* row stays settled.
LEMMA RowsStep ==
    ASSUME TypeOK, [Next]_vars
    PROVE  /\ externals' \in Seq(ExternalRow) /\ Len(externals) <= Len(externals')
           /\ Len(externals) \in Nat /\ Len(externals') \in Nat
           /\ DOMAIN externals \subseteq DOMAIN externals'
           /\ \A i \in DOMAIN externals :
                 /\ SameData(externals[i], externals'[i])
                 /\ externals[i].status \in Settled => externals'[i].status \in Settled
           /\ \A i \in DOMAIN externals' \ DOMAIN externals : externals'[i].status = "unmatched"
  <1>1. ASSUME externals' \in Seq(ExternalRow), Len(externals) <= Len(externals')
        PROVE  /\ DOMAIN externals \subseteq DOMAIN externals'
               /\ Len(externals) \in Nat /\ Len(externals') \in Nat
    <2>1. /\ DOMAIN externals = 1..Len(externals) /\ Len(externals) \in Nat
          /\ DOMAIN externals' = 1..Len(externals') /\ Len(externals') \in Nat
      BY <1>1, Shapes
    <2> QED
      BY <1>1, <2>1
  <1>2. CASE UNCHANGED <<externals, rivals>>
    BY <1>1, <1>2, Shapes DEF SameData
  <1>3. ASSUME NEW s \in Sources, NEW st \in Statements, ImportStatement(s, st)
        PROVE  /\ externals' \in Seq(ExternalRow) /\ Len(externals) <= Len(externals')
               /\ \A i \in DOMAIN externals : externals'[i] = externals[i]
               /\ \A i \in DOMAIN externals' \ DOMAIN externals : externals'[i].status = "unmatched"
    BY <1>3, ImportRows
  <1>4. ASSUME NEW r \in Runs, Commit(r)
        PROVE  /\ externals' \in Seq(ExternalRow) /\ Len(externals) <= Len(externals')
               /\ DOMAIN externals' = DOMAIN externals
               /\ \A i \in DOMAIN externals :
                    /\ SameData(externals[i], externals'[i])
                    /\ externals[i].status \in Settled => externals'[i].status \in Settled
    BY <1>4, CommitRows, Shapes DEF Settled
  <1>5. \A i \in DOMAIN externals : SameData(externals[i], externals[i])
    BY DEF SameData
  <1> QED
    BY <1>1, <1>2, <1>3, <1>4, <1>5, RowWriters

---------------------------------------------------------------------------
(* The matcher's verdicts and the steps of a run.                          *)

\* A verdict is well formed, and a match names an entry that agrees with its row.
LEMMA VerdictFacts ==
    ASSUME TypeOK, NEW batch, batch \subseteq DOMAIN externals
    PROVE  /\ MatchNaive(batch, mirror) \in [batch -> VerdictRow]
           /\ \A i \in batch : MatchNaive(batch, mirror)[i].kind = "match" =>
                 Backed(externals[i], MatchNaive(batch, mirror)[i].entry)
  <1>1. ASSUME NEW i \in batch
        PROVE  /\ Verdict(i, batch, mirror) \in VerdictRow
               /\ Verdict(i, batch, mirror).kind = "match" =>
                     Backed(externals[i], Verdict(i, batch, mirror).entry)
    <2> DEFINE A == Agreeing(externals[i], mirror)
               C == Candidates(externals[i], mirror)
    <2>1. A \subseteq C /\ C \subseteq mirror /\ mirror \subseteq Entries
      BY DEF Agreeing, Candidates, TypeOK
    <2>2. CASE Repeated(i, batch)
      <3>1. Verdict(i, batch, mirror) = [kind |-> "duplicate", entry |-> None]
        BY <2>2 DEF Verdict
      <3> QED
        BY <3>1 DEF VerdictRow, Kinds
    <2>3. CASE ~Repeated(i, batch) /\ A # {}
      <3>1. Verdict(i, batch, mirror) = [kind |-> "match", entry |-> FirstOf(A).id]
        BY <2>3 DEF Verdict
      <3>2. FirstOf(A) \in A
        <4> HIDE DEF A, C
        <4> QED
          BY <2>1, <2>3, FirstOfIsMember
      <3>3. FirstOf(A).id \in EntryIds
        BY <2>1, <3>2, EntryFacts
      <3>4. Backed(externals[i], FirstOf(A).id)
        <4>1. PICK m \in A : m = FirstOf(A)
          BY <3>2
        <4>2. /\ m \in mirror /\ m.reference = externals[i].ref
              /\ m.amount = externals[i].amount /\ m.asset = externals[i].asset
              /\ externals[i].direction \in {None, m.direction}
          BY DEF Agreeing, Candidates, DirectionMatches
        <4> HIDE DEF A
        <4> QED
          BY <4>1, <4>2 DEF Backed
      <3> HIDE DEF A
      <3> QED
        BY <3>1, <3>3, <3>4 DEF VerdictRow
    <2>4. CASE ~Repeated(i, batch) /\ A = {} /\ C # {}
      <3>1. Verdict(i, batch, mirror) = [kind |-> "amount_mismatch", entry |-> FirstOf(C).id]
        BY <2>4 DEF Verdict
      <3>2. FirstOf(C) \in C
        <4> HIDE DEF A, C
        <4> QED
          BY <2>1, <2>4, FirstOfIsMember
      <3>3. FirstOf(C).id \in EntryIds
        BY <2>1, <3>2, EntryFacts
      <3> HIDE DEF C
      <3> QED
        BY <3>1, <3>3 DEF VerdictRow, Kinds
    <2>5. CASE ~Repeated(i, batch) /\ A = {} /\ C = {}
      <3>1. Verdict(i, batch, mirror) = [kind |-> "missing_internal", entry |-> None]
        BY <2>5 DEF Verdict
      <3> QED
        BY <3>1 DEF VerdictRow, Kinds
    <2> QED
      BY <2>2, <2>3, <2>4, <2>5
  <1> QED
    BY <1>1 DEF MatchNaive

\* Run r goes on with this transaction, and the others with theirs.
Goes(r, pc, source, batch, verdicts, marked) ==
    /\ tx'[r] = [pc |-> pc, source |-> source, batch |-> batch, verdicts |-> verdicts, marked |-> marked]
    /\ \A q \in Runs \ {r} : tx'[q] = tx[q]
    /\ DOMAIN tx' = Runs

\* The steps of a run's transaction (StartRun in the service).
LEMMA RunSteps ==
    ASSUME TypeOK, NEW r \in Runs
    PROVE  /\ \A s \in Sources : StartRun(r, s) =>
                 tx[r].pc = "idle" /\ Goes(r, "listed", s, ListUnmatchedExternals(s), <<>>, {})
           /\ ListMirrorEntries(r) =>
                 /\ tx[r].pc = "listed"
                 /\ Goes(r, "marking", tx[r].source, tx[r].batch, MatchNaive(tx[r].batch, mirror), tx[r].marked)
           /\ Mark(r) =>
                 /\ tx[r].pc = "marking"
                 /\ \E i \in ToMark(r) :
                       Goes(r, "marking", tx[r].source, tx[r].batch, tx[r].verdicts, tx[r].marked \cup {i})
           /\ Commit(r) =>
                 /\ tx[r].pc = "marking"
                 /\ Goes(r, "done", tx[r].source, tx[r].batch, tx[r].verdicts, tx[r].marked)
           /\ Rollback(r) \/ DeadlockAbort(r) =>
                 tx[r].pc \in {"listed", "marking"} /\ Goes(r, "failed", None, {}, <<>>, {})
  <1>1. /\ DOMAIN tx = Runs
        /\ tx[r] \in [pc : {"idle", "listed", "marking", "done", "failed"},
                      source : Sources \cup {None}, batch : SUBSET (1..Len(externals)),
                      verdicts : {<<>>} \cup [tx[r].batch -> VerdictRow], marked : SUBSET tx[r].batch]
        /\ tx[r].pc = "idle" => tx[r] = NoTx
    BY Shapes DEF TxShape
  <1>2. ASSUME NEW s \in Sources, StartRun(r, s)
        PROVE  tx[r].pc = "idle" /\ Goes(r, "listed", s, ListUnmatchedExternals(s), <<>>, {})
    <2> DEFINE L == ListUnmatchedExternals(s)
    <2>1. /\ tx[r] = NoTx /\ tx[r].pc = "idle"
          /\ tx' = [tx EXCEPT ![r] = [[[tx[r] EXCEPT !.pc = "listed"] EXCEPT !.source = s] EXCEPT !.batch = L]]
      BY <1>1, <1>2 DEF StartRun
    <2> HIDE DEF L
    <2>2. [[[NoTx EXCEPT !.pc = "listed"] EXCEPT !.source = s] EXCEPT !.batch = L]
             = [pc |-> "listed", source |-> s, batch |-> L, verdicts |-> <<>>, marked |-> {}]
      <3>1. ASSUME NEW v, NEW t, t = [pc |-> "idle", source |-> None, batch |-> {}, verdicts |-> v, marked |-> {}]
            PROVE  [[[t EXCEPT !.pc = "listed"] EXCEPT !.source = s] EXCEPT !.batch = L]
                     = [pc |-> "listed", source |-> s, batch |-> L, verdicts |-> v, marked |-> {}]
        <4>1. [t EXCEPT !.pc = "listed"]
                 = [pc |-> "listed", source |-> None, batch |-> {}, verdicts |-> v, marked |-> {}]
          BY <3>1
        <4>2. [[pc |-> "listed", source |-> None, batch |-> {}, verdicts |-> v, marked |-> {}] EXCEPT !.source = s]
                 = [pc |-> "listed", source |-> s, batch |-> {}, verdicts |-> v, marked |-> {}]
          OBVIOUS
        <4>3. [[pc |-> "listed", source |-> s, batch |-> {}, verdicts |-> v, marked |-> {}] EXCEPT !.batch = L]
                 = [pc |-> "listed", source |-> s, batch |-> L, verdicts |-> v, marked |-> {}]
          OBVIOUS
        <4> QED
          BY <4>1, <4>2, <4>3
      <3> QED
        BY <3>1, Zenon DEF NoTx
    <2>3. Goes(r, "listed", s, L, <<>>, {})
      BY <1>1, <2>1, <2>2 DEF Goes
    <2> QED
      BY <2>1, <2>3 DEF L
  <1>3. ASSUME ListMirrorEntries(r)
        PROVE  /\ tx[r].pc = "listed"
               /\ Goes(r, "marking", tx[r].source, tx[r].batch, MatchNaive(tx[r].batch, mirror), tx[r].marked)
    BY <1>1, <1>3 DEF ListMirrorEntries, Goes
  <1>4. ASSUME Mark(r)
        PROVE  /\ tx[r].pc = "marking"
               /\ \E i \in ToMark(r) :
                     Goes(r, "marking", tx[r].source, tx[r].batch, tx[r].verdicts, tx[r].marked \cup {i})
    BY <1>1, <1>4 DEF Mark, Goes
  <1>5. ASSUME Commit(r)
        PROVE  /\ tx[r].pc = "marking"
               /\ Goes(r, "done", tx[r].source, tx[r].batch, tx[r].verdicts, tx[r].marked)
    BY <1>1, <1>5 DEF Commit, Goes
  <1>6. ASSUME Rollback(r) \/ DeadlockAbort(r)
        PROVE  tx[r].pc \in {"listed", "marking"} /\ Goes(r, "failed", None, {}, <<>>, {})
    BY <1>1, <1>6 DEF Rollback, DeadlockAbort, WaitsFor, Goes, NoTx
  <1> QED
    BY <1>2, <1>3, <1>4, <1>5, <1>6

\* Only its own steps change the transaction of a run.
LEMMA TxWriters ==
    ASSUME [Next]_vars
    PROVE  tx' = tx \/ \E r \in Runs : Run(r)
  <1>1. ASSUME NEW s \in Sources, CreateSource(s)
        PROVE  tx' = tx
    BY <1>1 DEF CreateSource
  <1>2. ASSUME NEW e \in Events, Consumer(e)
        PROVE  tx' = tx
    BY <1>2 DEF Consumer, Republish, Term, Mirror, MirrorUnacked
  <1>3. ASSUME NEW s \in Sources, NEW st \in Statements, ImportStatement(s, st)
        PROVE  tx' = tx
    BY <1>3 DEF ImportStatement
  <1>4. ASSUME NEW d \in Editors, Triage(d)
        PROVE  tx' = tx
    BY <1>4 DEF Triage, GetDiscrepancy, UpdateDiscrepancy
  <1>5. CASE UNCHANGED vars
    BY <1>5 DEF vars
  <1> QED
    BY <1>1, <1>2, <1>3, <1>4, <1>5 DEF Next

\* What may become of one run in a step
LEMMA TxCases ==
    ASSUME TypeOK, [Next]_vars
    PROVE  /\ DOMAIN tx' = Runs
           /\ \A r \in Runs :
                 \/ tx'[r] = tx[r]
                 \/ /\ tx[r].pc = "idle"
                    /\ \E s \in Sources : Goes(r, "listed", s, ListUnmatchedExternals(s), <<>>, {})
                 \/ /\ tx[r].pc = "listed"
                    /\ Goes(r, "marking", tx[r].source, tx[r].batch, MatchNaive(tx[r].batch, mirror), tx[r].marked)
                 \/ /\ tx[r].pc = "marking"
                    /\ \E i \in ToMark(r) :
                          Goes(r, "marking", tx[r].source, tx[r].batch, tx[r].verdicts, tx[r].marked \cup {i})
                 \/ /\ tx[r].pc = "marking" /\ Commit(r)
                    /\ Goes(r, "done", tx[r].source, tx[r].batch, tx[r].verdicts, tx[r].marked)
                 \/ /\ tx[r].pc \in {"listed", "marking"} /\ Goes(r, "failed", None, {}, <<>>, {})
  <1>1. CASE tx' = tx
    BY <1>1, Shapes
  <1>2. ASSUME NEW q \in Runs, Run(q)
        PROVE  /\ DOMAIN tx' = Runs
               /\ \A r \in Runs \ {q} : tx'[r] = tx[r]
               /\ \/ /\ tx[q].pc = "idle"
                     /\ \E s \in Sources : Goes(q, "listed", s, ListUnmatchedExternals(s), <<>>, {})
                  \/ /\ tx[q].pc = "listed"
                     /\ Goes(q, "marking", tx[q].source, tx[q].batch, MatchNaive(tx[q].batch, mirror), tx[q].marked)
                  \/ /\ tx[q].pc = "marking"
                     /\ \E i \in ToMark(q) :
                           Goes(q, "marking", tx[q].source, tx[q].batch, tx[q].verdicts, tx[q].marked \cup {i})
                  \/ /\ tx[q].pc = "marking" /\ Commit(q)
                     /\ Goes(q, "done", tx[q].source, tx[q].batch, tx[q].verdicts, tx[q].marked)
                  \/ /\ tx[q].pc \in {"listed", "marking"} /\ Goes(q, "failed", None, {}, <<>>, {})
    <2>1. \A pc, source, batch, verdicts, marked : Goes(q, pc, source, batch, verdicts, marked) =>
             DOMAIN tx' = Runs /\ \A r \in Runs \ {q} : tx'[r] = tx[r]
      BY DEF Goes
    <2> QED
      BY <1>2, <2>1, RunSteps DEF Run
  <1> QED
    BY <1>1, <1>2, TxWriters

---------------------------------------------------------------------------
(* Marks, counts and rows that a run writes.                               *)

\* The rows of a batch are finitely many, and are matches or findings.
LEMMA BatchCounts ==
    ASSUME TypeOK, NEW r \in Runs
    PROVE  /\ IsFiniteSet(tx[r].batch) /\ IsFiniteSet(Matches(r)) /\ IsFiniteSet(Findings(r))
           /\ Cardinality(Matches(r)) \in Nat /\ Cardinality(Findings(r)) \in Nat
           /\ Cardinality(Matches(r)) + Cardinality(Findings(r)) = Cardinality(tx[r].batch)
  <1> DEFINE n == Len(externals)
             B == tx[r].batch
             M == Matches(r)
  <1>1. n \in Nat /\ B \subseteq 1..n /\ M \subseteq B /\ Findings(r) = B \ M
    BY Shapes DEF TxShape, Matches, Findings
  <1> HIDE DEF n, B, M
  <1>2. IsFiniteSet(1..n)
    <2>1. 1 \in Int /\ n \in Int
      BY <1>1
    <2> QED
      BY <2>1, FS_Interval
  <1>3. IsFiniteSet(B)
    BY <1>1, <1>2, FS_Subset
  <1>4. IsFiniteSet(M) /\ IsFiniteSet(B \ M)
    BY <1>1, <1>3, FS_Subset
  <1>5. Cardinality(B) \in Nat /\ Cardinality(M) \in Nat /\ Cardinality(B \ M) \in Nat
    BY <1>3, <1>4, FS_CardinalityType
  <1>6. Cardinality(B \ M) = Cardinality(B) - Cardinality(B \cap M)
    BY <1>3, FS_Difference
  <1>7. B \cap M = M
    BY <1>1
  <1>8. Cardinality(M) + Cardinality(B \ M) = Cardinality(B)
    BY <1>5, <1>6, <1>7
  <1> QED
    BY <1>1, <1>3, <1>4, <1>5, <1>8 DEF B, M

\* A run marks rows of its batch.
LEMMA ToMarkInBatch ==
    ASSUME NEW r
    PROVE  ToMark(r) \subseteq tx[r].batch
  BY DEF ToMark, Matches, Disputes, Findings

\* When a run has nothing left to mark, all its matches and disputed rows are marked:
\* in the order of the batch some row would be next.
LEMMA AllMarked ==
    ASSUME TypeOK, NEW r \in Runs, ToMark(r) = {}
    PROVE  Matches(r) \subseteq tx[r].marked /\ Disputes(r) \subseteq tx[r].marked
  <1>1. ASSUME NEW left, left \subseteq DOMAIN externals,
               {i \in left : \A j \in left \ {i} : Before(i, j)} = {}
        PROVE  left = {}
    <2> SUFFICES ASSUME left # {} PROVE FALSE
      OBVIOUS
    <2> DEFINE f == [i \in left |-> externals[i].occurred]
               g == [i \in left |-> i]
    <2>1. f \in [left -> Nat] /\ g \in [left -> Nat]
      <3>1. \A i \in left : i \in Nat /\ externals[i] \in ExternalRow
        BY <1>1, Shapes
      <3>2. \A i \in left : externals[i].occurred \in Nat
        BY <3>1 DEF ExternalRow
      <3> QED
        BY <3>1, <3>2
    <2>2. PICK i \in left : \A j \in left : f[i] < f[j] \/ (f[i] = f[j] /\ g[i] <= g[j])
      <3> HIDE DEF f, g
      <3> QED
        BY <2>1, LeastPair
    <2>3. ASSUME NEW j \in left \ {i}
          PROVE  Before(i, j)
      <3>1. i \in Nat /\ j \in Nat /\ i # j
        BY <2>1
      <3>2. \/ externals[i].occurred < externals[j].occurred
            \/ externals[i].occurred = externals[j].occurred /\ i <= j
        BY <2>2
      <3> QED
        BY <3>1, <3>2 DEF Before
    <2> QED
      BY <1>1, <2>3
  <1>2. Matches(r) \subseteq DOMAIN externals /\ Disputes(r) \subseteq DOMAIN externals
    BY Shapes DEF TxShape, Matches, Disputes, Findings
  <1>3. Matches(r) \subseteq tx[r].marked
    <2> SUFFICES ASSUME ~(Matches(r) \subseteq tx[r].marked) PROVE FALSE
      OBVIOUS
    <2> DEFINE left == Matches(r) \ tx[r].marked
    <2>1. {i \in left : \A j \in left \ {i} : Before(i, j)} = {}
      BY DEF ToMark
    <2>2. left \subseteq DOMAIN externals
      BY <1>2
    <2>3. left # {}
      OBVIOUS
    <2> HIDE DEF left
    <2> QED
      BY <1>1, <2>1, <2>2, <2>3
  <1>4. Disputes(r) \subseteq tx[r].marked
    <2> DEFINE left == Disputes(r) \ tx[r].marked
    <2>1. {i \in left : \A j \in left \ {i} : Before(i, j)} = {}
      BY <1>3 DEF ToMark
    <2>2. left \subseteq DOMAIN externals
      BY <1>2
    <2>3. left = {}
      <3> HIDE DEF left
      <3> QED
        BY <1>1, <2>1, <2>2
    <2> QED
      BY <2>3
  <1> QED
    BY <1>3, <1>4

\* The shape of a transaction is kept by every step.
LEMMA TxTypes ==
    ASSUME TypeOK, [Next]_vars
    PROVE  DOMAIN tx' = Runs /\ \A r \in Runs : TxShape(tx'[r], Len(externals'))
  <1>1. DOMAIN tx' = Runs
    BY TxCases
  <1>2. /\ Len(externals) \in Nat /\ Len(externals') \in Nat /\ Len(externals) <= Len(externals')
        /\ 1..Len(externals) \subseteq 1..Len(externals')
    BY RowsStep
  <1>3. ASSUME NEW r \in Runs
        PROVE  TxShape(tx'[r], Len(externals'))
    <2>1. TxShape(tx[r], Len(externals))
      BY Shapes
    <2>2. CASE tx'[r] = tx[r]
      BY <1>2, <2>1, <2>2 DEF TxShape
    <2>3. ASSUME NEW s \in Sources, Goes(r, "listed", s, ListUnmatchedExternals(s), <<>>, {})
          PROVE  TxShape(tx'[r], Len(externals'))
      <3> DEFINE L == ListUnmatchedExternals(s)
      <3>1. L \subseteq 1..Len(externals')
        BY <1>2, Shapes DEF ListUnmatchedExternals
      <3>2. tx'[r] = [pc |-> "listed", source |-> s, batch |-> L, verdicts |-> <<>>, marked |-> {}]
        BY <2>3 DEF Goes
      <3> HIDE DEF L
      <3> QED
        BY <3>1, <3>2 DEF TxShape
    <2>4. CASE /\ tx[r].pc = "listed"
               /\ Goes(r, "marking", tx[r].source, tx[r].batch, MatchNaive(tx[r].batch, mirror), tx[r].marked)
      <3> DEFINE v == MatchNaive(tx[r].batch, mirror)
      <3>1. /\ tx[r].source \in Sources /\ tx[r].batch \subseteq 1..Len(externals)
            /\ tx[r].marked \subseteq tx[r].batch
        BY <2>1, <2>4 DEF TxShape
      <3>2. v \in [tx[r].batch -> VerdictRow]
        BY <3>1, Shapes, VerdictFacts
      <3>3. tx'[r] = [pc |-> "marking", source |-> tx[r].source, batch |-> tx[r].batch, verdicts |-> v,
                      marked |-> tx[r].marked]
        BY <2>4 DEF Goes
      <3> HIDE DEF v
      <3> QED
        BY <1>2, <3>1, <3>2, <3>3 DEF TxShape
    <2>5. ASSUME tx[r].pc = "marking", NEW pc \in {"marking", "done"},
                 NEW marked, marked \subseteq tx[r].batch,
                 Goes(r, pc, tx[r].source, tx[r].batch, tx[r].verdicts, marked)
          PROVE  TxShape(tx'[r], Len(externals'))
      <3>1. /\ tx[r].source \in Sources /\ tx[r].batch \subseteq 1..Len(externals)
            /\ tx[r].verdicts \in [tx[r].batch -> VerdictRow]
        BY <2>1, <2>5 DEF TxShape
      <3>2. tx'[r] = [pc |-> pc, source |-> tx[r].source, batch |-> tx[r].batch, verdicts |-> tx[r].verdicts,
                      marked |-> marked]
        BY <2>5 DEF Goes
      <3> QED
        BY <1>2, <2>5, <3>1, <3>2 DEF TxShape
    <2>6. CASE Goes(r, "failed", None, {}, <<>>, {})
      <3>1. tx'[r] = [pc |-> "failed", source |-> None, batch |-> {}, verdicts |-> <<>>, marked |-> {}]
        BY <2>6 DEF Goes
      <3> QED
        BY <3>1 DEF TxShape
    <2>7. tx[r].marked \subseteq tx[r].batch
      BY <2>1 DEF TxShape
    <2> QED
      BY <2>2, <2>3, <2>4, <2>5, <2>6, <2>7, TxCases, ToMarkInBatch
  <1> QED
    BY <1>1, <1>3

---------------------------------------------------------------------------
(* Discrepancies, events and edits.                                        *)

\* What a commit writes besides the rows
LEMMA CommitWrites ==
    ASSUME TypeOK, NEW r \in Runs, Commit(r)
    PROVE  /\ discrepancies' = discrepancies \cup {DiscrepancyFromFinding(r, i) : i \in Findings(r)}
           /\ \A i \in Findings(r) :
                 /\ i \in DOMAIN externals
                 /\ DiscrepancyFromFinding(r, i) \in DiscrepancyRow
                 /\ DiscrepancyFromFinding(r, i).run = r /\ DiscrepancyFromFinding(r, i).external = i
                 /\ DiscrepancyFromFinding(r, i).kind = tx[r].verdicts[i].kind
                 /\ tx[r].verdicts[i].kind \in Kinds
           /\ outbox' = outbox \cup {DiscrepancyEnvelope(r, i) :
                                      i \in {j \in Findings(r) : EventKind(tx[r].verdicts[j].kind) # None}}
           /\ \A i \in Findings(r) :
                 /\ DiscrepancyEnvelope(r, i).run = r /\ DiscrepancyEnvelope(r, i).external = i
                 /\ DiscrepancyEnvelope(r, i).kind = EventKind(tx[r].verdicts[i].kind)
                 /\ EventKind(tx[r].verdicts[i].kind) # None =>
                       DiscrepancyEnvelope(r, i) \in
                           [run : Runs, external : DOMAIN externals, kind : WireKinds]
           /\ UNCHANGED edit
  <1>1. /\ tx[r].verdicts \in [tx[r].batch -> VerdictRow] /\ tx[r].batch \subseteq DOMAIN externals
    BY Shapes DEF TxShape, Commit
  <1>2. ASSUME NEW i \in Findings(r)
        PROVE  /\ i \in DOMAIN externals /\ tx[r].verdicts[i].kind \in Kinds
               /\ tx[r].verdicts[i].entry \in EntryIds \cup {None}
    BY <1>1 DEF Findings, Matches, VerdictRow
  <1>3. ASSUME NEW i \in Findings(r)
        PROVE  /\ DiscrepancyFromFinding(r, i) \in DiscrepancyRow
               /\ DiscrepancyFromFinding(r, i).run = r /\ DiscrepancyFromFinding(r, i).external = i
               /\ DiscrepancyFromFinding(r, i).kind = tx[r].verdicts[i].kind
    BY <1>2 DEF DiscrepancyFromFinding, DiscrepancyRow, Statuses
  <1>4. ASSUME NEW i \in Findings(r)
        PROVE  /\ DiscrepancyEnvelope(r, i).run = r /\ DiscrepancyEnvelope(r, i).external = i
               /\ DiscrepancyEnvelope(r, i).kind = EventKind(tx[r].verdicts[i].kind)
               /\ EventKind(tx[r].verdicts[i].kind) # None =>
                     DiscrepancyEnvelope(r, i) \in
                         [run : Runs, external : DOMAIN externals, kind : WireKinds]
    <2>1. EventKind(tx[r].verdicts[i].kind) \in WireKinds \cup {None}
      BY <1>2 DEF EventKind, Kinds, WireKinds
    <2> QED
      BY <1>2, <2>1 DEF DiscrepancyEnvelope
  <1> QED
    BY <1>2, <1>3, <1>4 DEF Commit, InsertDiscrepancies, InsertOutboxEnvelopes

\* An edited discrepancy is the one that was read, with another status and note.
LEMMA EditWrites ==
    ASSUME TypeOK, NEW d \in Editors, UpdateDiscrepancy(d)
    PROVE  /\ edit[d].row \in DiscrepancyRow
           /\ Edited(d) \in DiscrepancyRow
           /\ Edited(d).run = edit[d].row.run /\ Edited(d).external = edit[d].row.external
           /\ Edited(d).kind = edit[d].row.kind
           /\ Edited(d).note = IF edit[d].note # None THEN edit[d].note ELSE edit[d].row.note
           /\ discrepancies' =
                 {IF x.run = edit[d].row.run /\ x.external = edit[d].row.external THEN Edited(d) ELSE x :
                     x \in discrepancies}
           /\ edit' = [edit EXCEPT ![d] = [NoEdit EXCEPT !.pc = "done"]]
           /\ edit[d].pc = "read"
           /\ UNCHANGED <<externals, tx, outbox, runs>>
  <1>1. edit[d].pc = "read" /\ edit[d].row \in DiscrepancyRow /\ edit[d].status \in Statuses
        /\ edit[d].note \in Notes \cup {None}
    BY DEF UpdateDiscrepancy, TypeOK
  <1>2. /\ Edited(d) \in DiscrepancyRow
        /\ Edited(d).run = edit[d].row.run /\ Edited(d).external = edit[d].row.external
        /\ Edited(d).kind = edit[d].row.kind
        /\ Edited(d).note = IF edit[d].note # None THEN edit[d].note ELSE edit[d].row.note
    BY <1>1 DEF Edited, DiscrepancyRow
  <1> QED
    BY <1>1, <1>2 DEF UpdateDiscrepancy

\* Commits and updates are what changes discrepancies, commits what changes events and
\* runs, editors what changes edits.
LEMMA FindingWriters ==
    ASSUME [Next]_vars
    PROVE  \/ UNCHANGED <<discrepancies, outbox, runs, edit>>
           \/ \E r \in Runs : Commit(r)
           \/ \E d \in Editors : \/ UpdateDiscrepancy(d)
                                 \/ \E t \in Triages : GetDiscrepancy(d, t)
  <1>1. ASSUME NEW s \in Sources, CreateSource(s)
        PROVE  UNCHANGED <<discrepancies, outbox, runs, edit>>
    BY <1>1 DEF CreateSource
  <1>2. ASSUME NEW e \in Events, Consumer(e)
        PROVE  UNCHANGED <<discrepancies, outbox, runs, edit>>
    BY <1>2 DEF Consumer, Republish, Term, Mirror, MirrorUnacked
  <1>3. ASSUME NEW s \in Sources, NEW st \in Statements, ImportStatement(s, st)
        PROVE  UNCHANGED <<discrepancies, outbox, runs, edit>>
    BY <1>3 DEF ImportStatement
  <1>4. ASSUME NEW r \in Runs, Run(r), ~Commit(r)
        PROVE  UNCHANGED <<discrepancies, outbox, runs, edit>>
    BY <1>4 DEF Run, StartRun, ListMirrorEntries, Mark, Rollback, DeadlockAbort
  <1>5. CASE UNCHANGED vars
    BY <1>5 DEF vars
  <1> QED
    BY <1>1, <1>2, <1>3, <1>4, <1>5 DEF Next, Triage

\* What GetDiscrepancy reads
LEMMA ReadEffect ==
    ASSUME TypeOK, NEW d \in Editors, NEW t \in Triages, GetDiscrepancy(d, t)
    PROVE  /\ \E x \in discrepancies :
                 edit' = [edit EXCEPT ![d] = [pc |-> "read", row |-> x, status |-> t.status, note |-> t.note]]
           /\ t.status \in Statuses /\ t.note \in Notes
           /\ UNCHANGED <<externals, tx, discrepancies, outbox, runs>>
  BY DEF GetDiscrepancy, Notes

\* Rows of discrepancies, over any rows
DRow(n) ==
    [run : Runs, external : 1..n, kind : Kinds, entry : EntryIds \cup {None},
     status : Statuses, note : Notes \cup {None}]

ERow(n) ==
    [pc : {"idle", "read", "done"}, row : DRow(n) \cup {None},
     status : Statuses \cup {None}, note : Notes \cup {None}]

VRow(n) == [run : Runs, external : 1..n, kind : WireKinds]

\* The shapes of discrepancies, events and edits are kept by every step.
LEMMA FindingTypes ==
    ASSUME TypeOK, [Next]_vars
    PROVE  /\ discrepancies' \subseteq DRow(Len(externals'))
           /\ outbox' \subseteq VRow(Len(externals'))
           /\ edit' \in [Editors -> ERow(Len(externals'))]
           /\ \A d \in Editors : edit'[d].pc = "read" =>
                 edit'[d].row \in DRow(Len(externals')) /\ edit'[d].status \in Statuses
  <1> DEFINE n == Len(externals)
             k == Len(externals')
  <1>1. n \in Nat /\ k \in Nat /\ n <= k /\ DOMAIN externals = 1..n
    BY RowsStep, Shapes
  <1>2. /\ DiscrepancyRow = DRow(n)
        /\ discrepancies \subseteq DRow(n) /\ outbox \subseteq VRow(n)
        /\ edit \in [Editors -> ERow(n)]
        /\ \A d \in Editors : edit[d].pc = "read" => edit[d].row \in DRow(n) /\ edit[d].status \in Statuses
    BY <1>1 DEF TypeOK, DiscrepancyRow, DRow, VRow, ERow
  <1>3. DRow(n) \subseteq DRow(k) /\ VRow(n) \subseteq VRow(k)
    <2>1. 1..n \subseteq 1..k
      BY <1>1
    <2> HIDE DEF n, k
    <2> QED
      BY <2>1 DEF DRow, VRow
  <1> HIDE DEF n, k
  <1>4. /\ discrepancies \subseteq DRow(k) /\ outbox \subseteq VRow(k)
        /\ edit \in [Editors -> ERow(k)]
        /\ \A d \in Editors : edit[d].pc = "read" => edit[d].row \in DRow(k) /\ edit[d].status \in Statuses
    <2>1. ERow(n) \subseteq ERow(k)
      BY <1>3 DEF ERow
    <2> QED
      BY <1>2, <1>3, <2>1
  <1> DEFINE Goal == /\ discrepancies' \subseteq DRow(k)
                     /\ outbox' \subseteq VRow(k)
                     /\ edit' \in [Editors -> ERow(k)]
                     /\ \A d \in Editors : edit'[d].pc = "read" => edit'[d].row \in DRow(k) /\ edit'[d].status \in Statuses
  <1>5. CASE UNCHANGED <<discrepancies, outbox, runs, edit>>
    <2>1. Goal
      BY <1>4, <1>5
    <2> QED
      BY <2>1 DEF k
  <1>6. ASSUME NEW r \in Runs, Commit(r)
        PROVE  Goal
    <2>1. \A i \in Findings(r) :
             /\ DiscrepancyFromFinding(r, i) \in DRow(k)
             /\ EventKind(tx[r].verdicts[i].kind) # None => DiscrepancyEnvelope(r, i) \in VRow(k)
      BY <1>1, <1>2, <1>3, <1>6, CommitWrites DEF VRow
    <2> QED
      BY <1>4, <1>6, <2>1, CommitWrites
  <1>7. ASSUME NEW d \in Editors, UpdateDiscrepancy(d)
        PROVE  Goal
    <2>1. Edited(d) \in DRow(k)
      BY <1>2, <1>3, <1>7, EditWrites
    <2>2. [NoEdit EXCEPT !.pc = "done"] \in ERow(k) /\ [NoEdit EXCEPT !.pc = "done"].pc = "done"
      BY DEF NoEdit, ERow
    <2>3. discrepancies' \subseteq DRow(k)
      BY <1>4, <1>7, <2>1, EditWrites
    <2>4. outbox' = outbox /\ edit' = [edit EXCEPT ![d] = [NoEdit EXCEPT !.pc = "done"]]
      BY <1>7, EditWrites
    <2>5. edit' \in [Editors -> ERow(k)]
      BY <1>4, <2>2, <2>4
    <2>6. \A c \in Editors : edit'[c].pc = "read" => edit'[c] = edit[c]
      BY <1>4, <2>2, <2>4
    <2> QED
      BY <1>4, <2>3, <2>4, <2>5, <2>6
  <1>8. ASSUME NEW d \in Editors, NEW t \in Triages, GetDiscrepancy(d, t)
        PROVE  Goal
    <2>1. PICK x \in discrepancies :
             edit' = [edit EXCEPT ![d] = [pc |-> "read", row |-> x, status |-> t.status, note |-> t.note]]
      BY <1>8, ReadEffect
    <2>2. x \in DRow(k) /\ t.status \in Statuses /\ t.note \in Notes
      BY <1>4, <1>8, ReadEffect
    <2>3. [pc |-> "read", row |-> x, status |-> t.status, note |-> t.note] \in ERow(k)
      BY <2>2 DEF ERow
    <2>4. UNCHANGED <<discrepancies, outbox>>
      BY <1>8, ReadEffect
    <2> QED
      BY <1>4, <2>1, <2>2, <2>3, <2>4
  <1>9. Goal
    BY <1>5, <1>6, <1>7, <1>8, FindingWriters DEF k
  <1> QED
    BY <1>9 DEF k

---------------------------------------------------------------------------
(* The tables keep their shapes.                                           *)

\* A committed run is final, and only a commit makes one.
LEMMA DoneIsFinal ==
    ASSUME TypeOK, [Next]_vars, NEW r \in Runs
    PROVE  /\ tx[r].pc = "done" => tx'[r] = tx[r]
           /\ tx'[r].pc = "done" => tx'[r] = tx[r] \/ Commit(r)
  <1>1. \A pc, source, batch, verdicts, marked :
           Goes(r, pc, source, batch, verdicts, marked) => tx'[r].pc = pc
    BY DEF Goes
  <1> QED
    BY <1>1, TxCases

\* A commit writes the run's row with its counters.
LEMMA CommitRun ==
    ASSUME TypeOK, NEW r \in Runs, Commit(r)
    PROVE  /\ runs' \in [Runs -> RunRow \cup {None}]
           /\ runs'[r] # None
           /\ runs'[r].matched = Cardinality(Matches(r)) /\ runs'[r].unmatched = Cardinality(Findings(r))
           /\ \A q \in Runs \ {r} : runs'[q] = runs[q]
           /\ tx[r].pc = "marking" /\ tx'[r].pc = "done"
           /\ tx'[r].batch = tx[r].batch /\ tx'[r].verdicts = tx[r].verdicts /\ tx'[r].marked = tx[r].marked
           /\ \A q \in Runs \ {r} : tx'[q] = tx[q]
  <1> DEFINE row == [source |-> tx[r].source, status |-> "completed",
                     matched |-> Cardinality(Matches(r)), unmatched |-> Cardinality(Findings(r))]
  <1>1. runs' = [runs EXCEPT ![r] = row] /\ tx[r].pc = "marking"
    BY DEF Commit
  <1>2. tx[r].source \in Sources
    BY <1>1, Shapes DEF TxShape
  <1>3. row \in RunRow /\ row.matched = Cardinality(Matches(r)) /\ row.unmatched = Cardinality(Findings(r))
    BY <1>2, BatchCounts DEF RunRow
  <1> HIDE DEF row
  <1>4. /\ runs' \in [Runs -> RunRow \cup {None}] /\ runs'[r] = row
        /\ \A q \in Runs \ {r} : runs'[q] = runs[q]
    BY <1>1, <1>3 DEF TypeOK
  <1>5. row # None
    BY <1>3, InputsAreTyped
  <1>6. Goes(r, "done", tx[r].source, tx[r].batch, tx[r].verdicts, tx[r].marked)
    BY RunSteps
  <1>7. /\ tx'[r].pc = "done" /\ tx'[r].batch = tx[r].batch /\ tx'[r].verdicts = tx[r].verdicts
        /\ tx'[r].marked = tx[r].marked
        /\ \A q \in Runs \ {r} : tx'[q] = tx[q]
    BY <1>6 DEF Goes
  <1> QED
    BY <1>1, <1>3, <1>4, <1>5, <1>7

\* A run has its row exactly when it has committed, with the counters of its verdicts.
LEMMA RunsStep ==
    ASSUME TypeOK, CountsAreRight, [Next]_vars
    PROVE  /\ runs' \in [Runs -> RunRow \cup {None}]
           /\ \A r \in Runs : runs'[r] = None <=> tx'[r].pc # "done"
           /\ CountsAreRight'
  <1> DEFINE Right(q) ==
                /\ runs'[q] = None <=> tx'[q].pc # "done"
                /\ runs'[q] # None =>
                      /\ runs'[q].matched = Cardinality({i \in tx'[q].batch : tx'[q].verdicts[i].kind = "match"})
                      /\ runs'[q].unmatched =
                            Cardinality(tx'[q].batch \ {i \in tx'[q].batch : tx'[q].verdicts[i].kind = "match"})
  <1>1. SUFFICES runs' \in [Runs -> RunRow \cup {None}] /\ \A q \in Runs : Right(q)
    BY DEF CountsAreRight, Matches, Findings
  <1>2. \A q \in Runs :
           /\ runs[q] = None <=> tx[q].pc # "done"
           /\ runs[q] # None =>
                 /\ runs[q].matched = Cardinality({i \in tx[q].batch : tx[q].verdicts[i].kind = "match"})
                 /\ runs[q].unmatched =
                       Cardinality(tx[q].batch \ {i \in tx[q].batch : tx[q].verdicts[i].kind = "match"})
    BY DEF TypeOK, CountsAreRight, Matches, Findings
  <1>3. ASSUME NEW q \in Runs, runs'[q] = runs[q], tx'[q] = tx[q]
        PROVE  Right(q)
    BY <1>2, <1>3
  <1>4. ASSUME NEW r \in Runs, Commit(r)
        PROVE  runs' \in [Runs -> RunRow \cup {None}] /\ \A q \in Runs : Right(q)
    <2>0. tx'[r].batch = tx[r].batch /\ tx'[r].verdicts = tx[r].verdicts
      BY <1>4, CommitRun
    <2>2. {i \in tx'[r].batch : tx'[r].verdicts[i].kind = "match"} = Matches(r)
      BY <2>0 DEF Matches
    <2>3. tx'[r].batch \ {i \in tx'[r].batch : tx'[r].verdicts[i].kind = "match"} = Findings(r)
      BY <2>0, <2>2 DEF Findings
    <2>1. Right(r)
      BY <1>4, <2>2, <2>3, CommitRun
    <2> HIDE DEF Right
    <2> QED
      BY <1>3, <1>4, <2>1, CommitRun
  <1>5. ASSUME \A r \in Runs : ~Commit(r)
        PROVE  runs' \in [Runs -> RunRow \cup {None}] /\ \A q \in Runs : Right(q)
    <2>1. runs' = runs
      BY <1>5, FindingWriters, EditWrites, ReadEffect
    <2>2. ASSUME NEW q \in Runs
          PROVE  Right(q)
      <3>1. CASE tx'[q].pc = "done"
        BY <1>3, <1>5, <2>1, <3>1, DoneIsFinal
      <3>2. CASE tx'[q].pc # "done"
        <4>1. tx[q].pc # "done"
          BY <3>2, DoneIsFinal
        <4> QED
          BY <1>2, <2>1, <3>2, <4>1
      <3> QED
        BY <3>1, <3>2
    <2> QED
      BY <2>1, <2>2 DEF TypeOK
  <1> QED
    BY <1>4, <1>5

\* Rivals are sets of runs, one set per row.
LEMMA RivalTypes ==
    ASSUME TypeOK, [Next]_vars
    PROVE  rivals' \in Seq(SUBSET Runs) /\ Len(rivals') = Len(externals')
  <1>1. CASE UNCHANGED <<externals, rivals>>
    BY <1>1, Shapes
  <1>2. ASSUME NEW s \in Sources, NEW st \in Statements, ImportStatement(s, st)
        PROVE  rivals' \in Seq(SUBSET Runs) /\ Len(rivals') = Len(externals')
    BY <1>2, ImportRows
  <1>3. ASSUME NEW r \in Runs, Commit(r)
        PROVE  rivals' \in Seq(SUBSET Runs) /\ Len(rivals') = Len(externals')
    <2>1. Len(externals) \in Nat /\ DOMAIN externals = 1..Len(externals) /\ Len(externals') = Len(externals)
      BY <1>3, Shapes, CommitRows
    <2>2. \A i \in DOMAIN externals : rivals[i] \subseteq Runs /\ Reading(i) \subseteq Runs
      BY Shapes DEF Reading
    <2>3. rivals' \in [1..Len(externals) -> SUBSET Runs]
      BY <1>3, <2>1, <2>2 DEF Commit
    <2> QED
      BY <2>1, <2>3, SeqDef, LenProperties
  <1> QED
    BY <1>1, <1>2, <1>3, RowWriters

\* Sources and imports keep their shapes.
LEMMA ImportTypes ==
    ASSUME TypeOK, [Next]_vars
    PROVE  /\ sources' \subseteq Sources
           /\ imports' \in Seq([source : Sources, status : {"processed", "failed"}, rows : Nat])
  <1> DEFINE Row == [source : Sources, status : {"processed", "failed"}, rows : Nat]
  <1>0. sources \subseteq Sources /\ imports \in Seq(Row)
    BY DEF TypeOK
  <1>1. ASSUME NEW s \in Sources, CreateSource(s)
        PROVE  sources' \subseteq Sources /\ imports' \in Seq(Row)
    BY <1>0, <1>1 DEF CreateSource
  <1>2. ASSUME NEW e \in Events, Consumer(e)
        PROVE  UNCHANGED <<sources, imports>>
    BY <1>2 DEF Consumer, Republish, Term, Mirror, MirrorUnacked
  <1>3. ASSUME NEW s \in Sources, NEW st \in Statements, ImportStatement(s, st)
        PROVE  sources' \subseteq Sources /\ imports' \in Seq(Row)
    <2>1. \E status \in {"processed", "failed"}, n \in {0, Len(st)} :
             imports' = Append(imports, [source |-> s, status |-> status, rows |-> n])
      BY <1>3 DEF ImportStatement, InsertImport
    <2>2. Len(st) \in Nat
      BY InputsAreTyped
    <2>3. PICK status \in {"processed", "failed"}, n \in {0, Len(st)} :
             imports' = Append(imports, [source |-> s, status |-> status, rows |-> n])
      BY <2>1
    <2>4. [source |-> s, status |-> status, rows |-> n] \in Row
      BY <2>2
    <2>5. imports' \in Seq(Row)
      <3> HIDE DEF Row
      <3> QED
        BY <1>0, <2>3, <2>4, AppendProperties
    <2> QED
      BY <1>0, <1>3, <2>5 DEF ImportStatement
  <1>4. ASSUME NEW r \in Runs, Run(r)
        PROVE  UNCHANGED <<sources, imports>>
    BY <1>4 DEF Run, StartRun, ListMirrorEntries, Mark, Commit, Rollback, DeadlockAbort
  <1>5. ASSUME NEW d \in Editors, Triage(d)
        PROVE  UNCHANGED <<sources, imports>>
    BY <1>5 DEF Triage, GetDiscrepancy, UpdateDiscrepancy
  <1>6. ASSUME UNCHANGED vars
        PROVE  UNCHANGED <<sources, imports>>
    BY <1>6 DEF vars
  <1> HIDE DEF Row
  <1>7. sources' \subseteq Sources /\ imports' \in Seq(Row)
    BY <1>0, <1>1, <1>2, <1>3, <1>4, <1>5, <1>6 DEF Next
  <1> QED
    BY <1>7 DEF Row

\* Every step keeps the tables' shapes.
LEMMA TypeStep ==
    ASSUME TypeOK, MirrorIsWhole, MirrorIsExact, CountsAreRight, [Next]_vars
    PROVE  TypeOK'
  <1>1. stream' \in [Events -> {"ready", "done"}] /\ mirror' \subseteq Entries
    BY MirrorStep DEF MirrorIsExact
  <1>2. /\ sources' \subseteq Sources
        /\ imports' \in Seq([source : Sources, status : {"processed", "failed"}, rows : Nat])
    BY ImportTypes
  <1>3. externals' \in Seq(ExternalRow) /\ DOMAIN externals' = 1..Len(externals')
    BY RowsStep
  <1>4. /\ DOMAIN tx' = Runs
        /\ \A r \in Runs :
              /\ tx'[r] \in [pc : {"idle", "listed", "marking", "done", "failed"},
                             source : Sources \cup {None}, batch : SUBSET DOMAIN externals',
                             verdicts : {<<>>} \cup [tx'[r].batch -> VerdictRow],
                             marked : SUBSET tx'[r].batch]
              /\ tx'[r].pc = "idle" => tx'[r] = NoTx
              /\ tx'[r].pc \in {"listed", "marking", "done"} => tx'[r].source \in Sources
              /\ tx'[r].pc \in {"marking", "done"} => tx'[r].verdicts \in [tx'[r].batch -> VerdictRow]
    BY <1>3, TxTypes DEF TxShape
  <1>5. /\ runs' \in [Runs -> RunRow \cup {None}]
        /\ \A r \in Runs : runs'[r] = None <=> tx'[r].pc # "done"
    BY RunsStep
  <1>6. /\ discrepancies' \subseteq DiscrepancyRow'
        /\ outbox' \subseteq [run : Runs, external : DOMAIN externals',
                              kind : WireKinds]
        /\ edit' \in [Editors -> [pc : {"idle", "read", "done"}, row : DiscrepancyRow' \cup {None},
                                  status : Statuses \cup {None}, note : Notes \cup {None}]]
        /\ \A d \in Editors : edit'[d].pc = "read" => edit'[d].row \in DiscrepancyRow' /\ edit'[d].status \in Statuses
    <2>1. DiscrepancyRow' = DRow(Len(externals'))
      BY <1>3 DEF DiscrepancyRow, DRow
    <2> QED
      BY <1>3, <2>1, FindingTypes DEF ERow, VRow
  <1>7. rivals' \in Seq(SUBSET Runs) /\ Len(rivals') = Len(externals')
    BY RivalTypes
  <1> QED
    BY <1>1, <1>2, <1>3, <1>4, <1>5, <1>6, <1>7 DEF TypeOK

---------------------------------------------------------------------------
(* Matches are backed, and readers of settled rows are rivals.             *)

\* What backs a row backs it for good: entries stay, and the row's data do.
LEMMA BackingStays ==
    ASSUME mirror \subseteq mirror', NEW x, NEW y, SameData(x, y), NEW id, Backed(x, id)
    PROVE  \E m \in mirror' :
              /\ m.id = id /\ m.reference = y.ref
              /\ m.amount = y.amount /\ m.asset = y.asset
              /\ y.direction \in {None, m.direction}
  BY DEF Backed, SameData

\* Every step keeps the verdicts of the runs backed.
LEMMA VerdictsStep ==
    ASSUME TypeOK, MirrorIsWhole, MirrorIsExact, VerdictsAreBacked, [Next]_vars
    PROVE  VerdictsAreBacked'
  <1>1. mirror \subseteq mirror'
    BY MirrorStep DEF MirrorIsExact
  <1>2. SUFFICES ASSUME NEW r \in Runs, tx'[r].pc \in {"marking", "done"},
                        NEW i \in tx'[r].batch, tx'[r].verdicts[i].kind = "match"
                 PROVE  \E m \in mirror' :
                           /\ m.id = tx'[r].verdicts[i].entry /\ m.reference = externals'[i].ref
                           /\ m.amount = externals'[i].amount /\ m.asset = externals'[i].asset
                           /\ externals'[i].direction \in {None, m.direction}
    BY DEF VerdictsAreBacked, Matches, Backed
  <1>3. i \in DOMAIN externals /\ Backed(externals[i], tx'[r].verdicts[i].entry)
    <2>1. tx[r].batch \subseteq DOMAIN externals
      BY Shapes DEF TxShape
    <2>2. CASE tx[r].pc \in {"marking", "done"} /\ tx'[r].batch = tx[r].batch /\ tx'[r].verdicts = tx[r].verdicts
      BY <1>2, <2>1, <2>2 DEF VerdictsAreBacked, Matches
    <2>3. CASE /\ tx[r].pc = "listed"
               /\ Goes(r, "marking", tx[r].source, tx[r].batch, MatchNaive(tx[r].batch, mirror), tx[r].marked)
      <3>1. tx'[r].batch = tx[r].batch /\ tx'[r].verdicts = MatchNaive(tx[r].batch, mirror)
        BY <2>3 DEF Goes
      <3> QED
        BY <1>2, <2>1, <3>1, VerdictFacts
    <2>4. \A pc, source, batch, verdicts, marked :
             Goes(r, pc, source, batch, verdicts, marked) =>
                tx'[r].pc = pc /\ tx'[r].batch = batch /\ tx'[r].verdicts = verdicts
      BY DEF Goes
    <2>5. CASE tx'[r] = tx[r]
      BY <1>2, <2>2, <2>5
    <2>6. ASSUME NEW s \in Sources, Goes(r, "listed", s, ListUnmatchedExternals(s), <<>>, {})
          PROVE  FALSE
      BY <1>2, <2>4, <2>6
    <2>7. ASSUME tx[r].pc = "marking", NEW pc, NEW marked,
                 Goes(r, pc, tx[r].source, tx[r].batch, tx[r].verdicts, marked)
          PROVE  i \in DOMAIN externals /\ Backed(externals[i], tx'[r].verdicts[i].entry)
      BY <2>2, <2>4, <2>7
    <2>8. ASSUME Goes(r, "failed", None, {}, <<>>, {})
          PROVE  FALSE
      BY <1>2, <2>4, <2>8
    <2> QED
      BY <2>3, <2>5, <2>6, <2>7, <2>8, TxCases
  <1>4. SameData(externals[i], externals'[i])
    BY <1>3, RowsStep
  <1> QED
    BY <1>1, <1>3, <1>4, BackingStays

\* Every step keeps matched rows backed.
LEMMA MatchesStep ==
    ASSUME TypeOK, MirrorIsWhole, MirrorIsExact, VerdictsAreBacked, MatchesAreReal, [Next]_vars
    PROVE  MatchesAreReal'
  <1>1. mirror \subseteq mirror'
    BY MirrorStep DEF MirrorIsExact
  <1>2. SUFFICES ASSUME NEW i \in DOMAIN externals', externals'[i].status = "matched"
                 PROVE  \E m \in mirror' :
                           /\ m.id = externals'[i].entry /\ m.reference = externals'[i].ref
                           /\ m.amount = externals'[i].amount /\ m.asset = externals'[i].asset
                           /\ externals'[i].direction \in {None, m.direction}
    BY DEF MatchesAreReal, Backed
  <1>3. i \in DOMAIN externals
    BY <1>2, RowsStep
  <1>4. Backed(externals[i], externals'[i].entry)
    <2>1. CASE externals'[i] = externals[i]
      BY <1>2, <1>3, <2>1 DEF MatchesAreReal
    <2>2. ASSUME NEW r \in Runs, Commit(r), externals'[i] # externals[i]
          PROVE  Backed(externals[i], externals'[i].entry)
      <3>1. i \in Matches(r) \cup Disputes(r) /\ i \notin Disputes(r)
        BY <1>2, <1>3, <2>2, CommitRows
      <3>2. externals'[i].entry = tx[r].verdicts[i].entry /\ tx[r].pc = "marking"
        BY <2>2, <3>1, CommitRows DEF Commit
      <3> QED
        BY <3>1, <3>2 DEF VerdictsAreBacked
    <2> QED
      BY <1>3, <2>1, <2>2, RowWriters, ImportRows
  <1>5. SameData(externals[i], externals'[i])
    BY <1>3, RowsStep
  <1> QED
    BY <1>1, <1>4, <1>5, BackingStays

\* Every step keeps the readers of settled rows among their rivals.
LEMMA RivalsStep ==
    ASSUME TypeOK, ReadersAreRivals, [Next]_vars
    PROVE  ReadersAreRivals'
  <1>1. SUFFICES ASSUME NEW i \in DOMAIN externals', externals'[i].status \in Settled,
                        NEW q \in Runs, tx'[q].pc \in {"listed", "marking"}, i \in tx'[q].batch
                 PROVE  q \in rivals'[i]
    BY DEF ReadersAreRivals, Reading
  <1>2. i \in DOMAIN externals
    BY <1>1, RowsStep DEF Settled
  <1>3. q \in Reading(i)
    <2>1. \A pc, source, batch, verdicts, marked :
             Goes(q, pc, source, batch, verdicts, marked) => tx'[q].pc = pc /\ tx'[q].batch = batch
      BY DEF Goes
    <2>2. ASSUME tx[q].pc = "idle", NEW s \in Sources, Goes(q, "listed", s, ListUnmatchedExternals(s), <<>>, {})
          PROVE  FALSE
      <3>1. externals[i].status = "unmatched"
        BY <1>1, <2>1, <2>2 DEF ListUnmatchedExternals
      <3>2. externals'[i] # externals[i]
        BY <1>1, <3>1 DEF Settled
      <3>3. PICK r \in Runs : Commit(r)
        BY <1>2, <3>2, RowWriters, ImportRows
      <3>4. r # q /\ tx'[q] = tx[q]
        BY <2>2, <3>3, CommitRun
      <3> QED
        BY <2>1, <2>2, <3>4
    <2>3. tx[q].pc \in {"listed", "marking"} /\ i \in tx[q].batch
      BY <1>1, <2>1, <2>2, TxCases
    <2> QED
      BY <2>3 DEF Reading
  <1>4. CASE externals'[i] = externals[i] /\ rivals'[i] = rivals[i]
    BY <1>1, <1>2, <1>3, <1>4 DEF ReadersAreRivals
  <1>5. ASSUME NEW r \in Runs, Commit(r)
        PROVE  q \in rivals'[i]
    <2>1. r # q
      BY <1>1, <1>5, CommitRun
    <2>2. rivals'[i] = IF externals[i].status = "unmatched" /\ i \in tx[r].marked
                       THEN Reading(i) \ {r} ELSE rivals[i]
      BY <1>2, <1>5 DEF Commit
    <2>3. CASE externals[i].status \in Settled
      <3>1. rivals'[i] = rivals[i]
        BY <2>2, <2>3 DEF Settled
      <3> QED
        BY <1>2, <1>3, <2>3, <3>1 DEF ReadersAreRivals
    <2>4. CASE externals[i].status = "unmatched"
      <3>1. externals'[i] # externals[i]
        BY <1>1, <2>4 DEF Settled
      <3>2. i \in Matches(r) \cup Disputes(r)
        BY <1>2, <1>5, <3>1, CommitRows
      <3>3. i \in tx[r].marked
        BY <1>5, <3>2, AllMarked DEF Commit
      <3> QED
        BY <1>3, <2>1, <2>2, <2>4, <3>3
    <2>5. externals[i].status \in {"unmatched"} \cup Settled
      BY <1>2, Shapes DEF ExternalRow
    <2> QED
      BY <2>3, <2>4, <2>5
  <1>6. ASSUME NEW s \in Sources, NEW st \in Statements, ImportStatement(s, st)
        PROVE  externals'[i] = externals[i] /\ rivals'[i] = rivals[i]
    BY <1>2, <1>6, ImportRows
  <1> QED
    BY <1>4, <1>5, <1>6, RowWriters

---------------------------------------------------------------------------
(* Findings are reported, once each.                                       *)

\* The findings of a transaction
Found(t) == {i \in t.batch : t.verdicts[i].kind # "match"}

\* Discrepancies ds, events os and edits es report the findings of the runs in ts.
Told(ts, ds, os, es) ==
    /\ \A x \in ds : /\ ts[x.run].pc = "done" /\ x.external \in Found(ts[x.run])
                     /\ x.kind = ts[x.run].verdicts[x.external].kind
    /\ \A x, y \in ds : x.run = y.run /\ x.external = y.external => x = y
    /\ \A d \in Editors : es[d].pc = "read" =>
          /\ ts[es[d].row.run].pc = "done" /\ es[d].row.external \in Found(ts[es[d].row.run])
          /\ es[d].row.kind = ts[es[d].row.run].verdicts[es[d].row.external].kind
    /\ \A v \in os : /\ ts[v.run].pc = "done" /\ v.external \in Found(ts[v.run])
                     /\ v.kind = EventKind(ts[v.run].verdicts[v.external].kind)
    /\ \A r \in Runs : ts[r].pc = "done" =>
          \A i \in Found(ts[r]) :
              /\ \E x \in ds : x.run = r /\ x.external = i
              /\ EventKind(ts[r].verdicts[i].kind) # None =>
                    [run |-> r, external |-> i, kind |-> EventKind(ts[r].verdicts[i].kind)] \in os

\* FindingsAreReported says that of the variables, before and after a step.
LEMMA ToldIs ==
    /\ FindingsAreReported <=> Told(tx, discrepancies, outbox, edit)
    /\ FindingsAreReported' <=> Told(tx', discrepancies', outbox', edit')
  <1>1. \A r : Findings(r) = Found(tx[r]) /\ Findings(r)' = Found(tx'[r])
    BY DEF Findings, Matches, Found
  <1>2. FindingsAreReported <=> Told(tx, discrepancies, outbox, edit)
    BY <1>1 DEF FindingsAreReported, Told, Reports, DiscrepancyEnvelope
  <1>3. FindingsAreReported' <=> Told(tx', discrepancies', outbox', edit')
    BY <1>1 DEF FindingsAreReported, Told, Reports, DiscrepancyEnvelope
  <1> QED
    BY <1>2, <1>3

\* Every step keeps findings and reports in agreement.
LEMMA FindingsStep ==
    ASSUME TypeOK, FindingsAreReported, [Next]_vars
    PROVE  FindingsAreReported'
  <1>1. Told(tx, discrepancies, outbox, edit)
    BY ToldIs
  <1> SUFFICES Told(tx', discrepancies', outbox', edit')
    BY ToldIs
  <1>2. /\ \A x \in discrepancies : x.run \in Runs
        /\ \A v \in outbox : v.run \in Runs
        /\ \A d \in Editors : edit[d].pc = "read" => edit[d].row.run \in Runs
        /\ edit \in [Editors -> [pc : {"idle", "read", "done"}, row : DiscrepancyRow \cup {None},
                                 status : Statuses \cup {None}, note : Notes \cup {None}]]
    BY DEF TypeOK, DiscrepancyRow
  <1>3. \A r \in Runs : tx[r].pc = "done" => tx'[r] = tx[r]
    BY DoneIsFinal
  <1>4. ASSUME \A r \in Runs : ~Commit(r)
        PROVE  \A r \in Runs : tx'[r].pc = "done" => tx'[r] = tx[r]
    BY <1>4, DoneIsFinal
  <1>5. ASSUME UNCHANGED <<discrepancies, outbox, runs, edit>>, \A r \in Runs : ~Commit(r)
        PROVE  Told(tx', discrepancies', outbox', edit')
    <2>1. /\ \A x \in discrepancies : tx'[x.run] = tx[x.run]
          /\ \A v \in outbox : tx'[v.run] = tx[v.run]
          /\ \A d \in Editors : edit[d].pc = "read" => tx'[edit[d].row.run] = tx[edit[d].row.run]
      BY <1>1, <1>2, <1>3 DEF Told
    <2>2. \A x \in discrepancies : /\ tx'[x.run].pc = "done" /\ x.external \in Found(tx'[x.run])
                                   /\ x.kind = tx'[x.run].verdicts[x.external].kind
      BY <1>1, <2>1 DEF Told
    <2>3. \A v \in outbox : /\ tx'[v.run].pc = "done" /\ v.external \in Found(tx'[v.run])
                            /\ v.kind = EventKind(tx'[v.run].verdicts[v.external].kind)
      BY <1>1, <2>1 DEF Told
    <2>4. \A d \in Editors : edit[d].pc = "read" =>
             /\ tx'[edit[d].row.run].pc = "done" /\ edit[d].row.external \in Found(tx'[edit[d].row.run])
             /\ edit[d].row.kind = tx'[edit[d].row.run].verdicts[edit[d].row.external].kind
      BY <1>1, <2>1 DEF Told
    <2>5. \A r \in Runs : tx'[r].pc = "done" =>
             \A i \in Found(tx'[r]) :
                /\ \E x \in discrepancies : x.run = r /\ x.external = i
                /\ EventKind(tx'[r].verdicts[i].kind) # None =>
                      [run |-> r, external |-> i, kind |-> EventKind(tx'[r].verdicts[i].kind)] \in outbox
      BY <1>1, <1>4, <1>5 DEF Told
    <2>6. Told(tx', discrepancies, outbox, edit)
      BY <1>1, <2>2, <2>3, <2>4, <2>5, Zenon DEF Told
    <2> QED
      BY <1>5, <2>6
  <1>6. ASSUME NEW d \in Editors, NEW t \in Triages, GetDiscrepancy(d, t)
        PROVE  Told(tx', discrepancies', outbox', edit')
    <2>1. PICK x \in discrepancies :
             edit' = [edit EXCEPT ![d] = [pc |-> "read", row |-> x, status |-> t.status, note |-> t.note]]
      BY <1>6, ReadEffect
    <2>2. UNCHANGED <<tx, discrepancies, outbox>>
      BY <1>6, ReadEffect
    <2>3. edit'[d].row = x /\ \A c \in Editors \ {d} : edit'[c] = edit[c]
      BY <1>2, <2>1
    <2>4. /\ tx[x.run].pc = "done" /\ x.external \in Found(tx[x.run])
          /\ x.kind = tx[x.run].verdicts[x.external].kind
      BY <1>1 DEF Told
    <2>5. \A c \in Editors \ {d} : edit[c].pc = "read" =>
             /\ tx[edit[c].row.run].pc = "done" /\ edit[c].row.external \in Found(tx[edit[c].row.run])
             /\ edit[c].row.kind = tx[edit[c].row.run].verdicts[edit[c].row.external].kind
      BY <1>1 DEF Told
    <2>6. \A c \in Editors : edit'[c].pc = "read" =>
             /\ tx[edit'[c].row.run].pc = "done" /\ edit'[c].row.external \in Found(tx[edit'[c].row.run])
             /\ edit'[c].row.kind = tx[edit'[c].row.run].verdicts[edit'[c].row.external].kind
      <3> SUFFICES ASSUME NEW c \in Editors, edit'[c].pc = "read"
                   PROVE  /\ tx[edit'[c].row.run].pc = "done" /\ edit'[c].row.external \in Found(tx[edit'[c].row.run])
                          /\ edit'[c].row.kind = tx[edit'[c].row.run].verdicts[edit'[c].row.external].kind
        OBVIOUS
      <3>1. CASE c = d
        BY <2>3, <2>4, <3>1
      <3>2. CASE c # d
        BY <2>3, <2>5, <3>2
      <3> QED
        BY <3>1, <3>2
    <2>7. Told(tx, discrepancies, outbox, edit')
      BY <1>1, <2>6 DEF Told
    <2> QED
      BY <2>2, <2>7
  <1>7. ASSUME NEW d \in Editors, UpdateDiscrepancy(d)
        PROVE  Told(tx', discrepancies', outbox', edit')
    <2> DEFINE f(x) == IF x.run = edit[d].row.run /\ x.external = edit[d].row.external THEN Edited(d) ELSE x
    <2>1. /\ UNCHANGED <<tx, outbox>> /\ edit[d].pc = "read"
          /\ discrepancies' = {f(x) : x \in discrepancies}
          /\ Edited(d).run = edit[d].row.run /\ Edited(d).external = edit[d].row.external
          /\ Edited(d).kind = edit[d].row.kind
      BY <1>7, EditWrites
    <2>2. \A x \in discrepancies : f(x).run = x.run /\ f(x).external = x.external
      BY <2>1
    <2>3. \A x \in discrepancies : f(x).kind = tx[x.run].verdicts[x.external].kind
      BY <1>1, <2>1 DEF Told
    <2>4. \A c \in Editors : edit'[c].pc = "read" => edit'[c] = edit[c]
      <3>1. edit' = [edit EXCEPT ![d] = [NoEdit EXCEPT !.pc = "done"]]
        BY <1>7, EditWrites
      <3>2. [NoEdit EXCEPT !.pc = "done"].pc = "done"
        BY DEF NoEdit
      <3> QED
        BY <1>2, <3>1, <3>2
    <2> HIDE DEF f
    <2>5. \A y \in discrepancies' : /\ tx'[y.run].pc = "done" /\ y.external \in Found(tx'[y.run])
                                    /\ y.kind = tx'[y.run].verdicts[y.external].kind
      <3>1. \A x \in discrepancies : tx[x.run].pc = "done" /\ x.external \in Found(tx[x.run])
        BY <1>1 DEF Told
      <3>2. ASSUME NEW x \in discrepancies
            PROVE  /\ tx'[f(x).run].pc = "done" /\ f(x).external \in Found(tx'[f(x).run])
                   /\ f(x).kind = tx'[f(x).run].verdicts[f(x).external].kind
        BY <2>1, <2>2, <2>3, <3>1
      <3> QED
        BY <2>1, <3>2
    <2>6. \A x, y \in discrepancies' : x.run = y.run /\ x.external = y.external => x = y
      <3>1. \A x, y \in discrepancies : x.run = y.run /\ x.external = y.external => x = y
        BY <1>1 DEF Told
      <3>2. ASSUME NEW x \in discrepancies, NEW y \in discrepancies,
                   f(x).run = f(y).run, f(x).external = f(y).external
            PROVE  f(x) = f(y)
        <4>1. x = y
          BY <2>2, <3>1, <3>2
        <4> QED
          BY <4>1
      <3> QED
        BY <2>1, <3>2
    <2>7. \A r \in Runs : tx'[r].pc = "done" =>
             \A i \in Found(tx'[r]) : \E x \in discrepancies' : x.run = r /\ x.external = i
      <3>1. SUFFICES ASSUME NEW r \in Runs, tx'[r].pc = "done", NEW i \in Found(tx'[r])
                     PROVE  \E x \in discrepancies' : x.run = r /\ x.external = i
        OBVIOUS
      <3>2. PICK x \in discrepancies : x.run = r /\ x.external = i
        BY <1>1, <2>1, <3>1 DEF Told
      <3>3. f(x) \in discrepancies' /\ f(x).run = r /\ f(x).external = i
        BY <2>1, <2>2, <3>2
      <3> QED
        BY <3>3
    <2>8. \A c \in Editors : edit'[c].pc = "read" =>
             /\ tx'[edit'[c].row.run].pc = "done" /\ edit'[c].row.external \in Found(tx'[edit'[c].row.run])
             /\ edit'[c].row.kind = tx'[edit'[c].row.run].verdicts[edit'[c].row.external].kind
      <3>1. \A c \in Editors : edit[c].pc = "read" =>
               /\ tx[edit[c].row.run].pc = "done" /\ edit[c].row.external \in Found(tx[edit[c].row.run])
               /\ edit[c].row.kind = tx[edit[c].row.run].verdicts[edit[c].row.external].kind
        BY <1>1 DEF Told
      <3> QED
        BY <2>1, <2>4, <3>1
    <2>9. /\ \A v \in outbox' : /\ tx'[v.run].pc = "done" /\ v.external \in Found(tx'[v.run])
                               /\ v.kind = EventKind(tx'[v.run].verdicts[v.external].kind)
          /\ \A r \in Runs : tx'[r].pc = "done" =>
                \A i \in Found(tx'[r]) :
                    EventKind(tx'[r].verdicts[i].kind) # None =>
                        [run |-> r, external |-> i, kind |-> EventKind(tx'[r].verdicts[i].kind)] \in outbox'
      BY <1>1, <2>1 DEF Told
    <2>10. \A r \in Runs : tx'[r].pc = "done" =>
              \A i \in Found(tx'[r]) :
                 /\ \E x \in discrepancies' : x.run = r /\ x.external = i
                 /\ EventKind(tx'[r].verdicts[i].kind) # None =>
                       [run |-> r, external |-> i, kind |-> EventKind(tx'[r].verdicts[i].kind)] \in outbox'
      BY <2>7, <2>9, Zenon
    <2> QED
      BY <2>5, <2>6, <2>8, <2>9, <2>10, Zenon DEF Told
  <1>8. ASSUME NEW r \in Runs, Commit(r)
        PROVE  Told(tx', discrepancies', outbox', edit')
    <2> DEFINE new(i) == DiscrepancyFromFinding(r, i)
               env(i) == DiscrepancyEnvelope(r, i)
               F == Findings(r)
    <2>1. /\ tx[r].pc = "marking" /\ tx'[r].pc = "done"
          /\ tx'[r].batch = tx[r].batch /\ tx'[r].verdicts = tx[r].verdicts
          /\ \A q \in Runs \ {r} : tx'[q] = tx[q]
      BY <1>8, CommitRun
    <2>2. F = Found(tx'[r])
      BY <2>1 DEF Findings, Matches, Found
    <2>3. /\ discrepancies' = discrepancies \cup {new(i) : i \in F}
          /\ outbox' = outbox \cup {env(i) : i \in {j \in F : EventKind(tx[r].verdicts[j].kind) # None}}
          /\ \A i \in F : /\ new(i).run = r /\ new(i).external = i /\ new(i).kind = tx'[r].verdicts[i].kind
                          /\ env(i).run = r /\ env(i).external = i
                          /\ env(i).kind = EventKind(tx'[r].verdicts[i].kind)
          /\ edit' = edit
      BY <1>8, <2>1, CommitWrites
    <2>4. \A i \in F : env(i) = [run |-> r, external |-> i, kind |-> EventKind(tx'[r].verdicts[i].kind)]
      BY <2>1 DEF DiscrepancyEnvelope
    <2> HIDE DEF new, env, F
    <2>5. /\ \A x \in discrepancies : x.run \in Runs \ {r}
          /\ \A v \in outbox : v.run \in Runs \ {r}
          /\ \A d \in Editors : edit[d].pc = "read" => edit[d].row.run \in Runs \ {r}
      BY <1>1, <1>2, <2>1 DEF Told
    <2>6. \A y \in discrepancies' : /\ tx'[y.run].pc = "done" /\ y.external \in Found(tx'[y.run])
                                    /\ y.kind = tx'[y.run].verdicts[y.external].kind
      <3>1. \A x \in discrepancies : /\ tx[x.run].pc = "done" /\ x.external \in Found(tx[x.run])
                                     /\ x.kind = tx[x.run].verdicts[x.external].kind
        BY <1>1 DEF Told
      <3>2. \A x \in discrepancies : tx'[x.run] = tx[x.run]
        BY <2>1, <2>5
      <3>3. ASSUME NEW i \in F
            PROVE  /\ tx'[new(i).run].pc = "done" /\ new(i).external \in Found(tx'[new(i).run])
                   /\ new(i).kind = tx'[new(i).run].verdicts[new(i).external].kind
        BY <2>1, <2>2, <2>3
      <3> QED
        BY <2>3, <3>1, <3>2, <3>3
    <2>7. ASSUME NEW x \in discrepancies', NEW y \in discrepancies', x.run = y.run, x.external = y.external
          PROVE  x = y
      <3>1. CASE x \in discrepancies /\ y \in discrepancies
        BY <1>1, <2>7, <3>1 DEF Told
      <3>2. ASSUME NEW i \in F, x = new(i)
            PROVE  x = y
        <4>1. y \notin discrepancies
          BY <2>3, <2>5, <2>7, <3>2
        <4> QED
          BY <2>3, <2>7, <3>2, <4>1
      <3>3. ASSUME NEW i \in F, y = new(i)
            PROVE  x = y
        <4>1. x \notin discrepancies
          BY <2>3, <2>5, <2>7, <3>3
        <4> QED
          BY <2>3, <2>7, <3>3, <4>1
      <3> QED
        BY <2>3, <3>1, <3>2, <3>3
    <2>8. \A v \in outbox' : /\ tx'[v.run].pc = "done" /\ v.external \in Found(tx'[v.run])
                             /\ v.kind = EventKind(tx'[v.run].verdicts[v.external].kind)
      <3>1. \A v \in outbox : /\ tx[v.run].pc = "done" /\ v.external \in Found(tx[v.run])
                              /\ v.kind = EventKind(tx[v.run].verdicts[v.external].kind)
        BY <1>1 DEF Told
      <3>2. \A v \in outbox : tx'[v.run] = tx[v.run]
        BY <2>1, <2>5
      <3>3. ASSUME NEW i \in F
            PROVE  /\ tx'[env(i).run].pc = "done" /\ env(i).external \in Found(tx'[env(i).run])
                   /\ env(i).kind = EventKind(tx'[env(i).run].verdicts[env(i).external].kind)
        BY <2>1, <2>2, <2>3
      <3> QED
        BY <2>3, <3>1, <3>2, <3>3
    <2>9. \A d \in Editors : edit'[d].pc = "read" =>
             /\ tx'[edit'[d].row.run].pc = "done" /\ edit'[d].row.external \in Found(tx'[edit'[d].row.run])
             /\ edit'[d].row.kind = tx'[edit'[d].row.run].verdicts[edit'[d].row.external].kind
      <3>1. \A d \in Editors : edit[d].pc = "read" =>
               /\ tx[edit[d].row.run].pc = "done" /\ edit[d].row.external \in Found(tx[edit[d].row.run])
               /\ edit[d].row.kind = tx[edit[d].row.run].verdicts[edit[d].row.external].kind
        BY <1>1 DEF Told
      <3>2. \A d \in Editors : edit[d].pc = "read" => tx'[edit[d].row.run] = tx[edit[d].row.run]
        BY <2>1, <2>5
      <3> QED
        BY <2>3, <3>1, <3>2
    <2>10. \A i \in F : /\ \E x \in discrepancies' : x.run = r /\ x.external = i
                        /\ EventKind(tx'[r].verdicts[i].kind) # None =>
                              [run |-> r, external |-> i, kind |-> EventKind(tx'[r].verdicts[i].kind)] \in outbox'
      BY <2>1, <2>3, <2>4
    <2>11. \A q \in Runs \ {r} : tx'[q].pc = "done" =>
              \A i \in Found(tx'[q]) :
                 /\ \E x \in discrepancies' : x.run = q /\ x.external = i
                 /\ EventKind(tx'[q].verdicts[i].kind) # None =>
                       [run |-> q, external |-> i, kind |-> EventKind(tx'[q].verdicts[i].kind)] \in outbox'
      <3>1. \A q \in Runs : tx[q].pc = "done" =>
              \A i \in Found(tx[q]) :
                 /\ \E x \in discrepancies : x.run = q /\ x.external = i
                 /\ EventKind(tx[q].verdicts[i].kind) # None =>
                       [run |-> q, external |-> i, kind |-> EventKind(tx[q].verdicts[i].kind)] \in outbox
        BY <1>1, Zenon DEF Told
      <3>2. discrepancies \subseteq discrepancies' /\ outbox \subseteq outbox'
        BY <2>3
      <3> QED
        BY <2>1, <3>1, <3>2
    <2>12. \A q \in Runs : tx'[q].pc = "done" =>
              \A i \in Found(tx'[q]) :
                 /\ \E x \in discrepancies' : x.run = q /\ x.external = i
                 /\ EventKind(tx'[q].verdicts[i].kind) # None =>
                       [run |-> q, external |-> i, kind |-> EventKind(tx'[q].verdicts[i].kind)] \in outbox'
      BY <2>2, <2>10, <2>11, Zenon
    <2> QED
      BY <2>6, <2>7, <2>8, <2>9, <2>12, Zenon DEF Told
  <1> QED
    BY <1>5, <1>6, <1>7, <1>8, FindingWriters

---------------------------------------------------------------------------
(* Nothing drops out, and the completed runs add up.                       *)

\* A discrepancy is never deleted, and keeps its run, its row and its kind.
LEMMA DiscrepanciesStay ==
    ASSUME TypeOK, FindingsAreReported, [Next]_vars, NEW x \in discrepancies
    PROVE  \E y \in discrepancies' : y.run = x.run /\ y.external = x.external /\ y.kind = x.kind
  <1>1. CASE UNCHANGED <<discrepancies, outbox, runs, edit>>
    BY <1>1
  <1>2. ASSUME NEW r \in Runs, Commit(r)
        PROVE  x \in discrepancies'
    BY <1>2, CommitWrites
  <1>3. ASSUME NEW d \in Editors, NEW t \in Triages, GetDiscrepancy(d, t)
        PROVE  x \in discrepancies'
    BY <1>3, ReadEffect
  <1>4. ASSUME NEW d \in Editors, UpdateDiscrepancy(d)
        PROVE  \E y \in discrepancies' : y.run = x.run /\ y.external = x.external /\ y.kind = x.kind
    <2>1. CASE x.run = edit[d].row.run /\ x.external = edit[d].row.external
      <3>1. x.kind = tx[x.run].verdicts[x.external].kind
        BY DEF FindingsAreReported, Reports
      <3>2. edit[d].row.kind = tx[edit[d].row.run].verdicts[edit[d].row.external].kind
        BY <1>4 DEF FindingsAreReported, Reports, UpdateDiscrepancy
      <3>3. Edited(d) \in discrepancies'
        BY <1>4, <2>1, EditWrites
      <3> QED
        BY <1>4, <2>1, <3>1, <3>2, <3>3, EditWrites
    <2>2. CASE ~(x.run = edit[d].row.run /\ x.external = edit[d].row.external)
      <3>1. x \in discrepancies'
        BY <1>4, <2>2, EditWrites
      <3> QED
        BY <3>1
    <2> QED
      BY <2>1, <2>2
  <1> QED
    BY <1>1, <1>2, <1>3, <1>4, FindingWriters

\* Every step keeps disputed and missing rows reported.
LEMMA DropsStep ==
    ASSUME TypeOK, FindingsAreReported, NothingDropsOut, [Next]_vars
    PROVE  NothingDropsOut'
  <1>1. ASSUME NEW i \in DOMAIN externals', externals'[i].status = "disputed"
        PROVE  \E x \in discrepancies' : x.external = i /\ x.kind \in {"amount_mismatch", "duplicate"}
    <2>1. i \in DOMAIN externals
      BY <1>1, RowsStep
    <2>2. CASE externals'[i] = externals[i]
      <3>1. PICK x \in discrepancies : x.external = i /\ x.kind \in {"amount_mismatch", "duplicate"}
        BY <1>1, <2>1, <2>2 DEF NothingDropsOut
      <3> QED
        BY <3>1, DiscrepanciesStay
    <2>3. ASSUME NEW r \in Runs, Commit(r), externals'[i] # externals[i]
          PROVE  \E x \in discrepancies' : x.external = i /\ x.kind \in {"amount_mismatch", "duplicate"}
      <3>1. i \in Disputes(r)
        BY <1>1, <2>1, <2>3, CommitRows
      <3>2. i \in Findings(r) /\ tx[r].verdicts[i].kind \in {"amount_mismatch", "duplicate"}
        BY <3>1 DEF Disputes
      <3>3. /\ DiscrepancyFromFinding(r, i) \in discrepancies'
            /\ DiscrepancyFromFinding(r, i).external = i
            /\ DiscrepancyFromFinding(r, i).kind = tx[r].verdicts[i].kind
        BY <2>3, <3>2, CommitWrites
      <3> QED
        BY <3>2, <3>3
    <2> QED
      BY <2>1, <2>2, <2>3, RowWriters, ImportRows
  <1>2. ASSUME NEW r \in Runs, tx'[r].pc = "done", NEW i \in tx'[r].batch, externals'[i].status = "unmatched"
        PROVE  \E x \in discrepancies' : x.run = r /\ x.external = i /\ x.kind = "missing_internal"
    <2>1. CASE tx'[r] = tx[r]
      <3>1. i \in DOMAIN externals
        BY <1>2, <2>1, Shapes DEF TxShape
      <3>2. externals[i].status = "unmatched"
        <4>1. externals[i].status \in {"unmatched"} \cup Settled
          BY <3>1, Shapes DEF ExternalRow
        <4>2. externals[i].status \notin Settled
          BY <1>2, <3>1, RowsStep DEF Settled
        <4> QED
          BY <4>1, <4>2
      <3>3. PICK x \in discrepancies : x.run = r /\ x.external = i /\ x.kind = "missing_internal"
        BY <1>2, <2>1, <3>2 DEF NothingDropsOut
      <3> QED
        BY <3>3, DiscrepanciesStay
    <2>2. CASE Commit(r)
      <3>1. i \in tx[r].batch /\ i \notin Matches(r) /\ i \notin Disputes(r)
        BY <1>2, <2>2, CommitRun, CommitRows
      <3>2. i \in Findings(r)
        BY <3>1 DEF Findings
      <3>3. /\ DiscrepancyFromFinding(r, i) \in discrepancies'
            /\ DiscrepancyFromFinding(r, i).run = r /\ DiscrepancyFromFinding(r, i).external = i
            /\ DiscrepancyFromFinding(r, i).kind = tx[r].verdicts[i].kind
            /\ tx[r].verdicts[i].kind \in Kinds
        BY <2>2, <3>2, CommitWrites
      <3>4. tx[r].verdicts[i].kind = "missing_internal"
        BY <3>1, <3>2, <3>3 DEF Disputes, Kinds
      <3> QED
        BY <3>3, <3>4
    <2> QED
      BY <1>2, <2>1, <2>2, DoneIsFinal
  <1> QED
    BY <1>1, <1>2 DEF NothingDropsOut

\* A run has as many discrepancies as findings.
LEMMA CountDiscrepancies ==
    ASSUME TypeOK, FindingsAreReported, NEW r \in Runs, tx[r].pc = "done"
    PROVE  Cardinality({x \in discrepancies : x.run = r}) = Cardinality(Findings(r))
  <1> DEFINE mine == {x \in discrepancies : x.run = r}
             F == Findings(r)
             g == [i \in F |-> CHOOSE x \in mine : x.external = i]
  <1>1. \A x \in mine : x.external \in F
    BY DEF FindingsAreReported, Reports
  <1>2. \A x, y \in mine : x.external = y.external => x = y
    BY DEF FindingsAreReported
  <1>3. \A i \in F : \E x \in mine : x.external = i
    BY DEF FindingsAreReported
  <1>4. IsFiniteSet(F)
    BY BatchCounts
  <1> HIDE DEF mine, F
  <1>5. \A i \in F : g[i] \in mine /\ g[i].external = i
    BY <1>3
  <1>6. g \in Bijection(F, mine)
    <2>1. DOMAIN g = F
      OBVIOUS
    <2> HIDE DEF g
    <2>2. \A x \in mine : x.external \in F /\ g[x.external] = x
      BY <1>1, <1>2, <1>5
    <2>3. g \in [F -> mine]
      BY <1>5, <2>1 DEF g
    <2> QED
      BY <1>5, <2>2, <2>3 DEF Bijection, Injection, Surjection, IsInjective
  <1>7. Cardinality(mine) = Cardinality(F)
    <2>1. ExistsBijection(F, mine)
      BY <1>6 DEF ExistsBijection
    <2> QED
      BY <1>4, <2>1, FS_Bijection
  <1> QED
    BY <1>7 DEF mine, F

\* Runs whose findings are reported and counted add up.
LEMMA ReportedRunsAddUp ==
    ASSUME TypeOK, FindingsAreReported, CountsAreRight
    PROVE  RunsAddUp
  <1>1. ASSUME NEW r \in Runs, runs[r] # None
        PROVE  /\ runs[r].matched + runs[r].unmatched = Cardinality(tx[r].batch)
               /\ Cardinality({x \in discrepancies : x.run = r}) = runs[r].unmatched
    <2>1. tx[r].pc = "done"
      BY <1>1 DEF TypeOK
    <2> QED
      BY <1>1, <2>1, BatchCounts, CountDiscrepancies DEF CountsAreRight
  <1>2. ASSUME NEW x \in discrepancies, x.kind # "duplicate"
        PROVE  \E v \in outbox : v.run = x.run /\ v.external = x.external
    <2>1. /\ x.run \in Runs /\ x.kind \in Kinds
          /\ tx[x.run].pc = "done" /\ x.external \in Findings(x.run)
          /\ x.kind = tx[x.run].verdicts[x.external].kind
      BY DEF TypeOK, DiscrepancyRow, FindingsAreReported, Reports
    <2>2. EventKind(x.kind) # None
      <3>1. "missing_in_ledger" # None /\ "amount_mismatch" # None
        BY InputsAreTyped DEF WireKinds
      <3>2. x.kind \in {"missing_internal", "amount_mismatch"}
        BY <1>2, <2>1 DEF Kinds
      <3>3. EventKind(x.kind) \in {"missing_in_ledger", "amount_mismatch"}
        BY <3>2 DEF EventKind
      <3> QED
        BY <3>1, <3>3
    <2>3. DiscrepancyEnvelope(x.run, x.external) \in outbox
      BY <2>1, <2>2 DEF FindingsAreReported
    <2>4. /\ DiscrepancyEnvelope(x.run, x.external).run = x.run
          /\ DiscrepancyEnvelope(x.run, x.external).external = x.external
      BY DEF DiscrepancyEnvelope
    <2> QED
      BY <2>3, <2>4
  <1>3. ASSUME NEW v \in outbox
        PROVE  \E x \in discrepancies :
                  x.run = v.run /\ v.external = x.external /\ v.kind = EventKind(x.kind)
    <2>1. /\ v.run \in Runs
          /\ tx[v.run].pc = "done" /\ v.external \in Findings(v.run)
          /\ v.kind = EventKind(tx[v.run].verdicts[v.external].kind)
      BY DEF TypeOK, FindingsAreReported
    <2>2. PICK x \in discrepancies : x.run = v.run /\ x.external = v.external
      BY <2>1 DEF FindingsAreReported
    <2>3. x.kind = tx[v.run].verdicts[v.external].kind
      BY <2>2 DEF FindingsAreReported, Reports
    <2> QED
      BY <2>1, <2>2, <2>3
  <1>4. ASSUME NEW r \in Runs, runs[r] # None
        PROVE  LET mine == {x \in discrepancies : x.run = r}
               IN  /\ runs[r].matched + runs[r].unmatched = Cardinality(tx[r].batch)
                   /\ Cardinality(mine) = runs[r].unmatched
                   /\ \A x \in mine : x.kind = "duplicate" \/ \E v \in outbox : v.run = r /\ v.external = x.external
                   /\ \A v \in outbox : v.run = r =>
                         \E x \in mine : v.external = x.external /\ v.kind = EventKind(x.kind)
    <2> DEFINE mine == {x \in discrepancies : x.run = r}
    <2>1. \A x \in mine : x.kind = "duplicate" \/ \E v \in outbox : v.run = r /\ v.external = x.external
      BY <1>2
    <2>2. \A v \in outbox : v.run = r => \E x \in mine : v.external = x.external /\ v.kind = EventKind(x.kind)
      BY <1>3
    <2>3. runs[r].matched + runs[r].unmatched = Cardinality(tx[r].batch) /\ Cardinality(mine) = runs[r].unmatched
      BY <1>1, <1>4
    <2> HIDE DEF mine
    <2>4. /\ runs[r].matched + runs[r].unmatched = Cardinality(tx[r].batch)
          /\ Cardinality(mine) = runs[r].unmatched
          /\ \A x \in mine : x.kind = "duplicate" \/ \E v \in outbox : v.run = r /\ v.external = x.external
          /\ \A v \in outbox : v.run = r =>
                \E x \in mine : v.external = x.external /\ v.kind = EventKind(x.kind)
      BY <2>1, <2>2, <2>3
    <2> QED
      BY <2>4, Zenon DEF mine
  <1> QED
    BY <1>4, Zenon DEF RunsAddUp

---------------------------------------------------------------------------
(* The theorems.                                                           *)

\* Nothing of a malformed event is mirrored.
NothingMalformed == \A m \in mirror : m.id[1] \notin Malformed

\* The inductive part: MirrorIsExact and RunsAddUp follow from it.
Core ==
    /\ TypeOK /\ NothingMalformed /\ MirrorIsWhole
    /\ VerdictsAreBacked /\ MatchesAreReal
    /\ FindingsAreReported /\ CountsAreRight /\ NothingDropsOut
    /\ ReadersAreRivals

\* The service starts empty.
LEMMA CoreInit == Init => Core
  <1> SUFFICES ASSUME Init PROVE Core
    OBVIOUS
  <1>1. \A r \in Runs : tx[r] = NoTx /\ runs[r] = None
    BY DEF Init
  <1>2. /\ NoTx.pc = "idle" /\ NoTx.batch = {} /\ NoTx.marked = {}
        /\ NoTx.source = None /\ NoTx.verdicts = <<>>
    BY DEF NoTx
  <1>3. DOMAIN externals = {} /\ externals = <<>> /\ rivals = <<>> /\ Len(externals) = 0
    BY DEF Init
  <1>4. TypeOK
    <2>1. stream \in [Events -> {"ready", "done"}] /\ mirror \subseteq Entries /\ sources \subseteq Sources
      BY DEF Init
    <2>2. /\ imports \in Seq([source : Sources, status : {"processed", "failed"}, rows : Nat])
          /\ externals \in Seq(ExternalRow) /\ rivals \in Seq(SUBSET Runs) /\ Len(rivals) = Len(externals)
      <3> DEFINE Row == [source : Sources, status : {"processed", "failed"}, rows : Nat]
      <3> HIDE DEF Row
      <3>1. imports \in Seq(Row)
        BY EmptySeq DEF Init
      <3> QED
        BY <1>3, <3>1, EmptySeq DEF Row
    <2>3. ASSUME NEW r \in Runs
          PROVE  /\ tx[r] \in [pc : {"idle", "listed", "marking", "done", "failed"},
                               source : Sources \cup {None}, batch : SUBSET DOMAIN externals,
                               verdicts : {<<>>} \cup [tx[r].batch -> VerdictRow],
                               marked : SUBSET tx[r].batch]
                 /\ tx[r].pc = "idle"
      <3> DEFINE V == {<<>>} \cup [tx[r].batch -> VerdictRow]
      <3>1. \A v \in V : [pc |-> "idle", source |-> None, batch |-> {}, verdicts |-> v, marked |-> {}]
                          \in [pc : {"idle", "listed", "marking", "done", "failed"},
                               source : Sources \cup {None}, batch : SUBSET DOMAIN externals,
                               verdicts : V, marked : SUBSET tx[r].batch]
        <4> HIDE DEF V
        <4> QED
          OBVIOUS
      <3>2. <<>> \in V
        OBVIOUS
      <3> HIDE DEF V
      <3>3. NoTx \in [pc : {"idle", "listed", "marking", "done", "failed"},
                      source : Sources \cup {None}, batch : SUBSET DOMAIN externals,
                      verdicts : V, marked : SUBSET tx[r].batch]
        BY <3>1, <3>2, Zenon DEF NoTx
      <3> QED
        BY <1>1, <1>2, <3>3 DEF V
    <2>4. DOMAIN tx = Runs /\ runs \in [Runs -> RunRow \cup {None}]
      BY DEF Init
    <2>5. discrepancies = {} /\ outbox = {}
      BY DEF Init
    <2>6. edit \in [Editors -> [pc : {"idle", "read", "done"}, row : DiscrepancyRow \cup {None},
                                status : Statuses \cup {None}, note : Notes \cup {None}]]
      BY DEF Init, NoEdit
    <2>7. \A d \in Editors : edit[d].pc = "idle"
      BY DEF Init, NoEdit
    <2>8. \A r \in Runs : runs[r] = None <=> tx[r].pc # "done"
      BY <1>1, <1>2
    <2>9. \A r \in Runs :
             /\ tx[r].pc = "idle" => tx[r] = NoTx
             /\ tx[r].pc \in {"listed", "marking", "done"} => tx[r].source \in Sources
             /\ tx[r].pc \in {"marking", "done"} => tx[r].verdicts \in [tx[r].batch -> VerdictRow]
      BY <1>1, <1>2
    <2> QED
      BY <2>1, <2>2, <2>3, <2>4, <2>5, <2>6, <2>7, <2>8, <2>9 DEF TypeOK
  <1>5. NothingMalformed /\ MirrorIsWhole
    BY DEF Init, NothingMalformed, MirrorIsWhole
  <1>6. VerdictsAreBacked /\ MatchesAreReal /\ CountsAreRight /\ ReadersAreRivals /\ NothingDropsOut
    BY <1>1, <1>2, <1>3 DEF VerdictsAreBacked, MatchesAreReal, CountsAreRight, ReadersAreRivals, NothingDropsOut
  <1>7. FindingsAreReported
    <2>1. discrepancies = {} /\ outbox = {} /\ \A d \in Editors : edit[d].pc = "idle"
      BY DEF Init, NoEdit
    <2> QED
      BY <1>1, <1>2, <2>1 DEF FindingsAreReported
  <1> QED
    BY <1>4, <1>5, <1>6, <1>7 DEF Core

\* Every step of the service keeps the core.
LEMMA CoreStep == Core /\ [Next]_vars => Core'
  <1> SUFFICES ASSUME Core, [Next]_vars PROVE Core'
    OBVIOUS
  <1>1. /\ TypeOK /\ NothingMalformed /\ MirrorIsWhole /\ VerdictsAreBacked /\ MatchesAreReal
        /\ FindingsAreReported /\ CountsAreRight /\ NothingDropsOut /\ ReadersAreRivals
    BY DEF Core
  <1>2. MirrorIsExact
    BY <1>1, WholeIsExact DEF NothingMalformed
  <1>3. MirrorIsWhole' /\ NothingMalformed'
    BY <1>1, MirrorStep DEF NothingMalformed
  <1>4. TypeOK'
    BY <1>1, <1>2, TypeStep
  <1>5. VerdictsAreBacked' /\ MatchesAreReal'
    BY <1>1, <1>2, VerdictsStep, MatchesStep
  <1>6. FindingsAreReported' /\ CountsAreRight' /\ NothingDropsOut'
    BY <1>1, FindingsStep, RunsStep, DropsStep
  <1>7. ReadersAreRivals'
    BY <1>1, RivalsStep
  <1> QED
    BY <1>3, <1>4, <1>5, <1>6, <1>7 DEF Core

\* The core holds in every state.
LEMMA CoreAlways == Spec => []Core
  BY CoreInit, CoreStep, PTL DEF Spec

(***************************************************************************)
(* The books of the service agree in every state, however events are       *)
(* delivered, runs overlap, fail or deadlock and editors interleave: the   *)
(* mirror is exactly what was acknowledged and every completed run adds up *)
(* (handle, InsertMirrorEntries, StartRun).                                *)
(***************************************************************************)
THEOREM BooksAlwaysAgree == Spec => []ReconInvariant
  <1>1. Core => ReconInvariant
    <2> SUFFICES ASSUME Core PROVE ReconInvariant
      OBVIOUS
    <2>1. MirrorIsExact
      BY WholeIsExact DEF Core, NothingMalformed
    <2>2. RunsAddUp
      BY ReportedRunsAddUp DEF Core
    <2> QED
      BY <2>1, <2>2 DEF Core, ReconInvariant
  <1> QED
    BY <1>1, CoreAlways, PTL

(***************************************************************************)
(* A matched row is always backed by a mirrored posting that agrees with   *)
(* it, whatever runs have overlapped (MatchNaive, MarkExternalMatched).    *)
(***************************************************************************)
THEOREM MatchesAlwaysReal == Spec => []MatchesAreReal
  <1>1. Core => MatchesAreReal
    BY DEF Core
  <1> QED
    BY <1>1, CoreAlways, PTL

(***************************************************************************)
(* No row leaves reconciliation unseen: a disputed row has a discrepancy,  *)
(* and a row that a completed run left unmatched was reported missing by   *)
(* it (StartRun, MarkExternalDisputed).                                    *)
(***************************************************************************)
THEOREM NothingEverDropsOut == Spec => []NothingDropsOut
  <1>1. Core => NothingDropsOut
    BY DEF Core
  <1> QED
    BY <1>1, CoreAlways, PTL

(***************************************************************************)
(* A settled row changes only by the commit of a run that had read it      *)
(* before it was settled (ListUnmatchedExternals, MarkExternalMatched).    *)
(***************************************************************************)
THEOREM SettledForGood == Spec => SettledUnlessRivals
  <1> DEFINE A == \A i \in DOMAIN externals :
                     externals[i].status \in Settled /\ externals'[i] # externals[i] =>
                         \E r \in rivals[i] : tx[r].pc = "marking" /\ tx'[r].pc = "done"
  <1>1. Core /\ [Next]_vars => A
    <2> SUFFICES ASSUME Core, [Next]_vars,
                        NEW i \in DOMAIN externals, externals[i].status \in Settled, externals'[i] # externals[i]
                 PROVE  \E r \in rivals[i] : tx[r].pc = "marking" /\ tx'[r].pc = "done"
      OBVIOUS
    <2>1. TypeOK /\ ReadersAreRivals
      BY DEF Core
    <2>2. PICK r \in Runs : Commit(r)
      BY <2>1, RowWriters, ImportRows
    <2>3. i \in Matches(r) \cup Disputes(r)
      BY <2>1, <2>2, CommitRows
    <2>4. tx[r].pc = "marking" /\ tx'[r].pc = "done"
      BY <2>1, <2>2, CommitRun
    <2>5. r \in Reading(i)
      BY <2>3, <2>4 DEF Reading, Matches, Disputes, Findings
    <2>6. r \in rivals[i]
      BY <2>1, <2>5 DEF ReadersAreRivals
    <2> QED
      BY <2>4, <2>6
  <1> HIDE DEF A
  <1>2. Core /\ [Next]_vars => [A]_vars
    BY <1>1
  <1>3. Spec => [][A]_vars
    BY <1>2, CoreAlways, PTL DEF Spec
  <1> QED
    BY <1>3, PTL DEF SettledUnlessRivals, A

(***************************************************************************)
(* An update never loses a note that its writer has seen: the note of a    *)
(* discrepancy changes only by an editor that was given a note, or that    *)
(* read the row when it had another (UpdateDiscrepancy).                   *)
(***************************************************************************)
THEOREM NotesAlwaysKept == Spec => NotesAreKept
  <1> DEFINE Same(x) == CHOOSE y \in discrepancies' : y.run = x.run /\ y.external = x.external
             A == \A x \in discrepancies :
                     LET y == CHOOSE y \in discrepancies' : y.run = x.run /\ y.external = x.external
                     IN  x.note # y.note /\ x.note # None =>
                           \E d \in Editors : edit[d].pc = "read" /\ (edit[d].note # None \/ edit[d].row.note # x.note)
  <1>1. Core /\ [Next]_vars => A
    <2> SUFFICES ASSUME Core, [Next]_vars, NEW x \in discrepancies, x.note # Same(x).note
                 PROVE  \E d \in Editors : edit[d].pc = "read" /\ (edit[d].note # None \/ edit[d].row.note # x.note)
      OBVIOUS
    <2>1. TypeOK /\ FindingsAreReported /\ FindingsAreReported'
      BY CoreStep DEF Core
    <2>2. \A y, z \in discrepancies' : y.run = z.run /\ y.external = z.external => y = z
      BY <2>1 DEF FindingsAreReported
    <2>3. Same(x) \in discrepancies' /\ Same(x).run = x.run /\ Same(x).external = x.external
      BY <2>1, DiscrepanciesStay
    <2> HIDE DEF Same
    <2>4. x \notin discrepancies'
      BY <2>2, <2>3
    <2>5. PICK d \in Editors : UpdateDiscrepancy(d)
      BY <2>1, <2>4, FindingWriters, CommitWrites, ReadEffect
    <2>6. x.run = edit[d].row.run /\ x.external = edit[d].row.external
      BY <2>1, <2>4, <2>5, EditWrites
    <2>7. Edited(d) \in discrepancies'
      BY <2>1, <2>5, <2>6, EditWrites
    <2>8. Same(x) = Edited(d)
      BY <2>1, <2>2, <2>3, <2>5, <2>6, <2>7, EditWrites
    <2>9. x.note # (IF edit[d].note # None THEN edit[d].note ELSE edit[d].row.note) /\ edit[d].pc = "read"
      BY <2>1, <2>5, <2>8, EditWrites
    <2> QED
      BY <2>9
  <1> HIDE DEF A
  <1>2. Core /\ [Next]_vars => [A]_vars
    BY <1>1
  <1>3. Spec => [][A]_vars
    BY <1>2, CoreAlways, PTL DEF Spec
  <1> QED
    BY <1>3, PTL DEF NotesAreKept, A

---------------------------------------------------------------------------
(* The matcher's loop (Matcher).                                           *)

\* ORDER BY occurred_at, id is total and strict.
LEMMA RowsAreOrdered ==
    ASSUME TypeOK
    PROVE  /\ \A i, j \in DOMAIN externals : i = j \/ Before(i, j) \/ Before(j, i)
           /\ \A i, j \in DOMAIN externals : ~(Before(i, j) /\ Before(j, i))
  <1>1. \A i \in DOMAIN externals : i \in Nat /\ externals[i].occurred \in Nat
    BY Shapes DEF ExternalRow
  <1> QED
    BY <1>1 DEF Before

\* The rows of a batch are finitely many.
LEMMA RowsAreFinite ==
    ASSUME TypeOK, NEW rows \in SUBSET DOMAIN externals
    PROVE  IsFiniteSet(rows)
  <1>1. Len(externals) \in Nat /\ DOMAIN externals = 1..Len(externals)
    BY Shapes
  <1>2. IsFiniteSet(1..Len(externals))
    <2>1. 1 \in Int /\ Len(externals) \in Int
      BY <1>1
    <2> QED
      BY <2>1, FS_Interval
  <1> QED
    BY <1>1, <1>2, FS_Subset

\* A non-empty set of rows has a last one.
LEMMA LastRowIsLast ==
    ASSUME TypeOK, NEW rows \in SUBSET DOMAIN externals, rows # {}
    PROVE  /\ LastRow(rows) \in rows
           /\ \A j \in rows \ {LastRow(rows)} : Before(j, LastRow(rows))
  <1>1. IsFiniteSet(rows)
    BY RowsAreFinite
  <1> DEFINE B == {{j \in rows : j = i \/ Before(i, j)} : i \in rows}
  <1>2. B \subseteq SUBSET rows /\ B # {}
    OBVIOUS
  <1>3. PICK s \in B : \A t \in B : ~(<<t, s>> \in StrictSubsetOrdering(rows))
    <2> HIDE DEF B
    <2>1. B \subseteq FiniteSubsetsOf(rows)
      BY <1>1, <1>2, FS_FiniteSubsetsOfFinite
    <2> QED
      BY <1>1, <1>2, <2>1, WFMin, FS_StrictSubsetOrderingWellFounded
  <1>4. PICK i \in rows : s = {j \in rows : j = i \/ Before(i, j)}
    BY <1>3
  <1>5. ASSUME NEW j \in rows \ {i}
        PROVE  Before(j, i)
    <2> SUFFICES ASSUME Before(i, j) PROVE FALSE
      BY RowsAreOrdered
    <2> DEFINE t == {k \in rows : k = j \/ Before(j, k)}
    <2>1. t \in B
      OBVIOUS
    <2>2. \A k \in rows : Before(j, k) => Before(i, k)
      <3>1. \A k \in rows : k \in Nat /\ externals[k].occurred \in Nat
        BY Shapes DEF ExternalRow
      <3> QED
        BY <3>1 DEF Before
    <2>3. t \subseteq s
      BY <1>4, <2>2
    <2>4. i \in s /\ i \notin t
      BY <1>4, RowsAreOrdered
    <2>5. <<t, s>> \in StrictSubsetOrdering(rows)
      <3> HIDE DEF t, B
      <3>1. t \in SUBSET rows /\ s \in SUBSET rows
        BY <1>2, <1>3, <2>1
      <3> QED
        BY <2>3, <2>4, <3>1 DEF StrictSubsetOrdering
    <2> HIDE DEF t, B
    <2> QED
      BY <1>3, <2>1, <2>5
  <1> QED
    BY <1>5 DEF LastRow

\* The rows that a pass over these rows matches, and the entry it uses for one
Matchable(rows, entries) ==
    {i \in rows : ~Repeated(i, rows) /\ Agreeing(externals[i], entries) # {}}

Uses(i, entries) == FirstOf(Agreeing(externals[i], entries))

\* What the loop's variables are after these rows, without a loop
Closed(rows, entries) ==
    [consumed |-> {Uses(i, entries).id : i \in Matchable(rows, entries)},
     seen     |-> {externals[i].ref : i \in rows},
     verdicts |-> MatchNaive(rows, entries)]

\* A row that agrees with an entry uses one with its reference.
LEMMA UsesItsReference ==
    ASSUME NEW entries, entries \subseteq Entries, NEW i, Agreeing(externals[i], entries) # {}
    PROVE  Uses(i, entries) \in entries /\ Uses(i, entries).reference = externals[i].ref
  <1> DEFINE A == Agreeing(externals[i], entries)
  <1>1. A # {} /\ A \subseteq Entries /\ \A m \in A : m \in entries /\ m.reference = externals[i].ref
    BY DEF Agreeing, Candidates
  <1>2. FirstOf(A) \in A
    <2> HIDE DEF A
    <2> QED
      BY <1>1, FirstOfIsMember
  <1> HIDE DEF A
  <1>3. FirstOf(A) \in entries /\ FirstOf(A).reference = externals[i].ref
    BY <1>1, <1>2
  <1> QED
    BY <1>3 DEF Uses, A

\* The last row changes nothing for the rows before it, and repeats one of them
\* exactly when its reference was seen.
LEMMA LastRowRepeats ==
    ASSUME TypeOK, NEW rows \in SUBSET DOMAIN externals, rows # {},
           NEW i, i = LastRow(rows), NEW rest, rest = rows \ {i}
    PROVE  /\ \A j \in rest : Repeated(j, rest) <=> Repeated(j, rows)
           /\ Repeated(i, rows) <=> externals[i].ref \in {externals[j].ref : j \in rest}
  <1>1. i \in rows /\ \A j \in rest : Before(j, i)
    BY LastRowIsLast
  <1>2. \A j \in rest : ~Before(i, j)
    BY <1>1, RowsAreOrdered
  <1>3. ~Before(i, i)
    BY <1>1, RowsAreOrdered
  <1> QED
    BY <1>1, <1>2, <1>3 DEF Repeated

\* One turn of the loop: from the rows before the last one to all of them.
LEMMA TurnOfLoop ==
    ASSUME TypeOK, NEW entries, entries \subseteq Entries,
           NEW rows \in SUBSET DOMAIN externals, rows # {}
    PROVE  MatchRow(Closed(rows \ {LastRow(rows)}, entries), LastRow(rows), entries)
              = Closed(rows, entries)
  <1> DEFINE i == LastRow(rows)
             rest == rows \ {i}
             x == externals[i]
             acc == Closed(rest, entries)
             A == Agreeing(x, entries)
             C == Candidates(x, entries)
             seen == {externals[j].ref : j \in rows}
             used == {Uses(j, entries).id : j \in Matchable(rest, entries)}
  <1>1. i \in rows /\ rest \subseteq rows /\ rows = rest \cup {i}
    BY LastRowIsLast
  <1>2. /\ \A j \in rest : Repeated(j, rest) <=> Repeated(j, rows)
        /\ Repeated(i, rows) <=> x.ref \in acc.seen
    BY LastRowRepeats DEF Closed
  <1>3. \A j \in rest : Verdict(j, rest, entries) = Verdict(j, rows, entries)
    <2> SUFFICES ASSUME NEW j \in rest
                 PROVE  Verdict(j, rest, entries) = Verdict(j, rows, entries)
      OBVIOUS
    <2>1. CASE Repeated(j, rows)
      BY <1>2, <2>1 DEF Verdict
    <2>2. CASE ~Repeated(j, rows)
      <3>1. ~Repeated(j, rest)
        BY <1>2, <2>2
      <3> QED
        BY <2>2, <3>1 DEF Verdict
    <2> QED
      BY <2>1, <2>2
  <1>4. /\ acc.seen \cup {x.ref} = seen
        /\ acc.consumed = used /\ acc.verdicts = MatchNaive(rest, entries)
        /\ DOMAIN MatchNaive(rest, entries) = rest
        /\ acc = [consumed |-> acc.consumed, seen |-> acc.seen, verdicts |-> acc.verdicts]
    BY <1>1 DEF Closed, MatchNaive
  <1>5. ASSUME NEW kind, NEW id, Verdict(i, rows, entries) = [kind |-> kind, entry |-> id]
        PROVE  [j \in rest \cup {i} |-> IF j = i THEN [kind |-> kind, entry |-> id]
                                                 ELSE MatchNaive(rest, entries)[j]]
                  = MatchNaive(rows, entries)
    <2> SUFFICES ASSUME NEW j \in rows
                 PROVE  (IF j = i THEN [kind |-> kind, entry |-> id] ELSE MatchNaive(rest, entries)[j])
                           = Verdict(j, rows, entries)
      BY <1>1 DEF MatchNaive
    <2>1. j # i => j \in rest
      BY <1>1
    <2> HIDE DEF i, rest
    <2> QED
      BY <1>3, <1>5, <2>1 DEF MatchNaive
  <1>6. \A j \in rest : j \in Matchable(rest, entries) <=> j \in Matchable(rows, entries)
    BY <1>1, <1>2 DEF Matchable
  <1>7. CASE Repeated(i, rows)
    <2>1. MatchRow(acc, i, entries) = Decide(acc, i, "duplicate", None)
      BY <1>2, <1>7 DEF MatchRow
    <2>2. Verdict(i, rows, entries) = [kind |-> "duplicate", entry |-> None]
      BY <1>7 DEF Verdict
    <2>3. Matchable(rows, entries) = Matchable(rest, entries)
      BY <1>1, <1>6, <1>7 DEF Matchable
    <2>4. acc.seen = seen
      BY <1>2, <1>4, <1>7
    <2>5. Decide(acc, i, "duplicate", None)
            = [consumed |-> used, seen |-> seen, verdicts |-> MatchNaive(rows, entries)]
      <3>1. acc = [consumed |-> used, seen |-> seen, verdicts |-> MatchNaive(rest, entries)]
        BY <1>4, <2>4
      <3> HIDE DEF acc, used, seen, i, rest
      <3> QED
        BY <1>4, <1>5, <2>2, <3>1 DEF Decide
    <2> QED
      BY <2>1, <2>3, <2>5 DEF Closed
  <1>8. CASE ~Repeated(i, rows)
    <2>1. x.ref \notin acc.seen
      BY <1>2, <1>8
    <2>2. \A m \in C : m.id \notin acc.consumed
      <3> SUFFICES ASSUME NEW m \in C, NEW j \in Matchable(rest, entries), m.id = Uses(j, entries).id
                   PROVE  FALSE
        BY <1>4
      <3>1. j \in rest /\ Agreeing(externals[j], entries) # {}
        BY DEF Matchable
      <3>2. Uses(j, entries) \in entries /\ Uses(j, entries).reference = externals[j].ref
        BY <3>1, UsesItsReference
      <3>3. m \in entries /\ m.reference = x.ref
        BY DEF Candidates
      <3>4. m = Uses(j, entries)
        BY <3>2, <3>3, EntryFacts
      <3>5. externals[j].ref \in acc.seen
        BY <3>1 DEF Closed
      <3> QED
        BY <2>1, <3>2, <3>3, <3>4, <3>5
    <2>3. Candidates(x, Unused(entries, acc)) = C /\ Agreeing(x, Unused(entries, acc)) = A
      <3> HIDE DEF x, acc
      <3> QED
        BY <2>2 DEF Candidates, Agreeing, Unused
    <2> DEFINE next == [acc EXCEPT !.seen = @ \cup {x.ref}]
    <2>4. next = [consumed |-> used, seen |-> seen, verdicts |-> MatchNaive(rest, entries)]
      <3> HIDE DEF acc, used, seen, x
      <3> QED
        BY <1>4
    <2>5. ASSUME NEW kind, NEW id, Verdict(i, rows, entries) = [kind |-> kind, entry |-> id]
          PROVE  Decide(next, i, kind, id)
                    = [consumed |-> used, seen |-> seen, verdicts |-> MatchNaive(rows, entries)]
      <3> HIDE DEF next, acc, used, seen, i, rest
      <3> QED
        BY <1>4, <1>5, <2>4, <2>5 DEF Decide
    <2>6. CASE A # {}
      <3>1. Verdict(i, rows, entries) = [kind |-> "match", entry |-> FirstOf(A).id]
        BY <1>8, <2>6 DEF Verdict
      <3>2. MatchRow(acc, i, entries)
              = [Decide(next, i, "match", FirstOf(A).id) EXCEPT !.consumed = @ \cup {FirstOf(A).id}]
        BY <2>1, <2>3, <2>6 DEF MatchRow
      <3>3. Matchable(rows, entries) = Matchable(rest, entries) \cup {i}
        BY <1>1, <1>6, <1>8, <2>6 DEF Matchable
      <3>4. {Uses(j, entries).id : j \in Matchable(rows, entries)} = used \cup {FirstOf(A).id}
        BY <3>3 DEF Uses
      <3>5. Decide(next, i, "match", FirstOf(A).id)
              = [consumed |-> used, seen |-> seen, verdicts |-> MatchNaive(rows, entries)]
        BY <2>5, <3>1
      <3>6. MatchRow(acc, i, entries) = [consumed |-> used \cup {FirstOf(A).id}, seen |-> seen,
                                         verdicts |-> MatchNaive(rows, entries)]
        <4> HIDE DEF next, acc, used, seen, i, rest, A
        <4> QED
          BY <3>2, <3>5
      <3> QED
        BY <3>4, <3>6 DEF Closed
    <2>7. CASE A = {}
      <3>1. Matchable(rows, entries) = Matchable(rest, entries)
        BY <1>1, <1>6, <2>7 DEF Matchable
      <3>2. CASE C # {}
        <4>1. Verdict(i, rows, entries) = [kind |-> "amount_mismatch", entry |-> FirstOf(C).id]
          BY <1>8, <2>7, <3>2 DEF Verdict
        <4>2. MatchRow(acc, i, entries) = Decide(next, i, "amount_mismatch", FirstOf(C).id)
          BY <2>1, <2>3, <2>7, <3>2 DEF MatchRow
        <4> QED
          BY <2>5, <3>1, <4>1, <4>2 DEF Closed
      <3>3. CASE C = {}
        <4>1. Verdict(i, rows, entries) = [kind |-> "missing_internal", entry |-> None]
          BY <1>8, <2>7, <3>3 DEF Verdict
        <4>2. MatchRow(acc, i, entries) = Decide(next, i, "missing_internal", None)
          BY <2>1, <2>3, <2>7, <3>3 DEF MatchRow
        <4> QED
          BY <2>5, <3>1, <4>1, <4>2 DEF Closed
      <3> QED
        BY <3>2, <3>3
    <2> QED
      BY <2>6, <2>7
  <1> QED
    BY <1>7, <1>8

\* g is the loop's recursive function on the rows of a batch.
Loops(g, batch, entries) ==
    g = [rows \in SUBSET batch |->
            IF rows = {} THEN Start
            ELSE MatchRow(g[rows \ {LastRow(rows)}], LastRow(rows), entries)]

\* After no row the loop's variables are as it starts.
LEMMA ClosedStart ==
    ASSUME NEW entries
    PROVE  Closed({}, entries) = Start
  <1>1. Matchable({}, entries) = {} /\ MatchNaive({}, entries) = [i \in {} |-> None]
    BY DEF Matchable, MatchNaive
  <1> QED
    BY <1>1 DEF Closed, Start

\* The loop's function exists: the closed form is one.
LEMMA ClosedLoops ==
    ASSUME TypeOK, NEW entries, entries \subseteq Entries, NEW batch \in SUBSET DOMAIN externals
    PROVE  Loops([rows \in SUBSET batch |-> Closed(rows, entries)], batch, entries)
  <1> DEFINE G == [rows \in SUBSET batch |-> Closed(rows, entries)]
  <1>1. ASSUME NEW rows \in SUBSET batch
        PROVE  Closed(rows, entries) =
                 IF rows = {} THEN Start
                 ELSE MatchRow(G[rows \ {LastRow(rows)}], LastRow(rows), entries)
    <2>1. CASE rows = {}
      BY <2>1, ClosedStart
    <2>2. CASE rows # {}
      <3>1. rows \ {LastRow(rows)} \in SUBSET batch /\ rows \in SUBSET DOMAIN externals
        OBVIOUS
      <3>2. G[rows \ {LastRow(rows)}] = Closed(rows \ {LastRow(rows)}, entries)
        BY <3>1
      <3> HIDE DEF G
      <3> QED
        BY <2>2, <3>1, <3>2, TurnOfLoop
    <2> QED
      BY <2>1, <2>2
  <1>2. G = [rows \in SUBSET batch |->
                IF rows = {} THEN Start
                ELSE MatchRow(G[rows \ {LastRow(rows)}], LastRow(rows), entries)]
    BY <1>1, Zenon
  <1> QED
    BY <1>2, Zenon DEF Loops

\* And there is no other: a smallest set of rows after which another one differs
\* would be the turn that its last row makes.
LEMMA LoopIsClosed ==
    ASSUME TypeOK, NEW entries, entries \subseteq Entries,
           NEW batch \in SUBSET DOMAIN externals, NEW g, Loops(g, batch, entries)
    PROVE  g[batch] = Closed(batch, entries)
  <1>1. \A rows \in SUBSET batch :
          /\ rows = {} => g[rows] = Start
          /\ rows # {} => g[rows] = MatchRow(g[rows \ {LastRow(rows)}], LastRow(rows), entries)
    BY DEF Loops
  <1> DEFINE B == {rows \in SUBSET batch : g[rows] # Closed(rows, entries)}
  <1> SUFFICES ASSUME B # {} PROVE FALSE
    OBVIOUS
  <1>2. IsFiniteSet(batch)
    BY RowsAreFinite
  <1>3. PICK s \in B : \A t \in B : ~(<<t, s>> \in StrictSubsetOrdering(batch))
    <2>1. B \subseteq SUBSET batch
      OBVIOUS
    <2> HIDE DEF B
    <2>2. B \subseteq FiniteSubsetsOf(batch)
      BY <1>2, <2>1, FS_FiniteSubsetsOfFinite
    <2> QED
      BY <1>2, <2>2, WFMin, FS_StrictSubsetOrderingWellFounded
  <1>4. s # {}
    BY <1>1, <1>3, ClosedStart
  <1> DEFINE t == s \ {LastRow(s)}
  <1>5. s \in SUBSET DOMAIN externals /\ LastRow(s) \in s
    BY <1>4, LastRowIsLast
  <1>6. t \in SUBSET batch /\ t # s /\ t \subseteq s
    BY <1>5
  <1>7. <<t, s>> \in StrictSubsetOrdering(batch)
    <2> HIDE DEF t
    <2> QED
      BY <1>6 DEF StrictSubsetOrdering
  <1>8. g[t] = Closed(t, entries)
    <2> HIDE DEF t
    <2> QED
      BY <1>3, <1>6, <1>7
  <1>9. g[s] = MatchRow(Closed(t, entries), LastRow(s), entries)
    BY <1>1, <1>4, <1>8
  <1>10. g[s] = Closed(s, entries)
    BY <1>4, <1>5, <1>9, TurnOfLoop
  <1> QED
    BY <1>3, <1>10

\* The loop's verdicts are those of the definition.
LEMMA LoopDecides ==
    ASSUME TypeOK, NEW batch \in SUBSET DOMAIN externals
    PROVE  MatchLoop(batch, mirror) = MatchNaive(batch, mirror)
  <1> DEFINE F == CHOOSE g : Loops(g, batch, mirror)
  <1>1. mirror \subseteq Entries
    BY DEF TypeOK
  <1>2. Loops(F, batch, mirror)
    <2>1. \E g : Loops(g, batch, mirror)
      BY <1>1, ClosedLoops
    <2> QED
      BY <2>1
  <1>3. After(batch, mirror) = F
    BY DEF After, Loops
  <1>4. F[batch] = Closed(batch, mirror)
    <2> HIDE DEF F
    <2> QED
      BY <1>1, <1>2, LoopIsClosed
  <1> HIDE DEF F
  <1> QED
    BY <1>3, <1>4 DEF MatchLoop, Closed

(***************************************************************************)
(* In every state, on whatever rows are unmatched and whatever the mirror  *)
(* holds, the matcher's loop with its consumed and seen maps gives every   *)
(* row the verdict that Reconciliation defines for it, and uses no entry   *)
(* for two rows (MatchNaive, matcher.go).                                  *)
(***************************************************************************)
THEOREM LoopAlwaysMeetsVerdicts == Spec => []LoopMeetsVerdicts
  <1>1. TypeOK => LoopMeetsVerdicts
    <2> SUFFICES ASSUME TypeOK, NEW s \in sources
                 PROVE  LET batch == ListUnmatchedExternals(s)
                            out   == MatchLoop(batch, mirror)
                            hits  == {i \in batch : out[i].kind = "match"}
                        IN  /\ out = MatchNaive(batch, mirror)
                            /\ \A i, j \in hits : i # j => out[i].entry # out[j].entry
      BY DEF LoopMeetsVerdicts
    <2> DEFINE batch == ListUnmatchedExternals(s)
    <2>1. batch \in SUBSET DOMAIN externals
      BY DEF ListUnmatchedExternals
    <2>2. MatchLoop(batch, mirror) = MatchNaive(batch, mirror)
      <3> HIDE DEF batch
      <3> QED
        BY <2>1, LoopDecides
    <2>3. ASSUME NEW i \in batch, NEW j \in batch, i # j,
                 MatchNaive(batch, mirror)[i].kind = "match",
                 MatchNaive(batch, mirror)[j].kind = "match"
          PROVE  MatchNaive(batch, mirror)[i].entry # MatchNaive(batch, mirror)[j].entry
      <3>1. \A k \in batch : MatchNaive(batch, mirror)[k].kind = "match" =>
                /\ ~Repeated(k, batch) /\ Agreeing(externals[k], mirror) # {}
                /\ MatchNaive(batch, mirror)[k].entry = Uses(k, mirror).id
        <4> SUFFICES ASSUME NEW k \in batch, MatchNaive(batch, mirror)[k].kind = "match"
                     PROVE  /\ ~Repeated(k, batch) /\ Agreeing(externals[k], mirror) # {}
                            /\ MatchNaive(batch, mirror)[k].entry = Uses(k, mirror).id
          OBVIOUS
        <4> HIDE DEF batch
        <4>1. MatchNaive(batch, mirror)[k] = Verdict(k, batch, mirror)
          BY DEF MatchNaive
        <4>2. ~Repeated(k, batch)
          BY <4>1 DEF Verdict
        <4>3. Agreeing(externals[k], mirror) # {}
          BY <4>1, <4>2 DEF Verdict
        <4> QED
          BY <4>1, <4>2, <4>3 DEF Verdict, Uses
      <3>2. mirror \subseteq Entries
        BY DEF TypeOK
      <3>3. \A k \in {i, j} : Uses(k, mirror) \in mirror /\ Uses(k, mirror).reference = externals[k].ref
        BY <2>3, <3>1, <3>2, UsesItsReference
      <3>4. Uses(i, mirror).id = Uses(j, mirror).id => externals[i].ref = externals[j].ref
        BY <3>2, <3>3, EntryFacts
      <3>5. externals[i].ref # externals[j].ref
        <4>1. Before(i, j) \/ Before(j, i)
          BY <2>1, <2>3, RowsAreOrdered
        <4> HIDE DEF batch
        <4> QED
          BY <2>3, <3>1, <4>1 DEF Repeated
      <3> HIDE DEF batch
      <3> QED
        BY <2>3, <3>1, <3>4, <3>5
    <2> HIDE DEF batch
    <2> QED
      BY <2>2, <2>3 DEF batch
  <1> QED
    BY <1>1, CoreAlways, PTL DEF Core
=============================================================================
