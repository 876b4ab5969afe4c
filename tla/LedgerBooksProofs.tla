-------------------------- MODULE LedgerBooksProofs --------------------------
(***************************************************************************)
(* Proofs about what the tables of LedgerStore add up to: the materialised *)
(* balances are the sums of the postings, held is the sum of the active    *)
(* holds, every transaction balances, every answer matches the payload it  *)
(* was given for, the outbox tells exactly what was committed, no amount   *)
(* overflows, and the store implements AtomicLedger.                       *)
(***************************************************************************)
EXTENDS LedgerStoreProofs, FiniteSetTheorems, WellFoundedInduction

---------------------------------------------------------------------------
(* Sums.  SumFunctionOnSet folds a finite set in an order that CHOOSE      *)
(* picks, with a recursive function on its subsets.  That this function    *)
(* exists, and that the sum does not depend on the order, follow without   *)
(* an induction rule: among the finite sets for which a claim fails there  *)
(* would be a minimal one.                                                 *)

\* A set of subsets of a finite set has a minimal member.
LEMMA MinimalSubset ==
    ASSUME NEW S, IsFiniteSet(S), NEW B, B \subseteq SUBSET S, B # {}
    PROVE  \E s \in B : \A t \in B : t \subseteq s => t = s
  <1>1. B \subseteq FiniteSubsetsOf(S)
    BY FS_FiniteSubsetsOfFinite
  <1>2. PICK s \in B : \A t \in B : ~(<<t, s>> \in StrictSubsetOrdering(S))
    BY <1>1, WFMin, FS_StrictSubsetOrderingWellFounded
  <1>3. ASSUME NEW t \in B, t \subseteq s, t # s
        PROVE  FALSE
    <2>1. <<t, s>> \in StrictSubsetOrdering(S)
      BY <1>3 DEF StrictSubsetOrdering
    <2> QED
      BY <1>2, <2>1
  <1> QED
    BY <1>3

\* The element the fold takes out of s
Pick(s) == CHOOSE x \in s : TRUE

\* What is taken out of a nonempty set is one of its elements.
LEMMA PickIsMember ==
    ASSUME NEW S, S # {}
    PROVE  Pick(S) \in S
  BY DEF Pick

\* g is the fold's recursive function on the subsets of S.
Solves(f, S, g) ==
    g = [s \in SUBSET S |-> IF s = {} THEN 0 ELSE f[Pick(s)] + g[s \ {Pick(s)}]]

\* What the fold's function is on a subset: nothing, or an element and the rest.
LEMMA SolutionFacts ==
    ASSUME NEW f, NEW S, NEW g, Solves(f, S, g), NEW s \in SUBSET S
    PROVE  /\ s = {} => g[s] = 0
           /\ s # {} => g[s] = f[Pick(s)] + g[s \ {Pick(s)}]
  BY DEF Solves

\* The functions of a set and of its subset agree on the subset.
LEMMA SolutionsAgree ==
    ASSUME NEW f, NEW S, IsFiniteSet(S), NEW T \in SUBSET S,
           NEW g, Solves(f, S, g), NEW h, Solves(f, T, h)
    PROVE  g[T] = h[T]
  <1> DEFINE B == {s \in SUBSET T : g[s] # h[s]}
  <1>1. IsFiniteSet(T)
    BY FS_Subset
  <1>2. SUFFICES ASSUME B # {}
                 PROVE  FALSE
    OBVIOUS
  <1>3. PICK s \in B : \A t \in B : t \subseteq s => t = s
    <2> HIDE DEF B
    <2>1. B \subseteq SUBSET T
      BY DEF B
    <2> QED
      BY <1>1, <1>2, <2>1, MinimalSubset
  <1>4. s \in SUBSET T /\ s \in SUBSET S
    OBVIOUS
  <1>5. CASE s = {}
    BY <1>4, <1>5, SolutionFacts
  <1>6. CASE s # {}
    <2>1. Pick(s) \in s
      BY <1>6, PickIsMember
    <2>2. s \ {Pick(s)} \in SUBSET T /\ s \ {Pick(s)} # s /\ s \ {Pick(s)} \subseteq s
      BY <2>1
    <2>3. g[s \ {Pick(s)}] = h[s \ {Pick(s)}]
      BY <1>3, <2>2
    <2>4. g[s] = h[s]
      BY <1>4, <1>6, <2>3, SolutionFacts
    <2> QED
      BY <2>4
  <1> QED
    BY <1>5, <1>6

\* Every finite set has the fold's function: a minimal set without one could
\* be given one from those of its strict subsets.
LEMMA SolutionExists ==
    ASSUME NEW f, NEW S, IsFiniteSet(S)
    PROVE  \E g : Solves(f, S, g)
  <1> DEFINE B == {s \in SUBSET S : ~\E g : Solves(f, s, g)}
  <1>1. SUFFICES ASSUME B # {}
                 PROVE  FALSE
    OBVIOUS
  <1>2. PICK s \in B : \A t \in B : t \subseteq s => t = s
    <2> HIDE DEF B
    <2>1. B \subseteq SUBSET S
      BY DEF B
    <2> QED
      BY <1>1, <2>1, MinimalSubset
  <1>3. IsFiniteSet(s)
    BY FS_Subset
  <1> DEFINE Val(u) == (CHOOSE h : Solves(f, u, h))[u]
             Lhs(t) == IF t = {} THEN 0 ELSE f[Pick(t)] + Val(t \ {Pick(t)})
             G      == [t \in SUBSET s |-> Lhs(t)]
             Rhs(t) == IF t = {} THEN 0 ELSE f[Pick(t)] + G[t \ {Pick(t)}]
  <1>4. ASSUME NEW u \in SUBSET s, u # s
        PROVE  G[u] = Val(u)
    <2> DEFINE h == CHOOSE h : Solves(f, u, h)
    <2>1. Solves(f, u, h)
      BY <1>2, <1>4
    <2>2. IsFiniteSet(u)
      BY <1>3, FS_Subset
    <2> HIDE DEF h
    <2>3. CASE u = {}
      BY <2>1, <2>3, SolutionFacts DEF h
    <2>4. CASE u # {}
      <3> DEFINE v == u \ {Pick(u)}
      <3>1. v \in SUBSET u /\ v # s /\ v \in SUBSET s
        BY <1>4
      <3>2. Solves(f, v, CHOOSE k : Solves(f, v, k))
        BY <1>2, <3>1
      <3>3. h[v] = Val(v)
        <4> HIDE DEF v
        <4> QED
          BY <2>1, <2>2, <3>1, <3>2, SolutionsAgree
      <3>4. h[u] = f[Pick(u)] + h[v]
        BY <2>1, <2>4, SolutionFacts
      <3>5. G[u] = f[Pick(u)] + Val(v)
        BY <2>4
      <3> QED
        BY <3>3, <3>4, <3>5 DEF h
    <2> QED
      BY <2>3, <2>4
  <1>5. ASSUME NEW t \in SUBSET s, t # {}
        PROVE  Val(t \ {Pick(t)}) = G[t \ {Pick(t)}]
    <2>1. Pick(t) \in t
      BY <1>5, PickIsMember
    <2>2. t \ {Pick(t)} \in SUBSET s /\ t \ {Pick(t)} # s
      BY <2>1
    <2> HIDE DEF Val, G
    <2> QED
      BY <1>4, <2>2
  <1>6. \A t \in SUBSET s : Lhs(t) = Rhs(t)
    <2> HIDE DEF Val, G
    <2> QED
      BY <1>5
  <1>7. G = [t \in SUBSET s |-> Rhs(t)]
    <2> HIDE DEF Lhs, Rhs
    <2> QED
      BY <1>6
  <1>8. Solves(f, s, G)
    BY <1>7 DEF Solves
  <1> QED
    BY <1>2, <1>8

\* The sum over a finite set is its function's value.
LEMMA SumIsSolution ==
    ASSUME NEW f, NEW S, IsFiniteSet(S)
    PROVE  \E g : Solves(f, S, g) /\ SumFunctionOnSet(f, S) = g[S]
  <1> DEFINE F == CHOOSE g : Solves(f, S, g)
  <1>1. Solves(f, S, F)
    BY SolutionExists
  <1>2. SumFunctionOnSet(f, S) = F[S]
    BY DEF SumFunctionOnSet, FoldFunctionOnSet, MapThenFoldSet, Solves, Pick
  <1> QED
    BY <1>1, <1>2

\* The empty sum is zero.
LEMMA SumEmpty ==
    ASSUME NEW f
    PROVE  SumFunctionOnSet(f, {}) = 0
  <1>1. PICK g : Solves(f, {}, g) /\ SumFunctionOnSet(f, {}) = g[{}]
    BY SumIsSolution, FS_EmptySet
  <1> QED
    BY <1>1, SolutionFacts

\* One unfolding of the fold
LEMMA SumPick ==
    ASSUME NEW f, NEW S, IsFiniteSet(S), S # {}
    PROVE  SumFunctionOnSet(f, S) = f[Pick(S)] + SumFunctionOnSet(f, S \ {Pick(S)})
  <1> DEFINE T == S \ {Pick(S)}
  <1>1. T \in SUBSET S /\ IsFiniteSet(T)
    BY FS_Subset
  <1>2. PICK g : Solves(f, S, g) /\ SumFunctionOnSet(f, S) = g[S]
    BY SumIsSolution
  <1>3. PICK h : Solves(f, T, h) /\ SumFunctionOnSet(f, T) = h[T]
    BY <1>1, SumIsSolution
  <1>4. g[T] = h[T]
    <2> HIDE DEF T
    <2> QED
      BY <1>1, <1>2, <1>3, SolutionsAgree
  <1>5. g[S] = f[Pick(S)] + g[T]
    BY <1>2, SolutionFacts
  <1> QED
    BY <1>2, <1>3, <1>4, <1>5

\* Functions that agree on a set have the same sum over it.
LEMMA SumAgrees ==
    ASSUME NEW f, NEW g, NEW S, IsFiniteSet(S), \A x \in S : f[x] = g[x]
    PROVE  SumFunctionOnSet(f, S) = SumFunctionOnSet(g, S)
  <1> DEFINE B == {s \in SUBSET S : SumFunctionOnSet(f, s) # SumFunctionOnSet(g, s)}
  <1>1. SUFFICES ASSUME B # {}
                 PROVE  FALSE
    OBVIOUS
  <1>2. PICK s \in B : \A t \in B : t \subseteq s => t = s
    <2> HIDE DEF B
    <2>1. B \subseteq SUBSET S
      BY DEF B
    <2> QED
      BY <1>1, <2>1, MinimalSubset
  <1>3. IsFiniteSet(s)
    BY FS_Subset
  <1>4. s # {}
    BY SumEmpty
  <1>5. Pick(s) \in s
    BY <1>4, PickIsMember
  <1>6. SumFunctionOnSet(f, s \ {Pick(s)}) = SumFunctionOnSet(g, s \ {Pick(s)})
    BY <1>2, <1>5
  <1>7. SumFunctionOnSet(f, s) = SumFunctionOnSet(g, s)
    BY <1>3, <1>4, <1>5, <1>6, SumPick
  <1> QED
    BY <1>7

\* A sum of integers is an integer.
LEMMA SumInt ==
    ASSUME NEW f, NEW S, IsFiniteSet(S), \A x \in S : f[x] \in Int
    PROVE  SumFunctionOnSet(f, S) \in Int
  <1> DEFINE B == {s \in SUBSET S : SumFunctionOnSet(f, s) \notin Int}
  <1>1. SUFFICES ASSUME B # {}
                 PROVE  FALSE
    OBVIOUS
  <1>2. PICK s \in B : \A t \in B : t \subseteq s => t = s
    <2> HIDE DEF B
    <2>1. B \subseteq SUBSET S
      BY DEF B
    <2> QED
      BY <1>1, <2>1, MinimalSubset
  <1>3. IsFiniteSet(s)
    BY FS_Subset
  <1>4. s # {}
    BY SumEmpty
  <1>5. Pick(s) \in s
    BY <1>4, PickIsMember
  <1>6. SumFunctionOnSet(f, s \ {Pick(s)}) \in Int
    BY <1>2, <1>5
  <1>7. SumFunctionOnSet(f, s) \in Int
    BY <1>3, <1>4, <1>5, <1>6, SumPick
  <1> QED
    BY <1>7

\* Any element can be taken out of a sum, not only the one CHOOSE picks.
LEMMA SumRemove ==
    ASSUME NEW f, NEW S, IsFiniteSet(S), \A x \in S : f[x] \in Int, NEW y \in S
    PROVE  SumFunctionOnSet(f, S) = f[y] + SumFunctionOnSet(f, S \ {y})
  <1> DEFINE Total(s) == SumFunctionOnSet(f, s)
             B == {s \in SUBSET S : \E x \in s : Total(s) # f[x] + Total(s \ {x})}
  <1>1. SUFFICES ASSUME B # {}
                 PROVE  FALSE
    OBVIOUS
  <1>2. PICK s \in B : \A t \in B : t \subseteq s => t = s
    <2> HIDE DEF B
    <2>1. B \subseteq SUBSET S
      BY DEF B
    <2> QED
      BY <1>1, <2>1, MinimalSubset
  <1>3. PICK x \in s : Total(s) # f[x] + Total(s \ {x})
    OBVIOUS
  <1> DEFINE p == Pick(s)
  <1>4. p \in s
    BY PickIsMember
  <1>5. ASSUME NEW t \in SUBSET S
        PROVE  IsFiniteSet(t) /\ Total(t) \in Int
    <2>1. IsFiniteSet(t)
      BY FS_Subset
    <2> QED
      BY <2>1, SumInt
  <1> HIDE DEF Total
  <1>6. Total(s) = f[p] + Total(s \ {p})
    BY <1>4, <1>5, SumPick DEF Total
  <1>7. x # p
    BY <1>3, <1>6
  <1> HIDE DEF p
  <1>8. ASSUME NEW t \in SUBSET s, t # s, NEW z \in t
        PROVE  Total(t) = f[z] + Total(t \ {z})
    <2>1. t \notin B
      <3> HIDE DEF B
      <3> QED
        BY <1>2, <1>8
    <2> QED
      BY <2>1
  <1>9. s \in SUBSET S
    OBVIOUS
  <1> HIDE DEF B
  <1> DEFINE a == f[x]
             b == f[p]
             c == Total((s \ {p}) \ {x})
  <1>10. a \in Int /\ b \in Int /\ c \in Int
    BY <1>4, <1>5, <1>9
  <1>11. Total(s) = b + (a + c)
    BY <1>4, <1>6, <1>7, <1>8
  <1>12. Total(s \ {x}) = b + c
    <2>1. (s \ {x}) \ {p} = (s \ {p}) \ {x}
      OBVIOUS
    <2> QED
      BY <1>4, <1>7, <1>8, <2>1
  <1> HIDE DEF a, b, c
  <1>13. b + (a + c) = a + (b + c)
    BY <1>10
  <1> QED
    BY <1>3, <1>11, <1>12, <1>13 DEF a

\* One more element adds its value.
LEMMA SumAdd ==
    ASSUME NEW f, NEW S, IsFiniteSet(S), NEW y, y \notin S, \A x \in S \cup {y} : f[x] \in Int
    PROVE  SumFunctionOnSet(f, S \cup {y}) = f[y] + SumFunctionOnSet(f, S)
  <1>1. IsFiniteSet(S \cup {y}) /\ (S \cup {y}) \ {y} = S
    BY FS_AddElement
  <1> QED
    BY <1>1, SumRemove

---------------------------------------------------------------------------
(* What each commit does to the tables, as plain facts about their rows.   *)

\* What a request at its COMMIT has
LEMMA AtCommit ==
    ASSUME LedgerInvariant, NEW r \in Requests, pc[r] = "commit"
    PROVE  /\ req[r] \in Inputs /\ Valid(req[r])
           /\ r \notin TxIds /\ r \notin HoldIds
           /\ transactions[r] = None /\ holds[r] = None
           /\ TypeOK /\ Shape(r) /\ Protects(r) /\ Versions(r)
  BY DEF LedgerInvariant, LocksProtect, Shape, Open, TxIds, HoldIds

\* A committed create adds its row and nothing else to transactions.
LEMMA CreateEffect ==
    ASSUME LedgerInvariant, NEW r \in Requests, CommitCreate(r)
    PROVE  /\ pc[r] = "commit" /\ req[r] \in CreateInput /\ req[r] \in Keyed
           /\ req[r].op = "create"
           /\ PostingsOf(r) = req[r].postings
           /\ TxIds' = TxIds \cup {r}
           /\ \A t \in TxIds : transactions'[t] = transactions[t]
           /\ transactions'[r].key = req[r].key
           /\ transactions'[r].status = req[r].status
           /\ transactions'[r].postings = req[r].postings
           /\ transactions'[r].reverses_id = None
           /\ holds' = holds
  <1> DEFINE in  == req[r]
             row == [key |-> in.key, status |-> in.status, postings |-> in.postings,
                     reverses_id |-> None, reversed_by_id |-> None]
  <1>0. /\ pc[r] = "commit" /\ in.op = "create" /\ holds' = holds
        /\ transactions' = [transactions EXCEPT ![r] = row]
    BY DEF CommitCreate
  <1>1. in \in CreateInput /\ in \in Keyed
    BY <1>0, AtCommit, InputFields DEF Keyed
  <1>2. row # None
    <2>1. row \in Transaction
      BY <1>1 DEF CreateInput, Transaction
    <2> HIDE DEF row
    <2> QED
      BY <2>1, ConstantsAssumption
  <1>3. /\ transactions'[r] = row
        /\ \A t \in Requests \ {r} : transactions'[t] = transactions[t]
    BY <1>0, AtCommit DEF TypeOK
  <1>4. TxIds' = TxIds \cup {r}
    <2> HIDE DEF row
    <2> QED
      BY <1>2, <1>3 DEF TxIds
  <1>5. \A t \in TxIds : transactions'[t] = transactions[t]
    BY <1>0, <1>3, AtCommit DEF TxIds
  <1> QED
    BY <1>0, <1>1, <1>3, <1>4, <1>5 DEF PostingsOf

\* A committed post turns one draft into a posted transaction.
LEMMA PostEffect ==
    ASSUME LedgerInvariant, NEW r \in Requests, CommitPost(r)
    PROVE  LET t == req[r].target IN
           /\ pc[r] = "commit" /\ req[r].op = "post"
           /\ t \in TxIds /\ t \in Requests
           /\ PostingsOf(r) = transactions[t].postings
           /\ TxIds' = TxIds
           /\ \A u \in TxIds \ {t} : transactions'[u] = transactions[u]
           /\ transactions[t].status = "draft"
           /\ transactions'[t].key = transactions[t].key
           /\ transactions'[t].status = "posted"
           /\ transactions'[t].postings = transactions[t].postings
           /\ transactions'[t].reverses_id = transactions[t].reverses_id
           /\ transactions'[t].reversed_by_id = transactions[t].reversed_by_id
           /\ holds' = holds
  <1> DEFINE t   == req[r].target
             row == [transactions[t] EXCEPT !.status = "posted"]
  <1>0. /\ pc[r] = "commit" /\ req[r].op = "post" /\ holds' = holds
        /\ transactions' = [transactions EXCEPT ![t] = row]
    BY DEF CommitPost
  <1>1. /\ t \in Requests /\ transactions[t] # None /\ transactions[t].status = "draft"
        /\ transactions[t] \in Transaction
    BY <1>0, AtCommit, TargetType DEF Protects, TypeOK
  <1>2. /\ row \in Transaction /\ row.key = transactions[t].key
        /\ row.postings = transactions[t].postings /\ row.status = "posted"
        /\ row.reverses_id = transactions[t].reverses_id
        /\ row.reversed_by_id = transactions[t].reversed_by_id
    BY <1>1 DEF Transaction
  <1>3. /\ transactions'[t] = row
        /\ \A u \in Requests \ {t} : transactions'[u] = transactions[u]
    BY <1>0, <1>1, AtCommit DEF TypeOK
  <1> HIDE DEF row
  <1>4. row # None
    BY <1>2, ConstantsAssumption
  <1>5. TxIds' = TxIds
    BY <1>1, <1>3, <1>4 DEF TxIds
  <1>6. \A u \in TxIds \ {t} : transactions'[u] = transactions[u]
    BY <1>3 DEF TxIds
  <1>7. PostingsOf(r) = transactions[t].postings
    BY <1>0 DEF PostingsOf
  <1> QED
    BY <1>0, <1>1, <1>2, <1>3, <1>5, <1>6, <1>7 DEF TxIds

\* A committed reversal adds its row and marks the transaction it reverses.
LEMMA ReverseEffect ==
    ASSUME LedgerInvariant, NEW r \in Requests, CommitReverse(r)
    PROVE  LET t == req[r].target IN
           /\ pc[r] = "commit" /\ req[r] \in ReverseInput /\ req[r] \in Keyed
           /\ req[r].op = "reverse"
           /\ t \in TxIds /\ t \in Requests /\ t # r
           /\ PostingsOf(r) = ReversePostings(transactions[t].postings)
           /\ TxIds' = TxIds \cup {r}
           /\ \A u \in TxIds \ {t} : transactions'[u] = transactions[u]
           /\ transactions[t].status = "posted"
           /\ transactions'[t].key = transactions[t].key
           /\ transactions'[t].status = "reversed"
           /\ transactions'[t].postings = transactions[t].postings
           /\ transactions'[t].reverses_id = transactions[t].reverses_id
           /\ transactions'[r].key = EffectiveKey(req[r])
           /\ transactions'[r].status = "posted"
           /\ transactions'[r].postings = PostingsOf(r)
           /\ transactions'[r].reverses_id = t
           /\ holds' = holds
  <1> DEFINE t   == req[r].target
             k   == EffectiveKey(req[r])
             new == [key |-> k, status |-> "posted", postings |-> PostingsOf(r),
                     reverses_id |-> t, reversed_by_id |-> None]
             old == [transactions[t] EXCEPT !.status = "reversed", !.reversed_by_id = r]
  <1>0. /\ pc[r] = "commit" /\ req[r].op = "reverse" /\ holds' = holds
        /\ transactions' = [transactions EXCEPT ![r] = new,
              ![t] = [@ EXCEPT !.status = "reversed", !.reversed_by_id = r]]
    BY DEF CommitReverse
  <1>1. /\ t \in Requests /\ transactions[t] # None /\ transactions[t].status = "posted"
        /\ transactions[t] \in Transaction /\ t # r
    BY <1>0, AtCommit, TargetType DEF Protects, TypeOK
  <1>2. req[r] \in ReverseInput /\ req[r] \in Keyed /\ k \in KeySpace
    BY <1>0, AtCommit, InputFields, KeyType DEF Keyed
  <1>3. /\ old.key = transactions[t].key
        /\ old.postings = transactions[t].postings /\ old.status = "reversed"
        /\ old.reverses_id = transactions[t].reverses_id
        /\ old \in Transaction
    <2> DEFINE half == [transactions[t] EXCEPT !.status = "reversed"]
    <2>1. /\ half \in Transaction /\ half.key = transactions[t].key
          /\ half.postings = transactions[t].postings /\ half.status = "reversed"
          /\ half.reverses_id = transactions[t].reverses_id
      BY <1>1 DEF Transaction
    <2>2. old = [half EXCEPT !.reversed_by_id = r]
      OBVIOUS
    <2> HIDE DEF half
    <2> QED
      BY <2>1, <2>2 DEF Transaction
  <1>4. new \in Transaction
    BY <1>0, <1>1, <1>2, PostingsType DEF Transaction, TxOps
  <1>5. /\ transactions'[r] = new /\ transactions'[t] = old
        /\ \A u \in Requests \ {r, t} : transactions'[u] = transactions[u]
    BY <1>0, <1>1, AtCommit DEF TypeOK
  <1>6. /\ new.key = k /\ new.status = "posted" /\ new.postings = PostingsOf(r)
        /\ new.reverses_id = t
    OBVIOUS
  <1>7. PostingsOf(r) = ReversePostings(transactions[t].postings)
    BY <1>0 DEF PostingsOf
  <1> HIDE DEF new, old, k
  <1>8. new # None /\ old # None
    BY <1>3, <1>4, ConstantsAssumption
  <1>9. TxIds' = TxIds \cup {r}
    BY <1>1, <1>5, <1>8 DEF TxIds
  <1>10. \A u \in TxIds \ {t} : transactions'[u] = transactions[u]
    BY <1>0, <1>5, AtCommit DEF TxIds
  <1> QED
    BY <1>0, <1>1, <1>2, <1>3, <1>5, <1>6, <1>7, <1>9, <1>10 DEF TxIds, k

\* A committed hold adds its row.
LEMMA HoldEffect ==
    ASSUME LedgerInvariant, NEW r \in Requests, CommitHold(r)
    PROVE  /\ pc[r] = "commit" /\ req[r] \in HoldInput /\ req[r] \in Keyed
           /\ req[r].op = "hold"
           /\ req[r].units > 0
           /\ HoldIds' = HoldIds \cup {r}
           /\ \A h \in HoldIds : holds'[h] = holds[h]
           /\ RowOf(holds'[r]) = RowOf(req[r])
           /\ holds'[r].key = EffectiveKey(req[r])
           /\ holds'[r].amount = req[r].units
           /\ holds'[r].status = "active"
           /\ holds'[r].hash = Fingerprint(req[r])
           /\ transactions' = transactions
  <1> DEFINE in  == req[r]
             row == [key |-> in.key, account |-> in.account, asset |-> in.asset,
                     amount |-> in.units, status |-> "active",
                     captured_transaction_id |-> None, hash |-> Fingerprint(in)]
  <1>0. /\ pc[r] = "commit" /\ in.op = "hold" /\ transactions' = transactions
        /\ holds' = [holds EXCEPT ![r] = row]
    BY DEF CommitHold
  <1>1. /\ in \in HoldInput /\ in \in Keyed /\ Fingerprint(in) \in Hashes /\ in.account \in Accounts
    BY <1>0, AtCommit, InputFields, KeyType DEF Keyed, Shape
  <1>2. row \in Hold
    BY <1>1 DEF HoldInput, Hold
  <1>3. in.key = EffectiveKey(in) /\ in.units > 0
    BY <1>0, AtCommit DEF EffectiveKey, Valid
  <1>4. /\ holds'[r] = row
        /\ \A h \in Requests \ {r} : holds'[h] = holds[h]
    BY <1>0, AtCommit DEF TypeOK
  <1>5. /\ row.account = in.account /\ row.asset = in.asset /\ row.key = in.key
        /\ row.amount = in.units /\ row.status = "active" /\ row.hash = Fingerprint(in)
    OBVIOUS
  <1> HIDE DEF row
  <1>6. row # None
    BY <1>2, ConstantsAssumption
  <1>7. HoldIds' = HoldIds \cup {r}
    BY <1>4, <1>6 DEF HoldIds
  <1>8. \A h \in HoldIds : holds'[h] = holds[h]
    BY <1>0, <1>4, AtCommit DEF HoldIds
  <1> QED
    BY <1>0, <1>1, <1>3, <1>4, <1>5, <1>7, <1>8 DEF RowOf

\* A committed capture or release settles one active hold.
LEMMA SettleEffect ==
    ASSUME LedgerInvariant, NEW r \in Requests, CommitCapture(r) \/ CommitRelease(r)
    PROVE  LET h == req[r].target IN
           /\ pc[r] = "commit" /\ req[r].op \in SettleOps
           /\ h \in HoldIds /\ h \in Requests
           /\ HoldIds' = HoldIds
           /\ \A g \in HoldIds \ {h} : holds'[g] = holds[g]
           /\ holds[h].status = "active"
           /\ RowOf(holds'[h]) = RowOf(holds[h])
           /\ holds'[h].key = holds[h].key
           /\ holds'[h].amount = holds[h].amount
           /\ holds'[h].hash = holds[h].hash
           /\ CommitCapture(r) => req[r].op = "capture" /\ holds'[h].status = "captured"
           /\ CommitRelease(r) => req[r].op = "release" /\ holds'[h].status = "released"
           /\ transactions' = transactions
  <1> DEFINE h   == req[r].target
             cap == [holds[h] EXCEPT !.status = "captured",
                                     !.captured_transaction_id = req[r].transaction]
             rel == [holds[h] EXCEPT !.status = "released"]
  <1>0. /\ pc[r] = "commit" /\ req[r].op \in SettleOps /\ transactions' = transactions
    BY DEF CommitCapture, CommitRelease, SettleOps
  <1>1. /\ h \in Requests /\ holds[h] # None /\ holds[h].status = "active"
        /\ holds[h] \in Hold
    BY <1>0, AtCommit, TargetType DEF Protects, TypeOK, SettleOps
  <1>c. CASE CommitCapture(r)
    <2>1. req[r].op = "capture" /\ holds' = [holds EXCEPT ![h] = cap]
      BY <1>c DEF CommitCapture
    <2>2. req[r].transaction \in Requests \cup {None}
      BY <2>1, <1>0, AtCommit, InputFields DEF CaptureInput
    <2>3. /\ cap \in Hold /\ cap.account = holds[h].account /\ cap.asset = holds[h].asset
          /\ cap.key = holds[h].key /\ cap.amount = holds[h].amount /\ cap.hash = holds[h].hash
          /\ cap.status = "captured"
      BY <1>1, <2>2, SettledHold DEF Hold
    <2>4. holds'[h] = cap /\ \A g \in Requests \ {h} : holds'[g] = holds[g]
      BY <1>0, <1>1, <2>1, AtCommit DEF TypeOK
    <2> HIDE DEF cap
    <2>5. cap # None
      BY <2>3, ConstantsAssumption
    <2>6. HoldIds' = HoldIds
      BY <1>1, <2>4, <2>5 DEF HoldIds
    <2>7. ~CommitRelease(r)
      BY <2>1 DEF CommitRelease
    <2> QED
      BY <1>0, <1>1, <2>1, <2>3, <2>4, <2>6, <2>7 DEF HoldIds, RowOf
  <1>r. CASE CommitRelease(r)
    <2>1. req[r].op = "release" /\ holds' = [holds EXCEPT ![h] = rel]
      BY <1>r DEF CommitRelease
    <2>3. /\ rel \in Hold /\ rel.account = holds[h].account /\ rel.asset = holds[h].asset
          /\ rel.key = holds[h].key /\ rel.amount = holds[h].amount /\ rel.hash = holds[h].hash
          /\ rel.status = "released"
      BY <1>1 DEF Hold
    <2>4. holds'[h] = rel /\ \A g \in Requests \ {h} : holds'[g] = holds[g]
      BY <1>0, <1>1, <2>1, AtCommit DEF TypeOK
    <2> HIDE DEF rel
    <2>5. rel # None
      BY <2>3, ConstantsAssumption
    <2>6. HoldIds' = HoldIds
      BY <1>1, <2>4, <2>5 DEF HoldIds
    <2>7. ~CommitCapture(r)
      BY <2>1 DEF CommitCapture
    <2> QED
      BY <1>0, <1>1, <2>1, <2>3, <2>4, <2>6, <2>7 DEF HoldIds, RowOf
  <1> QED
    BY <1>c, <1>r

---------------------------------------------------------------------------
(* The sums the model takes.                                               *)

\* The units of a list of postings are integers, and its index sets finite.
LEMMA UnitsType ==
    ASSUME NEW ps \in Seq(Posting), NEW n \in Nat, n <= Len(ps), NEW I \in SUBSET (1..n)
    PROVE  /\ IsFiniteSet(I)
           /\ \A i \in I : Units(ps)[i] = ps[i].units /\ ps[i].units \in Int
  <1>1. IsFiniteSet(I)
    <2>1. IsFiniteSet(1..n)
      BY FS_Interval
    <2> QED
      BY <2>1, FS_Subset
  <1>2. \A i \in I : i \in 1..Len(ps)
    OBVIOUS
  <1>3. \A i \in 1..Len(ps) : ps[i] \in Posting
    OBVIOUS
  <1>4. \A i \in 1..Len(ps) : Units(ps)[i] = ps[i].units /\ ps[i].units \in Int
    BY <1>3 DEF Units, Posting
  <1> QED
    BY <1>1, <1>2, <1>4

\* A sum of the first postings of a transaction is an integer (validatePostings).
LEMMA SumUpToInt ==
    ASSUME NEW ps \in Seq(Posting), NEW n \in Nat, n <= Len(ps), NEW x, NEW d
    PROVE  SumUpTo(ps, n, x, d) \in Int
  <1> DEFINE I == {i \in 1..n : RowOf(ps[i]) = x /\ ps[i].direction = d}
  <1>1. I \in SUBSET (1..n)
    OBVIOUS
  <1> HIDE DEF I
  <1>2. IsFiniteSet(I) /\ \A i \in I : Units(ps)[i] \in Int
    BY <1>1, UnitsType
  <1>3. SumFunctionOnSet(Units(ps), I) \in Int
    BY <1>2, SumInt
  <1> QED
    BY <1>3 DEF SumUpTo, I

\* The next posting adds its units to its own row and side, and to no other.
LEMMA SumUpToNext ==
    ASSUME NEW ps \in Seq(Posting), NEW n \in Nat, n < Len(ps), NEW x, NEW d
    PROVE  SumUpTo(ps, n + 1, x, d) =
              SumUpTo(ps, n, x, d)
                + (IF RowOf(ps[n + 1]) = x /\ ps[n + 1].direction = d THEN ps[n + 1].units ELSE 0)
  <1> DEFINE On(m) == {i \in 1..m : RowOf(ps[i]) = x /\ ps[i].direction = d}
             I == On(n)
             J == On(n + 1)
  <1>1. I \in SUBSET (1..n) /\ J \in SUBSET (1..(n + 1)) /\ n + 1 \notin I
    OBVIOUS
  <1>2. SumUpTo(ps, n, x, d) = SumFunctionOnSet(Units(ps), I)
        /\ SumUpTo(ps, n + 1, x, d) = SumFunctionOnSet(Units(ps), J)
    BY DEF SumUpTo
  <1>3. SumUpTo(ps, n, x, d) \in Int
    BY SumUpToInt
  <1>4. CASE RowOf(ps[n + 1]) = x /\ ps[n + 1].direction = d
    <2>1. J = I \cup {n + 1}
      BY <1>4
    <2> HIDE DEF I, J, On
    <2>2. /\ IsFiniteSet(I)
          /\ \A i \in J : Units(ps)[i] \in Int
          /\ Units(ps)[n + 1] = ps[n + 1].units /\ ps[n + 1].units \in Int
      <3>1. n + 1 \in J /\ n + 1 \in Nat /\ n + 1 <= Len(ps) /\ n <= Len(ps)
        BY <2>1
      <3>2. IsFiniteSet(I)
        BY <1>1, <3>1, UnitsType
      <3> QED
        BY <1>1, <3>1, <3>2, UnitsType
    <2>3. SumFunctionOnSet(Units(ps), I \cup {n + 1})
             = Units(ps)[n + 1] + SumFunctionOnSet(Units(ps), I)
      BY <1>1, <2>1, <2>2, SumAdd
    <2> DEFINE a == SumUpTo(ps, n, x, d)
               u == ps[n + 1].units
    <2>4. SumUpTo(ps, n + 1, x, d) = u + a
      BY <1>2, <2>1, <2>2, <2>3
    <2>5. a \in Int /\ u \in Int
      BY <1>3, <2>2
    <2> HIDE DEF a, u
    <2>6. SumUpTo(ps, n + 1, x, d) = a + u
      BY <2>4, <2>5
    <2> QED
      BY <1>4, <2>6 DEF a, u
  <1>5. CASE ~(RowOf(ps[n + 1]) = x /\ ps[n + 1].direction = d)
    <2>1. J = I
      BY <1>5
    <2> DEFINE a == SumUpTo(ps, n, x, d)
    <2>2. SumUpTo(ps, n + 1, x, d) = a /\ a \in Int
      BY <1>2, <1>3, <2>1
    <2> HIDE DEF a
    <2>3. SumUpTo(ps, n + 1, x, d) = a + 0
      BY <2>2
    <2> QED
      BY <1>5, <2>3 DEF a
  <1> QED
    BY <1>4, <1>5

\* Postings on other rows add nothing.
LEMMA SumUpToElsewhere ==
    ASSUME NEW ps, NEW n \in Nat, NEW x, NEW d, \A i \in 1..n : RowOf(ps[i]) # x
    PROVE  SumUpTo(ps, n, x, d) = 0
  <1>1. {i \in 1..n : RowOf(ps[i]) = x /\ ps[i].direction = d} = {}
    OBVIOUS
  <1> QED
    BY <1>1, SumEmpty DEF SumUpTo

\* A transaction that balances has a reversal that balances: inverting every
\* direction exchanges the two totals of every asset.
LEMMA ReversalBalances ==
    ASSUME NEW ps \in Seq(Posting), BalancedPostings(ps)
    PROVE  BalancedPostings(ReversePostings(ps))
  <1> DEFINE qs == ReversePostings(ps)
  <1>1. /\ qs \in Seq(Posting) /\ Len(qs) = Len(ps)
        /\ \A i \in 1..Len(ps) : qs[i].asset = ps[i].asset /\ qs[i].units = ps[i].units
    BY ReversePostingsType
  <1>2. \A i \in 1..Len(ps) : qs[i].direction = Opposite(ps[i].direction)
        /\ ps[i].direction \in Directions
    <2>1. \A i \in 1..Len(ps) : ps[i] \in Posting
      OBVIOUS
    <2> QED
      BY <2>1 DEF ReversePostings, Posting
  <1> HIDE DEF qs
  <1>3. Units(qs) = Units(ps)
    BY <1>1 DEF Units
  <1>4. ASSUME NEW c \in Assets
        PROVE  /\ SumUnits(qs, "DEBIT", c) = SumUnits(ps, "CREDIT", c)
               /\ SumUnits(qs, "CREDIT", c) = SumUnits(ps, "DEBIT", c)
    <2>1. {i \in 1..Len(qs) : qs[i].direction = "DEBIT" /\ qs[i].asset = c}
             = {i \in 1..Len(ps) : ps[i].direction = "CREDIT" /\ ps[i].asset = c}
      BY <1>1, <1>2 DEF Opposite, Directions
    <2>2. {i \in 1..Len(qs) : qs[i].direction = "CREDIT" /\ qs[i].asset = c}
             = {i \in 1..Len(ps) : ps[i].direction = "DEBIT" /\ ps[i].asset = c}
      BY <1>1, <1>2 DEF Opposite, Directions
    <2> QED
      BY <1>3, <2>1, <2>2 DEF SumUnits
  <1>5. BalancedPostings(qs)
    BY <1>1, <1>4 DEF BalancedPostings
  <1> QED
    BY <1>5 DEF qs

\* Debits and credits added one after the other
LEMMA AddTwice ==
    ASSUME NEW b \in Balance, NEW p1 \in Int, NEW p2 \in Int, NEW q1 \in Int, NEW q2 \in Int,
           NEW u1 \in Int, NEW u2 \in Int, NEW v1 \in Int, NEW v2 \in Int
    PROVE  AddTo(AddTo(b, <<p1, p2>>, <<q1, q2>>), <<u1, u2>>, <<v1, v2>>)
              = AddTo(b, <<p1 + u1, p2 + u2>>, <<q1 + v1, q2 + v2>>)
  BY DEF AddTo, Balance

\* A balance with nothing added is the balance (applyPostings).
LEMMA AddNothing ==
    ASSUME NEW b \in Balance
    PROVE  AddTo(b, <<0, 0>>, <<0, 0>>) = b
  BY DEF AddTo, Balance

---------------------------------------------------------------------------
(* The steps of a request, seen by the others and by itself.               *)

\* A step of r leaves the others' own state alone, and every request body.
LEMMA OthersKept ==
    ASSUME LedgerInvariant, NEW r \in Requests, Step(r) \/ Fault(r)
    PROVE  /\ req' = req
           /\ \A s \in Requests \ {r} : SameControl(s) /\ resp'[s] = resp[s]
  <1> DEFINE Goal == /\ req' = req
                     /\ \A s \in Requests \ {r} : SameControl(s) /\ resp'[s] = resp[s]
  <1>t. TypeOK
    BY DEF LedgerInvariant
  <1>1. ASSUME NEW code, NEW id, NEW status, Answer(r, code, id, status)
        PROVE  Goal
    BY <1>1, <1>t DEF Answer, TypeOK, SameControl
  <1>2. ASSUME NEW step, NEW held, Advance(r, step, held), UNCHANGED <<req, resp, idx, uncommitted>>
        PROVE  Goal
    BY <1>2, <1>t DEF Advance, TypeOK, SameControl
  <1>3. ASSUME UniqueViolation(r)
        PROVE  Goal
    BY <1>3, <1>t DEF UniqueViolation, TypeOK, SameControl
  <1> SUFFICES Goal
    OBVIOUS
  <1> HIDE DEF Goal
  <1>4. CASE LookupHit(r) \/ LookupMiss(r) \/ CheckReferences(r) \/ Recheck(r) \/ TargetMissing(r)
    BY <1>1, <1>2, <1>4 DEF LookupHit, LookupMiss, CheckReferences, Recheck, TargetMissing, Fail
  <1>5. CASE PostLock(r) \/ ReverseLock(r) \/ HoldLock(r) \/ SettleLock(r)
    BY <1>1, <1>2, <1>5 DEF PostLock, ReverseLock, HoldLock, SettleLock, Fail
  <1>6. CASE InsertTransaction(r)
    BY <1>2, <1>3, <1>6 DEF InsertTransaction
  <1>7. CASE InsertHold(r)
    <2>1. \/ UniqueViolation(r)
          \/ /\ \E step, held : Advance(r, step, held)
             /\ \E y, b : uncommitted' = [uncommitted EXCEPT ![r][y] = b]
             /\ UNCHANGED <<req, resp, idx>>
      BY <1>7 DEF InsertHold
    <2> QED
      BY <1>3, <1>t, <2>1 DEF Advance, TypeOK, SameControl, Goal
  <1>8. CASE ApplyBalance(r)
    <2>1. \/ Fail(r, "error")
          \/ /\ \E step, held : Advance(r, step, held)
             /\ \E y, b : uncommitted' = [uncommitted EXCEPT ![r][y] = b]
             /\ idx' = [idx EXCEPT ![r] = @ + 1]
             /\ UNCHANGED <<req, resp>>
      BY <1>8 DEF ApplyBalance
    <2>2. CASE Fail(r, "error")
      BY <1>1, <2>2 DEF Fail
    <2> QED
      BY <1>t, <2>1, <2>2 DEF Advance, TypeOK, SameControl, Goal
  <1>9. CASE ReleaseHeld(r)
    <2>1. /\ \E step, held : Advance(r, step, held)
          /\ \E y, b : uncommitted' = [uncommitted EXCEPT ![r][y] = b]
          /\ UNCHANGED <<req, resp, idx>>
      BY <1>9 DEF ReleaseHeld
    <2> QED
      BY <1>t, <2>1 DEF Advance, TypeOK, SameControl, Goal
  <1>10. CASE Commit(r)
    BY <1>1, <1>10 DEF Commit, CommitCreate, CommitPost, CommitReverse, CommitHold,
                       CommitCapture, CommitRelease
  <1>11. CASE DeadlockVictim(r) \/ Fault(r)
    BY <1>1, <1>11 DEF DeadlockVictim, Fault, Crash, RecheckFails, Fail
  <1> QED
    BY <1>4, <1>5, <1>6, <1>7, <1>8, <1>9, <1>10, <1>11 DEF Step, Commit, Goal

\* The ways into the statements that write balance rows
LEMMA WaysIn ==
    ASSUME LedgerInvariant, NEW r \in Requests, Step(r) \/ Fault(r), pc'[r] \in {"apply", "commit"}
    PROVE  \/ req[r].op \in TxOps /\ ApplyBalance(r)
           \/ req[r].op \in TxOps /\ \A x \in Rows : BalanceRow(x) \notin locks'[r]
           \/ req[r].op = "hold"
           \/ req[r].op \in SettleOps /\ pc'[r] = "apply"
           \/ ReleaseHeld(r)
  <1> DEFINE Goal == \/ req[r].op \in TxOps /\ ApplyBalance(r)
                     \/ req[r].op \in TxOps /\ \A x \in Rows : BalanceRow(x) \notin locks'[r]
                     \/ req[r].op = "hold"
                     \/ req[r].op \in SettleOps /\ pc'[r] = "apply"
                     \/ ReleaseHeld(r)
  <1>t. TypeOK /\ Shape(r) /\ Versions(r)
    BY DEF LedgerInvariant, LocksProtect
  <1>1. ASSUME NEW code, NEW id, NEW status, Answer(r, code, id, status)
        PROVE  FALSE
    BY <1>1, <1>t DEF Answer, TypeOK
  <1>2. ASSUME NEW step, NEW held, Advance(r, step, held)
        PROVE  pc'[r] = step /\ locks'[r] = locks[r] \cup held
    BY <1>2, <1>t DEF Advance, TypeOK
  <1>3. CASE LookupHit(r) \/ LookupMiss(r) \/ CheckReferences(r) \/ Recheck(r) \/ TargetMissing(r)
    BY <1>1, <1>2, <1>3 DEF LookupHit, LookupMiss, CheckReferences, Recheck, TargetMissing, Fail
  <1>4. CASE ReverseLock(r) \/ HoldLock(r)
    BY <1>1, <1>2, <1>4 DEF ReverseLock, HoldLock, Fail
  <1>5. CASE PostLock(r)
    <2>1. pc[r] = "lock" /\ req[r].op = "post" /\ Advance(r, "apply", {TxRow(req[r].target)})
      BY <1>1, <1>5 DEF PostLock, Fail
    <2>2. locks'[r] = {TxRow(req[r].target)}
      BY <1>2, <1>t, <2>1 DEF Shape
    <2> QED
      BY <2>1, <2>2 DEF TxOps, TxRow, BalanceRow
  <1>6. CASE SettleLock(r)
    BY <1>1, <1>2, <1>6 DEF SettleLock, Fail, SettleOps
  <1>7. CASE InsertTransaction(r)
    <2>1. CASE UniqueViolation(r)
      BY <1>t, <2>1 DEF UniqueViolation, TypeOK
    <2>2. CASE Advance(r, "apply", {TxKey(EffectiveKey(req[r]))})
      <3>1. locks'[r] = locks[r] \cup {TxKey(EffectiveKey(req[r]))}
        BY <1>2, <2>2
      <3>2. \A x \in Rows : BalanceRow(x) \notin locks[r]
        BY <1>7, <1>t DEF InsertTransaction, Versions
      <3> QED
        BY <1>7, <3>1, <3>2 DEF InsertTransaction, TxOps, TxKey, BalanceRow
    <2> QED
      BY <1>7, <2>1, <2>2 DEF InsertTransaction
  <1>8. CASE InsertHold(r)
    BY <1>8 DEF InsertHold
  <1>9. CASE ApplyBalance(r)
    BY <1>9 DEF ApplyBalance, TxOps
  <1>10. CASE Commit(r)
    BY <1>1, <1>10 DEF Commit, CommitCreate, CommitPost, CommitReverse, CommitHold,
                       CommitCapture, CommitRelease
  <1>11. CASE DeadlockVictim(r) \/ Fault(r)
    BY <1>1, <1>11 DEF DeadlockVictim, Fault, Crash, RecheckFails, Fail
  <1> QED
    BY <1>3, <1>4, <1>5, <1>6, <1>7, <1>8, <1>9, <1>10, <1>11 DEF Step, Commit

\* While others run, a request's postings, its target hold and the committed
\* versions of the balance rows it has locked stay as they are.
LEMMA LockedStay ==
    ASSUME LedgerInvariant, [Next]_vars, NEW s \in Requests, pc[s] \in {"apply", "commit"},
           req'[s] = req[s], ~Commit(s)
    PROVE  /\ req[s].op \in TxOps => PostingsOf(s)' = PostingsOf(s)
           /\ req[s].op \in SettleOps => RowOf(holds'[req[s].target]) = RowOf(holds[req[s].target])
           /\ \A x \in Rows : BalanceRow(x) \in locks[s] => account_balances'[x] = account_balances[x]
  <1>s. Shape(s) /\ Protects(s) /\ req[s] \in Inputs
    BY DEF LedgerInvariant, LocksProtect, Shape, Open
  <1>1. CASE UNCHANGED tables
    BY <1>1 DEF tables, PostingsOf
  <1>2. ASSUME NEW r \in Requests, Commit(r)
        PROVE  /\ req[s].op \in TxOps => PostingsOf(s)' = PostingsOf(s)
               /\ req[s].op \in SettleOps =>
                     RowOf(holds'[req[s].target]) = RowOf(holds[req[s].target])
               /\ \A x \in Rows : BalanceRow(x) \in locks[s] =>
                     account_balances'[x] = account_balances[x]
    <2>0. r # s /\ pc[r] = "commit" /\ CommitBalances(r)
      <3>1. r # s
        BY <1>2
      <3> QED
        BY <1>2, <3>1 DEF Commit, CommitCreate, CommitPost, CommitReverse, CommitHold,
                          CommitCapture, CommitRelease
    <2>1. \A x \in Rows : BalanceRow(x) \in locks[s] => account_balances'[x] = account_balances[x]
      BY <2>0, BalancesKept
    <2>2. \A t \in TxIds : transactions'[t].postings = transactions[t].postings
      BY <1>2, CommitAppends DEF AppendsOnly
    <2>3. req[s].op \in {"post", "reverse"} => req[s].target \in TxIds
      BY <1>s, TargetType DEF Protects, TxIds
    <2>4. req[s].op \in TxOps => PostingsOf(s)' = PostingsOf(s)
      BY <2>2, <2>3 DEF PostingsOf, TxOps
    <2>5. req[s].op \in SettleOps => req[s].target \in HoldIds
      BY <1>s, TargetType DEF Protects, HoldIds, SettleOps
    <2>6. \A h \in HoldIds : RowOf(holds'[h]) = RowOf(holds[h])
      <3>1. CASE CommitCreate(r) \/ CommitPost(r) \/ CommitReverse(r)
        BY <3>1 DEF CommitCreate, CommitPost, CommitReverse
      <3>2. CASE CommitHold(r)
        BY <3>2, HoldEffect
      <3>3. CASE CommitCapture(r) \/ CommitRelease(r)
        BY <3>3, SettleEffect
      <3> QED
        BY <1>2, <3>1, <3>2, <3>3 DEF Commit
    <2> QED
      BY <2>1, <2>4, <2>5, <2>6
  <1> QED
    BY <1>1, <1>2, OnlyCommitsWrite

---------------------------------------------------------------------------
(* The versions a request writes add up.                                   *)

DebitOf(p)  == IF p.direction = "DEBIT" THEN p.units ELSE 0
CreditOf(p) == IF p.direction = "CREDIT" THEN p.units ELSE 0

\* One more statement of the loop over the postings adds one more posting.
LEMMA NewVersionAdds ==
    ASSUME NEW r, req[r].op \in TxOps, NEW B \in Balance, NEW D \in Int, NEW C \in Int,
           NEW p \in Posting, NEW c \in Balance \cup {None},
           OrZero(c) = Applied(r, B, D, C), req[r].op = "post" => c # None
    PROVE  NewVersion(r, c, p) = Applied(r, B, D + DebitOf(p), C + CreditOf(p))
  <1> DEFINE dd == DebitOf(p)
             cc == CreditOf(p)
  <1>1. dd \in Int /\ cc \in Int /\ debitCredit(p) = <<dd, cc>>
    BY DEF DebitOf, CreditOf, debitCredit, Posting, Directions
  <1> HIDE DEF dd, cc
  <1>2. CASE req[r].op = "post"
    <2>1. OrZero(c) = c /\ OrZero(c) = AddTo(B, <<D, C>>, <<-D, -C>>)
      BY <1>2 DEF OrZero, Applied
    <2>2. NewVersion(r, c, p) = AddTo(c, <<dd, cc>>, <<-dd, -cc>>)
      BY <1>1, <1>2 DEF NewVersion, movePendingToPosted
    <2>3. AddTo(AddTo(B, <<D, C>>, <<-D, -C>>), <<dd, cc>>, <<-dd, -cc>>)
             = AddTo(B, <<D + dd, C + cc>>, <<-D + -dd, -C + -cc>>)
      BY <1>1 DEF AddTo, Balance
    <2>4. -D + -dd = -(D + dd) /\ -C + -cc = -(C + cc)
      BY <1>1
    <2>5. NewVersion(r, c, p) = AddTo(B, <<D + dd, C + cc>>, <<-(D + dd), -(C + cc)>>)
      BY <2>1, <2>2, <2>3, <2>4
    <2> QED
      BY <1>2, <2>5 DEF Applied, dd, cc
  <1>3. CASE req[r].op = "create" /\ req[r].status = "draft"
    <2>1. OrZero(c) = AddTo(B, <<0, 0>>, <<D, C>>)
      BY <1>3 DEF Applied
    <2>2. NewVersion(r, c, p) = AddTo(OrZero(c), <<0, 0>>, <<dd, cc>>)
      BY <1>1, <1>3 DEF NewVersion, upsertPendingBalance
    <2>3. AddTo(AddTo(B, <<0, 0>>, <<D, C>>), <<0, 0>>, <<dd, cc>>)
             = AddTo(B, <<0 + 0, 0 + 0>>, <<D + dd, C + cc>>)
      BY <1>1 DEF AddTo, Balance
    <2>4. NewVersion(r, c, p) = AddTo(B, <<0, 0>>, <<D + dd, C + cc>>)
      BY <2>1, <2>2, <2>3
    <2> QED
      BY <1>3, <2>4 DEF Applied, dd, cc
  <1>4. CASE req[r].op # "post" /\ ~(req[r].op = "create" /\ req[r].status = "draft")
    <2>1. OrZero(c) = AddTo(B, <<D, C>>, <<0, 0>>)
      BY <1>4 DEF Applied
    <2>2. NewVersion(r, c, p) = AddTo(OrZero(c), <<dd, cc>>, <<0, 0>>)
      BY <1>1, <1>4 DEF NewVersion, upsertPostedBalance
    <2>3. AddTo(AddTo(B, <<D, C>>, <<0, 0>>), <<dd, cc>>, <<0, 0>>)
             = AddTo(B, <<D + dd, C + cc>>, <<0 + 0, 0 + 0>>)
      BY <1>1 DEF AddTo, Balance
    <2>4. NewVersion(r, c, p) = AddTo(B, <<D + dd, C + cc>>, <<0, 0>>)
      BY <2>1, <2>2, <2>3
    <2> QED
      BY <1>4, <2>4 DEF Applied, dd, cc
  <1> QED
    BY <1>2, <1>3, <1>4

\* Nothing applied yet
LEMMA AppliedNothing ==
    ASSUME NEW r, NEW B \in Balance
    PROVE  Applied(r, B, 0, 0) = B
  <1>1. AddTo(B, <<0, 0>>, <<-0, -0>>) = B /\ AddTo(B, <<0, 0>>, <<0, 0>>) = B
    BY AddNothing
  <1> QED
    BY <1>1 DEF Applied

\* ApplyBalance keeps the versions adding up: the row of the next posting, locked
\* before or only now, gets its units, and the other rows nothing.
LEMMA ApplyAddsUp ==
    ASSUME LedgerInvariant, VersionsAddUp, NEW r \in Requests, ApplyBalance(r), pc'[r] # "done",
           NEW y \in Rows, BalanceRow(y) \in locks'[r]
    PROVE  /\ PostingsOf(r)' = PostingsOf(r) /\ idx'[r] = idx[r] + 1
           /\ uncommitted'[r][y] = Applied(r, OrZero(account_balances[y]),
                                           SumUpTo(PostingsOf(r), idx[r] + 1, y, "DEBIT"),
                                           SumUpTo(PostingsOf(r), idx[r] + 1, y, "CREDIT"))
  <1> DEFINE ps   == PostingsOf(r)
             n    == idx[r]
             p    == ps[n + 1]
             x    == RowOf(p)
             c    == Current(r, x)
             b    == NewVersion(r, c, p)
             step == IF n + 1 = Len(ps) THEN "commit" ELSE "apply"
             D(z) == SumUpTo(ps, n, z, "DEBIT")
             C(z) == SumUpTo(ps, n, z, "CREDIT")
             B(z) == OrZero(account_balances[z])
  <1>0. pc[r] = "apply" /\ req[r].op \in TxOps
    BY DEF ApplyBalance, TxOps
  <1>s. TypeOK /\ Shape(r) /\ Protects(r) /\ Versions(r)
    BY DEF LedgerInvariant, LocksProtect
  <1>1. /\ Advance(r, step, {BalanceRow(x)})
        /\ uncommitted' = [uncommitted EXCEPT ![r][x] = b]
        /\ idx' = [idx EXCEPT ![r] = @ + 1]
        /\ UNCHANGED <<req, resp>>
    <2>1. ~Fail(r, "error")
      BY <1>s DEF Fail, Answer, TypeOK
    <2> QED
      BY <2>1 DEF ApplyBalance
  <1>p. /\ ps \in Seq(Posting) /\ n \in Nat /\ n < Len(ps)
        /\ p \in Posting /\ x \in Rows
        /\ req[r].op = "post" => account_balances[x] # None
    <2>1. n \in Nat /\ n < Len(ps) /\ ps \in Seq(Posting)
      BY <1>0, <1>s, PostingsType DEF LedgerInvariant, TypeOK, Versions
    <2>2. n + 1 \in 1..Len(ps)
      BY <2>1
    <2> HIDE DEF ps
    <2>3. p \in Posting
      BY <2>1, <2>2
    <2>4. x \in Rows /\ (req[r].op = "post" => account_balances[x] # None)
      BY <1>0, <2>2, PostingsType DEF ps
    <2> QED
      BY <2>1, <2>3, <2>4
  <1>2. /\ locks'[r] = locks[r] \cup {BalanceRow(x)} /\ req' = req
        /\ idx'[r] = n + 1
        /\ uncommitted'[r][x] = b
        /\ y # x => uncommitted'[r][y] = uncommitted[r][y]
        /\ transactions' = transactions
    BY <1>1, <1>p, <1>s DEF TypeOK, Advance, tables
  <1>3. PostingsOf(r)' = ps
    BY <1>2 DEF PostingsOf
  <1>4. ASSUME NEW z \in Rows
        PROVE  /\ BalanceRow(z) \in locks[r] => uncommitted[r][z] = Applied(r, B(z), D(z), C(z))
               /\ BalanceRow(z) \in locks[r] => uncommitted[r][z] # None
               /\ BalanceRow(z) \notin locks[r] => D(z) = 0 /\ C(z) = 0
               /\ B(z) \in Balance /\ D(z) \in Int /\ C(z) \in Int
    <2>1. BalanceRow(z) \in locks[r] => uncommitted[r][z] = Applied(r, B(z), D(z), C(z))
      BY <1>0 DEF VersionsAddUp
    <2>2. BalanceRow(z) \in locks[r] => uncommitted[r][z] # None
      BY <1>0, <1>s DEF Versions
    <2>3. ASSUME BalanceRow(z) \notin locks[r]
          PROVE  D(z) = 0 /\ C(z) = 0
      <3>1. \A i \in 1..Len(ps) : i <= n => BalanceRow(RowOf(ps[i])) \in locks[r]
        BY <1>0, <1>s DEF Versions
      <3> HIDE DEF ps, n
      <3>2. \A i \in 1..n : RowOf(ps[i]) # z
        BY <1>p, <2>3, <3>1
      <3> QED
        BY <1>p, <3>2, SumUpToElsewhere
    <2>4. B(z) \in Balance
      BY <1>s DEF TypeOK, OrZero, ZeroBalance, Balance
    <2>5. D(z) \in Int /\ C(z) \in Int
      <3> HIDE DEF ps, n
      <3> QED
        BY <1>p, SumUpToInt
    <2> QED
      BY <2>1, <2>2, <2>3, <2>4, <2>5
  <1>5. ASSUME NEW z
        PROVE  /\ SumUpTo(ps, n + 1, z, "DEBIT") = D(z) + (IF x = z THEN DebitOf(p) ELSE 0)
               /\ SumUpTo(ps, n + 1, z, "CREDIT") = C(z) + (IF x = z THEN CreditOf(p) ELSE 0)
    <2>1. /\ SumUpTo(ps, n + 1, z, "DEBIT") = D(z)
                + (IF x = z /\ p.direction = "DEBIT" THEN p.units ELSE 0)
          /\ SumUpTo(ps, n + 1, z, "CREDIT") = C(z)
                + (IF x = z /\ p.direction = "CREDIT" THEN p.units ELSE 0)
      <3> HIDE DEF ps, n
      <3> QED
        BY <1>p, SumUpToNext
    <2> QED
      BY <2>1 DEF DebitOf, CreditOf
  <1>6. CASE y = x
    <2>1. c \in Balance \cup {None} /\ (req[r].op = "post" => c # None)
      BY <1>p, <1>4, <1>s DEF Current, TypeOK
    <2>2. OrZero(c) = Applied(r, B(x), D(x), C(x))
      <3>1. CASE BalanceRow(x) \in locks[r]
        <4>1. c = Applied(r, B(x), D(x), C(x)) /\ c # None
          BY <1>p, <1>4, <3>1 DEF Current
        <4> QED
          BY <4>1 DEF OrZero
      <3>2. CASE BalanceRow(x) \notin locks[r]
        <4>1. OrZero(c) = B(x) /\ D(x) = 0 /\ C(x) = 0 /\ B(x) \in Balance
          BY <1>p, <1>4, <3>2 DEF Current
        <4> HIDE DEF B, D, C, c
        <4>2. Applied(r, B(x), 0, 0) = B(x)
          BY <4>1, AppliedNothing
        <4> QED
          BY <4>1, <4>2
      <3> QED
        BY <3>1, <3>2
    <2>3. b = Applied(r, B(x), D(x) + DebitOf(p), C(x) + CreditOf(p))
      <3>1. B(x) \in Balance /\ D(x) \in Int /\ C(x) \in Int
        BY <1>p, <1>4
      <3> HIDE DEF B, D, C, c, p
      <3> QED
        BY <1>0, <1>p, <2>1, <2>2, <3>1, NewVersionAdds
    <2>4. uncommitted'[r][y] = Applied(r, B(y), SumUpTo(ps, n + 1, y, "DEBIT"),
                                                SumUpTo(ps, n + 1, y, "CREDIT"))
      <3> HIDE DEF B, D, C, b, p, ps
      <3> QED
        BY <1>2, <1>5, <1>6, <2>3
    <2> QED
      BY <1>2, <1>3, <2>4
  <1>7. CASE y # x
    <2>1. BalanceRow(y) \in locks[r]
      BY <1>2, <1>7 DEF BalanceRow
    <2>2. uncommitted'[r][y] = Applied(r, B(y), D(y), C(y)) /\ D(y) \in Int /\ C(y) \in Int
      BY <1>2, <1>4, <1>7, <2>1
    <2>3. D(y) + 0 = D(y) /\ C(y) + 0 = C(y)
      <3> HIDE DEF D, C
      <3> QED
        BY <2>2
    <2>4. uncommitted'[r][y] = Applied(r, B(y), SumUpTo(ps, n + 1, y, "DEBIT"),
                                                SumUpTo(ps, n + 1, y, "CREDIT"))
      <3> HIDE DEF B, D, C, p, ps, x
      <3> QED
        BY <1>5, <1>7, <2>2, <2>3
    <2> QED
      BY <1>2, <1>3, <2>4
  <1> QED
    BY <1>6, <1>7

\* What VersionsAddUp says of one request
AddsUp(r) ==
    /\ pc[r] \in {"apply", "commit"} /\ req[r].op \in TxOps =>
          \A x \in Rows : BalanceRow(x) \in locks[r] =>
              uncommitted[r][x] = Applied(r, OrZero(account_balances[x]),
                                          SumUpTo(PostingsOf(r), idx[r], x, "DEBIT"),
                                          SumUpTo(PostingsOf(r), idx[r], x, "CREDIT"))
    /\ pc[r] = "commit" /\ req[r].op \in SettleOps =>
          BalanceRow(RowOf(holds[req[r].target])) \in locks[r]

\* A request that stands still keeps its versions adding up while others run.
LEMMA AddsUpFrame ==
    ASSUME LedgerInvariant, [Next]_vars, NEW s \in Requests, SameControl(s), ~Commit(s), AddsUp(s)
    PROVE  AddsUp(s)'
  <1>1. CASE pc[s] \notin {"apply", "commit"}
    BY <1>1 DEF AddsUp, SameControl
  <1>2. CASE pc[s] \in {"apply", "commit"}
    <2>1. /\ req[s].op \in TxOps => PostingsOf(s)' = PostingsOf(s)
          /\ req[s].op \in SettleOps => RowOf(holds'[req[s].target]) = RowOf(holds[req[s].target])
          /\ \A x \in Rows : BalanceRow(x) \in locks[s] => account_balances'[x] = account_balances[x]
      BY <1>2, LockedStay DEF SameControl
    <2>3. ASSUME req[s].op \in TxOps, NEW x \in Rows, BalanceRow(x) \in locks[s]
          PROVE  (uncommitted[s][x] = Applied(s, OrZero(account_balances[x]),
                                              SumUpTo(PostingsOf(s), idx[s], x, "DEBIT"),
                                              SumUpTo(PostingsOf(s), idx[s], x, "CREDIT")))'
      <3>1. uncommitted[s][x] = Applied(s, OrZero(account_balances[x]),
                                        SumUpTo(PostingsOf(s), idx[s], x, "DEBIT"),
                                        SumUpTo(PostingsOf(s), idx[s], x, "CREDIT"))
        BY <1>2, <2>3 DEF AddsUp
      <3>2. /\ account_balances'[x] = account_balances[x] /\ PostingsOf(s)' = PostingsOf(s)
            /\ idx'[s] = idx[s] /\ req'[s] = req[s] /\ uncommitted'[s] = uncommitted[s]
        BY <2>1, <2>3 DEF SameControl
      <3>3. OrZero(account_balances[x])' = OrZero(account_balances[x])
        BY <3>2 DEF OrZero
      <3>4. /\ SumUpTo(PostingsOf(s), idx[s], x, "DEBIT")' = SumUpTo(PostingsOf(s), idx[s], x, "DEBIT")
            /\ SumUpTo(PostingsOf(s), idx[s], x, "CREDIT")' = SumUpTo(PostingsOf(s), idx[s], x, "CREDIT")
        BY <3>2 DEF SumUpTo
      <3> QED
        BY <3>1, <3>2, <3>3, <3>4 DEF Applied
    <2>4. BalanceRow(RowOf(holds[req[s].target]))' = BalanceRow(RowOf(holds'[req'[s].target]))
      BY DEF BalanceRow, RowOf
    <2> QED
      BY <2>1, <2>3, <2>4 DEF AddsUp, SameControl
  <1> QED
    BY <1>1, <1>2

\* Receiving or refusing a request leaves the others' own state alone.
LEMMA ReceiveIsPrivate ==
    ASSUME LedgerInvariant, NEW r \in Requests, NEW in \in Inputs, Receive(r, in) \/ Reject(r, in)
    PROVE  /\ pc[r] = "idle" /\ pc'[r] \in {"lookup", "lock", "done"}
           /\ UNCHANGED tables
           /\ \A s \in Requests \ {r} : SameControl(s) /\ resp'[s] = resp[s]
  BY DEF LedgerInvariant, TypeOK, Receive, Reject, SameControl

\* A commit ends its request.
LEMMA CommitEnds ==
    ASSUME LedgerInvariant, NEW r \in Requests, Commit(r)
    PROVE  pc[r] = "commit" /\ pc'[r] = "done" /\ CommitBalances(r)
  <1>1. /\ pc[r] = "commit" /\ CommitBalances(r)
        /\ \E code, id, status : Answer(r, code, id, status)
    BY DEF Commit, CommitCreate, CommitPost, CommitReverse, CommitHold, CommitCapture, CommitRelease
  <1> QED
    BY <1>1 DEF Answer, LedgerInvariant, TypeOK

\* Every step keeps the version a request computed the sum of the row it read and its
\* postings (applyPostings, capture and release included).
LEMMA VersionsKeepAddingUp ==
    ASSUME LedgerInvariant, VersionsAddUp, [Next]_vars
    PROVE  VersionsAddUp'
  <1>a. \A s \in Requests : AddsUp(s)
    BY DEF VersionsAddUp, AddsUp
  <1>g. SUFFICES \A s \in Requests : AddsUp(s)'
    BY DEF VersionsAddUp, AddsUp
  <1>1. ASSUME NEW r \in Requests, NEW in \in Inputs, Receive(r, in) \/ Reject(r, in)
        PROVE  \A s \in Requests : AddsUp(s)'
    <2>0. \A s \in Requests : pc'[s] # "done" \/ pc[s] # "commit" \/ s = r
      BY <1>1, ReceiveIsPrivate DEF SameControl
    <2>1. AddsUp(r)'
      BY <1>1, ReceiveIsPrivate DEF AddsUp
    <2>2. ASSUME NEW s \in Requests \ {r}
          PROVE  AddsUp(s)'
      BY <1>1, <1>a, <2>0, ReceiveIsPrivate, CommitEnds, AddsUpFrame
    <2> QED
      BY <2>1, <2>2
  <1>2. ASSUME NEW r \in Requests, Step(r) \/ Fault(r)
        PROVE  \A s \in Requests : AddsUp(s)'
    <2>1. ASSUME NEW s \in Requests \ {r}
          PROVE  AddsUp(s)'
      <3>1. SameControl(s)
        BY <1>2, OthersKept
      <3>2. ~Commit(s)
        BY <3>1, CommitEnds DEF SameControl
      <3> QED
        BY <1>a, <3>1, <3>2, AddsUpFrame
    <2>2. AddsUp(r)'
      <3>0. req' = req
        BY <1>2, OthersKept
      <3>1. CASE pc'[r] \notin {"apply", "commit"}
        BY <3>1 DEF AddsUp
      <3>2. CASE pc'[r] \in {"apply", "commit"}
        <4>1. CASE req[r].op \in TxOps /\ ApplyBalance(r)
          <5>1. account_balances' = account_balances
            <6>1. UNCHANGED tables
              BY <4>1 DEF ApplyBalance, Fail, Advance
            <6> QED
              BY <6>1 DEF tables
          <5>2. ASSUME NEW y \in Rows, BalanceRow(y) \in locks'[r]
                PROVE  uncommitted'[r][y] =
                          Applied(r, OrZero(account_balances[y]),
                                  SumUpTo(PostingsOf(r), idx[r], y, "DEBIT"),
                                  SumUpTo(PostingsOf(r), idx[r], y, "CREDIT"))'
            <6>1. /\ PostingsOf(r)' = PostingsOf(r) /\ idx'[r] = idx[r] + 1
                  /\ uncommitted'[r][y] =
                        Applied(r, OrZero(account_balances[y]),
                                SumUpTo(PostingsOf(r), idx[r] + 1, y, "DEBIT"),
                                SumUpTo(PostingsOf(r), idx[r] + 1, y, "CREDIT"))
              BY <3>2, <4>1, <5>2, ApplyAddsUp
            <6>2. OrZero(account_balances[y])' = OrZero(account_balances[y])
              BY <5>1 DEF OrZero
            <6>3. /\ SumUpTo(PostingsOf(r), idx[r], y, "DEBIT")'
                        = SumUpTo(PostingsOf(r), idx[r] + 1, y, "DEBIT")
                  /\ SumUpTo(PostingsOf(r), idx[r], y, "CREDIT")'
                        = SumUpTo(PostingsOf(r), idx[r] + 1, y, "CREDIT")
              BY <6>1 DEF SumUpTo
            <6> QED
              BY <3>0, <6>1, <6>2, <6>3 DEF Applied
          <5>3. \A y \in Rows : BalanceRow(y)' = BalanceRow(y)
            BY DEF BalanceRow
          <5> QED
            BY <3>0, <4>1, <5>2, <5>3 DEF AddsUp, TxOps, SettleOps
        <4>2. CASE req[r].op \in TxOps /\ \A x \in Rows : BalanceRow(x) \notin locks'[r]
          BY <3>0, <4>2 DEF AddsUp, TxOps, SettleOps, BalanceRow
        <4>3. CASE req[r].op = "hold" \/ (req[r].op \in SettleOps /\ pc'[r] = "apply")
          BY <3>0, <4>3 DEF AddsUp, TxOps, SettleOps
        <4>4. CASE ReleaseHeld(r)
          <5>1. /\ req[r].op \in SettleOps /\ holds' = holds
                /\ BalanceRow(RowOf(holds[req[r].target])) \in locks'[r]
            <6>1. /\ req[r].op \in SettleOps
                  /\ Advance(r, "commit", {BalanceRow(RowOf(holds[req[r].target]))})
              BY <4>4 DEF ReleaseHeld, SettleOps
            <6> QED
              BY <6>1 DEF Advance, tables, LedgerInvariant, TypeOK
          <5> QED
            BY <3>0, <5>1 DEF AddsUp, TxOps, SettleOps, BalanceRow, RowOf
        <4> QED
          BY <1>2, <3>2, <4>1, <4>2, <4>3, <4>4, WaysIn
      <3> QED
        BY <3>1, <3>2
    <2> QED
      BY <2>1, <2>2
  <1>3. CASE Finished \/ UNCHANGED vars
    <2>1. \A s \in Requests : SameControl(s)
      BY <1>3 DEF Finished, vars, SameControl
    <2>2. \A s \in Requests : ~Commit(s)
      BY <2>1, CommitEnds DEF SameControl
    <2> QED
      BY <1>a, <2>1, <2>2, AddsUpFrame
  <1> QED
    BY <1>1, <1>2, <1>3 DEF Next

---------------------------------------------------------------------------
(* The sums over the tables.                                               *)

\* The postings of the transactions of T in the table tr, on one row and side
Total(tr, T, x, d) ==
    SumFunctionOnSet([t \in T |-> SumUpTo(tr[t].postings, Len(tr[t].postings), x, d)], T)

\* The model's sum over the postings table is Total of the table as it stands.
LEMMA SumPostingsIsTotal ==
    \A T, x, d : SumPostings(T, x, d) = Total(transactions, T, x, d)
  BY DEF SumPostings, SumFunction, Total

\* A total reads the postings of a table and nothing else of it.
LEMMA TotalSame ==
    ASSUME NEW tr, NEW new, NEW T, \A t \in T : new[t].postings = tr[t].postings, NEW x, NEW d
    PROVE  Total(new, T, x, d) = Total(tr, T, x, d)
  <1>1. [t \in T |-> SumUpTo(new[t].postings, Len(new[t].postings), x, d)]
           = [t \in T |-> SumUpTo(tr[t].postings, Len(tr[t].postings), x, d)]
    OBVIOUS
  <1> QED
    BY <1>1 DEF Total

\* A total over finitely many transactions is an integer.
LEMMA TotalInt ==
    ASSUME NEW tr, NEW T, IsFiniteSet(T), \A t \in T : tr[t].postings \in Seq(Posting),
           NEW x, NEW d
    PROVE  Total(tr, T, x, d) \in Int
  <1> DEFINE f == [t \in T |-> SumUpTo(tr[t].postings, Len(tr[t].postings), x, d)]
  <1>1. ASSUME NEW t \in T
        PROVE  f[t] \in Int
    <2>1. /\ Len(tr[t].postings) \in Nat /\ Len(tr[t].postings) <= Len(tr[t].postings)
          /\ tr[t].postings \in Seq(Posting)
      OBVIOUS
    <2> QED
      BY <2>1, SumUpToInt
  <1> HIDE DEF f
  <1>2. SumFunctionOnSet(f, T) \in Int
    BY <1>1, SumInt
  <1> QED
    BY <1>2 DEF Total, f

\* One more transaction adds its postings.
LEMMA TotalAdd ==
    ASSUME NEW tr, NEW new, NEW T, IsFiniteSet(T), NEW r, r \notin T,
           \A t \in T : tr[t].postings \in Seq(Posting) /\ new[t].postings = tr[t].postings,
           new[r].postings \in Seq(Posting), NEW x, NEW d
    PROVE  Total(new, T \cup {r}, x, d)
              = Total(tr, T, x, d) + SumUpTo(new[r].postings, Len(new[r].postings), x, d)
  <1> DEFINE g == [t \in T \cup {r} |-> SumUpTo(new[t].postings, Len(new[t].postings), x, d)]
             f == [t \in T |-> SumUpTo(tr[t].postings, Len(tr[t].postings), x, d)]
             u == SumUpTo(new[r].postings, Len(new[r].postings), x, d)
  <1>1. ASSUME NEW t \in T \cup {r}
        PROVE  g[t] \in Int
    <2>1. /\ Len(new[t].postings) \in Nat /\ Len(new[t].postings) <= Len(new[t].postings)
          /\ new[t].postings \in Seq(Posting)
      OBVIOUS
    <2> QED
      BY <2>1, SumUpToInt
  <1>2. \A t \in T : g[t] = f[t]
    OBVIOUS
  <1>3. g[r] = u
    OBVIOUS
  <1>t. Total(tr, T, x, d) \in Int
    BY TotalInt
  <1>e. Total(tr, T, x, d) = SumFunctionOnSet(f, T)
        /\ Total(new, T \cup {r}, x, d) = SumFunctionOnSet(g, T \cup {r})
    BY DEF Total
  <1> HIDE DEF f, g, u
  <1>4. SumFunctionOnSet(g, T \cup {r}) = g[r] + SumFunctionOnSet(g, T)
    BY <1>1, SumAdd
  <1>5. SumFunctionOnSet(g, T) = SumFunctionOnSet(f, T)
    BY <1>2, SumAgrees
  <1>6. u \in Int
    BY <1>1, <1>3
  <1> DEFINE a == Total(tr, T, x, d)
  <1>7. Total(new, T \cup {r}, x, d) = u + a
    BY <1>3, <1>4, <1>5, <1>e
  <1>8. a \in Int
    BY <1>t
  <1> HIDE DEF a
  <1>9. u + a = a + u
    BY <1>6, <1>8
  <1> QED
    BY <1>7, <1>9 DEF a, u

\* The rows a transaction request commits: the committed ones with all its postings.
LEMMA CommittedBalances ==
    ASSUME LedgerInvariant, VersionsAddUp, NEW r \in Requests, pc[r] = "commit",
           req[r].op \in TxOps, CommitBalances(r), NEW x \in Rows
    PROVE  LET ps == PostingsOf(r) IN
           /\ OrZero(account_balances'[x]) = Applied(r, OrZero(account_balances[x]),
                                                     SumUpTo(ps, Len(ps), x, "DEBIT"),
                                                     SumUpTo(ps, Len(ps), x, "CREDIT"))
           /\ OrZero(account_balances[x]) \in Balance
           /\ SumUpTo(ps, Len(ps), x, "DEBIT") \in Int
           /\ SumUpTo(ps, Len(ps), x, "CREDIT") \in Int
  <1> DEFINE ps == PostingsOf(r)
             B  == OrZero(account_balances[x])
             D  == SumUpTo(ps, Len(ps), x, "DEBIT")
             C  == SumUpTo(ps, Len(ps), x, "CREDIT")
  <1>s. TypeOK /\ Versions(r)
    BY DEF LedgerInvariant, LocksProtect
  <1>p. ps \in Seq(Posting) /\ idx[r] = Len(ps) /\ Len(ps) \in Nat
    BY <1>s, PostingsType DEF Versions
  <1>b. B \in Balance
    BY <1>s DEF TypeOK, OrZero, ZeroBalance, Balance
  <1>i. D \in Int /\ C \in Int
    <2> HIDE DEF ps
    <2> QED
      BY <1>p, SumUpToInt
  <1>1. account_balances'[x] = Current(r, x)
    BY DEF CommitBalances
  <1>2. CASE BalanceRow(x) \in locks[r]
    <2>1. /\ uncommitted[r][x] # None
          /\ account_balances'[x] = uncommitted[r][x]
      BY <1>1, <1>2, <1>s DEF Versions, Current
    <2>2. uncommitted[r][x] = Applied(r, B, SumUpTo(ps, idx[r], x, "DEBIT"),
                                            SumUpTo(ps, idx[r], x, "CREDIT"))
      BY <1>2 DEF VersionsAddUp
    <2>3. OrZero(account_balances'[x]) = uncommitted[r][x]
      BY <2>1 DEF OrZero
    <2> HIDE DEF B, ps
    <2> QED
      BY <1>p, <1>b, <1>i, <2>2, <2>3 DEF B, ps
  <1>3. CASE BalanceRow(x) \notin locks[r]
    <2>1. OrZero(account_balances'[x]) = B
      BY <1>1, <1>3 DEF Current
    <2>2. \A i \in 1..Len(ps) : RowOf(ps[i]) # x
      BY <1>3, <1>s, <1>p DEF Versions
    <2>3. D = 0 /\ C = 0
      <3> HIDE DEF ps
      <3> QED
        BY <1>p, <2>2, SumUpToElsewhere
    <2>4. Applied(r, B, 0, 0) = B
      <3> HIDE DEF B
      <3> QED
        BY <1>b, AppliedNothing
    <2> HIDE DEF B, D, C
    <2> QED
      BY <1>b, <1>i, <2>1, <2>3, <2>4 DEF B, D, C
  <1> QED
    BY <1>2, <1>3

FirmIds == {t \in TxIds : Firm(t)}
DraftIds == TxIds \ FirmIds

\* What BalancesMatchPostings says of one row
Matches(x) ==
    LET b == OrZero(account_balances[x]) IN
    /\ b.posted_debits = Total(transactions, FirmIds, x, "DEBIT")
    /\ b.posted_credits = Total(transactions, FirmIds, x, "CREDIT")
    /\ b.pending_debits = Total(transactions, DraftIds, x, "DEBIT")
    /\ b.pending_credits = Total(transactions, DraftIds, x, "CREDIT")

\* The invariant on the balances is Matches on every row of account_balances.
LEMMA MatchesAll == BalancesMatchPostings <=> \A x \in Rows : Matches(x)
  BY SumPostingsIsTotal DEF BalancesMatchPostings, Matches, FirmIds, DraftIds

\* The totals of a row with debits and credits added
LEMMA AddToFields ==
    ASSUME NEW b \in Balance, NEW p1 \in Int, NEW p2 \in Int, NEW q1 \in Int, NEW q2 \in Int
    PROVE  LET c == AddTo(b, <<p1, p2>>, <<q1, q2>>) IN
           /\ c.posted_debits = b.posted_debits + p1
           /\ c.posted_credits = b.posted_credits + p2
           /\ c.pending_debits = b.pending_debits + q1
           /\ c.pending_credits = b.pending_credits + q2
           /\ c.held = b.held
           /\ \A f \in {b.posted_debits, b.posted_credits, b.pending_debits, b.pending_credits} :
                 f \in Int /\ f + 0 = f
  BY DEF AddTo, Balance

\* A commit that makes r's transaction firm, or a draft, and nothing else
LEMMA NewRowMatches ==
    ASSUME LedgerInvariant, VersionsAddUp, IsFiniteSet(TxIds), NEW r \in Requests,
           Commit(r), req[r].op \in {"create", "reverse"},
           NEW x \in Rows, Matches(x),
           r \notin TxIds,
           transactions'[r].postings = PostingsOf(r),
           \A t \in TxIds : transactions'[t].postings = transactions[t].postings,
           \/ /\ ~(req[r].op = "create" /\ req[r].status = "draft")
              /\ FirmIds' = FirmIds \cup {r} /\ DraftIds' = DraftIds
           \/ /\ req[r].op = "create" /\ req[r].status = "draft"
              /\ FirmIds' = FirmIds /\ DraftIds' = DraftIds \cup {r}
    PROVE  Matches(x)'
  <1> DEFINE ps == PostingsOf(r)
             B  == OrZero(account_balances[x])
             Bn == OrZero(account_balances'[x])
             D  == SumUpTo(ps, Len(ps), x, "DEBIT")
             C  == SumUpTo(ps, Len(ps), x, "CREDIT")
  <1>c. pc[r] = "commit" /\ CommitBalances(r) /\ req[r].op \in TxOps /\ req[r].op # "post"
    BY CommitEnds DEF TxOps
  <1>p. ps \in Seq(Posting)
    BY <1>c, PostingsType
  <1>b. Bn = Applied(r, B, D, C) /\ B \in Balance /\ D \in Int /\ C \in Int
    BY <1>c, CommittedBalances
  <1>f. /\ FirmIds \subseteq TxIds /\ DraftIds \subseteq TxIds
        /\ IsFiniteSet(FirmIds) /\ IsFiniteSet(DraftIds)
        /\ r \notin FirmIds /\ r \notin DraftIds
    BY FS_Subset DEF FirmIds, DraftIds
  <1>s. \A t \in TxIds : transactions[t].postings \in Seq(Posting)
    BY <1>c, RowsKept
  <1>1. ASSUME NEW T \in SUBSET TxIds, IsFiniteSet(T)
        PROVE  /\ Total(transactions', T, x, "DEBIT") = Total(transactions, T, x, "DEBIT")
               /\ Total(transactions', T, x, "CREDIT") = Total(transactions, T, x, "CREDIT")
               /\ Total(transactions', T \cup {r}, x, "DEBIT")
                     = Total(transactions, T, x, "DEBIT") + D
               /\ Total(transactions', T \cup {r}, x, "CREDIT")
                     = Total(transactions, T, x, "CREDIT") + C
    <2>1. r \notin T /\ transactions'[r].postings = ps /\ ps \in Seq(Posting)
      BY <1>p
    <2>2. \A t \in T : /\ transactions[t].postings \in Seq(Posting)
                       /\ transactions'[t].postings = transactions[t].postings
      BY <1>s
    <2> HIDE DEF ps
    <2> QED
      BY <1>1, <2>1, <2>2, TotalSame, TotalAdd
  <1>m. /\ B.posted_debits = Total(transactions, FirmIds, x, "DEBIT")
        /\ B.posted_credits = Total(transactions, FirmIds, x, "CREDIT")
        /\ B.pending_debits = Total(transactions, DraftIds, x, "DEBIT")
        /\ B.pending_credits = Total(transactions, DraftIds, x, "CREDIT")
    BY DEF Matches
  <1>n. OrZero(account_balances[x])' = Bn
    BY DEF OrZero
  <1> HIDE DEF B, Bn, D, C
  <1>2. CASE /\ ~(req[r].op = "create" /\ req[r].status = "draft")
             /\ FirmIds' = FirmIds \cup {r} /\ DraftIds' = DraftIds
    <2>1. Bn = AddTo(B, <<D, C>>, <<0, 0>>)
      BY <1>b, <1>c, <1>2 DEF Applied
    <2>2. /\ Bn.posted_debits = B.posted_debits + D
          /\ Bn.posted_credits = B.posted_credits + C
          /\ Bn.pending_debits = B.pending_debits
          /\ Bn.pending_credits = B.pending_credits
      BY <1>b, <2>1, AddToFields
    <2> QED
      BY <1>1, <1>2, <1>f, <1>m, <1>n, <2>2 DEF Matches
  <1>3. CASE /\ req[r].op = "create" /\ req[r].status = "draft"
             /\ FirmIds' = FirmIds /\ DraftIds' = DraftIds \cup {r}
    <2>1. Bn = AddTo(B, <<0, 0>>, <<D, C>>)
      BY <1>b, <1>3 DEF Applied
    <2>2. /\ Bn.posted_debits = B.posted_debits
          /\ Bn.posted_credits = B.posted_credits
          /\ Bn.pending_debits = B.pending_debits + D
          /\ Bn.pending_credits = B.pending_credits + C
      BY <1>b, <2>1, AddToFields
    <2> QED
      BY <1>1, <1>3, <1>f, <1>m, <1>n, <2>2 DEF Matches
  <1> QED
    BY <1>2, <1>3

\* Posting a draft moves its postings from the pending to the posted totals.
LEMMA PostMatches ==
    ASSUME LedgerInvariant, VersionsAddUp, IsFiniteSet(TxIds), NEW r \in Requests,
           CommitPost(r), NEW x \in Rows, Matches(x)
    PROVE  Matches(x)'
  <1> DEFINE t  == req[r].target
             ps == PostingsOf(r)
             B  == OrZero(account_balances[x])
             Bn == OrZero(account_balances'[x])
             D  == SumUpTo(ps, Len(ps), x, "DEBIT")
             C  == SumUpTo(ps, Len(ps), x, "CREDIT")
             R  == DraftIds \ {t}
  <1>c. pc[r] = "commit" /\ CommitBalances(r) /\ req[r].op = "post"
    BY DEF CommitPost
  <1>e. /\ t \in TxIds /\ ps = transactions[t].postings
        /\ TxIds' = TxIds
        /\ \A u \in TxIds \ {t} : transactions'[u] = transactions[u]
        /\ transactions[t].status = "draft"
        /\ transactions'[t].status = "posted"
        /\ transactions'[t].postings = transactions[t].postings
    BY PostEffect
  <1>b. Bn = Applied(r, B, D, C) /\ B \in Balance /\ D \in Int /\ C \in Int
    BY <1>c, CommittedBalances DEF TxOps
  <1>s. \A u \in TxIds : transactions[u].postings \in Seq(Posting)
    BY <1>c, RowsKept
  <1>1. /\ FirmIds' = FirmIds \cup {t}
        /\ DraftIds' = R
        /\ DraftIds = R \cup {t}
        /\ t \notin FirmIds /\ t \notin R
    <2> HIDE DEF t
    <2>1. FirmIds' = {u \in TxIds : transactions'[u].status \in {"posted", "reversed"}}
      BY <1>e DEF FirmIds, Firm
    <2>2. FirmIds = {u \in TxIds : transactions[u].status \in {"posted", "reversed"}}
      BY DEF FirmIds, Firm
    <2>3. FirmIds' = FirmIds \cup {t} /\ t \notin FirmIds
      BY <1>e, <2>1, <2>2
    <2>4. DraftIds' = TxIds \ FirmIds' /\ DraftIds = TxIds \ FirmIds
      BY <1>e DEF DraftIds
    <2> QED
      BY <1>e, <2>3, <2>4
  <1>f. /\ FirmIds \subseteq TxIds /\ R \subseteq TxIds
        /\ IsFiniteSet(FirmIds) /\ IsFiniteSet(R)
    BY FS_Subset DEF FirmIds, DraftIds
  <1> HIDE DEF t, R
  <1>2. ASSUME NEW T \in SUBSET TxIds, IsFiniteSet(T), t \notin T, NEW d
        PROVE  /\ Total(transactions', T, x, d) = Total(transactions, T, x, d)
               /\ Total(transactions, T, x, d) \in Int
               /\ Total(transactions', T \cup {t}, x, d)
                     = Total(transactions, T, x, d) + SumUpTo(ps, Len(ps), x, d)
               /\ Total(transactions, T \cup {t}, x, d)
                     = Total(transactions, T, x, d) + SumUpTo(ps, Len(ps), x, d)
    <2>1. /\ transactions'[t].postings = ps /\ transactions[t].postings = ps
          /\ ps \in Seq(Posting)
      BY <1>e, <1>s
    <2>2. \A u \in T : /\ transactions[u].postings \in Seq(Posting)
                       /\ transactions'[u].postings = transactions[u].postings
      BY <1>e, <1>s, <1>2
    <2> HIDE DEF ps
    <2>3. Total(transactions', T, x, d) = Total(transactions, T, x, d)
      BY <2>2, TotalSame
    <2>4. Total(transactions, T, x, d) \in Int
      BY <1>2, <2>2, TotalInt
    <2>5. Total(transactions', T \cup {t}, x, d)
             = Total(transactions, T, x, d) + SumUpTo(ps, Len(ps), x, d)
      BY <1>2, <2>1, <2>2, TotalAdd
    <2>6. Total(transactions, T \cup {t}, x, d)
             = Total(transactions, T, x, d) + SumUpTo(ps, Len(ps), x, d)
      BY <1>2, <2>1, <2>2, TotalAdd
    <2> QED
      BY <2>3, <2>4, <2>5, <2>6
  <1>m. /\ B.posted_debits = Total(transactions, FirmIds, x, "DEBIT")
        /\ B.posted_credits = Total(transactions, FirmIds, x, "CREDIT")
        /\ B.pending_debits = Total(transactions, DraftIds, x, "DEBIT")
        /\ B.pending_credits = Total(transactions, DraftIds, x, "CREDIT")
    BY DEF Matches
  <1>n. OrZero(account_balances[x])' = Bn
    BY DEF OrZero
  <1>3. Bn = AddTo(B, <<D, C>>, <<-D, -C>>)
    BY <1>b, <1>c DEF Applied
  <1>4. /\ Bn.posted_debits = B.posted_debits + D
        /\ Bn.posted_credits = B.posted_credits + C
        /\ Bn.pending_debits = B.pending_debits + -D
        /\ Bn.pending_credits = B.pending_credits + -C
    <2> HIDE DEF B, Bn, D, C
    <2> QED
      BY <1>b, <1>3 DEF AddTo, Balance
  <1>5. /\ Bn.posted_debits = Total(transactions', FirmIds \cup {t}, x, "DEBIT")
        /\ Bn.posted_credits = Total(transactions', FirmIds \cup {t}, x, "CREDIT")
    <2>1. /\ Total(transactions', FirmIds \cup {t}, x, "DEBIT")
                = Total(transactions, FirmIds, x, "DEBIT") + D
          /\ Total(transactions', FirmIds \cup {t}, x, "CREDIT")
                = Total(transactions, FirmIds, x, "CREDIT") + C
      BY <1>1, <1>2, <1>f
    <2> HIDE DEF B, Bn, D, C
    <2> QED
      BY <1>4, <1>m, <2>1
  <1>6. /\ Bn.pending_debits = Total(transactions', R, x, "DEBIT")
        /\ Bn.pending_credits = Total(transactions', R, x, "CREDIT")
    <2> DEFINE p == Total(transactions, R, x, "DEBIT")
               q == Total(transactions, R, x, "CREDIT")
    <2>1. /\ Total(transactions', R, x, "DEBIT") = p
          /\ Total(transactions', R, x, "CREDIT") = q
          /\ p \in Int /\ q \in Int
          /\ Total(transactions, R \cup {t}, x, "DEBIT") = p + D
          /\ Total(transactions, R \cup {t}, x, "CREDIT") = q + C
      BY <1>1, <1>2, <1>f
    <2>2. B.pending_debits = p + D /\ B.pending_credits = q + C
      BY <1>1, <1>m, <2>1
    <2> HIDE DEF B, Bn, D, C, p, q
    <2>3. (p + D) + -D = p /\ (q + C) + -C = q
      BY <1>b, <2>1
    <2> QED
      BY <1>4, <2>1, <2>2, <2>3
  <1> HIDE DEF Bn
  <1> QED
    BY <1>1, <1>5, <1>6, <1>n DEF Matches

\* A hold's commit changes the held of its own row only; a settlement's too.
LEMMA HeldRows ==
    ASSUME LedgerInvariant, VersionsAddUp, NEW r \in Requests, pc[r] = "commit", CommitBalances(r),
           NEW x \in Rows
    PROVE  LET b == OrZero(account_balances[x])
               c == OrZero(account_balances'[x])
           IN  /\ b.held \in Int
               /\ req[r].op \in TxOps => c.held = b.held
               /\ req[r].op = "hold" =>
                     c.held = IF x = RowOf(req[r]) THEN b.held + req[r].units ELSE b.held
               /\ req[r].op \in SettleOps =>
                     c.held = IF x = RowOf(holds[req[r].target])
                              THEN b.held - holds[req[r].target].amount ELSE b.held
               /\ req[r].op \notin TxOps =>
                     /\ c.posted_debits = b.posted_debits /\ c.posted_credits = b.posted_credits
                     /\ c.pending_debits = b.pending_debits /\ c.pending_credits = b.pending_credits
  <1> DEFINE a == account_balances[x]
             b == OrZero(account_balances[x])
             c == OrZero(account_balances'[x])
  <1>s. /\ TypeOK /\ Shape(r) /\ Protects(r) /\ Versions(r) /\ req[r] \in Inputs
        /\ req[r].op \in TxOps \cup SettleOps \cup {"hold"}
    BY AtCommit, InputFields
  <1>b. b \in Balance /\ b.held \in Int
    BY <1>s DEF TypeOK, OrZero, ZeroBalance, Balance
  <1>1. account_balances'[x] = Current(r, x)
    BY DEF CommitBalances
  <1>2. CASE req[r].op \in TxOps
    <2>1. c.held = b.held
      <3>1. CASE BalanceRow(x) \in locks[r]
        BY <1>1, <1>2, <1>s, <3>1 DEF Versions, Current, OrZero
      <3>2. CASE BalanceRow(x) \notin locks[r]
        BY <1>1, <3>2 DEF Current
      <3> QED
        BY <3>1, <3>2
    <2> QED
      BY <1>2, <1>b, <2>1 DEF TxOps, SettleOps
  <1>3. ASSUME NEW n \in Int, a # None, a \in Balance,
               account_balances'[x] = [a EXCEPT !.held = @ + n]
        PROVE  /\ c.held = b.held + n
               /\ c.posted_debits = b.posted_debits /\ c.posted_credits = b.posted_credits
               /\ c.pending_debits = b.pending_debits /\ c.pending_credits = b.pending_credits
    <2> DEFINE w == [a EXCEPT !.held = @ + n]
    <2>1. /\ w \in Balance /\ w.held = a.held + n
          /\ w.posted_debits = a.posted_debits /\ w.posted_credits = a.posted_credits
          /\ w.pending_debits = a.pending_debits /\ w.pending_credits = a.pending_credits
      BY <1>3 DEF Balance
    <2> HIDE DEF w
    <2>2. b = a /\ c = w
      BY <1>3, <2>1, ConstantsAssumption DEF OrZero, w
    <2> QED
      BY <2>1, <2>2
  <1>4. CASE req[r].op = "hold"
    <2>1. CASE BalanceRow(x) \in locks[r]
      <3>1. /\ x = RowOf(req[r]) /\ a # None
            /\ account_balances'[x] = [a EXCEPT !.held = @ + req[r].units]
        BY <1>1, <1>4, <1>s, <2>1 DEF Versions, Protects, Current
      <3>2. req[r].units \in Int /\ a \in Balance
        BY <1>4, <1>s, <3>1, InputFields DEF HoldInput, TypeOK
      <3> QED
        BY <1>3, <1>4, <1>b, <3>1, <3>2 DEF TxOps, SettleOps
    <2>2. CASE BalanceRow(x) \notin locks[r]
      <3>1. x # RowOf(req[r]) /\ c = b
        BY <1>1, <1>4, <1>s, <2>2 DEF Protects, Current
      <3> QED
        BY <1>4, <1>b, <3>1 DEF TxOps, SettleOps
    <2> QED
      BY <2>1, <2>2
  <1>5. CASE req[r].op \in SettleOps
    <2> DEFINE h == holds[req[r].target]
    <2>h. h \in Hold /\ h.amount \in Int
      BY <1>5, <1>s, TargetType DEF Protects, TypeOK, SettleOps, Hold
    <2>1. CASE BalanceRow(x) \in locks[r]
      <3>1. /\ x = RowOf(h)
            /\ account_balances'[x] = [a EXCEPT !.held = @ - h.amount]
        BY <1>1, <1>5, <1>s, <2>1 DEF Versions, Current
      <3>2. a # None /\ a \in Balance
        BY <1>5, <1>s, <3>1, TargetType
        DEF Protects, LedgerInvariant, RowsExist, HoldIds, TypeOK, SettleOps
      <3>3. [a EXCEPT !.held = @ - h.amount] = [a EXCEPT !.held = @ + -h.amount]
        BY <2>h, <3>2 DEF Balance
      <3>4. /\ c.held = b.held + -h.amount
            /\ c.posted_debits = b.posted_debits /\ c.posted_credits = b.posted_credits
            /\ c.pending_debits = b.pending_debits /\ c.pending_credits = b.pending_credits
        <4>1. -h.amount \in Int
          BY <2>h
        <4> HIDE DEF a, b, c, h
        <4> QED
          BY <1>3, <3>1, <3>2, <3>3, <4>1
      <3>5. c.held = b.held - h.amount
        <4> HIDE DEF b, c, h
        <4> QED
          BY <1>b, <2>h, <3>4
      <3> QED
        BY <1>5, <1>b, <3>1, <3>4, <3>5 DEF TxOps, SettleOps
    <2>2. CASE BalanceRow(x) \notin locks[r]
      <3>1. x # RowOf(h) /\ c = b
        BY <1>1, <1>5, <2>2 DEF VersionsAddUp, Current
      <3> QED
        BY <1>5, <1>b, <3>1 DEF TxOps, SettleOps
    <2> QED
      BY <2>1, <2>2
  <1> QED
    BY <1>s, <1>2, <1>4, <1>5

\* Every step keeps the balances equal to the sums over the postings.
LEMMA BalancesFollow ==
    ASSUME LedgerInvariant, VersionsAddUp, IsFiniteSet(TxIds), BalancesMatchPostings, [Next]_vars
    PROVE  BalancesMatchPostings'
  <1>m. \A x \in Rows : Matches(x)
    BY MatchesAll
  <1>g. SUFFICES \A x \in Rows : Matches(x)'
    <2>1. (\A x \in Rows : Matches(x))' => BalancesMatchPostings'
      BY MatchesAll, PTL
    <2>2. (\A x \in Rows : Matches(x))' <=> \A x \in Rows : Matches(x)'
      BY DEF Rows
    <2> QED
      BY <2>1, <2>2
  <1>1. CASE UNCHANGED tables
    BY <1>1, <1>m DEF tables, Matches, FirmIds, DraftIds, TxIds, Firm, OrZero
  <1>2. ASSUME NEW r \in Requests, Commit(r), NEW x \in Rows
        PROVE  Matches(x)'
    <2>c. pc[r] = "commit" /\ CommitBalances(r) /\ r \notin TxIds
      BY <1>2, CommitEnds, AtCommit
    <2>1. CASE CommitCreate(r)
      <3>1. /\ req[r] \in CreateInput /\ req[r].op = "create"
            /\ PostingsOf(r) = req[r].postings
            /\ TxIds' = TxIds \cup {r}
            /\ \A t \in TxIds : transactions'[t] = transactions[t]
            /\ transactions'[r].status = req[r].status
            /\ transactions'[r].postings = req[r].postings
        BY <2>1, CreateEffect
      <3>2. FirmIds' = FirmIds \cup (IF req[r].status = "draft" THEN {} ELSE {r})
        BY <2>c, <3>1 DEF FirmIds, Firm, CreateInput
      <3>3. DraftIds' = DraftIds \cup (IF req[r].status = "draft" THEN {r} ELSE {})
        BY <2>c, <3>1, <3>2 DEF DraftIds, FirmIds
      <3> QED
        BY <1>2, <1>m, <2>c, <3>1, <3>2, <3>3, NewRowMatches
    <2>2. CASE CommitPost(r)
      BY <1>m, <2>2, PostMatches
    <2>3. CASE CommitReverse(r)
      <3> DEFINE t == req[r].target
      <3>1. /\ req[r].op = "reverse" /\ t \in TxIds /\ t # r
            /\ TxIds' = TxIds \cup {r}
            /\ \A u \in TxIds \ {t} : transactions'[u] = transactions[u]
            /\ transactions[t].status = "posted"
            /\ transactions'[t].status = "reversed"
            /\ transactions'[t].postings = transactions[t].postings
            /\ transactions'[r].status = "posted"
            /\ transactions'[r].postings = PostingsOf(r)
        BY <2>3, ReverseEffect
      <3> HIDE DEF t
      <3>2. FirmIds' = FirmIds \cup {r}
        BY <2>c, <3>1 DEF FirmIds, Firm
      <3>3. DraftIds' = DraftIds
        BY <2>c, <3>1, <3>2 DEF DraftIds, FirmIds
      <3>4. \A u \in TxIds : transactions'[u].postings = transactions[u].postings
        BY <3>1
      <3> QED
        BY <1>2, <1>m, <2>c, <3>1, <3>2, <3>3, <3>4, NewRowMatches
    <2>4. CASE CommitHold(r) \/ CommitCapture(r) \/ CommitRelease(r)
      <3>1. transactions' = transactions /\ req[r].op \notin TxOps
        BY <2>4 DEF CommitHold, CommitCapture, CommitRelease, TxOps
      <3>2. LET b == OrZero(account_balances[x])
                c == OrZero(account_balances'[x])
            IN  /\ c.posted_debits = b.posted_debits /\ c.posted_credits = b.posted_credits
                /\ c.pending_debits = b.pending_debits /\ c.pending_credits = b.pending_credits
        BY <2>c, <3>1, HeldRows
      <3>3. FirmIds' = FirmIds /\ DraftIds' = DraftIds
        BY <3>1 DEF FirmIds, DraftIds, TxIds, Firm
      <3> QED
        BY <1>m, <3>1, <3>2, <3>3 DEF Matches, OrZero
    <2> QED
      BY <1>2, <2>1, <2>2, <2>3, <2>4 DEF Commit
  <1> QED
    BY <1>1, <1>2, OnlyCommitsWrite

\* The tables stay finite: a commit adds one row at most.
LEMMA TablesStayFinite ==
    ASSUME LedgerInvariant, IsFiniteSet(TxIds), IsFiniteSet(HoldIds), [Next]_vars
    PROVE  IsFiniteSet(TxIds') /\ IsFiniteSet(HoldIds')
  <1>1. CASE UNCHANGED tables
    BY <1>1 DEF tables, TxIds, HoldIds
  <1>2. ASSUME NEW r \in Requests, Commit(r)
        PROVE  /\ TxIds' = TxIds \/ TxIds' = TxIds \cup {r}
               /\ HoldIds' = HoldIds \/ HoldIds' = HoldIds \cup {r}
    <2>1. CASE CommitCreate(r)
      BY <2>1, CreateEffect DEF HoldIds
    <2>2. CASE CommitPost(r)
      BY <2>2, PostEffect DEF CommitPost, HoldIds
    <2>3. CASE CommitReverse(r)
      <3>1. holds' = holds
        BY <2>3 DEF CommitReverse
      <3>2. TxIds' = TxIds \cup {r}
        BY <2>3, ReverseEffect
      <3> QED
        BY <3>1, <3>2 DEF HoldIds
    <2>4. CASE CommitHold(r)
      BY <2>4, HoldEffect DEF TxIds
    <2>5. CASE CommitCapture(r) \/ CommitRelease(r)
      BY <2>5, SettleEffect DEF TxIds
    <2> QED
      BY <1>2, <2>1, <2>2, <2>3, <2>4, <2>5 DEF Commit
  <1>3. ASSUME NEW r \in Requests, Commit(r)
        PROVE  IsFiniteSet(TxIds') /\ IsFiniteSet(HoldIds')
    <2>1. IsFiniteSet(TxIds \cup {r}) /\ IsFiniteSet(HoldIds \cup {r})
      BY FS_AddElement
    <2> QED
      BY <1>2, <1>3, <2>1
  <1> QED
    BY <1>1, <1>3, OnlyCommitsWrite

---------------------------------------------------------------------------
(* held.                                                                   *)

\* The active holds on a row in the table hs, and what they reserve
ActiveOn(hs, H, x) == {h \in H : hs[h].status = "active" /\ RowOf(hs[h]) = x}

Reserved(hs, H, x) == SumFunctionOnSet([h \in H |-> hs[h].amount], ActiveOn(hs, H, x))

\* Over a finite table of holds the sum can be taken over any function with the
\* same amounts, and is an integer.
LEMMA ReservedIs ==
    ASSUME NEW hs, NEW H, IsFiniteSet(H), \A h \in H : hs[h].amount \in Int, NEW x,
           NEW g, \A h \in ActiveOn(hs, H, x) : g[h] = hs[h].amount
    PROVE  Reserved(hs, H, x) = SumFunctionOnSet(g, ActiveOn(hs, H, x))
           /\ Reserved(hs, H, x) \in Int /\ IsFiniteSet(ActiveOn(hs, H, x))
  <1> DEFINE f == [h \in H |-> hs[h].amount]
             A == ActiveOn(hs, H, x)
  <1>1. A \subseteq H
    BY DEF ActiveOn
  <1>2. \A h \in A : f[h] = g[h] /\ f[h] \in Int
    BY <1>1
  <1>3. Reserved(hs, H, x) = SumFunctionOnSet(f, A)
    BY DEF Reserved
  <1>4. IsFiniteSet(A)
    BY <1>1, FS_Subset
  <1> HIDE DEF f, A
  <1>5. SumFunctionOnSet(f, A) = SumFunctionOnSet(g, A)
    BY <1>2, <1>4, SumAgrees
  <1>6. SumFunctionOnSet(f, A) \in Int
    BY <1>2, <1>4, SumInt
  <1> QED
    BY <1>3, <1>4, <1>5, <1>6 DEF A

\* A new active hold adds its amount to what its row reserves.
LEMMA ReservedByNew ==
    ASSUME NEW hs, NEW new, NEW H, IsFiniteSet(H), NEW r, r \notin H,
           \A h \in H : new[h] = hs[h],
           \A h \in H : hs[h].amount \in Int,
           new[r].status = "active", new[r].amount \in Int, NEW x
    PROVE  /\ x = RowOf(new[r]) => Reserved(new, H \cup {r}, x) = Reserved(hs, H, x) + new[r].amount
           /\ x # RowOf(new[r]) => Reserved(new, H \cup {r}, x) = Reserved(hs, H, x)
  <1> DEFINE g == [h \in H \cup {r} |-> new[h].amount]
             A == ActiveOn(hs, H, x)
             B == ActiveOn(new, H \cup {r}, x)
             n == new[r].amount
             s == SumFunctionOnSet(g, A)
  <1>1. IsFiniteSet(H \cup {r}) /\ \A h \in H \cup {r} : new[h].amount \in Int
    BY FS_AddElement
  <1>2. /\ \A h \in A : g[h] = hs[h].amount
        /\ \A h \in B : g[h] = new[h].amount
        /\ g[r] = n /\ r \notin A
        /\ \A h \in A \cup {r} : g[h] \in Int
    BY DEF ActiveOn
  <1>3. B = A \cup (IF x = RowOf(new[r]) THEN {r} ELSE {})
    BY DEF ActiveOn
  <1> HIDE DEF g
  <1>4. Reserved(hs, H, x) = s /\ s \in Int /\ IsFiniteSet(A)
    BY <1>2, ReservedIs
  <1>5. Reserved(new, H \cup {r}, x) = SumFunctionOnSet(g, B)
    BY <1>1, <1>2, ReservedIs
  <1> HIDE DEF A, B
  <1>6. SumFunctionOnSet(g, A \cup {r}) = n + s
    BY <1>2, <1>4, SumAdd
  <1>7. n \in Int
    OBVIOUS
  <1> HIDE DEF s, n
  <1>8. n + s = s + n /\ s + 0 = s
    BY <1>4, <1>7
  <1> QED
    BY <1>3, <1>4, <1>5, <1>6, <1>8 DEF s, n

\* Settling an active hold takes its amount out of what its row reserves.
LEMMA ReservedBySettled ==
    ASSUME NEW hs, NEW new, NEW H, IsFiniteSet(H), NEW t \in H,
           \A h \in H \ {t} : new[h] = hs[h],
           \A h \in H : hs[h].amount \in Int,
           hs[t].status = "active", new[t].status # "active", new[t].amount = hs[t].amount, NEW x
    PROVE  Reserved(new, H, x)
              = Reserved(hs, H, x) - (IF x = RowOf(hs[t]) THEN hs[t].amount ELSE 0)
  <1> DEFINE g == [h \in H |-> hs[h].amount]
             A == ActiveOn(hs, H, x)
             B == ActiveOn(new, H, x)
             n == hs[t].amount
             s == SumFunctionOnSet(g, B)
  <1>1. \A h \in H : new[h].amount \in Int
    OBVIOUS
  <1>2. /\ \A h \in A : g[h] = hs[h].amount /\ g[h] \in Int
        /\ \A h \in B : g[h] = new[h].amount
        /\ g[t] = n
    BY DEF ActiveOn
  <1> HIDE DEF g
  <1>3. B = A \ {t} /\ (t \in A <=> x = RowOf(hs[t]))
    <2>1. t \notin B /\ (t \in A <=> x = RowOf(hs[t]))
      BY DEF ActiveOn
    <2>2. \A h \in H \ {t} : h \in B <=> h \in A
      BY DEF ActiveOn
    <2>3. A \subseteq H /\ B \subseteq H
      BY DEF ActiveOn
    <2> QED
      BY <2>1, <2>2, <2>3
  <1>4. Reserved(hs, H, x) = SumFunctionOnSet(g, A) /\ IsFiniteSet(A)
    BY <1>2, ReservedIs, ZenonT(60)
  <1>5. Reserved(new, H, x) = s /\ s \in Int
    <2>1. Reserved(new, H, x) = SumFunctionOnSet(g, B) /\ Reserved(new, H, x) \in Int
      BY <1>1, <1>2, ReservedIs, ZenonT(60)
    <2> QED
      BY <2>1
  <1> HIDE DEF A, B
  <1>6. t \in A => SumFunctionOnSet(g, A) = n + s
    BY <1>2, <1>3, <1>4, SumRemove
  <1>7. t \notin A => SumFunctionOnSet(g, A) = s
    BY <1>3
  <1>8. n \in Int
    OBVIOUS
  <1> HIDE DEF s, n
  <1>9. (n + s) - n = s /\ s - 0 = s
    BY <1>5, <1>8
  <1> QED
    BY <1>3, <1>4, <1>5, <1>6, <1>7, <1>9 DEF s, n

\* What HeldMatchesHolds says of one row
HeldRight(x) == OrZero(account_balances[x]).held = Reserved(holds, HoldIds, x)

\* HeldMatchesHolds, row by row
LEMMA HeldRightAll == HeldMatchesHolds <=> \A x \in Rows : HeldRight(x)
  BY DEF HeldMatchesHolds, HeldRight, Reserved, ActiveOn

\* Every step keeps held equal to the sum of the active holds.
LEMMA HeldFollows ==
    ASSUME LedgerInvariant, VersionsAddUp, IsFiniteSet(HoldIds), HeldMatchesHolds, [Next]_vars
    PROVE  HeldMatchesHolds'
  <1>m. \A x \in Rows : HeldRight(x)
    BY HeldRightAll
  <1>g. SUFFICES \A x \in Rows : HeldRight(x)'
    <2>1. (\A x \in Rows : HeldRight(x))' => HeldMatchesHolds'
      BY HeldRightAll, PTL
    <2>2. (\A x \in Rows : HeldRight(x))' <=> \A x \in Rows : HeldRight(x)'
      BY DEF Rows
    <2> QED
      BY <2>1, <2>2
  <1>1. CASE UNCHANGED tables
    BY <1>1, <1>m DEF tables, HeldRight, HoldIds, OrZero
  <1>2. ASSUME NEW r \in Requests, Commit(r), NEW x \in Rows
        PROVE  HeldRight(x)'
    <2> DEFINE b == OrZero(account_balances[x])
               c == OrZero(account_balances'[x])
               v == Reserved(holds, HoldIds, x)
    <2>c. pc[r] = "commit" /\ CommitBalances(r) /\ r \notin HoldIds /\ TypeOK /\ req[r] \in Inputs
      BY <1>2, CommitEnds, AtCommit
    <2>h. \A h \in HoldIds : holds[h].amount \in Int
      BY <2>c DEF HoldIds, TypeOK, Hold
    <2>r. /\ b.held \in Int
          /\ req[r].op \in TxOps => c.held = b.held
          /\ req[r].op = "hold" =>
                c.held = IF x = RowOf(req[r]) THEN b.held + req[r].units ELSE b.held
          /\ req[r].op \in SettleOps =>
                c.held = IF x = RowOf(holds[req[r].target])
                         THEN b.held - holds[req[r].target].amount ELSE b.held
      BY <2>c, HeldRows
    <2>v. b.held = v
      BY <1>m DEF HeldRight
    <2>n. SUFFICES c.held = Reserved(holds', HoldIds', x)
      BY DEF HeldRight, OrZero
    <2> HIDE DEF b, c, v
    <2>1. CASE CommitCreate(r) \/ CommitPost(r) \/ CommitReverse(r)
      <3>1. holds' = holds /\ req[r].op \in TxOps
        BY <2>1 DEF CommitCreate, CommitPost, CommitReverse, TxOps
      <3>2. HoldIds' = HoldIds
        BY <3>1 DEF HoldIds
      <3> QED
        BY <2>r, <2>v, <3>1, <3>2 DEF v
    <2>2. CASE CommitHold(r)
      <3>1. /\ req[r] \in HoldInput /\ req[r].op = "hold"
            /\ HoldIds' = HoldIds \cup {r}
            /\ \A h \in HoldIds : holds'[h] = holds[h]
            /\ RowOf(holds'[r]) = RowOf(req[r])
            /\ holds'[r].amount = req[r].units
            /\ holds'[r].status = "active"
        BY <2>2, HoldEffect
      <3>2. req[r].units \in Int
        BY <3>1 DEF HoldInput
      <3>3. /\ x = RowOf(holds'[r]) =>
                  Reserved(holds', HoldIds \cup {r}, x) = Reserved(holds, HoldIds, x) + holds'[r].amount
            /\ x # RowOf(holds'[r]) =>
                  Reserved(holds', HoldIds \cup {r}, x) = Reserved(holds, HoldIds, x)
        <4>1. holds'[r].amount \in Int
          BY <3>1, <3>2
        <4> QED
          BY <2>c, <2>h, <3>1, <4>1, ReservedByNew
      <3> DEFINE k == req[r].units
      <3>4. Reserved(holds', HoldIds', x) = IF x = RowOf(req[r]) THEN v + k ELSE v
        BY <3>1, <3>3 DEF v
      <3>5. c.held = IF x = RowOf(req[r]) THEN v + k ELSE v
        BY <2>r, <2>v, <3>1
      <3>6. v \in Int /\ k \in Int
        BY <2>r, <2>v, <3>2
      <3> HIDE DEF k
      <3> QED
        BY <3>4, <3>5, <3>6
    <2>3. CASE CommitCapture(r) \/ CommitRelease(r)
      <3> DEFINE t == req[r].target
                 k == holds[t].amount
      <3>1. /\ req[r].op \in SettleOps /\ t \in HoldIds
            /\ HoldIds' = HoldIds
            /\ \A g \in HoldIds \ {t} : holds'[g] = holds[g]
            /\ holds[t].status = "active"
            /\ holds'[t].amount = holds[t].amount
            /\ holds'[t].status # "active"
        BY <2>3, SettleEffect
      <3>2. k \in Int
        BY <2>h, <3>1
      <3>3. Reserved(holds', HoldIds, x)
               = Reserved(holds, HoldIds, x) - (IF x = RowOf(holds[t]) THEN holds[t].amount ELSE 0)
        <4> HIDE DEF t, k
        <4>1. /\ IsFiniteSet(HoldIds) /\ t \in HoldIds
              /\ \A g \in HoldIds \ {t} : holds'[g] = holds[g]
              /\ \A g \in HoldIds : holds[g].amount \in Int
          BY <2>h, <3>1
        <4>2. holds[t].status = "active" /\ holds'[t].status # "active" /\ holds'[t].amount = holds[t].amount
          BY <3>1
        <4> QED
          BY <4>1, <4>2, ReservedBySettled
      <3>4. Reserved(holds', HoldIds', x) = v - (IF x = RowOf(holds[t]) THEN k ELSE 0)
        BY <3>1, <3>3 DEF v
      <3>5. c.held = IF x = RowOf(holds[t]) THEN v - k ELSE v
        BY <2>r, <2>v, <3>1
      <3>6. v \in Int
        BY <2>r, <2>v
      <3> HIDE DEF k
      <3> QED
        BY <3>2, <3>4, <3>5, <3>6
    <2> QED
      BY <1>2, <2>1, <2>2, <2>3 DEF Commit
  <1> QED
    BY <1>1, <1>2, OnlyCommitsWrite

---------------------------------------------------------------------------
(* Transactions balance.                                                   *)

\* Every transaction balances from the moment it is written.
AllBalance == \A t \in TxIds : BalancedPostings(transactions[t].postings)

\* ValidateBalanced lets in what balances, Reverse keeps the balance, and no
\* step changes the postings of a transaction.
LEMMA BalanceFollows ==
    ASSUME LedgerInvariant, AllBalance, [Next]_vars
    PROVE  AllBalance'
  <1>1. CASE UNCHANGED tables
    BY <1>1 DEF tables, AllBalance, TxIds
  <1>2. ASSUME NEW r \in Requests, Commit(r)
        PROVE  \A t \in TxIds' : BalancedPostings(transactions'[t].postings)
    <2>1. CASE CommitCreate(r)
      <3>1. /\ pc[r] = "commit" /\ req[r].op = "create"
            /\ TxIds' = TxIds \cup {r}
            /\ \A t \in TxIds : transactions'[t] = transactions[t]
            /\ transactions'[r].postings = req[r].postings
        BY <2>1, CreateEffect
      <3>2. BalancedPostings(req[r].postings)
        BY <3>1, AtCommit DEF Valid, ValidateBalanced, BalancedPostings
      <3> QED
        BY <3>1, <3>2 DEF AllBalance
    <2>2. CASE CommitPost(r)
      <3>1. TxIds' = TxIds /\ \A t \in TxIds : transactions'[t].postings = transactions[t].postings
        BY <2>2, PostEffect
      <3> QED
        BY <3>1 DEF AllBalance
    <2>3. CASE CommitReverse(r)
      <3> DEFINE t  == req[r].target
                 ps == transactions[t].postings
      <3>1. /\ t \in TxIds /\ TxIds' = TxIds \cup {r}
            /\ \A u \in TxIds : transactions'[u].postings = transactions[u].postings
            /\ transactions'[r].postings = ReversePostings(ps)
        BY <2>3, ReverseEffect
      <3>2. ps \in Seq(Posting)
        BY <3>1 DEF LedgerInvariant, TypeOK, TxIds, Transaction
      <3>3. BalancedPostings(ReversePostings(ps))
        BY <3>1, <3>2, ReversalBalances DEF AllBalance
      <3> QED
        BY <3>1, <3>3 DEF AllBalance
    <2>4. CASE CommitHold(r) \/ CommitCapture(r) \/ CommitRelease(r)
      BY <2>4 DEF CommitHold, CommitCapture, CommitRelease, AllBalance, TxIds
    <2> QED
      BY <1>2, <2>1, <2>2, <2>3, <2>4 DEF Commit
  <1>3. (\E r \in Requests : Commit(r)) => AllBalance'
    BY <1>2 DEF AllBalance, BalancedPostings, SumUnits
  <1> QED
    BY <1>1, <1>3, OnlyCommitsWrite

---------------------------------------------------------------------------
(* Answers and the rows behind them.                                       *)

\* How a step of r answers it: not at all; with something else than success; with
\* a stored answer, touching no table; or as the creator of its row.
LEMMA WaysOut ==
    ASSUME LedgerInvariant, NEW r \in Requests, Step(r) \/ Fault(r)
    PROVE  \/ resp'[r] = resp[r] /\ pc[r] # "done"
           \/ pc'[r] = "done" /\ resp'[r].code \notin {"created", "replayed"}
           \/ /\ pc'[r] = "done" /\ UNCHANGED tables /\ req[r] \in Keyed
              /\ resp'[r].code = Replay(req[r])[1]
              /\ resp'[r].id = Replay(req[r])[2]
           \/ /\ pc'[r] = "done" /\ resp'[r].id = r
              /\ CommitCreate(r) \/ CommitReverse(r) \/ CommitHold(r)
  <1> DEFINE Quiet == resp'[r] = resp[r] /\ pc[r] # "done"
             Other == pc'[r] = "done" /\ resp'[r].code \notin {"created", "replayed"}
             Served == /\ pc'[r] = "done" /\ UNCHANGED tables /\ req[r] \in Keyed
                       /\ resp'[r].code = Replay(req[r])[1]
                       /\ resp'[r].id = Replay(req[r])[2]
             Created == /\ pc'[r] = "done" /\ resp'[r].id = r
                        /\ CommitCreate(r) \/ CommitReverse(r) \/ CommitHold(r)
             Goal == Quiet \/ Other \/ Served \/ Created
  <1>t. TypeOK /\ Shape(r)
    BY DEF LedgerInvariant, LocksProtect
  <1>1. ASSUME NEW code, NEW id, NEW status, Answer(r, code, id, status)
        PROVE  pc'[r] = "done" /\ resp'[r].code = code /\ resp'[r].id = id
    BY <1>1, <1>t DEF Answer, TypeOK
  <1>2. ASSUME NEW code \in Codes \ {"created", "replayed"}, NEW id, NEW status,
               Answer(r, code, id, status)
        PROVE  Goal
    BY <1>1, <1>2
  <1>3. ASSUME NEW code \in Codes \ {"created", "replayed"}, Fail(r, code)
        PROVE  Goal
    BY <1>2, <1>3 DEF Fail
  <1>4. ASSUME UNCHANGED resp, pc[r] # "done"
        PROVE  Goal
    BY <1>4
  <1> SUFFICES Goal
    OBVIOUS
  <1> HIDE DEF Quiet, Other, Served, Created, Goal
  <1>5. CASE LookupHit(r) \/ Recheck(r)
    <2>1. /\ req[r] \in Keyed /\ UNCHANGED tables
          /\ Answer(r, Replay(req[r])[1], Replay(req[r])[2], Replay(req[r])[3])
      BY <1>5, <1>t DEF LookupHit, Recheck, Shape
    <2> QED
      BY <1>1, <2>1 DEF Served, Goal
  <1>6. CASE LookupMiss(r) \/ CheckReferences(r) \/ TargetMissing(r)
    BY <1>3, <1>4, <1>6 DEF LookupMiss, CheckReferences, TargetMissing, Codes
  <1>7. CASE PostLock(r)
    BY <1>2, <1>3, <1>4, <1>7 DEF PostLock, Codes
  <1>8. CASE ReverseLock(r) \/ HoldLock(r)
    BY <1>3, <1>4, <1>8 DEF ReverseLock, HoldLock, Codes
  <1>9. CASE SettleLock(r)
    <2>1. \/ Fail(r, "conflict") \/ Fail(r, "validation") \/ Fail(r, "not_found")
          \/ UNCHANGED resp /\ pc[r] # "done"
      BY <1>9 DEF SettleLock, CaptureError
    <2> QED
      BY <1>3, <1>4, <2>1 DEF Codes
  <1>10. CASE InsertTransaction(r) \/ InsertHold(r) \/ ReleaseHeld(r)
    BY <1>4, <1>10 DEF InsertTransaction, InsertHold, ReleaseHeld, UniqueViolation
  <1>11. CASE ApplyBalance(r)
    <2>1. Fail(r, "error") \/ (UNCHANGED resp /\ pc[r] # "done")
      BY <1>11 DEF ApplyBalance
    <2> QED
      BY <1>3, <1>4, <2>1 DEF Codes
  <1>12. CASE CommitPost(r) \/ CommitCapture(r) \/ CommitRelease(r)
    <2>1. \E id, status : Answer(r, "ok", id, status)
      BY <1>12 DEF CommitPost, CommitCapture, CommitRelease
    <2> QED
      BY <1>2, <2>1 DEF Codes
  <1>13. CASE CommitCreate(r) \/ CommitReverse(r) \/ CommitHold(r)
    <2>1. \E status : Answer(r, "created", r, status)
      BY <1>13 DEF CommitCreate, CommitReverse, CommitHold
    <2> QED
      BY <1>1, <1>13, <2>1 DEF Created, Goal
  <1>14. CASE DeadlockVictim(r) \/ Fault(r)
    BY <1>3, <1>14 DEF DeadlockVictim, Fault, Crash, RecheckFails, Codes
  <1> QED
    BY <1>5, <1>6, <1>7, <1>8, <1>9, <1>10, <1>11, <1>12, <1>13, <1>14 DEF Step, Goal

\* The fingerprint of a create and that of a reversal differ.
LEMMA FingerprintTells ==
    ASSUME NEW in \in Keyed, NEW jn \in Keyed, in.op # "hold", jn.op # "hold",
           Fingerprint(in) = Fingerprint(jn)
    PROVE  in.op = jn.op
  <1>1. ASSUME NEW n \in Keyed, n.op # "hold"
        PROVE  Fingerprint(n).op = n.op
    BY <1>1 DEF Fingerprint, Keyed
  <1> QED
    BY <1>1

\* The key table after the commit of a create or of a reversal
LEMMA KeysEffect ==
    ASSUME LedgerInvariant, NEW r \in Requests, CommitCreate(r) \/ CommitReverse(r)
    PROVE  /\ EffectiveKey(req[r]) \in KeySpace
           /\ transactions'[r].key = EffectiveKey(req[r])
           /\ idempotency_keys'[EffectiveKey(req[r])].hash = Fingerprint(req[r])
           /\ idempotency_keys'[EffectiveKey(req[r])].id = r
           /\ \A k \in KeySpace \ {EffectiveKey(req[r])} : idempotency_keys'[k] = idempotency_keys[k]
  <1> DEFINE e == EffectiveKey(req[r])
  <1>t. TypeOK
    BY DEF LedgerInvariant
  <1>1. req[r] \in Keyed
    BY CreateEffect, ReverseEffect
  <1>2. e \in KeySpace
    BY <1>1, KeyType
  <1>3. \E status : idempotency_keys' = [idempotency_keys EXCEPT ![e] =
                       [hash |-> Fingerprint(req[r]), id |-> r, status |-> status]]
    BY DEF CommitCreate, CommitReverse, EffectiveKey
  <1>4. transactions'[r].key = e
    <2>1. CASE CommitCreate(r)
      BY <2>1, CreateEffect DEF EffectiveKey
    <2>2. CASE CommitReverse(r)
      BY <2>2, ReverseEffect DEF EffectiveKey
    <2> QED
      BY <2>1, <2>2
  <1> HIDE DEF e
  <1>5. /\ idempotency_keys'[e].hash = Fingerprint(req[r])
        /\ idempotency_keys'[e].id = r
        /\ \A k \in KeySpace \ {e} : idempotency_keys'[k] = idempotency_keys[k]
    BY <1>2, <1>3, <1>t DEF TypeOK
  <1> QED
    BY <1>2, <1>4, <1>5 DEF e

\* What a commit keeps of the rows that were there
LEMMA RowsStay ==
    ASSUME LedgerInvariant, [Next]_vars
    PROVE  /\ TxIds \subseteq TxIds' /\ HoldIds \subseteq HoldIds'
           /\ \A t \in TxIds : transactions'[t].key = transactions[t].key
           /\ \A h \in HoldIds : /\ holds'[h].key = holds[h].key
                                 /\ holds'[h].hash = holds[h].hash
                                 /\ holds'[h].amount = holds[h].amount
  <1>1. CASE UNCHANGED tables
    BY <1>1 DEF tables, TxIds, HoldIds
  <1>2. ASSUME NEW r \in Requests, Commit(r)
        PROVE  /\ TxIds \subseteq TxIds' /\ HoldIds \subseteq HoldIds'
               /\ \A t \in TxIds : transactions'[t].key = transactions[t].key
               /\ \A h \in HoldIds : /\ holds'[h].key = holds[h].key
                                     /\ holds'[h].hash = holds[h].hash
                                     /\ holds'[h].amount = holds[h].amount
    <2>1. CASE CommitCreate(r)
      BY <2>1, CreateEffect DEF HoldIds
    <2>2. CASE CommitPost(r)
      <3>1. holds' = holds
        BY <2>2 DEF CommitPost
      <3>2. TxIds' = TxIds /\ \A t \in TxIds : transactions'[t].key = transactions[t].key
        BY <2>2, PostEffect
      <3> QED
        BY <3>1, <3>2 DEF HoldIds
    <2>3. CASE CommitReverse(r)
      <3>1. holds' = holds
        BY <2>3 DEF CommitReverse
      <3>2. TxIds' = TxIds \cup {r} /\ \A t \in TxIds : transactions'[t].key = transactions[t].key
        BY <2>3, ReverseEffect
      <3> QED
        BY <3>1, <3>2 DEF HoldIds
    <2>4. CASE CommitHold(r)
      BY <2>4, HoldEffect DEF TxIds
    <2>5. CASE CommitCapture(r) \/ CommitRelease(r)
      <3>1. transactions' = transactions /\ HoldIds' = HoldIds
        BY <2>5, SettleEffect
      <3>2. \A h \in HoldIds : /\ holds'[h].key = holds[h].key
                               /\ holds'[h].hash = holds[h].hash
                               /\ holds'[h].amount = holds[h].amount
        BY <2>5, SettleEffect
      <3> QED
        BY <3>1, <3>2 DEF TxIds
    <2> QED
      BY <1>2, <2>1, <2>2, <2>3, <2>4, <2>5 DEF Commit
  <1> QED
    BY <1>1, <1>2, OnlyCommitsWrite

\* RowsRemember, by what it is about
TxRemembered(t) ==
    /\ req[t] \in Keyed
    /\ req[t].op # "hold"
    /\ transactions[t].key = EffectiveKey(req[t])

HoldRemembered(h) ==
    /\ req[h] \in Keyed
    /\ req[h].op = "hold"
    /\ holds[h].key = EffectiveKey(req[h])
    /\ holds[h].hash = Fingerprint(req[h])

KeyRemembered(k) ==
    idempotency_keys[k] # None => idempotency_keys[k].hash = Fingerprint(req[idempotency_keys[k].id])

\* RowsRemember is the conjunction of these parts.
LEMMA RememberParts ==
    RowsRemember <=> /\ \A t \in TxIds : TxRemembered(t)
                     /\ \A h \in HoldIds : HoldRemembered(h)
                     /\ \A k \in KeySpace : KeyRemembered(k)
                     /\ \A r \in Requests : resp[r] # None => pc[r] = "done"
  BY DEF RowsRemember, TxRemembered, HoldRemembered, KeyRemembered

\* A step of r writes the tables only as the commit of r.
LEMMA StepWrites ==
    ASSUME LedgerInvariant, NEW r \in Requests, Step(r) \/ Fault(r)
    PROVE  UNCHANGED tables \/ Commit(r)
  <1>1. ASSUME NEW s \in Requests, Commit(s)
        PROVE  s = r
    BY <1>1, CommitEnds, OthersKept DEF SameControl
  <1>2. [Next]_vars
    BY DEF Next
  <1> QED
    BY <1>1, <1>2, OnlyCommitsWrite

\* A step of a request leaves the memory of every row, and its own row remembers it.
LEMMA StepRemembers ==
    ASSUME LedgerInvariant, RowsRemember, NEW r \in Requests, Step(r) \/ Fault(r)
    PROVE  RowsRemember'
  <1>n. [Next]_vars
    BY DEF Next
  <1>q. req' = req /\ \A s \in Requests \ {r} : pc'[s] = pc[s] /\ resp'[s] = resp[s]
    BY OthersKept DEF SameControl
  <1>m. /\ \A t \in TxIds : TxRemembered(t)
        /\ \A h \in HoldIds : HoldRemembered(h)
        /\ \A k \in KeySpace : KeyRemembered(k)
        /\ \A s \in Requests : resp[s] # None => pc[s] = "done"
    BY RememberParts
  <1>k. /\ \A t \in TxIds : transactions'[t].key = transactions[t].key
        /\ \A h \in HoldIds : holds'[h].key = holds[h].key /\ holds'[h].hash = holds[h].hash
    BY <1>n, RowsStay
  <1>4. \A s \in Requests : resp'[s] # None => pc'[s] = "done"
    BY <1>q, <1>m, WaysOut
  <1>5. /\ \A t \in TxIds : TxRemembered(t)'
        /\ \A h \in HoldIds : HoldRemembered(h)'
    BY <1>q, <1>m, <1>k DEF TxRemembered, HoldRemembered
  <1>6. ASSUME TxIds' = TxIds \/ (TxIds' = TxIds \cup {r} /\ TxRemembered(r)'),
               HoldIds' = HoldIds \/ (HoldIds' = HoldIds \cup {r} /\ HoldRemembered(r)'),
               \A k \in KeySpace : KeyRemembered(k)'
        PROVE  RowsRemember'
    <2>1. /\ \A t \in TxIds' : TxRemembered(t)'
          /\ \A h \in HoldIds' : HoldRemembered(h)'
      BY <1>5, <1>6
    <2> QED
      BY <1>4, <1>6, <2>1
      DEF RowsRemember, TxRemembered, HoldRemembered, KeyRemembered, KeySpace, ReversalKey
  <1>7. ASSUME idempotency_keys' = idempotency_keys
        PROVE  \A k \in KeySpace : KeyRemembered(k)'
    BY <1>7, <1>q, <1>m DEF KeyRemembered
  <1>8. CASE UNCHANGED tables
    <2>1. TxIds' = TxIds /\ HoldIds' = HoldIds /\ idempotency_keys' = idempotency_keys
      BY <1>8 DEF tables, TxIds, HoldIds
    <2> QED
      BY <1>6, <1>7, <2>1
  <1>9. CASE CommitCreate(r) \/ CommitReverse(r)
    <2>1. /\ TxIds' = TxIds \cup {r} /\ holds' = holds
          /\ req[r] \in Keyed /\ req[r].op # "hold"
      <3>1. CASE CommitCreate(r)
        BY <3>1, CreateEffect
      <3>2. CASE CommitReverse(r)
        <4>1. holds' = holds
          BY <3>2 DEF CommitReverse
        <4>2. /\ TxIds' = TxIds \cup {r}
              /\ req[r] \in Keyed /\ req[r].op # "hold"
          BY <3>2, ReverseEffect
        <4> QED
          BY <4>1, <4>2
      <3> QED
        BY <1>9, <3>1, <3>2
    <2>2. TxRemembered(r)'
      BY <1>9, <1>q, <2>1, KeysEffect DEF TxRemembered
    <2>3. ASSUME NEW k \in KeySpace
          PROVE  KeyRemembered(k)'
      BY <1>9, <1>q, <1>m, KeysEffect DEF KeyRemembered
    <2>4. HoldIds' = HoldIds
      BY <2>1 DEF HoldIds
    <2> QED
      BY <1>6, <2>1, <2>2, <2>3, <2>4
  <1>10. CASE CommitPost(r) \/ CommitCapture(r) \/ CommitRelease(r)
    <2>1. TxIds' = TxIds /\ HoldIds' = HoldIds
      <3>1. CASE CommitPost(r)
        BY <3>1, PostEffect DEF CommitPost, HoldIds
      <3>2. CASE CommitCapture(r) \/ CommitRelease(r)
        BY <3>2, SettleEffect DEF TxIds
      <3> QED
        BY <1>10, <3>1, <3>2
    <2>2. idempotency_keys' = idempotency_keys
      BY <1>10 DEF CommitPost, CommitCapture, CommitRelease
    <2> QED
      BY <1>6, <1>7, <2>1, <2>2
  <1>11. CASE CommitHold(r)
    <2>1. /\ HoldIds' = HoldIds \cup {r} /\ transactions' = transactions
          /\ req[r] \in Keyed /\ req[r].op = "hold"
          /\ holds'[r].key = EffectiveKey(req[r]) /\ holds'[r].hash = Fingerprint(req[r])
      BY <1>11, HoldEffect
    <2>2. TxIds' = TxIds /\ HoldRemembered(r)'
      BY <1>q, <2>1 DEF TxIds, HoldRemembered
    <2>3. idempotency_keys' = idempotency_keys
      BY <1>11 DEF CommitHold
    <2> QED
      BY <1>6, <1>7, <2>1, <2>2, <2>3
  <1>12. UNCHANGED tables \/ Commit(r)
    BY StepWrites
  <1> QED
    BY <1>8, <1>9, <1>10, <1>11, <1>12 DEF Commit

\* A request body that arrives replaces none that a row remembers.
LEMMA ReceiveRemembers ==
    ASSUME LedgerInvariant, RowsRemember, NEW r \in Requests, NEW in \in Inputs,
           Receive(r, in) \/ Reject(r, in)
    PROVE  /\ RowsRemember'
           /\ UNCHANGED tables /\ r \notin TxIds /\ r \notin HoldIds
           /\ \A s \in Requests \ {r} : req'[s] = req[s] /\ resp'[s] = resp[s]
           /\ resp'[r] # None => resp'[r].code = "validation"
  <1>p. /\ pc[r] = "idle" /\ pc'[r] \in {"lookup", "lock", "done"}
        /\ UNCHANGED tables
        /\ \A s \in Requests \ {r} : pc'[s] = pc[s] /\ req'[s] = req[s] /\ resp'[s] = resp[s]
    BY ReceiveIsPrivate DEF SameControl
  <1>t. TypeOK /\ Shape(r)
    BY DEF LedgerInvariant, LocksProtect
  <1>r. r \notin TxIds /\ r \notin HoldIds
    BY <1>p, <1>t DEF Shape, TxIds, HoldIds
  <1>m. /\ \A t \in TxIds : TxRemembered(t)
        /\ \A h \in HoldIds : HoldRemembered(h)
        /\ \A k \in KeySpace : KeyRemembered(k)
        /\ \A s \in Requests : resp[s] # None => pc[s] = "done"
    BY RememberParts
  <1>1. \/ resp'[r] = None
        \/ pc'[r] = "done" /\ resp'[r].code = "validation"
    BY <1>m, <1>t, <1>p DEF Receive, Reject, TypeOK
  <1>2. TxIds' = TxIds /\ HoldIds' = HoldIds /\ idempotency_keys' = idempotency_keys
        /\ transactions' = transactions /\ holds' = holds
    BY <1>p DEF tables, TxIds, HoldIds
  <1>3. \A t \in TxIds : t \in Requests \ {r}
    BY <1>r DEF TxIds
  <1>4. \A h \in HoldIds : h \in Requests \ {r}
    BY <1>r DEF HoldIds
  <1>5. \A k \in KeySpace : idempotency_keys[k] # None => idempotency_keys[k].id \in TxIds
    BY DEF LedgerInvariant, OneEffectPerKey
  <1>6. \A t \in TxIds' : TxRemembered(t)'
    BY <1>p, <1>m, <1>2, <1>3 DEF TxRemembered
  <1>7. \A h \in HoldIds' : HoldRemembered(h)'
    BY <1>p, <1>m, <1>2, <1>4 DEF HoldRemembered
  <1>8. \A k \in KeySpace : KeyRemembered(k)'
    BY <1>p, <1>m, <1>2, <1>3, <1>5 DEF KeyRemembered
  <1>9. \A s \in Requests : resp'[s] # None => pc'[s] = "done"
    BY <1>p, <1>m, <1>1
  <1>10. RowsRemember'
    BY <1>6, <1>7, <1>8, <1>9
    DEF RowsRemember, TxRemembered, HoldRemembered, KeyRemembered, KeySpace, ReversalKey
  <1> QED
    BY <1>p, <1>r, <1>1, <1>10

\* Every step keeps the memory of the rows.
LEMMA RememberFollows ==
    ASSUME LedgerInvariant, RowsRemember, [Next]_vars
    PROVE  RowsRemember'
  <1>1. CASE Finished \/ UNCHANGED vars
    <2>1. UNCHANGED vars
      BY <1>1 DEF Finished
    <2> QED
      BY <2>1 DEF vars, RowsRemember, TxIds, HoldIds
  <1> QED
    BY <1>1, StepRemembers, ReceiveRemembers DEF Next

\* What SuccessMeansSamePayload says of one request
Success(r) ==
    (resp[r] # None /\ resp[r].code \in {"created", "replayed"}) =>
        LET w == resp[r].id IN
        /\ IF req[r].op = "hold" THEN w \in HoldIds ELSE w \in TxIds
        /\ req[w].op = req[r].op
        /\ EffectiveKey(req[w]) = EffectiveKey(req[r])
        /\ Fingerprint(req[w]) = Fingerprint(req[r])

\* A stored answer that is served was stored for the same key and payload.
LEMMA ReplayIsOwn ==
    ASSUME LedgerInvariant, RowsRemember, NEW in \in Keyed, Replay(in)[1] \in {"created", "replayed"}
    PROVE  LET w == Replay(in)[2] IN
           /\ IF in.op = "hold" THEN w \in HoldIds ELSE w \in TxIds
           /\ req[w].op = in.op
           /\ EffectiveKey(req[w]) = EffectiveKey(in)
           /\ Fingerprint(req[w]) = Fingerprint(in)
  <1> DEFINE s == Stored(in)
             k == EffectiveKey(in)
             w == Replay(in)[2]
  <1>m. /\ \A t \in TxIds : TxRemembered(t)
        /\ \A h \in HoldIds : HoldRemembered(h)
        /\ \A j \in KeySpace : KeyRemembered(j)
    BY RememberParts
  <1>1. s # None /\ s.hash = Fingerprint(in) /\ w = s.id
    BY DEF Replay
  <1>2. k \in KeySpace
    BY KeyType
  <1>3. CASE in.op # "hold"
    <2>1. s = idempotency_keys[k]
      BY <1>3 DEF Stored
    <2>2. /\ w \in TxIds /\ transactions[w].key = k /\ Fingerprint(req[w]) = Fingerprint(in)
      BY <1>1, <1>2, <1>m, <2>1 DEF LedgerInvariant, OneEffectPerKey, KeyRemembered
    <2>3. req[w] \in Keyed /\ req[w].op # "hold" /\ EffectiveKey(req[w]) = k
      BY <1>m, <2>2 DEF TxRemembered
    <2>4. req[w].op = in.op
      BY <1>3, <2>2, <2>3, FingerprintTells
    <2> QED
      BY <1>3, <2>2, <2>3, <2>4
  <1>4. CASE in.op = "hold"
    <2> DEFINE h == CHOOSE h \in HoldsWithKey(k) : TRUE
    <2>1. HoldsWithKey(k) # {} /\ s.id = h /\ s.hash = holds[h].hash
      BY <1>1, <1>4 DEF Stored
    <2>2. h \in HoldIds /\ holds[h].key = k
      BY <2>1 DEF HoldsWithKey, HoldIds
    <2>3. /\ req[h].op = "hold" /\ EffectiveKey(req[h]) = k
          /\ holds[h].hash = Fingerprint(req[h])
      BY <1>m, <2>2 DEF HoldRemembered
    <2> QED
      BY <1>1, <1>4, <2>1, <2>2, <2>3
  <1> QED
    BY <1>3, <1>4

\* Every step keeps successful answers true.
LEMMA SuccessFollows ==
    ASSUME LedgerInvariant, RowsRemember, SuccessMeansSamePayload, [Next]_vars
    PROVE  SuccessMeansSamePayload'
  <1>a. \A s \in Requests : Success(s)
    BY DEF SuccessMeansSamePayload, Success
  <1>g. SUFFICES \A s \in Requests : Success(s)'
    BY DEF SuccessMeansSamePayload, Success
  <1>s. TxIds \subseteq TxIds' /\ HoldIds \subseteq HoldIds'
        /\ TxIds \subseteq Requests /\ HoldIds \subseteq Requests
    BY RowsStay DEF TxIds, HoldIds
  <1>1. CASE Finished \/ UNCHANGED vars
    BY <1>1, <1>a, <1>s DEF Finished, vars, Success
  <1>2. ASSUME NEW r \in Requests, NEW in \in Inputs, Receive(r, in) \/ Reject(r, in)
        PROVE  \A s \in Requests : Success(s)'
    <2>1. /\ r \notin TxIds /\ r \notin HoldIds
          /\ \A s \in Requests \ {r} : req'[s] = req[s] /\ resp'[s] = resp[s]
          /\ resp'[r] # None => resp'[r].code = "validation"
      BY <1>2, ReceiveRemembers
    <2>2. Success(r)'
      BY <2>1 DEF Success
    <2>3. ASSUME NEW s \in Requests \ {r}
          PROVE  Success(s)'
      <3>1. Success(s)
        BY <1>a
      <3> QED
        BY <1>s, <2>1, <3>1 DEF Success
    <2> QED
      BY <2>2, <2>3
  <1>3. ASSUME NEW r \in Requests, Step(r) \/ Fault(r)
        PROVE  \A s \in Requests : Success(s)'
    <2>q. req' = req /\ \A s \in Requests \ {r} : resp'[s] = resp[s]
      BY <1>3, OthersKept
    <2>1. ASSUME NEW s \in Requests, resp'[s] = resp[s]
          PROVE  Success(s)'
      <3>1. Success(s)
        BY <1>a
      <3> QED
        BY <1>s, <2>q, <2>1, <3>1 DEF Success
    <2>5. Success(r)'
      <3>2. CASE resp'[r].code \notin {"created", "replayed"}
        BY <3>2 DEF Success
      <3>3. CASE /\ UNCHANGED tables /\ req[r] \in Keyed
                 /\ resp'[r].code = Replay(req[r])[1]
                 /\ resp'[r].id = Replay(req[r])[2]
        <4> DEFINE w == resp'[r].id
        <4>1. ASSUME resp'[r].code \in {"created", "replayed"}
              PROVE  /\ IF req[r].op = "hold" THEN w \in HoldIds ELSE w \in TxIds
                     /\ req[w].op = req[r].op
                     /\ EffectiveKey(req[w]) = EffectiveKey(req[r])
                     /\ Fingerprint(req[w]) = Fingerprint(req[r])
          BY <3>3, <4>1, ReplayIsOwn
        <4> QED
          BY <1>s, <2>q, <4>1 DEF Success
      <3>4. CASE resp'[r].id = r /\ (CommitCreate(r) \/ CommitReverse(r) \/ CommitHold(r))
        <4>1. IF req[r].op = "hold" THEN r \in HoldIds' ELSE r \in TxIds'
          BY <3>4, CreateEffect, ReverseEffect, HoldEffect
        <4> QED
          BY <3>4, <2>q, <4>1 DEF Success
      <3> QED
        BY <1>3, <2>1, <3>2, <3>3, <3>4, WaysOut
    <2> QED
      BY <2>1, <2>5, <2>q
  <1> QED
    BY <1>1, <1>2, <1>3 DEF Next

---------------------------------------------------------------------------
(* What was checked before the locks still stands at COMMIT.               *)

\* What ChecksStand says of one request
Checks(r) ==
    /\ pc[r] = "idle" => req[r] = None
    /\ pc[r] = "insert" /\ req[r].op = "create" => locks[r] = {}
    /\ pc[r] \in {"apply", "commit"} /\ req[r].op = "capture" /\ req[r].asset # None =>
          req[r].units <= holds[req[r].target].amount

\* No step takes a request back to the beginning.
LEMMA NeverIdleAgain ==
    ASSUME LedgerInvariant, NEW r \in Requests, Step(r) \/ Fault(r)
    PROVE  pc'[r] # "idle"
  <1> DEFINE Moves == \E step \in Steps \ {"idle"} : pc' = [pc EXCEPT ![r] = step]
  <1>1. ASSUME NEW code, NEW id, NEW status, Answer(r, code, id, status)
        PROVE  Moves
    BY <1>1 DEF Answer, Steps
  <1>2. ASSUME NEW code, Fail(r, code)
        PROVE  Moves
    BY <1>1, <1>2 DEF Fail
  <1>3. ASSUME NEW step \in Steps \ {"idle"}, NEW held, Advance(r, step, held)
        PROVE  Moves
    BY <1>3 DEF Advance
  <1>4. ASSUME UniqueViolation(r)
        PROVE  Moves
    BY <1>4 DEF UniqueViolation, Steps
  <1>5. ASSUME ApplyBalance(r)
        PROVE  Moves
    <2> DEFINE next == IF idx[r] + 1 = Len(PostingsOf(r)) THEN "commit" ELSE "apply"
    <2>1. next \in Steps \ {"idle"}
      BY DEF Steps
    <2>2. Fail(r, "error") \/ \E held : Advance(r, next, held)
      BY <1>5 DEF ApplyBalance
    <2> HIDE DEF next, Moves
    <2> QED
      BY <1>2, <1>3, <2>1, <2>2
  <1>6. ASSUME LookupMiss(r) \/ CheckReferences(r)
        PROVE  Moves
    <2> DEFINE next == IF pc[r] = "check"
                          THEN IF req[r].op = "create" THEN "insert" ELSE "lock"
                          ELSE IF req[r].op = "reverse" THEN "lock" ELSE "check"
    <2>1. next \in Steps \ {"idle"}
      BY DEF Steps
    <2>2. (\E code : Fail(r, code)) \/ Advance(r, next, {})
      BY <1>6 DEF LookupMiss, CheckReferences
    <2> HIDE DEF next, Moves
    <2> QED
      BY <1>2, <1>3, <2>1, <2>2
  <1>t. TypeOK
    BY DEF LedgerInvariant
  <1>7. SUFFICES Moves
    BY <1>7, <1>t DEF TypeOK
  <1> HIDE DEF Moves
  <1>8. CASE LookupHit(r) \/ Recheck(r) \/ TargetMissing(r)
    BY <1>1, <1>2, <1>8 DEF LookupHit, Recheck, TargetMissing
  <1>9. CASE PostLock(r) \/ ReverseLock(r) \/ HoldLock(r) \/ SettleLock(r)
    BY <1>1, <1>2, <1>3, <1>9 DEF PostLock, ReverseLock, HoldLock, SettleLock, Steps
  <1>10. CASE InsertTransaction(r) \/ InsertHold(r) \/ ReleaseHeld(r)
    BY <1>3, <1>4, <1>10 DEF InsertTransaction, InsertHold, ReleaseHeld, Steps
  <1>11. CASE Commit(r)
    BY <1>1, <1>11 DEF Commit, CommitCreate, CommitPost, CommitReverse, CommitHold, CommitCapture,
                       CommitRelease
  <1>12. CASE DeadlockVictim(r) \/ Fault(r)
    BY <1>2, <1>12 DEF DeadlockVictim, Fault, Crash, RecheckFails
  <1> QED
    BY <1>5, <1>6, <1>8, <1>9, <1>10, <1>11, <1>12 DEF Step, Commit

\* The steps of a request that has no stake in the others
LEMMA ChecksOfStepper ==
    ASSUME LedgerInvariant, NEW r \in Requests, Step(r) \/ Fault(r), Checks(r)
    PROVE  Checks(r)'
  <1> DEFINE Goal == Checks(r)'
  <1>q. req' = req /\ pc'[r] # "idle"
    BY OthersKept, NeverIdleAgain
  <1>t. TypeOK /\ Shape(r)
    BY DEF LedgerInvariant, LocksProtect
  <1>1. ASSUME pc'[r] \notin {"insert", "apply", "commit"}
        PROVE  Goal
    BY <1>1, <1>q DEF Checks
  <1>2. ASSUME NEW code, NEW id, NEW status, Answer(r, code, id, status)
        PROVE  Goal
    <2>1. pc'[r] = "done"
      BY <1>2, <1>t DEF Answer, TypeOK
    <2> QED
      BY <1>1, <2>1
  <1>3. ASSUME UniqueViolation(r)
        PROVE  Goal
    <2>1. pc'[r] = "recheck"
      BY <1>3, <1>t DEF UniqueViolation, TypeOK
    <2> QED
      BY <1>1, <2>1
  <1>4. ASSUME NEW step, NEW held, Advance(r, step, held)
        PROVE  pc'[r] = step /\ locks'[r] = locks[r] \cup held /\ holds' = holds
    BY <1>4, <1>t DEF Advance, TypeOK, tables
  <1>5. ASSUME req[r].op # "create", req[r].op # "capture"
        PROVE  Goal
    BY <1>5, <1>q DEF Checks
  <1>6m. ASSUME LookupMiss(r)
         PROVE  Goal
    <2>1. pc'[r] = IF req[r].op = "reverse" THEN "lock" ELSE "check"
      BY <1>4, <1>6m DEF LookupMiss
    <2> QED
      BY <1>1, <2>1
  <1>6. ASSUME CheckReferences(r)
        PROVE  Goal
    <2>1. (\E code : Fail(r, code))
          \/ Advance(r, IF req[r].op = "create" THEN "insert" ELSE "lock", {})
      BY <1>6 DEF CheckReferences
    <2>2. locks[r] = {}
      BY <1>6, <1>t DEF CheckReferences, Shape
    <2>3. ASSUME Advance(r, IF req[r].op = "create" THEN "insert" ELSE "lock", {})
          PROVE  Goal
      <3>1. /\ pc'[r] = IF req[r].op = "create" THEN "insert" ELSE "lock"
            /\ locks'[r] = {}
        BY <1>4, <2>2, <2>3
      <3> QED
        BY <1>q, <3>1 DEF Checks
    <2> QED
      BY <1>2, <2>1, <2>3 DEF Fail
  <1>7. ASSUME InsertTransaction(r), req[r].op = "create"
        PROVE  Goal
    <2>1. UniqueViolation(r) \/ \E held : Advance(r, "apply", held)
      BY <1>7 DEF InsertTransaction
    <2>2. ASSUME NEW held, Advance(r, "apply", held)
          PROVE  Goal
      <3>1. pc'[r] = "apply"
        BY <1>4, <2>2
      <3> QED
        BY <1>7, <1>q, <3>1 DEF Checks
    <2> QED
      BY <1>3, <2>1, <2>2
  <1>8. ASSUME ApplyBalance(r), req[r].op = "create"
        PROVE  Goal
    <2> DEFINE next == IF idx[r] + 1 = Len(PostingsOf(r)) THEN "commit" ELSE "apply"
    <2>0. next \in {"apply", "commit"}
      OBVIOUS
    <2>1. (\E code : Fail(r, code)) \/ \E held : Advance(r, next, held)
      BY <1>8 DEF ApplyBalance
    <2> HIDE DEF next
    <2>2. ASSUME NEW held, NEW step \in {"apply", "commit"}, Advance(r, step, held)
          PROVE  Goal
      <3>1. pc'[r] \in {"apply", "commit"}
        BY <1>4, <2>2
      <3> QED
        BY <1>8, <1>q, <3>1 DEF Checks
    <2> QED
      BY <1>2, <2>0, <2>1, <2>2 DEF Fail
  <1>9. ASSUME SettleLock(r), req[r].op = "capture"
        PROVE  Goal
    <2> DEFINE h == req[r].target
    <2>1. \/ \E code : Fail(r, code)
          \/ CaptureError(req[r], holds[h]) = None /\ Advance(r, "apply", {HoldRow(h)})
      BY <1>9 DEF SettleLock
    <2>2. ASSUME CaptureError(req[r], holds[h]) = None, Advance(r, "apply", {HoldRow(h)})
          PROVE  Goal
      <3>1. pc'[r] = "apply" /\ holds' = holds
        BY <1>4, <2>2
      <3>2. req[r] \in Inputs /\ holds[h] # None /\ h \in Requests
        BY <1>9, <1>t, TargetType DEF SettleLock, Shape, Open, SettleOps
      <3>3. req[r].units \in Int /\ holds[h].amount \in Int
        BY <1>9, <1>t, <3>2, InputFields DEF CaptureInput, TypeOK, Hold
      <3>4. "validation" # None
        BY ConstantsAssumption
      <3>5. req[r].asset # None => ~(req[r].units > holds[h].amount)
        BY <2>2, <3>4 DEF CaptureError
      <3> QED
        BY <1>9, <1>q, <3>1, <3>3, <3>5 DEF Checks
    <2> QED
      BY <1>2, <2>1, <2>2 DEF Fail
  <1>10. ASSUME ReleaseHeld(r), req[r].op = "capture"
        PROVE  Goal
    <2>1. pc[r] = "apply" /\ \E held : Advance(r, "commit", held)
      BY <1>10 DEF ReleaseHeld
    <2>2. pc'[r] = "commit" /\ holds' = holds
      BY <1>4, <2>1
    <2> QED
      BY <1>10, <1>q, <2>1, <2>2 DEF Checks
  <1> SUFFICES Goal
    OBVIOUS
  <1> HIDE DEF Goal
  <1>11. CASE LookupHit(r) \/ Recheck(r) \/ TargetMissing(r) \/ DeadlockVictim(r) \/ Fault(r)
    BY <1>2, <1>11 DEF LookupHit, Recheck, TargetMissing, DeadlockVictim, Fault, Crash, RecheckFails, Fail
  <1>12. CASE PostLock(r) \/ ReverseLock(r) \/ HoldLock(r) \/ InsertHold(r)
    BY <1>5, <1>12 DEF PostLock, ReverseLock, HoldLock, InsertHold
  <1>13. CASE Commit(r)
    BY <1>2, <1>13 DEF Commit, CommitCreate, CommitPost, CommitReverse, CommitHold, CommitCapture,
                       CommitRelease
  <1>14. CASE InsertTransaction(r) \/ ApplyBalance(r)
    <2>1. req[r].op = "create" \/ req[r].op \notin {"create", "capture"}
      BY <1>14 DEF InsertTransaction, ApplyBalance
    <2> QED
      BY <1>5, <1>7, <1>8, <1>14, <2>1
  <1>15. CASE SettleLock(r) \/ ReleaseHeld(r)
    <2>1. req[r].op = "capture" \/ req[r].op \notin {"create", "capture"}
      BY <1>15 DEF SettleLock, ReleaseHeld
    <2> QED
      BY <1>5, <1>9, <1>10, <1>15, <2>1
  <1> QED
    BY <1>6m, <1>6, <1>11, <1>12, <1>13, <1>14, <1>15 DEF Step, Commit

\* Every step keeps the checks standing.
LEMMA ChecksFollow ==
    ASSUME LedgerInvariant, ChecksStand, [Next]_vars
    PROVE  ChecksStand'
  <1>a. \A s \in Requests : Checks(s)
    BY DEF ChecksStand, Checks
  <1>g. SUFFICES \A s \in Requests : Checks(s)'
    BY DEF ChecksStand, Checks
  <1>1. ASSUME NEW s \in Requests, SameControl(s)
        PROVE  Checks(s)'
    <2>1. Checks(s) /\ Protects(s) /\ Shape(s)
      BY <1>a DEF LedgerInvariant, LocksProtect
    <2>2. \A h \in HoldIds : holds'[h].amount = holds[h].amount
      BY RowsStay
    <2>3. pc[s] \in {"apply", "commit"} /\ req[s].op = "capture" => req[s].target \in HoldIds
      BY <2>1, TargetType DEF Protects, Shape, Open, SettleOps, HoldIds
    <2> QED
      BY <1>1, <2>1, <2>2, <2>3 DEF SameControl, Checks
  <1>2. ASSUME NEW r \in Requests, NEW in \in Inputs, Receive(r, in) \/ Reject(r, in)
        PROVE  \A s \in Requests : Checks(s)'
    <2>1. Checks(r)'
      BY <1>2, ReceiveIsPrivate DEF Checks
    <2> QED
      BY <1>1, <1>2, <2>1, ReceiveIsPrivate
  <1>3. ASSUME NEW r \in Requests, Step(r) \/ Fault(r)
        PROVE  \A s \in Requests : Checks(s)'
    BY <1>1, <1>3, <1>a, ChecksOfStepper, OthersKept
  <1>4. CASE Finished \/ UNCHANGED vars
    <2>1. \A s \in Requests : SameControl(s)
      BY <1>4 DEF Finished, vars, SameControl
    <2> QED
      BY <1>1, <2>1
  <1> QED
    BY <1>2, <1>3, <1>4 DEF Next

\* A request that is deciding on a free key finds no stored answer for it.
LEMMA FreeKeyHasNoAnswer ==
    ASSUME LedgerInvariant, NEW r \in Requests, req[r].op = "create", pc[r] \in {"apply", "commit"}
    PROVE  Stored(req[r]) = None
  <1>1. req[r] \in Keyed
    BY DEF LedgerInvariant, LocksProtect, Shape, Open, Keyed
  <1>2. EffectiveKey(req[r]) \in KeySpace /\ TransactionsWithKey(EffectiveKey(req[r])) = {}
    BY <1>1, KeyType DEF LedgerInvariant, LocksProtect, Protects
  <1>3. idempotency_keys[EffectiveKey(req[r])] = None
    BY <1>2 DEF LedgerInvariant, OneEffectPerKey, TransactionsWithKey, TxIds
  <1> QED
    BY <1>3 DEF Stored

\* Two creates with one fingerprint name the same ledger and accounts.
LEMMA SamePayloadSameNames ==
    ASSUME NEW in \in Keyed, NEW jn \in Keyed, in.op = "create", jn.op = "create",
           Fingerprint(in) = Fingerprint(jn)
    PROVE  Misnames(in) = Misnames(jn)
  <1>1. in.ledger = jn.ledger /\ PostingBag(in.postings) = PostingBag(jn.postings)
    BY DEF Fingerprint
  <1>2. AccountsOf(in) = AccountsOf(jn)
    <2> DEFINE A(ps) == {ps[i] : i \in 1..Len(ps)}
    <2>1. \A ps : DOMAIN PostingBag(ps) = A(ps)
      BY DEF PostingBag
    <2>2. A(in.postings) = A(jn.postings)
      BY <1>1, <2>1
    <2>3. AccountsOf(in) = {p.account : p \in A(in.postings)}
      BY DEF AccountsOf
    <2>4. AccountsOf(jn) = {p.account : p \in A(jn.postings)}
      BY DEF AccountsOf
    <2> HIDE DEF A
    <2> QED
      BY <2>2, <2>3, <2>4
  <1> QED
    BY <1>1, <1>2 DEF Misnames, NamesUnknown, CrossesLedgers

\* A create with the payload of a stored answer names what that one named: it is
\* not refused for it.
LEMMA RetryNamesWell ==
    ASSUME LedgerInvariant, RowsRemember, AdmissionsStand, NEW in \in Keyed, in.op = "create",
           Stored(in) # None, Stored(in).hash = Fingerprint(in)
    PROVE  ~Misnames(in)
  <1> DEFINE k == EffectiveKey(in)
             w == idempotency_keys[k].id
  <1>1. k \in KeySpace /\ Stored(in) = idempotency_keys[k]
    <2>1. in \in InputType /\ in.op # "hold" /\ k = in.key
      BY ConstantsAssumption DEF Keyed, EffectiveKey
    <2>2. in \in CreateInput
      BY <2>1 DEF InputType, CreateInput, PostInput, ReverseInput, HoldInput, CaptureInput, ReleaseInput
    <2> QED
      BY <2>1, <2>2 DEF CreateInput, Stored
  <1>2. w \in TxIds /\ Fingerprint(req[w]) = Fingerprint(in)
    BY <1>1 DEF LedgerInvariant, OneEffectPerKey, RowsRemember
  <1>3. req[w] \in Keyed /\ req[w].op # "hold"
    BY <1>2 DEF RowsRemember
  <1> HIDE DEF w
  <1>4. req[w].op = "create"
    BY <1>2, <1>3, FingerprintTells
  <1>5. ~Misnames(req[w])
    BY <1>2, <1>4 DEF AdmissionsStand
  <1> QED
    BY <1>2, <1>3, <1>4, <1>5, SamePayloadSameNames

\* A create waits only while it holds no lock, or on a balance row under a key
\* that has no answer: a deadlock never denies it a stored one.
LEMMA RetryIsAnswered ==
    ASSUME LedgerInvariant, ChecksStand, RowsRemember, AdmissionsStand,
           NEW r \in Requests, Step(r) \/ Fault(r),
           Answered(r), req[r].op = "create", Stored(req[r]) # None
    PROVE  resp'[r].code \in RetryAnswers(req[r])
  <1>t. TypeOK /\ Shape(r)
    BY DEF LedgerInvariant, LocksProtect
  <1>a. pc[r] \notin {"apply", "commit"}
    BY FreeKeyHasNoAnswer
  <1>b. pc'[r] = "done" /\ pc[r] # "done"
    BY DEF Answered
  <1>1. ASSUME NEW code, NEW id, NEW status, Answer(r, code, id, status)
        PROVE  resp'[r].code = code
    BY <1>1, <1>t DEF Answer, TypeOK
  <1>2. CASE LookupHit(r) \/ Recheck(r)
    <2>1. resp'[r].code = Replay(req[r])[1]
      BY <1>1, <1>2 DEF LookupHit, Recheck
    <2> QED
      BY <2>1 DEF Replay, RetryAnswers
  <1>3. CASE Fault(r)
    BY <1>1, <1>3 DEF Fault, Crash, RecheckFails, Fail, RetryAnswers
  <1>4. CASE LookupMiss(r)
    BY <1>4 DEF LookupMiss
  <1>4c. CASE CheckReferences(r)
    <2>1. req[r] \in Keyed
      BY <1>4c, <1>t DEF CheckReferences, Shape
    <2>2. CASE Fail(r, "not_found") /\ NamesUnknown(req[r])
      <3>1. Misnames(req[r]) /\ resp'[r].code = "not_found"
        BY <1>1, <2>2 DEF Misnames, Fail
      <3> QED
        BY <2>1, <3>1, RetryNamesWell DEF RetryAnswers
    <2>3. CASE Fail(r, "validation") /\ CrossesLedgers(req[r])
      <3>1. Misnames(req[r]) /\ resp'[r].code = "validation"
        BY <1>1, <2>3 DEF Misnames, Fail
      <3> QED
        BY <2>1, <3>1, RetryNamesWell DEF RetryAnswers
    <2>4. CASE Advance(r, IF req[r].op = "create" THEN "insert" ELSE "lock", {})
      BY <1>b, <1>t, <2>4 DEF Advance, TypeOK
    <2> QED
      BY <1>4c, <2>2, <2>3, <2>4 DEF CheckReferences
  <1>5. CASE PostLock(r) \/ ReverseLock(r) \/ HoldLock(r) \/ SettleLock(r) \/ TargetMissing(r)
             \/ InsertHold(r)
    BY <1>5, <1>t DEF PostLock, ReverseLock, HoldLock, SettleLock, TargetMissing, InsertHold, Shape
  <1>6. CASE ApplyBalance(r) \/ ReleaseHeld(r) \/ Commit(r)
    BY <1>6, <1>a, CommitEnds DEF ApplyBalance, ReleaseHeld
  <1>7. CASE InsertTransaction(r)
    <2>1. \E step \in {"apply", "recheck"} : pc' = [pc EXCEPT ![r] = step]
      BY <1>7 DEF InsertTransaction, UniqueViolation, Advance
    <2> QED
      BY <1>b, <1>t, <2>1 DEF TypeOK
  <1>8. CASE DeadlockVictim(r)
    <2>1. PICK C \in SUBSET Requests :
             /\ r \in C
             /\ \A s \in C : \E u \in C : WaitsFor(s, u)
             /\ \A u \in C : \E s \in C : WaitsFor(s, u)
      BY <1>8 DEF DeadlockVictim, InWaitCycle
    <2>2. pc[r] \in {"lock", "insert", "apply"} /\ \E s \in C : Wanted(s) \in locks[r]
      BY <2>1 DEF WaitsFor
    <2>3. pc[r] = "insert"
      BY <1>a, <1>t, <2>2 DEF Shape
    <2>4. locks[r] = {}
      BY <2>3 DEF ChecksStand
    <2> QED
      BY <2>2, <2>4
  <1> QED
    BY <1>2, <1>3, <1>4, <1>4c, <1>5, <1>6, <1>7, <1>8 DEF Step, Commit

---------------------------------------------------------------------------
(* The outbox.                                                             *)

\* Events, of an outbox that is given
EventsIn(ob, topic, id) == {i \in 1..Len(ob) : ob[i].topic = topic /\ ob[i].id = id}

\* insertOutbox adds one event at the end: the events of its topic and id gain one,
\* later than all, and the others are as they were.
LEMMA EmitEvents ==
    ASSUME TypeOK, NEW topic, NEW id, NEW captured, NEW released,
           Emit(topic, id, captured, released), NEW p, NEW d
    PROVE  LET n == Len(outbox) + 1 IN
           /\ p = topic /\ d = id => EventsIn(outbox', p, d) = EventsIn(outbox, p, d) \cup {n}
           /\ p # topic \/ d # id => EventsIn(outbox', p, d) = EventsIn(outbox, p, d)
           /\ \A i \in EventsIn(outbox, p, d) : i \in Nat /\ i < n /\ outbox'[i] = outbox[i]
           /\ outbox'[n].captured = captured /\ outbox'[n].released = released
           /\ n \in Nat
  <1> DEFINE e == [topic |-> topic, id |-> id, captured |-> captured, released |-> released]
             m == Len(outbox)
  <1>1. outbox \in Seq(Event) /\ m \in Nat
    BY DEF TypeOK
  <1>2. outbox' = Append(outbox, e)
    BY DEF Emit
  <1>3. /\ Len(outbox') = m + 1
        /\ \A i \in 1..m : outbox'[i] = outbox[i]
        /\ outbox'[m + 1] = e
    BY <1>1, <1>2
  <1>4. e.topic = topic /\ e.id = id /\ e.captured = captured /\ e.released = released
    OBVIOUS
  <1> HIDE DEF e, m
  <1>5. EventsIn(outbox', p, d) = EventsIn(outbox, p, d)
                                     \cup (IF p = topic /\ d = id THEN {m + 1} ELSE {})
    BY <1>1, <1>3, <1>4 DEF EventsIn, m
  <1>6. ASSUME NEW i \in EventsIn(outbox, p, d)
        PROVE  i \in Nat /\ i < m + 1 /\ outbox'[i] = outbox[i]
    BY <1>1, <1>3 DEF EventsIn, m
  <1> QED
    BY <1>1, <1>3, <1>4, <1>5, <1>6 DEF m

\* What has been announced of a transaction, and of a hold
PostedTold(t) == t \in TxIds /\ Firm(t) /\ transactions[t].reverses_id = None
ReversedTold(t) == t \in TxIds /\ transactions[t].status = "reversed"

TxTold(t) ==
    LET P == EventsIn(outbox, "ledger.transaction.posted", t)
        R == EventsIn(outbox, "ledger.transaction.reversed", t)
    IN  /\ PostedTold(t) => \E i : P = {i}
        /\ ~PostedTold(t) => P = {}
        /\ ReversedTold(t) => \E i : R = {i}
        /\ ~ReversedTold(t) => R = {}
        /\ \A i \in P, j \in R : i < j

Settled(h, status) == h \in HoldIds /\ holds[h].status = status

HoldTold(h) ==
    LET C == EventsIn(outbox, "ledger.hold.created", h)
        E == EventsIn(outbox, "ledger.hold.captured", h)
        F == EventsIn(outbox, "ledger.hold.released", h)
    IN  /\ h \in HoldIds => \E i : C = {i}
        /\ h \notin HoldIds => C = {}
        /\ Settled(h, "captured") => \E i : E = {i}
        /\ ~Settled(h, "captured") => E = {}
        /\ Settled(h, "released") => \E i : F = {i}
        /\ ~Settled(h, "released") => F = {}
        /\ \A i \in C, j \in E \cup F : i < j
        /\ \A j \in E : /\ outbox[j].captured > 0
                       /\ outbox[j].released >= 0
                       /\ outbox[j].captured + outbox[j].released = holds[h].amount

\* OutboxTellsTheStory with one event as a set of one element
LEMMA StoryParts ==
    TypeOK => (OutboxTellsTheStory <=> \A t \in Requests : TxTold(t) /\ HoldTold(t))
  <1> SUFFICES ASSUME TypeOK
               PROVE  OutboxTellsTheStory <=> \A t \in Requests : TxTold(t) /\ HoldTold(t)
    OBVIOUS
  <1>1. ASSUME NEW p, NEW d
        PROVE  /\ Cardinality(EventsIn(outbox, p, d)) = 1 <=> \E i : EventsIn(outbox, p, d) = {i}
               /\ Cardinality(EventsIn(outbox, p, d)) = 0 <=> EventsIn(outbox, p, d) = {}
    <2>1. Len(outbox) \in Nat /\ EventsIn(outbox, p, d) \subseteq 1..Len(outbox)
      BY DEF TypeOK, EventsIn
    <2>2. IsFiniteSet(EventsIn(outbox, p, d))
      <3>1. IsFiniteSet(1..Len(outbox))
        BY <2>1, FS_Interval
      <3> QED
        BY <2>1, <3>1, FS_Subset
    <2> QED
      BY <2>2, FS_EmptySet, FS_Singleton
  <1>2. ASSUME NEW t \in Requests
        PROVE  TxTold(t) <=>
                  LET P == EventsIn(outbox, "ledger.transaction.posted", t)
                      R == EventsIn(outbox, "ledger.transaction.reversed", t)
                  IN  /\ Sole(P, t \in TxIds /\ Firm(t) /\ transactions[t].reverses_id = None)
                      /\ Sole(R, t \in TxIds /\ transactions[t].status = "reversed")
                      /\ \A i \in P, j \in R : i < j
    BY <1>1 DEF TxTold, Sole, PostedTold, ReversedTold
  <1>3. ASSUME NEW h \in Requests
        PROVE  HoldTold(h) <=>
                  LET C == EventsIn(outbox, "ledger.hold.created", h)
                      E == EventsIn(outbox, "ledger.hold.captured", h)
                      F == EventsIn(outbox, "ledger.hold.released", h)
                  IN  /\ Sole(C, h \in HoldIds)
                      /\ Sole(E, h \in HoldIds /\ holds[h].status = "captured")
                      /\ Sole(F, h \in HoldIds /\ holds[h].status = "released")
                      /\ \A i \in C, j \in E \cup F : i < j
                      /\ \A j \in E : /\ outbox[j].captured > 0
                                     /\ outbox[j].released >= 0
                                     /\ outbox[j].captured + outbox[j].released = holds[h].amount
    BY <1>1 DEF HoldTold, Sole, Settled
  <1>4. \A p, d : Events(p, d) = EventsIn(outbox, p, d)
    BY DEF Events, EventsIn
  <1> QED
    BY <1>2, <1>3, <1>4 DEF OutboxTellsTheStory

\* A transaction about which nothing happened and nothing was said
LEMMA TxToldKept ==
    ASSUME NEW t, TxTold(t),
           PostedTold(t)' <=> PostedTold(t), ReversedTold(t)' <=> ReversedTold(t),
           EventsIn(outbox', "ledger.transaction.posted", t) = EventsIn(outbox, "ledger.transaction.posted", t),
           EventsIn(outbox', "ledger.transaction.reversed", t) = EventsIn(outbox, "ledger.transaction.reversed", t)
    PROVE  TxTold(t)'
  BY DEF TxTold

\* A hold about which nothing happened and nothing was said
LEMMA HoldToldKept ==
    ASSUME NEW h, HoldTold(h),
           h \in HoldIds' <=> h \in HoldIds,
           h \in HoldIds => holds'[h] = holds[h],
           \A p : EventsIn(outbox', p, h) = EventsIn(outbox, p, h),
           \A p : \A i \in EventsIn(outbox, p, h) : outbox'[i] = outbox[i]
    PROVE  HoldTold(h)'
  <1>1. \A status : Settled(h, status)' <=> Settled(h, status)
    BY DEF Settled
  <1>2. EventsIn(outbox, "ledger.hold.captured", h) # {} => h \in HoldIds
    BY DEF HoldTold, Settled
  <1> DEFINE E == EventsIn(outbox, "ledger.hold.captured", h)
  <1>3. \A j \in E' : /\ outbox'[j].captured > 0
                      /\ outbox'[j].released >= 0
                      /\ outbox'[j].captured + outbox'[j].released = holds'[h].amount
    <2>1. \A j \in E : /\ outbox[j].captured > 0
                       /\ outbox[j].released >= 0
                       /\ outbox[j].captured + outbox[j].released = holds[h].amount
      BY DEF HoldTold
    <2>2. \A j \in E : outbox'[j] = outbox[j] /\ holds'[h] = holds[h]
      BY <1>2
    <2>3. E' = E
      OBVIOUS
    <2> HIDE DEF E
    <2> QED
      BY <2>1, <2>2, <2>3
  <1>4. LET C == EventsIn(outbox, "ledger.hold.created", h)
            F == EventsIn(outbox, "ledger.hold.released", h)
        IN  /\ h \in HoldIds' => \E i : C' = {i}
            /\ h \notin HoldIds' => C' = {}
            /\ Settled(h, "captured")' => \E i : E' = {i}
            /\ ~Settled(h, "captured")' => E' = {}
            /\ Settled(h, "released")' => \E i : F' = {i}
            /\ ~Settled(h, "released")' => F' = {}
            /\ \A i \in C', j \in E' \cup F' : i < j
    BY <1>1 DEF HoldTold
  <1> QED
    BY <1>3, <1>4 DEF HoldTold

\* Drafts come from creates only.
LEMMA DraftsFollow ==
    ASSUME LedgerInvariant, DraftsReverseNothing, [Next]_vars
    PROVE  DraftsReverseNothing'
  <1>1. CASE UNCHANGED tables
    BY <1>1 DEF tables, DraftsReverseNothing, TxIds
  <1>2. ASSUME NEW r \in Requests, Commit(r)
        PROVE  DraftsReverseNothing'
    <2>1. CASE CommitCreate(r)
      BY <2>1, CreateEffect DEF DraftsReverseNothing
    <2>2. CASE CommitPost(r)
      <3>1. \A u \in TxIds' : u \in TxIds /\ (transactions'[u].status = "draft" =>
                                               transactions'[u] = transactions[u])
        BY <2>2, PostEffect
      <3> QED
        BY <3>1 DEF DraftsReverseNothing
    <2>3. CASE CommitReverse(r)
      <3>1. \A u \in TxIds' : transactions'[u].status = "draft" =>
                                 u \in TxIds /\ transactions'[u] = transactions[u]
        BY <2>3, ReverseEffect
      <3> QED
        BY <3>1 DEF DraftsReverseNothing
    <2>4. CASE CommitHold(r) \/ CommitCapture(r) \/ CommitRelease(r)
      BY <2>4 DEF CommitHold, CommitCapture, CommitRelease, DraftsReverseNothing, TxIds
    <2> QED
      BY <1>2, <2>1, <2>2, <2>3, <2>4 DEF Commit
  <1> QED
    BY <1>1, <1>2, OnlyCommitsWrite

\* Commits of transactions say nothing of holds, and the other way around.
LEMMA UntouchedHolds ==
    ASSUME TypeOK, holds' = holds, NEW h \in Requests, HoldTold(h),
           UNCHANGED outbox \/ \E t, c, d : Emit("ledger.transaction.posted", t, c, d)
                            \/ Emit("ledger.transaction.reversed", t, c, d)
    PROVE  HoldTold(h)'
  <1>1. HoldIds' = HoldIds
    BY DEF HoldIds
  <1>2. CASE UNCHANGED outbox
    <2>1. \A s : Settled(h, s)' <=> Settled(h, s)
      BY <1>1 DEF Settled
    <2>2. \A p : EventsIn(outbox', p, h) = EventsIn(outbox, p, h)
      BY <1>2
    <2> QED
      BY <1>1, <1>2, <2>1, <2>2 DEF HoldTold, Settled
  <1>3. ASSUME NEW p \in {"ledger.transaction.posted", "ledger.transaction.reversed"},
               NEW t, NEW c, NEW d, Emit(p, t, c, d)
        PROVE  HoldTold(h)'
    <2> DEFINE C == EventsIn(outbox, "ledger.hold.created", h)
               E == EventsIn(outbox, "ledger.hold.captured", h)
               F == EventsIn(outbox, "ledger.hold.released", h)
    <2>1. C' = C /\ E' = E /\ F' = F /\ \A i \in E : outbox'[i] = outbox[i]
      BY <1>3, EmitEvents
    <2>2. /\ Settled(h, "captured")' <=> Settled(h, "captured")
          /\ Settled(h, "released")' <=> Settled(h, "released")
      BY <1>1 DEF Settled
    <2>3. \A j \in E' : /\ outbox'[j].captured > 0
                        /\ outbox'[j].released >= 0
                        /\ outbox'[j].captured + outbox'[j].released = holds'[h].amount
      <3>1. \A j \in E : /\ outbox[j].captured > 0
                         /\ outbox[j].released >= 0
                         /\ outbox[j].captured + outbox[j].released = holds[h].amount
        BY DEF HoldTold
      <3> HIDE DEF C, E, F
      <3> QED
        BY <2>1, <3>1
    <2> QED
      BY <1>1, <2>1, <2>2, <2>3 DEF HoldTold
  <1> QED
    BY <1>2, <1>3

\* Commits of holds say nothing of transactions.
LEMMA UntouchedTransactions ==
    ASSUME TypeOK, transactions' = transactions, NEW t \in Requests, TxTold(t),
           \E p \in {"ledger.hold.created", "ledger.hold.captured", "ledger.hold.released"} :
              \E h, c, d : Emit(p, h, c, d)
    PROVE  TxTold(t)'
  <1>1. PostedTold(t)' <=> PostedTold(t)
    BY DEF PostedTold, TxIds, Firm
  <1>2. ReversedTold(t)' <=> ReversedTold(t)
    BY DEF ReversedTold, TxIds
  <1>3. /\ EventsIn(outbox', "ledger.transaction.posted", t) = EventsIn(outbox, "ledger.transaction.posted", t)
        /\ EventsIn(outbox', "ledger.transaction.reversed", t) = EventsIn(outbox, "ledger.transaction.reversed", t)
    BY EmitEvents
  <1> QED
    BY <1>1, <1>2, <1>3, TxToldKept

\* The commits of transactions announce what they do to transactions.
LEMMA TxCommitTells ==
    ASSUME LedgerInvariant, DraftsReverseNothing, NEW r \in Requests, NEW t \in Requests, TxTold(t),
           CommitCreate(r) \/ CommitPost(r) \/ CommitReverse(r)
    PROVE  TxTold(t)'
  <1> DEFINE n == Len(outbox) + 1
             P == EventsIn(outbox, "ledger.transaction.posted", t)
             R == EventsIn(outbox, "ledger.transaction.reversed", t)
  <1>t. TypeOK
    BY DEF LedgerInvariant
  <1>1. ASSUME CommitCreate(r)
        PROVE  TxTold(t)'
    <2>1. /\ pc[r] = "commit" /\ req[r] \in CreateInput /\ TxIds' = TxIds \cup {r}
          /\ \A u \in TxIds : transactions'[u] = transactions[u]
          /\ transactions'[r].status = req[r].status
          /\ transactions'[r].reverses_id = None
      BY <1>1, CreateEffect
    <2>2. r \notin TxIds
      BY <2>1, AtCommit
    <2>3. CASE req[r].status # "posted"
      <3>1. UNCHANGED outbox /\ req[r].status = "draft"
        BY <1>1, <2>1, <2>3 DEF CommitCreate, CreateInput
      <3>2. P' = P /\ R' = R
        BY <3>1 DEF EventsIn
      <3>3. PostedTold(t)' <=> PostedTold(t)
        BY <2>1, <2>2, <3>1 DEF PostedTold, Firm
      <3>4. ReversedTold(t)' <=> ReversedTold(t)
        BY <2>1, <2>2, <3>1 DEF ReversedTold
      <3> QED
        BY <3>2, <3>3, <3>4, TxToldKept
    <2>4. CASE req[r].status = "posted"
      <3>1. Emit("ledger.transaction.posted", r, 0, 0)
        BY <1>1, <2>4 DEF CommitCreate
      <3>2. /\ P' = P \cup (IF t = r THEN {n} ELSE {}) /\ R' = R
        BY <1>t, <3>1, EmitEvents
      <3>4. ReversedTold(t)' <=> ReversedTold(t)
        BY <2>1, <2>2, <2>4 DEF ReversedTold
      <3>5. CASE t # r
        <4>1. PostedTold(t)' <=> PostedTold(t)
          BY <2>1, <3>5 DEF PostedTold, Firm
        <4> QED
          BY <3>2, <3>4, <3>5, <4>1, TxToldKept
      <3>6. CASE t = r
        <4>1. PostedTold(t)' /\ ~PostedTold(t) /\ ~ReversedTold(t)
          BY <2>1, <2>2, <2>4, <3>6 DEF PostedTold, Firm, ReversedTold
        <4>2. P = {} /\ R = {}
          BY <4>1 DEF TxTold
        <4>3. P' = {n} /\ R' = {}
          BY <3>2, <3>6, <4>2
        <4> HIDE DEF P, R, n
        <4> QED
          BY <3>4, <4>1, <4>3 DEF TxTold, P, R
      <3> QED
        BY <3>5, <3>6
    <2> QED
      BY <2>3, <2>4
  <1>2. ASSUME CommitPost(r)
        PROVE  TxTold(t)'
    <2> DEFINE u == req[r].target
    <2>1. /\ u \in TxIds /\ TxIds' = TxIds
          /\ \A v \in TxIds \ {u} : transactions'[v] = transactions[v]
          /\ transactions[u].status = "draft"
          /\ transactions'[u].status = "posted"
          /\ transactions'[u].reverses_id = transactions[u].reverses_id
      BY <1>2, PostEffect
    <2>2. transactions[u].reverses_id = None
      BY <2>1 DEF DraftsReverseNothing
    <2>3. Emit("ledger.transaction.posted", u, 0, 0)
      BY <1>2 DEF CommitPost
    <2> HIDE DEF u
    <2>4. /\ P' = P \cup (IF t = u THEN {n} ELSE {}) /\ R' = R
      BY <1>t, <2>3, EmitEvents
    <2>5. ReversedTold(t)' <=> ReversedTold(t)
      BY <2>1 DEF ReversedTold
    <2>6. CASE t # u
      <3>1. PostedTold(t)' <=> PostedTold(t)
        BY <2>1, <2>6 DEF PostedTold, Firm
      <3> QED
        BY <2>4, <2>5, <2>6, <3>1, TxToldKept
    <2>7. CASE t = u
      <3>1. PostedTold(t)' /\ ~PostedTold(t) /\ ~ReversedTold(t)
        BY <2>1, <2>2, <2>7 DEF PostedTold, Firm, ReversedTold
      <3>2. P = {} /\ R = {}
        BY <3>1 DEF TxTold
      <3>3. P' = {n} /\ R' = {}
        BY <2>4, <2>7, <3>2
      <3> HIDE DEF P, R, n
      <3> QED
        BY <2>5, <3>1, <3>3 DEF TxTold, P, R
    <2> QED
      BY <2>6, <2>7
  <1>3. ASSUME CommitReverse(r)
        PROVE  TxTold(t)'
    <2> DEFINE u == req[r].target
    <2>1. /\ pc[r] = "commit" /\ u \in TxIds /\ u \in Requests /\ u # r /\ TxIds' = TxIds \cup {r}
          /\ \A v \in TxIds \ {u} : transactions'[v] = transactions[v]
          /\ transactions[u].status = "posted"
          /\ transactions'[u].status = "reversed"
          /\ transactions'[u].reverses_id = transactions[u].reverses_id
          /\ transactions'[r].status = "posted"
          /\ transactions'[r].reverses_id = u
      BY <1>3, ReverseEffect
    <2>2. r \notin TxIds /\ u # None
      BY <2>1, AtCommit, ConstantsAssumption
    <2>3. Emit("ledger.transaction.reversed", u, 0, 0)
      BY <1>3 DEF CommitReverse
    <2> HIDE DEF u
    <2>4. /\ R' = R \cup (IF t = u THEN {n} ELSE {}) /\ P' = P
          /\ \A i \in P : i < n
      BY <1>t, <2>3, EmitEvents
    <2>5. PostedTold(t)' <=> PostedTold(t)
      BY <2>1, <2>2 DEF PostedTold, Firm
    <2>6. CASE t # u
      <3>1. ReversedTold(t)' <=> ReversedTold(t)
        BY <2>1, <2>2, <2>6 DEF ReversedTold
      <3> QED
        BY <2>4, <2>5, <2>6, <3>1, TxToldKept
    <2>7. CASE t = u
      <3>1. ReversedTold(t)' /\ ~ReversedTold(t)
        BY <2>1, <2>7 DEF ReversedTold
      <3>2. R = {}
        BY <3>1 DEF TxTold
      <3>3. R' = {n}
        BY <2>4, <2>7, <3>2
      <3>4. (PostedTold(t) => \E i : P = {i}) /\ (~PostedTold(t) => P = {})
        BY DEF TxTold
      <3> HIDE DEF P, R, n
      <3> QED
        BY <2>4, <2>5, <3>1, <3>3, <3>4 DEF TxTold, P, R
    <2> QED
      BY <2>6, <2>7
  <1> QED
    BY <1>1, <1>2, <1>3

\* A new hold is announced once.
LEMMA NewHoldTells ==
    ASSUME LedgerInvariant, NEW r \in Requests, NEW h \in Requests, HoldTold(h), CommitHold(r)
    PROVE  HoldTold(h)'
  <1> DEFINE n == Len(outbox) + 1
             C == EventsIn(outbox, "ledger.hold.created", h)
             E == EventsIn(outbox, "ledger.hold.captured", h)
             F == EventsIn(outbox, "ledger.hold.released", h)
  <1>t. TypeOK
    BY DEF LedgerInvariant
  <1>1. /\ pc[r] = "commit" /\ HoldIds' = HoldIds \cup {r}
        /\ \A g \in HoldIds : holds'[g] = holds[g]
        /\ holds'[r].status = "active"
    BY HoldEffect
  <1>2. r \notin HoldIds
    BY <1>1, AtCommit
  <1>3. Emit("ledger.hold.created", r, 0, 0)
    BY DEF CommitHold
  <1>4. CASE h # r
    <2>1. \A p : /\ EventsIn(outbox', p, h) = EventsIn(outbox, p, h)
                 /\ \A i \in EventsIn(outbox, p, h) : outbox'[i] = outbox[i]
      BY <1>t, <1>3, <1>4, EmitEvents
    <2>2. h \in HoldIds' <=> h \in HoldIds
      BY <1>1, <1>4
    <2> QED
      BY <1>1, <2>1, <2>2, HoldToldKept
  <1>5. CASE h = r
    <2>1. C = {} /\ E = {} /\ F = {}
      BY <1>2, <1>5 DEF HoldTold, Settled
    <2>2. C' = C \cup {n} /\ E' = E /\ F' = F
      BY <1>t, <1>3, <1>5, EmitEvents
    <2>3. C' = {n} /\ E' = {} /\ F' = {}
      BY <2>1, <2>2
    <2>4. h \in HoldIds' /\ ~Settled(h, "captured")' /\ ~Settled(h, "released")'
      BY <1>1, <1>5 DEF Settled
    <2> HIDE DEF C, E, F, n
    <2> QED
      BY <2>3, <2>4 DEF HoldTold, C, E, F
  <1> QED
    BY <1>4, <1>5

\* A settlement is announced once, after the hold, and a capture's two amounts
\* are what the hold had.
LEMMA SettlementTells ==
    ASSUME LedgerInvariant, ChecksStand, NEW r \in Requests, NEW h \in Requests, HoldTold(h),
           CommitCapture(r) \/ CommitRelease(r)
    PROVE  HoldTold(h)'
  <1> DEFINE n == Len(outbox) + 1
             g == req[r].target
             C == EventsIn(outbox, "ledger.hold.created", h)
             E == EventsIn(outbox, "ledger.hold.captured", h)
             F == EventsIn(outbox, "ledger.hold.released", h)
  <1>t. TypeOK
    BY DEF LedgerInvariant
  <1>1. /\ pc[r] = "commit" /\ g \in HoldIds /\ HoldIds' = HoldIds
        /\ \A f \in HoldIds \ {g} : holds'[f] = holds[f]
        /\ holds[g].status = "active"
        /\ holds'[g].amount = holds[g].amount
        /\ CommitCapture(r) => req[r].op = "capture" /\ holds'[g].status = "captured"
        /\ CommitRelease(r) => req[r].op = "release" /\ holds'[g].status = "released"
    BY SettleEffect
  <1>2. holds[g].amount \in Int /\ holds[g].amount > 0
    BY <1>1, <1>t DEF LedgerInvariant, RowsExist, HoldIds, TypeOK, Hold
  <1>3. ASSUME h # g,
               NEW p, NEW c, NEW d, Emit(p, g, c, d)
        PROVE  HoldTold(h)'
    <2>1. \A q : /\ EventsIn(outbox', q, h) = EventsIn(outbox, q, h)
                 /\ \A i \in EventsIn(outbox, q, h) : outbox'[i] = outbox[i]
      <3> HIDE DEF g
      <3> QED
        BY <1>t, <1>3, EmitEvents
    <2>2. h \in HoldIds' <=> h \in HoldIds
      BY <1>1
    <2>3. h \in HoldIds => holds'[h] = holds[h]
      BY <1>1, <1>3
    <2> QED
      BY <2>1, <2>2, <2>3, HoldToldKept
  <1>4. ASSUME CommitCapture(r)
        PROVE  HoldTold(h)'
    <2> DEFINE c == IF req[r].asset = None THEN holds[g].amount ELSE req[r].units
               d == holds[g].amount - c
    <2>1. Emit("ledger.hold.captured", g, c, d)
      BY <1>4 DEF CommitCapture
    <2>2. c \in Int /\ d \in Int /\ c > 0 /\ d >= 0 /\ c + d = holds[g].amount
      <3>1. req[r].op = "capture" /\ req[r] \in Inputs /\ Valid(req[r])
        BY <1>1, <1>4, AtCommit
      <3>2. req[r].units \in Int
        BY <3>1, InputFields DEF CaptureInput
      <3>3. req[r].asset # None => req[r].units > 0
        BY <3>1 DEF Valid
      <3>4. req[r].asset # None => req[r].units <= holds[g].amount
        BY <1>1, <3>1 DEF ChecksStand
      <3> DEFINE a == holds[g].amount
                 u == req[r].units
      <3>5. c = a \/ (c = u /\ u > 0 /\ u <= a)
        BY <3>3, <3>4
      <3>6. a \in Int /\ a > 0 /\ u \in Int
        BY <1>2, <3>2
      <3>7. d = a - c
        OBVIOUS
      <3> HIDE DEF a, u, c, d
      <3>8. c \in Int /\ d \in Int /\ c > 0 /\ d >= 0 /\ c + d = a
        BY <3>5, <3>6, <3>7
      <3> QED
        BY <3>8 DEF a
    <2>3. CASE h # g
      <3> HIDE DEF c, d
      <3> QED
        BY <1>3, <2>1, <2>3
    <2>4. CASE h = g
      <3>1. (\E i : C = {i}) /\ E = {} /\ F = {}
        BY <1>1, <2>4 DEF HoldTold, Settled
      <3>2. /\ C' = C /\ E' = E \cup {n} /\ F' = F
            /\ \A i \in C : i < n
            /\ outbox'[n].captured = c /\ outbox'[n].released = d
        <4> HIDE DEF c, d, g, n
        <4> QED
          BY <1>t, <2>1, <2>4, EmitEvents DEF n
      <3>3. (\E i : C' = {i}) /\ E' = {n} /\ F' = {} /\ \A i \in C' : i < n
        BY <3>1, <3>2
      <3>4. h \in HoldIds' /\ Settled(h, "captured")' /\ ~Settled(h, "released")'
        BY <1>1, <1>4, <2>4 DEF Settled
      <3>5. holds'[h].amount = c + d
        BY <1>1, <2>2, <2>4
      <3> HIDE DEF C, E, F, n, c, d, g
      <3>6. \A j \in E' : /\ outbox'[j].captured > 0
                          /\ outbox'[j].released >= 0
                          /\ outbox'[j].captured + outbox'[j].released = holds'[h].amount
        BY <2>2, <3>2, <3>3, <3>5
      <3> QED
        BY <3>3, <3>4, <3>6 DEF HoldTold, C, E, F
    <2> QED
      BY <2>3, <2>4
  <1>5. ASSUME CommitRelease(r)
        PROVE  HoldTold(h)'
    <2>1. Emit("ledger.hold.released", g, 0, holds[g].amount)
      BY <1>5 DEF CommitRelease
    <2>3. CASE h # g
      BY <1>3, <2>1, <2>3
    <2>4. CASE h = g
      <3>1. (\E i : C = {i}) /\ E = {} /\ F = {}
        BY <1>1, <2>4 DEF HoldTold, Settled
      <3>2. /\ C' = C /\ E' = E /\ F' = F \cup {n}
            /\ \A i \in C : i < n
        <4> HIDE DEF g, n
        <4> QED
          BY <1>t, <2>1, <2>4, EmitEvents DEF n
      <3>3. (\E i : C' = {i}) /\ E' = {} /\ F' = {n} /\ \A i \in C' : i < n
        BY <3>1, <3>2
      <3>4. h \in HoldIds' /\ ~Settled(h, "captured")' /\ Settled(h, "released")'
        BY <1>1, <1>5, <2>4 DEF Settled
      <3> HIDE DEF C, E, F, n, g
      <3> QED
        BY <3>3, <3>4 DEF HoldTold, C, E, F
    <2> QED
      BY <2>3, <2>4
  <1> QED
    BY <1>4, <1>5

\* Every step keeps the outbox telling the story.
LEMMA StoryFollows ==
    ASSUME LedgerInvariant, DraftsReverseNothing, ChecksStand, OutboxTellsTheStory, [Next]_vars
    PROVE  OutboxTellsTheStory'
  <1>t. TypeOK /\ TypeOK'
    BY NextKeeps DEF LedgerInvariant
  <1>a. \A t \in Requests : TxTold(t) /\ HoldTold(t)
    BY <1>t, StoryParts
  <1>g. SUFFICES \A t \in Requests : TxTold(t)' /\ HoldTold(t)'
    <2>1. (\A t \in Requests : TxTold(t) /\ HoldTold(t))' => OutboxTellsTheStory'
      BY <1>t, StoryParts, PTL
    <2> QED
      BY <2>1
  <1>1. CASE UNCHANGED tables
    <2>1. transactions' = transactions /\ holds' = holds /\ outbox' = outbox
      BY <1>1 DEF tables
    <2>2. TxIds' = TxIds /\ HoldIds' = HoldIds
      BY <2>1 DEF TxIds, HoldIds
    <2>3. ASSUME NEW t \in Requests
          PROVE  TxTold(t)'
      <3>1. (PostedTold(t)' <=> PostedTold(t)) /\ (ReversedTold(t)' <=> ReversedTold(t))
        BY <2>1, <2>2 DEF PostedTold, ReversedTold, Firm
      <3> QED
        BY <1>a, <2>1, <3>1, TxToldKept
    <2>4. ASSUME NEW h \in Requests
          PROVE  HoldTold(h)'
      BY <1>a, <2>1, <2>2, HoldToldKept
    <2> QED
      BY <2>3, <2>4
  <1>2. ASSUME NEW r \in Requests, Commit(r), NEW t \in Requests
        PROVE  TxTold(t)' /\ HoldTold(t)'
    <2>1. TxTold(t) /\ HoldTold(t)
      BY <1>a
    <2>2. CASE CommitCreate(r) \/ CommitPost(r) \/ CommitReverse(r)
      <3>1. holds' = holds
        BY <2>2 DEF CommitCreate, CommitPost, CommitReverse
      <3>2. UNCHANGED outbox \/ \E u, c, d : Emit("ledger.transaction.posted", u, c, d)
                             \/ Emit("ledger.transaction.reversed", u, c, d)
        BY <2>2 DEF CommitCreate, CommitPost, CommitReverse
      <3> QED
        BY <1>t, <2>1, <2>2, <3>1, <3>2, TxCommitTells, UntouchedHolds
    <2>3. CASE CommitHold(r) \/ CommitCapture(r) \/ CommitRelease(r)
      <3>1. transactions' = transactions
        BY <2>3 DEF CommitHold, CommitCapture, CommitRelease
      <3>2. \E p \in {"ledger.hold.created", "ledger.hold.captured", "ledger.hold.released"} :
               \E h, c, d : Emit(p, h, c, d)
        BY <2>3 DEF CommitHold, CommitCapture, CommitRelease
      <3> QED
        BY <1>t, <2>1, <2>3, <3>1, <3>2, NewHoldTells, SettlementTells, UntouchedTransactions
    <2> QED
      BY <1>2, <2>2, <2>3 DEF Commit
  <1> QED
    BY <1>1, <1>2, OnlyCommitsWrite

---------------------------------------------------------------------------
(* The amounts fit their columns.                                          *)

\* A sum of naturals is a natural.
LEMMA SumNat ==
    ASSUME NEW f, NEW S, IsFiniteSet(S), \A x \in S : f[x] \in Nat
    PROVE  SumFunctionOnSet(f, S) \in Nat
  <1> DEFINE B == {s \in SUBSET S : SumFunctionOnSet(f, s) \notin Nat}
  <1>1. SUFFICES ASSUME B # {}
                 PROVE  FALSE
    OBVIOUS
  <1>2. PICK s \in B : \A t \in B : t \subseteq s => t = s
    <2> HIDE DEF B
    <2>1. B \subseteq SUBSET S
      BY DEF B
    <2> QED
      BY <1>1, <2>1, MinimalSubset
  <1>3. IsFiniteSet(s)
    BY FS_Subset
  <1>4. s # {}
    BY SumEmpty
  <1>5. Pick(s) \in s
    BY <1>4, PickIsMember
  <1>6. SumFunctionOnSet(f, s \ {Pick(s)}) \in Nat
    BY <1>2, <1>5
  <1>7. SumFunctionOnSet(f, s) \in Nat
    BY <1>3, <1>4, <1>5, <1>6, SumPick
  <1> QED
    BY <1>7

Positive(ps) == \A i \in 1..Len(ps) : ps[i].units > 0

\* What positive postings add to a row is not negative.
LEMMA TotalNat ==
    ASSUME NEW tr, NEW T, IsFiniteSet(T),
           \A t \in T : tr[t].postings \in Seq(Posting) /\ Positive(tr[t].postings), NEW x, NEW d
    PROVE  Total(tr, T, x, d) \in Nat
  <1> DEFINE f == [t \in T |-> SumUpTo(tr[t].postings, Len(tr[t].postings), x, d)]
  <1>1. ASSUME NEW t \in T
        PROVE  f[t] \in Nat
    <2> DEFINE ps == tr[t].postings
               n  == Len(ps)
               I  == {i \in 1..n : RowOf(ps[i]) = x /\ ps[i].direction = d}
    <2>1. ps \in Seq(Posting) /\ Positive(ps) /\ n \in Nat /\ n <= Len(ps)
      OBVIOUS
    <2>2. I \in SUBSET (1..n) /\ f[t] = SumFunctionOnSet(Units(ps), I)
      BY DEF SumUpTo
    <2> HIDE DEF ps, I, f
    <2>3. IsFiniteSet(I) /\ \A i \in I : Units(ps)[i] = ps[i].units /\ ps[i].units \in Int
      BY <2>1, <2>2, UnitsType
    <2>4. \A i \in I : ps[i].units > 0
      BY <2>1, <2>2 DEF Positive
    <2>5. \A i \in I : Units(ps)[i] \in Nat
      BY <2>3, <2>4
    <2> QED
      BY <2>2, <2>3, <2>5, SumNat
  <1> HIDE DEF f
  <1>2. SumFunctionOnSet(f, T) \in Nat
    BY <1>1, SumNat
  <1> QED
    BY <1>2 DEF Total, f

\* The columns of a balance row, one by one
LEMMA Columns ==
    ASSUME NEW b \in Balance
    PROVE  /\ (\A f \in DOMAIN ZeroBalance : b[f] \in 0..MaxInt64) <=>
                 /\ b.posted_debits \in 0..MaxInt64 /\ b.posted_credits \in 0..MaxInt64
                 /\ b.pending_debits \in 0..MaxInt64 /\ b.pending_credits \in 0..MaxInt64
                 /\ b.held \in 0..MaxInt64
           /\ OutOfRange(b) <=>
                 \/ b.posted_debits > MaxInt64 \/ b.posted_credits > MaxInt64
                 \/ b.pending_debits > MaxInt64 \/ b.pending_credits > MaxInt64
                 \/ b.held > MaxInt64
  <1>1. DOMAIN ZeroBalance = {"posted_debits", "posted_credits", "pending_debits",
                              "pending_credits", "held"}
    BY DEF ZeroBalance
  <1>2. DOMAIN b = {"posted_debits", "posted_credits", "pending_debits",
                    "pending_credits", "held"}
    BY DEF Balance
  <1>3. b # None
    BY ConstantsAssumption
  <1> QED
    BY <1>1, <1>2, <1>3 DEF OutOfRange

UnitsArePositive == \A t \in TxIds : Positive(transactions[t].postings)

\* The tables add up and every posting is positive.
AddedUp ==
    /\ LedgerInvariant
    /\ IsFiniteSet(TxIds) /\ IsFiniteSet(HoldIds)
    /\ BalancesMatchPostings
    /\ HeldMatchesHolds
    /\ UnitsArePositive

\* A balance row that no sum has made negative
Natural(b) ==
    /\ b \in Balance
    /\ b.posted_debits \in Nat /\ b.posted_credits \in Nat
    /\ b.pending_debits \in Nat /\ b.pending_credits \in Nat
    /\ b.held \in Nat

\* No committed total is negative: each is a sum of positive amounts.
LEMMA NoneIsNegative == AddedUp => \A x \in Rows : Natural(OrZero(account_balances[x]))
  <1> SUFFICES ASSUME AddedUp, NEW x \in Rows
               PROVE  Natural(OrZero(account_balances[x]))
    OBVIOUS
  <1>t. TypeOK /\ Matches(x) /\ HeldRight(x)
    BY MatchesAll, HeldRightAll DEF AddedUp, LedgerInvariant
  <1>b. OrZero(account_balances[x]) \in Balance
    BY <1>t DEF TypeOK, OrZero, ZeroBalance, Balance
  <1>1. \A t \in TxIds : transactions[t].postings \in Seq(Posting) /\ Positive(transactions[t].postings)
    BY <1>t DEF AddedUp, UnitsArePositive, TypeOK, Transaction, TxIds
  <1>2. FirmIds \subseteq TxIds /\ DraftIds \subseteq TxIds /\ IsFiniteSet(TxIds)
    BY DEF AddedUp, FirmIds, DraftIds
  <1>3. IsFiniteSet(FirmIds) /\ IsFiniteSet(DraftIds)
    BY <1>2, FS_Subset
  <1>4. ASSUME NEW d
        PROVE  Total(transactions, FirmIds, x, d) \in Nat /\ Total(transactions, DraftIds, x, d) \in Nat
    BY <1>1, <1>2, <1>3, TotalNat
  <1>5. Reserved(holds, HoldIds, x) \in Nat
    <2> DEFINE f == [h \in HoldIds |-> holds[h].amount]
               A == ActiveOn(holds, HoldIds, x)
    <2>1. A \subseteq HoldIds
      BY DEF ActiveOn
    <2>2. ASSUME NEW h \in HoldIds
          PROVE  f[h] \in Nat
      <3>1. holds[h].amount \in Int /\ holds[h].amount > 0
        BY <1>t DEF AddedUp, LedgerInvariant, RowsExist, TypeOK, Hold, HoldIds
      <3> QED
        BY <3>1
    <2>3. Reserved(holds, HoldIds, x) = SumFunctionOnSet(f, A)
      BY DEF Reserved
    <2>4. IsFiniteSet(A)
      BY <2>1, FS_Subset DEF AddedUp
    <2> HIDE DEF f, A
    <2> QED
      BY <2>1, <2>2, <2>3, <2>4, SumNat
  <1> QED
    BY <1>t, <1>b, <1>4, <1>5 DEF Matches, HeldRight, Natural

\* Every step keeps postings positive: a create is validated, a reversal keeps units.
LEMMA UnitsFollow ==
    ASSUME LedgerInvariant, UnitsArePositive, [Next]_vars
    PROVE  UnitsArePositive'
  <1>1. CASE UNCHANGED tables
    BY <1>1 DEF tables, UnitsArePositive, TxIds
  <1>2. ASSUME NEW r \in Requests, Commit(r)
        PROVE  \A t \in TxIds' : Positive(transactions'[t].postings)
    <2>1. CASE CommitCreate(r)
      <3>1. /\ pc[r] = "commit" /\ req[r].op = "create"
            /\ TxIds' = TxIds \cup {r}
            /\ \A t \in TxIds : transactions'[t] = transactions[t]
            /\ transactions'[r].postings = req[r].postings
        BY <2>1, CreateEffect
      <3>2. Positive(req[r].postings)
        BY <3>1, AtCommit DEF Valid, ValidateBalanced, Positive
      <3> QED
        BY <3>1, <3>2 DEF UnitsArePositive
    <2>2. CASE CommitPost(r)
      <3>1. TxIds' = TxIds /\ \A t \in TxIds : transactions'[t].postings = transactions[t].postings
        BY <2>2, PostEffect
      <3> QED
        BY <3>1 DEF UnitsArePositive
    <2>3. CASE CommitReverse(r)
      <3> DEFINE t  == req[r].target
                 ps == transactions[t].postings
      <3>1. /\ t \in TxIds /\ TxIds' = TxIds \cup {r}
            /\ \A u \in TxIds : transactions'[u].postings = transactions[u].postings
            /\ transactions'[r].postings = ReversePostings(ps)
        BY <2>3, ReverseEffect
      <3>2. ps \in Seq(Posting)
        BY <3>1 DEF LedgerInvariant, TypeOK, Transaction, TxIds
      <3>3. Positive(ps)
        BY <3>1 DEF UnitsArePositive
      <3>4. Positive(ReversePostings(ps))
        <4> HIDE DEF ps
        <4> QED
          BY <3>2, <3>3, ReversePostingsType DEF Positive
      <3> QED
        BY <3>1, <3>4 DEF UnitsArePositive
    <2>4. CASE CommitHold(r) \/ CommitCapture(r) \/ CommitRelease(r)
      <3>1. transactions' = transactions
        BY <2>4, HoldEffect, SettleEffect
      <3> QED
        BY <3>1 DEF UnitsArePositive, TxIds
    <2> QED
      BY <1>2, <2>1, <2>2, <2>3, <2>4 DEF Commit
  <1> QED
    BY <1>1, <1>2, OnlyCommitsWrite DEF UnitsArePositive

\* AmountsFit, by what it is about
Fit(x) == \A f \in DOMAIN ZeroBalance : OrZero(account_balances[x])[f] \in 0..MaxInt64

VersionsFit(r) ==
    \A x \in Rows :
        pc[r] \in {"apply", "commit"} /\ BalanceRow(x) \in locks[r] => ~OutOfRange(uncommitted[r][x])

\* AmountsFit is the conjunction of these parts.
LEMMA FitParts ==
    AmountsFit <=> /\ \A x \in Rows : Fit(x)
                   /\ \A r \in Requests : VersionsFit(r)
                   /\ UnitsArePositive
  BY DEF AmountsFit, Fit, VersionsFit, UnitsArePositive, Positive

\* What is held needs no check: a hold is let through up to what is available, and
\* what is available is at most one column.  A settlement lowers held.
LEMMA HeldFits ==
    AddedUp /\ (\A x \in Rows : Fit(x)) =>
        \A r \in Requests : req[r].op \notin TxOps => VersionsFit(r)
  <1> SUFFICES ASSUME AddedUp, \A x \in Rows : Fit(x), NEW r \in Requests, req[r].op \notin TxOps,
                      NEW x \in Rows, pc[r] \in {"apply", "commit"}, BalanceRow(x) \in locks[r]
               PROVE  ~OutOfRange(uncommitted[r][x])
    BY DEF VersionsFit
  <1> DEFINE in == req[r]
             b  == account_balances[x]
             u  == uncommitted[r][x]
  <1>i. LedgerInvariant /\ TypeOK /\ Shape(r) /\ Protects(r) /\ Versions(r)
    BY DEF AddedUp, LedgerInvariant, LocksProtect
  <1>n. Natural(OrZero(b))
    BY NoneIsNegative
  <1>o. in \in Inputs /\ (in.op = "hold" \/ in.op \in SettleOps)
    BY <1>i, InputFields DEF Shape, Open
  <1>m. MaxInt64 \in Nat
    BY ConstantsAssumption
  <1>c. ASSUME b # None
        PROVE  /\ b \in Balance
               /\ b.posted_debits \in 0..MaxInt64 /\ b.posted_credits \in 0..MaxInt64
               /\ b.pending_debits \in 0..MaxInt64 /\ b.pending_credits \in 0..MaxInt64
               /\ b.held \in 0..MaxInt64
    <2>1. OrZero(b) = b /\ b \in Balance
      BY <1>c, <1>n DEF OrZero, Natural
    <2>2. \A f \in DOMAIN ZeroBalance : b[f] \in 0..MaxInt64
      BY <2>1 DEF Fit
    <2> HIDE DEF b
    <2> QED
      BY <2>1, <2>2, Columns
  <1>e. ASSUME NEW c \in Balance, NEW n \in Int
        PROVE  LET v == [c EXCEPT !.held = n] IN
               /\ v \in Balance /\ v.held = n
               /\ v.posted_debits = c.posted_debits /\ v.posted_credits = c.posted_credits
               /\ v.pending_debits = c.pending_debits /\ v.pending_credits = c.pending_credits
    BY DEF Balance
  <1>f. ASSUME b # None, NEW n \in Int, u = [b EXCEPT !.held = n], n <= MaxInt64
        PROVE  ~OutOfRange(u)
    <2>1. /\ u \in Balance /\ u.held = n
          /\ u.posted_debits = b.posted_debits /\ u.posted_credits = b.posted_credits
          /\ u.pending_debits = b.pending_debits /\ u.pending_credits = b.pending_credits
      BY <1>c, <1>e, <1>f
    <2>2. /\ b.posted_debits \in 0..MaxInt64 /\ b.posted_credits \in 0..MaxInt64
          /\ b.pending_debits \in 0..MaxInt64 /\ b.pending_credits \in 0..MaxInt64
      BY <1>c, <1>f
    <2>3. OutOfRange(u) <=> \/ u.posted_debits > MaxInt64 \/ u.posted_credits > MaxInt64
                            \/ u.pending_debits > MaxInt64 \/ u.pending_credits > MaxInt64
                            \/ u.held > MaxInt64
      <3> HIDE DEF u
      <3> QED
        BY <2>1, Columns
    <2>4. ASSUME NEW m \in 0..MaxInt64
          PROVE  ~(m > MaxInt64)
      BY <1>m
    <2>5. ~(n > MaxInt64)
      BY <1>f, <1>m
    <2> HIDE DEF b, u
    <2> QED
      BY <2>1, <2>2, <2>3, <2>4, <2>5
  <1>1. CASE in.op = "hold"
    <2>1. pc[r] = "commit"
      BY <1>1, <1>i DEF Shape
    <2>2. x = RowOf(in) /\ u = [b EXCEPT !.held = @ + in.units]
      BY <1>1, <1>i, <2>1 DEF Versions
    <2>3. b # None /\ Available(b, NormalBalance[in.account]) >= in.units
      BY <1>1, <1>i, <2>1, <2>2 DEF Protects
    <2>4. in.units \in Int
      BY <1>1, <1>o, InputFields DEF HoldInput
    <2>5. /\ b \in Balance
          /\ b.posted_debits \in 0..MaxInt64 /\ b.posted_credits \in 0..MaxInt64
          /\ b.held \in 0..MaxInt64
      BY <1>c, <2>3
    <2>6. u = [b EXCEPT !.held = b.held + in.units]
      BY <2>2
    <2>7. b.held + in.units \in Int /\ b.held + in.units <= MaxInt64
      <3> HIDE DEF b
      <3> QED
        BY <1>m, <2>3, <2>4, <2>5 DEF Available, PostedNet
    <2> QED
      BY <1>f, <2>3, <2>6, <2>7
  <1>2. CASE in.op \in SettleOps
    <2> DEFINE h == holds[in.target]
    <2>1. pc[r] = "commit"
      BY <1>2, <1>i DEF Versions
    <2>2. x = RowOf(h) /\ u = [b EXCEPT !.held = @ - h.amount]
      BY <1>2, <1>i, <2>1 DEF Versions
    <2>3. in.target \in HoldIds /\ h \in Hold
      BY <1>2, <1>i, <1>o, TargetType DEF Protects, HoldIds, SettleOps, TypeOK
    <2>4. b # None /\ h.amount > 0 /\ h.amount \in Int
      BY <1>i, <2>2, <2>3 DEF LedgerInvariant, RowsExist, Hold
    <2>5. b \in Balance /\ b.held \in 0..MaxInt64
      BY <1>c, <2>4
    <2>6. u = [b EXCEPT !.held = b.held - h.amount]
      BY <2>2
    <2>7. b.held - h.amount \in Int /\ b.held - h.amount <= MaxInt64
      <3> HIDE DEF b, h
      <3> QED
        BY <1>m, <2>4, <2>5
    <2> QED
      BY <1>f, <2>4, <2>6, <2>7
  <1> QED
    BY <1>o, <1>1, <1>2

\* What a commit writes to the balance rows was in range when it was computed.
LEMMA RowsFollow ==
    ASSUME LedgerInvariant, AmountsFit, [Next]_vars, AddedUp'
    PROVE  \A x \in Rows : Fit(x)'
  <1>0. AddedUp' => (\A x \in Rows : Natural(OrZero(account_balances[x])))'
    BY NoneIsNegative, PTL
  <1> SUFFICES ASSUME NEW x \in Rows
               PROVE  Fit(x)'
    OBVIOUS
  <1>p. Fit(x) /\ \A r \in Requests : VersionsFit(r)
    BY FitParts
  <1>m. MaxInt64 \in Nat
    BY ConstantsAssumption
  <1>n. Natural(OrZero(account_balances'[x]))
    BY <1>0 DEF OrZero, Rows
  <1>1. CASE UNCHANGED tables
    BY <1>1, <1>p DEF tables, Fit, OrZero
  <1>2. ASSUME NEW r \in Requests, Commit(r)
        PROVE  Fit(x)'
    <2>1. pc[r] = "commit" /\ account_balances'[x] = Current(r, x)
      BY <1>2, CommitEnds DEF CommitBalances
    <2>2. CASE BalanceRow(x) \notin locks[r]
      <3>1. account_balances'[x] = account_balances[x]
        BY <2>1, <2>2 DEF Current
      <3> QED
        BY <1>p, <3>1 DEF Fit, OrZero
    <2>3. CASE BalanceRow(x) \in locks[r]
      <3> DEFINE b == OrZero(account_balances'[x])
      <3>1. account_balances'[x] = uncommitted[r][x] /\ ~OutOfRange(uncommitted[r][x])
        BY <1>p, <2>1, <2>3 DEF Current, VersionsFit
      <3>2. b = ZeroBalance \/ ~OutOfRange(b)
        BY <3>1 DEF OrZero
      <3>3. ~OutOfRange(ZeroBalance)
        BY <1>m DEF OutOfRange, ZeroBalance
      <3>4. Fit(x)' <=> \A f \in DOMAIN ZeroBalance : b[f] \in 0..MaxInt64
        BY DEF Fit, OrZero
      <3> HIDE DEF b
      <3>5. b \in Balance /\ Natural(b)
        BY <1>n DEF Natural, b
      <3>6. \A f \in DOMAIN ZeroBalance : b[f] \in 0..MaxInt64
        BY <1>m, <3>2, <3>3, <3>5, Columns DEF Natural
      <3> QED
        BY <3>4, <3>6
    <2> QED
      BY <2>2, <2>3
  <1> QED
    BY <1>1, <1>2, OnlyCommitsWrite

\* A version that PostgreSQL accepted is in range.
LEMMA AppliedFits ==
    ASSUME LedgerInvariant, NEW r \in Requests, VersionsFit(r), ApplyBalance(r), pc'[r] # "done",
           NEW y \in Rows, BalanceRow(y) \in locks'[r]
    PROVE  ~OutOfRange(uncommitted'[r][y])
  <1> DEFINE x == RowOf(PostingsOf(r)[idx[r] + 1])
             b == NewVersion(r, Current(r, x), PostingsOf(r)[idx[r] + 1])
             next == IF idx[r] + 1 = Len(PostingsOf(r)) THEN "commit" ELSE "apply"
  <1>t. TypeOK
    BY DEF LedgerInvariant
  <1>0. pc[r] = "apply" /\ (\/ Fail(r, "error")
                            \/ /\ ~OutOfRange(b) /\ Advance(r, next, {BalanceRow(x)})
                               /\ uncommitted' = [uncommitted EXCEPT ![r][x] = b])
    BY DEF ApplyBalance
  <1>1. ~Fail(r, "error")
    BY <1>t DEF Fail, Answer, TypeOK
  <1>x. req[r].op \in TxOps
    BY DEF ApplyBalance, TxOps
  <1>y. /\ PostingsOf(r) \in Seq(Posting)
        /\ \A i \in 1..Len(PostingsOf(r)) : RowOf(PostingsOf(r)[i]) \in Rows
    BY <1>0, <1>x, PostingsType
  <1>z. idx[r] < Len(PostingsOf(r)) /\ idx[r] \in Nat
    BY <1>0, <1>x, <1>t DEF LedgerInvariant, LocksProtect, Versions, TypeOK
  <1>w. x \in Rows
    BY <1>y, <1>z
  <1> HIDE DEF b, x, next
  <1>2. locks'[r] = locks[r] \cup {BalanceRow(x)}
    BY <1>0, <1>1, <1>t DEF Advance, TypeOK
  <1>3. uncommitted'[r][y] = IF y = x THEN b ELSE uncommitted[r][y]
    BY <1>0, <1>1, <1>t, <1>w DEF TypeOK
  <1>4. CASE y = x
    BY <1>0, <1>1, <1>3, <1>4
  <1>5. CASE y # x
    <2>1. BalanceRow(y) \in locks[r]
      BY <1>2, <1>5 DEF BalanceRow
    <2> QED
      BY <1>0, <1>3, <1>5, <2>1 DEF VersionsFit
  <1> QED
    BY <1>4, <1>5

\* Every step keeps the amounts in range.
LEMMA AmountsFollow ==
    ASSUME LedgerInvariant, AmountsFit, [Next]_vars, AddedUp'
    PROVE  AmountsFit'
  <1>p. UnitsArePositive /\ \A r \in Requests : VersionsFit(r)
    BY FitParts
  <1>1. UnitsArePositive'
    BY DEF AddedUp
  <1>2. \A x \in Rows : Fit(x)'
    BY RowsFollow
  <1>3. \A r \in Requests : req'[r].op \notin TxOps => VersionsFit(r)'
    <2>1. AddedUp' /\ (\A x \in Rows : Fit(x))' =>
             (\A r \in Requests : req[r].op \notin TxOps => VersionsFit(r))'
      BY HeldFits, PTL
    <2> QED
      BY <1>2, <2>1 DEF Rows, TxOps
  <1>4. ASSUME NEW s \in Requests, SameControl(s)
        PROVE  VersionsFit(s)'
    BY <1>4, <1>p DEF VersionsFit, SameControl, BalanceRow
  <1>5. ASSUME NEW r \in Requests, NEW in \in Inputs, Receive(r, in) \/ Reject(r, in)
        PROVE  \A s \in Requests : VersionsFit(s)'
    <2>1. VersionsFit(r)'
      BY <1>5, ReceiveIsPrivate DEF VersionsFit
    <2> QED
      BY <1>4, <1>5, <2>1, ReceiveIsPrivate
  <1>6. ASSUME NEW r \in Requests, Step(r) \/ Fault(r)
        PROVE  \A s \in Requests : VersionsFit(s)'
    <2>q. req' = req /\ \A s \in Requests \ {r} : SameControl(s)
      BY <1>6, OthersKept
    <2>1. VersionsFit(r)'
      <3>1. CASE req[r].op \notin TxOps
        BY <1>3, <2>q, <3>1
      <3>2. CASE pc'[r] \notin {"apply", "commit"}
        BY <3>2 DEF VersionsFit
      <3>3. CASE req[r].op \in TxOps /\ pc'[r] \in {"apply", "commit"}
        <4>1. \/ ApplyBalance(r)
              \/ \A x \in Rows : BalanceRow(x) \notin locks'[r]
          BY <1>6, <3>3, WaysIn DEF TxOps, SettleOps, ReleaseHeld
        <4>2. CASE ApplyBalance(r)
          <5>1. \A y \in Rows : BalanceRow(y) \in locks'[r] => ~OutOfRange(uncommitted'[r][y])
            BY <1>p, <3>3, <4>2, AppliedFits
          <5> QED
            BY <5>1 DEF VersionsFit, BalanceRow, OutOfRange
        <4>3. CASE \A x \in Rows : BalanceRow(x) \notin locks'[r]
          BY <4>3 DEF VersionsFit, BalanceRow
        <4> QED
          BY <4>1, <4>2, <4>3
      <3> QED
        BY <3>1, <3>2, <3>3
    <2> QED
      BY <1>4, <2>q, <2>1
  <1>7. ASSUME Finished \/ UNCHANGED vars
        PROVE  \A s \in Requests : VersionsFit(s)'
    <2>1. \A s \in Requests : SameControl(s)
      BY <1>7 DEF Finished, vars, SameControl
    <2> QED
      BY <1>4, <2>1
  <1>8. \A r \in Requests : VersionsFit(r)'
    BY <1>5, <1>6, <1>7 DEF Next
  <1>9. AmountsFit' <=> /\ (\A x \in Rows : Fit(x))'
                        /\ (\A r \in Requests : VersionsFit(r))'
                        /\ UnitsArePositive'
    BY FitParts, PTL
  <1> QED
    BY <1>1, <1>2, <1>8, <1>9 DEF Rows

---------------------------------------------------------------------------
(* Every key has its answer.                                               *)

\* A create or a reversal leaves an answer, with the status of its row.
LEMMA NewAnswer ==
    ASSUME LedgerInvariant, NEW r \in Requests, CommitCreate(r) \/ CommitReverse(r)
    PROVE  /\ idempotency_keys'[EffectiveKey(req[r])] # None
           /\ idempotency_keys'[EffectiveKey(req[r])].status = FirstStatus(req[r])
  <1> DEFINE e   == EffectiveKey(req[r])
             row == [hash |-> Fingerprint(req[r]), id |-> r, status |-> FirstStatus(req[r])]
  <1>t. TypeOK
    BY DEF LedgerInvariant
  <1>1. req[r] \in Keyed /\ e \in KeySpace /\ Fingerprint(req[r]) \in Hashes
    BY CreateEffect, ReverseEffect, KeyType
  <1>2. FirstStatus(req[r]) \in {"draft", "posted"}
    BY CreateEffect, ReverseEffect DEF FirstStatus, CreateInput
  <1>3. row \in StoredAnswer
    BY <1>1, <1>2 DEF StoredAnswer
  <1>4. idempotency_keys' = [idempotency_keys EXCEPT ![e] = row]
    BY DEF CommitCreate, CommitReverse, EffectiveKey, FirstStatus
  <1>5. row.status = FirstStatus(req[r])
    OBVIOUS
  <1> HIDE DEF e, row
  <1>6. idempotency_keys'[e] = row
    BY <1>1, <1>4, <1>t DEF TypeOK
  <1>7. row # None
    BY <1>3, ConstantsAssumption
  <1> QED
    BY <1>5, <1>6, <1>7 DEF e

\* A hold answers for its key.
LEMMA HoldIsStored ==
    TypeOK => \A in \in Keyed : in.op = "hold" /\ HoldsWithKey(EffectiveKey(in)) # {} => Stored(in) # None
  <1> SUFFICES ASSUME TypeOK, NEW in \in Keyed, in.op = "hold", HoldsWithKey(EffectiveKey(in)) # {}
               PROVE  Stored(in) # None
    OBVIOUS
  <1> DEFINE h == CHOOSE h \in HoldsWithKey(EffectiveKey(in)) : TRUE
             a == [hash |-> holds[h].hash, id |-> h, status |-> holds[h].status]
  <1>1. h \in Requests /\ holds[h] # None
    BY DEF HoldsWithKey
  <1>2. Stored(in) = a
    BY DEF Stored
  <1> HIDE DEF h
  <1>3. holds[h] \in Hold
    BY <1>1 DEF TypeOK
  <1>4. a \in HoldAnswer
    BY <1>1, <1>3 DEF Hold, HoldAnswer
  <1> HIDE DEF a
  <1> QED
    BY <1>2, <1>4, ConstantsAssumption

\* An answer, once stored, is never taken away.
LEMMA AnswersStay ==
    ASSUME LedgerInvariant, [Next]_vars
    PROVE  /\ \A k \in KeySpace : idempotency_keys[k] # None => idempotency_keys'[k] # None
           /\ \A in \in Keyed : Stored(in) # None => Stored(in)' # None
  <1>t. TypeOK'
    BY NextKeeps DEF LedgerInvariant
  <1>h. TypeOK' => (\A in \in Keyed : in.op = "hold" /\ HoldsWithKey(EffectiveKey(in)) # {}
                                          => Stored(in) # None)'
    BY HoldIsStored, PTL
  <1>1. \A k \in KeySpace : idempotency_keys[k] # None => idempotency_keys'[k] # None
    <2>1. CASE UNCHANGED tables
      BY <2>1 DEF tables
    <2>2. ASSUME NEW r \in Requests, Commit(r)
          PROVE  \A k \in KeySpace : idempotency_keys[k] # None => idempotency_keys'[k] # None
      <3>1. CASE CommitCreate(r) \/ CommitReverse(r)
        BY <3>1, KeysEffect, NewAnswer
      <3>2. CASE CommitPost(r) \/ CommitHold(r) \/ CommitCapture(r) \/ CommitRelease(r)
        BY <3>2 DEF CommitPost, CommitHold, CommitCapture, CommitRelease
      <3> QED
        BY <2>2, <3>1, <3>2 DEF Commit
    <2> QED
      BY <2>1, <2>2, OnlyCommitsWrite
  <1>2. ASSUME NEW in \in Keyed, in.op # "hold", Stored(in) # None
        PROVE  Stored(in)' # None
    <2>1. EffectiveKey(in) \in KeySpace
      BY KeyType
    <2> QED
      BY <1>1, <1>2, <2>1 DEF Stored
  <1>3. ASSUME NEW in \in Keyed, in.op = "hold", Stored(in) # None
        PROVE  Stored(in)' # None
    <2> DEFINE k == EffectiveKey(in)
    <2>1. PICK h \in HoldIds : holds[h].key = k
      BY <1>3 DEF Stored, HoldsWithKey, HoldIds
    <2>2. h \in HoldIds' /\ holds'[h].key = k
      BY <2>1, RowsStay
    <2>3. h \in HoldsWithKey(k)'
      BY <2>2 DEF HoldIds, HoldsWithKey
    <2> QED
      BY <1>3, <1>h, <1>t, <2>3
  <1> QED
    BY <1>1, <1>2, <1>3

\* Only a unique violation sends a request to look again.
LEMMA WaysToRecheck ==
    ASSUME LedgerInvariant, NEW r \in Requests, Step(r) \/ Fault(r), pc'[r] = "recheck"
    PROVE  /\ UNCHANGED tables
           /\ \/ InsertTransaction(r) /\ TransactionsWithKey(EffectiveKey(req[r])) # {}
              \/ InsertHold(r) /\ HoldsWithKey(EffectiveKey(req[r])) # {}
  <1>t. TypeOK
    BY DEF LedgerInvariant
  <1>1. ASSUME NEW code, NEW id, NEW status, Answer(r, code, id, status)
        PROVE  FALSE
    BY <1>1, <1>t DEF Answer, TypeOK
  <1>2. ASSUME NEW step, NEW held, Advance(r, step, held)
        PROVE  step = "recheck"
    BY <1>2, <1>t DEF Advance, TypeOK
  <1>3. CASE LookupHit(r) \/ Recheck(r) \/ TargetMissing(r) \/ DeadlockVictim(r) \/ Fault(r)
    BY <1>1, <1>3 DEF LookupHit, Recheck, TargetMissing, DeadlockVictim, Fault, Crash, RecheckFails, Fail
  <1>4. CASE LookupMiss(r) \/ CheckReferences(r)
    <2>1. \/ \E code : Fail(r, code)
          \/ Advance(r, IF req[r].op = "create" THEN "insert" ELSE "lock", {})
          \/ Advance(r, IF req[r].op = "reverse" THEN "lock" ELSE "check", {})
      BY <1>4 DEF LookupMiss, CheckReferences
    <2> QED
      BY <1>1, <1>2, <2>1 DEF Fail
  <1>5. CASE PostLock(r) \/ ReverseLock(r) \/ HoldLock(r) \/ SettleLock(r) \/ ReleaseHeld(r)
    BY <1>1, <1>2, <1>5 DEF PostLock, ReverseLock, HoldLock, SettleLock, ReleaseHeld, Fail
  <1>6. CASE ApplyBalance(r)
    <2>1. (\E code : Fail(r, code))
          \/ \E held : Advance(r, IF idx[r] + 1 = Len(PostingsOf(r)) THEN "commit" ELSE "apply", held)
      BY <1>6 DEF ApplyBalance
    <2> QED
      BY <1>1, <1>2, <2>1 DEF Fail
  <1>7. CASE Commit(r)
    BY <1>1, <1>7 DEF Commit, CommitCreate, CommitPost, CommitReverse, CommitHold, CommitCapture,
                      CommitRelease
  <1>8. CASE InsertTransaction(r)
    BY <1>2, <1>8 DEF InsertTransaction, UniqueViolation
  <1>9. CASE InsertHold(r)
    BY <1>2, <1>9 DEF InsertHold, UniqueViolation
  <1> QED
    BY <1>3, <1>4, <1>5, <1>6, <1>7, <1>8, <1>9 DEF Step, Commit

\* A request that lost the race for its key has an answer to find.
LEMMA RecheckFinds ==
    ASSUME LedgerInvariant, KeysAnswer, NEW r \in Requests, Step(r) \/ Fault(r), pc'[r] = "recheck"
    PROVE  Stored(req[r])' # None
  <1> DEFINE in == req[r]
             k  == EffectiveKey(in)
  <1>0. /\ UNCHANGED tables
        /\ \/ InsertTransaction(r) /\ TransactionsWithKey(k) # {}
           \/ InsertHold(r) /\ HoldsWithKey(k) # {}
    BY WaysToRecheck
  <1>1. in \in Keyed /\ req' = req
    <2>1. pc[r] = "insert"
      BY <1>0 DEF InsertTransaction, InsertHold
    <2> QED
      BY <2>1, OthersKept DEF LedgerInvariant, LocksProtect, Shape
  <1>2. CASE InsertTransaction(r) /\ TransactionsWithKey(k) # {}
    <2>1. PICK t \in TxIds : transactions[t].key = k
      BY <1>2 DEF TransactionsWithKey, TxIds
    <2>2. idempotency_keys[k] # None
      BY <2>1 DEF KeysAnswer
    <2> QED
      BY <1>0, <1>1, <1>2, <2>2 DEF Stored, InsertTransaction, tables
  <1>3. CASE InsertHold(r) /\ HoldsWithKey(k) # {}
    <2>1. Stored(in) # None
      BY <1>1, <1>3, HoldIsStored DEF InsertHold, LedgerInvariant
    <2>2. [Next]_vars
      BY DEF Next
    <2> QED
      BY <1>1, <2>1, <2>2, AnswersStay
  <1> QED
    BY <1>0, <1>2, <1>3

\* Every step keeps the answers of the keys.
LEMMA KeysAnswerFollow ==
    ASSUME LedgerInvariant, KeysAnswer, [Next]_vars
    PROVE  KeysAnswer'
  <1>s. /\ \A k \in KeySpace : idempotency_keys[k] # None => idempotency_keys'[k] # None
        /\ \A in \in Keyed : Stored(in) # None => Stored(in)' # None
        /\ \A t \in TxIds : transactions'[t].key = transactions[t].key
    BY AnswersStay, RowsStay
  <1>k. \A t \in TxIds : transactions[t].key \in KeySpace
    BY DEF LedgerInvariant, TypeOK, TxIds, Transaction
  <1>1. \A t \in TxIds' : idempotency_keys'[transactions'[t].key] # None
    <2>1. \A t \in TxIds : idempotency_keys'[transactions'[t].key] # None
      BY <1>s, <1>k DEF KeysAnswer
    <2>2. ASSUME NEW r \in Requests, Commit(r)
          PROVE  \A t \in TxIds' : idempotency_keys'[transactions'[t].key] # None
      <3>1. CASE CommitCreate(r) \/ CommitReverse(r)
        <4>1. TxIds' = TxIds \cup {r}
          BY <3>1, CreateEffect, ReverseEffect
        <4> QED
          BY <2>1, <3>1, <4>1, KeysEffect, NewAnswer
      <3>2. CASE CommitPost(r) \/ CommitHold(r) \/ CommitCapture(r) \/ CommitRelease(r)
        <4>1. TxIds' = TxIds
          BY <3>2, PostEffect, HoldEffect, SettleEffect DEF TxIds
        <4> QED
          BY <2>1, <4>1
      <3> QED
        BY <2>2, <3>1, <3>2 DEF Commit
    <2>3. CASE UNCHANGED tables
      <3>1. TxIds' = TxIds
        BY <2>3 DEF tables, TxIds
      <3> QED
        BY <2>1, <3>1
    <2> QED
      BY <2>2, <2>3, OnlyCommitsWrite
  <1>q. \A t \in TxIds : req'[t] = req[t]
    <2>1. ASSUME NEW r \in Requests, NEW in \in Inputs, Receive(r, in) \/ Reject(r, in)
          PROVE  \A t \in TxIds : req'[t] = req[t]
      <3>1. pc[r] = "idle" /\ \A s \in Requests \ {r} : req'[s] = req[s]
        BY <2>1, ReceiveIsPrivate DEF SameControl
      <3>2. r \notin TxIds
        BY <3>1 DEF LedgerInvariant, LocksProtect, Shape, TxIds
      <3> QED
        BY <3>1, <3>2 DEF TxIds
    <2>2. ASSUME NEW r \in Requests, Step(r) \/ Fault(r)
          PROVE  req' = req
      BY <2>2, OthersKept
    <2> QED
      BY <2>1, <2>2 DEF Next, Finished, vars
  <1>2. ASSUME NEW k \in KeySpace, idempotency_keys'[k] # None
        PROVE  idempotency_keys'[k].status = FirstStatus(req'[idempotency_keys'[k].id])
    <2>1. CASE idempotency_keys'[k] = idempotency_keys[k]
      <3>1. idempotency_keys[k].id \in TxIds
        BY <1>2, <2>1 DEF LedgerInvariant, OneEffectPerKey
      <3> QED
        BY <1>2, <1>q, <2>1, <3>1 DEF KeysAnswer
    <2>2. ASSUME NEW r \in Requests, CommitCreate(r) \/ CommitReverse(r), k = EffectiveKey(req[r])
          PROVE  idempotency_keys'[k].status = FirstStatus(req'[idempotency_keys'[k].id])
      <3>1. req' = req
        BY <2>2 DEF CommitCreate, CommitReverse, Answer
      <3> QED
        BY <2>2, <3>1, KeysEffect, NewAnswer
    <2>3. CASE UNCHANGED tables
      BY <2>1, <2>3 DEF tables
    <2>4. ASSUME NEW r \in Requests, Commit(r)
          PROVE  idempotency_keys'[k].status = FirstStatus(req'[idempotency_keys'[k].id])
      <3>1. CASE CommitCreate(r) \/ CommitReverse(r)
        BY <2>1, <2>2, <3>1, KeysEffect
      <3>2. CASE CommitPost(r) \/ CommitHold(r) \/ CommitCapture(r) \/ CommitRelease(r)
        BY <2>1, <3>2 DEF CommitPost, CommitHold, CommitCapture, CommitRelease
      <3> QED
        BY <2>4, <3>1, <3>2 DEF Commit
    <2> QED
      BY <2>3, <2>4, OnlyCommitsWrite
  <1>3. ASSUME NEW s \in Requests, pc'[s] = "recheck"
        PROVE  Stored(req[s])' # None
    <2>1. ASSUME SameControl(s)
          PROVE  Stored(req[s])' # None
      <3>1. pc[s] = "recheck" /\ req'[s] = req[s]
        BY <1>3, <2>1 DEF SameControl
      <3>2. req[s] \in Keyed /\ Stored(req[s]) # None
        BY <3>1 DEF LedgerInvariant, LocksProtect, Shape, KeysAnswer
      <3>3. \A in \in Keyed : Stored(in) # None => Stored(in)' # None
        BY <1>s
      <3> QED
        BY <3>1, <3>2, <3>3 DEF Stored, HoldsWithKey
    <2>2. ASSUME NEW r \in Requests, NEW in \in Inputs, Receive(r, in) \/ Reject(r, in)
          PROVE  SameControl(s)
      BY <1>3, <2>2, ReceiveIsPrivate
    <2>3. ASSUME NEW r \in Requests, Step(r) \/ Fault(r)
          PROVE  Stored(req[s])' # None
      BY <1>3, <2>1, <2>3, OthersKept, RecheckFinds
    <2>4. ASSUME Finished \/ UNCHANGED vars
          PROVE  SameControl(s)
      BY <2>4 DEF Finished, vars, SameControl
    <2> QED
      BY <2>1, <2>2, <2>3, <2>4 DEF Next
  <1> QED
    BY <1>1, <1>2, <1>3 DEF KeysAnswer, FirstStatus

---------------------------------------------------------------------------
(* What a request was let through for still holds.                         *)

\* AdmissionsStand, of one request
Admitted(r) ==
    /\ pc[r] \in {"lock", "insert", "apply", "commit"} /\ req[r].op \in {"create", "hold"} =>
          ~Misnames(req[r])
    /\ pc[r] \in {"apply", "commit"} /\ req[r].op = "capture" =>
          CaptureError(req[r], holds[req[r].target]) = None

\* A request goes on from a statement it was let through to, or is let through now.
LEMMA WaysOn ==
    ASSUME LedgerInvariant, NEW r \in Requests, Step(r) \/ Fault(r),
           pc'[r] \in {"lock", "insert", "apply", "commit"}
    PROVE  /\ UNCHANGED tables
           /\ pc[r] \in {"lock", "insert", "apply"} \/ ~Misnames(req[r]) \/ req[r].op = "reverse"
           /\ pc'[r] \in {"apply", "commit"} /\ req[r].op = "capture" =>
                 pc[r] = "apply" \/ CaptureError(req[r], holds[req[r].target]) = None
  <1> DEFINE Goal ==
                /\ UNCHANGED tables
                /\ pc[r] \in {"lock", "insert", "apply"} \/ ~Misnames(req[r]) \/ req[r].op = "reverse"
                /\ pc'[r] \in {"apply", "commit"} /\ req[r].op = "capture" =>
                      pc[r] = "apply" \/ CaptureError(req[r], holds[req[r].target]) = None
  <1>t. TypeOK
    BY DEF LedgerInvariant
  <1>1. ASSUME NEW code, NEW id, NEW status, Answer(r, code, id, status)
        PROVE  FALSE
    BY <1>1, <1>t DEF Answer, TypeOK
  <1>2. ASSUME NEW step, NEW held, Advance(r, step, held)
        PROVE  pc'[r] = step /\ UNCHANGED tables
    BY <1>2, <1>t DEF Advance, TypeOK
  <1>u. ASSUME UniqueViolation(r)
        PROVE  FALSE
    BY <1>u, <1>t DEF UniqueViolation, TypeOK
  <1> SUFFICES Goal
    OBVIOUS
  <1>3. CASE LookupHit(r) \/ Recheck(r) \/ TargetMissing(r) \/ DeadlockVictim(r) \/ Fault(r)
    BY <1>1, <1>3 DEF LookupHit, Recheck, TargetMissing, DeadlockVictim, Fault, Crash, RecheckFails, Fail
  <1>4. CASE CheckReferences(r)
    <2>1. /\ ~Misnames(req[r])
          /\ Advance(r, IF req[r].op = "create" THEN "insert" ELSE "lock", {})
      BY <1>1, <1>4 DEF CheckReferences, Misnames, Fail
    <2> QED
      BY <1>2, <2>1
  <1>4m. CASE LookupMiss(r)
    <2>1. Advance(r, IF req[r].op = "reverse" THEN "lock" ELSE "check", {})
      BY <1>4m DEF LookupMiss
    <2>2. req[r].op = "reverse" /\ pc'[r] = "lock" /\ UNCHANGED tables
      BY <1>2, <2>1
    <2> QED
      BY <2>2
  <1>5. CASE PostLock(r)
    BY <1>1, <1>2, <1>5 DEF PostLock, Fail
  <1>6. CASE ReverseLock(r)
    BY <1>1, <1>2, <1>6 DEF ReverseLock, Fail
  <1>7. CASE HoldLock(r)
    BY <1>1, <1>2, <1>7 DEF HoldLock, Fail
  <1>8. CASE SettleLock(r)
    BY <1>1, <1>2, <1>8 DEF SettleLock, Fail
  <1>9. CASE ReleaseHeld(r)
    BY <1>2, <1>9 DEF ReleaseHeld
  <1>10. CASE ApplyBalance(r)
    <2>1. pc[r] = "apply" /\ \E step, held : Advance(r, step, held)
      BY <1>1, <1>10 DEF ApplyBalance, Fail
    <2> QED
      BY <1>2, <2>1
  <1>11. CASE Commit(r)
    BY <1>1, <1>11 DEF Commit, CommitCreate, CommitPost, CommitReverse, CommitHold, CommitCapture,
                       CommitRelease
  <1>12. CASE InsertTransaction(r)
    <2>1. /\ pc[r] = "insert" /\ req[r].op \in {"create", "reverse"}
          /\ \E step, held : Advance(r, step, held)
      BY <1>u, <1>12 DEF InsertTransaction
    <2> QED
      BY <1>2, <2>1
  <1>13. CASE InsertHold(r)
    <2>1. /\ pc[r] = "insert" /\ req[r].op = "hold"
          /\ \E step, held : Advance(r, step, held)
      BY <1>u, <1>13 DEF InsertHold
    <2> QED
      BY <1>2, <2>1
  <1> QED
    BY <1>3, <1>4, <1>4m, <1>5, <1>6, <1>7, <1>8, <1>9, <1>10, <1>11, <1>12, <1>13 DEF Step, Commit

\* What CaptureHold verified of its hold and of its transaction stays verified.
LEMMA VerifiedStays ==
    ASSUME LedgerInvariant, [Next]_vars, NEW s \in Requests, pc[s] \in {"apply", "commit"},
           req[s].op = "capture", req'[s] = req[s], CaptureError(req[s], holds[req[s].target]) = None
    PROVE  CaptureError(req[s], holds[req[s].target])' = None
  <1> DEFINE in == req[s]
             h  == in.target
  <1>1. in \in Inputs /\ h \in HoldIds
    BY TargetType DEF LedgerInvariant, LocksProtect, Shape, Protects, Open, SettleOps, HoldIds
  <1>2. in.transaction \in Requests \cup {None}
    BY <1>1, InputFields DEF CaptureInput
  <1>3. holds'[h].amount = holds[h].amount /\ holds'[h].asset = holds[h].asset
    <2>1. holds'[h].amount = holds[h].amount
      BY <1>1, RowsStay
    <2>2. RowOf(holds'[h]) = RowOf(holds[h])
      <3>1. CASE UNCHANGED tables
        BY <3>1 DEF tables
      <3>2. ASSUME NEW r \in Requests, Commit(r)
            PROVE  RowOf(holds'[h]) = RowOf(holds[h])
        <4>1. CASE CommitCreate(r) \/ CommitPost(r) \/ CommitReverse(r)
          BY <4>1 DEF CommitCreate, CommitPost, CommitReverse
        <4>2. CASE CommitHold(r)
          BY <1>1, <4>2, HoldEffect
        <4>3. CASE CommitCapture(r) \/ CommitRelease(r)
          BY <1>1, <4>3, SettleEffect
        <4> QED
          BY <3>2, <4>1, <4>2, <4>3 DEF Commit
      <3> QED
        BY <3>1, <3>2, OnlyCommitsWrite
    <2> QED
      BY <2>1, <2>2 DEF RowOf
  <1>4. in.transaction # None /\ transactions[in.transaction] # None =>
            transactions'[in.transaction] # None
    BY <1>2, RowsStay DEF TxIds
  <1>5. "validation" # None /\ "not_found" # None
    BY ConstantsAssumption
  <1> QED
    BY <1>3, <1>4, <1>5 DEF CaptureError

\* The creates that have made a transaction named it well, and their bodies stay.
LEMMA MadeOfGoodNames ==
    ASSUME LedgerInvariant, AdmissionsStand, [Next]_vars
    PROVE  \A t \in TxIds' : req'[t].op = "create" => ~Misnames(req'[t])
  <1>1. ASSUME NEW r \in Requests, NEW in \in Inputs, Receive(r, in) \/ Reject(r, in)
        PROVE  TxIds' = TxIds /\ \A t \in TxIds : req'[t] = req[t]
    <2>1. pc[r] = "idle" /\ UNCHANGED tables /\ \A s \in Requests \ {r} : req'[s] = req[s]
      BY <1>1, ReceiveIsPrivate DEF SameControl
    <2>2. r \notin TxIds
      BY <2>1 DEF LedgerInvariant, LocksProtect, Shape, TxIds
    <2> QED
      BY <2>1, <2>2 DEF TxIds, tables
  <1>2. ASSUME NEW r \in Requests, Step(r) \/ Fault(r)
        PROVE  /\ req' = req
               /\ \A t \in TxIds' \ TxIds : req[t].op = "create" => ~Misnames(req[t])
    <2>1. req' = req
      BY <1>2, OthersKept
    <2>2. CASE UNCHANGED tables
      BY <2>1, <2>2 DEF TxIds, tables
    <2>3. CASE CommitCreate(r)
      <3>1. TxIds' = TxIds \cup {r} /\ pc[r] = "commit" /\ req[r].op = "create"
        BY <2>3, CreateEffect
      <3>2. ~Misnames(req[r])
        BY <3>1 DEF AdmissionsStand
      <3> QED
        BY <2>1, <3>1, <3>2
    <2>4. CASE CommitReverse(r)
      <3>1. TxIds' = TxIds \cup {r} /\ req[r].op = "reverse"
        BY <2>4, ReverseEffect DEF CommitReverse
      <3> QED
        BY <2>1, <3>1
    <2>5. CASE CommitPost(r) \/ CommitHold(r) \/ CommitCapture(r) \/ CommitRelease(r)
      <3>1. TxIds' = TxIds
        BY <2>5, PostEffect, HoldEffect, SettleEffect DEF TxIds
      <3> QED
        BY <2>1, <3>1
    <2> QED
      BY <1>2, <2>2, <2>3, <2>4, <2>5, StepWrites DEF Commit
  <1>3. ASSUME Finished \/ UNCHANGED vars
        PROVE  TxIds' = TxIds /\ req' = req
    BY <1>3 DEF Finished, vars, TxIds
  <1>4. /\ \A t \in TxIds : req'[t] = req[t]
        /\ \A t \in TxIds' \ TxIds : req'[t].op = "create" => ~Misnames(req'[t])
    BY <1>1, <1>2, <1>3 DEF Next
  <1>5. \A t \in TxIds : req[t].op = "create" => ~Misnames(req[t])
    BY DEF AdmissionsStand
  <1> QED
    BY <1>4, <1>5

\* Every step keeps the admissions standing.
LEMMA AdmissionsFollow ==
    ASSUME LedgerInvariant, AdmissionsStand, [Next]_vars
    PROVE  AdmissionsStand'
  <1>a. \A s \in Requests : Admitted(s)
    BY DEF AdmissionsStand, Admitted
  <1>g. SUFFICES \A s \in Requests : Admitted(s)'
    BY MadeOfGoodNames DEF AdmissionsStand, Admitted
  <1>c. \A s \in Requests : req'[s] = req[s] => Misnames(req[s])' = Misnames(req[s])
    BY DEF Misnames, NamesUnknown, CrossesLedgers, AccountsOf
  <1>1. ASSUME NEW s \in Requests, SameControl(s)
        PROVE  Admitted(s)'
    <2>1. pc'[s] = pc[s] /\ req'[s] = req[s]
      BY <1>1 DEF SameControl
    <2>2. pc[s] \in {"apply", "commit"} /\ req[s].op = "capture" =>
             CaptureError(req[s], holds[req[s].target])' = None
      BY <1>a, <2>1, VerifiedStays DEF Admitted
    <2> QED
      BY <1>a, <1>c, <2>1, <2>2 DEF Admitted
  <1>2. ASSUME NEW r \in Requests, NEW in \in Inputs, Receive(r, in) \/ Reject(r, in)
        PROVE  \A s \in Requests : Admitted(s)'
    <2>1. pc'[r] \notin {"insert", "apply", "commit"} /\ (pc'[r] = "lock" => req'[r] \notin Keyed)
          /\ req'[r] \in Inputs
      BY <1>2 DEF LedgerInvariant, TypeOK, Receive, Reject
    <2>2. Admitted(r)'
      BY <2>1 DEF Admitted, Keyed
    <2> QED
      BY <1>1, <1>2, <2>2, ReceiveIsPrivate
  <1>3. ASSUME NEW r \in Requests, Step(r) \/ Fault(r)
        PROVE  \A s \in Requests : Admitted(s)'
    <2>q. req' = req
      BY <1>3, OthersKept
    <2>1. ASSUME pc'[r] \notin {"lock", "insert", "apply", "commit"}
          PROVE  Admitted(r)'
      BY <2>1 DEF Admitted
    <2>2. ASSUME pc'[r] \in {"lock", "insert", "apply", "commit"}
          PROVE  Admitted(r)'
      <3>1. /\ UNCHANGED tables
            /\ pc[r] \in {"lock", "insert", "apply"} \/ ~Misnames(req[r]) \/ req[r].op = "reverse"
            /\ pc'[r] \in {"apply", "commit"} /\ req[r].op = "capture" =>
                  pc[r] = "apply" \/ CaptureError(req[r], holds[req[r].target]) = None
        BY <1>3, <2>2, WaysOn
      <3>2. req[r].op \in {"create", "hold"} => ~Misnames(req[r])
        BY <1>a, <3>1 DEF Admitted
      <3>3. pc'[r] \in {"apply", "commit"} /\ req[r].op = "capture" =>
               CaptureError(req[r], holds[req[r].target]) = None
        BY <1>a, <3>1 DEF Admitted
      <3>4. CaptureError(req[r], holds[req[r].target])' = CaptureError(req[r], holds[req[r].target])
        BY <2>q, <3>1 DEF CaptureError, tables
      <3> QED
        BY <1>c, <2>q, <3>2, <3>3, <3>4 DEF Admitted
    <2>3. Admitted(r)'
      BY <2>1, <2>2
    <2> QED
      BY <1>1, <1>3, <2>3, OthersKept
  <1>4. ASSUME Finished \/ UNCHANGED vars
        PROVE  \A s \in Requests : Admitted(s)'
    <2>1. \A s \in Requests : SameControl(s)
      BY <1>4 DEF Finished, vars, SameControl
    <2> QED
      BY <1>1, <2>1
  <1> QED
    BY <1>2, <1>3, <1>4 DEF Next

---------------------------------------------------------------------------
(* The theorems.                                                           *)

\* The empty tables add up.
LEMMA InitAddsUp == Init => LedgerInductive
  <1> SUFFICES ASSUME Init
               PROVE  LedgerInductive
    OBVIOUS
  <1>i. LedgerInvariant
    BY InitEstablishes
  <1>e. TxIds = {} /\ HoldIds = {}
    BY DEF Init, TxIds, HoldIds
  <1>f. IsFiniteSet(TxIds) /\ IsFiniteSet(HoldIds)
    BY <1>e, FS_EmptySet
  <1>1. (\A t \in TxIds : BalancedPostings(transactions[t].postings)) /\ DraftsReverseNothing
    BY <1>e DEF DraftsReverseNothing
  <1>2. VersionsAddUp /\ ChecksStand
    BY DEF Init, VersionsAddUp, ChecksStand
  <1>3. ASSUME NEW x \in Rows
        PROVE  OrZero(account_balances[x]) = ZeroBalance
    BY <1>3 DEF Init, OrZero
  <1>4. BalancesMatchPostings
    <2>1. FirmIds = {} /\ DraftIds = {}
      BY <1>e DEF FirmIds, DraftIds
    <2>2. \A x, d : Total(transactions, {}, x, d) = 0
      BY SumEmpty DEF Total
    <2>3. \A x \in Rows : Matches(x)
      BY <1>3, <2>1, <2>2 DEF Matches, ZeroBalance
    <2> QED
      BY <2>3, MatchesAll
  <1>5. HeldMatchesHolds
    <2>1. \A x : ActiveOn(holds, HoldIds, x) = {}
      BY <1>e DEF ActiveOn
    <2>2. \A x : Reserved(holds, HoldIds, x) = 0
      BY <2>1, SumEmpty DEF Reserved
    <2>3. \A x \in Rows : HeldRight(x)
      BY <1>3, <2>2 DEF HeldRight, ZeroBalance
    <2> QED
      BY <2>3, HeldRightAll
  <1>6. RowsRemember /\ SuccessMeansSamePayload
    BY <1>e DEF Init, RowsRemember, SuccessMeansSamePayload
  <1>7. OutboxTellsTheStory
    <2>1. \A p, d : EventsIn(outbox, p, d) = {}
      BY DEF Init, EventsIn
    <2>2. \A t \in Requests : TxTold(t) /\ HoldTold(t)
      BY <1>e, <2>1 DEF TxTold, HoldTold, PostedTold, ReversedTold, Settled
    <2> QED
      BY <1>i, <2>2, StoryParts DEF LedgerInvariant
  <1>8. KeysAnswer /\ AdmissionsStand
    BY <1>e DEF Init, KeysAnswer, AdmissionsStand
  <1>9. AmountsFit
    <2>1. MaxInt64 \in Nat /\ ZeroBalance \in Balance
      BY ConstantsAssumption DEF ZeroBalance, Balance
    <2>2. \A f \in DOMAIN ZeroBalance : ZeroBalance[f] \in 0..MaxInt64
      BY <2>1 DEF ZeroBalance
    <2>3. \A x \in Rows : Fit(x)
      BY <1>3, <2>2 DEF Fit
    <2>4. (\A r \in Requests : VersionsFit(r)) /\ UnitsArePositive
      BY <1>e DEF Init, VersionsFit, UnitsArePositive
    <2> QED
      BY <2>3, <2>4, FitParts
  <1> QED
    BY <1>i, <1>f, <1>1, <1>2, <1>4, <1>5, <1>6, <1>7, <1>8, <1>9 DEF LedgerInductive

\* Every step keeps the tables adding up.
LEMMA NextAddsUp == LedgerInductive /\ [Next]_vars => LedgerInductive'
  <1> SUFFICES ASSUME LedgerInductive, [Next]_vars
               PROVE  LedgerInductive'
    OBVIOUS
  <1>i. /\ LedgerInvariant /\ IsFiniteSet(TxIds) /\ IsFiniteSet(HoldIds)
        /\ AllBalance /\ DraftsReverseNothing /\ VersionsAddUp /\ BalancesMatchPostings
        /\ HeldMatchesHolds /\ RowsRemember /\ ChecksStand /\ SuccessMeansSamePayload
        /\ OutboxTellsTheStory /\ KeysAnswer /\ AdmissionsStand /\ AmountsFit
    BY DEF LedgerInductive, AllBalance
  <1>1. LedgerInvariant' /\ IsFiniteSet(TxIds') /\ IsFiniteSet(HoldIds')
    BY <1>i, NextKeeps, TablesStayFinite
  <1>2. AllBalance' /\ DraftsReverseNothing'
    BY <1>i, BalanceFollows, DraftsFollow
  <1>3. VersionsAddUp' /\ BalancesMatchPostings' /\ HeldMatchesHolds'
    BY <1>i, VersionsKeepAddingUp, BalancesFollow, HeldFollows
  <1>4. RowsRemember' /\ ChecksStand' /\ SuccessMeansSamePayload' /\ OutboxTellsTheStory'
    BY <1>i, RememberFollows, ChecksFollow, SuccessFollows, StoryFollows
  <1>5. KeysAnswer' /\ AdmissionsStand'
    BY <1>i, KeysAnswerFollow, AdmissionsFollow
  <1>6. AmountsFit'
    <2>1. UnitsArePositive'
      BY <1>i, FitParts, UnitsFollow
    <2>2. AddedUp'
      BY <1>1, <1>3, <2>1 DEF AddedUp
    <2> QED
      BY <1>i, <2>2, AmountsFollow
  <1> QED
    BY <1>1, <1>2, <1>3, <1>4, <1>5, <1>6 DEF LedgerInductive, AllBalance

\* The strengthened invariant of the ledger: the tables' sums, memory and
\* announcements follow every interleaving of requests, crashes and deadlocks.
THEOREM BooksAddUp == Spec => []LedgerInductive
  BY InitAddsUp, NextAddsUp, PTL DEF Spec

\* I-6: verify_account_balances never returns a row.  The posted and pending
\* totals that ApplyBalance maintains row by row are always the sums over the
\* postings of the firm and of the draft transactions.
THEOREM BalancesAlwaysMatch == Spec => []BalancesMatchPostings
  <1>1. LedgerInductive => BalancesMatchPostings
    BY DEF LedgerInductive
  <1> QED
    BY <1>1, BooksAddUp, PTL

\* held is always the sum of the active holds: CreateHold, CaptureHold and
\* ReleaseHold never free a reservation twice and never forget one.
THEOREM HeldAlwaysMatches == Spec => []HeldMatchesHolds
  <1>1. LedgerInductive => HeldMatchesHolds
    BY DEF LedgerInductive
  <1> QED
    BY <1>1, BooksAddUp, PTL

\* I-1: the deferred trigger check_transaction_balance never has anything to
\* reject, because ValidateBalanced admits and Reverse produces only transactions
\* that balance in every asset.
THEOREM TransactionsAlwaysBalance == Spec => []FirmTransactionsBalance
  <1>1. LedgerInductive => FirmTransactionsBalance
    BY DEF LedgerInductive, FirmTransactionsBalance, BalancedPostings
  <1> QED
    BY <1>1, BooksAddUp, PTL

\* A client that is told of success under its key sent the payload that made the
\* row: look-ups, unique violations and their re-check never mix up clients.
THEOREM SuccessIsAlwaysOwn == Spec => []SuccessMeansSamePayload
  <1>1. LedgerInductive => SuccessMeansSamePayload
    BY DEF LedgerInductive
  <1> QED
    BY <1>1, BooksAddUp, PTL

\* I-12: the outbox announces each posting, reversal, hold, capture and release
\* once and in order, and a capture's amounts add up to its hold.
THEOREM OutboxAlwaysTellsTheStory == Spec => []OutboxTellsTheStory
  <1>1. LedgerInductive => OutboxTellsTheStory
    BY DEF LedgerInductive
  <1> QED
    BY <1>1, BooksAddUp, PTL

\* No balance column overflows or goes below zero: upsertPostedBalance and
\* upsertPendingBalance are stopped by the BIGINT itself, and held, which nothing
\* checks, never exceeds what is posted when it grows.
THEOREM AmountsAlwaysFit == Spec => []AmountsFit
  <1>1. LedgerInductive => AmountsFit
    BY DEF LedgerInductive
  <1> QED
    BY <1>1, BooksAddUp, PTL

\* I-4: a create that is answered once its key has a stored answer gets that answer
\* if its payload is the same, and idempotency_conflict, or 404 or 400 for what its own
\* body names, if it is not; neither a lock wait nor the deadlock detector can deny it.
THEOREM CreatesAlwaysReplay == Spec => CreateRetriesReplay
  <1> DEFINE A == \A r \in Requests :
                     (Answered(r) /\ req[r] # None /\ req[r].op = "create" /\ Stored(req[r]) # None) =>
                         resp'[r].code \in RetryAnswers(req[r])
  <1>1. LedgerInductive /\ [Next]_vars => [A]_vars
    <2> SUFFICES ASSUME LedgerInductive, [Next]_vars, NEW r \in Requests,
                        Answered(r), req[r] # None, req[r].op = "create", Stored(req[r]) # None
                 PROVE  resp'[r].code \in RetryAnswers(req[r])
      OBVIOUS
    <2>i. LedgerInvariant /\ ChecksStand /\ RowsRemember /\ AdmissionsStand
      BY DEF LedgerInductive
    <2>1. Step(r) \/ Fault(r)
      <3>1. ASSUME NEW s \in Requests, Step(s) \/ Fault(s)
            PROVE  s = r
        BY <2>i, <3>1, OthersKept DEF SameControl, Answered
      <3>2. ASSUME NEW s \in Requests, NEW in \in Inputs, Receive(s, in) \/ Reject(s, in)
            PROVE  FALSE
        <4>1. s = r
          BY <2>i, <3>2, ReceiveIsPrivate DEF SameControl, Answered
        <4>2. pc[r] = "idle"
          BY <2>i, <3>2, <4>1, ReceiveIsPrivate
        <4> QED
          BY <2>i, <4>2 DEF ChecksStand
      <3>3. ~(Finished \/ UNCHANGED vars)
        BY DEF Finished, vars, Answered
      <3> QED
        BY <3>1, <3>2, <3>3 DEF Next
    <2> QED
      BY <2>i, <2>1, RetryIsAnswered
  <1>2. [][A]_vars => CreateRetriesReplay
    BY DEF CreateRetriesReplay
  <1> QED
    BY <1>1, <1>2, BooksAddUp, PTL DEF Spec

---------------------------------------------------------------------------
(* The atomic ledger.                                                      *)

\* AtomicLedger's sums are the store's.
LEMMA SameSum == \A f, S : Atomic!SumFunctionOnSet(f, S) = SumFunctionOnSet(f, S)
  BY Zenon DEF Atomic!SumFunctionOnSet, SumFunctionOnSet, Atomic!FoldFunctionOnSet, FoldFunctionOnSet,
               Atomic!MapThenFoldSet, MapThenFoldSet

\* The rows of the atomic ledger are the rows of the tables.
LEMMA SameRows ==
    /\ Atomic!TxIds = TxIds
    /\ Atomic!HoldIds = HoldIds
    /\ TypeOK => Atomic!Drafts = DraftIds /\ Atomic!Firm = FirmIds
  <1>1. Atomic!TxIds = TxIds /\ Atomic!HoldIds = HoldIds
    BY DEF Atomic!TxIds, Atomic!HoldIds, TxIds, HoldIds
  <1>2. ASSUME TypeOK
        PROVE  Atomic!Drafts = DraftIds
    <2>1. \A t \in TxIds : transactions[t].status \in {"draft", "posted", "reversed"}
      BY <1>2 DEF TypeOK, TxIds, Transaction
    <2> QED
      BY <1>1, <2>1 DEF Atomic!Drafts, DraftIds, FirmIds, Firm
  <1>3. DraftIds \subseteq TxIds /\ FirmIds = TxIds \ DraftIds
    BY DEF DraftIds, FirmIds
  <1> QED
    BY <1>1, <1>2, <1>3 DEF Atomic!Firm

\* Its totals are the sums that the balance rows match.
LEMMA SameTotal == \A T, x, d : Atomic!Total(T, x, d) = Total(transactions, T, x, d)
  <1> SUFFICES ASSUME NEW T, NEW x, NEW d
               PROVE  Atomic!Total(T, x, d) = Total(transactions, T, x, d)
    OBVIOUS
  <1> DEFINE f == [t \in T |-> SumUpTo(transactions[t].postings, Len(transactions[t].postings), x, d)]
  <1>1. f = [t \in T |-> AmountOn(transactions[t].postings, x, d)]
    BY DEF AmountOn
  <1>2. DOMAIN f = T
    OBVIOUS
  <1>3. Atomic!Total(T, x, d) = Atomic!SumFunctionOnSet(f, T)
    BY <1>1, <1>2 DEF Atomic!Total, Atomic!SumFunction
  <1> QED
    BY <1>3, SameSum DEF Total

\* What it has available is what the balance row says.
LEMMA SameAvailable ==
    ASSUME LedgerInductive, NEW x \in Rows
    PROVE  Atomic!Available(x) = Available(OrZero(account_balances[x]), NormalBalance[x[1]])
  <1> DEFINE b == OrZero(account_balances[x])
  <1>i. LedgerInvariant /\ TypeOK /\ Matches(x) /\ HeldRight(x) /\ IsFiniteSet(HoldIds)
    BY MatchesAll, HeldRightAll DEF LedgerInductive, LedgerInvariant
  <1>1. Atomic!PostedNet(x) = PostedNet(b, NormalBalance[x[1]])
    BY <1>i, SameRows, SameTotal DEF Atomic!PostedNet, PostedNet, Matches
  <1>2. Atomic!Held(x) = b.held
    <2> DEFINE A == ActiveOn(holds, HoldIds, x)
               g == [h \in A |-> holds[h].amount]
    <2>1. A = {h \in HoldIds : holds[h].status = "active" /\ RowOf(holds[h]) = x}
      BY DEF ActiveOn
    <2>2. Atomic!Held(x) = SumFunctionOnSet(g, A)
      <3>1. DOMAIN g = A
        OBVIOUS
      <3>2. Atomic!Held(x) = Atomic!SumFunctionOnSet(g, A)
        BY <2>1, <3>1, SameRows DEF Atomic!Held, Atomic!SumFunction
      <3> QED
        BY <3>2, SameSum
    <2>3. \A h \in HoldIds : holds[h].amount \in Int
      BY <1>i DEF TypeOK, Hold, HoldIds
    <2>4. \A h \in A : g[h] = holds[h].amount
      OBVIOUS
    <2> HIDE DEF g
    <2>5. Reserved(holds, HoldIds, x) = SumFunctionOnSet(g, A)
      BY <1>i, <2>3, <2>4, ReservedIs
    <2> QED
      BY <1>i, <2>2, <2>5 DEF HeldRight
  <1> QED
    BY <1>1, <1>2 DEF Atomic!Available, Available

\* The range of the columns is the range of its totals.
LEMMA StaysInRange == LedgerInductive => Atomic!InRange
  <1> SUFFICES ASSUME LedgerInductive, NEW x \in Rows, NEW d \in {"DEBIT", "CREDIT"}
               PROVE  Atomic!Total(Atomic!Firm, x, d) <= MaxInt64
                      /\ Atomic!Total(Atomic!Drafts, x, d) <= MaxInt64
    BY DEF Atomic!InRange
  <1> DEFINE b == OrZero(account_balances[x])
  <1>i. TypeOK /\ Matches(x) /\ Fit(x)
    BY MatchesAll, FitParts DEF LedgerInductive, LedgerInvariant
  <1>b. b \in Balance
    BY <1>i DEF TypeOK, OrZero, ZeroBalance, Balance
  <1>m. MaxInt64 \in Nat
    BY ConstantsAssumption
  <1>1. \A f \in DOMAIN ZeroBalance : b[f] \in 0..MaxInt64
    BY <1>i DEF Fit
  <1>2. /\ b.posted_debits \in 0..MaxInt64 /\ b.posted_credits \in 0..MaxInt64
        /\ b.pending_debits \in 0..MaxInt64 /\ b.pending_credits \in 0..MaxInt64
    <2> HIDE DEF b
    <2> QED
      BY <1>b, <1>1, Columns
  <1>3. Total(transactions, FirmIds, x, d) \in 0..MaxInt64
        /\ Total(transactions, DraftIds, x, d) \in 0..MaxInt64
    BY <1>i, <1>2 DEF Matches
  <1>4. ASSUME NEW n \in 0..MaxInt64
        PROVE  n <= MaxInt64
    BY <1>m
  <1> QED
    BY <1>i, <1>3, <1>4, SameRows, SameTotal

\* What the key of a body has made
LEMMA SameKeys ==
    ASSUME NEW in
    PROVE  Atomic!MadeUnderKeyOf(in) = IF in.op = "hold" THEN HoldsWithKey(EffectiveKey(in))
                                                         ELSE TransactionsWithKey(EffectiveKey(in))
  BY SameRows DEF Atomic!MadeUnderKeyOf, HoldsWithKey, TransactionsWithKey, TxIds, HoldIds

\* The stored answer of a key tells of the row that the key has made.
LEMMA StoredTells ==
    ASSUME LedgerInductive, NEW in \in Keyed, Stored(in) # None
    PROVE  LET w == Stored(in).id IN
           /\ w \in Atomic!MadeUnderKeyOf(in)
           /\ Stored(in).hash = Fingerprint(req[w])
           /\ Stored(in).status = CASE req[w].op = "create"  -> req[w].status
                                    [] req[w].op = "reverse" -> "posted"
                                    [] req[w].op = "hold"    -> holds[w].status
  <1> DEFINE k == EffectiveKey(in)
             s == Stored(in)
  <1>i. LedgerInvariant /\ RowsRemember /\ KeysAnswer /\ OneEffectPerKey
    BY DEF LedgerInductive, LedgerInvariant
  <1>k. k \in KeySpace
    BY KeyType
  <1>m. /\ \A t \in TxIds : TxRemembered(t)
        /\ \A h \in HoldIds : HoldRemembered(h)
        /\ \A j \in KeySpace : KeyRemembered(j)
    BY <1>i, RememberParts
  <1>1. CASE in.op # "hold"
    <2> DEFINE w == idempotency_keys[k].id
    <2>1. s = idempotency_keys[k] /\ idempotency_keys[k] # None
      BY <1>1 DEF Stored
    <2>2. w \in TxIds /\ transactions[w].key = k
      BY <1>i, <1>k, <2>1 DEF OneEffectPerKey
    <2>3. w \in Atomic!MadeUnderKeyOf(in)
      BY <1>1, <2>2, SameKeys DEF TransactionsWithKey, TxIds
    <2>4. s.hash = Fingerprint(req[w])
      BY <1>k, <1>m, <2>1 DEF KeyRemembered
    <2>5. s.status = FirstStatus(req[w])
      BY <1>i, <1>k, <2>1 DEF KeysAnswer
    <2>6. req[w].op \in {"create", "reverse"}
      BY <1>m, <2>2 DEF TxRemembered, Keyed
    <2>7. s.status = CASE req[w].op = "create"  -> req[w].status
                       [] req[w].op = "reverse" -> "posted"
                       [] req[w].op = "hold"    -> holds[w].status
      BY <2>5, <2>6 DEF FirstStatus
    <2> QED
      BY <2>1, <2>3, <2>4, <2>7
  <1>2. CASE in.op = "hold"
    <2> DEFINE h == CHOOSE h \in HoldsWithKey(k) : TRUE
    <2>1. /\ HoldsWithKey(k) # {}
          /\ s = [hash |-> holds[h].hash, id |-> h, status |-> holds[h].status]
      BY <1>2 DEF Stored
    <2>2. h \in HoldsWithKey(k)
      BY <2>1
    <2> HIDE DEF h
    <2>3. s.id = h /\ s.hash = holds[h].hash /\ s.status = holds[h].status
      BY <2>1
    <2>4. h \in HoldIds /\ h \in Atomic!MadeUnderKeyOf(in)
      BY <1>2, <2>2, SameKeys DEF HoldsWithKey, HoldIds
    <2>5. holds[h].hash = Fingerprint(req[h]) /\ req[h].op = "hold"
      BY <1>m, <2>4 DEF HoldRemembered
    <2>6. s.status = CASE req[h].op = "create"  -> req[h].status
                       [] req[h].op = "reverse" -> "posted"
                       [] req[h].op = "hold"    -> holds[h].status
      BY <2>3, <2>5
    <2> QED
      BY <2>3, <2>4, <2>5, <2>6
  <1> QED
    BY <1>1, <1>2

\* A step of the atomic ledger, or none
Atomically == Atomic!Next \/ UNCHANGED Atomic!vars

\* A request that is being served has arrived and has no answer yet.
LEMMA BeingServed ==
    ASSUME LedgerInductive, NEW r \in Requests, Open(r)
    PROVE  /\ req[r] # None /\ req[r] \in Inputs /\ resp[r] = None
           /\ LedgerInvariant /\ TypeOK /\ Shape(r) /\ Protects(r) /\ Admitted(r)
           /\ transactions[r] = None /\ holds[r] = None
  <1>1. LedgerInvariant /\ TypeOK /\ Shape(r) /\ Protects(r) /\ RowsRemember /\ AdmissionsStand
    BY DEF LedgerInductive, LedgerInvariant, LocksProtect
  <1>2. req[r] \in Inputs
    BY <1>1 DEF Shape
  <1>3. req[r] # None
    BY <1>2, ConstantsAssumption
  <1>4. resp[r] = None
    BY <1>1 DEF RowsRemember, Open
  <1>5. Admitted(r)
    BY <1>1 DEF AdmissionsStand, Admitted
  <1>6. transactions[r] = None /\ holds[r] = None
    BY <1>1 DEF Shape, Open
  <1> QED
    BY <1>1, <1>2, <1>3, <1>4, <1>5, <1>6

\* Its answer is the atomic ledger's.
LEMMA AnswerResponds ==
    ASSUME LedgerInductive, NEW r \in Requests, Open(r), NEW code, NEW id, NEW status,
           Answer(r, code, id, status)
    PROVE  Atomic!Respond(r, code, id, status)
  BY BeingServed DEF Answer, Atomic!Respond

\* A roll-back with a reason is a refusal.
LEMMA FailRefuses ==
    ASSUME LedgerInductive, NEW r \in Requests, Open(r), NEW code \in Atomic!Codes,
           Fail(r, code), Atomic!Refusable(req[r], code)
    PROVE  Atomically
  <1>1. Atomic!Respond(r, code, None, None)
    BY AnswerResponds DEF Fail
  <1>2. UNCHANGED <<transactions, holds, outbox>>
    BY DEF Fail, tables
  <1>3. Atomic!Refuse(r, code)
    BY <1>1, <1>2 DEF Atomic!Refuse
  <1> QED
    BY <1>3 DEF Atomically, Atomic!Next

\* A statement that neither commits nor answers is invisible.
LEMMA AdvanceIsSilent ==
    ASSUME UNCHANGED <<req, resp>>, UNCHANGED tables
    PROVE  Atomically
  BY DEF Atomically, Atomic!vars, tables

\* Receiving or rejecting a request is its arrival.
LEMMA ReceiveArrives ==
    ASSUME LedgerInductive, NEW r \in Requests, NEW in \in Inputs, Receive(r, in) \/ Reject(r, in)
    PROVE  Atomically
  <1>1. pc[r] = "idle" /\ UNCHANGED <<transactions, holds, outbox>> /\ req' = [req EXCEPT ![r] = in]
    BY DEF Receive, Reject, tables
  <1>2. req[r] = None
    BY <1>1 DEF LedgerInductive, ChecksStand
  <1>3. \/ Valid(in) /\ UNCHANGED resp
        \/ ~Valid(in) /\ resp' = [resp EXCEPT ![r] =
                            [code |-> "validation", id |-> None, status |-> None]]
    BY DEF Receive, Reject
  <1>4. req'[r] = in
    BY <1>1 DEF LedgerInductive, LedgerInvariant, TypeOK
  <1>5. Atomic!Receive(r)
    BY <1>1, <1>2, <1>3, <1>4 DEF Atomic!Receive
  <1> QED
    BY <1>5 DEF Atomically, Atomic!Next

\* Serving what is stored under a key is a replay, or a refusal of another payload.
LEMMA StoredIsReplayed ==
    ASSUME LedgerInductive, NEW r \in Requests, Open(r), req[r] \in Keyed, Stored(req[r]) # None,
           Answer(r, Replay(req[r])[1], Replay(req[r])[2], Replay(req[r])[3]), UNCHANGED tables
    PROVE  Atomically
  <1> DEFINE in == req[r]
             s  == Stored(in)
             w  == s.id
             st == CASE req[w].op = "create"  -> req[w].status
                     [] req[w].op = "reverse" -> "posted"
                     [] req[w].op = "hold"    -> holds[w].status
  <1>1. /\ w \in Atomic!MadeUnderKeyOf(in)
        /\ s.hash = Fingerprint(req[w])
        /\ s.status = st
    BY StoredTells
  <1>2. UNCHANGED <<transactions, holds, outbox>>
    BY DEF tables
  <1>3. in # None /\ in.op \in {"create", "reverse", "hold"}
    BY BeingServed DEF Keyed
  <1>4. CASE s.hash = Fingerprint(in)
    <2>1. Replay(in) = <<"replayed", w, s.status>>
      BY <1>4 DEF Replay
    <2>2. Answer(r, "replayed", w, st)
      <3>0. s.status = st
        BY <1>1
      <3> HIDE DEF w, st
      <3>1. Replay(in)[1] = "replayed" /\ Replay(in)[2] = w /\ Replay(in)[3] = st
        BY <2>1, <3>0
      <3> QED
        BY <3>1 DEF Answer
    <2>3. Atomic!Respond(r, "replayed", w, st)
      <3> HIDE DEF w, st
      <3> QED
        BY <2>2, AnswerResponds
    <2>4. Atomic!Replay(r)
      BY <1>1, <1>2, <1>3, <1>4, <2>3 DEF Atomic!Replay, Atomic!Asks, Atomic!KeyedOps
    <2> QED
      BY <2>4 DEF Atomically, Atomic!Next
  <1>5. CASE s.hash # Fingerprint(in)
    <2>1. Replay(in) = <<"idempotency_conflict", None, None>>
      BY <1>5 DEF Replay
    <2>2. Fail(r, "idempotency_conflict")
      BY <2>1 DEF Fail
    <2>3. Atomic!Refusable(in, "idempotency_conflict")
      BY <1>1, <1>3, <1>5 DEF Atomic!Refusable, Atomic!KeyedOps
    <2> QED
      BY <2>2, <2>3, FailRefuses DEF Atomic!Codes
  <1> QED
    BY <1>4, <1>5

\* The look-up of a key that is taken
LEMMA LookupHitServes ==
    ASSUME LedgerInductive, NEW r \in Requests, LookupHit(r) \/ Recheck(r)
    PROVE  Atomically
  <1>1. pc[r] \in {"lookup", "recheck"} /\ UNCHANGED tables
        /\ Answer(r, Replay(req[r])[1], Replay(req[r])[2], Replay(req[r])[3])
    BY DEF LookupHit, Recheck
  <1>2. Open(r)
    BY <1>1 DEF Open
  <1>3. req[r] \in Keyed
    BY <1>1, <1>2, BeingServed DEF Shape
  <1>4. Stored(req[r]) # None
    BY DEF LookupHit, Recheck, LedgerInductive, KeysAnswer
  <1> QED
    BY <1>1, <1>2, <1>3, <1>4, StoredIsReplayed

\* The look-up of a free key
LEMMA LookupMissServes ==
    ASSUME LedgerInductive, NEW r \in Requests, LookupMiss(r)
    PROVE  Atomically
  BY AdvanceIsSilent DEF LookupMiss, Advance

\* The referential checks
LEMMA CheckReferencesServes ==
    ASSUME LedgerInductive, NEW r \in Requests, CheckReferences(r)
    PROVE  Atomically
  <1> DEFINE in == req[r]
  <1>1. pc[r] = "check" /\ Open(r)
    BY DEF CheckReferences, Open
  <1>2. in \in Keyed
    BY <1>1, BeingServed DEF Shape
  <1>3. AccountsOf(in) # {} => in.op \in {"create", "hold"}
    BY DEF AccountsOf
  <1>4. CASE NamesUnknown(in) /\ Fail(r, "not_found")
    <2>1. in.op \in {"create", "hold"}
      BY <1>3, <1>4 DEF NamesUnknown
    <2>2. Atomic!Refusable(in, "not_found")
      BY <1>4, <2>1 DEF Atomic!Refusable
    <2> QED
      BY <1>1, <1>4, <2>2, FailRefuses DEF Atomic!Codes
  <1>5. CASE ~NamesUnknown(in) /\ CrossesLedgers(in) /\ Fail(r, "validation")
    <2>1. in.op \in {"create", "hold"}
      BY <1>3, <1>5 DEF CrossesLedgers
    <2>2. Atomic!Refusable(in, "validation")
      BY <1>5, <2>1 DEF Atomic!Refusable
    <2> QED
      BY <1>1, <1>5, <2>2, FailRefuses DEF Atomic!Codes
  <1>6. CASE UNCHANGED <<req, resp>> /\ UNCHANGED tables
    BY <1>6, AdvanceIsSilent
  <1> QED
    BY <1>4, <1>5, <1>6 DEF CheckReferences, Advance

\* SELECT ... FOR UPDATE of what is not there
LEMMA TargetMissingServes ==
    ASSUME LedgerInductive, NEW r \in Requests, TargetMissing(r)
    PROVE  Atomically
  <1> DEFINE in == req[r]
  <1>1. Open(r) /\ Fail(r, "not_found")
    BY DEF TargetMissing, Open
  <1>2. \/ in.op \in {"post", "reverse"} /\ in.target \notin TxIds
        \/ in.op \in {"capture", "release"} /\ in.target \notin HoldIds
    BY DEF TargetMissing, TxIds, HoldIds
  <1>3. Atomic!Refusable(in, "not_found")
    BY <1>2, SameRows DEF Atomic!Refusable
  <1> QED
    BY <1>1, <1>3, FailRefuses DEF Atomic!Codes

\* PostTransaction's switch on the status it locked
LEMMA PostLockServes ==
    ASSUME LedgerInductive, NEW r \in Requests, PostLock(r)
    PROVE  Atomically
  <1> DEFINE in == req[r]
             t  == in.target
  <1>1. Open(r) /\ in.op = "post" /\ transactions[t] # None
    BY DEF PostLock, Open
  <1>2. in # None /\ t \in TxIds
    BY <1>1, BeingServed, TargetType DEF TxIds
  <1>3. CASE transactions[t].status = "posted" /\ Answer(r, "ok", t, "posted") /\ UNCHANGED tables
    <2>1. Atomic!Respond(r, "ok", t, "posted")
      BY <1>1, <1>3, AnswerResponds
    <2>2. Atomic!PostAgain(r)
      BY <1>1, <1>2, <1>3, <2>1, SameRows DEF Atomic!PostAgain, Atomic!Asks, tables
    <2> QED
      BY <2>2 DEF Atomically, Atomic!Next
  <1>4. CASE transactions[t].status = "reversed" /\ Fail(r, "conflict")
    <2>1. Atomic!Refusable(in, "conflict")
      BY <1>1, <1>2, <1>4, SameRows DEF Atomic!Refusable
    <2> QED
      BY <1>1, <1>4, <2>1, FailRefuses DEF Atomic!Codes
  <1>5. CASE UNCHANGED <<req, resp>> /\ UNCHANGED tables
    BY <1>5, AdvanceIsSilent
  <1> QED
    BY <1>3, <1>4, <1>5 DEF PostLock, Advance

\* ReverseTransaction's check of the status it locked
LEMMA ReverseLockServes ==
    ASSUME LedgerInductive, NEW r \in Requests, ReverseLock(r)
    PROVE  Atomically
  <1> DEFINE in == req[r]
             t  == in.target
  <1>1. Open(r) /\ in.op = "reverse" /\ transactions[t] # None
    BY DEF ReverseLock, Open
  <1>2. t \in TxIds
    BY <1>1, BeingServed, TargetType DEF TxIds
  <1>3. CASE transactions[t].status # "posted" /\ Fail(r, "conflict")
    <2>1. Atomic!Refusable(in, "conflict")
      BY <1>1, <1>2, <1>3, SameRows DEF Atomic!Refusable
    <2> QED
      BY <1>1, <1>3, <2>1, FailRefuses DEF Atomic!Codes
  <1>4. CASE UNCHANGED <<req, resp>> /\ UNCHANGED tables
    BY <1>4, AdvanceIsSilent
  <1> QED
    BY <1>3, <1>4 DEF ReverseLock, Advance

\* CreateHold's check of what is available under the lock of the balance row
LEMMA HoldLockServes ==
    ASSUME LedgerInductive, NEW r \in Requests, HoldLock(r)
    PROVE  Atomically
  <1> DEFINE in == req[r]
             x  == RowOf(in)
             b  == account_balances[x]
  <1>1. Open(r) /\ in.op = "hold" /\ pc[r] = "lock"
    BY DEF HoldLock, Open
  <1>2. in \in HoldInput /\ in.account \in Accounts /\ Valid(in)
    BY <1>1, BeingServed, InputFields DEF Shape
  <1>3. x \in Rows /\ x[1] = in.account /\ in.units \in Int /\ in.units > 0
    BY <1>1, <1>2 DEF HoldInput, RowOf, Rows, Valid
  <1>4. ~NamesUnknown(in)
    BY <1>1, <1>2 DEF NamesUnknown, AccountsOf
  <1>5. Atomic!Available(x) = Available(OrZero(b), NormalBalance[x[1]])
    BY <1>3, SameAvailable
  <1>6. ASSUME Available(OrZero(b), NormalBalance[x[1]]) < in.units, Fail(r, "insufficient_funds")
        PROVE  Atomically
    <2>1. Atomic!Available(RowOf(in)) < in.units
      BY <1>5, <1>6
    <2>2. Atomic!Refusable(in, "insufficient_funds")
      BY <1>1, <1>4, <2>1 DEF Atomic!Refusable
    <2> QED
      BY <1>1, <1>6, <2>2, FailRefuses DEF Atomic!Codes
  <1>7. CASE b = None /\ Fail(r, "insufficient_funds")
    <2>1. Available(OrZero(b), NormalBalance[x[1]]) = 0
      BY <1>7 DEF OrZero, Available, PostedNet, ZeroBalance
    <2> QED
      BY <1>3, <1>6, <1>7, <2>1
  <1>8. CASE b # None /\ Available(b, NormalBalance[x[1]]) < in.units /\ Fail(r, "insufficient_funds")
    BY <1>6, <1>8 DEF OrZero
  <1>9. CASE UNCHANGED <<req, resp>> /\ UNCHANGED tables
    BY <1>9, AdvanceIsSilent
  <1> QED
    BY <1>7, <1>8, <1>9 DEF HoldLock, Advance

\* CaptureHold's and ReleaseHold's checks of the hold they locked
LEMMA SettleLockServes ==
    ASSUME LedgerInductive, NEW r \in Requests, SettleLock(r)
    PROVE  Atomically
  <1> DEFINE in == req[r]
             h  == in.target
  <1>1. Open(r) /\ in.op \in {"capture", "release"} /\ holds[h] # None
    BY DEF SettleLock, Open
  <1>2. in \in Inputs /\ h \in HoldIds
    BY <1>1, BeingServed, TargetType DEF HoldIds
  <1>3. CASE holds[h].status # "active" /\ Fail(r, "conflict")
    <2>1. Atomic!Refusable(in, "conflict")
      BY <1>1, <1>2, <1>3, SameRows DEF Atomic!Refusable
    <2> QED
      BY <1>1, <1>3, <2>1, FailRefuses DEF Atomic!Codes
  <1>4. CASE in.op = "capture" /\ CaptureError(in, holds[h]) # None /\ Fail(r, CaptureError(in, holds[h]))
    <2>1. in \in CaptureInput /\ holds[h] \in Hold
      BY <1>1, <1>2, <1>4, BeingServed, InputFields DEF TypeOK, HoldIds
    <2>2. in.units \in Int /\ holds[h].amount \in Int /\ in.transaction \in Requests \cup {None}
      BY <2>1 DEF CaptureInput, Hold
    <2>3. CASE in.asset # None /\ (in.asset # holds[h].asset \/ in.units > holds[h].amount)
      <3>1. CaptureError(in, holds[h]) = "validation"
        BY <2>3 DEF CaptureError
      <3>2. ~Atomic!Fits(in, holds[h])
        BY <2>2, <2>3 DEF Atomic!Fits
      <3>3. Atomic!Refusable(in, "validation")
        BY <1>2, <1>4, <3>2, SameRows DEF Atomic!Refusable
      <3> QED
        BY <1>1, <1>4, <3>1, <3>3, FailRefuses DEF Atomic!Codes
    <2>4. CASE ~(in.asset # None /\ (in.asset # holds[h].asset \/ in.units > holds[h].amount))
      <3>1. /\ CaptureError(in, holds[h]) = "not_found"
            /\ in.transaction # None /\ transactions[in.transaction] = None
        BY <1>4, <2>4 DEF CaptureError
      <3>2. in.transaction \notin TxIds \cup {None}
        BY <3>1 DEF TxIds
      <3>3. Atomic!Refusable(in, "not_found")
        BY <1>4, <3>2, SameRows DEF Atomic!Refusable
      <3> QED
        BY <1>1, <1>4, <3>1, <3>3, FailRefuses DEF Atomic!Codes
    <2> QED
      BY <2>3, <2>4
  <1>5. CASE UNCHANGED <<req, resp>> /\ UNCHANGED tables
    BY <1>5, AdvanceIsSilent
  <1> QED
    BY <1>3, <1>4, <1>5 DEF SettleLock, Advance

\* What ends a request early: a fault needs no reason.
LEMMA FaultServes ==
    ASSUME LedgerInductive, NEW r \in Requests, Open(r), NEW code \in {"error", "lost"}, Fail(r, code)
    PROVE  Atomically
  BY FailRefuses DEF Atomic!Refusable, Atomic!Codes

\* The statements between the locks and the commit, and the faults
LEMMA WorkServes ==
    ASSUME LedgerInductive, NEW r \in Requests,
           \/ InsertTransaction(r) \/ InsertHold(r) \/ ApplyBalance(r) \/ ReleaseHeld(r)
           \/ DeadlockVictim(r) \/ Fault(r)
    PROVE  Atomically
  <1>1. CASE UNCHANGED <<req, resp>> /\ UNCHANGED tables
    BY <1>1, AdvanceIsSilent
  <1>2. CASE Open(r) /\ (Fail(r, "error") \/ Fail(r, "lost"))
    BY <1>2, FaultServes
  <1>3. CASE InsertTransaction(r) \/ InsertHold(r) \/ ReleaseHeld(r)
    BY <1>1, <1>3 DEF InsertTransaction, InsertHold, ReleaseHeld, UniqueViolation, Advance
  <1>4. CASE ApplyBalance(r)
    BY <1>1, <1>2, <1>4 DEF ApplyBalance, Advance, Open
  <1>5. CASE Crash(r)
    BY <1>2, <1>5 DEF Crash
  <1>7. CASE RecheckFails(r)
    <2>1. pc[r] = "recheck" /\ Open(r) /\ Fail(r, "unresolved")
      BY <1>7 DEF RecheckFails, Open
    <2>2. req[r] \in Keyed
      BY <2>1, BeingServed DEF Shape
    <2>3. Stored(req[r]) # None
      BY <2>1 DEF LedgerInductive, KeysAnswer
    <2>4. Atomic!MadeUnderKeyOf(req[r]) # {}
      BY <2>2, <2>3, StoredTells
    <2>5. Atomic!Refusable(req[r], "unresolved")
      BY <2>2, <2>4 DEF Atomic!Refusable, Atomic!KeyedOps, Keyed
    <2> QED
      BY <2>1, <2>5, FailRefuses DEF Atomic!Codes
  <1>6. CASE DeadlockVictim(r)
    <2>1. \E s \in Requests : WaitsFor(r, s)
      BY <1>6 DEF DeadlockVictim, InWaitCycle
    <2>2. Open(r)
      BY <2>1 DEF WaitsFor, Open
    <2> QED
      BY <1>2, <1>6, <2>2 DEF DeadlockVictim
  <1> QED
    BY <1>3, <1>4, <1>5, <1>6, <1>7 DEF Fault

\* A committed create is one step of the atomic ledger.
LEMMA CreateServes ==
    ASSUME LedgerInductive, NEW r \in Requests, CommitCreate(r), Atomic!InRange'
    PROVE  Atomically
  <1> DEFINE in == req[r]
  <1>1. pc[r] = "commit" /\ in.op = "create" /\ Open(r)
    BY DEF CommitCreate, Open
  <1>2. in # None /\ in \in Inputs /\ Shape(r) /\ Protects(r) /\ Admitted(r)
    BY <1>1, BeingServed
  <1>3. Atomic!Respond(r, "created", r, in.status)
    BY <1>1, AnswerResponds DEF CommitCreate
  <1>4. ~NamesUnknown(in) /\ ~CrossesLedgers(in)
    BY <1>1, <1>2 DEF Admitted, Misnames
  <1>5. Atomic!MadeUnderKeyOf(in) = {}
    BY <1>1, <1>2, SameKeys DEF Protects
  <1>6. Atomic!Create(r)
    BY <1>1, <1>2, <1>3, <1>4, <1>5
    DEF Atomic!Create, Atomic!Asks, Atomic!Emit, CommitCreate, Emit
  <1> QED
    BY <1>6 DEF Atomically, Atomic!Next

\* A committed post is one step of the atomic ledger.
LEMMA PostServes ==
    ASSUME LedgerInductive, NEW r \in Requests, CommitPost(r), Atomic!InRange'
    PROVE  Atomically
  <1> DEFINE t == req[r].target
  <1>1. pc[r] = "commit" /\ req[r].op = "post" /\ Open(r)
    BY DEF CommitPost, Open
  <1>2. req[r] # None /\ TypeOK /\ LedgerInvariant
    BY <1>1, BeingServed
  <1>3. Atomic!Respond(r, "ok", t, "posted")
    BY <1>1, AnswerResponds DEF CommitPost
  <1>4. t \in TxIds /\ transactions[t].status = "draft"
    BY <1>2, PostEffect
  <1>5. t \in Atomic!Drafts
    BY <1>4, SameRows DEF Atomic!Drafts
  <1>6. transactions' = [transactions EXCEPT ![t].status = "posted"]
    BY DEF CommitPost
  <1>7. Atomic!Emit("ledger.transaction.posted", t, 0, 0) /\ UNCHANGED holds
    BY DEF CommitPost, Emit, Atomic!Emit
  <1>8. Atomic!Post(r)
    BY <1>1, <1>2, <1>3, <1>5, <1>6, <1>7 DEF Atomic!Post, Atomic!Asks
  <1> QED
    BY <1>8 DEF Atomically, Atomic!Next

\* A committed reversal is one step of the atomic ledger.
LEMMA ReverseServes ==
    ASSUME LedgerInductive, NEW r \in Requests, CommitReverse(r), Atomic!InRange'
    PROVE  Atomically
  <1> DEFINE t   == req[r].target
             new == [key |-> EffectiveKey(req[r]), status |-> "posted",
                     postings |-> ReversePostings(transactions[t].postings),
                     reverses_id |-> t, reversed_by_id |-> None]
  <1>1. pc[r] = "commit" /\ req[r].op = "reverse" /\ Open(r)
    BY DEF CommitReverse, Open
  <1>2. req[r] # None /\ TypeOK /\ LedgerInvariant /\ Protects(r)
    BY <1>1, BeingServed
  <1>3. Atomic!Respond(r, "created", r, "posted")
    BY <1>1, AnswerResponds DEF CommitReverse
  <1>4. /\ t \in TxIds /\ transactions[t].status = "posted" /\ t # r
        /\ PostingsOf(r) = ReversePostings(transactions[t].postings)
    BY <1>2, ReverseEffect
  <1>5. Atomic!MadeUnderKeyOf(req[r]) = {}
    BY <1>1, <1>2, SameKeys DEF Protects
  <1>6. transactions' = [transactions EXCEPT ![r] = new, ![t].status = "reversed",
                                             ![t].reversed_by_id = r]
    <2>1. transactions' = [transactions EXCEPT ![r] = new,
              ![t] = [@ EXCEPT !.status = "reversed", !.reversed_by_id = r]]
      BY <1>4 DEF CommitReverse
    <2> HIDE DEF new
    <2>2. /\ transactions \in [Requests -> Transaction \cup {None}]
          /\ t \in Requests /\ transactions[t] \in Transaction
      BY <1>2, <1>4 DEF TypeOK, TxIds
    <2>3. transactions'[t] = [transactions[t] EXCEPT !.status = "reversed", !.reversed_by_id = r]
      BY <1>4, <2>1, <2>2
    <2> QED
      BY <1>4, <2>1, <2>2, <2>3
  <1>7. Atomic!Emit("ledger.transaction.reversed", t, 0, 0) /\ UNCHANGED holds
    BY DEF CommitReverse, Emit, Atomic!Emit
  <1>8. Atomic!Reverse(r)
    BY <1>1, <1>2, <1>3, <1>4, <1>5, <1>6, <1>7, SameRows DEF Atomic!Reverse, Atomic!Asks
  <1> QED
    BY <1>8 DEF Atomically, Atomic!Next

\* A committed hold is one step of the atomic ledger: what was available under the
\* lock still is.
LEMMA HoldServes ==
    ASSUME LedgerInductive, NEW r \in Requests, CommitHold(r)
    PROVE  Atomically
  <1> DEFINE in == req[r]
             x  == RowOf(in)
             b  == account_balances[x]
  <1>1. pc[r] = "commit" /\ in.op = "hold" /\ Open(r)
    BY DEF CommitHold, Open
  <1>2. in # None /\ in \in Inputs /\ Shape(r) /\ Protects(r) /\ Admitted(r)
    BY <1>1, BeingServed
  <1>3. Atomic!Respond(r, "created", r, "active")
    BY <1>1, AnswerResponds DEF CommitHold
  <1>4. in.account \in Accounts /\ ~NamesUnknown(in) /\ ~CrossesLedgers(in)
    BY <1>1, <1>2 DEF Shape, Admitted, Misnames, AccountsOf
  <1>5. Atomic!MadeUnderKeyOf(in) = {}
    BY <1>1, <1>2, SameKeys DEF Protects
  <1>6. x \in Rows /\ x[1] = in.account
    BY <1>1, <1>2, <1>4, InputFields DEF HoldInput, RowOf, Rows
  <1>7. b # None /\ Available(b, NormalBalance[in.account]) >= in.units
    BY <1>1, <1>2 DEF Protects
  <1>8. Atomic!Available(RowOf(in)) >= in.units
    BY <1>6, <1>7, SameAvailable DEF OrZero
  <1>9. Atomic!Emit("ledger.hold.created", r, 0, 0) /\ UNCHANGED transactions
    BY DEF CommitHold, Emit, Atomic!Emit
  <1>10. holds' = [holds EXCEPT ![r] =
            [key |-> in.key, account |-> in.account, asset |-> in.asset, amount |-> in.units,
             status |-> "active", captured_transaction_id |-> None, hash |-> Fingerprint(in)]]
    BY DEF CommitHold
  <1>11. Atomic!Hold(r)
    BY <1>1, <1>2, <1>3, <1>4, <1>5, <1>8, <1>9, <1>10 DEF Atomic!Hold, Atomic!Asks
  <1> QED
    BY <1>11 DEF Atomically, Atomic!Next

\* A committed capture is one step of the atomic ledger.
LEMMA CaptureServes ==
    ASSUME LedgerInductive, NEW r \in Requests, CommitCapture(r)
    PROVE  Atomically
  <1> DEFINE in == req[r]
             h  == in.target
             captured == IF in.asset = None THEN holds[h].amount ELSE in.units
  <1>1. pc[r] = "commit" /\ in.op = "capture" /\ Open(r)
    BY DEF CommitCapture, Open
  <1>2. in # None /\ in \in Inputs /\ TypeOK /\ LedgerInvariant /\ Admitted(r)
    BY <1>1, BeingServed
  <1>3. Atomic!Respond(r, "ok", h, "captured")
    BY <1>1, AnswerResponds DEF CommitCapture
  <1>4. h \in HoldIds /\ holds[h].status = "active" /\ holds[h] \in Hold
    BY <1>2, SettleEffect DEF TypeOK, HoldIds
  <1>5. in \in CaptureInput
    BY <1>1, <1>2, InputFields
  <1>6. CaptureError(in, holds[h]) = None
    BY <1>1, <1>2 DEF Admitted
  <1>7. Atomic!Fits(in, holds[h]) /\ in.transaction \in TxIds \cup {None}
    <2>1. "validation" # None /\ "not_found" # None
      BY ConstantsAssumption
    <2>2. in.units \in Int /\ holds[h].amount \in Int /\ in.transaction \in Requests \cup {None}
      BY <1>4, <1>5 DEF CaptureInput, Hold
    <2> QED
      BY <1>6, <2>1, <2>2 DEF CaptureError, Atomic!Fits, TxIds
  <1>8. holds' = [holds EXCEPT ![h].status = "captured",
                               ![h].captured_transaction_id = in.transaction]
    <2>1. holds' = [holds EXCEPT ![h] =
             [@ EXCEPT !.status = "captured", !.captured_transaction_id = in.transaction]]
      BY DEF CommitCapture
    <2>2. holds \in [Requests -> Hold \cup {None}] /\ h \in Requests
      BY <1>2, <1>4 DEF TypeOK, HoldIds
    <2> QED
      BY <2>1, <2>2
  <1>9. Atomic!Emit("ledger.hold.captured", h, captured, holds[h].amount - captured)
        /\ UNCHANGED transactions
    BY DEF CommitCapture, Emit, Atomic!Emit
  <1>10. Atomic!Capture(r)
    BY <1>1, <1>2, <1>3, <1>4, <1>7, <1>8, <1>9, SameRows DEF Atomic!Capture, Atomic!Asks
  <1> QED
    BY <1>10 DEF Atomically, Atomic!Next

\* A committed release is one step of the atomic ledger.
LEMMA ReleaseServes ==
    ASSUME LedgerInductive, NEW r \in Requests, CommitRelease(r)
    PROVE  Atomically
  <1> DEFINE h == req[r].target
  <1>1. pc[r] = "commit" /\ req[r].op = "release" /\ Open(r)
    BY DEF CommitRelease, Open
  <1>2. req[r] # None /\ LedgerInvariant
    BY <1>1, BeingServed
  <1>3. Atomic!Respond(r, "ok", h, "released")
    BY <1>1, AnswerResponds DEF CommitRelease
  <1>4. h \in HoldIds /\ holds[h].status = "active"
    BY <1>2, SettleEffect
  <1>5. holds' = [holds EXCEPT ![h].status = "released"] /\ UNCHANGED transactions
    BY DEF CommitRelease
  <1>6. Atomic!Emit("ledger.hold.released", h, 0, holds[h].amount)
    BY DEF CommitRelease, Emit, Atomic!Emit
  <1>7. Atomic!Release(r)
    BY <1>1, <1>2, <1>3, <1>4, <1>5, <1>6, SameRows DEF Atomic!Release, Atomic!Asks
  <1> QED
    BY <1>7 DEF Atomically, Atomic!Next

\* Every step of the store is a step of the atomic ledger, or none.
LEMMA StepServes ==
    ASSUME LedgerInductive, LedgerInductive', [Next]_vars
    PROVE  Atomically
  <1>r. Atomic!InRange'
    <2>1. LedgerInductive' => Atomic!InRange'
      BY StaysInRange, PTL
    <2> QED
      BY <2>1
  <1>1. ASSUME NEW r \in Requests, NEW in \in Inputs, Receive(r, in) \/ Reject(r, in)
        PROVE  Atomically
    BY <1>1, ReceiveArrives
  <1>2. ASSUME NEW r \in Requests, Step(r) \/ Fault(r)
        PROVE  Atomically
    <2>1. CASE LookupHit(r) \/ LookupMiss(r) \/ CheckReferences(r) \/ Recheck(r)
      BY <2>1, LookupHitServes, LookupMissServes, CheckReferencesServes
    <2>2. CASE TargetMissing(r) \/ PostLock(r) \/ ReverseLock(r) \/ HoldLock(r) \/ SettleLock(r)
      BY <2>2, TargetMissingServes, PostLockServes, ReverseLockServes, HoldLockServes,
         SettleLockServes
    <2>3. CASE \/ InsertTransaction(r) \/ InsertHold(r) \/ ApplyBalance(r) \/ ReleaseHeld(r)
               \/ DeadlockVictim(r) \/ Fault(r)
      BY <2>3, WorkServes
    <2>4. CASE CommitCreate(r) \/ CommitPost(r) \/ CommitReverse(r)
      BY <1>r, <2>4, CreateServes, PostServes, ReverseServes
    <2>5. CASE CommitHold(r) \/ CommitCapture(r) \/ CommitRelease(r)
      BY <2>5, HoldServes, CaptureServes, ReleaseServes
    <2> QED
      BY <1>2, <2>1, <2>2, <2>3, <2>4, <2>5 DEF Step
  <1>3. ASSUME Finished \/ UNCHANGED vars
        PROVE  Atomically
    BY <1>3 DEF Finished, vars, Atomically, Atomic!vars
  <1> QED
    BY <1>1, <1>2, <1>3 DEF Next

\* The ledger serves every request as if it ran alone, at one instant: each statement
\* of CreateTransaction, PostTransaction, ReverseTransaction, CreateHold, CaptureHold
\* and ReleaseHold, each roll-back, lost race, deadlock and crash is one step of the
\* atomic ledger or none.
THEOREM StoreIsAtomic == Spec => ImplementsAtomicLedger
  <1>1. Init => Atomic!Init
    BY DEF Init, Atomic!Init
  <1>2. LedgerInductive /\ LedgerInductive' /\ [Next]_vars => [Atomic!Next]_(Atomic!vars)
    BY StepServes DEF Atomically
  <1> QED
    BY <1>1, <1>2, BooksAddUp, PTL DEF Spec, ImplementsAtomicLedger, Atomic!Spec
=============================================================================
