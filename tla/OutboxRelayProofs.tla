-------------------------- MODULE OutboxRelayProofs --------------------------
(***************************************************************************)
(* Proofs about OutboxRelay: its invariant, what the broker's duplicate    *)
(* window guarantees, and that the relay implements AtLeastOnce.           *)
(***************************************************************************)
EXTENDS OutboxRelay, TLAPS, FiniteSetTheorems, WellFoundedInduction

\* A non-empty set of row ids has a first one: of the intervals 0..x that end in the
\* set, one contains no other.
LEMMA MinIsFirst ==
    ASSUME NEW S, S \subseteq Rows, S # {}
    PROVE  /\ Min(S) \in S
           /\ \A j \in S : Min(S) <= j
           /\ \A j \in S : j \in Nat
  <1>1. S \subseteq Nat
    BY RelayAssumption
  <1>2. PICK m \in S : TRUE
    OBVIOUS
  <1> DEFINE Base == 0..m
             B == {0..x : x \in {y \in S : y <= m}}
  <1>3. IsFiniteSet(Base) /\ B \subseteq SUBSET Base /\ B # {}
    <2>1. m \in Nat /\ 0 \in Int /\ m \in Int
      BY <1>1, <1>2
    <2>2. IsFiniteSet(Base)
      BY <2>1, FS_Interval
    <2> QED
      BY <1>1, <2>1, <2>2
  <1>4. PICK s \in B : \A t \in B : ~(<<t, s>> \in StrictSubsetOrdering(Base))
    <2> HIDE DEF B, Base
    <2>1. B \subseteq FiniteSubsetsOf(Base)
      BY <1>3, FS_FiniteSubsetsOfFinite
    <2> QED
      BY <1>3, <2>1, WFMin, FS_StrictSubsetOrderingWellFounded
  <1>5. PICK x \in S : x <= m /\ s = 0..x
    BY <1>4
  <1>6. ASSUME NEW y \in S, y < x
        PROVE  FALSE
    <2>1. x \in Nat /\ y \in Nat /\ m \in Nat /\ y <= m
      BY <1>1, <1>5, <1>6
    <2>2. 0..y \in B /\ 0..y \subseteq s /\ 0..y # s
      <3>1. x \in 0..x /\ x \notin 0..y
        BY <1>6, <2>1
      <3> QED
        BY <1>5, <1>6, <2>1, <3>1
    <2>3. <<0..y, s>> \in StrictSubsetOrdering(Base)
      BY <1>3, <1>4, <2>2 DEF StrictSubsetOrdering
    <2> QED
      BY <1>4, <2>2, <2>3
  <1>7. \A y \in S : x <= y
    BY <1>1, <1>6
  <1> QED
    BY <1>1, <1>7 DEF Min

\* The pass of one poller in a step of it, and of the others
Moves(p, pc, batch, left, done) ==
    /\ poller'[p] = [pc |-> pc, batch |-> batch, left |-> left, done |-> done]
    /\ \A q \in Pollers \ {p} : poller'[q] = poller[q]

Poller == [pc : {"idle", "draining", "lost"}, batch : SUBSET Rows, left : SUBSET Rows, done : SUBSET Rows]

\* What a poller finds at the next row of its batch
LEMMA AtNextRow ==
    ASSUME RelayInvariant, NEW p \in Pollers, poller[p].left # {}
    PROVE  LET t == poller[p]
               i == NextRow(p)
           IN  /\ t \in Poller /\ i \in t.left /\ i \in t.batch /\ i \in Rows
               /\ i \in committed
               /\ \A j \in t.left : i <= j
               /\ \A j \in t.batch : j \in Nat
               /\ t.batch \ Malformed \subseteq t.left \cup t.done
  <1> DEFINE t == poller[p]
  <1>1. t \in Poller /\ t.left \subseteq t.batch /\ t.batch \subseteq committed
    BY DEF RelayInvariant, TypeOK, DrainsItsBatch, Poller
  <1>2. t.left \subseteq Rows /\ t.batch \subseteq Rows
    BY <1>1 DEF Poller
  <1>3. NextRow(p) \in t.left /\ \A j \in t.left : NextRow(p) <= j
    BY <1>2, MinIsFirst DEF NextRow
  <1>4. t.batch \ Malformed \subseteq t.left \cup t.done
    BY DEF RelayInvariant, DrainsItsBatch
  <1>5. \A j \in t.batch : j \in Nat
    BY <1>2, RelayAssumption
  <1> QED
    BY <1>1, <1>2, <1>3, <1>4, <1>5

\* ToSet after an append
LEMMA StreamAppend ==
    ASSUME NEW s \in Seq(Rows), NEW i \in Rows
    PROVE  /\ ToSet(Append(s, i)) = ToSet(s) \cup {i}
           /\ Append(s, i) \in Seq(Rows)
           /\ Len(Append(s, i)) = Len(s) + 1
  <1>1. /\ Append(s, i) \in Seq(Rows) /\ Len(Append(s, i)) = Len(s) + 1
        /\ DOMAIN s = 1..Len(s) /\ DOMAIN Append(s, i) = 1..(Len(s) + 1)
        /\ Len(s) \in Nat
        /\ \A k \in 1..Len(s) : Append(s, i)[k] = s[k]
        /\ Append(s, i)[Len(s) + 1] = i
    OBVIOUS
  <1>2. ASSUME NEW x \in ToSet(Append(s, i))
        PROVE  x \in ToSet(s) \cup {i}
    <2>1. PICK k \in 1..(Len(s) + 1) : x = Append(s, i)[k]
      BY <1>1 DEF ToSet
    <2>2. k \in 1..Len(s) \/ k = Len(s) + 1
      BY <1>1
    <2> QED
      BY <1>1, <2>1, <2>2 DEF ToSet
  <1>3. ASSUME NEW x \in ToSet(s) \cup {i}
        PROVE  x \in ToSet(Append(s, i))
    <2>1. ASSUME NEW k \in 1..Len(s), x = s[k]
          PROVE  x \in ToSet(Append(s, i))
      <3>1. k \in 1..(Len(s) + 1)
        BY <1>1
      <3> QED
        BY <1>1, <2>1, <3>1 DEF ToSet
    <2>2. ASSUME x = i
          PROVE  x \in ToSet(Append(s, i))
      <3>1. Len(s) + 1 \in 1..(Len(s) + 1)
        BY <1>1
      <3> QED
        BY <1>1, <2>2, <3>1 DEF ToSet
    <2> QED
      BY <1>1, <2>1, <2>2 DEF ToSet
  <1> QED
    BY <1>1, <1>2, <1>3

\* Storing a row that can be decoded: the stream has it, and nothing leaves the stream.
LEMMA StoreKeepsCount ==
    ASSUME TypeOK, WindowCounts, NEW i \in Rows, i \in committed, i \notin Malformed, Store(i),
           UNCHANGED <<committed, forgets>>
    PROVE  /\ ToSet(stream') = ToSet(stream) \cup {i}
           /\ stream' \in Seq(Rows) /\ window' \subseteq Rows
           /\ WindowCounts'
           /\ stream' = stream \/ stream' = Append(stream, i)
  <1> DEFINE S == ToSet(stream)
             U == S \ window
  <1>t. stream \in Seq(Rows) /\ window \subseteq Rows /\ forgets \in Int /\ Len(stream) \in Nat
    BY DEF TypeOK
  <1>w. /\ window \subseteq S /\ IsFiniteSet(S) /\ S \subseteq committed \ Malformed
        /\ Len(stream) + Cardinality(U) <= Cardinality(S) + forgets
    BY DEF WindowCounts
  <1>f. IsFiniteSet(U) /\ Cardinality(U) \in Nat /\ Cardinality(S) \in Nat
    <2>1. U \in SUBSET S
      OBVIOUS
    <2> HIDE DEF U, S
    <2>2. IsFiniteSet(U)
      BY <1>w, <2>1, FS_Subset
    <2> QED
      BY <1>w, <2>2, FS_CardinalityType
  <1>1. CASE i \in window
    <2>1. stream' = stream /\ window' = window
      BY <1>1 DEF Store
    <2> QED
      BY <1>1, <1>t, <1>w, <2>1 DEF WindowCounts
  <1>2. CASE i \notin window
    <2>1. stream' = Append(stream, i) /\ window' = window \cup {i}
      BY <1>2 DEF Store
    <2>2. ToSet(stream') = S \cup {i} /\ stream' \in Seq(Rows) /\ Len(stream') = Len(stream) + 1
      BY <1>t, <2>1, StreamAppend
    <2>3. ToSet(stream') \ window' = U \ {i}
      BY <2>1, <2>2
    <2> DEFINE m == Len(stream)
               c == Cardinality(S)
               u == Cardinality(U)
    <2>4. IsFiniteSet(S \cup {i}) /\ Cardinality(S \cup {i}) = IF i \in S THEN c ELSE c + 1
      <3> HIDE DEF S
      <3> QED
        BY <1>w, FS_AddElement
    <2>5. Cardinality(U \ {i}) = IF i \in U THEN u - 1 ELSE u
      <3> HIDE DEF U
      <3> QED
        BY <1>f, FS_RemoveElement
    <2>6. i \in U <=> i \in S
      BY <1>2
    <2>7. (m + 1) + Cardinality(U \ {i}) <= Cardinality(S \cup {i}) + forgets
      <3>1. m \in Int /\ c \in Int /\ u \in Int /\ m + u <= c + forgets
        BY <1>t, <1>f, <1>w
      <3> HIDE DEF m, c, u
      <3> QED
        BY <1>t, <2>4, <2>5, <2>6, <3>1
    <2> QED
      BY <1>t, <1>w, <2>1, <2>2, <2>3, <2>4, <2>7 DEF WindowCounts
  <1> QED
    BY <1>1, <1>2

\* A poller that goes on through its batch keeps the invariant when what it is going to
\* mark is on the stream, in order, and nothing leaves the stream.
LEMMA GoingOnKeeps ==
    ASSUME RelayInvariant, NEW p \in Pollers, NEW l, NEW d,
           poller[p].pc # "idle",
           poller' \in [Pollers -> Poller], Moves(p, poller[p].pc, poller[p].batch, l, d),
           UNCHANGED <<service, committed, published, forgets, crashes>>,
           stream' \in Seq(Rows), window' \subseteq Rows, WindowCounts',
           ToSet(stream) \subseteq ToSet(stream'),
           l \subseteq poller[p].batch, d \subseteq poller[p].batch,
           \A i \in d : i \in ToSet(stream') \/ (i \in Malformed /\ service = "reconciliation"),
           \A i \in d, j \in poller[p].batch \ Malformed : j < i => j \in d,
           l # {} => poller[p].batch \ Malformed \subseteq l \cup d
    PROVE  RelayInvariant'
  <1> DEFINE t == poller[p]
  <1>n. /\ poller'[p].batch = t.batch /\ poller'[p].left = l /\ poller'[p].done = d
        /\ poller'[p].pc = t.pc
        /\ \A q \in Pollers : q # p => poller'[q] = poller[q]
    BY DEF Moves
  <1>1. TypeOK'
    BY DEF RelayInvariant, TypeOK, Poller
  <1>2. PollersCooperate'
    <2>1. \A q \in Pollers : poller'[q].batch = poller[q].batch /\ poller'[q].pc = poller[q].pc
      BY <1>n
    <2> QED
      BY <2>1 DEF RelayInvariant, PollersCooperate, Draining
  <1>3. MarkedIsOnStream'
    <2>1. ASSUME NEW q \in Pollers, NEW i \in poller'[q].done
          PROVE  i \in ToSet(stream') \/ (i \in Malformed /\ service' = "reconciliation")
      <3>1. CASE q = p
        BY <1>n, <2>1, <3>1
      <3>2. CASE q # p
        BY <1>n, <2>1, <3>2 DEF RelayInvariant, MarkedIsOnStream
      <3> QED
        BY <3>1, <3>2
    <2>2. ASSUME NEW i \in published'
          PROVE  i \in ToSet(stream') \/ (i \in Malformed /\ service' = "reconciliation")
      BY <2>2 DEF RelayInvariant, MarkedIsOnStream
    <2> QED
      BY <2>1, <2>2 DEF MarkedIsOnStream
  <1>4. BatchesKeepOrder'
    <2>1. ASSUME NEW q \in Pollers, NEW i \in poller'[q].done, NEW j \in poller'[q].batch \ Malformed, j < i
          PROVE  j \in poller'[q].done
      <3>1. CASE q = p
        BY <1>n, <2>1, <3>1
      <3>2. CASE q # p
        BY <1>n, <2>1, <3>2 DEF RelayInvariant, BatchesKeepOrder
      <3> QED
        BY <3>1, <3>2
    <2> QED
      BY <2>1 DEF BatchesKeepOrder
  <1>5. DrainsItsBatch'
    <2> SUFFICES ASSUME NEW q \in Pollers
                 PROVE  LET u == poller'[q] IN
                        /\ u.pc = "idle" => u = Idle
                        /\ u.batch \subseteq committed' /\ u.left \subseteq u.batch /\ u.done \subseteq u.batch
                        /\ u.left # {} => u.batch \ Malformed \subseteq u.left \cup u.done
      BY DEF DrainsItsBatch, Idle
    <2>1. CASE q = p
      BY <1>n, <2>1 DEF RelayInvariant, DrainsItsBatch
    <2>2. CASE q # p
      BY <1>n, <2>2 DEF RelayInvariant, DrainsItsBatch
    <2> QED
      BY <2>1, <2>2
  <1> QED
    BY <1>1, <1>2, <1>3, <1>4, <1>5 DEF RelayInvariant

\* A poller whose transaction ends lets its rows go; what it marks it had published.
LEMMA EndingKeeps ==
    ASSUME RelayInvariant, NEW p \in Pollers,
           poller' = [poller EXCEPT ![p] = Idle],
           published' = published \/ (p \in Draining /\ published' = published \cup poller[p].done),
           crashes' \in 0..MaxCrashes,
           UNCHANGED <<service, committed, stream, window, forgets>>
    PROVE  RelayInvariant'
  <1> DEFINE t == poller[p]
  <1>i. Idle \in Poller /\ Idle.pc = "idle" /\ Idle.batch = {} /\ Idle.left = {} /\ Idle.done = {}
    BY DEF Idle, Poller
  <1>t. poller \in [Pollers -> Poller] /\ t.done \subseteq t.batch /\ t.batch \subseteq committed
    BY DEF RelayInvariant, TypeOK, DrainsItsBatch, Poller
  <1>n. poller'[p] = Idle /\ \A q \in Pollers : q # p => poller'[q] = poller[q]
    BY <1>t
  <1>1. TypeOK'
    <2>1. poller' \in [Pollers -> Poller]
      BY <1>i, <1>t
    <2> QED
      BY <1>t, <2>1 DEF RelayInvariant, TypeOK, Poller
  <1>2. PollersCooperate'
    <2>d. Draining' = Draining \ {p}
      BY <1>i, <1>n DEF Draining
    <2>1. ASSUME NEW q \in Draining \ {p}, NEW r \in Draining \ {p}, q # r
          PROVE  poller'[q].batch \cap poller'[r].batch = {}
      <3>1. poller'[q] = poller[q] /\ poller'[r] = poller[r]
        BY <1>n DEF Draining
      <3> QED
        BY <2>1, <3>1 DEF RelayInvariant, PollersCooperate
    <2>2. ASSUME NEW q \in Draining \ {p}
          PROVE  poller'[q].batch \cap published' = {}
      <3>1. poller'[q] = poller[q] /\ poller[q].batch \cap published = {}
        BY <1>n DEF RelayInvariant, PollersCooperate, Draining
      <3>2. p \in Draining => poller[q].batch \cap poller[p].batch = {}
        BY DEF RelayInvariant, PollersCooperate
      <3> QED
        BY <1>t, <3>1, <3>2
    <2> QED
      BY <2>1, <2>2, <2>d DEF PollersCooperate
  <1>3. MarkedIsOnStream'
    <2>1. \A q \in Pollers : poller'[q].done \subseteq poller[q].done
      BY <1>i, <1>n
    <2> QED
      BY <2>1 DEF RelayInvariant, MarkedIsOnStream
  <1>4. BatchesKeepOrder'
    BY <1>i, <1>n DEF RelayInvariant, BatchesKeepOrder
  <1>5. DrainsItsBatch'
    <2> SUFFICES ASSUME NEW q \in Pollers
                 PROVE  LET u == poller'[q] IN
                        /\ u.pc = "idle" => u = Idle
                        /\ u.batch \subseteq committed' /\ u.left \subseteq u.batch /\ u.done \subseteq u.batch
                        /\ u.left # {} => u.batch \ Malformed \subseteq u.left \cup u.done
      BY DEF DrainsItsBatch, Idle
    <2>1. CASE q = p
      BY <1>i, <1>n, <2>1
    <2>2. CASE q # p
      BY <1>n, <2>2 DEF RelayInvariant, DrainsItsBatch
    <2> QED
      BY <2>1, <2>2
  <1>6. WindowCounts'
    BY DEF RelayInvariant, WindowCounts
  <1> QED
    BY <1>1, <1>2, <1>3, <1>4, <1>5, <1>6 DEF RelayInvariant

\* Fields set by EXCEPT, as a record
LEMMA MovesBy ==
    ASSUME poller \in [Pollers -> Poller], NEW p \in Pollers, NEW l \in SUBSET Rows, NEW d \in SUBSET Rows,
           poller' = [poller EXCEPT ![p].left = l, ![p].done = d]
    PROVE  poller' \in [Pollers -> Poller] /\ Moves(p, poller[p].pc, poller[p].batch, l, d)
  BY DEF Poller, Moves

\* A poller that takes its next row, and what it is going to mark: earlier rows that can be
\* decoded are all among those it has done.
LEMMA OrderedSoFar ==
    ASSUME RelayInvariant, NEW p \in Pollers, poller[p].left # {},
           NEW i \in poller[p].done \cup {NextRow(p)}, NEW j \in poller[p].batch \ Malformed, j < i
    PROVE  j \in poller[p].done
  <1>1. CASE i \in poller[p].done
    BY <1>1 DEF RelayInvariant, BatchesKeepOrder
  <1>2. CASE i = NextRow(p)
    <2>1. /\ \A k \in poller[p].left : i <= k
          /\ \A k \in poller[p].batch : k \in Nat
          /\ i \in poller[p].batch
          /\ poller[p].batch \ Malformed \subseteq poller[p].left \cup poller[p].done
      BY <1>2, AtNextRow
    <2>2. j \notin poller[p].left
      BY <2>1
    <2> QED
      BY <2>1, <2>2
  <1> QED
    BY <1>1, <1>2

\* Skipping a row that cannot be decoded keeps the invariant (DrainOnce).
LEMMA SkipKeeps ==
    ASSUME RelayInvariant, NEW p \in Pollers, Skip(p)
    PROVE  RelayInvariant'
  <1> DEFINE t == poller[p]
             i == NextRow(p)
             l == t.left \ {i}
             d == IF service = "reconciliation" THEN t.done \cup {i} ELSE t.done
  <1>1. t.pc # "idle" /\ t.left # {} /\ i \in Malformed
    BY DEF Skip, InLoop
  <1>2. /\ t \in Poller /\ i \in t.batch /\ i \in Rows
        /\ t.batch \ Malformed \subseteq t.left \cup t.done
    BY <1>1, AtNextRow
  <1>3. poller \in [Pollers -> Poller] /\ t.left \subseteq t.batch /\ t.done \subseteq t.batch /\ t.batch \subseteq Rows
    BY <1>2 DEF RelayInvariant, TypeOK, DrainsItsBatch, Poller
  <1>4. l \in SUBSET Rows /\ d \in SUBSET Rows
    BY <1>2, <1>3
  <1>5. poller' \in [Pollers -> Poller] /\ Moves(p, t.pc, t.batch, l, d)
    <2>1. poller' = [poller EXCEPT ![p].left = l, ![p].done = d]
      BY <1>3 DEF Skip, Poller
    <2> HIDE DEF l, d
    <2> QED
      BY <1>1, <1>3, <1>4, <2>1, MovesBy
  <1>6. UNCHANGED <<service, committed, published, stream, window, forgets, crashes>>
    BY DEF Skip
  <1>7. stream' \in Seq(Rows) /\ window' \subseteq Rows /\ WindowCounts' /\ ToSet(stream) \subseteq ToSet(stream')
    BY <1>6 DEF RelayInvariant, TypeOK, WindowCounts
  <1>8. \A k \in d : k \in ToSet(stream') \/ (k \in Malformed /\ service = "reconciliation")
    <2>1. \A k \in t.done : k \in ToSet(stream) \/ (k \in Malformed /\ service = "reconciliation")
      BY DEF RelayInvariant, MarkedIsOnStream
    <2> QED
      BY <1>1, <1>6, <2>1
  <1>9. \A k \in d, j \in t.batch \ Malformed : j < k => j \in d
    BY <1>1, OrderedSoFar
  <1>10. l # {} => t.batch \ Malformed \subseteq l \cup d
    BY <1>1, <1>2
  <1>11. l \subseteq t.batch /\ d \subseteq t.batch
    BY <1>2, <1>3
  <1> HIDE DEF l, d
  <1> QED
    BY <1>1, <1>5, <1>6, <1>7, <1>8, <1>9, <1>10, <1>11, GoingOnKeeps, ZenonT(60)

\* Publishing an event keeps the invariant: the broker's window tells a copy from a
\* first delivery (Publish).
LEMMA PublishKeeps ==
    ASSUME RelayInvariant, NEW p \in Pollers, Publish(p)
    PROVE  RelayInvariant'
  <1> DEFINE t == poller[p]
             i == NextRow(p)
             l == t.left \ {i}
             d == t.done \cup {i}
  <1>1. t.pc # "idle" /\ t.left # {} /\ i \notin Malformed /\ Store(i)
    BY DEF Publish, InLoop
  <1>2. /\ t \in Poller /\ i \in t.batch /\ i \in Rows /\ i \in committed
        /\ t.batch \ Malformed \subseteq t.left \cup t.done
    BY <1>1, AtNextRow
  <1>3. poller \in [Pollers -> Poller] /\ t.left \subseteq t.batch /\ t.done \subseteq t.batch /\ t.batch \subseteq Rows
    BY <1>2 DEF RelayInvariant, TypeOK, DrainsItsBatch, Poller
  <1>4. l \in SUBSET Rows /\ d \in SUBSET Rows
    BY <1>2, <1>3
  <1>5. poller' \in [Pollers -> Poller] /\ Moves(p, t.pc, t.batch, l, d)
    <2>1. poller' = [poller EXCEPT ![p].left = l, ![p].done = d]
      BY <1>3 DEF Publish, Poller
    <2> HIDE DEF l, d
    <2> QED
      BY <1>1, <1>3, <1>4, <2>1, MovesBy
  <1>6. UNCHANGED <<service, committed, published, forgets, crashes>>
    BY DEF Publish
  <1>7. /\ ToSet(stream') = ToSet(stream) \cup {i}
        /\ stream' \in Seq(Rows) /\ window' \subseteq Rows /\ WindowCounts'
    <2> HIDE DEF i
    <2> QED
      BY <1>1, <1>2, <1>6, StoreKeepsCount DEF RelayInvariant
  <1>8. \A k \in d : k \in ToSet(stream') \/ (k \in Malformed /\ service = "reconciliation")
    <2>1. \A k \in t.done : k \in ToSet(stream) \/ (k \in Malformed /\ service = "reconciliation")
      BY DEF RelayInvariant, MarkedIsOnStream
    <2> QED
      BY <1>7, <2>1
  <1>9. \A k \in d, j \in t.batch \ Malformed : j < k => j \in d
    BY <1>1, OrderedSoFar
  <1>10. l # {} => t.batch \ Malformed \subseteq l \cup d
    BY <1>2
  <1>11. l \subseteq t.batch /\ d \subseteq t.batch /\ ToSet(stream) \subseteq ToSet(stream')
    BY <1>2, <1>3, <1>7
  <1> HIDE DEF l, d
  <1> QED
    BY <1>1, <1>5, <1>6, <1>7, <1>8, <1>9, <1>10, <1>11, GoingOnKeeps, ZenonT(60)

\* A failure ends the batch, whether or not the broker has stored the message.
LEMMA FailingKeeps ==
    ASSUME RelayInvariant, NEW p \in Pollers, PublishFailed(p) \/ PublishUnanswered(p)
    PROVE  RelayInvariant'
  <1> DEFINE t == poller[p]
             i == NextRow(p)
             l == {}
             d == t.done
  <1>1. /\ t.pc # "idle" /\ t.left # {} /\ i \notin Malformed
        /\ Store(i) \/ UNCHANGED <<stream, window>>
    BY DEF PublishFailed, PublishUnanswered, InLoop
  <1>2. t \in Poller /\ i \in Rows /\ i \in committed
    BY <1>1, AtNextRow
  <1>3. poller \in [Pollers -> Poller] /\ d \subseteq t.batch /\ d \subseteq Rows
    BY <1>2 DEF RelayInvariant, TypeOK, DrainsItsBatch, Poller
  <1>5. poller' \in [Pollers -> Poller] /\ Moves(p, t.pc, t.batch, l, d)
    <2>1. poller' = [poller EXCEPT ![p] = [t EXCEPT !.left = l]]
      BY DEF PublishFailed, PublishUnanswered
    <2>2. l \subseteq Rows
      OBVIOUS
    <2> HIDE DEF l
    <2>3. /\ [t EXCEPT !.left = l] = [pc |-> t.pc, batch |-> t.batch, left |-> l, done |-> t.done]
          /\ [t EXCEPT !.left = l] \in Poller
      BY <1>2, <2>2 DEF Poller
    <2> HIDE DEF t
    <2> QED
      BY <1>1, <1>3, <2>1, <2>3 DEF Moves
  <1>6. UNCHANGED <<service, committed, published, forgets, crashes>>
    BY DEF PublishFailed, PublishUnanswered
  <1>7. /\ ToSet(stream) \subseteq ToSet(stream')
        /\ stream' \in Seq(Rows) /\ window' \subseteq Rows /\ WindowCounts'
    <2>1. CASE Store(i)
      <3> HIDE DEF i
      <3> QED
        BY <1>1, <1>2, <1>6, <2>1, StoreKeepsCount DEF RelayInvariant
    <2>2. CASE UNCHANGED <<stream, window>>
      BY <1>6, <2>2 DEF RelayInvariant, TypeOK, WindowCounts
    <2> QED
      BY <1>1, <2>1, <2>2
  <1>8. \A k \in d : k \in ToSet(stream') \/ (k \in Malformed /\ service = "reconciliation")
    BY <1>7 DEF RelayInvariant, MarkedIsOnStream
  <1>9. \A k \in d, j \in t.batch \ Malformed : j < k => j \in d
    BY DEF RelayInvariant, BatchesKeepOrder
  <1>10. l \subseteq t.batch /\ (l # {} => t.batch \ Malformed \subseteq l \cup d)
    OBVIOUS
  <1> HIDE DEF l, d
  <1> QED
    BY <1>1, <1>10, <1>3, <1>5, <1>6, <1>7, <1>8, <1>9, GoingOnKeeps, ZenonT(60)

\* A new batch is made of rows that no open transaction holds and that are not published.
LEMMA SelectKeeps ==
    ASSUME RelayInvariant, NEW p \in Pollers, Select(p)
    PROVE  RelayInvariant'
  <1> DEFINE b == FirstRows(Pending \ Locked)
  <1>t. poller \in [Pollers -> Poller] /\ committed \subseteq Rows /\ poller[p].pc = "idle" /\ poller[p] = Idle
    BY DEF RelayInvariant, TypeOK, DrainsItsBatch, Poller, Select
  <1>1. b \subseteq Pending \ Locked
    BY DEF FirstRows
  <1>2. poller' = [poller EXCEPT ![p] = [pc |-> "draining", batch |-> b, left |-> b, done |-> {}]]
    BY DEF Select
  <1>3. UNCHANGED <<service, committed, published, stream, window, forgets, crashes>>
    BY DEF Select
  <1>4. b \subseteq committed /\ b \cap published = {} /\ b \subseteq Rows
    BY <1>1, <1>t DEF Pending
  <1>5. \A q \in Draining : b \cap poller[q].batch = {}
    BY <1>1 DEF Locked
  <1> HIDE DEF b
  <1>n. /\ poller'[p] = [pc |-> "draining", batch |-> b, left |-> b, done |-> {}]
        /\ \A q \in Pollers : q # p => poller'[q] = poller[q]
    BY <1>t, <1>2
  <1>6. TypeOK'
    <2>1. poller' \in [Pollers -> Poller]
      BY <1>t, <1>2, <1>4 DEF Poller
    <2> QED
      BY <1>3, <2>1 DEF RelayInvariant, TypeOK, Poller
  <1>7. PollersCooperate'
    <2>d. /\ Draining' = Draining \cup {p} /\ p \notin Draining
          /\ poller'[p].batch = b /\ \A q \in Draining : poller'[q] = poller[q]
      BY <1>n, <1>t DEF Draining
    <2>1. ASSUME NEW q \in Draining \cup {p}, NEW r \in Draining \cup {p}, q # r
          PROVE  poller'[q].batch \cap poller'[r].batch = {}
      <3>1. CASE q \in Draining /\ r \in Draining
        BY <2>1, <2>d, <3>1 DEF RelayInvariant, PollersCooperate
      <3>2. CASE q = p \/ r = p
        BY <1>5, <2>1, <2>d, <3>2
      <3> QED
        BY <3>1, <3>2
    <2>2. ASSUME NEW q \in Draining \cup {p}
          PROVE  poller'[q].batch \cap published' = {}
      BY <1>3, <1>4, <2>d DEF RelayInvariant, PollersCooperate
    <2> QED
      BY <2>1, <2>2, <2>d DEF PollersCooperate
  <1>8. MarkedIsOnStream'
    <2>1. \A q \in Pollers : poller'[q].done \subseteq poller[q].done
      BY <1>n
    <2> QED
      BY <1>3, <2>1 DEF RelayInvariant, MarkedIsOnStream
  <1>9. BatchesKeepOrder'
    BY <1>n DEF RelayInvariant, BatchesKeepOrder
  <1>10. DrainsItsBatch'
    <2> SUFFICES ASSUME NEW q \in Pollers
                 PROVE  LET u == poller'[q] IN
                        /\ u.pc = "idle" => u = Idle
                        /\ u.batch \subseteq committed' /\ u.left \subseteq u.batch /\ u.done \subseteq u.batch
                        /\ u.left # {} => u.batch \ Malformed \subseteq u.left \cup u.done
      BY DEF DrainsItsBatch, Idle
    <2>1. CASE q = p
      BY <1>3, <1>4, <1>n, <2>1
    <2>2. CASE q # p
      BY <1>3, <1>n, <2>2 DEF RelayInvariant, DrainsItsBatch
    <2> QED
      BY <2>1, <2>2
  <1>11. WindowCounts'
    BY <1>3 DEF RelayInvariant, WindowCounts
  <1> QED
    BY <1>6, <1>7, <1>8, <1>9, <1>10, <1>11 DEF RelayInvariant

\* Marking the drained batch published and committing it keeps the invariant (DrainOnce).
LEMMA CommitKeeps ==
    ASSUME RelayInvariant, NEW p \in Pollers, Commit(p)
    PROVE  RelayInvariant'
  <1>1. crashes' \in 0..MaxCrashes
    BY DEF Commit, RelayInvariant, TypeOK
  <1>2. p \in Draining
    BY DEF Commit, Draining
  <1> QED
    BY <1>1, <1>2, EndingKeeps DEF Commit

\* A relay that dies, or whose commit fails, keeps the invariant: its rows stay
\* unpublished and its locks go (DrainOnce).
LEMMA CrashKeeps ==
    ASSUME RelayInvariant, NEW p \in Pollers, Crash(p)
    PROVE  RelayInvariant'
  <1>1. crashes' \in 0..MaxCrashes
    BY RelayAssumption DEF Crash, RelayInvariant, TypeOK
  <1> QED
    BY <1>1, EndingKeeps DEF Crash

\* The end of a pass without its session marks nothing (DrainOnce).
LEMMA GiveUpKeeps ==
    ASSUME RelayInvariant, NEW p \in Pollers, GiveUp(p)
    PROVE  RelayInvariant'
  <1>1. crashes' \in 0..MaxCrashes
    BY DEF GiveUp, RelayInvariant, TypeOK
  <1> QED
    BY <1>1, EndingKeeps DEF GiveUp

\* A poller that loses its session keeps its batch and what it has published, and no
\* longer locks a row.
LEMMA LoseSessionKeeps ==
    ASSUME RelayInvariant, NEW p \in Pollers, LoseSession(p)
    PROVE  RelayInvariant'
  <1> DEFINE t == poller[p]
  <1>1. /\ poller' = [poller EXCEPT ![p].pc = "lost"] /\ crashes' = crashes + 1 /\ crashes < MaxCrashes
        /\ UNCHANGED <<service, committed, published, stream, window, forgets>>
    BY DEF LoseSession
  <1>t. poller \in [Pollers -> Poller] /\ t \in Poller
    BY DEF RelayInvariant, TypeOK, Poller
  <1>n. /\ poller'[p] = [t EXCEPT !.pc = "lost"]
        /\ \A q \in Pollers : q # p => poller'[q] = poller[q]
    BY <1>1, <1>t
  <1>r. /\ poller'[p].pc = "lost" /\ poller'[p].batch = t.batch
        /\ poller'[p].left = t.left /\ poller'[p].done = t.done /\ poller'[p] \in Poller
    BY <1>n, <1>t DEF Poller
  <1>s. \A q \in Pollers : /\ poller'[q].batch = poller[q].batch /\ poller'[q].left = poller[q].left
                           /\ poller'[q].done = poller[q].done
    BY <1>n, <1>r
  <1>2. TypeOK'
    <2>1. poller' \in [Pollers -> Poller]
      BY <1>1, <1>r, <1>t
    <2>2. crashes' \in 0..MaxCrashes
      BY <1>1, RelayAssumption DEF RelayInvariant, TypeOK
    <2> QED
      BY <1>1, <2>1, <2>2 DEF RelayInvariant, TypeOK, Poller
  <1>3. PollersCooperate'
    <2>1. Draining' \subseteq Draining /\ Draining \subseteq Pollers
      BY <1>n, <1>r DEF Draining
    <2> QED
      BY <1>1, <1>s, <2>1 DEF RelayInvariant, PollersCooperate
  <1>4. MarkedIsOnStream' /\ BatchesKeepOrder'
    BY <1>1, <1>s DEF RelayInvariant, MarkedIsOnStream, BatchesKeepOrder
  <1>5. DrainsItsBatch'
    <2> SUFFICES ASSUME NEW q \in Pollers
                 PROVE  LET u == poller'[q] IN
                        /\ u.pc = "idle" => u = Idle
                        /\ u.batch \subseteq committed' /\ u.left \subseteq u.batch /\ u.done \subseteq u.batch
                        /\ u.left # {} => u.batch \ Malformed \subseteq u.left \cup u.done
      BY DEF DrainsItsBatch, Idle
    <2>1. CASE q = p
      BY <1>1, <1>r, <2>1 DEF RelayInvariant, DrainsItsBatch
    <2>2. CASE q # p
      BY <1>1, <1>n, <2>2 DEF RelayInvariant, DrainsItsBatch
    <2> QED
      BY <2>1, <2>2
  <1>6. WindowCounts'
    BY <1>1 DEF RelayInvariant, WindowCounts
  <1> QED
    BY <1>2, <1>3, <1>4, <1>5, <1>6 DEF RelayInvariant

\* Writing an event in the ledger's transaction keeps the invariant (InsertOutbox).
LEMMA InsertOutboxKeeps ==
    ASSUME RelayInvariant, NEW i \in Rows, InsertOutbox(i)
    PROVE  RelayInvariant'
  <1>1. /\ committed' = committed \cup {i}
        /\ UNCHANGED <<service, published, poller, stream, window, forgets, crashes>>
    BY DEF InsertOutbox
  <1>2. TypeOK'
    BY <1>1 DEF RelayInvariant, TypeOK
  <1>3. PollersCooperate' /\ MarkedIsOnStream' /\ BatchesKeepOrder'
    BY <1>1 DEF RelayInvariant, PollersCooperate, MarkedIsOnStream, BatchesKeepOrder, Draining
  <1>4. DrainsItsBatch'
    BY <1>1 DEF RelayInvariant, DrainsItsBatch, Idle
  <1>5. WindowCounts'
    BY <1>1 DEF RelayInvariant, WindowCounts
  <1> QED
    BY <1>2, <1>3, <1>4, <1>5 DEF RelayInvariant

\* A message id that leaves the window is paid for by forgets.
LEMMA ForgetKeeps ==
    ASSUME RelayInvariant, NEW i \in Rows, Forget(i)
    PROVE  RelayInvariant'
  <1> DEFINE S == ToSet(stream)
             U == S \ window
             u == Cardinality(U)
             m == Len(stream)
             c == Cardinality(S)
  <1>1. /\ i \in window /\ window' = window \ {i} /\ forgets' = forgets + 1 /\ forgets < MaxForgets
        /\ UNCHANGED <<service, committed, published, poller, stream, crashes>>
    BY DEF Forget
  <1>2. TypeOK'
    BY <1>1, RelayAssumption DEF RelayInvariant, TypeOK
  <1>3. PollersCooperate' /\ MarkedIsOnStream' /\ BatchesKeepOrder' /\ DrainsItsBatch'
    BY <1>1 DEF RelayInvariant, PollersCooperate, MarkedIsOnStream, BatchesKeepOrder, DrainsItsBatch,
                Idle, Draining
  <1>4. /\ window \subseteq S /\ IsFiniteSet(S) /\ S \subseteq committed \ Malformed
        /\ m + u <= c + forgets
    BY DEF RelayInvariant, WindowCounts
  <1>5. m \in Int /\ forgets \in Int
    BY DEF RelayInvariant, TypeOK
  <1>6. ToSet(stream') = S /\ ToSet(stream') \ window' = U \cup {i}
    BY <1>1, <1>4
  <1>7. IsFiniteSet(U) /\ u \in Int /\ c \in Int /\ Cardinality(U \cup {i}) = u + 1
    <2>1. i \notin U /\ U \in SUBSET S
      BY <1>1
    <2> HIDE DEF U, S
    <2>2. IsFiniteSet(U)
      BY <1>4, <2>1, FS_Subset
    <2>3. u \in Nat /\ c \in Nat
      BY <1>4, <2>2, FS_CardinalityType
    <2>4. Cardinality(U \cup {i}) = u + 1
      BY <2>1, <2>2, FS_AddElement
    <2> HIDE DEF u, c
    <2> QED
      BY <2>2, <2>3, <2>4
  <1>8. m + Cardinality(U \cup {i}) <= c + forgets'
    <2> HIDE DEF m, u, c
    <2> QED
      BY <1>1, <1>4, <1>5, <1>7
  <1>9. WindowCounts'
    BY <1>1, <1>4, <1>6, <1>8 DEF WindowCounts
  <1> QED
    BY <1>2, <1>3, <1>9 DEF RelayInvariant

\* Every step of the relays, the broker and the writers keeps the invariant.
LEMMA RelayStep ==
    RelayInvariant /\ [Next]_vars => RelayInvariant'
  <1> SUFFICES ASSUME RelayInvariant, [Next]_vars
               PROVE  RelayInvariant'
    OBVIOUS
  <1>1. CASE UNCHANGED vars
    BY <1>1 DEF vars, RelayInvariant, TypeOK, PollersCooperate, MarkedIsOnStream, BatchesKeepOrder,
                DrainsItsBatch, WindowCounts, Idle, Draining
  <1>2. ASSUME NEW i \in Rows, InsertOutbox(i) \/ Forget(i)
        PROVE  RelayInvariant'
    BY <1>2, InsertOutboxKeeps, ForgetKeeps
  <1>3. ASSUME NEW p \in Pollers, DrainOnce(p)
        PROVE  RelayInvariant'
    BY <1>3, SelectKeeps, SkipKeeps, PublishKeeps, FailingKeeps, CommitKeeps, CrashKeeps,
       GiveUpKeeps, LoseSessionKeeps
       DEF DrainOnce
  <1> QED
    BY <1>1, <1>2, <1>3 DEF Next

\* The invariant holds of the empty outbox.
LEMMA RelayInit ==
    Init => RelayInvariant
  <1> SUFFICES ASSUME Init
               PROVE  RelayInvariant
    OBVIOUS
  <1>i. Idle \in Poller /\ Idle.pc = "idle" /\ Idle.batch = {} /\ Idle.left = {} /\ Idle.done = {}
    BY DEF Idle, Poller
  <1>1. TypeOK
    <2>1. poller \in [Pollers -> Poller]
      BY <1>i DEF Init
    <2> QED
      BY <2>1, RelayAssumption DEF Init, TypeOK, Poller
  <1>2. ToSet(stream) = {} /\ Len(stream) = 0
    BY DEF Init, ToSet
  <1>3. PollersCooperate /\ MarkedIsOnStream /\ BatchesKeepOrder
    BY <1>i DEF Init, PollersCooperate, MarkedIsOnStream, BatchesKeepOrder, Draining
  <1>4. DrainsItsBatch
    BY <1>i DEF Init, DrainsItsBatch
  <1>5. WindowCounts
    <2>1. IsFiniteSet({}) /\ Cardinality({}) = 0
      BY FS_EmptySet
    <2>2. ToSet(stream) \ window = {}
      BY <1>2
    <2>3. forgets = 0 /\ window = {}
      BY DEF Init
    <2> QED
      BY <1>2, <2>1, <2>2, <2>3 DEF WindowCounts
  <1> QED
    BY <1>1, <1>3, <1>4, <1>5 DEF RelayInvariant

(***************************************************************************)
(* In every behaviour, for any number of rows, pollers, crashes, lost      *)
(* sessions and passed windows: open transactions hold disjoint sets of    *)
(* unpublished rows, what is marked is on the stream, a batch goes out in  *)
(* order, and the window accounts for every duplicate (drainOnce).         *)
(***************************************************************************)
THEOREM RelayAlwaysInvariant == Spec => []RelayInvariant
  BY RelayInit, RelayStep, PTL DEF Spec

(***************************************************************************)
(* An event is on the stream twice only if the broker's duplicate window   *)
(* passed between its publications, however often a publication is         *)
(* repeated after a lost answer or a crash (Publish, MsgId).               *)
(***************************************************************************)
THEOREM DuplicatesAlwaysForgotten == Spec => []DuplicatesNeedForgetting
  <1>1. RelayInvariant => DuplicatesNeedForgetting
    <2> SUFFICES ASSUME RelayInvariant
                 PROVE  DuplicatesNeedForgetting
      OBVIOUS
    <2> DEFINE S == ToSet(stream)
               u == Cardinality(S \ window)
               m == Len(stream)
               c == Cardinality(S)
    <2>1. IsFiniteSet(S) /\ S \subseteq committed \ Malformed /\ m + u <= c + forgets
      BY DEF RelayInvariant, WindowCounts
    <2>2. m \in Int /\ forgets \in Int
      BY DEF RelayInvariant, TypeOK
    <2>3. u \in Nat /\ c \in Nat
      <3>1. S \ window \in SUBSET S
        OBVIOUS
      <3> HIDE DEF S
      <3> QED
        BY <2>1, <3>1, FS_Subset, FS_CardinalityType
    <2>4. m <= c + forgets
      <3> HIDE DEF m, u, c
      <3> QED
        BY <2>1, <2>2, <2>3
    <2> QED
      BY <2>1, <2>4 DEF DuplicatesNeedForgetting
  <1> QED
    BY <1>1, RelayAlwaysInvariant, PTL

\* A publication either is dropped by the broker or delivers an event that was emitted.
LEMMA StoreDelivers ==
    ASSUME RelayInvariant, NEW p \in Pollers, Publish(p) \/ PublishUnanswered(p)
    PROVE  UNCHANGED Channel!avars \/ \E m \in Rows : Channel!Deliver(m)
  <1> DEFINE i == NextRow(p)
  <1>1. /\ poller[p].left # {} /\ i \notin Malformed /\ Store(i)
        /\ UNCHANGED <<committed, published>>
    BY DEF Publish, PublishUnanswered, InLoop
  <1>2. i \in Rows /\ i \in committed
    BY <1>1, AtNextRow
  <1>3. stream' = stream \/ stream' = Append(stream, i)
    BY <1>1 DEF Store
  <1> HIDE DEF i
  <1> QED
    BY <1>1, <1>2, <1>3 DEF Channel!avars, Channel!Deliver

\* What a commit marks has been delivered, or nobody can read it.
LEMMA CommitSettles ==
    ASSUME RelayInvariant, NEW p \in Pollers, Commit(p)
    PROVE  \E S \in SUBSET Rows : Channel!Settle(S)
  <1>1. /\ poller[p].done \subseteq Rows /\ poller[p].done \subseteq committed
        /\ \A i \in poller[p].done : i \in ToSet(stream) \/ i \in Malformed
    BY DEF RelayInvariant, TypeOK, DrainsItsBatch, MarkedIsOnStream
  <1>2. published' = published \cup poller[p].done /\ UNCHANGED <<committed, stream>>
    BY DEF Commit
  <1>3. ToSet(stream) = Channel!ToSet(stream)
    BY DEF ToSet, Channel!ToSet
  <1>4. Channel!Settle(poller[p].done)
    BY <1>1, <1>2, <1>3 DEF Channel!Settle
  <1> QED
    BY <1>1, <1>4

(***************************************************************************)
(* The relay is an at-least-once channel: every step of the pollers, their *)
(* crashes, lost sessions and the broker's failures included, is a step of *)
(* AtLeastOnce or leaves rows, stream and marks alone (InsertOutbox,       *)
(* drainOnce).                                                             *)
(***************************************************************************)
THEOREM RelayIsAtLeastOnce == Spec => ImplementsAtLeastOnce
  <1>1. Init => Channel!AInit
    BY DEF Init, Channel!AInit
  <1>2. RelayInvariant /\ [Next]_vars => [Channel!ANext]_(Channel!avars)
    <2> SUFFICES ASSUME RelayInvariant, [Next]_vars
                 PROVE  Channel!ANext \/ UNCHANGED Channel!avars
      OBVIOUS
    <2>1. CASE UNCHANGED vars
      BY <2>1 DEF vars, Channel!avars
    <2>2. ASSUME NEW i \in Rows, InsertOutbox(i)
          PROVE  Channel!ANext
      BY <2>2 DEF InsertOutbox, Channel!ANext, Channel!Emit
    <2>3. ASSUME NEW i \in Rows, Forget(i)
          PROVE  UNCHANGED Channel!avars
      BY <2>3 DEF Forget, Channel!avars
    <2>4. ASSUME NEW p \in Pollers,
                 Select(p) \/ Skip(p) \/ PublishFailed(p) \/ GiveUp(p) \/ Crash(p) \/ LoseSession(p)
          PROVE  UNCHANGED Channel!avars
      BY <2>4 DEF Select, Skip, PublishFailed, GiveUp, Crash, LoseSession, Channel!avars
    <2>5. ASSUME NEW p \in Pollers, Publish(p) \/ PublishUnanswered(p)
          PROVE  Channel!ANext \/ UNCHANGED Channel!avars
      BY <2>5, StoreDelivers DEF Channel!ANext
    <2>6. ASSUME NEW p \in Pollers, Commit(p)
          PROVE  Channel!ANext
      BY <2>6, CommitSettles DEF Channel!ANext
    <2> QED
      BY <2>1, <2>2, <2>3, <2>4, <2>5, <2>6 DEF Next, DrainOnce
  <1> QED
    BY <1>1, <1>2, RelayAlwaysInvariant, PTL DEF Spec, ImplementsAtLeastOnce, Channel!ASpec
=============================================================================
