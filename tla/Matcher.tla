-------------------------------- MODULE Matcher --------------------------------
(***************************************************************************)
(* MatchNaive as the loop it is in the code, over the rows and the entries *)
(* in the order in which the store lists them, to be compared with the     *)
(* verdicts that Reconciliation gives each row on its own.                 *)
(***************************************************************************)
EXTENDS Reconciliation

\* The loop's variables: the entries that are used up, the references that were
\* seen, and the matches and findings so far
Start == [consumed |-> {}, seen |-> {}, verdicts |-> [i \in {} |-> None]]

Decide(acc, i, kind, id) ==
    [acc EXCEPT !.verdicts = [j \in DOMAIN @ \cup {i} |->
                                 IF j = i THEN [kind |-> kind, entry |-> id] ELSE @[j]]]

Unused(entries, acc) == {m \in entries : m.id \notin acc.consumed}

\* Mutant: only the first free candidate is compared.
MatchFirstCandidate(acc, i, entries) ==
    LET x     == externals[i]
        free  == Candidates(x, Unused(entries, acc))
        first == FirstOf(free)
        next  == [acc EXCEPT !.seen = @ \cup {x.ref}]
    IN  IF x.ref \in acc.seen THEN Decide(acc, i, "duplicate", None)
        ELSE IF free = {} THEN Decide(next, i, "missing_internal", None)
        ELSE IF first \in Agreeing(x, {first})
             THEN [Decide(next, i, "match", first.id) EXCEPT !.consumed = @ \cup {first.id}]
        ELSE Decide(next, i, "amount_mismatch", first.id)

\* One row: the duplicate guard, then the first free candidate that agrees, then
\* the first free one, then none.
MatchRow(acc, i, entries) ==
    LET x     == externals[i]
        free  == Candidates(x, Unused(entries, acc))
        agree == Agreeing(x, Unused(entries, acc))
        next  == [acc EXCEPT !.seen = @ \cup {x.ref}]
    IN  IF x.ref \in acc.seen THEN Decide(acc, i, "duplicate", None)
        ELSE IF agree # {}
             THEN [Decide(next, i, "match", FirstOf(agree).id) EXCEPT !.consumed = @ \cup {FirstOf(agree).id}]
        ELSE IF free # {} THEN Decide(next, i, "amount_mismatch", FirstOf(free).id)
        ELSE Decide(next, i, "missing_internal", None)

LastRow(rows) == CHOOSE i \in rows : \A j \in rows \ {i} : Before(j, i)

\* The loop's variables once it has gone through these rows, in their order
After(batch, entries) ==
    LET after[rows \in SUBSET batch] ==
            IF rows = {} THEN Start
            ELSE MatchRow(after[rows \ {LastRow(rows)}], LastRow(rows), entries)
    IN  after

MatchLoop(batch, entries) == After(batch, entries)[batch].verdicts

(***************************************************************************)
(* On the rows and the mirror of every moment, the loop decides each row   *)
(* as Reconciliation's verdict does, each row once, and uses no entry for  *)
(* two rows of one pass ("Every input external transaction ends up in      *)
(* exactly one of Matches or Findings").                                   *)
(***************************************************************************)
LoopMeetsVerdicts ==
    \A s \in sources :
        LET batch == ListUnmatchedExternals(s)
            out   == MatchLoop(batch, mirror)
            hits  == {i \in batch : out[i].kind = "match"}
        IN  /\ out = MatchNaive(batch, mirror)
            /\ \A i, j \in hits : i # j => out[i].entry # out[j].entry
=============================================================================
