-------------------------------- MODULE MCRecon --------------------------------
(***************************************************************************)
(* Instances of Matcher.  Event e1 posts 1.00 usd under reference p, e2    *)
(* posts 7 jpy under q; e3 cannot be decoded.                              *)
(***************************************************************************)
EXTENDS Matcher, TLC

CONSTANTS e1, e2, e3, r1, n1

MCReference == (e1 :> "p") @@ (e2 :> "q") @@ (e3 :> "s")
Pair(n, a) == <<[direction |-> "DEBIT", amount |-> n, asset |-> a],
                [direction |-> "CREDIT", amount |-> n, asset |-> a]>>
MCPostings == (e1 :> Pair(100, "usd")) @@ (e2 :> Pair(7, "jpy")) @@ (e3 :> <<>>)
MCExponent == ("usd" :> 2) @@ ("jpy" :> 0)

\* e1 and e2 are posted at one moment; the ids of their postings sort as they may.
MCRank == (<<e1, 2>> :> 1) @@ (<<e2, 1>> :> 2) @@ (<<e1, 1>> :> 3) @@ (<<e2, 2>> :> 4)

Row(p, n, sc, a, dir, at) ==
    [ref |-> p, value |-> n, scale |-> sc, asset |-> a, direction |-> dir,
     occurred |-> at, wellFormed |-> TRUE]

\* A row that differs from its posting, the least amount that is stored, and one that
\* agrees; a row for the second one's posting that occurred before it, on its side; a
\* jpy amount with decimals; amounts one past the largest and the least
MCStatements ==
    {<<Row("q", -1001, 0, "jpy", None, 1), Row("p", 10, 1, "usd", None, 3)>>,
     <<Row("p", 1, 0, "usd", "DEBIT", 2)>>,
     <<Row("p", 1, 0, "usd", None, 2), Row("q", 70, 1, "jpy", None, 2)>>,
     <<Row("q", 1001, 0, "jpy", None, 2)>>, <<Row("p", -1002, 2, "usd", None, 2)>>}

MCTriages == {[run |-> r1, external |-> 1, status |-> "investigating", note |-> n1],
              [run |-> r1, external |-> 1, status |-> "resolved", note |-> None]}

Symmetry == Permutations(Editors)
=============================================================================
