SPECIFICATION Spec
CONSTANTS
    e1 = e1
    e2 = e2
    e3 = e3
    n1 = n1
    r1 = r1
    Sources = {bank}
    Events = {e1, e2, e3}
    Malformed = {e3}
    Reference <- MCReference
    Postings <- MCPostings
    Rank <- MCRank
    Assets = {"usd", "jpy"}
    Exponent <- MCExponent
    MaxInt64 = 1000
    Statements <- MCStatements
    Runs = {r1, r2}
    Editors = {d1, d2}
    Triages <- MCTriages
    MaxImports = 2
    None = None
SYMMETRY Symmetry
INVARIANTS
    ReconInvariant
    MatchesAreReal
    NothingDropsOut
    LoopMeetsVerdicts
PROPERTIES
    SettledUnlessRivals
    NotesAreKept
