SPECIFICATION Spec
CONSTANTS
    Requests = {r1, r2, r3}
    cash = cash
    equity = equity
    foreign = foreign
    unknown = unknown
    k1 = k1
    k2 = k2
    main = main
    other = other
    nowhere = nowhere
    usd = usd
    eur = eur
    m1 = m1
    m2 = m2
    None = None
    Accounts = {cash, equity, foreign}
    AccountIds = {cash, equity, foreign, unknown}
    Ledgers = {main, other}
    LedgerIds = {main, other, nowhere}
    Assets = {usd, eur}
    Keys = {k1, k2}
    Memos = {m1, m2}
    LedgerOf <- MCLedgerOf
    NormalBalance <- MCNormalBalance
    Inputs <- OperationInputs
    MaxInt64 = 2
SYMMETRY Symmetry
INVARIANTS
    HeldMatchesHolds
    BalancesMatchPostings
    FirmTransactionsBalance
    OneEffectPerKey
    ReversalsPair
    OutboxTellsTheStory
PROPERTIES
    CreateRetriesReplay
    ImplementsAtomicLedger
