CONSTANTS
    NumMarkets = 1
    NumTickets = 2
    U64_MAX = 2000
    Start = 3
    MaxTime = 4
    QUOTE_VALIDITY_SECONDS = 2
    VOID_GRACE_SECONDS = 9
    HouseParams <- Devnet
    Amounts = {}
    Fixtures = {1}
    Predicates <- OnlyHomeWin
    Kickoffs = {}
    Quotes <- NoQuotes
    RecordIds = {"r1", "r2", "r3"}
    Stakes = {}
    Auditors = {"me"}
    OddsFeed <- Feed
    ScoreProofs <- Proofs
    None = None
    TxLifetime = 0
    MaxFaults = 1
    ScoreRows = {1, 2, 3, 4}
    ScoreStats <- Stats
    SlotsPerTick = 2
    ClaimsAnyRow = TRUE
    MarketsAtFirst <- OneMarket
    SoldTickets <- Sold
    Liquidity = 1000
    MaxLog = 5
SPECIFICATION ReceiptsSpec
INVARIANTS
    OldestFirst
CHECK_DEADLOCK FALSE
