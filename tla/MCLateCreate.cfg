CONSTANTS
    NumMarkets = 2
    NumTickets = 1
    U64_MAX = 200
    Start = 2
    MaxTime = 7
    QUOTE_VALIDITY_SECONDS = 1
    VOID_GRACE_SECONDS = 3
    HouseParams <- Devnet
    Amounts = {}
    Fixtures = {1}
    Predicates <- ProvenParams
    Kickoffs = {}
    Quotes = {}
    RecordIds <- RecordNames
    Stakes = {10}
    Auditors = {}
    OddsFeed <- Feed
    ScoreProofs <- Proofs
    None = None
    TxLifetime = 2
    MaxFaults = 1
    Loops = {"serve"}
    Ticks = {}
    StartOf <- StartsAtThree
    Board <- OneBlueprint
    RigSkip = {1}
    RigFactor = 150
    RecordTs <- FeedTs
    ScoreRows <- Rows
    Unmapped = Unmapped
    IN_PLAY_WINDOW = 1
    IN_PLAY_MAX = 2
    FEED_QUIET = 1
    MAX_SEQ_ATTEMPTS = 3
    Liquidity = 100
    OthersCrank = TRUE
SPECIFICATION MCFair
INVARIANTS
    OneMarketPerQuestion
CHECK_DEADLOCK FALSE
