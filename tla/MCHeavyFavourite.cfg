CONSTANTS
    NumMarkets = 2
    NumTickets = 1
    U64_MAX = 200
    Start = 2
    MaxTime = 7
    QUOTE_VALIDITY_SECONDS = 1
    VOID_GRACE_SECONDS = 3
    HouseParams <- WideMargin
    Amounts = {}
    Fixtures = {1}
    Predicates <- ProvenParams
    Kickoffs = {}
    Quotes = {}
    RecordIds <- OneRecord
    Stakes = {10}
    Auditors = {}
    OddsFeed <- HeavyFavourite
    ScoreProofs <- Proofs
    None = None
    TxLifetime = 0
    MaxFaults = 0
    Loops = {"serve"}
    Ticks = {}
    StartOf <- StartsAtThree
    Board <- OneBlueprint
    RigSkip = {1}
    RigFactor = 150
    RecordTs <- ShortFeedTs
    ScoreRows <- Rows
    Unmapped = Unmapped
    IN_PLAY_WINDOW = 1
    IN_PLAY_MAX = 2
    FEED_QUIET = 1
    MAX_SEQ_ATTEMPTS = 3
    Liquidity = 100
    OthersCrank = TRUE
SPECIFICATION MCFair
PROPERTIES
    QuotesEveryOpenMarket
CHECK_DEADLOCK FALSE
