CONSTANTS
    NumMarkets = 1
    NumTickets = 1
    U64_MAX = 2000
    Start = 3
    MaxTime = 4
    QUOTE_VALIDITY_SECONDS = 2
    VOID_GRACE_SECONDS = 9
    HouseParams <- Devnet
    Amounts = {}
    Fixtures = {1}
    Predicates <- OnlyHomeWin
    Kickoffs = {}
    Quotes <- RiggedQuote
    RecordIds = {"r1", "r2"}
    Stakes = {}
    Auditors = {"keeper", "other"}
    OddsFeed <- Feed
    ScoreProofs <- WinProof
    None = None
    TxLifetime = 2
    MaxFaults = 1
    Commands <- AllCommands
    MaxCommands = 3
    FaucetGrant = 200
    MaxGrants = 2
    EnvToken = FALSE
    OwnKey = "keeper"
    OtherKey = "other"
    MarketsAtFirst <- OneMarket
    Liquidity = 300
SPECIFICATION CommandsSpec
INVARIANTS
    DoneIsAchieved
    ExecutedAtMostOnce
CHECK_DEADLOCK FALSE
