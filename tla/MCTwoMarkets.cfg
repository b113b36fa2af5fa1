CONSTANTS
    NumMarkets = 2
    NumTickets = 2
    U64_MAX = 100
    Start = 2
    MaxTime = 3
    QUOTE_VALIDITY_SECONDS = 1
    VOID_GRACE_SECONDS = 1
    HouseParams <- OneHouse
    Amounts = {60}
    Fixtures = {1}
    Predicates <- TwoPredicates
    Kickoffs = {3}
    Quotes <- OnlyRigged
    RecordIds = {"totals"}
    Stakes = {20}
    Auditors = {a1}
    OddsFeed <- TotalsFeed
    ScoreProofs <- FinalScores
    None = None
SPECIFICATION Spec
INVARIANTS
    MarketAggregates
    SolventButForUnreserved
CHECK_DEADLOCK FALSE
