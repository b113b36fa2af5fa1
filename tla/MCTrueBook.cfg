CONSTANTS
    NumMarkets = 1
    NumTickets = 2
    U64_MAX = 120
    Start = 2
    MaxTime = 5
    QUOTE_VALIDITY_SECONDS = 1
    VOID_GRACE_SECONDS = 1
    HouseParams <- OneHouse
    Amounts = {40}
    Fixtures = {1}
    Predicates <- OnePredicate
    Kickoffs = {4}
    Quotes <- HonestAndRigged
    RecordIds = {"result"}
    Stakes = {20}
    Auditors = {a1}
    OddsFeed <- OneRecordFeed
    ScoreProofs <- BothScores
    None = None
SPECIFICATION Spec
INVARIANTS
    TypeOK
    ExposureExact
    MarketAggregates
    SolventButForUnreserved
    PaidOnce
    NeverOverpaid
    TicketsMatchMarkets
    BountyOncePerViolation
PROPERTIES
    VerdictsAreFinal
    OutcomesAreFinal
    ImplementsClaims
CHECK_DEADLOCK FALSE
