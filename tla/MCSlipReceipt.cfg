CONSTANTS
    NumMarkets = 1
    NumTickets = 2
    U64_MAX = 2000
    Start = 3
    MaxTime = 6
    QUOTE_VALIDITY_SECONDS = 2
    VOID_GRACE_SECONDS = 0
    HouseParams <- Devnet
    Amounts = {}
    Fixtures = {1}
    Predicates <- OnlyHomeWin
    Kickoffs = {}
    Quotes <- TwoQuotes
    RecordIds = {"r1"}
    Stakes = {100, 150}
    Auditors = {"me"}
    OddsFeed <- Feed
    ScoreProofs <- WinProof
    None = None
    TxLifetime = 1
    MaxFaults = 1
    MaxAttempts = 3
    MaxBets = 2
    RPC_READ_TIMEOUT = 1
    SIGN_TIMEOUT = 1
    CONFIRM_TIMEOUT = 1
    Funds = 200
    QUOTE_SAFETY_SECONDS = 1
    MaxSlips = 2
    Picks = {"Yes"}
    Liquidity = 1000
    TheFixture = 1
    ThePredicate <- HomeWin
    TheKickoff = 5
    Wallet = "me"
    BooksAtFirst <- TwoBooks
SPECIFICATION PagesSpec
INVARIANTS
    SlipReceiptShowsTicket
CHECK_DEADLOCK FALSE
