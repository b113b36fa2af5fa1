CONSTANTS
    NumMarkets = 2
    NumTickets = 2
    U64_MAX = 2000
    Start = 4
    MaxTime = 9
    QUOTE_VALIDITY_SECONDS = 3
    VOID_GRACE_SECONDS = 2
    HouseParams <- Devnet
    Amounts = {}
    Fixtures = {1}
    Predicates <- OnlyHomeWin
    Kickoffs = {}
    Quotes <- EvenQuote
    RecordIds = {"r1"}
    Stakes = {100}
    Auditors = {}
    OddsFeed <- NoFeed
    ScoreProofs <- Scores
    None = None
    TxLifetime = 0
    MaxFaults = 0
    Keys <- Pages
    OwnerOf <- Bettors
    Loads = {1, 2}
    QUOTE_SAFETY_SECONDS = 1
    MarketsAtFirst <- TwoMarkets
    TicketsAtFirst <- Sold
    Liquidity = 1000
    Nil = Nil
    Owners = {"rich", "new"}
    FirstFunds <- OneIsNew
    Requests = {1, 2}
    Panels <- ChainOrDemo
    FAUCET_USDT = 2
    AIRDROP_SOL = 2
    TRANSACTION_FEE = 1
    TOKEN_ACCOUNT_RENT = 2
    FUNDED_DISMISS = 2
    Clients = {"a", "b"}
    KeyOf <- OwnKeys
    WINDOW_MS = 2
    MAX_TRACKED_CLIENTS = 2
    TokenConfigured = TRUE
    ClockBound = 3
    MaxRequests = 4
    PerMinute <- Limits
SPECIFICATION FairApp
INVARIANTS
    BoardOffersTheBettable
    PanelTellsTheTruth
    LimiterKeepsItsWord
PROPERTIES
    WhatIsShownStays
    NothingSpinsForever
CHECK_DEADLOCK FALSE
