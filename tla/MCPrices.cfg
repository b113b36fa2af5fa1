CONSTANTS
    Raws <- MCRaws
    Margins <- MCMargins
    Stakes <- MCStakes
    ServedOdds <- MCServedOdds
    RigPercent = 150
    StatKeys = {1, 2, 3}
    Periods = {0, 1, 2}
    Thresholds <- MCThresholds
    Goals = {0, 1, 2, 3, 4}
SPECIFICATION PricesSpec
INVARIANTS
    KeeperQuoteIsHonest
    RoundTripNeverGains
    ViolationFloorIsPayable
    CatalogAgreesWithProgram
    RecordPricesTheQuestion
    RecordDeterminesQuestion
