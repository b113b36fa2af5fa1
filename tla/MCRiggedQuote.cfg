CONSTANTS
    Raws <- MCRaws
    Margins <- DevnetMargin
    Stakes <- MCStakes
    ServedOdds <- MCServedOdds
    RigPercent = 150
    StatKeys = {1, 2}
    Periods = {0}
    Thresholds <- MCThresholds
    Goals = {0, 1, 2, 3, 4}
SPECIFICATION PricesSpec
INVARIANTS
    RiggedQuoteIsCaught
