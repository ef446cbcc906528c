\* An admin rejects an item while another one renders.
CONSTANTS
    m1 = m1
    m2 = m2
    NoMarket = NoMarket
    NoItem = NoItem
    Items <- MCItems
    Markets <- MCMarkets
    BatchSize = 2
    RequireMarket = TRUE
    MaxFaults = 0
    MaxActs = 1
SPECIFICATION FairSpec
CHECK_DEADLOCK FALSE
PROPERTY RejectedIsNotPublished
