\* Two items, one per run, a fault, two admin actions.
CONSTANTS
    m1 = m1
    m2 = m2
    NoMarket = NoMarket
    NoItem = NoItem
    Items <- MCItems
    Markets <- MCMarkets
    BatchSize = 1
    RequireMarket = TRUE
    MaxFaults = 1
    MaxActs = 2
SPECIFICATION FairSpec
CHECK_DEADLOCK FALSE
INVARIANTS
    ChannelInv
    BetlessWithheld
PROPERTIES
    AtMostOncePerChannel
    PostedButtonsKeepTheirMarket
    ApprovedIsPublished
