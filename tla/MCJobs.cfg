\* Settlement: limits above the number of bets and markets, two faults.
\* Broadcast: two forms to two users in batches of three, a block or unblock, a
\* fault.  The other instances are in the module.
CONSTANTS
    ann = ann
    bob = bob
    b1 = b1
    b2 = b2
    b3 = b3
    m1 = m1
    m2 = m2
    yes = yes
    no = no
    Void = Void
    Unsettled = Unsettled
    Users <- MCUsers
    Bets <- MCBets
    Owner <- MCOwner
    Markets <- MCMarkets
    MarketOf <- MCMarketOf
    Token <- MCToken
    TokenOf <- MCTokenOf
    BatchMarkets = 2
    BatchBets = 3
    MaxFaults = 2
    Recipients = {"ann", "bob"}
    MaxForms = 2
    Batch = 3
    MaxActs = 1
    MaxSendFaults = 1
SPECIFICATION JobsSpec
CHECK_DEADLOCK FALSE
INVARIANTS
    SettleInv
    BookedAsSettled
    CountersMatchBets
    NotifiedOnceTruly
    JobsInv
    RepetitionsTakeFaults
    InOrder
PROPERTIES
    SettledMarketsPayOut
    RealtimeArrives
    BroadcastsEnd
    StaleIntentsEnd
