\* More open bets than a run reads.
CONSTANTS
    ann = ann
    bob = bob
    b1 = b1
    b2 = b2
    b3 = b3
    m1 = m1
    m2 = m2
    yes = yes
    no = no
    Void = Void
    Unsettled = Unsettled
    Users <- MCUsers
    Bets <- MCBets
    Owner <- MCOwner
    Markets <- MCMarkets
    MarketOf <- MCMarketOf
    Token <- MCToken
    TokenOf <- MCTokenOf
    BatchMarkets = 2
    BatchBets = 1
    MaxFaults = 0
SPECIFICATION FairSpec
CHECK_DEADLOCK FALSE
PROPERTY SettledMarketsPayOut
