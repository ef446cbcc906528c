\* Lists of two markets and of one, a wallet, a restart.
SPECIFICATION Spec
CONSTANTS
    m1 = m1
    m2 = m2
    Markets <- MCMarkets
    Lists <- MCLists
    Links = {}
    Outcome <- MCNoOutcome
    Accounts = {a1}
    NoMarket = NoMarket
    NoLink = NoLink
    NoAccount = NoAccount
    Ttl = 0
    MaxGen = 2
    MaxPrompts = 1
    Panels = {}
    MaxRestarts = 1
CHECK_DEADLOCK FALSE
INVARIANT BuyNeverResolvesStale
