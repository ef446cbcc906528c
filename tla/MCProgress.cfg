\* Two requests for two accounts and a cache of one client; two sources that name
\* the same two articles, a redirect, a crash.  Two users who may refer each
\* other, an unlock at the first bet, one UTC day.
CONSTANTS
    Accounts = {"a1", "a2"}
    Requests = {"r1", "r2"}
    NoAccount = "none"
    Ttl = 1
    MaxClients = 1
    MaxClock = 2
    MaxChanges = 2
    Sources = {1, 2}
    Articles = {"u1", "u2"}
    Title <- MCTitle
    Feeds <- MCFeeds
    Hosts = {"h"}
    Public = {"p"}
    Private = {"x"}
    MaxRedirects = 1
    MaxActs = 1
    MaxCrashes = 1
    Bettors = {"ann", "bob"}
    NoBettor = "none"
    Bets = {"t1", "t2", "t3"}
    NoHolder = "none"
    Bettor <- MCBettor
    MiniApp = {"t2"}
    Points <- MCPoints
    Rates <- MCRates
    UnlockBets = 1
    SignupBonus = 500
    StreakBonus = 5
    StreakCap = 7
    MaxDay = 0
SPECIFICATION ProgressSpec
CHECK_DEADLOCK FALSE
INVARIANTS
    ProgressInv
    ClientsAreCurrent
    OnlyPublicAddresses
    ReferralPointsFollowUnlocked
PROPERTIES
    EveryRecordingEnds
    ServicesGoOn
