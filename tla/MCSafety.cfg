\* A list of two markets, a bet button of a post and a wallet; one key, two
\* addresses, two conversations; a browser, two administrators, two processes
\* that bootstrap; a member who invites, and a newcomer whose updates are
\* followed; three bets of one user on three days, an unlock at the second.
\* Trading screens in which a dollar is 100 units; an image that costs two and
\* a text that costs one; events of one and of four markets, two of them one
\* candidate's; two news items for a realtime and a daily user, a change of
\* preferences, a fault.  The second funnel is in the module.
CONSTANTS
    Markets = {"m1", "m2"}
    Lists <- MCLists
    Panels = {}
    Links = {"l1"}
    Outcome <- MCOutcome
    Accounts = {"a1"}
    NoMarket = "none"
    NoLink = "none"
    NoAccount = "none"
    Ttl = 1
    MaxGen = 2
    MaxPrompts = 1
    MaxRestarts = 0
    Keys = {"k1"}
    Addresses = {"eoa1", "safe"}
    Signer <- MCSigner
    NoKey = "none"
    NoAddress = "none"
    NoActive = "none"
    MaxAttempts = 2
    Browsers = {"b1"}
    Admins = {"root", "mod"}
    Supers = {"root"}
    First = "root"
    Nobody = "nobody"
    Processes = {"dashboard", "bootstrap"}
    Tries = 1
    Window = 2
    MaxForms = 2
    MaxPosts = 3
    MaxClock = 2
    MaxDashRestarts = 1
    Users = {"u1", "u2"}
    Members = {"u2"}
    Actors = {"u1"}
    GlobalCodes = {"g1"}
    NoUser = "none"
    NoCode = "none"
    Sync = 1
    MaxEvents = 2
    EventWindow = 1
    MaxTries = 1
    TryWindow = 2
    MaxGateClock = 2
    MaxGateRestarts = 1
    MaxGateFaults = 1
    Bettors = {"ann", "bob"}
    NoBettor = "none"
    t1 = t1
    t2 = t2
    t3 = t3
    Bets = {t1, t2, t3}
    NoHolder = "none"
    Bettor <- MCBettor
    MiniApp = {t2}
    Points <- MCPoints
    Rates <- MCRates
    UnlockBets = 2
    SignupBonus = 500
    StreakBonus = 5
    StreakCap = 7
    MaxDay = 2
    Listings <- MCListings
    OrderLists <- MCOrderLists
    Cap = 2
    Balances = {0, 50, 200}
    Dollar = 100
    MaxLists = 2
    Deck <- MCDeck
    Welcome = "welcome"
    ImageCost = 2
    TextCosts = {1}
    Budgets = {3, 4}
    Providers = {"claude", "gemini"}
    TextBudget = 1
    Week = 1
    Attempts = 2
    MaxCardClock = 2
    MaxTexts = 1
    MaxCardActs = 1
    MaxCrashes = 1
    MaxPaid = 6
    Headlines <- MCHeadlines
    Pools <- MCPools
    Hints = {"m4"}
    NoHint = "none"
    LlmCandidates = 2
    MinTokenOverlap = 2
    OutcomesCap = 2
    MaxMoves = 1
    Readers = {"ann", "bob"}
    NoReader = "none"
    MaxItem = 2
    Relevant <- MCRelevant
    OnlyRelevant = {"bob"}
    FirstMode <- MCMode
    FirstHour <- MCHour
    FirstQuiet = {"ann"}
    Hours = 2
    QuietHours = {0}
    RealtimeMax = 1
    DigestMax = 2
    TickCap = 1
    MaxChoices = 1
    MaxFaults = 1
SPECIFICATION SafetySpec
SYMMETRY BotBets
CHECK_DEADLOCK FALSE
INVARIANTS
    SafetyInv
    ButtonsKeepTheirMeaning
    RowsAreConsistent
    KeyEndsWithConversation
    LocksTakeEffect
    FloodsAreBounded
    SpendIsBoundedAndRecorded
    BetsAreAboutTheStory
    OldFormsAreDead
    EveryBetCountsOnce
    DmsAreNotRepeated
    ResumedWereShown
