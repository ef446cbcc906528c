\* The Mini App's two first bets at once: the comment in api.py:226.
CONSTANTS
    ann = ann
    bob = bob
    t1 = t1
    t2 = t2
    t3 = t3
    NoBettor = NoBettor
    NoHolder = NoHolder
    Bettors <- PairBettors
    Bets <- PairBets
    Bettor <- PairBettor
    MiniApp <- PairMiniApp
    Points <- MCPoints
    Rates <- MCRates
    UnlockBets = 2
    SignupBonus = 500
    StreakBonus = 5
    StreakCap = 7
    MaxDay = 0
SPECIFICATION ActivitySpec
CHECK_DEADLOCK FALSE
INVARIANT RecordingNeverBlocksTradeResult
