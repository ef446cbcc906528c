\* One newcomer, one failure of preprocess.
CONSTANTS
    Users = {"u1", "u2"}
    Members = {"u2"}
    Actors = {"u1"}
    GlobalCodes = {"g1"}
    NoUser = "none"
    NoCode = "none"
    Sync = 1
    MaxEvents = 2
    EventWindow = 1
    MaxTries = 1
    TryWindow = 2
    MaxGateClock = 2
    MaxGateRestarts = 1
    MaxGateFaults = 1
SPECIFICATION AccessSpec
CHECK_DEADLOCK FALSE
INVARIANTS
    LockedAreBlocked
