\* One key, which controls one of two addresses; two conversations.
CONSTANTS
    k1 = k1
    eoa1 = eoa1
    safe = safe
    Keys = {k1}
    Addresses = {eoa1, safe}
    Signer <- MCSigner
    NoKey = NoKey
    NoAddress = NoAddress
    NoActive = NoActive
    MaxAttempts = 2
SPECIFICATION ConnectSpec
CHECK_DEADLOCK FALSE
INVARIANT KeyIsDropped
