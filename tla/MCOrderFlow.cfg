\* One prompt, one Mini App request, two wallets, prompts that can expire.
CONSTANTS
    i1 = i1
    r1 = r1
    NoIntent = NoIntent
    Intents <- MCIntents
    Requests <- MCRequests
    KindsUsed <- MCKinds
    MaxAccount = 2
    TTL = 0
    MaxTime = 1
SPECIFICATION Spec
INVARIANTS
    OrderInv
    AtMostOneCall
    ConsentGiven
    RecordsAreTrue
    WalletAgreement
PROPERTY DeclineIsFinal
