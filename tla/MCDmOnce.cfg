\* The same users without faults: the ledger and what was sent.
CONSTANTS
    ann = ann
    bob = bob
    NoReader = NoReader
    Readers <- MCReaders
    MaxItem = 2
    Relevant <- MCRelevant
    OnlyRelevant <- MCOnlyRelevant
    FirstMode <- MCMode
    FirstHour <- MCHour
    FirstQuiet <- MCQuiet
    Hours = 2
    QuietHours <- MCQuietHours
    RealtimeMax = 1
    DigestMax = 2
    TickCap = 1
    MaxChoices = 1
    MaxFaults = 0
SPECIFICATION DmSpec
INVARIANTS
    DmAtMostOnce
