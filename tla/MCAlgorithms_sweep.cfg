SPECIFICATION MCSpec
CONSTANTS
    MaxKey = 9
    Keys <- MCKeys
    Null = Null
    PageSize = 4096
    HeaderSize = 32
    Alignment = 8
    MaxRequest = 12300
INVARIANTS
    BlockLaidOut
    HoldsWhatWasInserted
    Balanced
