SPECIFICATION OnTimeSpec
CONSTANTS
    k1 = k1
    k2 = k2
    r1 = r1
    r2 = r2
    h1 = h1
    h2 = h2
    Keys = {k1, k2}
    Rows = {r1, r2}
    Hashes = {h1, h2}
    RowHash <- MCRowHash
    Absent = Absent
    Menu <- MCMenu
    Invalid = Invalid
    MaxLsn = 5
    MaxCrashes = 1
    MaxTimeouts = 1
INVARIANTS
    TypeOK
    NothingLost
    CuratedIsASourceState
PROPERTIES
    CheckpointNeverMovesBack
    CatchesUp
