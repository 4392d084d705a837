SPECIFICATION FairSpec
CONSTANTS
    k1 = k1
    k2 = k2
    r1 = r1
    r2 = r2
    h1 = h1
    h2 = h2
    Keys = {k1, k2}
    Rows = {r1, r2}
    Hashes = {h1, h2}
    RowHash <- MCRowHash
    Absent = Absent
    Txns = {t1, t2}
    Menu <- MCMenu
    Invalid = Invalid
    Modes = {"recorded_at", "commit_timestamp"}
    MaxEvents = 3
    MaxCrashes = 1
INVARIANTS
    TypeOK
    OnlyOvertakenSkipped
    NoStaleRow
PROPERTIES
    CheckpointNeverMovesBack
    CatchesUp
