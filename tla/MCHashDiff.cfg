SPECIFICATION FairSpec
CONSTANTS
    daily = daily
    replay = replay
    k1 = k1
    k2 = k2
    r1 = r1
    r2 = r2
    h1 = h1
    h2 = h2
    Runs = {daily, replay}
    Keys = {k1, k2}
    Rows = {r1, r2}
    Hashes = {h1, h2}
    RowHash <- MCRowHash
    Absent = Absent
    Invalid = Invalid
    BatchSize = 1
    MaxChanges = 2
    MaxFaults = 1
    MaxReplays = 1
INVARIANTS
    TypeOK
    MergeIsExact
    NoKeyFromNowhere
PROPERTIES
    RowsNeverFlicker
    Reconciles
CHECK_DEADLOCK FALSE
