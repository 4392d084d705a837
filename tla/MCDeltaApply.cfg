SPECIFICATION FairSpec
CONSTANTS
    load = load
    move = move
    k1 = k1
    k2 = k2
    r1 = r1
    r2 = r2
    h1 = h1
    h2 = h2
    Keys = {k1, k2}
    Rows = {r1, r2}
    Hashes = {h1, h2}
    RowHash <- MCRowHash
    Absent = Absent
    Appliers = {load, move}
    Artifact <- MCArtifact
    Names = {n1, n2, n3}
    MaxFaults = 2
    MaxReplays = 1
INVARIANTS
    TypeOK
    AppliedRowIsSomeArtifacts
    StagingPrivate
    StagingShortLived
PROPERTIES
    MovedRowNeverMissing
    EveryArtifactApplied
CHECK_DEADLOCK FALSE
