SPECIFICATION Spec
CONSTANTS
    s1 = s1
    s2 = s2
    r1 = r1
    r2 = r2
    h1 = h1
    h2 = h2
    Sessions = {s1, s2}
    Keys = {1, 2}
    Rows = {r1, r2}
    Hashes = {h1, h2}
    RowHash <- MCRowHash
    BatchSize <- MCBatchSize
    Absent = Absent
    Untouched = Untouched
    NoPayload = r1
INVARIANTS
    TypeOK
    OnlyUndercutUnsound
    UpsertsNeverDeadlock
PROPERTY
    AtomicButUndercut
