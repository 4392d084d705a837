SPECIFICATION Spec
CONSTANTS
    k1 = k1
    k2 = k2
    b1 = b1
    b2 = b2
    Keys = {k1, k2}
    Bodies = {b1, b2}
    Toasted = {b2}
    Identities = {"DEFAULT", "FULL"}
    Null = Null
    Absent = Absent
    MaxChanges = 2
    MaxVersion = 2
    MaxLsn = 2
INVARIANT
    ReplicaIsSource
CHECK_DEADLOCK FALSE
