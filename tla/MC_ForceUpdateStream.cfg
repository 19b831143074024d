CONSTANTS
    Attr = {a1, a2}
    MaxLive = 2
    MaxWake = 2

SPECIFICATION Spec

INVARIANT WakeupPending
INVARIANT SnapshotNotDiscarded

PROPERTY SnapshotDelivered
PROPERTY ContractSpec
