SPECIFICATION Spec
CONSTANTS
    Payloads <- MCPayloads
    LineKinds = {"t1", "long", "n0", "m0", "a1", "u1", "u2", "done", "junk"}
    MaxLines = 3
    MaxPending = 3
    MaxRaw = 6
INVARIANTS
    TypeOK
    StoredAsReceived
    AggregatorKeepsUp
CHECK_DEADLOCK FALSE
