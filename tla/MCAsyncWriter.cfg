SPECIFICATION FairSpec
CONSTANTS
    r1 = r1
    r2 = r2
    r3 = r3
    r4 = r4
    Records = {r1, r2, r3, r4}
    QueueCap = 1
    BatchSize = 2
INVARIANTS
    TypeOK
    AcceptedHeldOnce
    DrainLeavesNothing
    DroppedCountBounded
PROPERTIES
    AcceptedEventuallyInserted
    DrainReturns
    ImplementsContract
CHECK_DEADLOCK FALSE
