SPECIFICATION Spec
CONSTANTS
    q1 = q1
    q2 = q2
    Requests = {q1, q2}
    Kinds = {"chat", "stream", "responses"}
    QueueCap = 1
    BatchSize = 2
SYMMETRY Symmetry
INVARIANTS
    TypeOK
    AuditedBeforeAnswered
    CleanRecordsAreWhole
    AcceptedBeforeClose
    GracefulExitAudits
PROPERTIES
    NoInsertAfterClose
CHECK_DEADLOCK FALSE
