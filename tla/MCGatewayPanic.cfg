SPECIFICATION Spec
CONSTANTS
    q1 = q1
    q2 = q2
    Requests = {q1}
    Kinds = {"chat"}
    QueueCap = 1
    BatchSize = 2
SYMMETRY Symmetry
INVARIANTS
    SubmitReturns
CHECK_DEADLOCK FALSE
