SPECIFICATION FairSpec
CONSTANTS
    q1 = q1
    q2 = q2
    Requests = {q1, q2}
    Kinds = {"responses"}
    QueueCap = 1
    BatchSize = 2
PROPERTIES
    SignalEndsProcess
    RoutedIsSettled
CHECK_DEADLOCK FALSE
