SPECIFICATION Spec
CONSTANTS
    a = a
    b = b
    q1 = q1
    Names = {a, b}
    Requests = {q1}
    MaxProviders = 2
INVARIANTS
    TypeOK
    FirstProviderWins
    SentAsAudited
CHECK_DEADLOCK FALSE
