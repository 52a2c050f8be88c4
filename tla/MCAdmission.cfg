SPECIFICATION FairAdmissionSpec
CONSTANTS
    q1 = q1
    Requests = {q1}
    MaxEdits = 3
    Clients <- SomeClients
INVARIANTS
    AdmissionTypeOK
    LastEditLoaded
    FileInstalled
    KeyBringsItsModel
PROPERTIES
    NeverBackwards
    EditTakesEffect
CHECK_DEADLOCK FALSE
