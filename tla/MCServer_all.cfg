SPECIFICATION FairSpec
CONSTANTS
    r1 = r1
    r2 = r2
    Requests <- MCRequests
    Databases <- MCDatabases
    Start = "main"
    MaxWrites = 2
INVARIANTS
    TypeOK
PROPERTIES
    AnsweredFromSelected
    OnlyPermittedWrites
    EveryRequestAnswered
