SPECIFICATION Spec
CONSTANTS
    t1 = t1
    t2 = t2
    Threads <- MCThreads
    Clients <- MCClients
    Groups <- MCGroups
    Owners <- MCOwners
    Writers <- MCWriters
    Databases <- MCDatabases
    Home = "main"
    DefaultOf <- MCDefaults
    Requests = 2
SYMMETRY MCSymmetry
INVARIANTS
    TypeOK
    ClosedIsFinal
PROPERTIES
    AnsweredFromNamed
    SchemaIsCurrent
    OnlyPermittedWrites
