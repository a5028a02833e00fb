SPECIFICATION FairSpec
CONSTANTS
    r1 = r1
    r2 = r2
    r3 = r3
    Nobody = Nobody
    Statements = 1
    Requests <- MCRequests
    Limited <- MCLimited
INVARIANTS
    TypeOK
    OwnInterrupt
    OneStatement
PROPERTIES
    ImplementsPromise
    LimitedEnds
    EveryoneServed
