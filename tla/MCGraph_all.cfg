CONSTANTS
    Null = Null
    None = None
    P = P
    Q = Q
    Cases <- MCCases
SPECIFICATION Spec
INVARIANTS
    TypeOK
    NodesOnce
    AnswersTheQuery
PROPERTY
    Ends
CHECK_DEADLOCK FALSE
