SPECIFICATION Spec
CONSTANTS
    Expressions <- MCExpressions
    Columns <- MCColumns
INVARIANTS
    TypeOK
    SameAnswer
    EveryReaderIsBehindTheGuard
    OneBranchRunsWhereItRan
CHECK_DEADLOCK FALSE
