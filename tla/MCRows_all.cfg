CONSTANTS
    Null = Null
    None = None
    Tables <- MCTables
    Queries <- MCQueries
    Renamed <- MCRenamed
    MaxSteps = 1
SPECIFICATION Spec
INVARIANT
    TypeOK
PROPERTY
    AnswersAsKusto
CHECK_DEADLOCK FALSE
