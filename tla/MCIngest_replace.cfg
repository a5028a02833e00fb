SPECIFICATION Spec
CONSTANTS
    Tables <- MCTables
    Schemas <- MCSchemas
    Rows <- MCRows
    Commands <- MCTotal
    Interruptible = FALSE
    Missing = Missing
    NoReply = NoReply
    NoCommand = NoCommand
    MaxRows = 4
INVARIANTS
    ReplacesWithSource
