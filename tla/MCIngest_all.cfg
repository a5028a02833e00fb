SPECIFICATION Spec
CONSTANTS
    Tables <- MCTables
    Schemas <- MCSchemas
    Rows <- MCRows
    Commands <- MCEverything
    Interruptible = TRUE
    Missing = Missing
    NoReply = NoReply
    NoCommand = NoCommand
    MaxRows = 4
INVARIANTS
    TypeOK
    SchemaRefusalChangesNothing
PROPERTIES
    IsAtomic
