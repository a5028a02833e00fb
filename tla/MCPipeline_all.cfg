SPECIFICATION Spec
CONSTANTS
    Stems = {"x", "X", "y", "v", "Column"}
    Lower <- MCLower
    Tables <- MCTables
    Others <- MCOthers
    Names <- MCNames
    LetName <- v
    MaxTargets = 3
INVARIANT TypeOK
INVARIANT Faithful
INVARIANT PredictedIsActual
INVARIANT OnlyOrderIsLost
CHECK_DEADLOCK FALSE
