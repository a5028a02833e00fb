CONSTANTS
    T = T
    F = F
    x = x
    HomeDb = HomeDb
    OtherDb = OtherDb
    Connection = Connection
    None = None
    Names <- MCNames
    Functions <- MCFunctions
    Scalars = {x}
    Databases = {HomeDb, OtherDb}
    Home = HomeDb
    MaxNodes = 4
SPECIFICATION Spec
INVARIANT EveryTableHasADatabase
CHECK_DEADLOCK FALSE
