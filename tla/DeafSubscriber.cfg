SPECIFICATION Spec
CONSTANTS
    Key <- MCKey
    Heritage <- MCHeritage
    Value = {v}
    Undefined = Undefined
    Absent = Absent
    Time = {1}
    Persistent = TRUE
    Batches <- MCBatches
    ResetFailsAt = {}
    Watched <- MCWatched
    Handler = {h}
    Requests <- DoublePuts
    MaxOperations = 1
    MaxSubscriptions = 1
PROPERTY ChangesHeard
CHECK_DEADLOCK FALSE
