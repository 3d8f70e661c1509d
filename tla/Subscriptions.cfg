SPECIFICATION Spec
CONSTANTS
    Key <- MCKey
    Heritage <- MCHeritage
    Value = {v}
    Undefined = Undefined
    Absent = Absent
    Time = {1}
    Persistent = TRUE
    Batches <- MCBatches
    ResetFailsAt = {}
    Watched <- RootAndPart
    Handler = {h1, h2}
    Requests <- SingleChanges
    MaxOperations = 2
    MaxSubscriptions = 2
INVARIANTS
    TypeOK
    ObserversSettle
    OrderedWithoutObservers
PROPERTY SingleChangesHeard
CHECK_DEADLOCK FALSE
