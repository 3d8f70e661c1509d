SPECIFICATION Spec
CONSTANTS
    v = v
    w = w
    Key <- MCKey
    Heritage <- MCHeritage
    EntityPath <- MCEntityPath
    Scalar <- MCScalar
    Value <- MCValue
    NewValues <- MCNewValues
    Undefined = Undefined
    Absent = Absent
    Time <- MCTime
    Persistent = TRUE
    Batches <- MCBatches
    ResetFailsAt = {"set"}
    MaxOps = 2
    Allowed = {}
VIEW MCView
INVARIANT TypeOK
PROPERTY ImplementsStore
PROPERTY CommitsWhatWasAsked
