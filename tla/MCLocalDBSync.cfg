SPECIFICATION SpecSync
CONSTANTS
    k1 = k1
    k2 = k2
    Key = {k1, k2}
    Heritage <- MCHeritage
    Value = {v}
    Undefined = Undefined
    Absent = Absent
    Time <- MCTime
    Persistent = TRUE
    Batches <- MCBatches
    ResetFailsAt = {"set"}
    Puller = {p}
    Pusher = {q}
    Scopes <- MCScopes
    Allowed = {"rewrite", "crash"}
    MaxEdits = 2
    MaxWrites = 2
    MaxFaults = 1
SYMMETRY MCSymmetry
VIEW MCView
INVARIANTS
    TypeOKSync
    CommittedMeansTransmitted
    RemoteIsMostRecentReceived
    ReferenceTimeIsFirstBase
    NothingOlderThanHead
