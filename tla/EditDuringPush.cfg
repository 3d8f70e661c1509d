SPECIFICATION SpecSync
CONSTANTS
    k1 = k1
    k2 = k2
    Key = {k1, k2}
    Heritage <- MCHeritage
    Value = {v}
    Undefined = Undefined
    Absent = Absent
    Time <- MCTime
    Persistent = TRUE
    Batches <- MCBatches
    ResetFailsAt = {"set"}
    Puller = {p}
    Pusher = {q}
    Scopes <- MCScopes
    Allowed = {"editDuringPush"}
    MaxEdits = 2
    MaxWrites = 1
    MaxFaults = 0
SYMMETRY MCSymmetry
INVARIANT CommittedMeansTransmitted
