SPECIFICATION FairSpecSync
CONSTANTS
    k1 = k1
    k2 = k2
    Key = {k1, k2}
    Heritage <- MCHeritage
    Value = {v, w}
    Undefined = Undefined
    Absent = Absent
    Time <- MCTime
    Persistent = TRUE
    Batches <- MCBatches
    ResetFailsAt = {"set"}
    Puller = {p}
    Pusher = {q}
    Scopes <- MCScopes
    Allowed = {"rewrite", "crash"}
    MaxEdits = 1
    MaxWrites = 1
    MaxFaults = 1
PROPERTY EventuallyConverges
