SPECIFICATION SpecStore
CONSTANTS
    Key <- MCKey
    Heritage <- MCHeritage
    Value = {v}
    Undefined = Undefined
    Absent = Absent
    Time <- MCTime
    Persistent = TRUE
    Batches <- MCBatches
    ResetFailsAt = {"set"}
INVARIANTS
    TypeOKStore
    LookupCoversStores
    LeavesNeverNest
    ChangesMatchView
PROPERTY EveryChangeAnnounced
PROPERTY GhostsComeFromResets
