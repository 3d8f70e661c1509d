SPECIFICATION Spec
CONSTANTS
    Request = {r1, r2}
    Socket = {w1, w2, w3}
    Platforms = {"node", "xhr", "fetch"}
    Faults = {"timeout"}
    Key = {1, 2}
    KeyOf <- MCKeyOf
    MaxRevisions = 3
    MaxFailures = 2
    InitialDelay = 1
    MaxDelay = 2
    CommitFails = {"poll"}
    OldQueueLasts = FALSE
INVARIANTS
    TypeOK
    NoHandlerLeft
    StoreIsAsOfLastModified
PROPERTY CatchesUp
CHECK_DEADLOCK FALSE
