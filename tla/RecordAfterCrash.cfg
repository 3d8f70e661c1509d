SPECIFICATION Spec
CONSTANTS
    v1 = v1
    v2 = v2
    bad = bad
    null = null
    Store = {1, 2}
    Key = {1, 2}
    Value <- MCValue
    Uncloneable <- MCUncloneable
    Null = null
    Faults = {}
    Medium = {"LocalStorage"}
    Calls <- MCCalls
PROPERTIES
    RecordAppliedWhenOpened
CHECK_DEADLOCK FALSE
