SPECIFICATION Spec
CONSTANTS
    Name <- MCName
    Key <- MCKey
    Heritage <- MCHeritage
    Letter = {"'", "[", "]"}
    Path <- MCPath
    Entry <- MCEntry
    Character = {"k"}
    IV = {"r"}
    Word = 4
    KeySizeLimit = 4
    BlockSize = 1
    MaxEntries = 3
INVARIANTS TreeOK FindsMatchingLeaves TextsStandForPaths LatestRevisionsAreRead
PROPERTY StepsAsLeafSet
\* a file is bounded, and texts do not change
CHECK_DEADLOCK FALSE
