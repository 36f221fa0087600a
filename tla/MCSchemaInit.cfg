SPECIFICATION FairSpec
CONSTANTS
    Openers = {"p1", "p2", "p3", "other"}
    Own <- MCOwn
    Tables <- MCTables
    Existing <- MCExisting
    Null = "nobody"
CHECK_DEADLOCK FALSE
INVARIANTS OpenMeansOwnSchema WholeSchema
PROPERTIES OnlyFreshIsWritten OpenersEnd
