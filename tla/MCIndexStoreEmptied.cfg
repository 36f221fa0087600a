SPECIFICATION Spec
CONSTANTS
    Writers = {w1, w2}
    Variants = {"general"}
    Files <- MCFiles
    Keys = {"k1", "k2"}
    Vals <- MCVals
    Facts <- MCFacts
    Provenance = {}
    Null = Null
    Sources <- MCFiles
    Includes <- MCIncludes
    Emit <- MCEmitEmptied
    MaxStamp = 2
    EditsWhileParsed = FALSE
SYMMETRY MCSymmetry
CHECK_DEADLOCK FALSE
PROPERTIES OldRecordsRemoved
