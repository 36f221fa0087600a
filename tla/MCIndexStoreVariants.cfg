SPECIFICATION Spec
CONSTANTS
    Writers = {w1, w2}
    Variants = {"general", "arm"}
    Files <- MCFewFiles
    Keys = {"k1", "k2"}
    Vals <- MCVals
    Facts <- MCFacts
    Provenance = {root}
    Null = Null
    Sources <- MCFewFiles
    Includes <- MCIncludes
    Emit <- MCEmit
    MaxStamp = 2
    EditsWhileParsed = TRUE
SYMMETRY MCSymmetry
CHECK_DEADLOCK FALSE
PROPERTIES CacheIsTransparent
