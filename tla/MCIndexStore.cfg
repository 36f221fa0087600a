SPECIFICATION Spec
CONSTANTS
    Writers = {w1, w2, w3}
    Variants = {"general"}
    Files <- MCFiles
    Keys = {"k1", "k2"}
    Vals <- MCVals
    Facts <- MCFacts
    Provenance = {}
    Null = Null
    Sources <- MCFiles
    Includes <- MCIncludes
    Emit <- MCEmit
    MaxStamp = 2
    EditsWhileParsed = FALSE
SYMMETRY MCSymmetry
CHECK_DEADLOCK FALSE
INVARIANTS TypeOK CacheSound HitsStillValid OneRetryIsEnough RowsMatchMetadata
PROPERTIES StoreComplete CacheIsTransparent
