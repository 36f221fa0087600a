SPECIFICATION FairSpec
CONSTANTS
    Writers = {w1, w2, w3}
    Variants = {"general"}
    Files <- MCFewFiles
    Keys = {"k1", "k2"}
    Vals <- MCVals
    Facts <- MCFacts
    Provenance = {}
    Null = Null
    Sources <- MCSource
    Includes <- MCIncludes
    Emit <- MCEmit
    MaxStamp = 2
    EditsWhileParsed = FALSE
CHECK_DEADLOCK FALSE
PROPERTIES StoresEnd
