\* One request id, used again and again: calls, duplicates, cancellations, deadlines and a
\* broken output.  Liveness, so no symmetry.
CONSTANTS
    r1 = r1
    r2 = r2
    Ids = {r1}
    NoId = NoId
    MaxMessages = 6
    OutputFails = TRUE
SPECIFICATION FairSpec
INVARIANTS OneReply
PROPERTIES RunEnds CallsEnd
