\* Two request ids: the handshake and four more messages, among them calls,
\* duplicates and cancellations; deadlines and output failures at any time.
CONSTANTS
    r1 = r1
    r2 = r2
    Ids = {r1, r2}
    NoId = NoId
    MaxMessages = 5
    OutputFails = FALSE
SPECIFICATION Spec
SYMMETRY Symmetry
INVARIANTS TypeOK InterruptsOpenHandle AnswerIsTrue OneReply RunOutlivesWorkers
