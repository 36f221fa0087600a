SPECIFICATION Spec
CONSTANTS
    None = None
    Malformed = Malformed
    NoColumn = NoColumn
    Paths <- MCPaths
    Files <- MCFiles
    Edition <- MCEdition
    MaxEdition = 2
    MaxStores = 1
    Globs = {}
    GlobMatches = {}
    LeafLength <- MCLeafLength
    LeafUnits <- MCLeafUnits
    BatchSize = 1
    Emitted <- MCEmitted
    Lines <- MCLines
    SourceFiles <- MCSourceFiles
    MaxVersion = 2
    Cwd <- MCCwd
    Repository <- MCRepository
    Messages <- MCMessages
    Ids = {0, 1}
    Configured = {0, 1}
    General = 1
INVARIANTS
    TypeOK
    RepliesMatchRequests
    NavigationFaithful
    HighlightsFresh
    RangeCoversCursor
CHECK_DEADLOCK FALSE
