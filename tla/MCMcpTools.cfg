SPECIFICATION Spec
CONSTANTS
    None = None
    Malformed = Malformed
    Start = None
    Paths <- MCPaths
    Files <- MCFiles
    Edition <- MCEdition
    MaxEdition = 2
    MaxStores = 2
    Globs <- MCGlobs
    GlobMatches <- MCGlobMatches
    LeafLength <- MCLeafLength
    BatchSize = 2
    Keys <- MCKeys
    Before <- MCBefore
    MaxLimit = 3
    DefaultLimit = 2
    Limits = {0, 1, 2, None}
    Requests <- MCRequests
    Configured = {0, 1}
    Walks <- MCWalks
    Root <- MCRoot
    Directories <- MCDirectories
    SourceFiles <- MCSourceFiles
    Content <- MCContent
    CommitVersion <- MCCommitVersion
    Ranges <- MCRanges
    Writers <- MCWriters
    MaxVersion = 2
INVARIANTS
    TypeOK
    WalkFaithful
    SourceIsCurrent
    
PROPERTIES
    PagesSpec
    CursorHonoured
CHECK_DEADLOCK FALSE
