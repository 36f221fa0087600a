SPECIFICATION FairSpec
CONSTANTS
    None = None
    NoWord = NoWord
    Document = document
    Files = {"a.c", "b.c", "pre.c"}
    Versions = {1}
    Emits <- MCEmits
    Commands <- MCCommands
    t1 = t1
    t2 = t2
    Tools = {t1, t2}
    Editors = {}
    Agents = {a1}
    Kind <- MCKind
    Contents <- MCContents
    Rejected = {"-Werror", "-fconserve-stack"}
    RejectedPairs = {"--arch"}
    Builtins = {"__x86_64__=1"}
    Invocations <- MCInvocations
INVARIANTS
    CommandsSurvive
PROPERTIES
    CompilerRuns
    IndexedIsCompiled
CHECK_DEADLOCK FALSE
