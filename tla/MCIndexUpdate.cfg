SPECIFICATION Spec
CONSTANTS
    Files = {f1}
    Versions <- MCVersions
    Emits <- MCEmits
    Commands = {c1, c2}
    Tools = {t1}
    Editors = {e1}
    Agents = {a1}
    Document = document
    None = none
INVARIANTS TypeOK CommandsFollowSymbols StoredIsUsable SavedIsShown
PROPERTIES AgentsKeepCommands
SYMMETRY CommandSymmetry
