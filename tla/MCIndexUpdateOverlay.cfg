SPECIFICATION Spec
CONSTANTS
    Files = {f1}
    Versions <- MCVersions
    Emits <- MCEmits
    Commands = {c1}
    Tools = {t1}
    Editors = {e1}
    Agents = {}
    Document = document
    None = none
INVARIANT OverlayReplaces

