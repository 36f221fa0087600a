------------------------------ MODULE McpTools ------------------------------
(***************************************************************************)
(* One client of the query tools of the MCP server: it lists records page  *)
(* by page (McpQueries), walks the call graph (CallGraph) or reads source  *)
(* (SourceRead).  Every call has its own read-only connection, so calls    *)
(* meet each other, and the indexers, in the database alone; McpServer is  *)
(* about the threads and the deadlines that carry them.                    *)
(***************************************************************************)
EXTENDS McpQueries, CallGraph, SourceRead

VARIABLE
    activity        \* "page", "walk" or "read"

vars == <<dbVars, configured, activity, scanVars, walkVars, readVars>>

\* What an activity keeps while the client is about another one.
ScanIdle ==
    /\ request = NoRequest /\ configured = CHOOSE v \in Configured : TRUE
    /\ cursor = None /\ last = None /\ reported = {} /\ sent = 0 /\ status = "open"
    /\ table = {} /\ kept = {}

WalkIdle ==
    /\ walk = CHOOSE w \in Walks : TRUE
    /\ pending = <<>> /\ visited = {} /\ edges = <<>> /\ answer = "none"
    /\ flags = [nodeLimitHit |-> FALSE, cyclesDetected |-> FALSE]
    /\ seen = [always |-> {}, ever |-> {}]

ReadIdle == cwd = None /\ disk = None /\ ask = None /\ writer = None /\ read = Fresh

Init ==
    /\ DbInit(0 .. MaxEdition)
    /\ \/ activity = "page" /\ ScanInit /\ WalkIdle /\ ReadIdle
       \/ activity = "walk" /\ WalkInit /\ ScanIdle /\ ReadIdle
       \/ activity = "read" /\ ReadInit /\ ScanIdle /\ WalkIdle

Page == activity = "page" /\ ScanNext /\ UNCHANGED <<activity, walkVars, readVars>>
Walk == activity = "walk" /\ WalkNext /\ UNCHANGED <<activity, configured, scanVars, readVars>>
Read == activity = "read" /\ ReadNext /\ UNCHANGED <<activity, configured, scanVars, walkVars>>

Next == Page \/ Walk \/ Read

Spec == Init /\ [][Next]_vars

-----------------------------------------------------------------------------
\* Types, and the bounds the tools keep: the rows of a walk never exceed the
\* limit by more than one, the visited functions the node limit, the lines of
\* a source range its count and bytes.
TypeOK ==
    /\ edition \in [Files -> 0 .. MaxEdition]
    /\ DOMAIN provenance \subseteq {f.variant : f \in Files}
    /\ configured \in Configured
    /\ request \in Requests \cup {NoRequest}
    /\ {cursor, last} \subseteq Keys \cup {None}
    /\ reported \subseteq Keys
    /\ kept \subseteq Keys
    /\ status \in {"open", "done", "refused"}
    /\ flags \in [nodeLimitHit : BOOLEAN, cyclesDetected : BOOLEAN]
    /\ answer \in {"none", "Success", "DatabaseError"}
    /\ activity = "walk" =>
          /\ walk.root \in visited
          /\ Cardinality(visited) <= walk.nodeLimit
          /\ Len(edges) <= walk.limit + 1
    /\ activity = "read" =>
          /\ disk \in [SourceFiles -> 0 .. MaxVersion]
          /\ read.status \in {"Current", "NotIndexed", "Missing", "Drifted"}
          /\ read.origin \in {"None", "WorkingTree", "GitCommit"}
          /\ Len(read.lines) <= ask.count
          /\ read.bytes <= ask.bytes
=============================================================================
