----------------------------- MODULE LspServer -----------------------------
(***************************************************************************)
(* The language server (tools/lsp): one thread that reads a message, does  *)
(* what it asks for, answers and reads the next (LspServer::run, dispatch). *)
(* The client may send any message at any time, the streams may break at   *)
(* any time, other processes store and the user edits all the while.       *)
(***************************************************************************)
EXTENDS Navigation

CONSTANTS
    Messages,       \* what a client may send: [form, method, id, params]
    Ids,            \* the ids of its requests, 0 standing for null
    Malformed,      \* params that do not parse
    Configured,     \* values of the --variant option, 0 if it is not given
    General,        \* the variant that saves update without it
    Repository(_)   \* the repository a path is in, None if in none

\* What is answered has an id: null stands for one that is missing.
ASSUME MessagesAssumption == 0 \in Ids /\ \A m \in Messages : m.id \in Ids \cup {None}

\* A version that is saved is one the database can be at.
ASSUME BoundsAssumption == MaxEdition \in Nat /\ MaxVersion \in 1 .. MaxEdition

ASSUME NoneAssumption == None \notin Nat \cup BOOLEAN

\* Directories are normal paths (SemindexSourceResolver::normalize, pathFromUri), and
\* what is stored is one, or a path below the writer's root.
ASSUME PathsAssumption ==
    /\ {Cwd} \cup SourceFiles \subseteq NormalPaths
    /\ \A m \in Messages : m.method = "initialize" =>
          /\ m.params \in Seq({None} \cup NormalPaths)
          /\ \A i \in DOMAIN m.params :
                m.params[i] # None => Repository(m.params[i]) \in {None} \cup NormalPaths
    /\ \A path \in ToSet(Paths) :
          \/ path \in NormalPaths
          \/ path = Relative(path.names) /\ path.names # <<>> /\ path.names \in Seq(STRING \ {".."})

\* The client names a document by a file URI, which has an absolute path, and a
\* position in it by two unsigned numbers.
ASSUME DocumentsAssumption ==
    \A m \in Messages :
        m.form = "valid" /\ m.method \in {"definition", "references", "highlight", "hover", "prepare"}
            /\ m.params # Malformed =>
            /\ m.params.path # None /\ m.params.path \in NormalPaths
            /\ m.params.line \in Nat /\ m.params.character \in Nat

\* The records of a file are finite in number, and numbers stand for names.
RecordsOf(path) ==
    [variant : Nat, path : {path}, line : Nat, column : Nat, record : {Symbol, Use}, action : Nat,
     kind : Nat, symbol : Nat, context : Nat, mode : Nat, usr : Nat, cusr : Nat, local : BOOLEAN]

ASSUME RecordsAssumption ==
    /\ IsFiniteSet(Files) /\ Configured \subseteq Nat /\ Paths \in Seq(ToSet(Paths))
    /\ \A f \in Files, e \in 1 .. MaxEdition :
          /\ f.path \in ToSet(Paths)
          /\ IsFiniteSet(Edition(f, e).records)
          /\ Edition(f, e).records \subseteq RecordsOf(f.path)
          /\ \A r \in Edition(f, e).records : r.variant # 0
    /\ \A file \in SourceFiles, version \in 1 .. MaxVersion :
          IsFiniteSet(Emitted(file, version)) /\ Emitted(file, version) \subseteq RecordsOf(file)

\* The text of a file is lines of characters, and a name has a length in it.
ASSUME TextAssumption ==
    /\ \A file \in SourceFiles, version \in 1 .. MaxVersion :
          /\ Lines(file, version) \in Seq(Seq(Broken .. 4))
          /\ \A r \in Emitted(file, version) : LeafLength(r.symbol) \in Nat
    /\ \A f \in Files, e \in 1 .. MaxEdition :
          \A r \in Edition(f, e).records : LeafLength(r.symbol) \in Nat

VARIABLES
    state,          \* "Uninitialized", "Running" or "Shutdown"
    due,            \* for each id the answers that are still owed
    exit            \* the exit status, None while the server runs

vars == <<worldVars, job, seen, state, due, exit>>

\* At first the client has the first version of its files open, indexed or not.
Init ==
    /\ DbInit({0, 1})
    /\ configured \in Configured
    /\ overlay = <<>>
    /\ workspace = None
    /\ disk = [f \in SourceFiles |-> 1]
    /\ job = Idle
    /\ seen = Nothing
    /\ state = "Uninitialized"
    /\ due = [id \in Ids |-> 0]
    /\ exit = None

-----------------------------------------------------------------------------
(* Messages.                                                                *)

Id(m) == IF m.id = None THEN 0 ELSE m.id

\* A request, and what cannot be taken for a notification; the server takes
\* initialize for a request even without an id.
Expects(m) == m.form # "valid" \/ m.id # None \/ m.method = "initialize"

Receive(m) ==
    /\ exit = None /\ ~Working
    /\ due' = IF Expects(m) THEN [due EXCEPT ![Id(m)] = @ + 1] ELSE due

AnswerAtOnce(m) == job' = Instead(Id(m)) /\ seen' = Nothing

Done == job' = Idle /\ seen' = Nothing

\* Mutant: only a server that was shut down refuses requests.
RefusedAtTheEnd(m) ==
    \/ m.form # "valid"
    \/ m.method = "exit" /\ m.id # None
    \/ m.method = "initialize" /\ (m.id = None \/ state # "Uninitialized")
    \/ /\ m.method \notin {"exit", "initialize"} /\ m.id # None
       /\ state = "Shutdown" \/ m.method \in {"initialized", "didOpen", "didSave", "unknown"}

\* The branches that take only a request, or only a notification.
Refused(m) ==
    \/ m.form # "valid"
    \/ m.method = "exit" /\ m.id # None
    \/ m.method = "initialize" /\ (m.id = None \/ state # "Uninitialized")
    \/ /\ m.method \notin {"exit", "initialize"} /\ m.id # None
       /\ \/ state # "Running"
          \/ m.method \in {"initialized", "didOpen", "didSave", "unknown"}

Refuse(m) ==
    /\ Receive(m)
    /\ Refused(m)
    /\ AnswerAtOnce(m)
    /\ UNCHANGED <<worldVars, state, exit>>

Lookups == {"definition", "references", "highlight", "hover", "prepare", "incoming", "outgoing"}

\* Mutant: unknown requests are dropped like unknown notifications.
PassUnknown(m) ==
    /\ Receive(m)
    /\ m.form = "valid" /\ m.method \notin {"exit", "initialize"}
    /\ m.id = None \/ m.method = "unknown"
    /\ state # "Running" \/ m.method \in Lookups \cup {"initialized", "shutdown", "unknown"}
    /\ Done
    /\ UNCHANGED <<worldVars, state, exit>>

\* Notifications that have no effect, among them requests sent without an id.
Pass(m) ==
    /\ Receive(m)
    /\ m.form = "valid" /\ m.id = None /\ m.method \notin {"exit", "initialize"}
    /\ \/ state # "Running"
       \/ m.method \in Lookups \cup {"initialized", "shutdown", "unknown"}
       \/ m.method \in {"didOpen", "didSave"} /\ m.params = Malformed
    /\ Done
    /\ UNCHANGED <<worldVars, state, exit>>

\* The root URI and the workspace folders in order: the first that is a file
\* URI names the workspace, or the repository it is in.
SetWorkspace(roots) ==
    LET valid == {i \in DOMAIN roots : roots[i] # None}
        first == roots[CHOOSE i \in valid : \A j \in valid : i <= j]
    IN workspace' = CASE valid = {} -> workspace
                      [] valid # {} /\ Repository(first) # None -> Repository(first)
                      [] OTHER -> first

Initialize(m) ==
    /\ Receive(m)
    /\ m.method = "initialize" /\ ~Refused(m)
    /\ SetWorkspace(m.params)
    /\ state' = "Running"
    /\ AnswerAtOnce(m)
    /\ UNCHANGED <<dbVars, configured, overlay, disk, exit>>

Shutdown(m) ==
    /\ Receive(m)
    /\ m.method = "shutdown" /\ m.id # None /\ ~Refused(m)
    /\ state' = "Shutdown"
    /\ AnswerAtOnce(m)
    /\ UNCHANGED <<worldVars, exit>>

Exit(m) ==
    /\ Receive(m)
    /\ m.method = "exit" /\ ~Refused(m)
    /\ exit' = IF state = "Shutdown" THEN 0 ELSE 1
    /\ Done
    /\ UNCHANGED <<worldVars, state>>

-----------------------------------------------------------------------------
(* didOpen and didSave index the file on disk (IndexUpdate has the run).     *)

UpdateVariant == IF configured = 0 THEN General ELSE configured

\* Where the run stores the file: below the workspace, or its repository.
Target(file) ==
    LET base == IF workspace = None THEN Repository(file) ELSE workspace
    IN [variant |-> UpdateVariant, path |-> StoredPath(IF base = None THEN NoPath ELSE base, file, file)]

\* With a command of the project the records go to the database, ...
Persisted(file) ==
    /\ OnDisk(file) # 0 /\ Target(file) \in Files
    /\ Put(Target(file), OnDisk(file))
    /\ UNCHANGED stores
    /\ overlay' = Erased(file)

\* ... with the fallback command into the overlay, ...
Fallen(file) ==
    /\ OnDisk(file) # 0
    /\ overlay' = Replaced(file, OnDisk(file))
    /\ UNCHANGED dbVars

\* ... and a failed run leaves the file without an overlay.
FailedRun(file) ==
    /\ overlay' = Erased(file)
    /\ UNCHANGED dbVars

\* The diagnostics are written in any case, which may fail.
DidSave(m) ==
    /\ Receive(m)
    /\ m.form = "valid" /\ m.id = None /\ state = "Running"
    /\ m.method \in {"didOpen", "didSave"} /\ m.params # Malformed
    /\ Persisted(m.params) \/ Fallen(m.params) \/ FailedRun(m.params)
    /\ exit' \in {None, 1}
    /\ Done
    /\ UNCHANGED <<configured, workspace, disk, state>>

-----------------------------------------------------------------------------
(* Lookups.                                                                 *)

\* parseIdentity refuses the item of another variant.
BadParams(m) ==
    \/ m.params = Malformed
    \/ m.method \in {"incoming", "outgoing"}
          /\ (m.params.variant = 0 \/ m.params.symbol = 0 \/ configured \notin {0, m.params.variant})

LookUp(m) ==
    /\ Receive(m)
    /\ m.method \in Lookups /\ m.id # None /\ ~Refused(m)
    /\ IF BadParams(m) THEN AnswerAtOnce(m)
       ELSE job' = [Idle EXCEPT !.pc = IF m.method \in {"incoming", "outgoing"} THEN "calls" ELSE "locate",
                                !.id = m.id, !.method = m.method, !.params = m.params]
               /\ seen' = [always |-> Records, ever |-> Records]
    /\ UNCHANGED <<worldVars, state, exit>>

\* The answer is written; if the stream or the protocol log fails the server ends.
Reply ==
    /\ exit = None
    /\ job.pc = "reply" \/ Answered
    /\ Done
    /\ \/ due' = [due EXCEPT ![job.id] = @ - 1] /\ exit' \in {None, 1}
       \/ due' = due /\ exit' = 1
    /\ UNCHANGED <<worldVars, state>>

EndOfInput ==
    /\ exit = None /\ ~Working
    /\ exit' \in {0, 1}     \* end of file, or no message can be read
    /\ UNCHANGED <<worldVars, job, seen, state, due>>

Work == exit = None /\ NavigationStep /\ UNCHANGED <<state, due, exit>>

Environment ==
    /\ exit = None
    /\ \/ \E f \in Files, e \in 0 .. MaxEdition : OtherStore(f, e)
       \/ \E file \in SourceFiles : EditFile(file)
    /\ UNCHANGED <<state, due, exit>>

Next ==
    \/ \E m \in Messages :
          \/ Refuse(m)
          \/ Pass(m)
          \/ Initialize(m)
          \/ Shutdown(m)
          \/ Exit(m)
          \/ DidSave(m)
          \/ LookUp(m)
    \/ Reply
    \/ EndOfInput
    \/ Work
    \/ Environment

Spec == Init /\ [][Next]_vars

-----------------------------------------------------------------------------
\* Types; a server that is not running looks nothing up, indexes nothing and
\* has no workspace before it is initialized.
TypeOK ==
    /\ edition \in [Files -> 0 .. MaxEdition]
    /\ configured \in Configured
    /\ DOMAIN overlay \subseteq SourceFiles
    /\ \A f \in DOMAIN overlay : overlay[f] \in 1 .. MaxVersion
    /\ disk \in [SourceFiles -> 0 .. MaxVersion]
    /\ state \in {"Uninitialized", "Running", "Shutdown"}
    /\ due \in [Ids -> {0, 1}]
    /\ exit \in {None, 0, 1}
    /\ state = "Uninitialized" => workspace = None /\ overlay = <<>>
    /\ Working /\ job.method # "none" => state = "Running"

\* Every request is answered once, before the next message is read, and a
\* notification never; a server that ends in order owes nothing (JSON-RPC).
RepliesMatchRequests ==
    /\ exit \in {None, 0} =>
          \A id \in Ids : due[id] = IF Working /\ job.id = id THEN 1 ELSE 0
    /\ exit = 0 => \A id \in Ids : due[id] = 0
    /\ \A id \in Ids : due[id] >= 0
=============================================================================
