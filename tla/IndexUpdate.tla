----------------------------- MODULE IndexUpdate -----------------------------
(***************************************************************************)
(* Who updates the two databases, in which order, and what an editor then  *)
(* sees: the indexing pipeline (lib/semindex_pipeline/index_pipeline.c),   *)
(* the command lines index, compiler and cc, the updater and the command   *)
(* resolver that both servers share (lib/semindex_index_update), and the   *)
(* overlays of the language server (tools/lsp).                            *)
(*                                                                         *)
(* index_db_store is one step here: IndexStore shows that it is atomic.    *)
(* Only the records of the main file of a run are modelled, for one        *)
(* variant; the contents of a file are a version, which fixes the records  *)
(* the frontend makes of it.                                               *)
(***************************************************************************)
EXTENDS Naturals

CONSTANTS
    Files,          \* source files, by canonical path
    Versions,       \* bound: the contents a file may have, oldest first
    Emits,          \* the positions at which each version has a record
    Commands,       \* compiler commands a build may use
    Tools,          \* runs of semindex index, compiler or cc
    Editors,        \* semindex-lsp processes
    Agents,         \* semindex-mcp processes that may reindex
    Document,       \* the fallback command made up for one file
    None

ASSUME SortsAreDisjoint ==
    /\ None \notin Commands /\ None \notin Versions /\ None # Document
    /\ Document \notin Commands
    /\ Tools \cap (Editors \cup Agents) = {}
    /\ Editors \cap Agents = {}

ASSUME FilesAssumption == Files # {}

ASSUME VersionsAssumption == Versions \subseteq Nat /\ 1 \in Versions

ASSUME EmitsAssumption == DOMAIN Emits = Versions

Servers == Editors \cup Agents
Processes == Tools \cup Servers

Positions == UNION {Emits[v] : v \in Versions}

VARIABLES
    disk,       \* the version of each file
    compdb,     \* compile_commands.json: a command for each file, or None
    symbols,    \* symbols.db: what the records of each main file come from
    commands,   \* commands.db: the saved command of each file
    overlay,    \* LspOverlay of each editor: the version it holds of a file
    job,        \* the run of each process
    used        \* the commands whose records have been stored, for each file

vars == <<disk, compdb, symbols, commands, overlay, job, used>>

Environment == <<disk, compdb>>
Databases == <<symbols, commands, used>>

AnyCommand == Commands \cup {Document}

Sources == [version : Versions, command : AnyCommand, status : {"clean", "partial", "failed"},
            by : Processes]

ASSUME NoneIsNoSource == None \notin Sources

Storages == {"output", "symbols", "symbols_and_command"}

Stages == {"none", "command", "frontend", "symbol_database", "command_database"}

\* A run: what was asked for, what the frontend made of it, how far it got.
Jobs ==
    [phase : {"idle", "resolve", "frontend", "symbols", "command", "done",
              "answered", "compiled", "exited", "killed"},
     file : Files,
     tool : {"index", "compiler", "cc", "update"},
     policy : {"warn", "fail"},
     storage : Storages,
     command : AnyCommand \cup {None},
     source : Sources \cup {None},
     failed_stage : Stages]

NewJob(phase, f) ==
    [phase |-> phase, file |-> f, tool |-> "update", policy |-> "warn", storage |-> "output",
     command |-> None, source |-> None, failed_stage |-> "none"]

Idle == NewJob("idle", CHOOSE f \in Files : TRUE)

TypeOK ==
    /\ disk \in [Files -> Versions]
    /\ compdb \in [Files -> Commands] \cup {None}
    /\ symbols \in [Files -> Sources \cup {None}]
    /\ commands \in [Files -> AnyCommand \cup {None}]
    /\ overlay \in [Editors -> [Files -> Versions \cup {None}]]
    /\ job \in [Processes -> Jobs]
    /\ used \in [Files -> SUBSET AnyCommand]

Init ==
    /\ disk = [f \in Files |-> 1]
    /\ compdb \in {None} \cup [Files -> Commands]
    /\ symbols = [f \in Files |-> None]
    /\ commands = [f \in Files |-> None]
    /\ overlay = [e \in Editors |-> [f \in Files |-> None]]
    /\ job = [p \in Processes |-> Idle]
    /\ used = [f \in Files |-> {}]

Becomes(p, j) == job' = [job EXCEPT ![p] = j]

\* Mutant of Fails: reports the phase it was in.
FailsInPhase(j, stage) == [j EXCEPT !.phase = "done", !.failed_stage = j.phase]

\* The run ends without a result; what it has persisted stays.
Fails(j, stage) == [j EXCEPT !.phase = "done", !.failed_stage = stage]

-----------------------------------------------------------------------------
(* Requests *)

Edit(f) ==
    /\ \E v \in Versions : v > disk[f] /\ disk' = [disk EXCEPT ![f] = v]
    /\ UNCHANGED <<compdb, Databases, overlay, job>>

\* semindex index, compiler or cc, with or without --format and --no-store-command.
\* index finds its command in the compilation database, the others are given one,
\* and only cc has a policy for index errors and no --format.
StartTool(p) ==
    /\ p \in Tools
    /\ job[p].phase = "idle"
    /\ \E f \in Files, s \in Storages, t \in {"index", "compiler", "cc"}, policy \in {"warn", "fail"},
          c \in Commands \cup {None} :
          /\ c = None <=> t = "index"
          /\ t = "cc" => s # "output"
          /\ policy = "fail" => t = "cc"
          /\ Becomes(p, [NewJob("frontend", f) EXCEPT !.tool = t, !.policy = policy,
                                                      !.storage = s, !.command = c])
    /\ UNCHANGED <<Environment, Databases, overlay>>

\* textDocument/didOpen and didSave, and reindex_file: one run at a time in a server.
StartUpdate(p) ==
    /\ p \in Servers
    /\ job[p].phase \in {"idle", "answered"}
    /\ \E f \in Files : Becomes(p, NewJob("resolve", f))
    /\ UNCHANGED <<Environment, Databases, overlay>>

-----------------------------------------------------------------------------
(* The updater: which command, and what to store *)

\* Mutant of ResolveSaved: saves the command again.
ResolveSavedAgain(j) ==
    [j EXCEPT !.phase = "frontend", !.storage = "symbols_and_command", !.command = commands[j.file]]

\* A saved command wins; its run does not save the command again.
ResolveSaved(j) ==
    [j EXCEPT !.phase = "frontend", !.storage = "symbols", !.command = commands[j.file]]

\* The frontend looks the command up in compile_commands.json.
ResolveCompdb(j) == [j EXCEPT !.phase = "frontend", !.storage = "symbols_and_command"]

\* Mutant of ResolveDocument: stores what the fallback command made.
ResolveDocumentStored(j) ==
    [j EXCEPT !.phase = "frontend", !.storage = "symbols", !.command = Document]

\* The fallback command is no configuration of the project: nothing is stored.
ResolveDocument(j) == [j EXCEPT !.phase = "frontend", !.storage = "output", !.command = Document]

\* SemindexCommandResolver::resolve; an agent has saved commands only.
Resolve(p) ==
    LET j == job[p] IN
    /\ j.phase = "resolve"
    /\ \/ Becomes(p, Fails(j, "command"))      \* commands.db cannot be read
       \/ commands[j.file] # None /\ Becomes(p, ResolveSaved(j))
       \/ /\ commands[j.file] = None
          /\ \/ p \in Editors /\ compdb # None /\ Becomes(p, ResolveCompdb(j))
             \/ p \in Editors /\ compdb = None /\ Becomes(p, ResolveDocument(j))
             \/ p \in Agents /\ Becomes(p, Fails(j, "command"))
    /\ UNCHANGED <<Environment, Databases, overlay>>

-----------------------------------------------------------------------------
(* index_pipeline_run *)

\* The command of the run: its own, or the one in the compilation database.
CommandOf(j) ==
    IF j.command # None THEN j.command
    ELSE IF compdb = None THEN None ELSE compdb[j.file]

\* What the frontend makes of the file as it is on disk now.
Parsed(p, status) ==
    [version |-> disk[job[p].file], command |-> CommandOf(job[p]), status |-> status, by |-> p]

\* A failed frontend has no usable records and ends the run; a partial one counts,
\* for every caller asks for partial results to be stored.
AfterFrontend(p, status) ==
    LET j == job[p] IN
    IF status = "failed" THEN Fails(j, "frontend")
    ELSE [j EXCEPT !.source = Parsed(p, status),
                   !.phase = IF j.storage = "output" THEN "done" ELSE "symbols"]

Frontend(p) ==
    /\ job[p].phase = "frontend"
    /\ \E status \in {"clean", "partial", "failed"} :
          /\ CommandOf(job[p]) = None => status = "failed"
          /\ Becomes(p, AfterFrontend(p, status))
    /\ UNCHANGED <<Environment, Databases, overlay>>

\* Mutant of StoreSymbols: a failure does not keep the command from being saved.
StoreSymbolsRegardless(p) ==
    LET j == job[p] IN
    /\ j.phase = "symbols"
    /\ Becomes(p, [j EXCEPT !.phase = IF j.storage = "symbols" THEN "done" ELSE "command"])
    /\ \/ UNCHANGED <<symbols, used>>
       \/ /\ symbols' = [symbols EXCEPT ![j.file] = j.source]
          /\ used' = [used EXCEPT ![j.file] = @ \cup {j.source.command}]
    /\ UNCHANGED <<Environment, commands, overlay>>

\* Fingerprints, repository root and index_db_store: all or nothing.
StoreSymbols(p) ==
    LET j == job[p] IN
    /\ j.phase = "symbols"
    /\ \/ /\ Becomes(p, Fails(j, "symbol_database"))
          /\ UNCHANGED <<symbols, used>>
       \/ /\ symbols' = [symbols EXCEPT ![j.file] = j.source]
          /\ used' = [used EXCEPT ![j.file] = @ \cup {j.source.command}]
          /\ Becomes(p, [j EXCEPT !.phase = IF j.storage = "symbols" THEN "done" ELSE "command"])
    /\ UNCHANGED <<Environment, commands, overlay>>

\* store_command; the stored records stay when it fails.
StoreCommand(p) ==
    LET j == job[p] IN
    /\ j.phase = "command"
    /\ \/ /\ Becomes(p, Fails(j, "command_database"))
          /\ UNCHANGED commands
       \/ /\ commands' = [commands EXCEPT ![j.file] = j.source.command]
          /\ Becomes(p, [j EXCEPT !.phase = "done"])
    /\ UNCHANGED <<Environment, symbols, used, overlay>>

-----------------------------------------------------------------------------
(* The end of a run *)

\* LspIndexer::update: a result that was not to be stored replaces the overlay of the
\* file; any other, a failure too, erases it.
NewOverlay(j) ==
    IF j.failed_stage = "none" /\ j.command = Document THEN j.source.version ELSE None

\* Mutant of Answer: an overlay is never erased.
AnswerKeepingOverlay(p) ==
    LET j == job[p] IN
    /\ p \in Servers
    /\ j.phase = "done"
    /\ Becomes(p, IF p \in Editors THEN [j EXCEPT !.phase = "answered"] ELSE Idle)
    /\ overlay' = IF p \in Editors /\ NewOverlay(j) # None
                  THEN [overlay EXCEPT ![p][j.file] = NewOverlay(j)] ELSE overlay
    /\ UNCHANGED <<Environment, Databases>>

Answer(p) ==
    LET j == job[p] IN
    /\ p \in Servers
    /\ j.phase = "done"
    /\ Becomes(p, IF p \in Editors THEN [j EXCEPT !.phase = "answered"] ELSE Idle)
    /\ overlay' = IF p \in Editors THEN [overlay EXCEPT ![p][j.file] = NewOverlay(j)] ELSE overlay
    /\ UNCHANGED <<Environment, Databases>>

\* Mutant of EndsIn: a failed index ends the build under either policy.
EndsInFailure(j) == IF j.tool # "cc" \/ j.failed_stage # "none" THEN "exited" ELSE "compiled"

\* cmd_cc: the compiler runs whatever became of the index, unless the policy is fail.
EndsIn(j) ==
    IF j.tool # "cc" \/ (j.failed_stage # "none" /\ j.policy = "fail")
    THEN "exited" ELSE "compiled"

Exit(p) ==
    /\ p \in Tools
    /\ job[p].phase = "done"
    /\ Becomes(p, NewJob(EndsIn(job[p]), job[p].file))
    /\ UNCHANGED <<Environment, Databases, overlay>>

\* A tool is killed; a server is restarted, which loses its overlays.
Die(p) ==
    /\ job[p].phase \in {"resolve", "frontend", "symbols", "command", "done"}
    /\ Becomes(p, IF p \in Tools THEN NewJob("killed", job[p].file) ELSE Idle)
    /\ overlay' = IF p \in Editors THEN [overlay EXCEPT ![p] = [f \in Files |-> None]] ELSE overlay
    /\ UNCHANGED <<Environment, Databases>>

Work(p) == Resolve(p) \/ Frontend(p) \/ StoreSymbols(p) \/ StoreCommand(p) \/ Answer(p) \/ Exit(p)

Next ==
    \/ \E f \in Files : Edit(f)
    \/ \E p \in Processes : StartTool(p) \/ StartUpdate(p) \/ Work(p) \/ Die(p)

Spec == Init /\ [][Next]_vars

-----------------------------------------------------------------------------
(* Navigation: SemindexQueryService::recordsAt *)

\* The version whose record answers a query at a position of a file. The overlay goes
\* first; where it is silent, the database answers.
RecordAt(e, f, position) ==
    IF overlay[e][f] # None /\ position \in Emits[overlay[e][f]] THEN overlay[e][f]
    ELSE IF symbols[f] # None /\ position \in Emits[symbols[f].version] THEN symbols[f].version
    ELSE None

-----------------------------------------------------------------------------
(* Properties *)

\* Whatever process dies between the two stores and whoever else stores meanwhile, a
\* saved command is one whose records have been stored for that file: what a server
\* reindexes with is never a command that no index was made with. The order of the two
\* stores in index_pipeline_run.
CommandsFollowSymbols ==
    \A f \in Files : commands[f] # None => commands[f] \in used[f]

\* What is stored for a file was made by a command of the build and by a frontend that
\* had usable records: the made-up command of an editor never reaches a database, where
\* other processes would take its records, or the command, for the project's.
StoredIsUsable ==
    \A f \in Files :
       /\ symbols[f] # None => symbols[f].command # Document /\ symbols[f].status # "failed"
       /\ commands[f] # Document

\* After a save whose records were stored, or needed no store, the editor that made it
\* finds every record of the contents it saved, until another process stores that file:
\* an overlay of an earlier save never hides them (LspIndexer::update and recordsAt).
\* Such a run may have failed since: the command could not be stored, and the answer
\* says that the file was not indexed.
SavedIsShown ==
    \A e \in Editors :
       LET j == job[e] IN
       j.phase = "answered" /\ j.failed_stage \in {"none", "command_database"} =>
          \A position \in Emits[j.source.version] :
             \/ RecordAt(e, j.file, position) = j.source.version
             \/ /\ overlay[e][j.file] = None
                /\ symbols[j.file].by # e

\* What the documentation of the query service says: an overlay replaces the stored
\* records of a file. Then no record of the database answers for a file that has an
\* overlay.
OverlayReplaces ==
    \A e \in Editors, f \in Files, position \in Positions :
       overlay[e][f] # None => RecordAt(e, f, position) \in {overlay[e][f], None}

\* An agent works with the saved commands and leaves them alone: when the run of an
\* agent ends with records stored, it has used a command that some run had stored
\* with its records before, and reindexing has not changed commands.db.
AgentsKeepCommands ==
    [][\A a \in Agents :
          job'[a] # job[a] =>
             /\ commands' = commands
             /\ \A f \in Files : symbols'[f] # symbols[f] => symbols'[f].command \in used[f]]_vars

=============================================================================
