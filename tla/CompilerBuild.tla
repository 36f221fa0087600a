---------------------------- MODULE CompilerBuild ----------------------------
(***************************************************************************)
(* A build whose compiler is semindex cc (or that runs semindex compiler), *)
(* with the lines of CompilerLines as the commands of IndexUpdate, and the *)
(* same contents all the time: IndexUpdate has the edits.                  *)
(***************************************************************************)
EXTENDS IndexUpdate, CompilerLines

CONSTANTS
    Invocations(_)  \* how a tool may be called

ASSUME InvocationsAssumption ==
    \A p \in Tools : \A i \in Invocations(p) :
        i # None /\ i.words \in Seq(Words) /\ i.real \in Words \cup {NoWord}

VARIABLE
    invoked     \* how each tool was called

buildVars == <<vars, invoked>>

\* Without semindex index nobody looks into a compilation database.
BuildInit == Init /\ compdb = None /\ invoked = [p \in Tools |-> None]

\* An unsupported line is passed to the compiler, or refused by semindex compiler.
\* Warned of or ignored, a failure has the same effect.
Started(i) ==
    LET source == FindSource(Line(i))
        ends == IF Accepted(i) /\ i.tool = "cc" THEN "compiled" ELSE "exited"
    IN IF ~Accepted(i) \/ source = NoWord THEN NewJob(ends, Idle.file)
       ELSE [NewJob("frontend", source) EXCEPT
                !.tool = i.tool, !.storage = Storage(i), !.command = Line(i),
                !.policy = IF i.tool = "cc" /\ Policy(i) = "fail" THEN "fail" ELSE "warn"]

\* cmd_cc and cmd_compiler up to the run of the index
Invoke(p) ==
    /\ job[p].phase = "idle"
    /\ \E i \in Invocations(p) :
          /\ invoked' = [invoked EXCEPT ![p] = i]
          /\ Becomes(p, Started(i))
    /\ UNCHANGED <<Environment, Databases, overlay>>

\* index_command_prepare, and the redirection of the errors that are ignored
PrepareFails(p) ==
    /\ job[p].phase = "frontend"
    /\ Becomes(p, Fails(job[p], "command"))
    /\ UNCHANGED <<Environment, Databases, overlay, invoked>>

BuildWork(p) == Work(p) /\ UNCHANGED invoked

BuildNext ==
    \/ \E p \in Tools : Invoke(p) \/ PrepareFails(p)
    \/ \E p \in Processes : BuildWork(p)
    \/ \E p \in Processes : (StartUpdate(p) \/ Die(p)) /\ UNCHANGED invoked

BuildSpec == BuildInit /\ [][BuildNext]_buildVars

FairSpec == BuildSpec /\ \A p \in Processes : WF_buildVars(BuildWork(p))

-----------------------------------------------------------------------------
\* A build never waits for, or loses its compiler to, an index that fails: whatever
\* it is called with that is no mistake, the wrapper ends with the compiler, unless
\* the user asked otherwise or killed it (compiler-wrapper.md: by default, an
\* indexing failure is reported and compilation continues).
CompilerRuns ==
    \A p \in Tools :
       (invoked[p] # None /\ invoked[p].tool = "cc" /\ Accepted(invoked[p]) /\ Policy(invoked[p]) # "fail")
          ~> job[p].phase \in {"compiled", "killed"}

\* The index of a build is that of what is compiled: a line is indexed if and only
\* if it compiles one source, and the records of a file come from lines that compile
\* it, when the frontend takes them from the wrapper and when a server takes them from
\* commands.db (compiler-wrapper.md: only commands with exactly one source are
\* indexed).  Lines that are not plain are misread: compiler_command_find_source takes
\* the value of -include for a source and looks into no response file.
IndexedIsCompiled ==
    [][/\ \A p \in Tools :
             LET i == invoked'[p]
             IN i # invoked[p] /\ Accepted(i) /\ Plain(Line(i))
                   => (job'[p].phase = "frontend" <=> Len(Compiled(Line(i))) = 1)
       /\ \A f \in Files :
             LET line == symbols'[f].command
             IN symbols'[f] # symbols[f] /\ Plain(line)
                   => Compiled(line) = <<f>> /\ Compiled(Sanitized(line)) = <<f>>]_buildVars

\* What a server loads from commands.db, and what is exported to compile_commands.json,
\* is the line the compiler was run with, with its empty words (compiler-wrapper.md: the
\* exact argument vector is stored for indexed commands).
CommandsSurvive ==
    \A f \in Files :
       commands[f] # None =>
          /\ \E p \in Tools : invoked[p] # None /\ commands[f] = Line(invoked[p])
          /\ Unpack(Pack(commands[f])) = commands[f]
          /\ Exported(Pack(commands[f])) = commands[f]
=============================================================================
