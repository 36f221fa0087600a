------------------------- MODULE IndexUpdateProofs -------------------------
(***************************************************************************)
(* What IndexUpdate guarantees for any number of tools, editors, agents,   *)
(* files and versions, checked by TLAPS: what reaches the two databases,   *)
(* and what an editor shows after a save.                                  *)
(***************************************************************************)
EXTENDS IndexUpdate, TLAPS

USE SortsAreDisjoint, FilesAssumption, VersionsAssumption, NoneIsNoSource

----------------------------------------------------------------------------
(* The inductive invariant.                                                *)

\* What may be stored: made by a command of the build, with usable records.
Usable == {s \in Sources : s.command \in Commands /\ s.status # "failed"}

StoresOnlyUsable ==
    /\ symbols \in [Files -> Usable \cup {None}]
    /\ commands \in [Files -> Commands \cup {None}]

\* Nothing failed before the store of the command.
ReachesCommand(j) == j.failed_stage \in {"none", "command_database"}

\* The run of p as far as it concerns p alone.
RunSound(p, j) ==
    /\ j.phase \in {"symbols", "command"} => j.source \in Usable
    /\ j.phase \in {"done", "answered"} /\ ReachesCommand(j) => j.source \in Sources
    /\ j.failed_stage = "command_database" => j.storage # "output"
    /\ j.phase = "frontend" /\ j.command = Document => j.storage = "output"
    /\ j.phase \in {"frontend", "symbols", "command", "done", "answered"} /\ p \in Editors
          /\ ReachesCommand(j) =>
             (j.storage = "output" <=> j.command = Document)
    /\ j.phase \in {"symbols", "command"} => j.source.by = p /\ j.storage # "output"
    /\ j.phase \notin {"done", "answered"} => j.failed_stage = "none"
    /\ j.phase = "resolve" => j.command = None

\* A run past its first store.
HasStored(j) ==
    \/ j.phase = "command"
    \/ /\ j.phase \in {"done", "answered"}
       /\ ReachesCommand(j)
       /\ j.storage # "output"

\* What a run has stored is still there, unless another process has stored since.
RunStored(p, j, s) ==
    HasStored(j) => s # None /\ (s.by = p => s = j.source)

\* The command that a run is about to save has its records in the database.
CommandUsed(j, u) == j.phase = "command" => j.source.command \in u

\* After an answer of such a run the overlay is that of the answer.
OverlayIsAnswer(j, o) ==
    j.phase = "answered" /\ ReachesCommand(j) => o = NewOverlay(j)

IInv ==
    /\ TypeOK
    /\ StoresOnlyUsable
    /\ CommandsFollowSymbols
    /\ \A p \in Processes :
          /\ RunSound(p, job[p])
          /\ RunStored(p, job[p], symbols[job[p].file])
          /\ CommandUsed(job[p], used[job[p].file])
    /\ \A e \in Editors : OverlayIsAnswer(job[e], overlay[e][job[e].file])

----------------------------------------------------------------------------
(* Jobs as records: EXCEPT with several fields, one lemma per list of fields. *)

\* A record with exactly the fields of a job.
Shaped(j) ==
    j = [phase |-> j.phase, file |-> j.file, tool |-> j.tool, policy |-> j.policy,
         storage |-> j.storage, command |-> j.command, source |-> j.source,
         failed_stage |-> j.failed_stage]

\* Jobs are such records.
LEMMA JobsShaped == \A j \in Jobs : Shaped(j)
  BY DEF Jobs, Shaped

\* How far a run got and why it ended (Fails).
LEMMA SetFailed ==
    ASSUME NEW j, Shaped(j), NEW x, NEW y
    PROVE  [j EXCEPT !.phase = x, !.failed_stage = y] =
              [phase |-> x, file |-> j.file, tool |-> j.tool, policy |-> j.policy,
               storage |-> j.storage, command |-> j.command, source |-> j.source,
               failed_stage |-> y]
<1> DEFINE e == [j EXCEPT !.phase = x]
<1>1. e = [phase |-> x, file |-> j.file, tool |-> j.tool, policy |-> j.policy,
           storage |-> j.storage, command |-> j.command, source |-> j.source,
           failed_stage |-> j.failed_stage]
  BY DEF Shaped
<1>2. [j EXCEPT !.phase = x, !.failed_stage = y] = [e EXCEPT !.failed_stage = y]
  BY Zenon
<1> HIDE DEF e
<1> QED BY <1>1, <1>2

\* The phase and the storage mode (ResolveCompdb).
LEMMA SetStorage ==
    ASSUME NEW j, Shaped(j), NEW x, NEW y
    PROVE  [j EXCEPT !.phase = x, !.storage = y] =
              [phase |-> x, file |-> j.file, tool |-> j.tool, policy |-> j.policy,
               storage |-> y, command |-> j.command, source |-> j.source,
               failed_stage |-> j.failed_stage]
<1> DEFINE e == [j EXCEPT !.phase = x]
<1>1. e = [phase |-> x, file |-> j.file, tool |-> j.tool, policy |-> j.policy,
           storage |-> j.storage, command |-> j.command, source |-> j.source,
           failed_stage |-> j.failed_stage]
  BY DEF Shaped
<1>2. [j EXCEPT !.phase = x, !.storage = y] = [e EXCEPT !.storage = y]
  BY Zenon
<1> HIDE DEF e
<1> QED BY <1>1, <1>2

\* The same and the command (ResolveSaved, ResolveDocument).
WithCommand(j, x, y, z) == [j EXCEPT !.phase = x, !.storage = y, !.command = z]

\* The fields of such a job.
LEMMA SetCommand ==
    ASSUME NEW j, Shaped(j), NEW x, NEW y, NEW z
    PROVE  WithCommand(j, x, y, z) =
              [phase |-> x, file |-> j.file, tool |-> j.tool, policy |-> j.policy,
               storage |-> y, command |-> z, source |-> j.source,
               failed_stage |-> j.failed_stage]
<1> DEFINE e == [j EXCEPT !.phase = x, !.storage = y]
<1>1. e = [phase |-> x, file |-> j.file, tool |-> j.tool, policy |-> j.policy,
           storage |-> y, command |-> j.command, source |-> j.source,
           failed_stage |-> j.failed_stage]
  BY SetStorage
<1>2. WithCommand(j, x, y, z) = [e EXCEPT !.command = z]
  BY Zenon DEF WithCommand
<1> HIDE DEF e
<1> QED BY <1>1, <1>2

\* What the frontend made, and the phase (AfterFrontend).
LEMMA SetSource ==
    ASSUME NEW j, Shaped(j), NEW x, NEW y
    PROVE  [j EXCEPT !.source = x, !.phase = y] =
              [phase |-> y, file |-> j.file, tool |-> j.tool, policy |-> j.policy,
               storage |-> j.storage, command |-> j.command, source |-> x,
               failed_stage |-> j.failed_stage]
<1> DEFINE e == [j EXCEPT !.source = x]
<1>1. e = [phase |-> j.phase, file |-> j.file, tool |-> j.tool, policy |-> j.policy,
           storage |-> j.storage, command |-> j.command, source |-> x,
           failed_stage |-> j.failed_stage]
  BY DEF Shaped
<1>2. [j EXCEPT !.source = x, !.phase = y] = [e EXCEPT !.phase = y]
  BY Zenon
<1> HIDE DEF e
<1> QED BY <1>1, <1>2

\* What a tool was asked for (StartTool).
WithRequest(j, x, y, z, u) == [j EXCEPT !.tool = x, !.policy = y, !.storage = z, !.command = u]

\* The fields of such a job.
LEMMA SetRequest ==
    ASSUME NEW j, Shaped(j), NEW x, NEW y, NEW z, NEW u
    PROVE  WithRequest(j, x, y, z, u) =
              [phase |-> j.phase, file |-> j.file, tool |-> x, policy |-> y,
               storage |-> z, command |-> u, source |-> j.source,
               failed_stage |-> j.failed_stage]
<1> DEFINE d == [j EXCEPT !.tool = x]
           e == [d EXCEPT !.policy = y]
           h == [e EXCEPT !.storage = z]
<1>1. d = [phase |-> j.phase, file |-> j.file, tool |-> x, policy |-> j.policy,
           storage |-> j.storage, command |-> j.command, source |-> j.source,
           failed_stage |-> j.failed_stage]
  BY DEF Shaped
<1>2. WithRequest(j, x, y, z, u) = [h EXCEPT !.command = u]
  BY Zenon DEF WithRequest
<1> HIDE DEF d
<1>3. e = [phase |-> j.phase, file |-> j.file, tool |-> x, policy |-> y,
           storage |-> j.storage, command |-> j.command, source |-> j.source,
           failed_stage |-> j.failed_stage]
  BY <1>1
<1> HIDE DEF e
<1>4. h = [phase |-> j.phase, file |-> j.file, tool |-> x, policy |-> y,
           storage |-> z, command |-> j.command, source |-> j.source,
           failed_stage |-> j.failed_stage]
  BY <1>3
<1> HIDE DEF h
<1> QED BY <1>2, <1>4

\* A job that has just been made is typed, and nothing is claimed of it.
LEMMA NewJobSound ==
    ASSUME NEW f \in Files, NEW p \in Processes, NEW phase \in {"idle", "resolve", "exited", "killed", "compiled"}
    PROVE  /\ NewJob(phase, f) \in Jobs
           /\ RunSound(p, NewJob(phase, f))
           /\ ~HasStored(NewJob(phase, f))
  BY SMT DEF NewJob, Jobs, RunSound, HasStored, Storages, Stages, ReachesCommand

\* So is the job of a process that has nothing to do.
LEMMA IdleSound == ASSUME NEW p \in Processes
                   PROVE  Idle \in Jobs /\ RunSound(p, Idle) /\ ~HasStored(Idle) /\ Idle.phase = "idle"
<1> DEFINE f == CHOOSE x \in Files : TRUE
<1>1. f \in Files
  BY FilesAssumption
<1>2. Idle = NewJob("idle", f)
  BY DEF Idle
<1>3. NewJob("idle", f).phase = "idle"
  BY DEF NewJob
<1> QED BY <1>1, <1>2, <1>3, NewJobSound

\* Where a run fails before the store of the command.
EarlyStages == Stages \ {"none", "command_database"}

\* A run that fails there is typed and claims nothing.
LEMMA FailsSound ==
    ASSUME NEW p \in Processes, NEW j \in Jobs, NEW stage \in EarlyStages
    PROVE  /\ Fails(j, stage) \in Jobs
           /\ RunSound(p, Fails(j, stage))
           /\ ~HasStored(Fails(j, stage))
           /\ Fails(j, stage).phase = "done"
           /\ Fails(j, stage).file = j.file
<1>1. Fails(j, stage) =
         [phase |-> "done", file |-> j.file, tool |-> j.tool, policy |-> j.policy,
          storage |-> j.storage, command |-> j.command, source |-> j.source,
          failed_stage |-> stage]
  BY JobsShaped, SetFailed DEF Fails
<1> QED BY <1>1 DEF Jobs, RunSound, HasStored, ReachesCommand, EarlyStages, Stages

\* A step that changes the job of one process, and of the overlays only its own: what is
\* left to show is the new job, the databases, and what the other runs have stored.
LEMMA JobStep ==
    ASSUME IInv, NEW p \in Processes, NEW j \in Jobs, Becomes(p, j),
           disk' \in [Files -> Versions], compdb' = compdb,
           StoresOnlyUsable', CommandsFollowSymbols',
           used' \in [Files -> SUBSET AnyCommand], \A f \in Files : used[f] \subseteq used'[f],
           \A q \in Processes \ {p} : RunStored(q, job[q], symbols'[job[q].file]),
           RunSound(p, j), RunStored(p, j, symbols'[j.file]), CommandUsed(j, used'[j.file]),
           overlay' \in [Editors -> [Files -> Versions \cup {None}]],
           \A e \in Editors \ {p} : overlay'[e] = overlay[e],
           p \in Editors => OverlayIsAnswer(j, overlay'[p][j.file])
    PROVE  IInv'
<1>1. job' = [job EXCEPT ![p] = j] /\ job \in [Processes -> Jobs]
  BY DEF IInv, TypeOK, Becomes
<1>2. TypeOK'
  <2>1. job' \in [Processes -> Jobs]
    BY <1>1
  <2>2. compdb' \in [Files -> Commands] \cup {None}
    BY DEF IInv, TypeOK
  <2>3. symbols' \in [Files -> Sources \cup {None}]
    BY DEF StoresOnlyUsable, Usable
  <2>4. commands' \in [Files -> AnyCommand \cup {None}]
    BY DEF StoresOnlyUsable, AnyCommand
  <2> QED BY <2>1, <2>2, <2>3, <2>4 DEF TypeOK
<1>3. ASSUME NEW q \in Processes
      PROVE  (RunSound(q, job[q]) /\ RunStored(q, job[q], symbols[job[q].file])
                /\ CommandUsed(job[q], used[job[q].file]))'
  <2>1. CASE q = p
    <3>1. job'[q] = j
      BY <1>1, <2>1
    <3> QED BY <3>1, <2>1, Zenon DEF RunSound, RunStored, CommandUsed, HasStored
  <2>2. CASE q # p
    <3>1. job'[q] = job[q]
      BY <1>1, <2>2
    <3>2. RunSound(q, job[q]) /\ CommandUsed(job[q], used[job[q].file]) /\ job[q].file \in Files
      BY <1>1 DEF IInv, Jobs
    <3>3. RunStored(q, job[q], symbols'[job[q].file])
      BY <2>2
    <3>4. CommandUsed(job[q], used'[job[q].file])
      BY <3>2 DEF CommandUsed
    <3>5. /\ RunSound(q, job'[q]) /\ RunStored(q, job'[q], symbols'[job'[q].file])
          /\ CommandUsed(job'[q], used'[job'[q].file])
      BY <3>1, <3>2, <3>3, <3>4, Zenon
    <3> QED BY <3>5, Zenon DEF RunSound, RunStored, CommandUsed, HasStored
  <2> QED BY <2>1, <2>2
<1>4. ASSUME NEW e \in Editors
      PROVE  OverlayIsAnswer(job[e], overlay[e][job[e].file])'
  <2>1. e \in Processes
    BY DEF Processes, Servers
  <2>2. CASE e = p
    <3>1. job'[e] = j
      BY <1>1, <2>2
    <3> QED BY <3>1, <2>2, Zenon DEF OverlayIsAnswer, ReachesCommand
  <2>3. CASE e # p
    <3>1. job'[e] = job[e] /\ overlay'[e] = overlay[e]
      BY <1>1, <2>1, <2>3
    <3> QED BY <3>1, Zenon DEF IInv, OverlayIsAnswer, NewOverlay, ReachesCommand
  <2> QED BY <2>2, <2>3
<1> QED BY <1>2, <1>3, <1>4, Zenon DEF IInv, StoresOnlyUsable, CommandsFollowSymbols

\* When neither the databases nor the overlays change, the new job is all there is.
LEMMA LocalStep ==
    ASSUME IInv, NEW p \in Processes, NEW j \in Jobs, Becomes(p, j),
           UNCHANGED <<compdb, symbols, commands, used, overlay>>,
           disk' \in [Files -> Versions],
           RunSound(p, j), RunStored(p, j, symbols[j.file]), CommandUsed(j, used[j.file]),
           j.phase # "answered"
    PROVE  IInv'
<1>1. StoresOnlyUsable' /\ CommandsFollowSymbols'
  BY DEF IInv, StoresOnlyUsable, CommandsFollowSymbols
<1>2. used' \in [Files -> SUBSET AnyCommand]
      /\ overlay' \in [Editors -> [Files -> Versions \cup {None}]]
  BY DEF IInv, TypeOK
<1>3. \A q \in Processes : RunStored(q, job[q], symbols'[job[q].file])
  BY DEF IInv
<1>4. OverlayIsAnswer(j, overlay'[p][j.file])
  BY DEF OverlayIsAnswer, ReachesCommand
<1> QED BY <1>1, <1>2, <1>3, <1>4, JobStep

----------------------------------------------------------------------------
(* The steps.                                                              *)

\* The invariant holds of fresh databases and idle processes.
LEMMA InitInv == Init => IInv
<1> SUFFICES ASSUME Init PROVE IInv
  OBVIOUS
<1>1. TypeOK
  BY IdleSound DEF Init, TypeOK
<1>2. StoresOnlyUsable /\ CommandsFollowSymbols
  BY DEF Init, StoresOnlyUsable, CommandsFollowSymbols
<1>3. ASSUME NEW p \in Processes
      PROVE  /\ RunSound(p, job[p])
             /\ RunStored(p, job[p], symbols[job[p].file])
             /\ CommandUsed(job[p], used[job[p].file])
  <2>1. job[p] = Idle
    BY DEF Init
  <2> QED BY <2>1, IdleSound, Zenon DEF RunStored, CommandUsed, HasStored, ReachesCommand
<1>4. ASSUME NEW e \in Editors
      PROVE  OverlayIsAnswer(job[e], overlay[e][job[e].file])
  <2>1. job[e] = Idle
    BY DEF Init, Processes, Servers
  <2>2. Idle.phase = "idle"
    BY IdleSound DEF Processes, Servers
  <2> QED BY <2>1, <2>2 DEF OverlayIsAnswer, ReachesCommand
<1> QED BY <1>1, <1>2, <1>3, <1>4, Zenon DEF IInv

\* A job that claims nothing makes its step preserve the invariant.
LEMMA QuietStep ==
    ASSUME IInv, NEW p \in Processes, NEW j \in Jobs, Becomes(p, j),
           UNCHANGED <<compdb, symbols, commands, used, overlay>>,
           disk' \in [Files -> Versions],
           RunSound(p, j), ~HasStored(j), j.phase # "answered"
    PROVE  IInv'
<1>1. RunStored(p, j, symbols[j.file]) /\ CommandUsed(j, used[j.file])
  BY DEF RunStored, CommandUsed, HasStored, ReachesCommand
<1> QED BY <1>1, LocalStep

\* What the invariant says of one process.
LEMMA RunOf ==
    ASSUME IInv, NEW p \in Processes
    PROVE  /\ job[p] \in Jobs
           /\ RunSound(p, job[p])
           /\ RunStored(p, job[p], symbols[job[p].file])
           /\ CommandUsed(job[p], used[job[p].file])
           /\ disk \in [Files -> Versions]
           /\ job[p].file \in Files
  BY DEF IInv, TypeOK, Jobs

\* The user's edits change nothing that is stored or running.
LEMMA EditInv == ASSUME IInv, NEW f \in Files, Edit(f) PROVE IInv'
<1>1. TypeOK'
  BY DEF IInv, TypeOK, Edit, Databases
<1>2. UNCHANGED <<symbols, commands, used, overlay, job>>
  BY DEF Edit, Databases
<1> QED BY <1>1, <1>2 DEF IInv, StoresOnlyUsable, CommandsFollowSymbols, RunSound, RunStored,
                          HasStored, CommandUsed, OverlayIsAnswer, NewOverlay, ReachesCommand

\* A command line starts with a job that has stored nothing.
LEMMA StartToolInv == ASSUME IInv, NEW p \in Processes, StartTool(p) PROVE IInv'
<1>1. PICK f \in Files, s \in Storages, t \in {"index", "compiler", "cc"},
           policy \in {"warn", "fail"}, c \in Commands \cup {None} :
         Becomes(p, [NewJob("frontend", f) EXCEPT !.tool = t, !.policy = policy,
                                                  !.storage = s, !.command = c])
  BY DEF StartTool
<1> DEFINE j == [phase |-> "frontend", file |-> f, tool |-> t, policy |-> policy,
                 storage |-> s, command |-> c, source |-> None, failed_stage |-> "none"]
<1>2. Shaped(NewJob("frontend", f))
  BY DEF Shaped, NewJob
<1>3. [NewJob("frontend", f) EXCEPT !.tool = t, !.policy = policy, !.storage = s,
                                    !.command = c] = j
  <2>1. NewJob("frontend", f).phase = "frontend" /\ NewJob("frontend", f).file = f
        /\ NewJob("frontend", f).source = None /\ NewJob("frontend", f).failed_stage = "none"
    BY DEF NewJob
  <2>2. [NewJob("frontend", f) EXCEPT !.tool = t, !.policy = policy, !.storage = s, !.command = c]
          = WithRequest(NewJob("frontend", f), t, policy, s, c)
    BY Zenon DEF WithRequest
  <2>3. WithRequest(NewJob("frontend", f), t, policy, s, c) = j
    BY <1>2, <2>1, SetRequest
  <2> QED BY <2>2, <2>3, Zenon
<1>4. p \notin Editors
  BY DEF StartTool
<1>5. j \in Jobs /\ RunSound(p, j) /\ ~HasStored(j) /\ j.phase # "answered"
  BY <1>4 DEF Jobs, RunSound, HasStored, AnyCommand, Stages, ReachesCommand
<1>6. UNCHANGED <<compdb, symbols, commands, used, overlay>> /\ disk' \in [Files -> Versions]
  BY RunOf DEF StartTool, Environment, Databases
<1> HIDE DEF j
<1> QED BY <1>1, <1>3, <1>5, <1>6, QuietStep

\* So does a save or a reindex.
LEMMA StartUpdateInv == ASSUME IInv, NEW p \in Processes, StartUpdate(p) PROVE IInv'
<1>1. PICK f \in Files : Becomes(p, NewJob("resolve", f))
  BY DEF StartUpdate
<1>2. /\ NewJob("resolve", f) \in Jobs
      /\ RunSound(p, NewJob("resolve", f))
      /\ ~HasStored(NewJob("resolve", f))
      /\ NewJob("resolve", f).phase # "answered"
  BY NewJobSound DEF NewJob
<1>3. UNCHANGED <<compdb, symbols, commands, used, overlay>> /\ disk' \in [Files -> Versions]
  BY RunOf DEF StartUpdate, Environment, Databases
<1> QED BY <1>1, <1>2, <1>3, QuietStep

\* A run ends at some stage without having stored anything in that step.
LEMMA FailInv ==
    ASSUME IInv, NEW p \in Processes, NEW stage \in EarlyStages,
           Becomes(p, Fails(job[p], stage)),
           UNCHANGED <<disk, compdb, symbols, commands, used, overlay>>
    PROVE  IInv'
<1>1. /\ Fails(job[p], stage) \in Jobs
      /\ RunSound(p, Fails(job[p], stage))
      /\ ~HasStored(Fails(job[p], stage))
      /\ Fails(job[p], stage).phase # "answered"
  BY RunOf, FailsSound
<1>2. disk' \in [Files -> Versions]
  BY RunOf
<1> HIDE DEF Fails
<1> QED BY <1>1, <1>2, QuietStep

\* The resolver gives a server a saved command, the compilation database, or, without
\* anything being stored, the made-up command.
LEMMA ResolveInv == ASSUME IInv, NEW p \in Processes, Resolve(p) PROVE IInv'
<1> DEFINE j == job[p]
<1>1. j \in Jobs /\ j.file \in Files /\ RunSound(p, j) /\ Shaped(j) /\ j.phase = "resolve"
  BY RunOf, JobsShaped DEF Resolve
<1>2. UNCHANGED <<disk, compdb, symbols, commands, used, overlay>> /\ disk' \in [Files -> Versions]
  BY RunOf DEF Resolve, Environment, Databases
<1>3. CASE Becomes(p, Fails(j, "command"))
  BY <1>2, <1>3, FailInv DEF EarlyStages, Stages
<1>4. CASE commands[j.file] # None /\ Becomes(p, ResolveSaved(j))
  <2>1. commands[j.file] \in Commands
    BY <1>1, <1>4 DEF IInv, StoresOnlyUsable
  <2>2. ResolveSaved(j) =
           [phase |-> "frontend", file |-> j.file, tool |-> j.tool, policy |-> j.policy,
            storage |-> "symbols", command |-> commands[j.file], source |-> j.source,
            failed_stage |-> j.failed_stage]
    <3>1. ResolveSaved(j) = WithCommand(j, "frontend", "symbols", commands[j.file])
      BY Zenon DEF ResolveSaved, WithCommand
    <3> QED BY <1>1, <3>1, SetCommand
  <2>3. /\ ResolveSaved(j) \in Jobs /\ RunSound(p, ResolveSaved(j))
        /\ ~HasStored(ResolveSaved(j)) /\ ResolveSaved(j).phase # "answered"
    BY <1>1, <2>1, <2>2 DEF Jobs, RunSound, HasStored, ReachesCommand, AnyCommand, Storages
  <2> QED BY <1>2, <1>4, <2>3, QuietStep
<1>5. CASE Becomes(p, ResolveCompdb(j))
  <2>1. ResolveCompdb(j) =
           [phase |-> "frontend", file |-> j.file, tool |-> j.tool, policy |-> j.policy,
            storage |-> "symbols_and_command", command |-> j.command, source |-> j.source,
            failed_stage |-> j.failed_stage]
    BY <1>1, SetStorage DEF ResolveCompdb
  <2>2. j.command = None
    BY <1>1 DEF RunSound, ReachesCommand
  <2>3. /\ ResolveCompdb(j) \in Jobs /\ RunSound(p, ResolveCompdb(j))
        /\ ~HasStored(ResolveCompdb(j)) /\ ResolveCompdb(j).phase # "answered"
    BY <1>1, <2>1, <2>2 DEF Jobs, RunSound, HasStored, ReachesCommand, AnyCommand, Storages
  <2> QED BY <1>2, <1>5, <2>3, QuietStep
<1>6. CASE Becomes(p, ResolveDocument(j))
  <2>1. ResolveDocument(j) =
           [phase |-> "frontend", file |-> j.file, tool |-> j.tool, policy |-> j.policy,
            storage |-> "output", command |-> Document, source |-> j.source,
            failed_stage |-> j.failed_stage]
    <3>1. ResolveDocument(j) = WithCommand(j, "frontend", "output", Document)
      BY Zenon DEF ResolveDocument, WithCommand
    <3> QED BY <1>1, <3>1, SetCommand
  <2>2. /\ ResolveDocument(j) \in Jobs /\ RunSound(p, ResolveDocument(j))
        /\ ~HasStored(ResolveDocument(j)) /\ ResolveDocument(j).phase # "answered"
    BY <1>1, <2>1 DEF Jobs, RunSound, HasStored, AnyCommand, Storages, ReachesCommand
  <2> QED BY <1>2, <1>6, <2>2, QuietStep
<1> QED BY <1>3, <1>4, <1>5, <1>6 DEF Resolve

\* The frontend runs with a command of the build whenever its records will be stored,
\* and a run that is not to store ends here.
LEMMA FrontendInv == ASSUME IInv, NEW p \in Processes, Frontend(p) PROVE IInv'
<1> DEFINE j == job[p]
           c == CommandOf(job[p])
<1>1. /\ j \in Jobs /\ j.file \in Files /\ RunSound(p, j) /\ Shaped(j) /\ j.phase = "frontend"
      /\ disk \in [Files -> Versions]
  BY RunOf, JobsShaped DEF Frontend
<1>2. UNCHANGED <<disk, compdb, symbols, commands, used, overlay>>
  BY DEF Frontend, Environment, Databases
<1>3. PICK status \in {"clean", "partial", "failed"} :
         (c = None => status = "failed") /\ Becomes(p, AfterFrontend(p, status))
  BY DEF Frontend
<1>4. CASE status = "failed"
  <2>1. Becomes(p, Fails(j, "frontend"))
    BY <1>3, <1>4 DEF AfterFrontend
  <2> QED BY <2>1, <1>2, FailInv DEF EarlyStages, Stages
<1>5. CASE status # "failed"
  <2> DEFINE phase == IF j.storage = "output" THEN "done" ELSE "symbols"
             new == [phase |-> phase, file |-> j.file, tool |-> j.tool, policy |-> j.policy,
                     storage |-> j.storage, command |-> j.command,
                     source |-> Parsed(p, status), failed_stage |-> j.failed_stage]
  <2>1. c \in AnyCommand /\ (j.storage # "output" => c \in Commands)
    <3>1. compdb \in [Files -> Commands] \cup {None}
      BY DEF IInv, TypeOK
    <3>2. CASE j.command # None
      BY <1>1, <3>2 DEF CommandOf, RunSound, Jobs, AnyCommand, ReachesCommand
    <3>3. CASE j.command = None
      BY <1>1, <1>3, <1>5, <3>1, <3>3 DEF CommandOf, AnyCommand
    <3> QED BY <3>2, <3>3
  <2>2. /\ Parsed(p, status) \in Sources /\ Parsed(p, status).by = p
        /\ j.storage # "output" => Parsed(p, status) \in Usable
    BY <1>1, <1>5, <2>1 DEF Parsed, Sources, Usable
  <2>3. Becomes(p, new)
    <3>1. AfterFrontend(p, status) = [j EXCEPT !.source = Parsed(p, status), !.phase = phase]
      BY <1>5, Zenon DEF AfterFrontend
    <3>2. [j EXCEPT !.source = Parsed(p, status), !.phase = phase] = new
      BY <1>1, SetSource, Zenon
    <3> QED BY <1>3, <3>1, <3>2, Zenon
  <2>4. new \in Jobs
    BY <1>1, <2>2 DEF Jobs
  <2>5. RunSound(p, new) /\ ~HasStored(new) /\ new.phase # "answered"
    <3> HIDE DEF c
    <3> QED BY <1>1, <2>2 DEF RunSound, HasStored, ReachesCommand
  <2> HIDE DEF new
  <2> QED BY <1>1, <1>2, <2>3, <2>4, <2>5, QuietStep
<1> QED BY <1>4, <1>5

\* How a run goes on that has not failed: only its phase changes.
LEMMA PhaseSound ==
    ASSUME NEW p \in Processes, NEW j \in Jobs, RunSound(p, j),
           j.phase \in {"symbols", "command"},
           NEW phase \in {"command", "done"}
    PROVE  LET k == [j EXCEPT !.phase = phase] IN
           /\ k \in Jobs
           /\ RunSound(p, k)
           /\ k.phase = phase /\ k.file = j.file /\ k.source = j.source
<1>1. [j EXCEPT !.phase = phase] =
         [phase |-> phase, file |-> j.file, tool |-> j.tool, policy |-> j.policy,
          storage |-> j.storage, command |-> j.command, source |-> j.source,
          failed_stage |-> j.failed_stage]
  BY JobsShaped DEF Shaped
<1>2. j.source \in Usable /\ j.source \in Sources
  BY DEF RunSound, Usable, ReachesCommand
<1> QED BY <1>1, <1>2 DEF Jobs, RunSound, ReachesCommand

\* Storing the records gives the file those of this run, and overwrites what another
\* run had stored for it.
LEMMA StoreSymbolsInv == ASSUME IInv, NEW p \in Processes, StoreSymbols(p) PROVE IInv'
<1> DEFINE j == job[p]
           f == job[p].file
           k == [j EXCEPT !.phase = IF j.storage = "symbols" THEN "done" ELSE "command"]
<1>1. j \in Jobs /\ f \in Files /\ RunSound(p, j) /\ j.phase = "symbols"
  BY RunOf DEF StoreSymbols
<1>2. UNCHANGED <<disk, compdb, commands, overlay>> /\ disk' \in [Files -> Versions]
  BY RunOf DEF StoreSymbols, Environment
<1>3. CASE Becomes(p, Fails(j, "symbol_database")) /\ UNCHANGED <<symbols, used>>
  BY <1>2, <1>3, FailInv DEF EarlyStages, Stages
<1>4. CASE /\ symbols' = [symbols EXCEPT ![f] = j.source]
           /\ used' = [used EXCEPT ![f] = @ \cup {j.source.command}]
           /\ Becomes(p, k)
  <2>1. k \in Jobs /\ RunSound(p, k) /\ k.phase \in {"command", "done"}
        /\ k.file = f /\ k.source = j.source
    <3>1. k = [j EXCEPT !.phase = "done"] \/ k = [j EXCEPT !.phase = "command"]
      OBVIOUS
    <3>2. /\ [j EXCEPT !.phase = "done"] \in Jobs
          /\ RunSound(p, [j EXCEPT !.phase = "done"])
          /\ [j EXCEPT !.phase = "done"].phase = "done"
          /\ [j EXCEPT !.phase = "done"].file = f
          /\ [j EXCEPT !.phase = "done"].source = j.source
      BY <1>1, PhaseSound
    <3>3. /\ [j EXCEPT !.phase = "command"] \in Jobs
          /\ RunSound(p, [j EXCEPT !.phase = "command"])
          /\ [j EXCEPT !.phase = "command"].phase = "command"
          /\ [j EXCEPT !.phase = "command"].file = f
          /\ [j EXCEPT !.phase = "command"].source = j.source
      BY <1>1, PhaseSound
    <3> HIDE DEF k
    <3> QED BY <3>1, <3>2, <3>3
  <2>2. j.source \in Usable /\ j.source \in Sources /\ j.source.by = p
        /\ j.source.command \in Commands
    BY <1>1 DEF RunSound, Usable, ReachesCommand
  <2>3. /\ symbols \in [Files -> Usable \cup {None}] /\ used \in [Files -> SUBSET AnyCommand]
        /\ overlay \in [Editors -> [Files -> Versions \cup {None}]]
    BY DEF IInv, StoresOnlyUsable, TypeOK
  <2>4. StoresOnlyUsable'
    BY <1>1, <1>2, <1>4, <2>2, <2>3 DEF IInv, StoresOnlyUsable
  <2>5. used' \in [Files -> SUBSET AnyCommand] /\ \A g \in Files : used[g] \subseteq used'[g]
    BY <1>4, <2>2, <2>3 DEF AnyCommand
  <2>6. CommandsFollowSymbols'
    BY <1>2, <2>5 DEF IInv, CommandsFollowSymbols
  <2>7. ASSUME NEW q \in Processes \ {p} PROVE RunStored(q, job[q], symbols'[job[q].file])
    <3>1. RunStored(q, job[q], symbols[job[q].file]) /\ job[q].file \in Files
      BY RunOf
    <3>2. symbols'[job[q].file] = j.source \/ symbols'[job[q].file] = symbols[job[q].file]
      BY <1>4, <2>3, <3>1
    <3> QED BY <2>2, <3>1, <3>2 DEF RunStored
  <2>8. symbols'[f] = j.source /\ j.source.command \in used'[f]
    BY <1>1, <1>4, <2>3
  <2>9. RunStored(p, k, symbols'[k.file]) /\ CommandUsed(k, used'[k.file])
    BY <2>1, <2>2, <2>8 DEF RunStored, CommandUsed
  <2>10. OverlayIsAnswer(k, overlay'[p][k.file])
    BY <2>1 DEF OverlayIsAnswer, ReachesCommand
  <2> HIDE DEF k, j
  <2> QED BY <1>2, <1>4, <2>1, <2>3, <2>4, <2>5, <2>6, <2>7, <2>9, <2>10, JobStep
<1> QED BY <1>3, <1>4 DEF StoreSymbols

\* The command that is saved is that of the stored records.
LEMMA StoreCommandInv == ASSUME IInv, NEW p \in Processes, StoreCommand(p) PROVE IInv'
<1> DEFINE j == job[p]
           f == job[p].file
           k == [j EXCEPT !.phase = "done"]
<1>1. /\ j \in Jobs /\ f \in Files /\ RunSound(p, j) /\ j.phase = "command"
      /\ RunStored(p, j, symbols[f]) /\ CommandUsed(j, used[f])
  BY RunOf DEF StoreCommand
<1>2. /\ UNCHANGED <<disk, compdb, symbols, used, overlay>>
      /\ disk' \in [Files -> Versions]
  BY RunOf DEF StoreCommand, Environment
<1>3. CASE Becomes(p, Fails(j, "command_database")) /\ UNCHANGED commands
  <2> DEFINE l == Fails(j, "command_database")
  <2>1. l = [phase |-> "done", file |-> j.file, tool |-> j.tool, policy |-> j.policy,
             storage |-> j.storage, command |-> j.command, source |-> j.source,
             failed_stage |-> "command_database"]
    BY <1>1, JobsShaped, SetFailed DEF Fails
  <2>2. j.source \in Sources /\ j.storage # "output" /\ j.failed_stage = "none"
    BY <1>1 DEF RunSound, Usable, ReachesCommand
  <2>3. l \in Jobs /\ l.phase = "done" /\ l.file = f
    BY <1>1, <2>1, <2>2 DEF Jobs, Stages
  <2>4. RunSound(p, l)
    BY <1>1, <2>1, <2>2 DEF RunSound, ReachesCommand
  <2>5. RunStored(p, l, symbols[l.file]) /\ CommandUsed(l, used[l.file])
    BY <1>1, <2>1 DEF RunStored, HasStored, CommandUsed, ReachesCommand
  <2> HIDE DEF j, l
  <2> QED BY <1>2, <1>3, <2>3, <2>4, <2>5, LocalStep DEF l
<1>4. CASE /\ commands' = [commands EXCEPT ![f] = j.source.command]
           /\ Becomes(p, k)
  <2>1. k \in Jobs /\ RunSound(p, k) /\ k.phase = "done" /\ k.file = f /\ k.source = j.source
    BY <1>1, PhaseSound
  <2>2. j.source.command \in Commands /\ j.source.command \in used[f]
    BY <1>1 DEF RunSound, Usable, CommandUsed, ReachesCommand
  <2>3. /\ commands \in [Files -> Commands \cup {None}] /\ used \in [Files -> SUBSET AnyCommand]
        /\ overlay \in [Editors -> [Files -> Versions \cup {None}]]
    BY DEF IInv, StoresOnlyUsable, TypeOK
  <2>4. StoresOnlyUsable'
    BY <1>2, <1>4, <2>2, <2>3 DEF IInv, StoresOnlyUsable
  <2>5. CommandsFollowSymbols'
    BY <1>2, <1>4, <2>2, <2>3 DEF IInv, CommandsFollowSymbols
  <2>6. \A q \in Processes : RunStored(q, job[q], symbols'[job[q].file])
    BY <1>2 DEF IInv
  <2>7. RunStored(p, k, symbols'[k.file]) /\ CommandUsed(k, used'[k.file])
    BY <1>1, <1>2, <2>1 DEF RunStored, HasStored, CommandUsed, ReachesCommand
  <2>8. OverlayIsAnswer(k, overlay'[p][k.file])
    BY <2>1 DEF OverlayIsAnswer, ReachesCommand
  <2> HIDE DEF k, j
  <2> QED BY <1>2, <1>4, <2>1, <2>3, <2>4, <2>5, <2>6, <2>7, <2>8, JobStep
<1> QED BY <1>3, <1>4 DEF StoreCommand

\* A server gives its answer; that of an editor decides what the editor shows of the file.
LEMMA AnswerInv == ASSUME IInv, NEW p \in Processes, Answer(p) PROVE IInv'
<1> DEFINE j == job[p]
           k == [j EXCEPT !.phase = "answered"]
<1>1. /\ j \in Jobs /\ j.file \in Files /\ RunSound(p, j) /\ j.phase = "done"
      /\ RunStored(p, j, symbols[j.file])
  BY RunOf DEF Answer
<1>2. /\ UNCHANGED <<disk, compdb, symbols, commands, used>>
      /\ disk' \in [Files -> Versions]
  BY RunOf DEF Answer, Environment, Databases
<1>3. CASE p \in Editors
  <2>1. Becomes(p, k) /\ overlay' = [overlay EXCEPT ![p][j.file] = NewOverlay(j)]
    BY <1>3 DEF Answer
  <2>2. k = [phase |-> "answered", file |-> j.file, tool |-> j.tool, policy |-> j.policy,
             storage |-> j.storage, command |-> j.command, source |-> j.source,
             failed_stage |-> j.failed_stage]
    BY <1>1, JobsShaped DEF Shaped
  <2>3. k \in Jobs
    BY <1>1, <2>2 DEF Jobs
  <2>4. RunSound(p, k)
    BY <1>1, <2>2 DEF RunSound, ReachesCommand
  <2>5. RunStored(p, k, symbols'[k.file]) /\ CommandUsed(k, used'[k.file])
    BY <1>1, <1>2, <2>2 DEF RunStored, HasStored, CommandUsed, ReachesCommand
  <2>6. overlay \in [Editors -> [Files -> Versions \cup {None}]]
        /\ used' \in [Files -> SUBSET AnyCommand]
    BY <1>2 DEF IInv, TypeOK
  <2>7. NewOverlay(j) \in Versions \cup {None}
    BY <1>1 DEF NewOverlay, RunSound, Sources, ReachesCommand
  <2>8. /\ overlay' \in [Editors -> [Files -> Versions \cup {None}]]
        /\ \A e \in Editors \ {p} : overlay'[e] = overlay[e]
        /\ overlay'[p][j.file] = NewOverlay(j)
    <3> HIDE DEF j, NewOverlay
    <3> QED BY <1>1, <1>3, <2>1, <2>6, <2>7
  <2>9. OverlayIsAnswer(k, overlay'[p][k.file])
    BY <2>2, <2>8 DEF OverlayIsAnswer, NewOverlay, ReachesCommand
  <2>10. StoresOnlyUsable' /\ CommandsFollowSymbols'
    BY <1>2 DEF IInv, StoresOnlyUsable, CommandsFollowSymbols
  <2>11. \A q \in Processes : RunStored(q, job[q], symbols'[job[q].file])
    BY <1>2 DEF IInv
  <2> HIDE DEF j, k
  <2> QED BY <1>2, <2>1, <2>3, <2>4, <2>5, <2>6, <2>8, <2>9, <2>10, <2>11, JobStep
<1>4. CASE p \notin Editors
  <2>1. Becomes(p, Idle) /\ UNCHANGED overlay
    BY <1>4 DEF Answer
  <2>2. Idle \in Jobs /\ RunSound(p, Idle) /\ ~HasStored(Idle) /\ Idle.phase # "answered"
    BY IdleSound
  <2> QED BY <1>2, <2>1, <2>2, QuietStep
<1> QED BY <1>3, <1>4

\* A command line exits.
LEMMA ExitInv == ASSUME IInv, NEW p \in Processes, Exit(p) PROVE IInv'
<1> DEFINE f == job[p].file
           phase == EndsIn(job[p])
<1>1. f \in Files /\ phase \in {"exited", "compiled"}
  BY RunOf DEF EndsIn
<1>2. UNCHANGED <<compdb, symbols, commands, used, overlay>> /\ disk' \in [Files -> Versions]
  BY RunOf DEF Exit, Environment, Databases
<1>3. Becomes(p, NewJob(phase, f))
  BY DEF Exit
<1> HIDE DEF f, phase
<1>4. /\ NewJob(phase, f) \in Jobs
      /\ RunSound(p, NewJob(phase, f))
      /\ ~HasStored(NewJob(phase, f))
  BY <1>1, NewJobSound
<1>5. NewJob(phase, f).phase # "answered"
  BY <1>1 DEF NewJob
<1> QED BY <1>2, <1>3, <1>4, <1>5, QuietStep

\* A process dies; what it has stored is no longer anyone's claim.
LEMMA DieInv == ASSUME IInv, NEW p \in Processes, Die(p) PROVE IInv'
<1> DEFINE k == IF p \in Tools THEN NewJob("killed", job[p].file) ELSE Idle
<1>1. /\ UNCHANGED <<disk, compdb, symbols, commands, used>>
      /\ disk' \in [Files -> Versions] /\ job[p].file \in Files
  BY RunOf DEF Die, Environment, Databases
<1>2. /\ Becomes(p, k)
      /\ overlay' = IF p \in Editors THEN [overlay EXCEPT ![p] = [f \in Files |-> None]]
                    ELSE overlay
  BY DEF Die
<1>3. k \in Jobs /\ RunSound(p, k) /\ ~HasStored(k) /\ k.phase \in {"killed", "idle"}
  <2>1. NewJob("killed", job[p].file).phase = "killed"
    BY DEF NewJob
  <2> QED BY <1>1, <2>1, NewJobSound, IdleSound
<1>4. /\ overlay' \in [Editors -> [Files -> Versions \cup {None}]]
      /\ \A e \in Editors \ {p} : overlay'[e] = overlay[e]
      /\ used' \in [Files -> SUBSET AnyCommand]
  BY <1>1, <1>2 DEF IInv, TypeOK
<1>5. RunStored(p, k, symbols'[k.file]) /\ CommandUsed(k, used'[k.file])
      /\ OverlayIsAnswer(k, overlay'[p][k.file])
  BY <1>3 DEF RunStored, CommandUsed, OverlayIsAnswer, ReachesCommand
<1>6. StoresOnlyUsable' /\ CommandsFollowSymbols'
  BY <1>1 DEF IInv, StoresOnlyUsable, CommandsFollowSymbols
<1>7. \A q \in Processes : RunStored(q, job[q], symbols'[job[q].file])
  BY <1>1 DEF IInv
<1> HIDE DEF k
<1> QED BY <1>1, <1>2, <1>3, <1>4, <1>5, <1>6, <1>7, JobStep

\* Every step preserves the invariant.
LEMMA NextInv == IInv /\ [Next]_vars => IInv'
<1> SUFFICES ASSUME IInv, [Next]_vars PROVE IInv'
  OBVIOUS
<1>1. CASE UNCHANGED vars
  BY <1>1 DEF vars, IInv, TypeOK, StoresOnlyUsable, CommandsFollowSymbols, RunSound, RunStored,
              HasStored, CommandUsed, OverlayIsAnswer, NewOverlay, ReachesCommand
<1>2. ASSUME NEW f \in Files, Edit(f) PROVE IInv'
  BY <1>2, EditInv
<1>3. ASSUME NEW p \in Processes, StartTool(p) \/ StartUpdate(p) \/ Die(p) PROVE IInv'
  BY <1>3, StartToolInv, StartUpdateInv, DieInv
<1>4. ASSUME NEW p \in Processes, Work(p) PROVE IInv'
  BY <1>4, ResolveInv, FrontendInv, StoreSymbolsInv, StoreCommandInv, AnswerInv, ExitInv
     DEF Work
<1> QED BY <1>1, <1>2, <1>3, <1>4 DEF Next

----------------------------------------------------------------------------
(* The runs of agents, over the invariant above.                           *)

\* The run of an agent works with a command whose records were stored (u), and never
\* comes to save a command.
AgentSound(j, u) ==
    /\ j.phase \in {"idle", "resolve", "frontend", "symbols", "done"}
    /\ j.phase \in {"frontend", "symbols"} => j.storage = "symbols"
    /\ j.phase = "frontend" => j.command # None /\ j.command \in u
    /\ j.phase = "symbols" => j.source.command \in u

AgentInv == \A a \in Agents : AgentSound(job[a], used[job[a].file])

\* Nothing is ever taken from the commands whose records were stored.
LEMMA UsedGrows ==
    ASSUME IInv, [Next]_vars
    PROVE  \A f \in Files : used[f] \subseteq used'[f]
<1>1. used \in [Files -> SUBSET AnyCommand]
  BY DEF IInv, TypeOK
<1>2. ASSUME NEW p \in Processes, StoreSymbols(p)
      PROVE  used' = used \/ used' = [used EXCEPT ![job[p].file] = @ \cup {job[p].source.command}]
  BY <1>2 DEF StoreSymbols
<1>3. used' = used \/ \E p \in Processes : StoreSymbols(p)
  BY DEF vars, Next, Work, Edit, StartTool, StartUpdate, Resolve, Frontend, StoreCommand, Answer,
         Exit, Die, Databases
<1> QED BY <1>1, <1>2, <1>3

\* A job changes by the steps of its own process, and those of an agent are few.
LEMMA AgentSteps ==
    ASSUME IInv, [Next]_vars, NEW a \in Agents, job'[a] # job[a]
    PROVE  StartUpdate(a) \/ Resolve(a) \/ Frontend(a) \/ StoreSymbols(a) \/ StoreCommand(a)
              \/ Answer(a) \/ Die(a)
<1>1. job \in [Processes -> Jobs] /\ a \in Processes /\ a \notin Tools
  BY DEF IInv, TypeOK, Processes, Servers
<1>2. ASSUME NEW p \in Processes, NEW j, Becomes(p, j)
      PROVE  p = a
  BY <1>1, <1>2 DEF Becomes
<1>3. ASSUME NEW p \in Processes, StartTool(p) \/ StartUpdate(p) \/ Work(p) \/ Die(p)
      PROVE  p = a
  <2>1. CASE StartTool(p) \/ StartUpdate(p) \/ Die(p)
    BY <2>1, <1>2 DEF StartTool, StartUpdate, Die
  <2>2. CASE Work(p)
    BY <2>2, <1>2 DEF Work, Resolve, Frontend, StoreSymbols, StoreCommand, Answer, Exit
  <2> QED BY <1>3, <2>1, <2>2
<1>4. ~UNCHANGED vars /\ \A f \in Files : ~Edit(f)
  BY DEF vars, Edit
<1>5. \E p \in Processes : StartTool(p) \/ StartUpdate(p) \/ Work(p) \/ Die(p)
  BY <1>4 DEF Next
<1>6. StartTool(a) \/ StartUpdate(a) \/ Work(a) \/ Die(a)
  BY <1>3, <1>5
<1>7. ~StartTool(a) /\ ~Exit(a)
  BY <1>1 DEF StartTool, Exit
<1> QED BY <1>6, <1>7 DEF Work

\* An agent takes a saved command, whose records were stored, or fails.
LEMMA AgentResolves ==
    ASSUME IInv, NEW a \in Agents, Resolve(a)
    PROVE  AgentSound(job'[a], used'[job'[a].file])
<1> DEFINE j == job[a]
<1>1. j \in Jobs /\ j.file \in Files /\ Shaped(j) /\ a \in Processes /\ a \notin Editors
  BY RunOf, JobsShaped DEF Processes, Servers
<1>2. used' = used
  BY DEF Resolve, Databases
<1>3. CASE Becomes(a, Fails(j, "command"))
  <2>1. job'[a] = Fails(j, "command")
    BY <1>1, <1>3 DEF Becomes, IInv, TypeOK
  <2>2. Fails(j, "command").phase = "done"
    BY <1>1, FailsSound DEF EarlyStages, Stages
  <2> QED BY <2>1, <2>2 DEF AgentSound
<1>4. CASE commands[j.file] # None /\ Becomes(a, ResolveSaved(j))
  <2>1. job'[a] = ResolveSaved(j)
    BY <1>1, <1>4 DEF Becomes, IInv, TypeOK
  <2>2. ResolveSaved(j) = WithCommand(j, "frontend", "symbols", commands[j.file])
    BY Zenon DEF ResolveSaved, WithCommand
  <2>3. /\ job'[a].phase = "frontend" /\ job'[a].storage = "symbols" /\ job'[a].file = j.file
        /\ job'[a].command = commands[j.file]
    BY <1>1, <2>1, <2>2, SetCommand
  <2>4. commands[j.file] \in used[j.file]
    BY <1>1, <1>4 DEF IInv, CommandsFollowSymbols
  <2> QED BY <1>2, <1>4, <2>3, <2>4 DEF AgentSound
<1> QED BY <1>1, <1>3, <1>4 DEF Resolve

\* The records an agent makes are those of the command it was given.
LEMMA AgentParses ==
    ASSUME IInv, NEW a \in Agents, AgentSound(job[a], used[job[a].file]), Frontend(a)
    PROVE  AgentSound(job'[a], used'[job'[a].file])
<1> DEFINE j == job[a]
<1>1. j \in Jobs /\ Shaped(j) /\ a \in Processes
  BY RunOf, JobsShaped DEF Processes, Servers
<1>2. used' = used
  BY DEF Frontend, Databases
<1>3. PICK status \in {"clean", "partial", "failed"} : Becomes(a, AfterFrontend(a, status))
  BY DEF Frontend
<1>4. job'[a] = AfterFrontend(a, status)
  BY <1>1, <1>3 DEF Becomes, IInv, TypeOK
<1>5. CASE status = "failed"
  <2>1. job'[a] = Fails(j, "frontend")
    BY <1>4, <1>5 DEF AfterFrontend
  <2>2. Fails(j, "frontend").phase = "done"
    BY <1>1, FailsSound DEF EarlyStages, Stages
  <2> QED BY <2>1, <2>2 DEF AgentSound
<1>6. CASE status # "failed"
  <2>1. j.storage = "symbols" /\ j.command # None /\ j.command \in used[j.file]
    BY DEF AgentSound, Frontend
  <2>2. job'[a] = [j EXCEPT !.source = Parsed(a, status),
                            !.phase = IF j.storage = "output" THEN "done" ELSE "symbols"]
    BY <1>4, <1>6, Zenon DEF AfterFrontend
  <2>3. job'[a] = [j EXCEPT !.source = Parsed(a, status), !.phase = "symbols"]
    <3>1. (IF j.storage = "output" THEN "done" ELSE "symbols") = "symbols"
      BY <2>1
    <3> QED BY <2>2, <3>1, Zenon
  <2>4. /\ job'[a].phase = "symbols" /\ job'[a].storage = "symbols" /\ job'[a].file = j.file
        /\ job'[a].source = Parsed(a, status)
    <3>1. job'[a] =
            [phase |-> "symbols", file |-> j.file, tool |-> j.tool, policy |-> j.policy,
             storage |-> j.storage, command |-> j.command, source |-> Parsed(a, status),
             failed_stage |-> j.failed_stage]
      <4>1. [j EXCEPT !.source = Parsed(a, status), !.phase = "symbols"] =
              [phase |-> "symbols", file |-> j.file, tool |-> j.tool, policy |-> j.policy,
               storage |-> j.storage, command |-> j.command, source |-> Parsed(a, status),
               failed_stage |-> j.failed_stage]
        BY <1>1, SetSource, Zenon
      <4> QED BY <2>3, <4>1, Zenon
    <3> QED BY <2>1, <3>1
  <2>5. Parsed(a, status).command = j.command
    BY <2>1 DEF Parsed, CommandOf
  <2> QED BY <1>2, <2>1, <2>4, <2>5 DEF AgentSound
<1> QED BY <1>5, <1>6

\* Whatever else an agent does ends its run or starts one.
LEMMA AgentEnds ==
    ASSUME IInv, NEW a \in Agents, AgentSound(job[a], used[job[a].file]),
           StartUpdate(a) \/ StoreSymbols(a) \/ StoreCommand(a) \/ Answer(a) \/ Die(a)
    PROVE  /\ job'[a].phase \in {"idle", "resolve", "done"}
           /\ ~StoreCommand(a)
<1> DEFINE j == job[a]
<1>1. /\ j \in Jobs /\ Shaped(j) /\ a \in Processes /\ a \notin Editors /\ a \notin Tools
      /\ \A k : Becomes(a, k) => job'[a] = k
  BY RunOf, JobsShaped DEF Processes, Servers, Becomes, IInv, TypeOK
<1>2. ~StoreCommand(a)
  BY DEF AgentSound, StoreCommand
<1>3. CASE StartUpdate(a)
  <2>1. PICK f \in Files : Becomes(a, NewJob("resolve", f))
    BY <1>3 DEF StartUpdate
  <2>2. job'[a] = NewJob("resolve", f)
    BY <1>1, <2>1
  <2> QED BY <1>2, <2>2 DEF NewJob
<1>4. CASE StoreSymbols(a)
  <2>1. CASE Becomes(a, Fails(j, "symbol_database"))
    <3>1. job'[a] = Fails(j, "symbol_database")
      BY <1>1, <2>1
    <3>2. Fails(j, "symbol_database").phase = "done"
      BY <1>1, FailsSound DEF EarlyStages, Stages
    <3> QED BY <1>2, <3>1, <3>2
  <2>2. CASE Becomes(a, [j EXCEPT !.phase = IF j.storage = "symbols" THEN "done" ELSE "command"])
    <3>1. j.storage = "symbols" /\ RunSound(a, j) /\ j.phase = "symbols"
      BY <1>1, <1>4, RunOf DEF AgentSound, StoreSymbols
    <3>2. job'[a] = [j EXCEPT !.phase = "done"]
      BY <1>1, <2>2, <3>1
    <3>3. [j EXCEPT !.phase = "done"].phase = "done"
      BY <1>1, <3>1, PhaseSound
    <3> QED BY <1>2, <3>2, <3>3
  <2> QED BY <1>4, <2>1, <2>2 DEF StoreSymbols
<1>5. CASE Answer(a) \/ Die(a)
  <2>1. Becomes(a, Idle)
    BY <1>1, <1>5 DEF Answer, Die
  <2>2. job'[a] = Idle /\ Idle.phase = "idle"
    BY <1>1, <2>1, IdleSound
  <2> QED BY <1>2, <2>2
<1> QED BY <1>2, <1>3, <1>4, <1>5

\* Every step keeps what agents work with.
LEMMA AgentStep == IInv /\ AgentInv /\ [Next]_vars => AgentInv'
<1> SUFFICES ASSUME IInv, AgentInv, [Next]_vars, NEW a \in Agents
             PROVE  AgentSound(job'[a], used'[job'[a].file])
  BY DEF AgentInv
<1>1. AgentSound(job[a], used[job[a].file]) /\ job[a].file \in Files
  BY RunOf DEF AgentInv, Processes, Servers
<1>2. CASE job'[a] = job[a]
  <2>1. used[job[a].file] \subseteq used'[job[a].file]
    BY <1>1, UsedGrows
  <2> QED BY <1>1, <1>2, <2>1 DEF AgentSound
<1>3. CASE job'[a] # job[a]
  <2>1. job'[a].phase \in {"idle", "resolve", "done"} => AgentSound(job'[a], used'[job'[a].file])
    BY DEF AgentSound
  <2> QED BY <1>1, <1>3, <2>1, AgentSteps, AgentResolves, AgentParses, AgentEnds
<1> QED BY <1>2, <1>3

----------------------------------------------------------------------------
(* The theorems.                                                           *)

\* The inductive invariant holds in every reachable state.
LEMMA Inductive == Spec => []IInv
  BY InitInv, NextInv, PTL DEF Spec

\* The variables keep their types.
THEOREM TypeCorrect == Spec => []TypeOK
<1>1. IInv => TypeOK
  BY DEF IInv
<1> QED BY <1>1, Inductive, PTL

\* For any processes, dying at any step, a saved command is one whose records have been
\* stored for that file (the order of the two stores in index_pipeline_run).
THEOREM SavedCommandsWereUsed == Spec => []CommandsFollowSymbols
<1>1. IInv => CommandsFollowSymbols
  BY DEF IInv
<1> QED BY <1>1, Inductive, PTL

\* What any number of tools, editors and agents store was made by a command of the build
\* and by a frontend that had usable records.
THEOREM StoresAreUsable == Spec => []StoredIsUsable
<1>1. IInv => StoredIsUsable
  BY DEF IInv, StoresOnlyUsable, StoredIsUsable, Usable
<1> QED BY <1>1, Inductive, PTL

\* After an answer of a run that stored its records, or had no need to, the editor shows
\* every record of what it saved, even if the command could not be stored: from its
\* overlay, or, when that was erased, from the database, unless another process has
\* stored the file since.
THEOREM SavesAreShown == Spec => []SavedIsShown
<1>1. ASSUME IInv PROVE SavedIsShown
  <2> SUFFICES ASSUME NEW e \in Editors,
                      job[e].phase = "answered", ReachesCommand(job[e]),
                      NEW position \in Emits[job[e].source.version]
               PROVE  \/ RecordAt(e, job[e].file, position) = job[e].source.version
                      \/ /\ overlay[e][job[e].file] = None
                         /\ symbols[job[e].file].by # e
    BY Zenon DEF SavedIsShown, ReachesCommand
  <2> DEFINE j == job[e]
             o == overlay[e][job[e].file]
             s == symbols[job[e].file]
  <2>1. /\ RunSound(e, j) /\ RunStored(e, j, s) /\ OverlayIsAnswer(j, o)
    BY <1>1, RunOf DEF IInv, Processes, Servers
  <2>2. o = NewOverlay(j) /\ j.source \in Sources
    BY <2>1 DEF OverlayIsAnswer, RunSound, ReachesCommand
  <2>3. CASE j.command = Document
    <3>0. j.failed_stage = "none"
      BY <2>1, <2>3 DEF RunSound, ReachesCommand
    <3>1. o = j.source.version /\ o # None
      BY <2>2, <2>3, <3>0 DEF NewOverlay, Sources
    <3> QED BY <3>1 DEF RecordAt
  <2>4. CASE j.command # Document
    <3>1. o = None
      BY <2>2, <2>4 DEF NewOverlay
    <3>2. s # None /\ (s.by = e => s = j.source)
      BY <2>1, <2>4 DEF RunSound, RunStored, HasStored, ReachesCommand
    <3> QED BY <3>1, <3>2 DEF RecordAt
  <2> QED BY <2>3, <2>4
<1> QED BY <1>1, Inductive, PTL

\* Agents leave the saved commands alone, and what they store was made by a command of
\* which a run had stored the records before.
THEOREM AgentsReindexOnly == Spec => AgentsKeepCommands
<1> DEFINE Keeps ==
        \A a \in Agents :
           job'[a] # job[a] =>
              /\ commands' = commands
              /\ \A f \in Files : symbols'[f] # symbols[f] => symbols'[f].command \in used[f]
<1>1. Init => AgentInv
  BY IdleSound DEF Init, AgentInv, AgentSound, Processes, Servers
<1>2. ASSUME IInv, AgentInv, [Next]_vars
      PROVE  [Keeps]_vars
  <2> SUFFICES ASSUME NEW a \in Agents, job'[a] # job[a]
               PROVE  /\ commands' = commands
                      /\ \A f \in Files : symbols'[f] # symbols[f] => symbols'[f].command \in used[f]
    OBVIOUS
  <2>1. AgentSound(job[a], used[job[a].file])
    BY <1>2 DEF AgentInv
  <2>2. \/ StartUpdate(a) \/ Resolve(a) \/ Frontend(a) \/ Answer(a) \/ Die(a)
        \/ StoreSymbols(a)
    BY <1>2, <2>1, AgentSteps, AgentEnds
  <2>3. CASE StartUpdate(a) \/ Resolve(a) \/ Frontend(a) \/ Answer(a) \/ Die(a)
    BY <2>3 DEF StartUpdate, Resolve, Frontend, Answer, Die, Databases
  <2>4. CASE StoreSymbols(a)
    <3>1. /\ commands' = commands
          /\ symbols' = symbols \/ symbols' = [symbols EXCEPT ![job[a].file] = job[a].source]
      BY <2>4 DEF StoreSymbols
    <3>2. symbols \in [Files -> Sources \cup {None}] /\ job[a].source.command \in used[job[a].file]
      BY <1>2, <2>1, <2>4 DEF IInv, TypeOK, AgentSound, StoreSymbols
    <3> QED BY <3>1, <3>2
  <2> QED BY <2>2, <2>3, <2>4
<1>3. IInv /\ AgentInv /\ [Next]_vars => [Keeps]_vars
  BY <1>2
<1> HIDE DEF Keeps
<1>4. AgentsKeepCommands <=> [][Keeps]_vars
  BY PTL DEF AgentsKeepCommands, Keeps
<1> QED BY <1>1, <1>3, <1>4, Inductive, AgentStep, PTL DEF Spec

=============================================================================
