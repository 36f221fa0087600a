----------------------------- MODULE SourceRead -----------------------------
(***************************************************************************)
(* read_source_context and index_status: SemindexSourceResolver::readSource *)
(* for each name a file may have in the database.  The database is read in *)
(* two statements, the file between two stat calls, line by line, while    *)
(* other processes store and the user edits.                               *)
(***************************************************************************)
EXTENDS Database, SourcePaths

CONSTANTS
    Root,               \* the workspace of the server
    Directories,        \* current directories of the server
    SourceFiles,        \* absolute paths of the files of the workspace
    Content(_, _),      \* the lengths of the lines of a version of a file
    CommitVersion(_, _), \* the version of a path in a commit, 0 if it is not in its tree
    Ranges,             \* what clients ask for: variant, path, first, count, bytes
    Writers,            \* how runs of the indexer name a file: root, directory, resolves
    MaxVersion          \* bound: versions of a file, which are their stamps too

ASSUME DirectoriesAssumption == {Root} \cup Directories \subseteq NormalPaths

\* allowedPath refuses what is not in the workspace, sourceRequest a line zero
\* and a limit below one.
ASSUME RangesAssumption ==
    \A r \in Ranges :
        /\ r.path \in NormalPaths /\ IsPrefix(Root.names, r.path.names)
        /\ r.first \in Nat \ {0} /\ r.count \in Nat \ {0} /\ r.bytes \in Nat \ {0}

\* A run has a root, the directory of a .git above the source or --root, or none;
\* the compiler names files by absolute paths or relative to its directory; and
\* realpath resolves a name unless the file has gone since it was parsed.
ASSUME WritersAssumption ==
    \A w \in Writers :
        /\ {w.root, w.directory} \subseteq NormalPaths \cup {NoPath}
        /\ w.resolves \in BOOLEAN

ASSUME VersionAssumption == MaxVersion \in Nat \ {0}

SourceNames == UNION {ToSet(DatabasePaths(r.path, Root, d)) : r \in Ranges, d \in Directories}

Provenances == {Edition(f, e).provenance : f \in Files, e \in 0 .. MaxEdition}

\* What is under a name in the tree and in commits are versions, and versions have lines.
ASSUME ContentAssumption ==
    /\ \A p \in Provenances : DOMAIN p = {"root", "commit"}
    /\ \A name \in SourceNames, version \in 1 .. MaxVersion :
          Content(Resolve(Root, name), version) \in Seq(Nat)
    /\ \A name \in SourceNames, p, q \in Provenances : None \notin {p.root, q.commit} =>
          CommitVersion(q.commit, RepositoryPath(name, p.root)) \in 0 .. MaxVersion

VARIABLES
    cwd,
    disk,               \* the version of each file, 0 if it was removed
    ask,                \* the range a client asked for
    writer,             \* the run of the indexer that stores the file asked for
    read                \* the state of readSource

fileVars == <<cwd, disk, ask, writer>>
readVars == <<cwd, disk, ask, writer, read>>

Fresh ==
    [pc |-> "lookup", name |-> 1, stamp |-> None, opened |-> 0, status |-> "NotIndexed",
     origin |-> "None", drifted |-> FALSE, lines |-> <<>>, bytes |-> 0, limitHit |-> FALSE,
     indexed |-> FALSE]

Names == DatabasePaths(ask.path, Root, cwd)
Name == Names[read.name]
Physical == Resolve(Root, Name)
OnDisk == IF Physical \in SourceFiles THEN disk[Physical] ELSE 0

\* The name under which the writer stores the file.  Its root need not be the
\* workspace of the server, which takes the database of a repository around it.
RowName ==
    LET given == IF writer.directory = NoPath THEN ask.path
                 ELSE LexicallyRelative(ask.path, writer.directory)
    IN StoredPath(writer.root, given, IF writer.resolves THEN ask.path ELSE NoPath)

HasRow(ed) == FindFile(ed, ask.variant, RowName) # None

ReadInit ==
    /\ cwd \in Directories
    /\ ask \in Ranges
    /\ writer \in Writers
    /\ \E version \in 0 .. MaxVersion :
          disk = [file \in SourceFiles |-> IF file = ask.path THEN version ELSE 1]
    /\ read = [Fresh EXCEPT !.indexed = HasRow(edition)]

Step(pc) == read.pc = pc /\ UNCHANGED <<fileVars, dbVars>>

-----------------------------------------------------------------------------
\* semindex_db_find_file; the next name is tried while there is no row.
LookUp ==
    /\ Step("lookup")
    /\ LET stamp == FindFile(edition, ask.variant, Name)
       IN read' = CASE stamp # None -> [read EXCEPT !.pc = "stat", !.stamp = stamp]
                    [] stamp = None /\ read.name < Len(Names) -> [read EXCEPT !.name = @ + 1]
                    [] OTHER -> [read EXCEPT !.pc = "done"]

Drift(status) ==
    [read EXCEPT !.pc = "commit", !.status = status, !.drifted = TRUE, !.lines = <<>>,
                 !.bytes = 0, !.limitHit = FALSE]

StatBefore ==
    /\ Step("stat")
    /\ read' = CASE OnDisk = 0 -> Drift("Missing")
                 [] OnDisk # 0 /\ OnDisk # read.stamp -> Drift("Drifted")
                 [] OTHER -> [read EXCEPT !.pc = "open"]

Failure == [read EXCEPT !.pc = "error"]

Open ==
    /\ Step("open")
    /\ read' = IF OnDisk = 0 THEN Failure ELSE [read EXCEPT !.pc = "read", !.opened = OnDisk]

\* readRange and readBlobRange: the next line of a version, if it fits.
Complete(version) ==
    \/ Len(read.lines) = ask.count
    \/ ask.first + Len(read.lines) > Len(Content(Physical, version))

NextLine(version) ==
    LET number == ask.first + Len(read.lines)
        length == Content(Physical, version)[number] + 1
    IN IF length > ask.bytes - read.bytes THEN [read EXCEPT !.limitHit = TRUE]
       ELSE [read EXCEPT !.bytes = @ + length, !.lines = Append(@, <<version, number>>)]

\* An edit in place shows in the open file, one by rename does not.
ReadRange ==
    /\ Step("read")
    /\ \E version \in {read.opened, OnDisk} \ {0} :
          IF Complete(version) \/ read.limitHit THEN read' = [read EXCEPT !.pc = "restat"]
          ELSE read' = NextLine(version)

\* Mutant: the file is not looked at again after it was read.
StatNoMore ==
    /\ Step("restat")
    /\ read' = [read EXCEPT !.pc = "done", !.status = "Current", !.origin = "WorkingTree"]

StatAfter ==
    /\ Step("restat")
    /\ read' = CASE OnDisk = 0 -> Failure
                 [] OnDisk # 0 /\ OnDisk # read.stamp -> Drift("Drifted")
                 [] OTHER -> [read EXCEPT !.pc = "done", !.status = "Current", !.origin = "WorkingTree"]

\* readGitCommit: the commit the variant was last indexed at.
BlobVersion ==
    LET known == provenance[ask.variant]
        path == RepositoryPath(Name, known.root)
    IN CASE ask.variant \notin DOMAIN provenance -> 0
         [] ask.variant \in DOMAIN provenance /\ None \in {known.root, known.commit} -> 0
         [] OTHER -> IF path = NoPath THEN 0 ELSE CommitVersion(known.commit, path)

ReadCommit ==
    /\ Step("commit")
    /\ read' = IF BlobVersion = 0 THEN [read EXCEPT !.pc = "done"]
               ELSE [read EXCEPT !.pc = "blob", !.opened = BlobVersion, !.origin = "GitCommit"]

ReadBlob ==
    /\ Step("blob")
    /\ IF Complete(read.opened) \/ read.limitHit THEN read' = [read EXCEPT !.pc = "done"]
       ELSE read' = NextLine(read.opened)

Reading == read.pc \notin {"done", "error"}

\* The user saves or removes the file that is asked for; a stamp does not come back.
EditFile ==
    /\ Reading
    /\ disk[ask.path] # 0
    /\ \E version \in {0} \cup (disk[ask.path] + 1 .. MaxVersion) :
          disk' = [disk EXCEPT ![ask.path] = version]
    /\ UNCHANGED <<cwd, ask, writer, read, dbVars>>

ReadStore(f, e) ==
    /\ Reading
    /\ StoreFile(f, e)
    /\ read' = [read EXCEPT !.indexed = @ /\ HasRow([edition EXCEPT ![f] = e])]
    /\ UNCHANGED fileVars

ReadNext ==
    \/ LookUp
    \/ StatBefore
    \/ Open
    \/ ReadRange
    \/ StatAfter
    \/ ReadCommit
    \/ ReadBlob
    \/ EditFile
    \/ \E f \in Files, e \in 0 .. MaxEdition : ReadStore(f, e)

-----------------------------------------------------------------------------
\* What is called current is the indexed version and nothing else, whoever
\* edits or stores while the file is read (source-resolution.md: a file changed
\* during the operation is not returned as current source).
SourceIsCurrent ==
    read.status = "Current" => \A i \in DOMAIN read.lines : read.lines[i][1] = read.stamp

\* The writer's name is one the readers try: its root is the workspace, or it
\* stored an absolute path, or a name of the command line as it was given.
NameIsTried ==
    IF writer.root # NoPath /\ writer.resolves
    THEN writer.root = Root \/ ~IsPrefix(writer.root.names, ask.path.names)
    ELSE \/ writer.directory \in {NoPath, Root}
         \/ writer.directory = cwd /\ IsWithin(ask.path, cwd)

\* A file whose row is there all the time is found, if the indexer and the server
\* agree on the root of the tree, or the writer stored a name that needs none.
\* And the file that is read is the one asked for, if the server runs in its
\* workspace or the file is not below the directory it runs in: a name relative to
\* another directory is taken for one of the workspace.
SourceIsFound ==
    /\ read.pc = "done" /\ read.indexed /\ NameIsTried => read.status # "NotIndexed"
    /\ read.stamp # None /\ (cwd = Root \/ ~IsWithin(ask.path, cwd)) => Physical = ask.path

=============================================================================
