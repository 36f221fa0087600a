--------------------------- MODULE McpToolsProofs ---------------------------
(***************************************************************************)
(* What the tools of McpTools guarantee for every database, request,       *)
(* workspace and order of calls, edits and stores, checked by TLAPS: what  *)
(* is called current is the indexed version, a file whose row stays in the *)
(* database is found under the name the writer gave it, following          *)
(* nextCursor through any of the paginated tools is a scan in pages, and a *)
(* walk of the call graph reports what was there.  Walks and ranges stay   *)
(* within their limits.                                                    *)
(***************************************************************************)
EXTENDS McpTools, SequenceTheorems, FiniteSetTheorems, WellFoundedInduction, TLAPS


----------------------------------------------------------------------------
(* The names of a file.                                                    *)

\* Below its root a path is the root and what LexicallyRelative leaves of it.
LEMMA RelativeToRoot ==
    ASSUME NEW path \in NormalPaths, NEW base \in NormalPaths, IsPrefix(base.names, path.names)
    PROVE  LET n == Len(base.names)
               rest == SubSeq(path.names, n + 1, Len(path.names))
           IN  /\ rest \in Seq(STRING \ {".", ".."})
               /\ path.names = base.names \o rest
               /\ LexicallyRelative(path, base) = Relative(IF rest = <<>> THEN <<".">> ELSE rest)
<1> DEFINE S == STRING \ {".", ".."}
           p == path.names
           b == base.names
           n == Len(b)
           rest == SubSeq(p, n + 1, Len(p))
           lengths == 0 .. (IF Len(p) < Len(b) THEN Len(p) ELSE Len(b))
<1>1. p \in Seq(S) /\ b \in Seq(S) /\ path.abs = base.abs
  BY DEF NormalPaths
<1>2. n \in Nat /\ Len(p) \in Nat /\ n <= Len(p) /\ SubSeq(b, 1, n) = SubSeq(p, 1, n)
  BY <1>1, LenProperties DEF IsPrefix
<1> HIDE DEF p, b, S
<1>3. lengths = 0 .. n
  BY <1>2
<1>4. SharedPrefix(p, b) = n
  <2> DEFINE Longest(k) == /\ SubSeq(p, 1, k) = SubSeq(b, 1, k)
                           /\ \A m \in 0 .. n : m > k => SubSeq(p, 1, m) # SubSeq(b, 1, m)
  <2>1. SharedPrefix(p, b) = CHOOSE k \in 0 .. n : Longest(k)
    BY <1>3, Zenon DEF SharedPrefix
  <2>2. n \in 0 .. n /\ Longest(n)
    BY <1>2
  <2>3. \A k \in 0 .. n : Longest(k) => k = n
    BY <1>2
  <2> HIDE DEF Longest
  <2> QED BY <2>1, <2>2, <2>3
<1>5. rest \in Seq(S)
  BY <1>1, <1>2, SubSeqProperties
<1>6. p = b \o rest
  BY <1>1, <1>2
<1>7. [i \in 1 .. n - n |-> ".."] \o rest = rest
  BY <1>2, <1>5
<1> HIDE DEF n, rest
<1>8. LexicallyRelative(path, base) = Relative(IF rest = <<>> THEN <<".">> ELSE rest)
  BY <1>1, <1>4, <1>7 DEF LexicallyRelative, p, b, n, rest
<1> QED BY <1>5, <1>6, <1>8 DEF p, b, n, rest, S

\* A name below the root: it is not taken for a path outside of it.
LEMMA RelativeIsBelow ==
    ASSUME NEW path \in NormalPaths, NEW base \in NormalPaths, IsPrefix(base.names, path.names)
    PROVE  Below(LexicallyRelative(path, base))
<1> DEFINE rest == SubSeq(path.names, Len(base.names) + 1, Len(path.names))
<1>1. /\ rest \in Seq(STRING \ {".", ".."})
      /\ LexicallyRelative(path, base) = Relative(IF rest = <<>> THEN <<".">> ELSE rest)
  BY RelativeToRoot
<1> HIDE DEF rest
<1>2. rest # <<>> => rest[1] # ".."
  BY <1>1
<1> DEFINE names == IF rest = <<>> THEN <<".">> ELSE rest
<1>3. names # <<>> /\ names[1] # ".."
  BY <1>2
<1> HIDE DEF names
<1>4. Below(Relative(names))
  BY <1>3 DEF Below, Relative, NoPath
<1> QED BY <1>1, <1>4 DEF names

\* The names the readers try (databasePaths): the path, what it is below the
\* root, and what it is below the current directory.
LEMMA NamesTried ==
    ASSUME NEW path \in NormalPaths, NEW base \in NormalPaths, NEW dir,
           IsPrefix(base.names, path.names)
    PROVE  LET names == DatabasePaths(path, base, dir)
           IN  /\ {1, 2} \subseteq DOMAIN names
               /\ names[1] = path /\ names[2] = LexicallyRelative(path, base)
               /\ IsWithin(path, dir) =>
                     \E j \in DOMAIN names : names[j] = LexicallyRelative(path, dir)
<1> DEFINE relative == LexicallyRelative(path, base)
           inside == LexicallyRelative(path, dir)
           names == DatabasePaths(path, base, dir)
           more == IF Below(inside) /\ (inside # relative \/ ~Below(relative))
                   THEN <<inside>> ELSE <<>>
<1>1. Below(relative)
  BY RelativeIsBelow
<1>2. names = <<path>> \o <<relative>> \o more
  BY <1>1 DEF DatabasePaths
<1>3. IsWithin(path, dir) => more = <<inside>> \/ inside = relative
  BY DEF IsWithin
<1>4. more = <<>> \/ more = <<inside>>
  OBVIOUS
<1> HIDE DEF more, names, relative, inside
<1>5. {1, 2} \subseteq DOMAIN names /\ names[1] = path /\ names[2] = relative
  BY <1>2, <1>4
<1>6. ASSUME more = <<inside>> PROVE 3 \in DOMAIN names /\ names[3] = inside
  BY <1>2, <1>6
<1>7. IsWithin(path, dir) => \E j \in DOMAIN names : names[j] = inside
  BY <1>3, <1>5, <1>6
<1> QED BY <1>5, <1>7 DEF names, relative, inside

\* An absolute path is a path.
LEMMA AbsoluteIsPath == \A path \in NormalPaths : path # NoPath
<1>1. \A path \in NormalPaths : path.abs = TRUE
  BY DEF NormalPaths
<1>2. NoPath.abs = FALSE
  BY DEF NoPath, Relative
<1> QED BY <1>1, <1>2

\* What the writer stores for a file below its root (semindex_repository_path) is
\* what the file is relative to it; not so below "/", where it drops a character.
LEMMA StoredBelow ==
    ASSUME NEW path \in NormalPaths, NEW base \in NormalPaths, NEW given,
           IsPrefix(base.names, path.names), base.names # <<>>
    PROVE  StoredPath(base, given, path) = LexicallyRelative(path, base)
<1> DEFINE rest == SubSeq(path.names, Len(base.names) + 1, Len(path.names))
           relative == LexicallyRelative(path, base)
<1>1. /\ rest \in Seq(STRING \ {".", ".."})
      /\ path.names = base.names \o rest
      /\ relative = Relative(IF rest = <<>> THEN <<".">> ELSE rest)
  BY RelativeToRoot
<1> HIDE DEF rest
<1>2. path.names \in Seq(STRING) /\ base.names \in Seq(STRING)
  BY DEF NormalPaths
<1>3. NoPath \notin {base, path}
  BY AbsoluteIsPath
<1>4. CASE rest = <<>>
  <2>1. path.names = base.names
    BY <1>1, <1>2, <1>4
  <2>2. StoredPath(base, given, path) = Relative(<<".">>)
    BY <1>3, <2>1, Zenon DEF StoredPath, IsStrictPrefix
  <2> QED BY <1>1, <1>4, <2>2
<1>5. CASE rest # <<>>
  <2>1. path.names # base.names /\ Len(base.names) > 0
    BY <1>1, <1>2, <1>5
  <2>2. StoredPath(base, given, path) =
          Relative(SubSeq(path.names, Len(base.names) + 1, Len(path.names)))
    BY <1>3, <2>1, Zenon DEF StoredPath, IsStrictPrefix
  <2> QED BY <1>1, <1>5, <2>2 DEF rest
<1> QED BY <1>4, <1>5

\* Every name a reader tries leads back to the file, unless the file is below a
\* current directory that is not the workspace.
LEMMA NamesLeadBack ==
    ASSUME NEW path \in NormalPaths, NEW base \in NormalPaths, NEW dir,
           IsPrefix(base.names, path.names), dir = base \/ ~IsWithin(path, dir),
           NEW i \in DOMAIN DatabasePaths(path, base, dir)
    PROVE  Resolve(base, DatabasePaths(path, base, dir)[i]) = path
<1> DEFINE rest == SubSeq(path.names, Len(base.names) + 1, Len(path.names))
           relative == LexicallyRelative(path, base)
           names == DatabasePaths(path, base, dir)
<1>1. /\ rest \in Seq(STRING \ {".", ".."})
      /\ path.names = base.names \o rest
      /\ relative = Relative(IF rest = <<>> THEN <<".">> ELSE rest)
      /\ Below(relative)
  BY RelativeToRoot, RelativeIsBelow
<1> HIDE DEF rest
<1>2. path.names \in Seq(STRING \ {".", ".."}) /\ base.names \in Seq(STRING \ {".", ".."})
  BY DEF NormalPaths
<1>3. path.abs /\ path = Absolute(path.names)
  BY DEF NormalPaths, Absolute
<1>4. DOMAIN names = 1 .. 2 /\ names[1] = path /\ names[2] = relative
  <2>1. ~(Below(LexicallyRelative(path, dir))
             /\ (LexicallyRelative(path, dir) # relative \/ ~Below(relative)))
    BY <1>1 DEF IsWithin
  <2>2. names = <<path>> \o <<relative>> \o <<>>
    BY <1>1, <2>1 DEF DatabasePaths
  <2> HIDE DEF names, relative
  <2>3. <<path>> \o <<relative>> \in Seq({path, relative})
    OBVIOUS
  <2>4. names = <<path>> \o <<relative>>
    BY <2>2, <2>3, ConcatEmptySeq
  <2> QED BY <2>4
<1> HIDE DEF relative, names
<1>5. Resolve(base, path) = path
  BY <1>3 DEF Resolve
<1>6. Resolve(base, relative) = path
  <2>1. CASE rest = <<>>
    BY <1>1, <1>2, <1>3, <2>1 DEF Resolve, Relative, Absolute
  <2>2. CASE rest # <<>>
    <3>1. rest[1] # "."
      BY <1>1, <2>2
    <3>2. rest # <<".">>
      BY <3>1
    <3>3. ~relative.abs /\ relative.names = rest
      BY <1>1, <2>2 DEF Relative
    <3>4. Resolve(base, relative) = Absolute(base.names \o rest)
      BY <3>2, <3>3 DEF Resolve
    <3> QED BY <1>1, <1>3, <3>4
  <2> QED BY <2>1, <2>2
<1>7. i \in 1 .. 2
  BY <1>4 DEF names
<1> QED BY <1>4, <1>5, <1>6, <1>7 DEF names

----------------------------------------------------------------------------
(* The invariant of a reader.                                              *)

\* A record with exactly the fields of the state of readSource.
Shaped(r) ==
    r = [pc |-> r.pc, name |-> r.name, stamp |-> r.stamp, opened |-> r.opened,
         status |-> r.status, origin |-> r.origin, drifted |-> r.drifted, lines |-> r.lines,
         bytes |-> r.bytes, limitHit |-> r.limitHit, indexed |-> r.indexed]

Typed ==
    /\ cwd \in Directories
    /\ ask \in Ranges
    /\ writer \in Writers
    /\ disk \in [SourceFiles -> Nat]
    /\ Shaped(read)
    /\ read.name \in DOMAIN Names

\* A stamp does not come back: while the file is there, it and every line that
\* was read of it are at least as new as the row.
Newer(version) == version \in Nat /\ read.stamp <= version /\ version <= OnDisk

StampHolds ==
    read.pc \in {"open", "read", "restat"} =>
        read.stamp \in Nat /\ (OnDisk # 0 => Newer(OnDisk))

LinesHold ==
    /\ read.pc \in {"lookup", "stat", "open"} => read.lines = <<>>
    /\ read.pc \in {"read", "restat"} =>
          /\ read.opened \in Nat
          /\ read.lines \in Seq(Nat \X Int)
          /\ OnDisk # 0 =>
                Newer(read.opened) /\ \A i \in DOMAIN read.lines : Newer(read.lines[i][1])

CurrentHolds == read.status = "Current" => read.pc = "done" /\ SourceIsCurrent

ReaderInv == Typed /\ StampHolds /\ LinesHold /\ CurrentHolds

ReadInv == IF activity = "read" THEN ReaderInv ELSE read = Fresh

\* While no name had the row that is there, none of them was the row's.
FoundInv ==
    /\ read.indexed => HasRow(edition)
    /\ read.pc = "lookup" /\ read.indexed =>
          \A j \in DOMAIN Names : j < read.name => Names[j] # RowName
    /\ read.pc \in {"commit", "blob"} => read.status # "NotIndexed"
    /\ read.pc = "done" /\ read.indexed /\ NameIsTried => read.status # "NotIndexed"

----------------------------------------------------------------------------
(* Steps of the reader.                                                    *)

\* A reader starts before its first statement with nothing read.
LEMMA ReadInitInv == ReadInit => ReaderInv
<1> SUFFICES ASSUME ReadInit PROVE ReaderInv
  OBVIOUS
<1>1. cwd \in Directories /\ ask \in Ranges /\ writer \in Writers
  BY DEF ReadInit
<1>2. disk \in [SourceFiles -> Nat]
  BY VersionAssumption DEF ReadInit
<1>3. read = [Fresh EXCEPT !.indexed = HasRow(edition)]
  BY DEF ReadInit
<1>4. /\ Shaped(read) /\ read.pc = "lookup" /\ read.name = 1 /\ read.lines = <<>>
      /\ read.status = "NotIndexed"
  BY <1>3 DEF Fresh, Shaped
<1>5. 1 \in DOMAIN Names
  BY DEF Names, DatabasePaths
<1> QED BY <1>1, <1>2, <1>4, <1>5 DEF ReaderInv, Typed, StampHolds, LinesHold, CurrentHolds

\* A step of the reader leaves the tree alone, and the name once it has a row.
LEMMA SameFile ==
    ASSUME UNCHANGED fileVars, read'.name = read.name
    PROVE  Names' = Names /\ Physical' = Physical /\ OnDisk' = OnDisk
  BY DEF fileVars, Names, Name, Physical, OnDisk

\* The stamp of the file on disk is a number.
LEMMA OnDiskType == Typed => OnDisk \in Nat
  BY DEF Typed, OnDisk

\* The next name is tried while there is no row.
LEMMA LookUpInv == ReaderInv /\ LookUp => ReaderInv'
<1> SUFFICES ASSUME ReaderInv, LookUp PROVE ReaderInv'
  OBVIOUS
<1> DEFINE stamp == FindFile(edition, ask.variant, Name)
<1>1. read.pc = "lookup" /\ UNCHANGED fileVars
  BY DEF LookUp, Step
<1>2. \/ read' = [read EXCEPT !.pc = "stat", !.stamp = stamp]
      \/ read.name < Len(Names) /\ read' = [read EXCEPT !.name = @ + 1]
      \/ read' = [read EXCEPT !.pc = "done"]
  BY Zenon DEF LookUp, Step
<1> HIDE DEF stamp
<1>3. /\ read'.pc \in {"stat", "lookup", "done"} /\ read'.status = read.status
      /\ read'.lines = read.lines /\ Shaped(read')
      /\ read'.name = read.name \/ (read.name < Len(Names) /\ read'.name = read.name + 1)
  BY <1>1, <1>2 DEF ReaderInv, Typed, Shaped
<1>4. Names' = Names
  BY <1>1 DEF fileVars, Names
<1>5. Len(Names) \in Nat /\ DOMAIN Names = 1 .. Len(Names)
  BY DEF Names, DatabasePaths
<1>6. Typed'
  BY <1>1, <1>3, <1>4, <1>5 DEF ReaderInv, Typed, fileVars
<1> QED BY <1>1, <1>3, <1>6 DEF ReaderInv, StampHolds, LinesHold, CurrentHolds

\* A step that goes on with the same file, and changes neither what was read of
\* it nor its status, or drops both.
LEMMA GoesOn ==
    ASSUME ReaderInv, UNCHANGED fileVars, Shaped(read'), read'.name = read.name,
           read'.stamp = read.stamp,
           StampHolds', LinesHold', read'.status # "Current"
    PROVE  ReaderInv'
<1>1. Names' = Names /\ OnDisk' = OnDisk
  BY SameFile
<1>2. Typed'
  BY <1>1 DEF ReaderInv, Typed, fileVars
<1> QED BY <1>2 DEF ReaderInv, CurrentHolds

\* Before a range is read the file has the stamp of its row, or there is no
\* range.
LEMMA StatBeforeInv == ReaderInv /\ StatBefore => ReaderInv'
<1> SUFFICES ASSUME ReaderInv, StatBefore PROVE ReaderInv'
  OBVIOUS
<1>1. read.pc = "stat" /\ UNCHANGED fileVars /\ read.status # "Current" /\ read.lines = <<>>
  BY DEF StatBefore, Step, ReaderInv, LinesHold, CurrentHolds
<1>2. \/ \E reason \in {"Missing", "Drifted"} : read' = Drift(reason)
      \/ OnDisk = read.stamp /\ read' = [read EXCEPT !.pc = "open"]
  <2>1. CASE OnDisk = 0
    BY <2>1, Zenon DEF StatBefore, Step
  <2>2. CASE OnDisk # 0 /\ OnDisk # read.stamp
    BY <2>2, Zenon DEF StatBefore, Step
  <2>3. CASE OnDisk # 0 /\ OnDisk = read.stamp
    BY <2>3, Zenon DEF StatBefore, Step
  <2> QED BY <2>1, <2>2, <2>3
<1>3. CASE \E reason \in {"Missing", "Drifted"} : read' = Drift(reason)
  <2>1. /\ read'.pc = "commit" /\ Shaped(read') /\ read'.name = read.name
        /\ read'.stamp = read.stamp /\ read'.status # "Current"
    BY <1>3 DEF Drift, ReaderInv, Typed, Shaped
  <2> QED BY <1>1, <2>1, GoesOn DEF StampHolds, LinesHold
<1>4. CASE OnDisk = read.stamp /\ read' = [read EXCEPT !.pc = "open"]
  <2>1. /\ read'.pc = "open" /\ Shaped(read') /\ read'.name = read.name
        /\ read'.stamp = read.stamp /\ read'.status = read.status /\ read'.lines = read.lines
    BY <1>4 DEF ReaderInv, Typed, Shaped
  <2>2. OnDisk' = OnDisk /\ OnDisk \in Nat
    BY <1>1, <2>1, SameFile, OnDiskType DEF ReaderInv
  <2>3. StampHolds'
    BY <1>4, <2>1, <2>2 DEF StampHolds, Newer
  <2> QED BY <1>1, <2>1, <2>3, GoesOn DEF LinesHold
<1> QED BY <1>2, <1>3, <1>4

\* What is opened is at least as new as the row.
LEMMA OpenInv == ReaderInv /\ Open => ReaderInv'
<1> SUFFICES ASSUME ReaderInv, Open PROVE ReaderInv'
  OBVIOUS
<1>1. /\ read.pc = "open" /\ UNCHANGED fileVars /\ read.status # "Current"
      /\ read.lines = <<>>
  BY DEF Open, Step, ReaderInv, LinesHold, CurrentHolds
<1>2. CASE OnDisk = 0
  <2>1. /\ read'.pc = "error" /\ Shaped(read') /\ read'.name = read.name
        /\ read'.stamp = read.stamp /\ read'.status = read.status
    BY <1>2 DEF Open, Failure, ReaderInv, Typed, Shaped
  <2> QED BY <1>1, <2>1, GoesOn DEF StampHolds, LinesHold
<1>3. CASE OnDisk # 0
  <2>1. read' = [read EXCEPT !.pc = "read", !.opened = OnDisk]
    BY <1>3 DEF Open
  <2>2. /\ read'.pc = "read" /\ Shaped(read') /\ read'.name = read.name /\ read'.opened = OnDisk
        /\ read'.stamp = read.stamp /\ read'.status = read.status /\ read'.lines = <<>>
    BY <1>1, <2>1 DEF ReaderInv, Typed, Shaped
  <2>3. OnDisk' = OnDisk /\ Newer(OnDisk) /\ read.stamp \in Nat
    BY <1>1, <1>3, <2>2, SameFile DEF ReaderInv, StampHolds
  <2>4. StampHolds' /\ LinesHold'
    BY <2>2, <2>3 DEF StampHolds, LinesHold, Newer
  <2> QED BY <1>1, <2>2, <2>4, GoesOn
<1> QED BY <1>2, <1>3

\* The next line comes from the file that was opened or from the one on disk.
LEMMA ReadRangeInv == ReaderInv /\ ReadRange => ReaderInv'
<1> SUFFICES ASSUME ReaderInv, ReadRange PROVE ReaderInv'
  OBVIOUS
<1>1. read.pc = "read" /\ UNCHANGED fileVars /\ read.status # "Current"
  BY DEF ReadRange, Step, ReaderInv, CurrentHolds
<1>2. PICK version \in {read.opened, OnDisk} \ {0} :
        \/ read' = [read EXCEPT !.pc = "restat"]
        \/ read' = NextLine(version)
  BY Zenon DEF ReadRange, Step
<1>3. /\ read.opened \in Nat /\ OnDisk \in Nat /\ version \in Nat /\ read.stamp \in Nat
      /\ read.lines \in Seq(Nat \X Int)
      /\ OnDisk # 0 => Newer(version) /\ Newer(OnDisk)
      /\ OnDisk # 0 => Newer(read.opened) /\ \A i \in DOMAIN read.lines : Newer(read.lines[i][1])
  BY <1>1, <1>2, OnDiskType DEF ReaderInv, LinesHold, StampHolds
<1>4. CASE read'.lines = read.lines /\ read'.pc \in {"read", "restat"} /\ Shaped(read')
           /\ read'.name = read.name /\ read'.stamp = read.stamp /\ read'.status = read.status
           /\ read'.opened = read.opened
  <2>1. OnDisk' = OnDisk
    BY <1>1, <1>4, SameFile
  <2>2. StampHolds' /\ LinesHold'
    BY <1>3, <1>4, <2>1 DEF StampHolds, LinesHold, Newer
  <2> QED BY <1>1, <1>4, <2>2, GoesOn
<1>5. CASE read' = [read EXCEPT !.pc = "restat"]
  BY <1>1, <1>4, <1>5 DEF ReaderInv, Typed, Shaped
<1>6. CASE read' = NextLine(version)
  <2> DEFINE number == ask.first + Len(read.lines)
             length == Content(Physical, version)[number] + 1
  <2>1. number \in Int
    BY <1>3, RangesAssumption DEF ReaderInv, Typed
  <2>2. \/ read' = [read EXCEPT !.limitHit = TRUE]
        \/ read' = [read EXCEPT !.bytes = @ + length, !.lines = Append(@, <<version, number>>)]
    BY <1>6, Zenon DEF NextLine
  <2> HIDE DEF number, length
  <2>3. CASE read' = [read EXCEPT !.limitHit = TRUE]
    BY <1>1, <1>4, <2>3 DEF ReaderInv, Typed, Shaped
  <2>4. CASE read' = [read EXCEPT !.bytes = @ + length, !.lines = Append(@, <<version, number>>)]
    <3>1. /\ read'.lines = Append(read.lines, <<version, number>>)
          /\ read'.pc = "read" /\ Shaped(read')
          /\ read'.name = read.name /\ read'.stamp = read.stamp /\ read'.status = read.status
          /\ read'.opened = read.opened
      BY <1>1, <2>4 DEF ReaderInv, Typed, Shaped
    <3>2. OnDisk' = OnDisk
      BY <1>1, <3>1, SameFile
    <3>3. <<version, number>> \in Nat \X Int /\ <<version, number>>[1] = version
      BY <1>3, <2>1
    <3>4. read'.lines \in Seq(Nat \X Int)
      BY <1>3, <3>1, <3>3
    <3>5. ASSUME NEW i \in DOMAIN read'.lines
          PROVE  read'.lines[i] = <<version, number>>
                 \/ (i \in DOMAIN read.lines /\ read'.lines[i] = read.lines[i])
      <4> HIDE DEF number
      <4>1. /\ Len(read.lines) \in Nat /\ DOMAIN read.lines = 1 .. Len(read.lines)
            /\ DOMAIN read'.lines = 1 .. Len(read.lines) + 1
            /\ read'.lines[Len(read.lines) + 1] = <<version, number>>
            /\ \A j \in 1 .. Len(read.lines) : read'.lines[j] = read.lines[j]
        BY <1>3, <3>1, <3>3
      <4>2. i \in 1 .. Len(read.lines) \/ i = Len(read.lines) + 1
        BY <4>1
      <4> QED BY <4>1, <4>2
    <3>6. OnDisk # 0 => \A i \in DOMAIN read'.lines : Newer(read'.lines[i][1])
      BY <1>3, <3>3, <3>5
    <3>7. StampHolds' /\ LinesHold'
      BY <1>3, <3>1, <3>2, <3>4, <3>6 DEF StampHolds, LinesHold, Newer
    <3> QED BY <1>1, <3>1, <3>7, GoesOn
  <2> QED BY <2>2, <2>3, <2>4
<1> QED BY <1>2, <1>5, <1>6

\* A stamp that is still that of the row has been the one of every line.
LEMMA StatAfterInv == ReaderInv /\ StatAfter => ReaderInv'
<1> SUFFICES ASSUME ReaderInv, StatAfter PROVE ReaderInv'
  OBVIOUS
<1>1. read.pc = "restat" /\ UNCHANGED fileVars /\ read.status # "Current"
  BY DEF StatAfter, Step, ReaderInv, CurrentHolds
<1>2. \/ read' = Failure
      \/ read' = Drift("Drifted")
      \/ /\ OnDisk # 0 /\ OnDisk = read.stamp
         /\ read' = [read EXCEPT !.pc = "done", !.status = "Current", !.origin = "WorkingTree"]
  <2>1. CASE OnDisk = 0
    BY <2>1, Zenon DEF StatAfter, Step
  <2>2. CASE OnDisk # 0 /\ OnDisk # read.stamp
    BY <2>2, Zenon DEF StatAfter, Step
  <2>3. CASE OnDisk # 0 /\ OnDisk = read.stamp
    BY <2>3, Zenon DEF StatAfter, Step
  <2> QED BY <2>1, <2>2, <2>3
<1>3. CASE read' = Failure \/ read' = Drift("Drifted")
  <2>1. /\ read'.pc \in {"error", "commit"} /\ Shaped(read') /\ read'.name = read.name
        /\ read'.stamp = read.stamp /\ read'.status # "Current"
    <3>1. CASE read' = Failure
      BY <1>1, <3>1 DEF Failure, ReaderInv, Typed, Shaped
    <3>2. CASE read' = Drift("Drifted")
      BY <3>2 DEF Drift, ReaderInv, Typed, Shaped
    <3> QED BY <1>3, <3>1, <3>2
  <2> QED BY <1>1, <2>1, GoesOn DEF StampHolds, LinesHold
<1>4. CASE /\ OnDisk # 0 /\ OnDisk = read.stamp
           /\ read' = [read EXCEPT !.pc = "done", !.status = "Current", !.origin = "WorkingTree"]
  <2>1. /\ read'.pc = "done" /\ Shaped(read') /\ read'.name = read.name
        /\ read'.stamp = read.stamp /\ read'.lines = read.lines
    BY <1>4 DEF ReaderInv, Typed, Shaped
  <2>2. /\ read.stamp \in Nat
        /\ \A i \in DOMAIN read.lines : Newer(read.lines[i][1])
    BY <1>1, <1>4 DEF ReaderInv, LinesHold, StampHolds
  <2>3. \A i \in DOMAIN read.lines : read.lines[i][1] = read.stamp
    BY <1>4, <2>2 DEF Newer
  <2>4. Typed'
    BY <1>1, <2>1, SameFile DEF ReaderInv, Typed, fileVars
  <2> QED BY <2>1, <2>3, <2>4 DEF ReaderInv, StampHolds, LinesHold, CurrentHolds, SourceIsCurrent
<1> QED BY <1>2, <1>3, <1>4

\* A blob of a commit is never called current.
LEMMA BlobInv == ReaderInv /\ (ReadCommit \/ ReadBlob) => ReaderInv'
<1> SUFFICES ASSUME ReaderInv, ReadCommit \/ ReadBlob PROVE ReaderInv'
  OBVIOUS
<1>1. read.pc \in {"commit", "blob"} /\ UNCHANGED fileVars /\ read.status # "Current"
  BY DEF ReadCommit, ReadBlob, Step, ReaderInv, CurrentHolds
<1>2. \/ read' = [read EXCEPT !.pc = "done"]
      \/ read' = [read EXCEPT !.pc = "blob", !.opened = BlobVersion, !.origin = "GitCommit"]
      \/ read.pc = "blob" /\ read' = NextLine(read.opened)
  BY Zenon DEF ReadCommit, ReadBlob, Step
<1> HIDE DEF BlobVersion
<1>3. /\ read'.pc \in {"done", "blob"} /\ Shaped(read') /\ read'.name = read.name
      /\ read'.stamp = read.stamp /\ read'.status = read.status
  <2>1. CASE ~(read.pc = "blob" /\ read' = NextLine(read.opened))
    BY <1>2, <2>1 DEF ReaderInv, Typed, Shaped
  <2>2. CASE read.pc = "blob" /\ read' = NextLine(read.opened)
    <3> DEFINE number == ask.first + Len(read.lines)
               length == Content(Physical, read.opened)[number] + 1
    <3>1. \/ read' = [read EXCEPT !.limitHit = TRUE]
          \/ read' = [read EXCEPT !.bytes = @ + length,
                                  !.lines = Append(@, <<read.opened, number>>)]
      BY <2>2, Zenon DEF NextLine
    <3> HIDE DEF number, length
    <3> QED BY <2>2, <3>1 DEF ReaderInv, Typed, Shaped
  <2> QED BY <2>1, <2>2
<1> QED BY <1>1, <1>3, GoesOn DEF StampHolds, LinesHold

\* An edit removes the file or gives it a newer stamp; a removed file stays away.
LEMMA EditInv == ReaderInv /\ EditFile => ReaderInv'
<1> SUFFICES ASSUME ReaderInv, EditFile PROVE ReaderInv'
  OBVIOUS
<1>1. UNCHANGED <<cwd, ask, writer, read>>
  BY DEF EditFile
<1>2. PICK version \in {0} \cup (disk[ask.path] + 1 .. MaxVersion) :
         disk[ask.path] # 0 /\ disk' = [disk EXCEPT ![ask.path] = version]
  BY DEF EditFile
<1>3. disk \in [SourceFiles -> Nat]
  BY DEF ReaderInv, Typed
<1>4. /\ disk' \in [SourceFiles -> Nat]
      /\ \A file \in SourceFiles : disk'[file] # 0 => disk[file] # 0 /\ disk[file] <= disk'[file]
  <2>1. CASE ask.path \in SourceFiles
    <3>1. /\ disk[ask.path] \in Nat /\ version \in Nat
          /\ version # 0 => disk[ask.path] <= version
      BY <1>2, <1>3, <2>1, VersionAssumption
    <3> QED BY <1>2, <1>3, <2>1, <3>1
  <2>2. CASE ask.path \notin SourceFiles
    <3>1. disk' = disk
      BY <1>2, <1>3, <2>2
    <3> QED BY <1>3, <3>1
  <2> QED BY <2>1, <2>2
<1>5. Names' = Names /\ Physical' = Physical
  BY <1>1 DEF Names, Name, Physical
<1>6. OnDisk' \in Nat /\ (OnDisk' # 0 => OnDisk # 0 /\ OnDisk <= OnDisk') /\ OnDisk \in Nat
  BY <1>3, <1>4, <1>5 DEF OnDisk
<1>7. Typed'
  BY <1>1, <1>4, <1>5 DEF ReaderInv, Typed, Shaped
<1> HIDE DEF OnDisk
<1>8. StampHolds'
  BY <1>1, <1>6 DEF ReaderInv, StampHolds, Newer
<1>9. LinesHold'
  <2>1. CASE read.pc \notin {"read", "restat"}
    BY <1>1, <2>1 DEF ReaderInv, LinesHold
  <2>2. CASE read.pc \in {"read", "restat"}
    <3>1. /\ read.opened \in Nat /\ read.lines \in Seq(Nat \X Int) /\ read.stamp \in Nat
          /\ OnDisk # 0 =>
                Newer(read.opened) /\ \A i \in DOMAIN read.lines : Newer(read.lines[i][1])
      BY <2>2 DEF ReaderInv, LinesHold, StampHolds
    <3>2. OnDisk' # 0 =>
             Newer(read.opened)' /\ \A i \in DOMAIN read'.lines : Newer(read.lines[i][1])'
      BY <1>1, <1>6, <3>1 DEF Newer
    <3> QED BY <1>1, <2>2, <3>1, <3>2 DEF LinesHold
  <2> QED BY <2>1, <2>2
<1>10. CurrentHolds'
  BY <1>1 DEF ReaderInv, CurrentHolds, SourceIsCurrent
<1> QED BY <1>7, <1>8, <1>9, <1>10 DEF ReaderInv

\* A store changes nothing of what the reader has.
LEMMA ReadStoreInv ==
    ASSUME ReaderInv, NEW f \in Files, NEW e \in 0 .. MaxEdition, ReadStore(f, e)
    PROVE  ReaderInv'
<1>1. /\ read' = [read EXCEPT !.indexed = @ /\ HasRow([edition EXCEPT ![f] = e])]
      /\ UNCHANGED fileVars
  BY DEF ReadStore
<1>2. /\ Shaped(read') /\ read'.pc = read.pc /\ read'.name = read.name
      /\ read'.stamp = read.stamp /\ read'.opened = read.opened
      /\ read'.status = read.status /\ read'.lines = read.lines
  BY <1>1 DEF ReaderInv, Typed, Shaped
<1>3. Names' = Names /\ OnDisk' = OnDisk
  BY <1>1, <1>2, SameFile
<1>4. Typed'
  BY <1>1, <1>2, <1>3 DEF ReaderInv, Typed, fileVars
<1>5. StampHolds' /\ LinesHold' /\ CurrentHolds'
  BY <1>2, <1>3 DEF ReaderInv, StampHolds, LinesHold, CurrentHolds, SourceIsCurrent, Newer
<1> QED BY <1>4, <1>5 DEF ReaderInv

\* Every step of the reader and of those who change what it reads.
LEMMA ReadNextInv == ReaderInv /\ ReadNext => ReaderInv'
  BY LookUpInv, StatBeforeInv, OpenInv, ReadRangeInv, StatAfterInv, BlobInv, EditInv, ReadStoreInv
     DEF ReadNext

\* The other activities of a client leave the reader alone.
LEMMA NextInv == ReadInv /\ [Next]_vars => ReadInv'
<1> SUFFICES ASSUME ReadInv, [Next]_vars PROVE ReadInv'
  OBVIOUS
<1>1. CASE Read
  <2>1. activity = "read" /\ activity' = "read" /\ ReaderInv'
    BY <1>1, ReadNextInv DEF Read, ReadInv
  <2> QED BY <2>1 DEF ReadInv
<1>2. CASE Page \/ Walk \/ UNCHANGED vars
  <2>1. UNCHANGED <<activity, cwd, disk, ask, writer, read>>
    BY <1>2 DEF Page, Walk, vars, readVars
  <2>2. Names' = Names /\ OnDisk' = OnDisk
    BY <2>1 DEF Names, OnDisk, Physical, Name
  <2>3. ReaderInv => ReaderInv'
    BY <2>1, <2>2 DEF ReaderInv, Typed, StampHolds, LinesHold, CurrentHolds, SourceIsCurrent,
                     Newer, Shaped
  <2> QED BY <2>1, <2>3 DEF ReadInv
<1> QED BY <1>1, <1>2 DEF Next

\* The invariant of every reachable state of a reader.
THEOREM ReaderInvariant == Spec => []ReadInv
<1>1. Init => ReadInv
  BY ReadInitInv DEF Init, ReadInv, ReadIdle
<1> QED BY <1>1, NextInv, PTL DEF Spec

\* What is called current is the indexed version, line by line, whoever edits
\* or stores while the file is read (readSource stats before and after).
THEOREM CurrentIsIndexed == Spec => []SourceIsCurrent
<1>1. ReadInv => SourceIsCurrent
  BY DEF ReadInv, ReaderInv, CurrentHolds, SourceIsCurrent, Fresh
<1> QED BY <1>1, ReaderInvariant, PTL

----------------------------------------------------------------------------
(* A file that has a row is found.                                         *)

\* The row's name is one of the names of the file, where the indexer and the
\* server agree on the root or the name needs none.
LEMMA NameIsListed ==
    ASSUME Typed, Root.names # <<>>, NameIsTried
    PROVE  \E j \in DOMAIN Names : Names[j] = RowName
<1> DEFINE given == IF writer.directory = NoPath THEN ask.path
                    ELSE LexicallyRelative(ask.path, writer.directory)
           real == IF writer.resolves THEN ask.path ELSE NoPath
<1>1. /\ ask.path \in NormalPaths /\ Root \in NormalPaths /\ IsPrefix(Root.names, ask.path.names)
      /\ {writer.root, writer.directory} \subseteq NormalPaths \cup {NoPath}
  BY DirectoriesAssumption, RangesAssumption, WritersAssumption DEF Typed
<1>2. /\ {1, 2} \subseteq DOMAIN Names
      /\ Names[1] = ask.path /\ Names[2] = LexicallyRelative(ask.path, Root)
      /\ IsWithin(ask.path, cwd) =>
            \E j \in DOMAIN Names : Names[j] = LexicallyRelative(ask.path, cwd)
  BY <1>1, NamesTried DEF Names
<1>3. RowName = StoredPath(writer.root, given, real)
  BY DEF RowName
<1>4. ask.path # NoPath /\ Root # NoPath
  BY <1>1, AbsoluteIsPath
<1>5. CASE writer.root # NoPath /\ writer.resolves
  <2>1. real = ask.path
    BY <1>5
  <2>2. CASE writer.root = Root
    <3>1. RowName = LexicallyRelative(ask.path, Root)
      BY <1>1, <1>3, <2>1, <2>2, StoredBelow
    <3> QED BY <1>2, <3>1
  <2>3. CASE ~IsPrefix(writer.root.names, ask.path.names)
    <3> HIDE DEF given, real
    <3>1. NoPath \notin {writer.root, real} /\ ~IsPrefix(writer.root.names, real.names)
      BY <1>4, <1>5, <2>1, <2>3
    <3>2. ~IsStrictPrefix(writer.root.names, real.names) /\ writer.root.names # real.names
      <4>1. writer.root.names = real.names => IsPrefix(writer.root.names, real.names)
        BY <1>1, <1>5, <2>1 DEF IsPrefix, NormalPaths
      <4> QED BY <3>1, <4>1, Zenon DEF IsStrictPrefix
    <3>3. StoredPath(writer.root, given, real) = real
      BY <3>1, <3>2, Zenon DEF StoredPath
    <3> QED BY <1>2, <1>3, <2>1, <3>3
  <2> QED BY <1>5, <2>2, <2>3 DEF NameIsTried
<1>6. CASE ~(writer.root # NoPath /\ writer.resolves)
  <2>1. NoPath \in {writer.root, real}
    BY <1>6
  <2>2. RowName = given
    <3> HIDE DEF given, real
    <3> QED BY <1>3, <2>1, Zenon DEF StoredPath
  <2>3. \/ writer.directory \in {NoPath, Root}
        \/ writer.directory = cwd /\ IsWithin(ask.path, cwd)
    BY <1>6 DEF NameIsTried
  <2>4. CASE writer.directory = NoPath
    BY <1>2, <2>2, <2>4
  <2>5. CASE writer.directory = Root
    BY <1>2, <1>4, <2>2, <2>5
  <2>6. CASE writer.directory # NoPath /\ writer.directory = cwd /\ IsWithin(ask.path, cwd)
    BY <1>2, <2>2, <2>6
  <2> QED BY <2>3, <2>4, <2>5, <2>6
<1> QED BY <1>5, <1>6

\* A reader that runs out of names has met the name of the row on the way.
LEMMA LookUpFound ==
    ASSUME ReaderInv, FoundInv, LookUp, Root.names # <<>>
    PROVE  FoundInv'
<1> DEFINE stamp == FindFile(edition, ask.variant, Name)
<1>1. read.pc = "lookup" /\ UNCHANGED fileVars /\ UNCHANGED dbVars /\ Shaped(read)
  BY DEF LookUp, Step, ReaderInv, Typed
<1>2. \/ read' = [read EXCEPT !.pc = "stat", !.stamp = stamp]
      \/ stamp = None /\ read.name < Len(Names) /\ read' = [read EXCEPT !.name = @ + 1]
      \/ stamp = None /\ ~(read.name < Len(Names)) /\ read' = [read EXCEPT !.pc = "done"]
  <2>1. CASE stamp # None
    BY <2>1, Zenon DEF LookUp, Step
  <2>2. CASE stamp = None /\ read.name < Len(Names)
    BY <2>2, Zenon DEF LookUp, Step
  <2>3. CASE stamp = None /\ ~(read.name < Len(Names))
    BY <2>3, Zenon DEF LookUp, Step
  <2> QED BY <2>1, <2>2, <2>3
<1>3. /\ Len(Names) \in Nat /\ DOMAIN Names = 1 .. Len(Names) /\ read.name \in DOMAIN Names
  BY DEF Names, DatabasePaths, ReaderInv, Typed
<1>4. HasRow(edition)' <=> HasRow(edition)
  BY <1>1 DEF HasRow, RowName, fileVars, dbVars
<1>5. Names' = Names /\ RowName' = RowName /\ (NameIsTried' <=> NameIsTried)
  BY <1>1 DEF Names, RowName, NameIsTried, fileVars
<1>6. read.indexed /\ stamp = None =>
         \A j \in DOMAIN Names : j < read.name + 1 => Names[j] # RowName
  <2> SUFFICES ASSUME read.indexed, stamp = None, NEW j \in DOMAIN Names, j < read.name + 1,
                      Names[j] = RowName
               PROVE  FALSE
    OBVIOUS
  <2>1. j = read.name
    BY <1>1, <1>3 DEF FoundInv
  <2> QED BY <2>1 DEF FoundInv, HasRow, Name
<1> HIDE DEF stamp
<1>7. CASE read' = [read EXCEPT !.pc = "stat", !.stamp = stamp]
  <2>1. read'.pc = "stat" /\ read'.indexed = read.indexed
    BY <1>1, <1>7 DEF Shaped
  <2> QED BY <1>4, <2>1 DEF FoundInv
<1>8. CASE stamp = None /\ read.name < Len(Names) /\ read' = [read EXCEPT !.name = @ + 1]
  <2>1. read'.pc = "lookup" /\ read'.indexed = read.indexed /\ read'.name = read.name + 1
    BY <1>1, <1>8 DEF Shaped
  <2>2. read.indexed => \A j \in DOMAIN Names : j < read'.name => Names[j] # RowName
    BY <1>6, <1>8, <2>1
  <2> QED BY <1>4, <1>5, <2>1, <2>2 DEF FoundInv
<1>9. CASE stamp = None /\ ~(read.name < Len(Names)) /\ read' = [read EXCEPT !.pc = "done"]
  <2>1. read'.pc = "done" /\ read'.indexed = read.indexed
    BY <1>1, <1>9 DEF Shaped
  <2>2. read.indexed => \A j \in DOMAIN Names : Names[j] # RowName
    BY <1>3, <1>6, <1>9
  <2>3. ~(read.indexed /\ NameIsTried)
    BY <2>2, NameIsListed DEF ReaderInv
  <2> QED BY <1>4, <1>5, <2>1, <2>3 DEF FoundInv
<1> QED BY <1>2, <1>7, <1>8, <1>9

\* Once a row was found the answer says so, whatever becomes of the file.
LEMMA ReadFound ==
    ASSUME ReaderInv, FoundInv, Root.names # <<>>,
           StatBefore \/ Open \/ ReadRange \/ StatAfter \/ ReadCommit \/ ReadBlob
    PROVE  FoundInv'
<1> USE DEF ReaderInv, Typed
<1>1. UNCHANGED fileVars /\ UNCHANGED dbVars
  BY DEF StatBefore, Open, ReadRange, StatAfter, ReadCommit, ReadBlob, Step
<1>2. HasRow(edition)' <=> HasRow(edition)
  BY <1>1 DEF HasRow, RowName, fileVars, dbVars
<1>3. ASSUME read'.indexed = read.indexed, read'.pc # "lookup",
             read'.pc \in {"commit", "blob", "done"} => read'.status # "NotIndexed"
      PROVE  FoundInv'
  BY <1>2, <1>3 DEF FoundInv
<1>4. ASSUME NEW version, read' = NextLine(version)
      PROVE  read'.indexed = read.indexed /\ read'.pc = read.pc /\ read'.status = read.status
  <2> DEFINE number == ask.first + Len(read.lines)
             length == Content(Physical, version)[number] + 1
  <2>1. \/ read' = [read EXCEPT !.limitHit = TRUE]
        \/ read' = [read EXCEPT !.bytes = @ + length, !.lines = Append(@, <<version, number>>)]
    BY <1>4, Zenon DEF NextLine
  <2> HIDE DEF number, length
  <2> QED BY <2>1 DEF Shaped
<1>5. CASE StatBefore \/ StatAfter
  <2>1. \/ \E reason \in {"Missing", "Drifted"} : read' = Drift(reason)
        \/ read' = [read EXCEPT !.pc = "open"]
        \/ read' = Failure
        \/ read' = [read EXCEPT !.pc = "done", !.status = "Current", !.origin = "WorkingTree"]
    BY <1>5, Zenon DEF StatBefore, StatAfter
  <2>2. CASE \E reason \in {"Missing", "Drifted"} : read' = Drift(reason)
    <3>1. read'.indexed = read.indexed /\ read'.pc = "commit" /\ read'.status # "NotIndexed"
      BY <2>2 DEF Drift, Shaped
    <3> QED BY <1>3, <3>1
  <2>3. CASE read' = [read EXCEPT !.pc = "open"] \/ read' = Failure
    <3>1. read'.indexed = read.indexed /\ read'.pc \in {"open", "error"}
      BY <2>3 DEF Failure, Shaped
    <3> QED BY <1>3, <3>1
  <2>4. CASE read' = [read EXCEPT !.pc = "done", !.status = "Current", !.origin = "WorkingTree"]
    <3>1. read'.indexed = read.indexed /\ read'.pc = "done" /\ read'.status = "Current"
      BY <2>4 DEF Shaped
    <3> QED BY <1>3, <3>1
  <2> QED BY <2>1, <2>2, <2>3, <2>4
<1>6. CASE Open
  <2>1. read' = Failure \/ read' = [read EXCEPT !.pc = "read", !.opened = OnDisk]
    BY <1>6 DEF Open
  <2>2. read'.indexed = read.indexed /\ read'.pc \in {"error", "read"}
    BY <2>1 DEF Failure, Shaped
  <2> QED BY <1>3, <2>2
<1>7. CASE ReadRange
  <2>1. /\ read.pc = "read"
        /\ \E version \in {read.opened, OnDisk} \ {0} :
              read' = [read EXCEPT !.pc = "restat"] \/ read' = NextLine(version)
    BY <1>7, Zenon DEF ReadRange, Step
  <2>2. CASE read' = [read EXCEPT !.pc = "restat"]
    <3>1. read'.indexed = read.indexed /\ read'.pc = "restat"
      BY <2>2 DEF Shaped
    <3> QED BY <1>3, <3>1
  <2>3. CASE \E version : read' = NextLine(version)
    BY <1>3, <1>4, <2>1, <2>3
  <2> QED BY <2>1, <2>2, <2>3
<1>8. CASE ReadCommit \/ ReadBlob
  <2>1. /\ read.pc \in {"commit", "blob"}
        /\ \/ read' = [read EXCEPT !.pc = "done"]
           \/ read' = [read EXCEPT !.pc = "blob", !.opened = BlobVersion, !.origin = "GitCommit"]
           \/ read' = NextLine(read.opened)
    BY <1>8, Zenon DEF ReadCommit, ReadBlob, Step
  <2>2. read.status # "NotIndexed"
    BY <2>1 DEF FoundInv
  <2> HIDE DEF BlobVersion
  <2>3. CASE \/ read' = [read EXCEPT !.pc = "done"]
             \/ read' = [read EXCEPT !.pc = "blob", !.opened = BlobVersion, !.origin = "GitCommit"]
    <3>1. /\ read'.indexed = read.indexed /\ read'.pc \in {"done", "blob"}
          /\ read'.status = read.status
      BY <2>3 DEF Shaped
    <3> QED BY <1>3, <2>2, <3>1
  <2>4. CASE read' = NextLine(read.opened)
    BY <1>3, <1>4, <2>1, <2>2, <2>4
  <2> QED BY <2>1, <2>3, <2>4
<1> QED BY <1>5, <1>6, <1>7, <1>8

\* A store may take the row away; then nothing is promised.
LEMMA StoreFound ==
    ASSUME ReaderInv, FoundInv, NEW f \in Files, NEW e \in 0 .. MaxEdition, ReadStore(f, e)
    PROVE  FoundInv'
<1> DEFINE stays == read.indexed /\ HasRow([edition EXCEPT ![f] = e])
<1>1. /\ read' = [read EXCEPT !.indexed = stays]
      /\ UNCHANGED fileVars /\ edition' = [edition EXCEPT ![f] = e]
  BY DEF ReadStore, StoreFile, Put
<1>2. stays => read.indexed /\ HasRow(edition)'
  BY <1>1 DEF HasRow, RowName, fileVars
<1>3. Names' = Names /\ RowName' = RowName /\ (NameIsTried' <=> NameIsTried)
  BY <1>1 DEF Names, RowName, NameIsTried, fileVars
<1> HIDE DEF stays
<1>4. /\ read'.pc = read.pc /\ read'.name = read.name /\ read'.status = read.status
      /\ read'.indexed = stays
  BY <1>1 DEF ReaderInv, Typed, Shaped
<1> QED BY <1>2, <1>3, <1>4 DEF FoundInv

\* Below a workspace that is not "/", a reader keeps what it knows of the row.
LEMMA FoundNext ==
    ASSUME Root.names # <<>>, ReadInv, activity = "read" => FoundInv, [Next]_vars
    PROVE  activity' = "read" => FoundInv'
<1>1. CASE Read
  <2>1. ReaderInv /\ FoundInv /\ ReadNext
    BY <1>1 DEF Read, ReadInv
  <2>2. CASE EditFile
    <3>1. UNCHANGED <<cwd, ask, writer, read, edition>>
      BY <2>2 DEF EditFile, dbVars
    <3>2. /\ Names' = Names /\ RowName' = RowName /\ (NameIsTried' <=> NameIsTried)
          /\ (HasRow(edition)' <=> HasRow(edition))
      BY <3>1 DEF Names, RowName, NameIsTried, HasRow
    <3> QED BY <2>1, <3>1, <3>2 DEF FoundInv
  <2> QED BY <2>1, <2>2, LookUpFound, ReadFound, StoreFound DEF ReadNext
<1>2. CASE Page \/ Walk
  BY <1>2 DEF Page, Walk
<1>3. CASE UNCHANGED vars
  <2>1. UNCHANGED <<activity, cwd, ask, writer, read, edition>>
    BY <1>3 DEF vars, readVars, dbVars
  <2>2. /\ Names' = Names /\ RowName' = RowName /\ (NameIsTried' <=> NameIsTried)
        /\ (HasRow(edition)' <=> HasRow(edition))
    BY <2>1 DEF Names, RowName, NameIsTried, HasRow
  <2> QED BY <2>1, <2>2 DEF FoundInv
<1> QED BY <1>1, <1>2, <1>3 DEF Next

\* A file whose row is there all the time is found, and what is found is the file
\* that was asked for (databasePaths has the name semindex_repository_path stores,
\* and resolve leads it back).  In a workspace "/" the writer clips the names.
THEOREM RowsAreFound ==
    ASSUME Root.names # <<>>
    PROVE  Spec => []SourceIsFound
<1> DEFINE FInv == activity = "read" => FoundInv
<1>1. Init => FInv
  <2> SUFFICES ASSUME Init, activity = "read" PROVE FoundInv
    OBVIOUS
  <2>1. read = [Fresh EXCEPT !.indexed = HasRow(edition)]
    BY DEF Init, ReadInit
  <2> HIDE DEF HasRow
  <2>2. read.pc = "lookup" /\ read.name = 1 /\ read.indexed = HasRow(edition)
    BY <2>1 DEF Fresh
  <2>3. \A j \in DOMAIN Names : ~(j < 1)
    BY DEF Names, DatabasePaths
  <2> QED BY <2>2, <2>3 DEF FoundInv
<1>2. ReadInv /\ FInv /\ [Next]_vars => FInv'
  BY FoundNext
<1>3. ReadInv /\ FInv => SourceIsFound
  <2> SUFFICES ASSUME ReadInv, FInv PROVE SourceIsFound
    OBVIOUS
  <2>1. CASE activity # "read"
    BY <2>1 DEF ReadInv, SourceIsFound, Fresh
  <2>2. CASE activity = "read"
    <3>1. FoundInv /\ Typed
      BY <2>2 DEF ReadInv, ReaderInv
    <3>2. cwd = Root \/ ~IsWithin(ask.path, cwd) => Physical = ask.path
      BY <3>1, NamesLeadBack, DirectoriesAssumption, RangesAssumption
         DEF Typed, Names, Name, Physical
    <3> QED BY <3>1, <3>2 DEF FoundInv, SourceIsFound
  <2> QED BY <2>1, <2>2
<1> HIDE DEF FInv
<1> QED BY <1>1, <1>2, <1>3, ReaderInvariant, PTL DEF Spec

----------------------------------------------------------------------------
(* Sorting: rows with keys that LexLess orders, in the order of their keys.*)

\* What a finite set's subsets have, if each of them has it whose subsets with one
\* member less do, the set itself has.
LEMMA Shrinking ==
    ASSUME NEW S, IsFiniteSet(S), NEW G,
           \A T \in SUBSET S : (\A x \in T : T \ {x} \in G) => T \in G
    PROVE  SUBSET S \subseteq G
<1> SUFFICES ASSUME NEW U \in SUBSET S, U \notin G PROVE FALSE
  OBVIOUS
<1> DEFINE R == StrictSubsetOrdering(S)
           Bad == (SUBSET S) \ G
<1>1. IsWellFoundedOn(R, FiniteSubsetsOf(S))
  BY FS_StrictSubsetOrderingWellFounded
<1>2. Bad \subseteq FiniteSubsetsOf(S) /\ Bad # {}
  BY FS_Subset DEF FiniteSubsetsOf
<1>3. PICK T \in Bad : \A V \in Bad : ~(<<V, T>> \in R)
  <2> HIDE DEF R, Bad
  <2> QED BY <1>1, <1>2, WFMin
<1>4. ASSUME NEW x \in T PROVE T \ {x} \in G
  <2>1. <<T \ {x}, T>> \in R
    BY DEF StrictSubsetOrdering
  <2> QED BY <1>3, <2>1
<1>5. T \in SUBSET S /\ T \notin G
  <2> HIDE DEF R
  <2> QED BY <1>3
<1> HIDE DEF R, Bad
<1> QED BY <1>4, <1>5

\* The rows have keys that LexLess orders.
Sorts(rows, key) ==
    /\ \A a \in rows : ~LexLess(key[a], key[a])
    /\ \A a, b \in rows : a # b => LexLess(key[a], key[b]) \/ LexLess(key[b], key[a])
    /\ \A a, b, c \in rows : LexLess(key[a], key[b]) /\ LexLess(key[b], key[c])
                                => LexLess(key[a], key[c])

\* A sequence has the rows in the order of their keys.
InOrder(seq, rows, key) ==
    /\ seq \in Seq(rows)
    /\ \A r \in rows : \E i \in 1 .. Len(seq) : seq[i] = r
    /\ \A i, j \in 1 .. Len(seq) : i < j => LexLess(key[seq[i]], key[seq[j]])

\* The least row comes before all others.
LEMMA LeastIsFirst ==
    ASSUME NEW rows, IsFiniteSet(rows), NEW key, Sorts(rows, key),
           NEW s \in SUBSET rows, s # {}
    PROVE  /\ Least(s, key) \in s
           /\ \A other \in s : other # Least(s, key) => LexLess(key[Least(s, key)], key[other])
<1> DEFINE L(a, b) == LexLess(key[a], key[b])
           Has(T) == \E m \in T : \A o \in T : o # m => L(m, o)
           G == {T \in SUBSET rows : T = {} \/ Has(T)}
<1>o. /\ \A a \in rows : ~L(a, a)
      /\ \A a, b \in rows : a # b => L(a, b) \/ L(b, a)
      /\ \A a, b, c \in rows : L(a, b) /\ L(b, c) => L(a, c)
  BY DEF Sorts
<1>l. Least(s, key) = CHOOSE r \in s : \A other \in s : ~L(other, r)
  BY DEF Least
<1> HIDE DEF L
<1>1. ASSUME NEW T \in SUBSET rows, \A x \in T : T \ {x} \in G, T # {} PROVE Has(T)
  <2>1. PICK x \in T : TRUE
    BY <1>1
  <2>2. CASE T \ {x} = {}
    BY <2>2
  <2>3. CASE T \ {x} # {}
    <3>1. PICK m \in T \ {x} : \A o \in T \ {x} : o # m => L(m, o)
      BY <1>1, <2>1, <2>3
    <3>2. CASE L(x, m)
      <4>1. \A o \in T : o # x => L(x, o)
        BY <1>o, <3>1, <3>2, <2>1
      <4> QED BY <4>1, <2>1
    <3>3. CASE L(m, x)
      BY <3>1, <3>3
    <3> QED BY <1>o, <3>1, <3>2, <3>3, <2>1
  <2> QED BY <2>2, <2>3
<1>2. SUBSET rows \subseteq G
  <2>1. \A T \in SUBSET rows : (\A x \in T : T \ {x} \in G) => T \in G
    BY <1>1
  <2> HIDE DEF G
  <2> QED BY <2>1, Shrinking
<1>3. PICK m \in s : \A o \in s : o # m => L(m, o)
  BY <1>2
<1>4. \A o \in s : ~L(o, m)
  BY <1>o, <1>3
<1>5. Least(s, key) \in s /\ \A other \in s : ~L(other, Least(s, key))
  BY <1>l, <1>4
<1>6. \A other \in s : other # Least(s, key) => L(Least(s, key), other)
  BY <1>5, <1>o
<1> QED BY <1>5, <1>6 DEF L

\* Natural numbers are well-ordered, so a set that is closed under successors
\* has all of them.
LEMMA Induction ==
    ASSUME NEW S, 0 \in S, \A n \in Nat : n \in S => n + 1 \in S
    PROVE  Nat \subseteq S
<1> SUFFICES ASSUME NEW m \in Nat, m \notin S PROVE FALSE
  OBVIOUS
<1> DEFINE T == Nat \ S
           R == OpToRel(<, Nat)
<1>1. IsWellFoundedOn(R, Nat)
  BY NatLessThanWellFounded
<1>2. PICK x \in T : \A y \in T : ~(<<y, x>> \in R)
  <2> HIDE DEF R
  <2>1. T \subseteq Nat /\ T # {}
    OBVIOUS
  <2> HIDE DEF T
  <2> QED BY <1>1, <2>1, WFMin
<1>3. x # 0 /\ x - 1 \in Nat /\ x - 1 \in T
  OBVIOUS
<1>4. <<x - 1, x>> \in R
  BY <1>3 DEF OpToRel
<1> QED BY <1>2, <1>3, <1>4

\* What a fold over a finite set defines: a function on the subsets that takes a
\* member from each and goes on with the rest.
IsSort(h, rows, key) ==
    h = [s \in SUBSET rows |->
            IF s = {} THEN <<>> ELSE <<Least(s, key)>> \o h[s \ {Least(s, key)}]]

LEMMA SortExists ==
    ASSUME NEW rows, IsFiniteSet(rows), NEW key, Sorts(rows, key)
    PROVE  \E h : IsSort(h, rows, key)
<1> DEFINE D(n) == {s \in SUBSET rows : Cardinality(s) <= n}
           Value(h, s) == IF s = {} THEN <<>> ELSE <<Least(s, key)>> \o h[s \ {Least(s, key)}]
           Rec(h, n) == \A s \in D(n) : h[s] = Value(h, s)
           T == {n \in Nat : \E h : Rec(h, n)}
<1>1. ASSUME NEW s \in SUBSET rows, s # {}
      PROVE  /\ Cardinality(s) \in Nat \ {0}
             /\ s \ {Least(s, key)} \in SUBSET rows
             /\ Cardinality(s \ {Least(s, key)}) = Cardinality(s) - 1
  <2>1. IsFiniteSet(s)
    BY FS_Subset
  <2>2. Cardinality(s) \in Nat /\ Cardinality(s) # 0
    BY <1>1, <2>1, FS_CardinalityType, FS_EmptySet
  <2>3. Least(s, key) \in s
    BY <1>1, LeastIsFirst
  <2> QED BY <2>1, <2>2, <2>3, FS_RemoveElement
<1>2. 0 \in T
  <2> DEFINE h == [s \in D(0) |-> <<>>]
  <2>1. ASSUME NEW s \in D(0), s # {} PROVE FALSE
    <3>1. Cardinality(s) \in Nat \ {0}
      BY <1>1, <2>1
    <3>2. Cardinality(s) <= 0
      OBVIOUS
    <3> QED BY <3>1, <3>2
  <2>2. Rec(h, 0)
    BY <2>1
  <2> QED BY <2>2
<1>3. ASSUME NEW n \in Nat, n \in T PROVE n + 1 \in T
  <2>1. PICK h : Rec(h, n)
    BY <1>3
  <2> DEFINE g == [s \in D(n + 1) |-> Value(h, s)]
  <2>2. \A s \in D(n) : g[s] = h[s]
    <3>1. \A s \in D(n) : s \in D(n + 1)
      <4> SUFFICES ASSUME NEW s \in SUBSET rows, Cardinality(s) <= n
                   PROVE  Cardinality(s) <= n + 1
        OBVIOUS
      <4>1. Cardinality(s) \in Nat
        BY FS_Subset, FS_CardinalityType
      <4> QED BY <4>1
    <3> HIDE DEF D, Value
    <3> QED BY <2>1, <3>1
  <2>3. \A s \in D(n + 1) : s # {} => s \ {Least(s, key)} \in D(n)
    BY <1>1
  <2>4. ASSUME NEW s \in D(n + 1) PROVE g[s] = Value(g, s)
    <3> HIDE DEF D
    <3>1. g[s] = Value(h, s)
      OBVIOUS
    <3> HIDE DEF g
    <3> QED BY <2>2, <2>3, <3>1
  <2> HIDE DEF g, D, Value
  <2> QED BY <2>4
<1>4. Cardinality(rows) \in T
  <2>1. Cardinality(rows) \in Nat
    BY FS_CardinalityType
  <2> HIDE DEF T
  <2> QED BY <1>2, <1>3, <2>1, Induction
<1>5. PICK h : Rec(h, Cardinality(rows))
  BY <1>4
<1> DEFINE g == [s \in SUBSET rows |-> h[s]]
<1>6. \A s \in SUBSET rows : h[s] = Value(h, s)
  BY <1>5, FS_Subset
<1>7. \A s \in SUBSET rows : s # {} => s \ {Least(s, key)} \in SUBSET rows
  OBVIOUS
<1>8. g = [s \in SUBSET rows |-> Value(g, s)]
  <2>1. ASSUME NEW s \in SUBSET rows PROVE Value(h, s) = Value(g, s)
    BY <1>7
  <2> HIDE DEF Value
  <2> QED BY <1>6, <2>1
<1>9. IsSort(g, rows, key)
  <2> HIDE DEF g
  <2> QED BY <1>8 DEF IsSort
<1> QED BY <1>9

\* A statement returns its rows in the order of their keys.
LEMMA Sorting ==
    ASSUME NEW rows, IsFiniteSet(rows), NEW key, Sorts(rows, key)
    PROVE  InOrder(OrderedBy(rows, key), rows, key)
<1> DEFINE h == CHOOSE h : IsSort(h, rows, key)
<1>1. OrderedBy(rows, key) = h[rows]
  BY Zenon DEF OrderedBy, MapThenFoldSet, IsSort
<1>2. IsSort(h, rows, key)
  BY SortExists
<1> HIDE DEF h
<1> DEFINE G == {s \in SUBSET rows : InOrder(h[s], s, key)}
<1>3. ASSUME NEW s \in SUBSET rows, \A x \in s : s \ {x} \in G PROVE s \in G
  <2>1. ASSUME s = {} PROVE InOrder(h[s], s, key)
    <3>1. h[s] = <<>>
      BY <1>2, <2>1 DEF IsSort
    <3> QED BY <2>1, <3>1 DEF InOrder
  <2>2. ASSUME s # {} PROVE InOrder(h[s], s, key)
    <3> DEFINE m == Least(s, key)
               rest == s \ {m}
               later == h[rest]
    <3>1. m \in s /\ \A o \in s : o # m => LexLess(key[m], key[o])
      BY <2>2, LeastIsFirst
    <3>2. h[s] = <<m>> \o later
      BY <1>2, <2>2 DEF IsSort
    <3>3. InOrder(later, rest, key)
      BY <1>3, <3>1
    <3> HIDE DEF m
    <3>4. later \in Seq(rest) /\ later \in Seq(s) /\ Len(later) \in Nat
      BY <3>3, LenProperties DEF InOrder
    <3> HIDE DEF later
    <3>5. /\ <<m>> \o later \in Seq(s) /\ Len(<<m>> \o later) = Len(later) + 1
          /\ (<<m>> \o later)[1] = m
          /\ \A i \in 1 .. Len(later) : (<<m>> \o later)[i + 1] = later[i]
      BY <3>1, <3>4
    <3> DEFINE q == <<m>> \o later
    <3> HIDE DEF q
    <3>6. q \in Seq(s) /\ Len(q) = Len(later) + 1 /\ q[1] = m
          /\ \A i \in 1 .. Len(later) : q[i + 1] = later[i]
      BY <3>5 DEF q
    <3>7. ASSUME NEW r \in s PROVE \E i \in 1 .. Len(q) : q[i] = r
      <4>1. CASE r = m
        BY <3>4, <3>6, <4>1
      <4>2. CASE r # m
        <5>1. PICK i \in 1 .. Len(later) : later[i] = r
          BY <3>3, <4>2 DEF InOrder
        <5>2. i + 1 \in 1 .. Len(q)
          BY <3>4, <3>6, <5>1
        <5> QED BY <3>6, <5>1, <5>2
      <4> QED BY <4>1, <4>2
    <3>8. ASSUME NEW i \in 1 .. Len(q), NEW j \in 1 .. Len(q), i < j
          PROVE  LexLess(key[q[i]], key[q[j]])
      <4>1. j - 1 \in 1 .. Len(later) /\ q[j] = later[j - 1]
        <5>1. j - 1 \in 1 .. Len(later)
          BY <3>4, <3>6, <3>8
        <5>2. q[(j - 1) + 1] = later[j - 1] /\ (j - 1) + 1 = j
          BY <3>6, <5>1
        <5> QED BY <5>1, <5>2
      <4>2. CASE i = 1
        <5>1. q[j] \in rest
          BY <3>4, <4>1
        <5> QED BY <3>1, <3>6, <4>2, <5>1
      <4>3. CASE i # 1
        <5>1. i - 1 \in 1 .. Len(later)
          BY <3>4, <3>6, <3>8, <4>3
        <5>2. q[(i - 1) + 1] = later[i - 1] /\ (i - 1) + 1 = i
          BY <3>6, <5>1
        <5>3. i - 1 < j - 1
          BY <3>8
        <5> QED BY <3>3, <4>1, <5>1, <5>2, <5>3 DEF InOrder
      <4> QED BY <4>2, <4>3
    <3>9. InOrder(q, s, key)
      BY <3>6, <3>7, <3>8 DEF InOrder
    <3> QED BY <3>2, <3>9 DEF q
  <2>3. InOrder(h[s], s, key)
    BY <2>1, <2>2
  <2> QED BY <2>3
<1>4. SUBSET rows \subseteq G
  <2>1. \A s \in SUBSET rows : (\A x \in s : s \ {x} \in G) => s \in G
    BY <1>3
  <2> HIDE DEF G
  <2> QED BY <2>1, Shrinking
<1> QED BY <1>1, <1>4

----------------------------------------------------------------------------
(* Answers: the first rows of those that match, and whether there are more.*)

\* A sequence has the keys in their order.
Lists(ks, K) ==
    /\ ks \in Seq(K)
    /\ \A k \in K : \E i \in 1 .. Len(ks) : ks[i] = k
    /\ \A i, j \in 1 .. Len(ks) : i < j => Before(ks[i], ks[j])

\* An answer has the first rows of those with the keys K, and says whether there
\* are more.
IsReply(reply, K, limit) ==
    \E ks :
        /\ Lists(ks, K)
        /\ reply.status = "Success"
        /\ reply.truncated <=> Len(ks) > limit
        /\ Len(reply.rows) = (IF Len(ks) > limit THEN limit ELSE Len(ks))
        /\ ToSet(reply.rows) = {reply.rows[i] : i \in 1 .. Len(reply.rows)}
        /\ \A i \in 1 .. Len(reply.rows) : Key(reply.rows[i]) = ks[i]
        /\ Len(ks) > limit => Key(Last(reply.rows)) = ks[limit]

Shown(reply) == {Key(row) : row \in ToSet(reply.rows)}

LEMMA MinOfTwo ==
    ASSUME NEW a \in Nat, NEW b \in Nat
    PROVE  Min({a, b}) = IF a <= b THEN a ELSE b
<1> DEFINE n == IF a <= b THEN a ELSE b
           IsLeast(x) == \A y \in {a, b} : x <= y
<1>1. n \in {a, b} /\ IsLeast(n) /\ \A x \in {a, b} : IsLeast(x) => x = n
  OBVIOUS
<1>2. Min({a, b}) = CHOOSE x \in {a, b} : IsLeast(x)
  BY DEF Min
<1> HIDE DEF IsLeast, n
<1>3. Min({a, b}) = n
  BY <1>1, <1>2
<1> QED BY <1>3 DEF n

\* The first rows of an answer.
LEMMA Limiting ==
    ASSUME NEW rows, NEW seq \in Seq(rows), NEW limit \in Nat, limit = 0 => seq = <<>>
    PROVE  /\ Limited(seq, limit) \in Seq(rows)
           /\ Len(Limited(seq, limit)) = (IF Len(seq) > limit THEN limit ELSE Len(seq))
           /\ \A i \in 1 .. Len(Limited(seq, limit)) : Limited(seq, limit)[i] = seq[i]
<1>1. Len(seq) \in Nat
  OBVIOUS
<1> DEFINE n == IF limit <= Len(seq) THEN limit ELSE Len(seq)
<1>2. CASE limit = 0
  BY <1>2 DEF Limited
<1>3. CASE limit # 0
  <2>1. Limited(seq, limit) = SubSeq(seq, 1, n)
    BY <1>1, <1>3, MinOfTwo DEF Limited
  <2> QED BY <1>1, <2>1
<1> QED BY <1>2, <1>3

\* Rows in the order of their keys are an answer's.
LEMMA Replying ==
    ASSUME NEW rows, NEW key, NEW seq, InOrder(seq, rows, key),
           NEW limit \in Nat, limit = 0 => seq = <<>>, NEW n,
           \A r \in rows : key[r] = Key(r) /\ Key(r) \in Keys /\ Len(Key(r)) = n,
           NEW reply, reply.status = "Success", reply.rows \in Seq(rows),
           Len(reply.rows) = (IF Len(seq) > limit THEN limit ELSE Len(seq)),
           \A i \in 1 .. Len(reply.rows) : reply.rows[i] = seq[i],
           reply.truncated <=> Len(seq) > limit,
           Len(seq) > limit => Last(reply.rows) = seq[limit]
    PROVE  IsReply(reply, {Key(r) : r \in rows}, limit)
<1> DEFINE K == {Key(r) : r \in rows}
           ks == [i \in 1 .. Len(seq) |-> Key(seq[i])]
<1>1. seq \in Seq(rows) /\ Len(seq) \in Nat /\ \A i \in 1 .. Len(seq) : seq[i] \in rows
  BY DEF InOrder
<1>2. ks \in Seq(K) /\ Len(ks) = Len(seq) /\ \A i \in 1 .. Len(seq) : ks[i] = Key(seq[i])
  BY <1>1
<1> HIDE DEF ks
<1>3. ASSUME NEW r \in rows PROVE \E i \in 1 .. Len(ks) : ks[i] = Key(r)
  <2>1. PICK i \in 1 .. Len(seq) : seq[i] = r
    BY DEF InOrder
  <2> QED BY <1>2, <2>1
<1>4. ASSUME NEW i \in 1 .. Len(ks), NEW j \in 1 .. Len(ks), i < j PROVE Before(ks[i], ks[j])
  <2>1. LexLess(key[seq[i]], key[seq[j]])
    BY <1>2, <1>4 DEF InOrder
  <2>2. key[seq[i]] = ks[i] /\ key[seq[j]] = ks[j] /\ ks[i] \in Keys /\ ks[j] \in Keys
        /\ Len(ks[i]) = Len(ks[j])
    BY <1>1, <1>2
  <2> QED BY <2>1, <2>2, KeyOrderAssumption
<1>5. Lists(ks, K)
  BY <1>2, <1>3, <1>4 DEF Lists
<1>6. ToSet(reply.rows) = {reply.rows[i] : i \in 1 .. Len(reply.rows)}
  BY DEF ToSet
<1>7. \A i \in 1 .. Len(reply.rows) : Key(reply.rows[i]) = ks[i] /\ i \in 1 .. Len(seq)
  BY <1>1, <1>2
<1>8. Len(seq) > limit => limit \in 1 .. Len(seq)
  BY <1>1
<1>9. Len(ks) > limit => Key(Last(reply.rows)) = ks[limit]
  BY <1>2, <1>8
<1> HIDE DEF K
<1>10. IsReply(reply, K, limit)
  BY <1>2, <1>5, <1>6, <1>7, <1>9 DEF IsReply
<1> QED BY <1>10 DEF K

\* A list of keys has each of them once.
LEMMA ListSize ==
    ASSUME NEW K \in SUBSET Keys, NEW ks, Lists(ks, K), NEW n \in 0 .. Len(ks)
    PROVE  Cardinality({ks[i] : i \in 1 .. n}) = n
<1> DEFINE page == {ks[i] : i \in 1 .. n}
           f == [i \in 1 .. n |-> ks[i]]
<1>1. ks \in Seq(K) /\ Len(ks) \in Nat /\ n \in Nat
  BY DEF Lists
<1>2. ASSUME NEW i \in 1 .. n, NEW j \in 1 .. n, ks[i] = ks[j] PROVE i = j
  <2>1. i \in 1 .. Len(ks) /\ j \in 1 .. Len(ks) /\ ks[i] \in Keys /\ ks[j] \in Keys
    BY <1>1
  <2>2. ~Before(ks[i], ks[j]) /\ ~Before(ks[j], ks[i])
    BY <1>2, <2>1, OrderAssumption
  <2> QED BY <2>1, <2>2 DEF Lists
<1>3. f \in Bijection(1 .. n, page)
  BY <1>2 DEF Bijection, Injection, Surjection, IsInjective
<1>4. ExistsBijection(1 .. n, page)
  BY <1>3 DEF ExistsBijection
<1>5. IsFiniteSet(1 .. n) /\ Cardinality(1 .. n) = n
  BY <1>1, FS_Interval
<1> HIDE DEF page
<1>6. Cardinality(page) = n
  BY <1>4, <1>5, FS_Bijection
<1> QED BY <1>6 DEF page

\* The rows of one call without a limit are all of the table.
LEMMA WholeTable ==
    ASSUME NEW K \in SUBSET Keys, NEW reply, IsReply(reply, K, Cardinality(Keys))
    PROVE  Shown(reply) = K
<1>1. PICK ks : /\ Lists(ks, K)
                /\ Len(reply.rows) = (IF Len(ks) > Cardinality(Keys) THEN Cardinality(Keys) ELSE Len(ks))
                /\ ToSet(reply.rows) = {reply.rows[i] : i \in 1 .. Len(reply.rows)}
                /\ \A i \in 1 .. Len(reply.rows) : Key(reply.rows[i]) = ks[i]
  BY DEF IsReply
<1>2. ks \in Seq(K) /\ Len(ks) \in Nat /\ \A i \in 1 .. Len(ks) : ks[i] \in K
  BY <1>1 DEF Lists
<1> DEFINE page == {ks[i] : i \in 1 .. Len(ks)}
<1>3. Cardinality(page) = Len(ks)
  <2>1. Len(ks) \in 0 .. Len(ks)
    BY <1>2
  <2> QED BY <1>1, <2>1, ListSize
<1>4. page \in SUBSET Keys
  BY <1>2
<1>5. Cardinality(page) <= Cardinality(Keys) /\ Cardinality(Keys) \in Nat
  <2> HIDE DEF page
  <2> QED BY <1>4, FS_Subset, KeysAssumption, FS_CardinalityType
<1>6. Len(reply.rows) = Len(ks)
  <2> DEFINE all == Cardinality(Keys)
  <2>1. Len(ks) <= all /\ all \in Nat
    <3> HIDE DEF page
    <3> QED BY <1>3, <1>5
  <2>2. Len(reply.rows) = (IF Len(ks) > all THEN all ELSE Len(ks))
    BY <1>1
  <2> HIDE DEF all
  <2> QED BY <1>2, <2>1, <2>2
<1>7. page = K
  BY <1>1, <1>2 DEF Lists
<1>8. Shown(reply) = page
  BY <1>1, <1>6 DEF Shown
<1> QED BY <1>7, <1>8

\* A bounded answer is a page.
LEMMA BoundedPage ==
    ASSUME NEW K \in SUBSET Keys, NEW limit \in 1 .. MaxLimit,
           NEW reply, IsReply(reply, K, limit)
    PROVE  LET page == Shown(reply)
           IN /\ page \in SUBSET K
              /\ Cardinality(page) = Len(reply.rows) /\ Cardinality(page) <= MaxLimit
              /\ P!FirstOf(page, K)
              /\ reply.truncated =>
                    LET next == Key(Last(reply.rows))
                    IN page # K /\ P!LastOf(next, page) /\ next \in K
              /\ ~reply.truncated => page = K
<1> DEFINE page == Shown(reply)
<1>1. PICK ks : /\ Lists(ks, K)
                /\ reply.truncated <=> Len(ks) > limit
                /\ Len(reply.rows) = (IF Len(ks) > limit THEN limit ELSE Len(ks))
                /\ ToSet(reply.rows) = {reply.rows[i] : i \in 1 .. Len(reply.rows)}
                /\ \A i \in 1 .. Len(reply.rows) : Key(reply.rows[i]) = ks[i]
                /\ Len(ks) > limit => Key(Last(reply.rows)) = ks[limit]
  BY DEF IsReply
<1>2. ks \in Seq(K) /\ Len(ks) \in Nat /\ (\A i \in 1 .. Len(ks) : ks[i] \in K)
      /\ (\A k \in K : \E i \in 1 .. Len(ks) : ks[i] = k)
      /\ \A i, j \in 1 .. Len(ks) : i < j => Before(ks[i], ks[j])
  BY <1>1 DEF Lists
<1>3. limit \in Nat \ {0} /\ limit <= MaxLimit /\ MaxLimit \in Nat
  BY LimitAssumption
<1> DEFINE n == Len(reply.rows)
<1>4. n \in 0 .. Len(ks) /\ n <= limit
  BY <1>1, <1>2, <1>3
<1>5. page = {ks[i] : i \in 1 .. n}
  BY <1>1 DEF Shown
<1>n. n = (IF Len(ks) > limit THEN limit ELSE Len(ks))
  BY <1>1
<1> HIDE DEF n, page
<1>6. Cardinality(page) = n
  BY <1>1, <1>4, <1>5, ListSize
<1>7. page \in SUBSET K
  BY <1>2, <1>4, <1>5
<1>8. ASSUME NEW k \in page, NEW other \in K \ page PROVE Before(k, other)
  <2>1. PICK i \in 1 .. n : ks[i] = k
    BY <1>5
  <2>2. PICK j \in 1 .. Len(ks) : ks[j] = other
    BY <1>2
  <2>3. ~(j \in 1 .. n)
    BY <1>5, <2>2
  <2>4. i \in 1 .. Len(ks) /\ i < j
    BY <1>2, <1>4, <2>1, <2>2, <2>3
  <2> QED BY <1>2, <2>1, <2>2, <2>4
<1>9. P!FirstOf(page, K)
  BY <1>8 DEF P!FirstOf
<1>10. ASSUME Len(ks) > limit
       PROVE  page # K /\ P!LastOf(ks[limit], page) /\ ks[limit] \in K
  <2>1. n = limit /\ limit \in 1 .. Len(ks) /\ limit + 1 \in 1 .. Len(ks)
    BY <1>2, <1>3, <1>n, <1>10
  <2>2. ASSUME NEW i \in 1 .. n PROVE ks[i] # ks[limit + 1]
    <3>1. i \in 1 .. Len(ks) /\ i < limit + 1
      BY <1>2, <1>3, <1>4, <2>1
    <3>2. Before(ks[i], ks[limit + 1]) /\ ks[i] \in Keys
      BY <1>2, <2>1, <3>1
    <3> QED BY <3>2, OrderAssumption
  <2>3. page # K
    BY <1>2, <1>5, <2>1, <2>2
  <2>4. ASSUME NEW other \in page PROVE other = ks[limit] \/ Before(other, ks[limit])
    <3>1. PICK i \in 1 .. n : ks[i] = other
      BY <1>5
    <3>2. i \in 1 .. limit /\ limit \in Nat /\ limit <= Len(ks) /\ Len(ks) \in Nat
      BY <1>2, <1>3, <2>1
    <3>3. i \in 1 .. Len(ks) /\ (i = limit \/ i < limit)
      <4> HIDE <2>1
      <4> QED BY <3>2, SMT
    <3> QED BY <1>2, <2>1, <3>1, <3>3
  <2>5. ks[limit] \in page
    BY <1>3, <1>5, <2>1
  <2> QED BY <1>2, <2>1, <2>3, <2>4, <2>5 DEF P!LastOf
<1>11. ASSUME ~(Len(ks) > limit) PROVE page = K
  BY <1>2, <1>5, <1>n, <1>11
<1> QED BY <1>1, <1>3, <1>4, <1>6, <1>7, <1>9, <1>10, <1>11 DEF n, page

----------------------------------------------------------------------------
(* Keys: every row of the database has a key, and no two rows one key.   *)

Stores == [Files -> 0 .. MaxEdition]

\* What parseCursor takes.
RecordParses(key) ==
    /\ Positive(key, {3, 4}) /\ key[6] \in {Symbol, Use} /\ key[7] >= 0
    /\ key[8] \in SymbolKinds /\ key[9] >= 0

\* A row is one of an edition of its file.
LEMMA RowOf ==
    ASSUME NEW ed \in Stores, NEW kind, NEW r \in RowsIn(ed, kind)
    PROVE  \E f \in Files : ed[f] \in 1 .. MaxEdition /\ r \in Edition(f, ed[f])[kind]
<1>1. PICK f \in {g \in Files : ed[g] > 0} : r \in Edition(f, ed[f])[kind]
  BY DEF RowsIn
<1>2. ed[f] \in 0 .. MaxEdition /\ MaxEdition \in Nat
  BY FilesAssumption DEF Stores
<1> QED BY <1>1, <1>2

\* Rows in files of one variant and path are in one file.
LEMMA OneFile ==
    ASSUME NEW f \in Files, NEW g \in Files, f.variant = g.variant, Rank(f.path) = Rank(g.path)
    PROVE  f = g
<1>1. ASSUME NEW p \in ToSet(Paths) PROVE Paths[Rank(p)] = p
  <2>1. \E i \in DOMAIN Paths : Paths[i] = p
    BY DEF ToSet
  <2> QED BY <2>1 DEF Rank
<1>2. f.path = g.path
  BY <1>1, FilesAssumption
<1> QED BY <1>2, FilesAssumption

\* Every record has a key of its own.
LEMMA RecordKeys ==
    ASSUME NEW ed \in Stores
    PROVE  /\ \A r \in RowsIn(ed, "records") :
                /\ RecordKey(r) \in Keys /\ Len(RecordKey(r)) = 9
                /\ ValidCursor(RecordKey(r)) /\ RecordParses(RecordKey(r))
           /\ \A a, b \in RowsIn(ed, "records") : RecordKey(a) = RecordKey(b) => a = b
<1>1. ASSUME NEW r \in RowsIn(ed, "records")
      PROVE  /\ RecordKey(r) \in Keys /\ Len(RecordKey(r)) = 9
             /\ ValidCursor(RecordKey(r)) /\ RecordParses(RecordKey(r))
  <2>1. Len(RecordKey(r)) = 9
    BY DEF RecordKey
  <2>2. PICK f \in Files : ed[f] \in 1 .. MaxEdition /\ r \in Edition(f, ed[f]).records
    BY RowOf
  <2>3. /\ RecordKey(r) \in Keys /\ r.symbol # 0 /\ r.line > 0 /\ r.column > 0
        /\ r.record \in {Symbol, Use} /\ r.action >= 0 /\ r.kind \in SymbolKinds /\ r.mode >= 0
        /\ r.variant = f.variant
    BY <2>2, RowsAssumption
  <2>4. RecordKey(r) \in Seq(Int) /\ r.variant # 0
    BY <2>2, <2>3, KeyOrderAssumption, FilesAssumption
  <2>5. ValidCursor(RecordKey(r))
    BY <2>3, <2>4 DEF ValidCursor, RecordKey
  <2>6. RecordParses(RecordKey(r))
    BY <2>3, <2>4 DEF RecordParses, Positive, RecordKey
  <2> QED BY <2>1, <2>3, <2>5, <2>6
<1>2. ASSUME NEW a \in RowsIn(ed, "records"), NEW b \in RowsIn(ed, "records"),
             RecordKey(a) = RecordKey(b)
      PROVE  a = b
  <2>1. PICK f \in Files : ed[f] \in 1 .. MaxEdition /\ a \in Edition(f, ed[f]).records
    BY RowOf
  <2>2. PICK g \in Files : ed[g] \in 1 .. MaxEdition /\ b \in Edition(g, ed[g]).records
    BY RowOf
  <2>3. a.variant = f.variant /\ a.path = f.path /\ b.variant = g.variant /\ b.path = g.path
    BY <2>1, <2>2, RowsAssumption
  <2>4. a.variant = b.variant /\ Rank(a.path) = Rank(b.path)
    BY <1>2 DEF RecordKey
  <2>5. f = g
    BY <2>3, <2>4, OneFile
  <2> QED BY <1>2, <2>1, <2>2, <2>5, RowsAssumption DEF Distinct
<1> QED BY <1>1, <1>2

\* Among the types of one symbol, each has a key of its own.
LEMMA SymbolTypeKeys ==
    ASSUME NEW ed \in Stores, NEW i
    PROVE  /\ \A t \in SymbolTypesOf(ed, i) :
                /\ SymbolTypeKey(t) \in Keys /\ Len(SymbolTypeKey(t)) = 6
                /\ SymbolTypeKey(t)[4] \in TypeKinds
           /\ \A a, b \in SymbolTypesOf(ed, i) : SymbolTypeKey(a) = SymbolTypeKey(b) => a = b
<1>1. ASSUME NEW t \in SymbolTypesOf(ed, i)
      PROVE  /\ SymbolTypeKey(t) \in Keys /\ Len(SymbolTypeKey(t)) = 6
             /\ SymbolTypeKey(t)[4] \in TypeKinds
  <2>1. Len(SymbolTypeKey(t)) = 6 /\ SymbolTypeKey(t)[4] = t.typeKind
    BY DEF SymbolTypeKey
  <2>2. t \in RowsIn(ed, "types")
    BY DEF SymbolTypesOf
  <2>3. PICK f \in Files : ed[f] \in 1 .. MaxEdition /\ t \in Edition(f, ed[f]).types
    BY <2>2, RowOf
  <2>4. SymbolTypeKey(t) \in Keys /\ t.typeKind \in TypeKinds
    BY <2>3, RowsAssumption
  <2> QED BY <2>1, <2>4
<1>2. ASSUME NEW a \in SymbolTypesOf(ed, i), NEW b \in SymbolTypesOf(ed, i),
             SymbolTypeKey(a) = SymbolTypeKey(b)
      PROVE  a = b
  <2>0. /\ a \in RowsIn(ed, "types") /\ b \in RowsIn(ed, "types")
        /\ a.symbol = b.symbol /\ a.kind = b.kind /\ a.usr = b.usr /\ a.variant = b.variant
    BY DEF SymbolTypesOf
  <2>1. PICK f \in Files : ed[f] \in 1 .. MaxEdition /\ a \in Edition(f, ed[f]).types
    BY <2>0, RowOf
  <2>2. PICK g \in Files : ed[g] \in 1 .. MaxEdition /\ b \in Edition(g, ed[g]).types
    BY <2>0, RowOf
  <2>3. a.variant = f.variant /\ a.path = f.path /\ b.variant = g.variant /\ b.path = g.path
    BY <2>1, <2>2, RowsAssumption
  <2>4. Rank(a.path) = Rank(b.path)
    BY <1>2 DEF SymbolTypeKey
  <2>5. f = g
    BY <2>0, <2>3, <2>4, OneFile
  <2> QED BY <1>2, <2>0, <2>1, <2>2, <2>5, RowsAssumption DEF Distinct
<1> QED BY <1>1, <1>2

\* And among the types of one function.
LEMMA FunctionTypeKeys ==
    ASSUME NEW ed \in Stores, NEW i
    PROVE  /\ \A t \in FunctionTypesOf(ed, i) :
                /\ FunctionTypeKey(t) \in Keys /\ Len(FunctionTypeKey(t)) = 7
                /\ FunctionTypeKey(t)[1] >= -1 /\ FunctionTypeKey(t)[5] \in TypeKinds
           /\ \A a, b \in FunctionTypesOf(ed, i) : FunctionTypeKey(a) = FunctionTypeKey(b) => a = b
<1>1. ASSUME NEW t \in FunctionTypesOf(ed, i)
      PROVE  /\ FunctionTypeKey(t) \in Keys /\ Len(FunctionTypeKey(t)) = 7
             /\ FunctionTypeKey(t)[1] >= -1 /\ FunctionTypeKey(t)[5] \in TypeKinds
  <2>1. /\ Len(FunctionTypeKey(t)) = 7
        /\ FunctionTypeKey(t)[1] = t.position /\ FunctionTypeKey(t)[5] = t.typeKind
    BY DEF FunctionTypeKey, SymbolTypeKey
  <2>2. t \in RowsIn(ed, "signatures")
    BY DEF FunctionTypesOf
  <2>3. PICK f \in Files : ed[f] \in 1 .. MaxEdition /\ t \in Edition(f, ed[f]).signatures
    BY <2>2, RowOf
  <2>4. FunctionTypeKey(t) \in Keys /\ t.typeKind \in TypeKinds /\ t.position >= -1
    BY <2>3, RowsAssumption
  <2> QED BY <2>1, <2>4
<1>2. ASSUME NEW a \in FunctionTypesOf(ed, i), NEW b \in FunctionTypesOf(ed, i),
             FunctionTypeKey(a) = FunctionTypeKey(b)
      PROVE  a = b
  <2>0. /\ a \in RowsIn(ed, "signatures") /\ b \in RowsIn(ed, "signatures")
        /\ a.symbol = b.symbol /\ a.usr = b.usr /\ a.variant = b.variant
    BY DEF FunctionTypesOf
  <2>1. PICK f \in Files : ed[f] \in 1 .. MaxEdition /\ a \in Edition(f, ed[f]).signatures
    BY <2>0, RowOf
  <2>2. PICK g \in Files : ed[g] \in 1 .. MaxEdition /\ b \in Edition(g, ed[g]).signatures
    BY <2>0, RowOf
  <2>3. a.variant = f.variant /\ a.path = f.path /\ b.variant = g.variant /\ b.path = g.path
    BY <2>1, <2>2, RowsAssumption
  <2>4. Rank(a.path) = Rank(b.path)
    <3>1. FunctionTypeKey(a)[7] = Rank(a.path) /\ FunctionTypeKey(b)[7] = Rank(b.path)
      BY DEF FunctionTypeKey, SymbolTypeKey
    <3> QED BY <1>2, <3>1
  <2>5. f = g
    BY <2>0, <2>3, <2>4, OneFile
  <2> QED BY <1>2, <2>0, <2>1, <2>2, <2>5, RowsAssumption DEF Distinct
<1> QED BY <1>1, <1>2

\* And among the calls of one function.
LEMMA CallKeys ==
    ASSUME NEW ed \in Stores, NEW direction \in {"callers", "callees"}, NEW function
    PROVE  LET calls == CallsOf(RowsIn(ed, "records"), function, direction)
           IN /\ \A r \in calls : CallKey(direction, r) \in Keys /\ Len(CallKey(direction, r)) = 5
              /\ \A a, b \in calls : CallKey(direction, a) = CallKey(direction, b) => a = b
<1> DEFINE calls == CallsOf(RowsIn(ed, "records"), function, direction)
<1>1. ASSUME NEW r \in calls
      PROVE  CallKey(direction, r) \in Keys /\ Len(CallKey(direction, r)) = 5
  <2>1. Len(CallKey(direction, r)) = 5
    BY DEF CallKey
  <2>2. r \in RowsIn(ed, "records") /\ IsCall(r)
    BY DEF CallsOf
  <2> QED BY <2>1, <2>2, RowOf, RowsAssumption
<1>2. ASSUME NEW a \in calls, NEW b \in calls, CallKey(direction, a) = CallKey(direction, b)
      PROVE  a = b
  <2>1. /\ a \in RowsIn(ed, "records") /\ b \in RowsIn(ed, "records")
        /\ IsCall(a) /\ IsCall(b) /\ Self(direction, a) = Self(direction, b)
    BY DEF CallsOf
  <2>2. /\ a.record = b.record /\ a.action = b.action /\ a.kind = b.kind
    BY <2>1 DEF IsCall
  <2>3. /\ Peer(direction, a).symbol = Peer(direction, b).symbol /\ Rank(a.path) = Rank(b.path)
        /\ a.line = b.line /\ a.column = b.column /\ a.mode = b.mode
    BY <1>2 DEF CallKey
  <2>4. a.variant = b.variant /\ a.symbol = b.symbol
    <3>1. CASE direction = "callers"
      BY <2>1, <3>1 DEF Self, Peer
    <3>2. CASE direction = "callees"
      BY <2>1, <2>3, <3>2 DEF Self, Peer
    <3> QED BY <3>1, <3>2
  <2>5. RecordKey(a) = RecordKey(b)
    BY <2>2, <2>3, <2>4 DEF RecordKey
  <2> QED BY <2>1, <2>5, RecordKeys
<1> QED BY <1>1, <1>2

\* The keys a page has to choose from.
Remain(K, after) == {k \in K : after = None \/ Before(after, k)}

\* A cursor into keys of length n.
Cursors(n) == {None} \cup {k \in Keys : Len(k) = n}

\* Rows with keys of one table are sorted by them.
LEMMA KeysSort ==
    ASSUME NEW rows, NEW k, NEW n,
           \A r \in rows : k[r] \in Keys /\ Len(k[r]) = n,
           \A a, b \in rows : k[a] = k[b] => a = b
    PROVE  InOrder(OrderedBy(rows, k), rows, k) /\ Sorts(rows, k)
<1>2. IsFiniteSet(rows)
  <2> DEFINE f == [r \in rows |-> k[r]]
  <2>1. f \in Injection(rows, Keys)
    BY DEF Injection, IsInjective
  <2> HIDE DEF f
  <2> QED BY <2>1, FS_Injection, KeysAssumption
<1>3. Sorts(rows, k)
  <2>1. \A a, b \in rows : Before(k[a], k[b]) <=> LexLess(k[a], k[b])
    BY KeyOrderAssumption
  <2>2. \A a, b \in rows : a # b => k[a] # k[b]
    OBVIOUS
  <2>3. \A a \in rows : ~Before(k[a], k[a])
    BY OrderAssumption
  <2>4. \A a, b \in rows : a # b => Before(k[a], k[b]) \/ Before(k[b], k[a])
    BY <2>2, OrderAssumption
  <2>5. \A a, b, c \in rows : Before(k[a], k[b]) /\ Before(k[b], k[c]) => Before(k[a], k[c])
    BY OrderAssumption
  <2> QED BY <2>1, <2>3, <2>4, <2>5 DEF Sorts
<1> QED BY <1>2, <1>3, Sorting

\* The rows of a statement with a limit of one more than is shown.
LEMMA LimitedTwice ==
    ASSUME NEW rows, NEW seq \in Seq(rows), NEW limit \in Nat, limit = 0 => seq = <<>>,
           NEW all, all = seq \/ all = Limited(seq, limit + 1)
    PROVE  /\ Limited(all, limit) \in Seq(rows)
           /\ Len(Limited(all, limit)) = (IF Len(seq) > limit THEN limit ELSE Len(seq))
           /\ \A i \in 1 .. Len(Limited(all, limit)) : Limited(all, limit)[i] = seq[i]
           /\ Len(all) > limit <=> Len(seq) > limit
<1> DEFINE m == limit + 1
<1>1. m \in Nat /\ m = limit + 1 /\ m # 0 /\ (all = seq \/ all = Limited(seq, m))
  OBVIOUS
<1>2. Len(seq) \in Nat
  OBVIOUS
<1> HIDE DEF m
<1>3. /\ Limited(seq, m) \in Seq(rows)
      /\ Len(Limited(seq, m)) = (IF Len(seq) > m THEN m ELSE Len(seq))
      /\ \A i \in 1 .. Len(Limited(seq, m)) : Limited(seq, m)[i] = seq[i]
  BY <1>1, Limiting
<1>4. /\ all \in Seq(rows) /\ (Len(all) > limit <=> Len(seq) > limit)
      /\ Len(all) <= Len(seq) /\ (Len(seq) <= limit => Len(all) = Len(seq))
      /\ \A i \in 1 .. Len(all) : all[i] = seq[i]
  BY <1>1, <1>2, <1>3
<1>5. limit = 0 => all = <<>>
  BY <1>4
<1>6. /\ Limited(all, limit) \in Seq(rows)
      /\ Len(Limited(all, limit)) = (IF Len(all) > limit THEN limit ELSE Len(all))
      /\ \A i \in 1 .. Len(Limited(all, limit)) : Limited(all, limit)[i] = all[i]
  BY <1>4, <1>5, Limiting
<1>7. Len(Limited(all, limit)) = (IF Len(seq) > limit THEN limit ELSE Len(seq))
  <2>1. Len(all) \in Nat
    BY <1>4
  <2> QED BY <1>2, <1>4, <1>6, <2>1
<1>8. \A i \in 1 .. Len(Limited(all, limit)) : i \in 1 .. Len(all)
  <2>1. Len(all) \in Nat
    BY <1>4
  <2> QED BY <1>6, <2>1
<1> QED BY <1>4, <1>6, <1>7, <1>8

\* The rows after a cursor are sorted, and have the keys after it.
LEMMA SortedRows ==
    ASSUME NEW M, NEW n, NEW after \in Cursors(n),
           \A r \in M : Key(r) \in Keys /\ Len(Key(r)) = n,
           \A a, b \in M : Key(a) = Key(b) => a = b,
           NEW rows, rows = {r \in M : after = None \/ LexLess(after, Key(r))}
    PROVE  LET k == [r \in rows |-> Key(r)]
           IN /\ InOrder(OrderedBy(rows, k), rows, k)
              /\ {Key(r) : r \in rows} = Remain({Key(r) : r \in M}, after)
<1> DEFINE k == [r \in rows |-> Key(r)]
<1>1. /\ \A r \in rows : k[r] \in Keys /\ Len(k[r]) = n
      /\ \A a, b \in rows : k[a] = k[b] => a = b
  OBVIOUS
<1>2. \A r \in M : after # None => (LexLess(after, Key(r)) <=> Before(after, Key(r)))
  BY KeyOrderAssumption DEF Cursors
<1>3. {Key(r) : r \in rows} = Remain({Key(r) : r \in M}, after)
  BY <1>2 DEF Remain
<1> HIDE DEF k
<1>4. InOrder(OrderedBy(rows, k), rows, k)
  BY <1>1, KeysSort
<1> QED BY <1>3, <1>4 DEF k

\* An answer that has the first of the rows, which are in order.
LEMMA FirstRows ==
    ASSUME NEW rows, NEW n, \A r \in rows : Key(r) \in Keys /\ Len(Key(r)) = n,
           NEW k, \A r \in rows : k[r] = Key(r), NEW seq, InOrder(seq, rows, k),
           NEW limit \in Nat, limit = 0 => Keys = {},
           NEW all, all = seq \/ all = Limited(seq, limit + 1),
           NEW reply, reply.status = "Success", reply.rows = Limited(all, limit),
           reply.truncated <=> Len(all) > limit
    PROVE  /\ IsReply(reply, {Key(r) : r \in rows}, limit)
           /\ reply.rows \in Seq(rows)
<1>2. seq \in Seq(rows) /\ Len(seq) \in Nat
  BY DEF InOrder
<1>3. limit = 0 => seq = <<>>
  <2>1. limit = 0 => rows = {}
    OBVIOUS
  <2> QED BY <1>2, <2>1
<1>4. /\ reply.rows \in Seq(rows)
      /\ Len(reply.rows) = (IF Len(seq) > limit THEN limit ELSE Len(seq))
      /\ \A i \in 1 .. Len(reply.rows) : reply.rows[i] = seq[i]
      /\ Len(all) > limit <=> Len(seq) > limit
  <2> DEFINE shown == Limited(all, limit)
  <2>1. /\ shown \in Seq(rows)
        /\ Len(shown) = (IF Len(seq) > limit THEN limit ELSE Len(seq))
        /\ \A i \in 1 .. Len(shown) : shown[i] = seq[i]
        /\ Len(all) > limit <=> Len(seq) > limit
    BY <1>2, <1>3, LimitedTwice
  <2>2. reply.rows = shown
    OBVIOUS
  <2> HIDE DEF shown
  <2> QED BY <2>1, <2>2
<1>5. Len(seq) > limit => Last(reply.rows) = seq[limit]
  <2> SUFFICES ASSUME Len(seq) > limit PROVE Last(reply.rows) = seq[limit]
    OBVIOUS
  <2>1. Len(reply.rows) = limit /\ limit # 0
    BY <1>3, <1>4
  <2> QED BY <1>4, <2>1 DEF Last
<1>6. reply.truncated <=> Len(seq) > limit
  BY <1>4
<1> QED BY <1>3, <1>4, <1>5, <1>6, Replying

----------------------------------------------------------------------------
(* Queries: a statement with a cursor and a limit answers with a page.   *)

OptionNames ==
    {"symbol", "path", "variant", "context", "record", "kind", "usr", "local", "after", "limit"}

\* What is asked for does not depend on the page.
LEMMA PageOptions ==
    ASSUME NEW o, DOMAIN o = OptionNames, NEW after, NEW limit
    PROVE  LET p == [o EXCEPT !.after = after, !.limit = limit]
           IN /\ p.after = after /\ p.limit = limit
              /\ \A r : MatchesQuery(p, r) <=> MatchesQuery(o, r)
<1> DEFINE q == [o EXCEPT !.after = after]
           p == [q EXCEPT !.limit = limit]
<1>1. DOMAIN q = OptionNames /\ q.after = after
      /\ q.symbol = o.symbol /\ q.path = o.path /\ q.variant = o.variant /\ q.context = o.context
      /\ q.record = o.record /\ q.kind = o.kind /\ q.usr = o.usr /\ q.local = o.local
  BY DEF OptionNames
<1> HIDE DEF q
<1>2. p.after = q.after /\ p.limit = limit
      /\ p.symbol = q.symbol /\ p.path = q.path /\ p.variant = q.variant /\ p.context = q.context
      /\ p.record = q.record /\ p.kind = q.kind /\ p.usr = q.usr /\ p.local = q.local
  BY <1>1 DEF OptionNames
<1>3. p = [o EXCEPT !.after = after, !.limit = limit]
  BY DEF q
<1> HIDE DEF p
<1>4. \A r : MatchesQuery(p, r) <=> MatchesQuery(o, r)
  BY <1>1, <1>2 DEF MatchesQuery
<1> QED BY <1>1, <1>2, <1>3, <1>4

LEMMA OptionsOfTools ==
    /\ DOMAIN NoFilters = OptionNames
    /\ \A a : DOMAIN SearchOptions(a) = OptionNames
    /\ \A a, filter : DOMAIN NameFilters(a, filter) = OptionNames
    /\ \A i, filter : DOMAIN IdentityFilters(i, filter) = OptionNames
<1>1. DOMAIN NoFilters = OptionNames
  BY DEF NoFilters, OptionNames
<1>2. ASSUME NEW a PROVE DOMAIN SearchOptions(a) = OptionNames
  BY <1>1 DEF SearchOptions
<1>3. ASSUME NEW a, NEW filter PROVE DOMAIN NameFilters(a, filter) = OptionNames
  BY <1>1 DEF NameFilters
<1>4. ASSUME NEW i, NEW filter PROVE DOMAIN IdentityFilters(i, filter) = OptionNames
  BY <1>1 DEF IdentityFilters
<1> QED BY <1>1, <1>2, <1>3, <1>4

\* An error, which has no rows.
Refuses(reply) == reply.status # "Success" /\ reply.rows = <<>> /\ ~reply.truncated

LEMMA Errors == Refuses(InvalidParams) /\ Refuses(DatabaseError)
BY DEF Refuses, InvalidParams, DatabaseError

\* The rows of a table after a cursor, in order, and the page that shows the first.
RowsAfter(M, after) == {r \in M : after = None \/ LexLess(after, Key(r))}

SortedAfter(M, after) == OrderedBy(RowsAfter(M, after), [r \in RowsAfter(M, after) |-> Key(r)])

PageOf(all, limit) ==
    [status |-> "Success", rows |-> Limited(all, limit), truncated |-> Len(all) > limit,
     nextCursor |-> IF Len(all) > limit THEN Key(Last(Limited(all, limit))) ELSE None]

LEMMA PageServes ==
    ASSUME NEW M, NEW n, NEW after \in Cursors(n), NEW limit \in Nat, limit = 0 => Keys = {},
           \A r \in M : Key(r) \in Keys /\ Len(Key(r)) = n,
           \A a, b \in M : Key(a) = Key(b) => a = b,
           NEW all, all = SortedAfter(M, after) \/ all = Limited(SortedAfter(M, after), limit + 1)
    PROVE  IsReply(PageOf(all, limit), Remain({Key(r) : r \in M}, after), limit)
<1> DEFINE rows == RowsAfter(M, after)
           k == [r \in rows |-> Key(r)]
           seq == OrderedBy(rows, k)
           reply == PageOf(all, limit)
<1>1. /\ reply.status = "Success" /\ reply.rows = Limited(all, limit)
      /\ reply.truncated <=> Len(all) > limit
  BY DEF PageOf
<1>2. InOrder(seq, rows, k) /\ {Key(r) : r \in rows} = Remain({Key(r) : r \in M}, after)
  BY SortedRows DEF RowsAfter
<1>3. /\ \A r \in rows : Key(r) \in Keys /\ Len(Key(r)) = n
      /\ \A r \in rows : k[r] = Key(r)
  BY DEF RowsAfter
<1>4. all = seq \/ all = Limited(seq, limit + 1)
  BY DEF SortedAfter
<1> HIDE DEF reply, seq, rows, k
<1>5. IsReply(reply, {Key(r) : r \in rows}, limit)
  BY <1>1, <1>2, <1>3, <1>4, FirstRows
<1> QED BY <1>2, <1>5 DEF reply

\* A request for records, of which o says which.
LEMMA QueryServes ==
    ASSUME NEW ed \in Stores, NEW o, DOMAIN o = OptionNames, \A r : Key(r) = RecordKey(r),
           NEW after \in Cursors(9), NEW limit \in Nat, limit = 0 => Keys = {}
    PROVE  LET p == [o EXCEPT !.after = after, !.limit = limit + 1]
               reply == Result(Query(ed, p), RecordKey, limit)
               M == {r \in RowsIn(ed, "records") : MatchesQuery(o, r)}
           IN \/ IsReply(reply, Remain({Key(r) : r \in M}, after), limit)
              \/ after # None /\ ~ValidCursor(after) /\ Refuses(reply)
<1> DEFINE p == [o EXCEPT !.after = after, !.limit = limit + 1]
           found == Query(ed, p)
           reply == Result(found, RecordKey, limit)
           M == {r \in RowsIn(ed, "records") : MatchesQuery(o, r)}
           all == Limited(SortedAfter(M, after), limit + 1)
<1>1. /\ p.after = after /\ p.limit = limit + 1
      /\ \A r : MatchesQuery(p, r) <=> MatchesQuery(o, r)
  BY PageOptions
<1> HIDE DEF p
<1>2. CASE after # None /\ ~ValidCursor(after)
  <2>1. found = Failed
    BY <1>1, <1>2 DEF Query
  <2>2. Failed.ret = "error"
    BY DEF Failed
  <2> HIDE DEF found
  <2>3. reply = DatabaseError
    BY <2>1, <2>2, Zenon DEF Result
  <2> QED BY <1>2, <2>3, Errors DEF p, found
<1>3. CASE ~(after # None /\ ~ValidCursor(after))
  <2>1. found = Answer(Limited(Ordered(After({r \in RowsIn(ed, "records") : MatchesQuery(p, r)},
                                             RecordKey, p.after), RecordKey), p.limit))
    BY <1>1, <1>3, Zenon DEF Query
  <2>2. After({r \in RowsIn(ed, "records") : MatchesQuery(p, r)}, RecordKey, p.after)
           = RowsAfter(M, after)
    BY <1>1 DEF After, RowsAfter
  <2> DEFINE rows == RowsAfter(M, after)
  <2>3. Ordered(rows, RecordKey) = SortedAfter(M, after)
    <3>1. Ordered(rows, RecordKey) = OrderedBy(rows, [r \in rows |-> RecordKey(r)])
      BY Zenon DEF Ordered
    <3>2. [r \in rows |-> RecordKey(r)] = [r \in rows |-> Key(r)]
      OBVIOUS
    <3> QED BY <3>1, <3>2, Zenon DEF SortedAfter
  <2>4. found = Answer(all)
    <3> HIDE DEF M
    <3> QED BY <1>1, <2>1, <2>2, <2>3, Zenon DEF Ordered
  <2> HIDE DEF found
  <2>5. found.ret = "ok" /\ found.rows = all
    BY <2>4 DEF Answer
  <2>6. reply = PageOf(all, limit)
    <3> HIDE DEF all
    <3>1. reply = [status |-> "Success", rows |-> Limited(all, limit), truncated |-> Len(all) > limit,
                   nextCursor |-> IF Len(all) > limit THEN RecordKey(Last(Limited(all, limit))) ELSE None]
      BY <2>5, Zenon DEF Result
    <3> QED BY <3>1, Zenon DEF PageOf
  <2>7. /\ \A r \in M : Key(r) \in Keys /\ Len(Key(r)) = 9
        /\ \A a, b \in M : Key(a) = Key(b) => a = b
    BY RecordKeys
  <2> HIDE DEF M, reply
  <2>8. IsReply(reply, Remain({Key(r) : r \in M}, after), limit)
    BY <2>6, <2>7, PageServes
  <2> QED BY <2>8 DEF reply, found, p, M
<1> QED BY <1>2, <1>3

\* A request for the types of a symbol.
LEMMA SymbolTypesServe ==
    ASSUME NEW ed \in Stores, NEW i, \A t : Key(t) = SymbolTypeKey(t), ValidIdentity(i),
           NEW after \in Cursors(6), NEW limit \in Nat, limit = 0 => Keys = {}
    PROVE  IsReply(Result(QuerySymbolTypes(ed, i, after, limit + 1), SymbolTypeKey, limit),
                   Remain({Key(t) : t \in SymbolTypesOf(ed, i)}, after), limit)
<1> DEFINE found == QuerySymbolTypes(ed, i, after, limit + 1)
           reply == Result(found, SymbolTypeKey, limit)
           M == SymbolTypesOf(ed, i)
           rows == RowsAfter(M, after)
           all == Limited(SortedAfter(M, after), limit + 1)
<1>1. found = Answer(Limited(Ordered(After(M, SymbolTypeKey, after), SymbolTypeKey), limit + 1))
  BY Zenon DEF QuerySymbolTypes
<1>2. After(M, SymbolTypeKey, after) = rows
  BY DEF After, RowsAfter
<1>3. Ordered(rows, SymbolTypeKey) = SortedAfter(M, after)
  <2>1. Ordered(rows, SymbolTypeKey) = OrderedBy(rows, [t \in rows |-> SymbolTypeKey(t)])
    BY Zenon DEF Ordered
  <2>2. [t \in rows |-> SymbolTypeKey(t)] = [t \in rows |-> Key(t)]
    OBVIOUS
  <2> QED BY <2>1, <2>2, Zenon DEF SortedAfter
<1>4. found = Answer(all)
  BY <1>1, <1>2, <1>3, Zenon DEF Ordered
<1> HIDE DEF found
<1>5. found.ret = "ok" /\ found.rows = all
  BY <1>4 DEF Answer
<1>6. reply = PageOf(all, limit)
  <2> HIDE DEF all
  <2>1. reply = [status |-> "Success", rows |-> Limited(all, limit), truncated |-> Len(all) > limit,
                 nextCursor |-> IF Len(all) > limit THEN SymbolTypeKey(Last(Limited(all, limit))) ELSE None]
    BY <1>5, Zenon DEF Result
  <2> QED BY <2>1, Zenon DEF PageOf
<1>7. /\ \A t \in M : Key(t) \in Keys /\ Len(Key(t)) = 6
      /\ \A a, b \in M : Key(a) = Key(b) => a = b
  BY SymbolTypeKeys
<1> HIDE DEF M, reply
<1>8. IsReply(reply, Remain({Key(t) : t \in M}, after), limit)
  BY <1>6, <1>7, PageServes
<1> QED BY <1>8 DEF reply, found, M

\* A request for the types of a function.
LEMMA FunctionTypesServe ==
    ASSUME NEW ed \in Stores, NEW i, \A t : Key(t) = FunctionTypeKey(t),
           ValidIdentity(i), i.kind = FunctionKind,
           NEW after \in Cursors(7), NEW limit \in Nat, limit = 0 => Keys = {}
    PROVE  IsReply(Result(QueryFunctionTypes(ed, i, after, limit + 1), FunctionTypeKey, limit),
                   Remain({Key(t) : t \in FunctionTypesOf(ed, i)}, after), limit)
<1> DEFINE found == QueryFunctionTypes(ed, i, after, limit + 1)
           reply == Result(found, FunctionTypeKey, limit)
           M == FunctionTypesOf(ed, i)
           rows == RowsAfter(M, after)
           all == Limited(SortedAfter(M, after), limit + 1)
<1>1. found = Answer(Limited(Ordered(After(M, FunctionTypeKey, after), FunctionTypeKey), limit + 1))
  BY Zenon DEF QueryFunctionTypes
<1>2. After(M, FunctionTypeKey, after) = rows
  BY DEF After, RowsAfter
<1>3. Ordered(rows, FunctionTypeKey) = SortedAfter(M, after)
  <2>1. Ordered(rows, FunctionTypeKey) = OrderedBy(rows, [t \in rows |-> FunctionTypeKey(t)])
    BY Zenon DEF Ordered
  <2>2. [t \in rows |-> FunctionTypeKey(t)] = [t \in rows |-> Key(t)]
    OBVIOUS
  <2> QED BY <2>1, <2>2, Zenon DEF SortedAfter
<1>4. found = Answer(all)
  BY <1>1, <1>2, <1>3, Zenon DEF Ordered
<1> HIDE DEF found
<1>5. found.ret = "ok" /\ found.rows = all
  BY <1>4 DEF Answer
<1>6. reply = PageOf(all, limit)
  <2> HIDE DEF all
  <2>1. reply = [status |-> "Success", rows |-> Limited(all, limit), truncated |-> Len(all) > limit,
                 nextCursor |-> IF Len(all) > limit THEN FunctionTypeKey(Last(Limited(all, limit))) ELSE None]
    BY <1>5, Zenon DEF Result
  <2> QED BY <2>1, Zenon DEF PageOf
<1>7. /\ \A t \in M : Key(t) \in Keys /\ Len(Key(t)) = 7
      /\ \A a, b \in M : Key(a) = Key(b) => a = b
  BY FunctionTypeKeys
<1> HIDE DEF M, reply
<1>8. IsReply(reply, Remain({Key(t) : t \in M}, after), limit)
  BY <1>6, <1>7, PageServes
<1> QED BY <1>8 DEF reply, found, M

\* Rows in order are in order after one of them.
LEMMA SkipInOrder ==
    ASSUME NEW M, NEW key, NEW seq, InOrder(seq, M, key), Sorts(M, key), NEW m \in 1 .. Len(seq)
    PROVE  InOrder(SubSeq(seq, 1 + m, Len(seq)), {r \in M : LexLess(key[seq[m]], key[r])}, key)
<1> DEFINE rows == {r \in M : LexLess(key[seq[m]], key[r])}
           q == SubSeq(seq, 1 + m, Len(seq))
<1>1. /\ seq \in Seq(M) /\ Len(seq) \in Nat
      /\ \A i \in 1 .. Len(seq) : seq[i] \in M
      /\ \A r \in M : \E i \in 1 .. Len(seq) : seq[i] = r
      /\ \A i, j \in 1 .. Len(seq) : i < j => LexLess(key[seq[i]], key[seq[j]])
  BY DEF InOrder
<1>2. /\ q \in Seq(M) /\ Len(q) = Len(seq) - m
      /\ \A i \in 1 .. Len(q) : q[i] = seq[m + i]
  BY <1>1
<1> HIDE DEF q
<1>3. ASSUME NEW i \in 1 .. Len(q) PROVE m + i \in 1 .. Len(seq) /\ m < m + i
  BY <1>1, <1>2
<1>4. \A i \in 1 .. Len(q) : q[i] \in rows
  BY <1>1, <1>2, <1>3
<1>5. q \in Seq(rows)
  <2> HIDE DEF rows
  <2>1. q = [i \in 1 .. Len(q) |-> q[i]] /\ Len(q) \in Nat
    BY <1>1, <1>2
  <2> QED BY <1>4, <2>1
<1>6. ASSUME NEW r \in rows PROVE \E i \in 1 .. Len(q) : q[i] = r
  <2>1. PICK j \in 1 .. Len(seq) : seq[j] = r
    BY <1>1
  <2>2. ~(j < m) /\ j # m
    <3>1. ~LexLess(key[r], key[seq[m]]) /\ r # seq[m]
      BY <1>1 DEF Sorts
    <3> QED BY <1>1, <2>1, <3>1
  <2>3. j - m \in 1 .. Len(q) /\ m + (j - m) = j
    BY <1>1, <1>2, <2>2
  <2> QED BY <1>2, <2>1, <2>3
<1>7. ASSUME NEW i \in 1 .. Len(q), NEW j \in 1 .. Len(q), i < j
      PROVE  LexLess(key[q[i]], key[q[j]])
  <2>1. m + i < m + j
    BY <1>1, <1>2, <1>7
  <2> QED BY <1>1, <1>2, <1>3, <2>1
<1> HIDE DEF rows
<1>8. InOrder(q, rows, key)
  BY <1>5, <1>6, <1>7 DEF InOrder
<1> QED BY <1>8 DEF q, rows

\* A request for the calls of a function: its answer goes on behind the call the
\* cursor names, wherever that is now.
LEMMA CallsServe ==
    ASSUME NEW ed \in Stores, NEW a, NamesFunction(a), NEW direction \in {"callers", "callees"},
           \A r : Key(r) = CallKey(direction, r),
           NEW after, NEW limit \in Nat, limit = 0 => Keys = {}
    PROVE  LET reply == CallRecords(ed, a, direction, after, limit)
               M == CallsOf(RowsIn(ed, "records"), Function(a), direction)
               K == {Key(r) : r \in M}
           IN /\ ToSet(QueryCalls(ed, Function(a), direction).rows) = M
              /\ ToSet(reply.rows) \subseteq M
              /\ \/ after = None /\ IsReply(reply, Remain(K, None), limit)
                 \/ after # None /\ \E r \in M : /\ after = RecordKey(r)
                                                 /\ IsReply(reply, Remain(K, Key(r)), limit)
                 \/ after # None /\ after \notin {RecordKey(r) : r \in M} /\ Refuses(reply)
<1> DEFINE found == QueryCalls(ed, Function(a), direction)
           reply == CallRecords(ed, a, direction, after, limit)
           M == CallsOf(RowsIn(ed, "records"), Function(a), direction)
           K == {Key(r) : r \in M}
           k == [r \in M |-> Key(r)]
           seq == OrderedBy(M, k)
<1>1. found = Answer(seq)
  <2>1. Function(a).symbol # 0
    BY DEF NamesFunction, NamesSymbol, Function, Identity
  <2>2. found = Answer(OrderedBy(M, [r \in M |-> CallKey(direction, r)]))
    BY <2>1, Zenon DEF QueryCalls, Ordered
  <2>3. [r \in M |-> CallKey(direction, r)] = k
    OBVIOUS
  <2> QED BY <2>2, <2>3, Zenon
<1>2. /\ \A r \in M : Key(r) \in Keys /\ Len(Key(r)) = 5
      /\ \A r, q \in M : Key(r) = Key(q) => r = q
      /\ \A r, q \in M : RecordKey(r) = RecordKey(q) => r = q
  <2>1. M \subseteq RowsIn(ed, "records")
    BY DEF CallsOf
  <2> QED BY <2>1, CallKeys, RecordKeys
<1> HIDE DEF found, M
<1>3. found.ret = "ok" /\ found.rows = seq
  BY <1>1 DEF Answer
<1>4. InOrder(seq, M, k) /\ Sorts(M, k) /\ \A r \in M : k[r] = Key(r)
  <2>1. \A r \in M : k[r] = Key(r)
    OBVIOUS
  <2> HIDE DEF k
  <2>2. /\ \A r \in M : k[r] \in Keys /\ Len(k[r]) = 5
        /\ \A r, q \in M : k[r] = k[q] => r = q
    BY <1>2, <2>1
  <2> QED BY <2>1, <2>2, KeysSort
<1> HIDE DEF seq, k
<1>5. /\ seq \in Seq(M) /\ Len(seq) \in Nat
      /\ DOMAIN seq = 1 .. Len(seq) /\ \A i \in 1 .. Len(seq) : seq[i] \in M
      /\ \A i, j \in 1 .. Len(seq) : i < j => LexLess(k[seq[i]], k[seq[j]])
      /\ ToSet(found.rows) = M
  BY <1>3, <1>4 DEF InOrder, ToSet
<1> DEFINE PageIs(all) ==
              [status |-> "Success", rows |-> Limited(all, limit), truncated |-> Len(all) > limit,
               nextCursor |-> IF Len(all) > limit THEN RecordKey(Last(Limited(all, limit))) ELSE None]
<1>6. ASSUME NEW rows \in SUBSET M, NEW all, InOrder(all, rows, k), NEW page, page = PageIs(all)
      PROVE  IsReply(page, {Key(r) : r \in rows}, limit) /\ ToSet(page.rows) \subseteq M
  <2>1. /\ page.status = "Success" /\ page.rows = Limited(all, limit)
        /\ page.truncated <=> Len(all) > limit
    BY <1>6
  <2>2. /\ \A r \in rows : Key(r) \in Keys /\ Len(Key(r)) = 5
        /\ \A r \in rows : k[r] = Key(r)
    BY <1>2, <1>4
  <2> HIDE DEF PageIs
  <2>3. IsReply(page, {Key(r) : r \in rows}, limit) /\ page.rows \in Seq(rows)
    BY <1>6, <2>1, <2>2, FirstRows
  <2> QED BY <2>3 DEF ToSet
<1>7. CASE after = None
  <2>1. reply = PageIs(seq)
    <3>1. reply = IF found.ret = "error" THEN DatabaseError
                  ELSE [status |-> "Success", rows |-> Limited(found.rows, limit),
                        truncated |-> Len(found.rows) > limit,
                        nextCursor |-> IF Len(found.rows) > limit
                                       THEN RecordKey(Last(Limited(found.rows, limit))) ELSE None]
      BY <1>7, Zenon DEF CallRecords, CallPage, Result, found
    <3> HIDE DEF reply
    <3> QED BY <1>3, <3>1, Zenon
  <2> HIDE DEF PageIs, reply
  <2>2. IsReply(reply, K, limit) /\ ToSet(reply.rows) \subseteq M
    BY <1>4, <1>6, <2>1
  <2>3. Remain(K, None) = K
    BY DEF Remain
  <2> HIDE DEF K
  <2> QED BY <1>5, <1>7, <2>2, <2>3 DEF reply, M, K, found
<1>8. CASE after # None /\ after \notin {RecordKey(r) : r \in ToSet(found.rows)}
  <2>1. reply = InvalidParams
    BY <1>8, Zenon DEF CallRecords, CallPage, found
  <2>2. after \notin {RecordKey(r) : r \in M}
    BY <1>5, <1>8
  <2> HIDE DEF reply
  <2>3. Refuses(reply) /\ ToSet(reply.rows) \subseteq M
    BY <2>1, Errors DEF Refuses, ToSet
  <2> QED BY <1>5, <1>8, <2>2, <2>3 DEF reply, M, found
<1>9. CASE after # None /\ after \in {RecordKey(r) : r \in ToSet(found.rows)}
  <2> DEFINE here == {i \in DOMAIN found.rows : RecordKey(found.rows[i]) = after}
             m == CHOOSE i \in here : \A j \in here : i <= j
             rest == SubSeq(found.rows, 1 + m, Len(found.rows))
             answered == Answer(rest)
             rows == {r \in M : LexLess(k[seq[m]], k[r])}
  <2>1. reply = IF answered.ret = "error" THEN DatabaseError
                ELSE [status |-> "Success", rows |-> Limited(answered.rows, limit),
                      truncated |-> Len(answered.rows) > limit,
                      nextCursor |-> IF Len(answered.rows) > limit
                                     THEN RecordKey(Last(Limited(answered.rows, limit))) ELSE None]
    BY <1>9, Zenon DEF CallRecords, CallPage, Result, SkipTo, found
  <2>2. reply = PageIs(rest)
    <3> DEFINE x == rest
    <3> HIDE DEF x
    <3>1. answered = Answer(x)
      BY DEF x
    <3> HIDE DEF answered
    <3>2. answered.ret = "ok" /\ answered.rows = x
      BY <3>1 DEF Answer
    <3>3. reply = PageIs(x)
      <4> HIDE DEF reply
      <4> QED BY <2>1, <3>2, Zenon
    <3> QED BY <3>3, Zenon DEF x
  <2> HIDE DEF reply, PageIs
  <2>3. m \in 1 .. Len(seq) /\ RecordKey(seq[m]) = after
    <3>1. PICK i \in 1 .. Len(seq) : RecordKey(seq[i]) = after
      BY <1>3, <1>5, <1>9 DEF ToSet
    <3>2. \A j \in 1 .. Len(seq) : RecordKey(seq[j]) = after => j = i
      <4> SUFFICES ASSUME NEW j \in 1 .. Len(seq), RecordKey(seq[j]) = after, j # i PROVE FALSE
        OBVIOUS
      <4>1. seq[j] = seq[i]
        BY <1>2, <1>5, <3>1
      <4>2. ~LexLess(k[seq[i]], k[seq[j]]) /\ ~LexLess(k[seq[j]], k[seq[i]])
        BY <1>4, <1>5, <4>1 DEF Sorts
      <4> QED BY <1>5, <4>2
    <3>3. here = {i}
      BY <1>3, <1>5, <3>1, <3>2
    <3>4. m = i
      <4> HIDE DEF here
      <4> QED BY <3>3
    <3> QED BY <3>1, <3>4
  <2> HIDE DEF m
  <2>4. InOrder(rest, rows, k)
    BY <1>3, <1>4, <2>3, SkipInOrder
  <2>5. {Key(r) : r \in rows} = Remain(K, Key(seq[m])) /\ seq[m] \in M
    <3>1. seq[m] \in M /\ Key(seq[m]) \in Keys /\ k[seq[m]] = Key(seq[m])
      BY <1>2, <1>4, <1>5, <2>3
    <3>2. ASSUME NEW r \in M PROVE LexLess(k[seq[m]], k[r]) <=> Before(Key(seq[m]), Key(r))
      BY <1>2, <1>4, <3>1, KeyOrderAssumption
    <3>3. Key(seq[m]) # None
      BY <3>1, KeysAssumption, KeyOrderAssumption
    <3> QED BY <3>1, <3>2, <3>3 DEF Remain
  <2> HIDE DEF rest, K
  <2>6. IsReply(reply, {Key(r) : r \in rows}, limit) /\ ToSet(reply.rows) \subseteq M
    BY <1>6, <2>2, <2>4
  <2> HIDE DEF rows
  <2>7. \E r \in M : after = RecordKey(r) /\ IsReply(reply, Remain(K, Key(r)), limit)
    BY <2>3, <2>5, <2>6
  <2> QED BY <1>5, <1>9, <2>6, <2>7 DEF reply, M, K, found
<1> QED BY <1>7, <1>8, <1>9

\* The variants that were ever stored.
Variants == {f.variant : f \in Files}

\* A request for the variants.
LEMMA VariantsServe ==
    ASSUME NEW known, DOMAIN known \subseteq Variants, \A name : Key(name) = VariantKey(name),
           NEW after \in Cursors(1), NEW limit \in Nat, limit = 0 => Keys = {}
    PROVE  LET M == {name \in DOMAIN known : configured \in {0, name}}
           IN IsReply(ListVariantsPage(known, after, limit), Remain({Key(name) : name \in M}, after), limit)
<1> DEFINE reply == ListVariantsPage(known, after, limit)
           M == {name \in DOMAIN known : configured \in {0, name}}
           wanted == {name \in DOMAIN known : /\ after = None \/ name > after[1]
                                              /\ configured \in {0, name}}
           all == SortedAfter(M, after)
<1>1. /\ \A name \in M : Key(name) \in Keys /\ Len(Key(name)) = 1
      /\ \A a, b \in M : Key(a) = Key(b) => a = b
  <2>1. \A name \in M : VariantKey(name) \in Keys
    BY FilesAssumption DEF Variants
  <2>2. \A name : Len(VariantKey(name)) = 1
    BY DEF VariantKey
  <2>3. \A a, b : VariantKey(a) = VariantKey(b) => a = b
    BY DEF VariantKey
  <2> QED BY <2>1, <2>2, <2>3
<1>2. ASSUME after # None, NEW name \in M PROVE LexLess(after, Key(name)) <=> name > after[1]
  <2>1. after \in Seq(Int) /\ Len(after) = 1 /\ DOMAIN after = {1} /\ after[1] \in Int
    BY <1>2, KeyOrderAssumption DEF Cursors
  <2>2. VariantKey(name) \in Keys /\ VariantKey(name)[1] = name
    BY <1>1 DEF VariantKey
  <2>3. name \in Int
    BY <2>2, KeyOrderAssumption DEF VariantKey
  <2>4. LexLess(after, VariantKey(name)) <=> after[1] < VariantKey(name)[1]
    BY <2>1 DEF LexLess
  <2> QED BY <2>1, <2>2, <2>3, <2>4
<1>3. wanted = RowsAfter(M, after)
  BY <1>2 DEF RowsAfter
<1>4. DOMAIN Restrict(known, wanted) = wanted
  BY DEF Restrict
<1>5. ListVariants(Restrict(known, wanted)) = all
  <2>1. ListVariants(Restrict(known, wanted)) = OrderedBy(wanted, [name \in wanted |-> <<name>>])
    BY <1>4, Zenon DEF ListVariants, Ordered
  <2>2. [name \in wanted |-> <<name>>] = [name \in wanted |-> Key(name)]
    BY DEF VariantKey
  <2> QED BY <1>3, <2>1, <2>2, Zenon DEF SortedAfter
<1> DEFINE answered == Answer(ListVariants(Restrict(known, wanted)))
<1>6. reply = IF answered.ret = "error" THEN DatabaseError
              ELSE [status |-> "Success", rows |-> Limited(answered.rows, limit),
                    truncated |-> Len(answered.rows) > limit,
                    nextCursor |-> IF Len(answered.rows) > limit
                                   THEN VariantKey(Last(Limited(answered.rows, limit))) ELSE None]
  BY Zenon DEF ListVariantsPage, Result
<1>7. answered.ret = "ok" /\ answered.rows = all
  BY <1>5 DEF Answer
<1>8. reply = PageOf(all, limit)
  <2> HIDE DEF answered, reply, all
  <2> QED BY <1>6, <1>7, Zenon DEF PageOf
<1>9. IsReply(PageOf(all, limit), Remain({Key(name) : name \in M}, after), limit)
  <2> HIDE DEF M
  <2> QED BY <1>1, PageServes
<1> HIDE DEF reply
<1> QED BY <1>8, <1>9 DEF reply, M

----------------------------------------------------------------------------
(* Tools: every call is refused, or is a page of one set of keys.        *)

\* How many fields the keys of the tool have.
KeyLength ==
    IF request.tool \in {"search_symbols", "find_definitions", "find_references"} THEN 9
    ELSE IF request.tool = "find_declared_types" THEN 6
    ELSE IF request.tool = "find_function_signature" THEN 7
    ELSE IF request.tool \in {"find_callers", "find_callees"} THEN 5 ELSE 1

RecordTools == {"search_symbols", "find_definitions", "find_references"}

ToolKeys ==
    {k \in Keys : /\ Len(k) = KeyLength
                  /\ Parses(k)
                  /\ request.tool \in RecordTools => ValidCursor(k)}

\* The cursors of the tool, which are keys of records if it lists calls.
CursorLength == IF request.tool \in CallTools THEN 9 ELSE KeyLength

ToolCursors ==
    {k \in Keys : /\ Len(k) = CursorLength
                  /\ Parses(k)
                  /\ request.tool \in RecordTools => ValidCursor(k)}

\* The key behind which an answer goes on: the cursor, or that of the call it names.
IsPlace(ed, after, base) ==
    IF request.tool \in CallTools /\ after # None
    THEN \E r \in CallsListed(ed) : after = RecordKey(r) /\ base = Key(r)
    ELSE base = after

\* Why a tool may refuse a cursor: it names no record, or one that is gone.
NotHonoured(ed, after) ==
    /\ after # None
    /\ IF request.tool \in CallTools THEN after \notin {RecordKey(r) : r \in CallsListed(ed)}
       ELSE request.tool \in RecordTools /\ ~ValidCursor(after)

\* The calls of the request have the rows with the keys K, or none.
ServesKeys(ed, known, K) ==
    \A after \in Cursors(CursorLength), limit \in Nat :
        (limit = 0 => Keys = {}) =>
            LET reply == Call(ed, known, after, limit)
            IN  /\ request.tool \in CallTools => \A r \in ToSet(reply.rows) : RecordKey(r) \in ToolCursors
                /\ \/ \E base : IsPlace(ed, after, base) /\ IsReply(reply, Remain(K, base), limit)
                   \/ NotHonoured(ed, after) /\ Refuses(reply)

\* Some argument is refused, whatever is in the database.
Hopeless == \A ed, known, after, limit : Refuses(Call(ed, known, after, limit))

Serves(ed, known) ==
    \/ Hopeless
    \/ \E K \in SUBSET ToolKeys : ServesKeys(ed, known, K)

LEMMA CallOf ==
    ASSUME NEW ed, NEW known, NEW after, NEW limit
    PROVE  /\ request.tool = "search_symbols" =>
                Call(ed, known, after, limit) = SearchSymbols(ed, request, after, limit)
           /\ request.tool = "find_definitions" =>
                Call(ed, known, after, limit) = RelatedRecords(ed, request, "definition", after, limit)
           /\ request.tool = "find_references" =>
                Call(ed, known, after, limit) = RelatedRecords(ed, request, "reference", after, limit)
           /\ request.tool = "find_declared_types" =>
                Call(ed, known, after, limit) = DeclaredTypes(ed, request, after, limit)
           /\ request.tool = "find_function_signature" =>
                Call(ed, known, after, limit) = FunctionSignature(ed, request, after, limit)
           /\ request.tool = "find_callers" =>
                Call(ed, known, after, limit) = CallRecords(ed, request, "callers", after, limit)
           /\ request.tool = "find_callees" =>
                Call(ed, known, after, limit) = CallRecords(ed, request, "callees", after, limit)
           /\ request.tool = "list_variants" =>
                Call(ed, known, after, limit) = ListVariantsPage(known, after, limit)
<1>1. ASSUME request.tool = "search_symbols"
      PROVE  Call(ed, known, after, limit) = SearchSymbols(ed, request, after, limit)
  BY <1>1, Zenon DEF Call
<1>2. ASSUME request.tool = "find_definitions"
      PROVE  Call(ed, known, after, limit) = RelatedRecords(ed, request, "definition", after, limit)
  BY <1>2, Zenon DEF Call
<1>3. ASSUME request.tool = "find_references"
      PROVE  Call(ed, known, after, limit) = RelatedRecords(ed, request, "reference", after, limit)
  BY <1>3, Zenon DEF Call
<1>4. ASSUME request.tool = "find_declared_types"
      PROVE  Call(ed, known, after, limit) = DeclaredTypes(ed, request, after, limit)
  BY <1>4, Zenon DEF Call
<1>5. ASSUME request.tool = "find_function_signature"
      PROVE  Call(ed, known, after, limit) = FunctionSignature(ed, request, after, limit)
  BY <1>5, Zenon DEF Call
<1>6. ASSUME request.tool = "find_callers"
      PROVE  Call(ed, known, after, limit) = CallRecords(ed, request, "callers", after, limit)
  BY <1>6, Zenon DEF Call
<1>7. ASSUME request.tool = "find_callees"
      PROVE  Call(ed, known, after, limit) = CallRecords(ed, request, "callees", after, limit)
  BY <1>7, Zenon DEF Call
<1>8. ASSUME request.tool = "list_variants"
      PROVE  Call(ed, known, after, limit) = ListVariantsPage(known, after, limit)
  BY <1>8, Zenon DEF Call
<1> QED BY <1>1, <1>2, <1>3, <1>4, <1>5, <1>6, <1>7, <1>8

LEMMA KeyOf ==
    ASSUME NEW r
    PROVE  /\ request.tool \in {"search_symbols", "find_definitions", "find_references"} => Key(r) = RecordKey(r)
           /\ request.tool = "find_declared_types" => Key(r) = SymbolTypeKey(r)
           /\ request.tool = "find_function_signature" => Key(r) = FunctionTypeKey(r)
           /\ request.tool = "find_callers" => Key(r) = CallKey("callers", r)
           /\ request.tool = "find_callees" => Key(r) = CallKey("callees", r)
           /\ request.tool = "list_variants" => Key(r) = VariantKey(r)
<1>1. ASSUME request.tool \in {"search_symbols", "find_definitions", "find_references"}
      PROVE  Key(r) = RecordKey(r)
  BY <1>1, Zenon DEF Key, CallTools
<1>2. ASSUME request.tool = "find_declared_types" PROVE Key(r) = SymbolTypeKey(r)
  BY <1>2, Zenon DEF Key, CallTools
<1>3. ASSUME request.tool = "find_function_signature" PROVE Key(r) = FunctionTypeKey(r)
  BY <1>3, Zenon DEF Key, CallTools
<1>4. ASSUME request.tool = "find_callers" PROVE Key(r) = CallKey("callers", r)
  <2>1. Direction = "callers" /\ request.tool \in CallTools
    BY <1>4 DEF Direction, CallTools
  <2>2. Key(r) = CallKey(Direction, r)
    BY <1>4, <2>1, Zenon DEF Key
  <2> QED BY <2>1, <2>2
<1>5. ASSUME request.tool = "find_callees" PROVE Key(r) = CallKey("callees", r)
  <2>1. Direction = "callees" /\ request.tool \in CallTools
    BY <1>5 DEF Direction, CallTools
  <2>2. Key(r) = CallKey(Direction, r)
    BY <1>5, <2>1, Zenon DEF Key
  <2> QED BY <2>1, <2>2
<1>6. ASSUME request.tool = "list_variants" PROVE Key(r) = VariantKey(r)
  BY <1>6, Zenon DEF Key, CallTools
<1> QED BY <1>1, <1>2, <1>3, <1>4, <1>5, <1>6

LEMMA ParsesOf ==
    ASSUME NEW key
    PROVE  /\ request.tool \in RecordTools => (Parses(key) <=> RecordParses(key))
           /\ request.tool = "find_declared_types" => (Parses(key) <=> key[4] \in TypeKinds)
           /\ request.tool = "find_function_signature" =>
                (Parses(key) <=> key[1] >= -1 /\ key[5] \in TypeKinds)
           /\ request.tool \in CallTools \cup {"list_variants"} => Parses(key)
<1>1. ASSUME request.tool \in RecordTools PROVE Parses(key) <=> RecordParses(key)
  BY <1>1, Zenon DEF Parses, RecordParses, RecordTools
<1>2. ASSUME request.tool = "find_declared_types" PROVE Parses(key) <=> key[4] \in TypeKinds
  BY <1>2, Zenon DEF Parses
<1>3. ASSUME request.tool = "find_function_signature"
      PROVE  Parses(key) <=> key[1] >= -1 /\ key[5] \in TypeKinds
  BY <1>3, Zenon DEF Parses
<1>4. ASSUME request.tool \in CallTools \cup {"list_variants"} PROVE Parses(key)
  BY <1>4, Zenon DEF Parses, CallTools
<1> QED BY <1>1, <1>2, <1>3, <1>4

\* Where a cursor is a key, an answer goes on behind it.
LEMMA PlainServes ==
    ASSUME NEW ed, NEW known, NEW K, request.tool \notin CallTools,
           \A after \in Cursors(KeyLength), limit \in Nat :
              (limit = 0 => Keys = {}) =>
                 \/ IsReply(Call(ed, known, after, limit), Remain(K, after), limit)
                 \/ NotHonoured(ed, after) /\ Refuses(Call(ed, known, after, limit))
    PROVE  ServesKeys(ed, known, K)
<1>1. CursorLength = KeyLength /\ \A after : IsPlace(ed, after, after)
  BY DEF CursorLength, IsPlace
<1> QED BY <1>1 DEF ServesKeys

\* Rows whose keys the tool has serve its calls.
LEMMA SearchSymbolsServes ==
    ASSUME NEW ed \in Stores, NEW known, request.tool = "search_symbols"
    PROVE  Serves(ed, known)
<1> DEFINE bad == \/ ~Given(request.symbol) \/ request.symbol = 0
                  \/ SelectedVariant(request) = Malformed \/ request.kind = Malformed
<1>1. CASE bad
  <2>1. ASSUME NEW e, NEW k, NEW after, NEW limit PROVE Call(e, k, after, limit) = InvalidParams
    <3>1. SearchSymbols(e, request, after, limit) = InvalidParams
      BY <1>1, Zenon DEF SearchSymbols
    <3> QED BY <3>1, CallOf
  <2> QED BY <2>1, Errors DEF Serves, Hopeless
<1>2. CASE ~bad
  <2> DEFINE M == {r \in RowsIn(ed, "records") : MatchesQuery(SearchOptions(request), r)}
             K == {Key(r) : r \in M}
  <2>1. KeyLength = 9 /\ \A r : Key(r) = RecordKey(r)
    BY KeyOf DEF KeyLength
  <2>2. K \in SUBSET ToolKeys
    BY <2>1, RecordKeys, ParsesOf DEF ToolKeys, RecordTools
  <2>3. ASSUME NEW after \in Cursors(9), NEW limit \in Nat, limit = 0 => Keys = {}
        PROVE  \/ IsReply(Call(ed, known, after, limit), Remain(K, after), limit)
               \/ NotHonoured(ed, after) /\ Refuses(Call(ed, known, after, limit))
    <3>1. SearchSymbols(ed, request, after, limit)
            = Result(Query(ed, [SearchOptions(request) EXCEPT !.after = after, !.limit = limit + 1]),
                     RecordKey, limit)
      BY <1>2, Zenon DEF SearchSymbols
    <3>2. DOMAIN SearchOptions(request) = OptionNames
      BY OptionsOfTools
    <3> DEFINE reply == Result(Query(ed, [SearchOptions(request) EXCEPT !.after = after,
                                                                       !.limit = limit + 1]),
                               RecordKey, limit)
    <3>3. IsReply(reply, Remain(K, after), limit) \/ (NotHonoured(ed, after) /\ Refuses(reply))
      BY <2>1, <2>3, <3>2, QueryServes DEF NotHonoured, RecordTools, CallTools
    <3>4. Call(ed, known, after, limit) = SearchSymbols(ed, request, after, limit)
      BY CallOf
    <3>5. SearchSymbols(ed, request, after, limit) = reply
      BY <3>1, Zenon
    <3> HIDE DEF reply, K
    <3> QED BY <3>3, <3>4, <3>5
  <2> HIDE DEF K
  <2> QED BY <2>1, <2>2, <2>3, PlainServes DEF Serves, CallTools
<1> QED BY <1>1, <1>2

\* Records of a name, or of an identity.
LEMMA RelatedRecordsServe ==
    ASSUME NEW ed \in Stores, NEW known, NEW filter,
           \/ request.tool = "find_definitions" /\ filter = "definition"
           \/ request.tool = "find_references" /\ filter = "reference"
    PROVE  Serves(ed, known)
<1> DEFINE a == request
           Related(after, limit) == RelatedRecords(ed, a, filter, after, limit)
<1>1. /\ KeyLength = 9 /\ \A r : Key(r) = RecordKey(r)
      /\ \A after, limit : Call(ed, known, after, limit) = Related(after, limit)
  BY KeyOf, CallOf DEF KeyLength
<1>2. ASSUME NEW o, DOMAIN o = OptionNames,
             \A after, limit :
                Related(after, limit) =
                    Result(Query(ed, [o EXCEPT !.after = after, !.limit = limit + 1]), RecordKey, limit)
      PROVE  Serves(ed, known)
  <2> DEFINE M == {r \in RowsIn(ed, "records") : MatchesQuery(o, r)}
             K == {Key(r) : r \in M}
  <2>1. K \in SUBSET ToolKeys
    BY <1>1, RecordKeys, ParsesOf DEF ToolKeys, RecordTools
  <2>2. ASSUME NEW after \in Cursors(9), NEW limit \in Nat, limit = 0 => Keys = {}
        PROVE  \/ IsReply(Call(ed, known, after, limit), Remain(K, after), limit)
               \/ NotHonoured(ed, after) /\ Refuses(Call(ed, known, after, limit))
    <3> DEFINE reply == Result(Query(ed, [o EXCEPT !.after = after, !.limit = limit + 1]),
                               RecordKey, limit)
    <3>1. IsReply(reply, Remain(K, after), limit) \/ (NotHonoured(ed, after) /\ Refuses(reply))
      BY <1>1, <1>2, <2>2, QueryServes DEF NotHonoured, RecordTools, CallTools
    <3>2. Call(ed, known, after, limit) = reply
      BY <1>1, <1>2, Zenon
    <3> HIDE DEF reply, K
    <3> QED BY <3>1, <3>2
  <2> HIDE DEF K
  <2> QED BY <1>1, <2>1, <2>2, PlainServes DEF Serves, CallTools
<1>3. CASE NamesSymbol(a) /\ a.usr = None
  <2> DEFINE o == NameFilters(a, filter)
  <2>1. \A after, limit :
          Related(after, limit) =
              Result(Query(ed, [o EXCEPT !.after = after, !.limit = limit + 1]), RecordKey, limit)
    BY <1>3, Zenon DEF RelatedRecords
  <2>2. DOMAIN o = OptionNames
    BY OptionsOfTools
  <2> HIDE DEF o, Related
  <2> QED BY <1>2, <2>1, <2>2
<1>4. CASE NamesSymbol(a) /\ a.usr # None /\ a.usr \notin {0, Malformed} /\ Given(a.kind)
  <2> DEFINE o == IdentityFilters(Identity(a), filter)
  <2>1. ValidIdentity(Identity(a))
    BY <1>4 DEF ValidIdentity, Identity, NamesSymbol
  <2>2. \A after, limit :
          Related(after, limit) =
              Result(QueryIdentity(ed, Identity(a), filter, after, limit + 1), RecordKey, limit)
    BY <1>4, Zenon DEF RelatedRecords
  <2>3. \A after, limit :
          QueryIdentity(ed, Identity(a), filter, after, limit + 1) =
              Query(ed, [o EXCEPT !.after = after, !.limit = limit + 1])
    BY <2>1, Zenon DEF QueryIdentity
  <2>4. DOMAIN o = OptionNames
    BY OptionsOfTools
  <2> HIDE DEF o, Related
  <2>5. \A after, limit :
          Related(after, limit) =
              Result(Query(ed, [o EXCEPT !.after = after, !.limit = limit + 1]), RecordKey, limit)
    BY <2>2, <2>3, Zenon DEF Result
  <2> QED BY <1>2, <2>4, <2>5
<1>5. CASE ~NamesSymbol(a) \/ (a.usr # None /\ (a.usr \in {0, Malformed} \/ ~Given(a.kind)))
  <2>1. \A e, after, limit : RelatedRecords(e, a, filter, after, limit) = InvalidParams
    BY <1>5, Zenon DEF RelatedRecords
  <2>2. \A e, k, after, limit : Call(e, k, after, limit) = RelatedRecords(e, a, filter, after, limit)
    BY CallOf
  <2> QED BY <2>1, <2>2, Errors DEF Serves, Hopeless
<1> QED BY <1>3, <1>4, <1>5

LEMMA DeclaredTypesServe ==
    ASSUME NEW ed \in Stores, NEW known, request.tool = "find_declared_types"
    PROVE  Serves(ed, known)
<1> DEFINE a == request
           bad == ~NamesSymbol(a) \/ ~Given(a.usr) \/ a.usr = 0 \/ ~Given(a.kind)
<1>1. CASE bad
  <2>1. \A e, after, limit : DeclaredTypes(e, a, after, limit) = InvalidParams
    BY <1>1, Zenon DEF DeclaredTypes
  <2> QED BY <2>1, CallOf, Errors DEF Serves, Hopeless
<1>2. CASE ~bad
  <2> DEFINE i == Identity(a)
             K == {Key(t) : t \in SymbolTypesOf(ed, i)}
  <2>1. KeyLength = 6 /\ \A t : Key(t) = SymbolTypeKey(t)
    BY KeyOf DEF KeyLength
  <2>2. K \in SUBSET ToolKeys
    BY <2>1, SymbolTypeKeys, ParsesOf DEF ToolKeys, RecordTools
  <2>3. ValidIdentity(i)
    BY <1>2 DEF ValidIdentity, Identity, NamesSymbol
  <2>4. \A after, limit : DeclaredTypes(ed, a, after, limit)
          = Result(QuerySymbolTypes(ed, i, after, limit + 1), SymbolTypeKey, limit)
    BY <1>2, Zenon DEF DeclaredTypes
  <2>5. ASSUME NEW after \in Cursors(6), NEW limit \in Nat, limit = 0 => Keys = {}
        PROVE  IsReply(Call(ed, known, after, limit), Remain(K, after), limit)
    <3> DEFINE reply == Result(QuerySymbolTypes(ed, i, after, limit + 1), SymbolTypeKey, limit)
    <3>1. IsReply(reply, Remain(K, after), limit)
      <4> HIDE DEF i
      <4> QED BY <2>1, <2>3, <2>5, SymbolTypesServe
    <3>2. Call(ed, known, after, limit) = DeclaredTypes(ed, a, after, limit)
      BY CallOf
    <3>3. DeclaredTypes(ed, a, after, limit) = reply
      BY <2>4, Zenon
    <3> HIDE DEF reply, K
    <3> QED BY <3>1, <3>2, <3>3
  <2> HIDE DEF K
  <2> QED BY <2>1, <2>2, <2>5, PlainServes DEF Serves, CallTools
<1> QED BY <1>1, <1>2

LEMMA FunctionSignatureServes ==
    ASSUME NEW ed \in Stores, NEW known, request.tool = "find_function_signature"
    PROVE  Serves(ed, known)
<1> DEFINE a == request
<1>1. CASE ~NamesFunction(a)
  <2>1. \A e, after, limit : FunctionSignature(e, a, after, limit) = InvalidParams
    BY <1>1, Zenon DEF FunctionSignature
  <2> QED BY <2>1, CallOf, Errors DEF Serves, Hopeless
<1>2. CASE NamesFunction(a)
  <2> DEFINE i == Function(a)
             K == {Key(t) : t \in FunctionTypesOf(ed, i)}
  <2>1. KeyLength = 7 /\ \A t : Key(t) = FunctionTypeKey(t)
    BY KeyOf DEF KeyLength
  <2>2. K \in SUBSET ToolKeys
    BY <2>1, FunctionTypeKeys, ParsesOf DEF ToolKeys, RecordTools
  <2>3. ValidIdentity(i) /\ i.kind = FunctionKind
    BY <1>2 DEF ValidIdentity, Function, Identity, NamesSymbol, NamesFunction
  <2>4. \A after, limit : FunctionSignature(ed, a, after, limit)
          = Result(QueryFunctionTypes(ed, i, after, limit + 1), FunctionTypeKey, limit)
    BY <1>2, Zenon DEF FunctionSignature
  <2>5. ASSUME NEW after \in Cursors(7), NEW limit \in Nat, limit = 0 => Keys = {}
        PROVE  IsReply(Call(ed, known, after, limit), Remain(K, after), limit)
    <3> DEFINE reply == Result(QueryFunctionTypes(ed, i, after, limit + 1), FunctionTypeKey, limit)
    <3>1. IsReply(reply, Remain(K, after), limit)
      <4> HIDE DEF i
      <4> QED BY <2>1, <2>3, <2>5, FunctionTypesServe
    <3>2. Call(ed, known, after, limit) = FunctionSignature(ed, a, after, limit)
      BY CallOf
    <3>3. FunctionSignature(ed, a, after, limit) = reply
      BY <2>4, Zenon
    <3> HIDE DEF reply, K
    <3> QED BY <3>1, <3>2, <3>3
  <2> HIDE DEF K
  <2> QED BY <2>1, <2>2, <2>5, PlainServes DEF Serves, CallTools
<1> QED BY <1>1, <1>2

LEMMA CallRecordsServe ==
    ASSUME NEW ed \in Stores, NEW known, NEW direction,
           \/ request.tool = "find_callers" /\ direction = "callers"
           \/ request.tool = "find_callees" /\ direction = "callees"
    PROVE  Serves(ed, known)
<1> DEFINE a == request
<1>0. \A e, k, after, limit : Call(e, k, after, limit) = CallRecords(e, a, direction, after, limit)
  BY CallOf
<1>1. CASE ~NamesFunction(a)
  <2>1. \A e, after, limit : CallRecords(e, a, direction, after, limit) = InvalidParams
    BY <1>1, Zenon DEF CallRecords
  <2> QED BY <1>0, <2>1, Errors DEF Serves, Hopeless
<1>2. CASE NamesFunction(a)
  <2> DEFINE M == CallsOf(RowsIn(ed, "records"), Function(a), direction)
             K == {Key(r) : r \in M}
  <2>1. /\ KeyLength = 5 /\ CursorLength = 9 /\ (\A r : Key(r) = CallKey(direction, r))
        /\ direction \in {"callers", "callees"} /\ Direction = direction
        /\ request.tool \in CallTools \ RecordTools
    BY KeyOf DEF KeyLength, CursorLength, Direction, CallTools, RecordTools
  <2>2. K \in SUBSET ToolKeys
    BY <2>1, CallKeys, ParsesOf DEF ToolKeys
  <2>3. \A r \in M : RecordKey(r) \in ToolCursors
    <3>1. M \subseteq RowsIn(ed, "records")
      BY DEF CallsOf
    <3> HIDE DEF M
    <3> QED BY <2>1, <3>1, RecordKeys, ParsesOf DEF ToolCursors
  <2>4. ASSUME NEW after \in Cursors(9), NEW limit \in Nat, limit = 0 => Keys = {}
        PROVE  LET reply == Call(ed, known, after, limit)
               IN  /\ \A r \in ToSet(reply.rows) : RecordKey(r) \in ToolCursors
                   /\ \/ \E base : IsPlace(ed, after, base) /\ IsReply(reply, Remain(K, base), limit)
                      \/ NotHonoured(ed, after) /\ Refuses(reply)
    <3> DEFINE reply == CallRecords(ed, a, direction, after, limit)
    <3>1. /\ ToSet(QueryCalls(ed, Function(a), direction).rows) = M
          /\ ToSet(reply.rows) \subseteq M
          /\ \/ after = None /\ IsReply(reply, Remain(K, None), limit)
             \/ after # None /\ \E r \in M : /\ after = RecordKey(r)
                                             /\ IsReply(reply, Remain(K, Key(r)), limit)
             \/ after # None /\ after \notin {RecordKey(r) : r \in M} /\ Refuses(reply)
      BY <1>2, <2>1, <2>4, CallsServe
    <3>2. CallsListed(ed) = M
      BY <2>1, <3>1 DEF CallsListed
    <3> HIDE DEF M, K, reply
    <3>3. \/ \E base : IsPlace(ed, after, base) /\ IsReply(reply, Remain(K, base), limit)
          \/ NotHonoured(ed, after) /\ Refuses(reply)
      <4>1. CASE after = None
        BY <2>1, <3>1, <4>1 DEF IsPlace
      <4>2. CASE after # None /\ \E r \in M : /\ after = RecordKey(r)
                                              /\ IsReply(reply, Remain(K, Key(r)), limit)
        BY <2>1, <3>2, <4>2 DEF IsPlace
      <4>3. CASE after # None /\ after \notin {RecordKey(r) : r \in M} /\ Refuses(reply)
        BY <2>1, <3>2, <4>3 DEF NotHonoured
      <4> QED BY <3>1, <4>1, <4>2, <4>3
    <3>4. Call(ed, known, after, limit) = reply
      BY <1>0 DEF reply
    <3> QED BY <2>3, <3>1, <3>3, <3>4
  <2> HIDE DEF K
  <2> QED BY <2>1, <2>2, <2>4 DEF Serves, ServesKeys
<1> QED BY <1>1, <1>2

LEMMA ListVariantsServes ==
    ASSUME NEW ed, NEW known, DOMAIN known \subseteq Variants, request.tool = "list_variants"
    PROVE  Serves(ed, known)
<1> DEFINE K == {Key(name) : name \in {v \in DOMAIN known : configured \in {0, v}}}
<1>1. KeyLength = 1 /\ \A name : Key(name) = VariantKey(name)
  BY KeyOf DEF KeyLength
<1>2. K \in SUBSET ToolKeys
  BY <1>1, FilesAssumption, ParsesOf DEF ToolKeys, RecordTools, Variants, VariantKey
<1>3. ASSUME NEW after \in Cursors(1), NEW limit \in Nat, limit = 0 => Keys = {}
      PROVE  IsReply(Call(ed, known, after, limit), Remain(K, after), limit)
  <2> DEFINE reply == ListVariantsPage(known, after, limit)
  <2>1. IsReply(reply, Remain(K, after), limit)
    BY <1>1, <1>3, VariantsServe
  <2>2. Call(ed, known, after, limit) = reply
    BY CallOf
  <2> HIDE DEF reply, K
  <2> QED BY <2>1, <2>2
<1> HIDE DEF K
<1> QED BY <1>1, <1>2, <1>3, PlainServes DEF Serves, CallTools

\* Whatever the request is, its calls have the rows of one table or are refused.
LEMMA RequestServes ==
    ASSUME NEW ed \in Stores, NEW known, DOMAIN known \subseteq Variants, request \in Requests
    PROVE  Serves(ed, known)
<1>1. request.tool \in PagedTools
  BY RequestsAssumption
<1> QED BY <1>1, SearchSymbolsServes, RelatedRecordsServe, DeclaredTypesServe,
           FunctionSignatureServes, CallRecordsServe, ListVariantsServes DEF PagedTools

\* The nextCursor of an answer names its last row.
LEMMA ResultCursors ==
    ASSUME NEW rowset, NEW limit
    PROVE  /\ LET reply == Result(rowset, RecordKey, limit)
              IN reply.truncated => reply.nextCursor = RecordKey(Last(reply.rows))
           /\ LET reply == Result(rowset, SymbolTypeKey, limit)
              IN reply.truncated => reply.nextCursor = SymbolTypeKey(Last(reply.rows))
           /\ LET reply == Result(rowset, FunctionTypeKey, limit)
              IN reply.truncated => reply.nextCursor = FunctionTypeKey(Last(reply.rows))
           /\ LET reply == Result(rowset, VariantKey, limit)
              IN reply.truncated => reply.nextCursor = VariantKey(Last(reply.rows))
<1> DEFINE rows == Limited(rowset.rows, limit)
           more == Len(rowset.rows) > limit
           Sent(next) == [status |-> "Success", rows |-> rows, truncated |-> more,
                          nextCursor |-> IF more THEN next ELSE None]
<1>1. ASSUME NEW next, NEW reply, reply = Sent(next) \/ reply = DatabaseError
      PROVE  reply.truncated => reply.nextCursor = next /\ reply.rows = rows
  <2> HIDE DEF rows, more
  <2> QED BY <1>1, Errors DEF Refuses
<1>2. \/ Result(rowset, RecordKey, limit) = Sent(RecordKey(Last(rows)))
      \/ Result(rowset, RecordKey, limit) = DatabaseError
  BY Zenon DEF Result
<1>3. \/ Result(rowset, SymbolTypeKey, limit) = Sent(SymbolTypeKey(Last(rows)))
      \/ Result(rowset, SymbolTypeKey, limit) = DatabaseError
  BY Zenon DEF Result
<1>4. \/ Result(rowset, FunctionTypeKey, limit) = Sent(FunctionTypeKey(Last(rows)))
      \/ Result(rowset, FunctionTypeKey, limit) = DatabaseError
  BY Zenon DEF Result
<1>5. \/ Result(rowset, VariantKey, limit) = Sent(VariantKey(Last(rows)))
      \/ Result(rowset, VariantKey, limit) = DatabaseError
  BY Zenon DEF Result
<1> HIDE DEF Sent, rows
<1>6. LET reply == Result(rowset, RecordKey, limit)
      IN reply.truncated => reply.nextCursor = RecordKey(Last(reply.rows))
  BY <1>1, <1>2, Zenon
<1>7. LET reply == Result(rowset, SymbolTypeKey, limit)
      IN reply.truncated => reply.nextCursor = SymbolTypeKey(Last(reply.rows))
  BY <1>1, <1>3, Zenon
<1>8. LET reply == Result(rowset, FunctionTypeKey, limit)
      IN reply.truncated => reply.nextCursor = FunctionTypeKey(Last(reply.rows))
  BY <1>1, <1>4, Zenon
<1>9. LET reply == Result(rowset, VariantKey, limit)
      IN reply.truncated => reply.nextCursor = VariantKey(Last(reply.rows))
  BY <1>1, <1>5, Zenon
<1> QED BY <1>6, <1>7, <1>8, <1>9

LEMMA NextCursor ==
    ASSUME NEW ed, NEW known, NEW after, NEW limit, request.tool \in PagedTools
    PROVE  LET reply == Call(ed, known, after, limit)
           IN reply.truncated => reply.nextCursor = CursorOf(Last(reply.rows))
<1> DEFINE a == request
           reply == Call(ed, known, after, limit)
           RecordNamed(x) == x.truncated => x.nextCursor = RecordKey(Last(x.rows))
           TypeNamed(x) == x.truncated => x.nextCursor = SymbolTypeKey(Last(x.rows))
           SignatureNamed(x) == x.truncated => x.nextCursor = FunctionTypeKey(Last(x.rows))
           VariantNamed(x) == x.truncated => x.nextCursor = VariantKey(Last(x.rows))
<1>0. /\ request.tool = "search_symbols" => reply = SearchSymbols(ed, a, after, limit)
      /\ request.tool = "find_definitions" => reply = RelatedRecords(ed, a, "definition", after, limit)
      /\ request.tool = "find_references" => reply = RelatedRecords(ed, a, "reference", after, limit)
      /\ request.tool = "find_declared_types" => reply = DeclaredTypes(ed, a, after, limit)
      /\ request.tool = "find_function_signature" => reply = FunctionSignature(ed, a, after, limit)
      /\ request.tool = "find_callers" => reply = CallRecords(ed, a, "callers", after, limit)
      /\ request.tool = "find_callees" => reply = CallRecords(ed, a, "callees", after, limit)
      /\ request.tool = "list_variants" => reply = ListVariantsPage(known, after, limit)
  BY CallOf
<1>1. \A r : /\ request.tool \in CallTools => CursorOf(r) = RecordKey(r)
             /\ request.tool \notin CallTools => CursorOf(r) = Key(r)
  BY DEF CursorOf
<1>2. /\ RecordNamed(InvalidParams) /\ TypeNamed(InvalidParams) /\ SignatureNamed(InvalidParams)
      /\ \A rowset : /\ RecordNamed(Result(rowset, RecordKey, limit))
                     /\ TypeNamed(Result(rowset, SymbolTypeKey, limit))
                     /\ SignatureNamed(Result(rowset, FunctionTypeKey, limit))
                     /\ VariantNamed(Result(rowset, VariantKey, limit))
  <2>1. ~InvalidParams.truncated
    BY Errors DEF Refuses
  <2> QED BY <2>1, ResultCursors, Zenon
<1>3. RecordNamed(reply) /\ request.tool \in RecordTools \cup CallTools
        => (reply.truncated => reply.nextCursor = CursorOf(Last(reply.rows)))
  <2>1. request.tool \in RecordTools => request.tool \notin CallTools /\ \A r : Key(r) = RecordKey(r)
    BY KeyOf DEF RecordTools, CallTools
  <2> HIDE DEF reply
  <2> QED BY <1>1, <2>1
<1>4. CASE request.tool \in RecordTools
  <2> HIDE DEF RecordNamed
  <2>1. RecordNamed(SearchSymbols(ed, a, after, limit))
    BY <1>2, Zenon DEF SearchSymbols
  <2>2. ASSUME NEW filter PROVE RecordNamed(RelatedRecords(ed, a, filter, after, limit))
    <3>1. CASE ~NamesSymbol(a)
      BY <1>2, <3>1, Zenon DEF RelatedRecords
    <3>2. CASE NamesSymbol(a) /\ a.usr = None
      BY <1>2, <3>2, Zenon DEF RelatedRecords
    <3>3. CASE NamesSymbol(a) /\ a.usr # None
      BY <1>2, <3>3, Zenon DEF RelatedRecords
    <3> QED BY <3>1, <3>2, <3>3
  <2>3. RecordNamed(reply)
    <3>1. CASE request.tool = "search_symbols"
      BY <2>1, <3>1, <1>0
    <3>2. CASE request.tool = "find_definitions"
      BY <2>2, <3>2, <1>0
    <3>3. CASE request.tool = "find_references"
      BY <2>2, <3>3, <1>0
    <3> QED BY <1>4, <3>1, <3>2, <3>3 DEF RecordTools
  <2> QED BY <1>3, <1>4, <2>3
<1>5. CASE request.tool = "find_declared_types"
  <2>1. request.tool \notin CallTools /\ \A r : Key(r) = SymbolTypeKey(r)
    BY <1>5, KeyOf DEF CallTools
  <2>2. TypeNamed(reply)
    <3> HIDE DEF TypeNamed
    <3>1. TypeNamed(DeclaredTypes(ed, a, after, limit))
      BY <1>2, Zenon DEF DeclaredTypes
    <3> QED BY <1>5, <3>1, <1>0
  <2> QED BY <1>1, <2>1, <2>2
<1>6. CASE request.tool = "find_function_signature"
  <2>1. request.tool \notin CallTools /\ \A r : Key(r) = FunctionTypeKey(r)
    BY <1>6, KeyOf DEF CallTools
  <2>2. SignatureNamed(reply)
    <3> HIDE DEF SignatureNamed
    <3>1. SignatureNamed(FunctionSignature(ed, a, after, limit))
      BY <1>2, Zenon DEF FunctionSignature
    <3> QED BY <1>6, <3>1, <1>0
  <2> QED BY <1>1, <2>1, <2>2
<1>7. CASE request.tool = "list_variants"
  <2>1. request.tool \notin CallTools /\ \A r : Key(r) = VariantKey(r)
    BY <1>7, KeyOf DEF CallTools
  <2>2. VariantNamed(reply)
    <3> HIDE DEF VariantNamed
    <3>1. VariantNamed(ListVariantsPage(known, after, limit))
      BY <1>2, Zenon DEF ListVariantsPage
    <3> QED BY <1>7, <3>1, <1>0
  <2> QED BY <1>1, <2>1, <2>2
<1>8. CASE request.tool \in CallTools
  <2> HIDE DEF RecordNamed
  <2>1. ASSUME NEW direction PROVE RecordNamed(CallRecords(ed, a, direction, after, limit))
    <3>1. RecordNamed(CallPage(ed, Function(a), direction, after, limit))
      BY <1>2, Zenon DEF CallPage
    <3> QED BY <1>2, <3>1, Zenon DEF CallRecords
  <2>2. RecordNamed(reply)
    <3>1. CASE request.tool = "find_callers"
      BY <2>1, <3>1, <1>0
    <3>2. CASE request.tool = "find_callees"
      BY <2>1, <3>2, <1>0
    <3> QED BY <1>8, <3>1, <3>2 DEF CallTools
  <2> QED BY <1>3, <1>8, <2>2
<1> QED BY <1>4, <1>5, <1>6, <1>7, <1>8 DEF PagedTools, RecordTools, CallTools

----------------------------------------------------------------------------
(* Variants: the ones that are known are those of files.                 *)

\* What the fold over the files defines.
IsKnown(h, S) ==
    h = [s \in SUBSET S |->
            IF s = {} THEN <<>>
            ELSE LET f == CHOOSE x \in s : TRUE
                 IN Stored(h[s \ {f}], f, edition[f])]

LEMMA KnownExists ==
    ASSUME NEW S, IsFiniteSet(S)
    PROVE  \E h : IsKnown(h, S)
<1> DEFINE Pick(s) == CHOOSE x \in s : TRUE
           D(n) == {s \in SUBSET S : Cardinality(s) <= n}
           Value(h, s) == IF s = {} THEN <<>> ELSE Stored(h[s \ {Pick(s)}], Pick(s), edition[Pick(s)])
           Rec(h, n) == \A s \in D(n) : h[s] = Value(h, s)
           T == {n \in Nat : \E h : Rec(h, n)}
<1>1. ASSUME NEW s \in SUBSET S, s # {}
      PROVE  /\ Cardinality(s) \in Nat \ {0}
             /\ s \ {Pick(s)} \in SUBSET S
             /\ Cardinality(s \ {Pick(s)}) = Cardinality(s) - 1
  <2>1. IsFiniteSet(s)
    BY FS_Subset
  <2>2. Cardinality(s) \in Nat /\ Cardinality(s) # 0
    BY <1>1, <2>1, FS_CardinalityType, FS_EmptySet
  <2>3. Pick(s) \in s
    BY <1>1
  <2> HIDE DEF Pick
  <2> QED BY <2>1, <2>2, <2>3, FS_RemoveElement
<1> HIDE DEF Pick
<1>2. 0 \in T
  <2> DEFINE h == [s \in D(0) |-> <<>>]
  <2>1. ASSUME NEW s \in D(0), s # {} PROVE FALSE
    <3>1. Cardinality(s) \in Nat \ {0}
      BY <1>1, <2>1
    <3>2. Cardinality(s) <= 0
      OBVIOUS
    <3> QED BY <3>1, <3>2
  <2>2. Rec(h, 0)
    BY <2>1
  <2> QED BY <2>2
<1>3. ASSUME NEW n \in Nat, n \in T PROVE n + 1 \in T
  <2>1. PICK h : Rec(h, n)
    BY <1>3
  <2> DEFINE g == [s \in D(n + 1) |-> Value(h, s)]
  <2>2. \A s \in D(n) : g[s] = h[s]
    <3>1. \A s \in D(n) : s \in D(n + 1)
      <4> SUFFICES ASSUME NEW s \in SUBSET S, Cardinality(s) <= n
                   PROVE  Cardinality(s) <= n + 1
        OBVIOUS
      <4>1. Cardinality(s) \in Nat
        BY FS_Subset, FS_CardinalityType
      <4> QED BY <4>1
    <3> HIDE DEF D, Value
    <3> QED BY <2>1, <3>1
  <2>3. \A s \in D(n + 1) : s # {} => s \ {Pick(s)} \in D(n)
    BY <1>1
  <2>4. ASSUME NEW s \in D(n + 1) PROVE g[s] = Value(g, s)
    <3> HIDE DEF D
    <3>1. g[s] = Value(h, s)
      OBVIOUS
    <3> HIDE DEF g
    <3> QED BY <2>2, <2>3, <3>1
  <2> HIDE DEF g, D, Value
  <2> QED BY <2>4
<1>4. Cardinality(S) \in T
  <2>1. Cardinality(S) \in Nat
    BY FS_CardinalityType
  <2> HIDE DEF T
  <2> QED BY <1>2, <1>3, <2>1, Induction
<1>5. PICK h : Rec(h, Cardinality(S))
  BY <1>4
<1> DEFINE g == [s \in SUBSET S |-> h[s]]
<1>6. \A s \in SUBSET S : h[s] = Value(h, s)
  BY <1>5, FS_Subset
<1>7. \A s \in SUBSET S : s # {} => s \ {Pick(s)} \in SUBSET S
  OBVIOUS
<1>8. g = [s \in SUBSET S |-> Value(g, s)]
  <2>1. ASSUME NEW s \in SUBSET S PROVE Value(h, s) = Value(g, s)
    BY <1>7
  <2> HIDE DEF Value
  <2> QED BY <1>6, <2>1
<1>9. IsKnown(g, S)
  <2> HIDE DEF g
  <2> QED BY <1>8, Zenon DEF IsKnown, Pick
<1> QED BY <1>9

\* A store adds the file's variant to those that are known.
LEMMA StoredNames ==
    ASSUME NEW known, NEW f, NEW e
    PROVE  DOMAIN Stored(known, f, e) = DOMAIN known \cup {f.variant}
BY DEF Stored

\* The variants that are known at first are those of files.
LEMMA KnownVariants ==
    ASSUME NEW editions, DbInit(editions)
    PROVE  DOMAIN provenance \subseteq Variants
<1> DEFINE h == CHOOSE h : IsKnown(h, Indexed)
<1>1. IsFiniteSet(Indexed) /\ Indexed \subseteq Files
  BY FilesAssumption, FS_Subset DEF Indexed
<1>2. provenance = h[Indexed]
  BY Zenon DEF DbInit, FoldSet, MapThenFoldSet, IsKnown
<1>3. IsKnown(h, Indexed)
  BY <1>1, KnownExists
<1> HIDE DEF h
<1> DEFINE G == {s \in SUBSET Indexed : DOMAIN h[s] \subseteq Variants}
<1>4. ASSUME NEW s \in SUBSET Indexed, \A x \in s : s \ {x} \in G PROVE s \in G
  <2>1. ASSUME s = {} PROVE DOMAIN h[s] \subseteq Variants
    <3>1. h[s] = <<>>
      BY <1>3, <2>1 DEF IsKnown
    <3> QED BY <3>1
  <2>2. ASSUME s # {} PROVE DOMAIN h[s] \subseteq Variants
    <3> DEFINE f == CHOOSE x \in s : TRUE
    <3>1. h[s] = Stored(h[s \ {f}], f, edition[f])
      BY <1>3, <2>2, Zenon DEF IsKnown
    <3>2. f \in s /\ f.variant \in Variants
      BY <1>1, <2>2 DEF Variants
    <3> HIDE DEF f
    <3>3. DOMAIN h[s \ {f}] \subseteq Variants
      BY <1>4, <3>2
    <3> DEFINE known == h[s \ {f}]
               e == edition[f]
    <3>4. h[s] = Stored(known, f, e) /\ DOMAIN known \subseteq Variants
      BY <3>1, <3>3
    <3> HIDE DEF known, e
    <3>5. DOMAIN Stored(known, f, e) = DOMAIN known \cup {f.variant}
      BY StoredNames
    <3> QED BY <3>2, <3>4, <3>5
  <2>3. DOMAIN h[s] \subseteq Variants
    BY <2>1, <2>2
  <2> QED BY <2>3
<1>5. SUBSET Indexed \subseteq G
  <2>1. \A s \in SUBSET Indexed : (\A x \in s : s \ {x} \in G) => s \in G
    BY <1>4
  <2> HIDE DEF G
  <2> QED BY <1>1, <2>1, Shrinking
<1> QED BY <1>2, <1>5

----------------------------------------------------------------------------
(* Requests: what a tool does depends on its request and the database only.*)

\* What a request asks for does not change while it is the same.
LEMMA SameTools ==
    ASSUME UNCHANGED <<request, configured>>,
           NEW CONSTANT ed, NEW CONSTANT a, NEW CONSTANT known,
           NEW CONSTANT after, NEW CONSTANT limit
    PROVE  /\ SearchSymbols(ed, a, after, limit)' = SearchSymbols(ed, a, after, limit)
           /\ RelatedRecords(ed, a, "definition", after, limit)' =
                RelatedRecords(ed, a, "definition", after, limit)
           /\ RelatedRecords(ed, a, "reference", after, limit)' =
                RelatedRecords(ed, a, "reference", after, limit)
           /\ DeclaredTypes(ed, a, after, limit)' = DeclaredTypes(ed, a, after, limit)
           /\ FunctionSignature(ed, a, after, limit)' = FunctionSignature(ed, a, after, limit)
           /\ CallRecords(ed, a, "callers", after, limit)' =
                CallRecords(ed, a, "callers", after, limit)
           /\ CallRecords(ed, a, "callees", after, limit)' =
                CallRecords(ed, a, "callees", after, limit)
           /\ ListVariantsPage(known, after, limit)' = ListVariantsPage(known, after, limit)
<1>1. SelectedVariant(a)' = SelectedVariant(a)
  BY Zenon DEF SelectedVariant
<1>2. /\ NamesSymbol(a)' <=> NamesSymbol(a)
      /\ Identity(a)' = Identity(a)
      /\ SearchOptions(a)' = SearchOptions(a)
      /\ NameFilters(a, "definition")' = NameFilters(a, "definition")
      /\ NameFilters(a, "reference")' = NameFilters(a, "reference")
  BY <1>1 DEF NamesSymbol, Identity, SearchOptions, NameFilters
<1>3. (NamesFunction(a)' <=> NamesFunction(a)) /\ Function(a)' = Function(a)
  BY <1>2, Zenon DEF NamesFunction, Function
<1>4. SearchSymbols(ed, a, after, limit)' = SearchSymbols(ed, a, after, limit)
  BY <1>1, <1>2, Zenon DEF SearchSymbols
<1>5. RelatedRecords(ed, a, "definition", after, limit)' =
        RelatedRecords(ed, a, "definition", after, limit)
  BY <1>2, Zenon DEF RelatedRecords
<1>6. RelatedRecords(ed, a, "reference", after, limit)' =
        RelatedRecords(ed, a, "reference", after, limit)
  BY <1>2, Zenon DEF RelatedRecords
<1>7. DeclaredTypes(ed, a, after, limit)' = DeclaredTypes(ed, a, after, limit)
  BY <1>2, Zenon DEF DeclaredTypes
<1>8. FunctionSignature(ed, a, after, limit)' = FunctionSignature(ed, a, after, limit)
  BY <1>3, Zenon DEF FunctionSignature
<1>9. CallRecords(ed, a, "callers", after, limit)' = CallRecords(ed, a, "callers", after, limit)
  BY <1>3, Zenon DEF CallRecords
<1>10. CallRecords(ed, a, "callees", after, limit)' = CallRecords(ed, a, "callees", after, limit)
  BY <1>3, Zenon DEF CallRecords
<1>11. ListVariantsPage(known, after, limit)' = ListVariantsPage(known, after, limit)
  BY Zenon DEF ListVariantsPage
<1> QED BY <1>4, <1>5, <1>6, <1>7, <1>8, <1>9, <1>10, <1>11

\* One call, on the same database, is answered alike as long as the request is the same.
LEMMA SameCall ==
    ASSUME UNCHANGED <<request, configured>>,
           NEW CONSTANT ed, NEW CONSTANT known, NEW CONSTANT after, NEW CONSTANT limit
    PROVE  Call(ed, known, after, limit)' = Call(ed, known, after, limit)
<1>1. PICK a : a = request
  OBVIOUS
<1>2. request' = a
  BY <1>1
<1> DEFINE answered ==
           CASE a.tool = "search_symbols" -> SearchSymbols(ed, a, after, limit)
             [] a.tool = "find_definitions" -> RelatedRecords(ed, a, "definition", after, limit)
             [] a.tool = "find_references" -> RelatedRecords(ed, a, "reference", after, limit)
             [] a.tool = "find_declared_types" -> DeclaredTypes(ed, a, after, limit)
             [] a.tool = "find_function_signature" -> FunctionSignature(ed, a, after, limit)
             [] a.tool = "find_callers" -> CallRecords(ed, a, "callers", after, limit)
             [] a.tool = "find_callees" -> CallRecords(ed, a, "callees", after, limit)
             [] a.tool = "list_variants" -> ListVariantsPage(known, after, limit)
<1>3. Call(ed, known, after, limit) = answered
  BY <1>1, Zenon DEF Call
<1>4. Call(ed, known, after, limit)' = answered
  <2>1. /\ SearchSymbols(ed, a, after, limit)' = SearchSymbols(ed, a, after, limit)
        /\ RelatedRecords(ed, a, "definition", after, limit)' =
             RelatedRecords(ed, a, "definition", after, limit)
        /\ RelatedRecords(ed, a, "reference", after, limit)' =
             RelatedRecords(ed, a, "reference", after, limit)
        /\ DeclaredTypes(ed, a, after, limit)' = DeclaredTypes(ed, a, after, limit)
        /\ FunctionSignature(ed, a, after, limit)' = FunctionSignature(ed, a, after, limit)
        /\ CallRecords(ed, a, "callers", after, limit)' = CallRecords(ed, a, "callers", after, limit)
        /\ CallRecords(ed, a, "callees", after, limit)' = CallRecords(ed, a, "callees", after, limit)
        /\ ListVariantsPage(known, after, limit)' = ListVariantsPage(known, after, limit)
    BY SameTools, Zenon
  <2> QED BY <1>2, <2>1, Zenon DEF Call
<1> QED BY <1>3, <1>4, Zenon

\* The cursors of a request, and whether its calls are refused, do not depend on the database.
LEMMA SameRequest ==
    ASSUME UNCHANGED <<request, configured>>
    PROVE  /\ KeyLength' = KeyLength /\ ToolKeys' = ToolKeys
           /\ CursorLength' = CursorLength /\ ToolCursors' = ToolCursors
           /\ (Hopeless' <=> Hopeless)
<1>1. KeyLength' = KeyLength /\ CursorLength' = CursorLength
  BY DEF KeyLength, CursorLength
<1>2. \A k : Parses(k)' <=> Parses(k)
  BY Zenon DEF Parses
<1>3. ToolKeys' = ToolKeys /\ ToolCursors' = ToolCursors
  BY <1>1, <1>2 DEF ToolKeys, ToolCursors
<1>4. \A ed, known, after, limit : Call(ed, known, after, limit)' = Call(ed, known, after, limit)
  BY SameCall
<1>5. Hopeless' <=> Hopeless
  BY <1>4, Zenon DEF Hopeless, Refuses
<1> QED BY <1>1, <1>3, <1>5

\* So are the keys and the cursors of its rows.
LEMMA SameKeys ==
    ASSUME UNCHANGED request, NEW CONSTANT r
    PROVE  Key(r)' = Key(r) /\ CursorOf(r)' = CursorOf(r)
<1>1. Direction' = Direction
  BY DEF Direction
<1>2. Key(r)' = Key(r)
  BY <1>1, Zenon DEF Key
<1>3. CursorOf(r)' = CursorOf(r)
  BY <1>2, Zenon DEF CursorOf
<1> QED BY <1>2, <1>3

\* The table of a request changes with the database only.
LEMMA SameTable ==
    ASSUME UNCHANGED <<request, configured>>, NEW CONSTANT ed, NEW CONSTANT known
    PROVE  TableOf(ed, known)' = TableOf(ed, known)
<1>1. ASSUME NEW CONSTANT r PROVE Key(r)' = Key(r)
  BY SameKeys
<1> DEFINE n == Cardinality(Keys)
<1>2. Call(ed, known, None, n)' = Call(ed, known, None, n)
  BY SameCall
<1> QED BY <1>1, <1>2, Zenon DEF TableOf

----------------------------------------------------------------------------
(* The scan: what the client is sent is what Pages sends.                *)

\* The table is that of one call with room for every key.
LEMMA TableServed ==
    ASSUME NEW ed \in Stores, NEW known, DOMAIN known \subseteq Variants, request \in Requests
    PROVE  /\ TableOf(ed, known) \in SUBSET ToolKeys
           /\ \/ Hopeless
              \/ ServesKeys(ed, known, TableOf(ed, known))
<1> DEFINE n == Cardinality(Keys)
           reply == Call(ed, known, None, n)
<1>1. TableOf(ed, known) = Shown(reply)
  BY Zenon DEF TableOf, Shown
<1>2. Serves(ed, known)
  BY RequestServes
<1>3. CASE Hopeless
  <2>1. reply.rows = <<>>
    BY <1>3 DEF Refuses, Hopeless
  <2> HIDE DEF reply
  <2>2. Shown(reply) = {}
    BY <2>1 DEF Shown, ToSet
  <2> QED BY <1>1, <1>3, <2>2
<1>4. ASSUME NEW K \in SUBSET ToolKeys, ServesKeys(ed, known, K)
      PROVE  TableOf(ed, known) = K
  <2>1. None \in Cursors(CursorLength)
    BY DEF Cursors
  <2>2. n \in Nat /\ (n = 0 => Keys = {})
    BY KeysAssumption, FS_CardinalityType, FS_EmptySet
  <2>3. Remain(K, None) = K
    BY DEF Remain
  <2> HIDE DEF n
  <2>4. IsReply(reply, K, n)
    <3>1. ~NotHonoured(ed, None) /\ \A base : IsPlace(ed, None, base) => base = None
      BY DEF NotHonoured, IsPlace
    <3> QED BY <1>4, <2>1, <2>2, <2>3, <3>1 DEF ServesKeys
  <2>5. K \in SUBSET Keys
    BY DEF ToolKeys
  <2> HIDE DEF reply
  <2>6. IsReply(reply, K, Cardinality(Keys))
    BY <2>4 DEF n
  <2> QED BY <1>1, <2>5, <2>6, WholeTable
<1> QED BY <1>2, <1>3, <1>4 DEF Serves

\* A cursor that was handed out is one of the tool, whose calls succeed.
CursorOfTool == cursor # None => cursor \in ToolCursors /\ ~Hopeless

\* The cursor names the last row, whose key the client remembers.
LinkHolds ==
    IF cursor = None THEN last = None ELSE \E row : cursor = CursorOf(row) /\ last = Key(row)

\* What holds between two calls of a scan.
ScanInv ==
    /\ edition \in Stores
    /\ DOMAIN provenance \subseteq Variants
    /\ reported \subseteq Keys /\ kept \subseteq Keys /\ status \in {"open", "done", "refused"}
    /\ activity = "page" =>
          /\ request \in Requests
          /\ table = TableOf(edition, provenance)
          /\ cursor \in Cursors(CursorLength)
          /\ last \in Cursors(KeyLength)
          /\ CursorOfTool
          /\ LinkHolds
          /\ sent \in Nat

\* An answer to a call of the scan, and the client's next cursor.
LEMMA AnswerOf ==
    ASSUME ScanInv, activity = "page", NEW limit \in 1 .. MaxLimit
    PROVE  LET reply == Call(edition, provenance, cursor, limit)
           IN \/ Refuses(reply) /\ (Hopeless \/ NotHonoured(edition, cursor))
              \/ /\ ~Hopeless
                 /\ \E base : IsPlace(edition, cursor, base) /\ IsReply(reply, Remain(table, base), limit)
                 /\ request.tool \in CallTools => \A r \in ToSet(reply.rows) : RecordKey(r) \in ToolCursors
<1>1. limit \in Nat /\ limit # 0
  BY LimitAssumption
<1>2. edition \in Stores /\ DOMAIN provenance \subseteq Variants /\ request \in Requests
      /\ cursor \in Cursors(CursorLength) /\ table = TableOf(edition, provenance)
  BY DEF ScanInv
<1>3. CASE Hopeless
  BY <1>3 DEF Hopeless
<1>4. CASE ServesKeys(edition, provenance, table) /\ ~Hopeless
  BY <1>1, <1>2, <1>4 DEF ServesKeys
<1> QED BY <1>2, <1>3, <1>4, TableServed

\* An answer goes on behind the last row that was sent, unless that row has moved: the
\* cursor of a callee is as good as its key, that of a caller is not.
LEMMA PlaceIsLast ==
    ASSUME ScanInv, activity = "page", NEW base, IsPlace(edition, cursor, base), ~CursorMoved
    PROVE  base = last
<1>1. LinkHolds
  BY DEF ScanInv
<1>2. CASE cursor = None
  BY <1>1, <1>2 DEF LinkHolds, IsPlace
<1>3. CASE cursor # None /\ request.tool \notin CallTools
  BY <1>1, <1>3 DEF LinkHolds, IsPlace, CursorOf
<1>4. CASE cursor # None /\ request.tool \in CallTools
  <2>1. PICK r \in CallsListed(edition) : cursor = RecordKey(r) /\ base = Key(r)
    BY <1>4 DEF IsPlace
  <2>2. CASE request.tool = "find_callers"
    BY <1>4, <2>1, <2>2 DEF CursorMoved
  <2>3. CASE request.tool = "find_callees"
    <3>1. PICK row : cursor = RecordKey(row) /\ last = Key(row)
      BY <1>1, <1>4 DEF LinkHolds, CursorOf
    <3>2. RecordKey(r) = RecordKey(row)
      BY <2>1, <3>1
    <3>3. /\ Rank(r.path) = Rank(row.path) /\ r.line = row.line /\ r.column = row.column
          /\ r.symbol = row.symbol /\ r.mode = row.mode
      BY <3>2 DEF RecordKey
    <3>4. Key(r) = CallKey("callees", r) /\ Key(row) = CallKey("callees", row)
      BY <2>3, KeyOf
    <3>5. CallKey("callees", r) = CallKey("callees", row)
      BY <3>3 DEF CallKey, Peer
    <3> QED BY <2>1, <3>1, <3>4, <3>5
  <2> QED BY <1>4, <2>2, <2>3 DEF CallTools
<1> QED BY <1>2, <1>3, <1>4

\* The instance counts pages as this module does.
LEMMA SameCount == ASSUME NEW S PROVE P!Cardinality(S) = Cardinality(S)
BY Zenon DEF Cardinality, P!Cardinality

LEMMA RemainingRows == P!Remaining = Remain(table, last)
BY KeyOrderAssumption DEF P!Remaining, Remain

LEMMA ParsedLimits ==
    ASSUME NEW limit, ParsedLimit(limit) # Malformed
    PROVE  ParsedLimit(limit) \in 1 .. MaxLimit
BY DefaultAssumption, Zenon DEF ParsedLimit

\* What the client remembers of an answer: nothing, or its last row.
RemembersRow ==
    /\ ~Hopeless
    /\ cursor' \in ToolCursors /\ last' \in Cursors(KeyLength)
    /\ \E row : cursor' = CursorOf(row) /\ last' = Key(row)

\* An answer is a page that the abstract scan sends, or a refusal, unless the cursor has moved.
LEMMA ReplyPages ==
    ASSUME ScanInv, activity = "page", NEW limit, Reply(limit)
    PROVE  /\ \/ CursorMoved
              \/ P!Refuse \/ P!SendLast \/ \E page \in SUBSET P!Remaining : P!SendPage(page)
           /\ sent' \in Nat /\ reported' \subseteq Keys /\ status' \in {"open", "done", "refused"}
           /\ UNCHANGED <<cursor, last>> \/ RemembersRow
<1> DEFINE parsed == ParsedLimit(limit)
           bad == parsed = Malformed \/ (cursor # None /\ ~Parses(cursor))
           reply == IF bad THEN InvalidParams ELSE Call(edition, provenance, cursor, parsed)
           page == Shown(reply)
<1>1. /\ status = "open"
      /\ status' = (CASE reply.status # "Success" -> "refused"
                      [] reply.truncated -> "open"
                      [] OTHER -> "done")
      /\ cursor' = (IF reply.truncated THEN reply.nextCursor ELSE cursor)
      /\ last' = (IF reply.truncated THEN Key(Last(reply.rows)) ELSE last)
      /\ reported' = reported \cup page
      /\ sent' = sent + Len(reply.rows)
      /\ UNCHANGED <<table, kept>>
  BY Zenon DEF Reply, Shown
<1>2. /\ edition \in Stores /\ DOMAIN provenance \subseteq Variants /\ request \in Requests
      /\ table = TableOf(edition, provenance) /\ last \in Cursors(KeyLength) /\ sent \in Nat
      /\ reported \subseteq Keys
  BY DEF ScanInv
<1>3. \/ Refuses(reply)
      \/ /\ ~Hopeless /\ parsed \in 1 .. MaxLimit
         /\ \E base : IsPlace(edition, cursor, base) /\ IsReply(reply, Remain(table, base), parsed)
         /\ request.tool \in CallTools => \A r \in ToSet(reply.rows) : RecordKey(r) \in ToolCursors
         /\ reply.truncated => reply.nextCursor = CursorOf(Last(reply.rows))
  <2>1. CASE bad
    BY <2>1, Errors
  <2>2. CASE ~bad
    <3>1. parsed \in 1 .. MaxLimit
      BY <2>2, ParsedLimits
    <3> HIDE DEF parsed
    <3> DEFINE called == Call(edition, provenance, cursor, parsed)
    <3>2. \/ Refuses(called)
          \/ /\ ~Hopeless
             /\ \E base : IsPlace(edition, cursor, base) /\ IsReply(called, Remain(table, base), parsed)
             /\ request.tool \in CallTools =>
                   \A r \in ToSet(called.rows) : RecordKey(r) \in ToolCursors
      BY <3>1, AnswerOf
    <3>3. called.truncated => called.nextCursor = CursorOf(Last(called.rows))
      <4>1. request.tool \in PagedTools
        BY <1>2, RequestsAssumption
      <4> QED BY <4>1, NextCursor
    <3>4. reply = called
      BY <2>2
    <3> HIDE DEF reply, called
    <3> QED BY <3>1, <3>2, <3>3, <3>4
  <2> QED BY <2>1, <2>2
<1> HIDE DEF reply, bad, parsed
<1>4. ASSUME Refuses(reply)
      PROVE  P!Refuse /\ UNCHANGED <<cursor, last, sent, reported>> /\ status' = "refused"
  <2>1. reply.status # "Success" /\ reply.rows = <<>> /\ ~reply.truncated
    BY <1>4 DEF Refuses
  <2>2. page = {} /\ Len(reply.rows) = 0
    BY <2>1 DEF Shown, ToSet
  <2> HIDE DEF page
  <2>3. UNCHANGED <<cursor, last, reported, sent>> /\ status' = "refused"
    BY <1>1, <1>2, <2>1, <2>2
  <2> QED BY <1>1, <2>3 DEF P!Refuse
<1>5. ASSUME ~Hopeless, parsed \in 1 .. MaxLimit, NEW base, IsPlace(edition, cursor, base),
             IsReply(reply, Remain(table, base), parsed),
             request.tool \in CallTools => \A r \in ToSet(reply.rows) : RecordKey(r) \in ToolCursors,
             reply.truncated => reply.nextCursor = CursorOf(Last(reply.rows))
      PROVE  /\ CursorMoved \/ P!SendLast \/ \E p \in SUBSET P!Remaining : P!SendPage(p)
             /\ sent' \in Nat /\ reported' \subseteq Keys /\ status' \in {"open", "done"}
             /\ UNCHANGED <<cursor, last>> \/ RemembersRow
  <2> DEFINE rest == Remain(table, base)
             next == Key(Last(reply.rows))
  <2>1. rest \in SUBSET Keys /\ table \in SUBSET ToolKeys /\ rest \subseteq table
    BY <1>2, TableServed DEF Remain, ToolKeys
  <2>2. CursorMoved \/ P!Remaining = rest
    BY <1>5, PlaceIsLast, RemainingRows
  <2> HIDE DEF rest
  <2>3. /\ page \in SUBSET rest
        /\ Cardinality(page) = Len(reply.rows) /\ Cardinality(page) <= MaxLimit
        /\ P!FirstOf(page, rest)
        /\ reply.truncated => page # rest /\ P!LastOf(next, page) /\ next \in rest
        /\ ~reply.truncated => page = rest
    BY <1>5, <2>1, BoundedPage DEF rest
  <2>4. reply.status = "Success"
    BY <1>5 DEF IsReply
  <2>5. Cardinality(page) \in Nat
    BY <2>1, <2>3, KeysAssumption, FS_Subset, FS_CardinalityType
  <2>6. ASSUME reply.truncated PROVE CursorOf(Last(reply.rows)) \in ToolCursors
    <3>1. next \in ToolKeys
      BY <2>1, <2>3, <2>6
    <3>2. CASE request.tool \in CallTools
      <4>1. next \in page /\ Len(reply.rows) = Cardinality(page)
        BY <2>3, <2>6 DEF P!LastOf
      <4>2. Len(reply.rows) # 0
        BY <2>1, <2>3, <4>1, KeysAssumption, FS_Subset, FS_EmptySet
      <4>3. Last(reply.rows) \in ToSet(reply.rows)
        <5>1. ToSet(reply.rows) = {reply.rows[i] : i \in 1 .. Len(reply.rows)}
          BY <1>5 DEF IsReply
        <5>2. Len(reply.rows) \in 1 .. Len(reply.rows)
          BY <2>3, <2>5, <4>2
        <5> QED BY <5>1, <5>2 DEF Last
      <4> QED BY <1>5, <3>2, <4>3 DEF CursorOf
    <3>3. CASE request.tool \notin CallTools
      <4>1. CursorOf(Last(reply.rows)) = next /\ ToolCursors = ToolKeys
        BY <3>3 DEF CursorOf, ToolCursors, ToolKeys, CursorLength
      <4> QED BY <3>1, <4>1
    <3> QED BY <3>2, <3>3
  <2> HIDE DEF page
  <2>7. P!Send(page) /\ sent' \in Nat /\ reported' \subseteq Keys
    <3>1. /\ reported' = reported \cup page /\ sent' = sent + Cardinality(page)
          /\ UNCHANGED <<table, kept>>
      BY <1>1, <2>3
    <3>2. sent' \in Nat
      BY <1>2, <2>5, <3>1
    <3> QED BY <1>2, <2>1, <2>3, <3>1, <3>2, SameCount DEF P!Send
  <2>8. CASE reply.truncated
    <3>1. status' = status /\ cursor' = reply.nextCursor /\ last' = next
      BY <1>1, <2>4, <2>8
    <3>2. next \in page
      BY <2>3, <2>8 DEF P!LastOf
    <3>3. RemembersRow
      <4>1. next \in Cursors(KeyLength)
        BY <2>1, <2>3, <3>2 DEF Cursors, ToolKeys
      <4> QED BY <1>5, <2>6, <2>8, <3>1, <4>1 DEF RemembersRow
    <3> HIDE DEF next
    <3>4. CursorMoved \/ P!SendPage(page)
      BY <1>1, <2>2, <2>3, <2>7, <2>8, <3>1, <3>2, SameCount DEF P!SendPage
    <3> QED BY <1>1, <2>2, <2>3, <2>7, <3>1, <3>3, <3>4
  <2>9. CASE ~reply.truncated
    <3>1. status' = "done" /\ UNCHANGED <<cursor, last>>
      BY <1>1, <2>4, <2>9
    <3>2. CursorMoved \/ P!SendLast
      BY <1>1, <2>2, <2>3, <2>7, <2>9, <3>1, SameCount DEF P!SendLast
    <3> QED BY <2>7, <3>1, <3>2
  <2> QED BY <2>8, <2>9
<1>6. ASSUME ~Refuses(reply)
      PROVE  /\ CursorMoved \/ P!SendLast \/ \E p \in SUBSET P!Remaining : P!SendPage(p)
             /\ sent' \in Nat /\ reported' \subseteq Keys /\ status' \in {"open", "done"}
             /\ UNCHANGED <<cursor, last>> \/ RemembersRow
  BY <1>3, <1>5, <1>6
<1> HIDE DEF page
<1> QED BY <1>2, <1>4, <1>6

\* The database changes by the stores of other processes only.
LEMMA DatabaseSteps ==
    ASSUME [Next]_vars
    PROVE  \/ UNCHANGED <<edition, provenance>>
           \/ \E f \in Files, e \in 0 .. MaxEdition : Put(f, e)
<1>1. CASE Page
  BY <1>1 DEF Page, ScanNext, Reply, ScanStore, StoreFile, dbVars
<1>2. CASE Walk
  BY <1>2 DEF Walk, WalkNext, Visit, VisitFails, TooDeep, GraphAnswer, WalkStore, StoreFile, dbVars
<1>3. CASE Read
  BY <1>3 DEF Read, ReadNext, LookUp, StatBefore, Open, ReadRange, StatAfter, ReadCommit, ReadBlob,
              EditFile, ReadStore, Step, StoreFile, dbVars
<1>4. CASE UNCHANGED vars
  BY <1>4 DEF vars, dbVars
<1> QED BY <1>1, <1>2, <1>3, <1>4 DEF Next

LEMMA DatabaseInv ==
    ASSUME ScanInv, [Next]_vars
    PROVE  edition' \in Stores /\ (DOMAIN provenance \subseteq Variants)'
<1>1. edition \in Stores /\ DOMAIN provenance \subseteq Variants
  BY DEF ScanInv
<1>2. CASE UNCHANGED <<edition, provenance>>
  BY <1>1, <1>2
<1>3. ASSUME NEW f \in Files, NEW e \in 0 .. MaxEdition, Put(f, e)
      PROVE  edition' \in Stores /\ (DOMAIN provenance \subseteq Variants)'
  <2>1. edition' = [edition EXCEPT ![f] = e] /\ provenance' = Stored(provenance, f, e)
    BY <1>3 DEF Put
  <2>2. edition' \in Stores
    BY <1>1, <2>1 DEF Stores
  <2>3. DOMAIN provenance' = DOMAIN provenance \cup {f.variant}
    BY <2>1, StoredNames
  <2> QED BY <1>1, <2>2, <2>3 DEF Variants
<1> QED BY <1>2, <1>3, DatabaseSteps

\* A scan begins with what matches.
LEMMA ScanBegins == Init => P!Init /\ ScanInv
<1> SUFFICES ASSUME Init PROVE P!Init /\ ScanInv
  OBVIOUS
<1>1. edition \in Stores
  BY DEF Init, DbInit, Stores
<1>2. DOMAIN provenance \subseteq Variants
  BY KnownVariants DEF Init
<1>3. CASE activity = "page"
  <2>1. /\ request \in Requests /\ cursor = None /\ last = None /\ reported = {} /\ sent = 0
        /\ table = TableOf(edition, provenance) /\ kept = table /\ status = "open"
    BY <1>3 DEF Init, ScanInit
  <2>2. table \in SUBSET Keys
    BY <1>1, <1>2, <2>1, TableServed DEF ToolKeys
  <2>3. P!Init
    BY <2>1, <2>2, KeyOrderAssumption DEF P!Init
  <2>4. /\ cursor \in Cursors(CursorLength) /\ last \in Cursors(KeyLength)
        /\ CursorOfTool /\ LinkHolds /\ sent \in Nat
    BY <2>1 DEF Cursors, CursorOfTool, LinkHolds
  <2> QED BY <1>1, <1>2, <2>1, <2>2, <2>3, <2>4 DEF ScanInv
<1>4. CASE activity # "page"
  <2>1. last = None /\ reported = {} /\ sent = 0 /\ status = "open" /\ table = {} /\ kept = {}
    BY <1>4 DEF Init, ScanIdle
  <2> QED BY <1>1, <1>2, <1>4, <2>1, KeyOrderAssumption DEF P!Init, ScanInv
<1> QED BY <1>3, <1>4

\* What the client remembers is good as long as the request is the same.
LEMMA CursorKept ==
    ASSUME ScanInv, activity = "page", UNCHANGED <<request, configured>>,
           UNCHANGED <<cursor, last>> \/ RemembersRow
    PROVE  /\ (cursor \in Cursors(CursorLength))' /\ (last \in Cursors(KeyLength))'
           /\ CursorOfTool' /\ LinkHolds'
<1>1. /\ KeyLength' = KeyLength /\ ToolCursors' = ToolCursors /\ CursorLength' = CursorLength
      /\ (Hopeless' <=> Hopeless)
  BY SameRequest
<1>2. ASSUME NEW CONSTANT r PROVE Key(r)' = Key(r) /\ CursorOf(r)' = CursorOf(r)
  BY SameKeys
<1>3. CASE UNCHANGED <<cursor, last>>
  <2>1. LinkHolds'
    <3>1. LinkHolds
      BY DEF ScanInv
    <3>2. CASE cursor = None
      BY <1>3, <3>1, <3>2 DEF LinkHolds
    <3>3. CASE cursor # None
      <4>1. PICK row : cursor = CursorOf(row) /\ last = Key(row)
        BY <3>1, <3>3 DEF LinkHolds
      <4>2. cursor' = CursorOf(row)' /\ last' = Key(row)'
        BY <1>2, <1>3, <4>1
      <4> QED BY <1>3, <3>3, <4>2 DEF LinkHolds
    <3> QED BY <3>2, <3>3
  <2> QED BY <1>1, <1>3, <2>1 DEF ScanInv, CursorOfTool, Cursors
<1>4. CASE RemembersRow
  <2>1. cursor' # None
    BY <1>4, KeyOrderAssumption, KeysAssumption DEF RemembersRow, ToolCursors
  <2>2. LinkHolds'
    <3>1. PICK row : cursor' = CursorOf(row) /\ last' = Key(row)
      BY <1>4 DEF RemembersRow
    <3>2. cursor' = CursorOf(row)' /\ last' = Key(row)'
      BY <1>2, <3>1
    <3> QED BY <2>1, <3>2 DEF LinkHolds
  <2>3. (cursor \in Cursors(CursorLength))' /\ CursorOfTool'
    BY <1>1, <1>4 DEF RemembersRow, CursorOfTool, Cursors, ToolCursors
  <2>4. (last \in Cursors(KeyLength))'
    BY <1>1, <1>4 DEF RemembersRow, Cursors
  <2> QED BY <2>2, <2>3, <2>4
<1> QED BY <1>3, <1>4

\* A call between two stores.
LEMMA ReplyStep ==
    ASSUME ScanInv, activity = "page", NEW limit, Reply(limit), UNCHANGED activity
    PROVE  ScanInv' /\ (P!Next \/ CursorMoved)
<1>1. UNCHANGED <<request, configured, table, kept, edition, provenance>>
  BY DEF Reply, dbVars
<1>2. /\ \/ CursorMoved
         \/ P!Refuse \/ P!SendLast \/ \E page \in SUBSET P!Remaining : P!SendPage(page)
      /\ sent' \in Nat /\ reported' \subseteq Keys /\ status' \in {"open", "done", "refused"}
      /\ UNCHANGED <<cursor, last>> \/ RemembersRow
  BY ReplyPages
<1>3. PICK ed, known : ed = edition /\ known = provenance
  OBVIOUS
<1>4. TableOf(ed, known)' = TableOf(ed, known)
  BY <1>1, SameTable
<1>5. edition' = ed /\ provenance' = known
  BY <1>1, <1>3
<1>6. (table = TableOf(ed, known))'
  BY <1>1, <1>3, <1>4 DEF ScanInv
<1>7. /\ (cursor \in Cursors(CursorLength))' /\ (last \in Cursors(KeyLength))'
      /\ CursorOfTool' /\ LinkHolds'
  BY <1>1, <1>2, CursorKept
<1>8. (table = TableOf(edition, provenance))'
  BY <1>5, <1>6
<1>9. P!Next \/ CursorMoved
  BY <1>2 DEF P!Next
<1> QED BY <1>1, <1>2, <1>7, <1>8, <1>9 DEF ScanInv

\* Another process stores between two calls.
LEMMA StoreStep ==
    ASSUME ScanInv, activity = "page", [Next]_vars,
           NEW f \in Files, NEW e \in 0 .. MaxEdition, ScanStore(f, e), UNCHANGED activity
    PROVE  ScanInv' /\ P!Store
<1>1. /\ UNCHANGED <<request, cursor, last, reported, sent, status, configured>>
      /\ table' = TableOf([edition EXCEPT ![f] = e], Stored(provenance, f, e))
      /\ kept' = kept \cap table'
      /\ edition' = [edition EXCEPT ![f] = e] /\ provenance' = Stored(provenance, f, e)
  BY DEF ScanStore, StoreFile, Put
<1>2. edition' \in Stores /\ (DOMAIN provenance \subseteq Variants)'
  BY DatabaseInv
<1>3. PICK ed, known : ed = edition' /\ known = provenance'
  OBVIOUS
<1>4. TableOf(ed, known)' = TableOf(ed, known)
  BY <1>1, SameTable
<1>5. table' = TableOf(ed, known)
  BY <1>1, <1>3
<1>6. table' \in SUBSET Keys
  BY <1>2, <1>3, <1>5, TableServed DEF ScanInv, ToolKeys
<1>7. (table = TableOf(edition, provenance))'
  BY <1>3, <1>4, <1>5
<1>8. /\ (cursor \in Cursors(CursorLength))' /\ (last \in Cursors(KeyLength))'
      /\ CursorOfTool' /\ LinkHolds'
  BY <1>1, CursorKept
<1>9. P!Store
  BY <1>1, <1>6 DEF P!Store
<1> QED BY <1>1, <1>2, <1>7, <1>8, <1>9 DEF ScanInv

LEMMA ScanStep == ScanInv /\ [Next]_vars => ScanInv' /\ [P!Next \/ CursorMoved]_(P!vars)
<1> SUFFICES ASSUME ScanInv, [Next]_vars PROVE ScanInv' /\ [P!Next \/ CursorMoved]_(P!vars)
  OBVIOUS
<1>1. CASE Page
  <2>1. activity = "page" /\ ScanNext /\ UNCHANGED activity
    BY <1>1 DEF Page
  <2>2. ASSUME NEW limit, Reply(limit) PROVE ScanInv' /\ (P!Next \/ CursorMoved)
    BY <2>1, <2>2, ReplyStep
  <2>3. ASSUME NEW f \in Files, NEW e \in 0 .. MaxEdition, ScanStore(f, e) PROVE ScanInv' /\ P!Next
    BY <2>1, <2>3, StoreStep DEF P!Next
  <2> QED BY <2>1, <2>2, <2>3 DEF ScanNext
<1>2. CASE Walk \/ Read
  <2>1. activity # "page" /\ UNCHANGED activity /\ UNCHANGED scanVars
    BY <1>2 DEF Walk, Read
  <2> QED BY <2>1, DatabaseInv DEF ScanInv, scanVars, P!vars
<1>3. CASE UNCHANGED vars
  <2>1. UNCHANGED <<activity, request, configured, cursor, last, reported, sent, table, kept,
                    status, edition, provenance>>
    BY <1>3 DEF vars, scanVars, dbVars
  <2>2. PICK ed, known : ed = edition /\ known = provenance
    OBVIOUS
  <2>3. TableOf(ed, known)' = TableOf(ed, known)
    BY <2>1, SameTable
  <2>4. edition' = ed /\ provenance' = known
    BY <2>1, <2>2
  <2>5. activity = "page" => /\ (table = TableOf(ed, known))'
                             /\ (cursor \in Cursors(CursorLength))'
                             /\ (last \in Cursors(KeyLength))' /\ CursorOfTool' /\ LinkHolds'
    BY <2>1, <2>2, <2>3, CursorKept DEF ScanInv
  <2>6. activity = "page" => (table = TableOf(edition, provenance))'
    BY <2>4, <2>5
  <2> QED BY <2>1, <2>5, <2>6, DatabaseInv DEF ScanInv, P!vars
<1> QED BY <1>1, <1>2, <1>3 DEF Next

\* Following nextCursor through a tool is a scan in pages: whatever is stored between
\* the calls, the answers have every row that was there all the time, and none twice.  The
\* exception is a list of callers whose cursor names a call that a store has moved.
THEOREM ScansInPages == Spec => PagesSpec
<1>1. Init => P!Init /\ ScanInv
  BY ScanBegins
<1>2. ScanInv /\ [Next]_vars => ScanInv' /\ [P!Next \/ CursorMoved]_(P!vars)
  BY ScanStep
<1> QED BY <1>1, <1>2, PTL DEF Spec, PagesSpec

\* A call with a cursor that was handed out succeeds, unless the record it names is gone.
LEMMA CursorTakenBack ==
    ASSUME ScanInv, activity = "page", NEW limit, ParsedLimit(limit) # Malformed,
           cursor # None, Reply(limit), status' = "refused"
    PROVE  request.tool \in CallTools /\ cursor \notin {RecordKey(r) : r \in CallsListed(edition)}
<1> DEFINE parsed == ParsedLimit(limit)
           reply == Call(edition, provenance, cursor, parsed)
<1>1. cursor \in ToolCursors /\ ~Hopeless
  BY DEF ScanInv, CursorOfTool
<1>2. Parses(cursor) /\ (request.tool \in RecordTools => ValidCursor(cursor))
  BY <1>1 DEF ToolCursors
<1>3. parsed \in 1 .. MaxLimit
  BY ParsedLimits
<1>4. reply.status # "Success"
  <2> DEFINE taken == IF parsed = Malformed \/ (cursor # None /\ ~Parses(cursor)) THEN InvalidParams
                       ELSE Call(edition, provenance, cursor, parsed)
  <2>1. status' = CASE taken.status # "Success" -> "refused"
                    [] taken.truncated -> "open"
                    [] OTHER -> "done"
    BY Zenon DEF Reply
  <2>2. taken = reply
    BY <1>2
  <2> HIDE DEF taken, reply
  <2> QED BY <2>1, <2>2
<1> HIDE DEF parsed
<1>5. NotHonoured(edition, cursor)
  <2>1. \/ Refuses(reply) /\ (Hopeless \/ NotHonoured(edition, cursor))
        \/ \E base : IsReply(reply, Remain(table, base), parsed)
    BY <1>3, AnswerOf
  <2> HIDE DEF reply
  <2> QED BY <1>1, <1>4, <2>1 DEF IsReply
<1> QED BY <1>2, <1>5 DEF NotHonoured

\* A client that repeats its call with the nextCursor of the answer is refused only in a
\* list of calls, and only once the record the cursor names is gone.
THEOREM CursorsHonoured == Spec => CursorHonoured
<1>1. ASSUME ScanInv, [Next]_vars
      PROVE  [\A limit \in Limits :
                 cursor # None /\ ParsedLimit(limit) # Malformed /\ Reply(limit) /\ status' = "refused"
                     => /\ request.tool \in CallTools
                        /\ cursor \notin {RecordKey(r) : r \in CallsListed(edition)}]_scanVars
  <2>1. CASE Page
    BY <1>1, <2>1, CursorTakenBack DEF Page
  <2>2. CASE Walk \/ Read \/ UNCHANGED vars
    <3>1. UNCHANGED scanVars
      BY <2>2 DEF Walk, Read, vars
    <3> QED BY <3>1
  <2> QED BY <1>1, <2>1, <2>2 DEF Next
<1>2. Init => ScanInv
  BY ScanBegins
<1>3. ScanInv /\ [Next]_vars => ScanInv'
  BY ScanStep
<1> QED BY <1>1, <1>2, <1>3, PTL DEF Spec, CursorHonoured


----------------------------------------------------------------------------
(* Distances in the graph of calls.                                        *)

\* Successors and Within, for any direction and bound.
NextOf(direction, calls, functions) ==
    {Peer(direction, r) : r \in {c \in calls : Self(direction, c) \in functions /\ Self(direction, c).usr # 0}}

IsNear(near, direction, n, calls, functions) ==
    near = [d \in 0 .. n |->
               IF d = 0 THEN functions
               ELSE LET nearer == near[d - 1] IN nearer \cup NextOf(direction, calls, nearer)]

Near(direction, n, calls, functions) ==
    CHOOSE near : IsNear(near, direction, n, calls, functions)

\* What is within a distance, whatever distances are of interest.
Level(direction, calls, functions, d) == Near(direction, d, calls, functions)[d]

LEMMA NearExists ==
    ASSUME NEW direction, NEW calls, NEW functions, NEW n \in Nat
    PROVE  IsNear(Near(direction, n, calls, functions), direction, n, calls, functions)
<1> DEFINE Is(g, k) == IsNear(g, direction, k, calls, functions)
           N(S) == S \cup NextOf(direction, calls, S)
           T == {k \in Nat : \E g : Is(g, k)}
<1>0. ASSUME NEW g, NEW k
      PROVE  Is(g, k) <=> g = [d \in 0 .. k |-> IF d = 0 THEN functions ELSE N(g[d - 1])]
  BY Zenon DEF IsNear
<1> HIDE DEF Is, N
<1>1. 0 \in T
  <2> DEFINE g == [d \in 0 .. 0 |-> functions]
  <2>1. g = [d \in 0 .. 0 |-> IF d = 0 THEN functions ELSE N(g[d - 1])]
    OBVIOUS
  <2> HIDE DEF g
  <2> QED BY <1>0, <2>1
<1>2. ASSUME NEW k \in Nat, k \in T PROVE k + 1 \in T
  <2>1. PICK g : Is(g, k)
    BY <1>2
  <2>2. g = [d \in 0 .. k |-> IF d = 0 THEN functions ELSE N(g[d - 1])]
    BY <1>0, <2>1
  <2> DEFINE h == [d \in 0 .. k + 1 |-> IF d = 0 THEN functions ELSE N(g[d - 1])]
  <2>3. \A d \in 0 .. k : h[d] = g[d]
    <3>1. \A d \in 0 .. k : g[d] = IF d = 0 THEN functions ELSE N(g[d - 1])
      BY <2>2
    <3>2. \A d \in 0 .. k : d \in 0 .. k + 1
      OBVIOUS
    <3>3. \A d \in 0 .. k + 1 : h[d] = IF d = 0 THEN functions ELSE N(g[d - 1])
      OBVIOUS
    <3> HIDE DEF h
    <3> QED BY <3>1, <3>2, <3>3
  <2>4. \A d \in 0 .. k + 1 : d # 0 => d - 1 \in 0 .. k
    OBVIOUS
  <2>5. h = [d \in 0 .. k + 1 |-> IF d = 0 THEN functions ELSE N(h[d - 1])]
    <3>1. \A d \in 0 .. k + 1 : d # 0 => g[d - 1] = h[d - 1]
      BY <2>3, <2>4
    <3>2. h = [d \in 0 .. k + 1 |-> IF d = 0 THEN functions ELSE N(g[d - 1])]
      OBVIOUS
    <3> HIDE DEF h
    <3> QED BY <3>1, <3>2
  <2> HIDE DEF h
  <2>6. Is(h, k + 1)
    BY <1>0, <2>5
  <2> QED BY <2>6
<1>3. n \in T
  <2> HIDE DEF T
  <2> QED BY <1>1, <1>2, Induction
<1>4. \E g : IsNear(g, direction, n, calls, functions)
  BY <1>3 DEF Is
<1> QED BY <1>4, Zenon DEF Near

\* The distances do not depend on the bound.
LEMMA NearIsLevel ==
    ASSUME NEW direction, NEW calls, NEW functions, NEW n \in Nat, NEW d \in 0 .. n
    PROVE  Near(direction, n, calls, functions)[d] = Level(direction, calls, functions, d)
<1> DEFINE N(S) == S \cup NextOf(direction, calls, S)
           near(k) == Near(direction, k, calls, functions)
           T == {k \in Nat : \A a, b \in Nat : k <= a /\ k <= b => near(a)[k] = near(b)[k]}
<1>1. ASSUME NEW k \in Nat
      PROVE  near(k) = [e \in 0 .. k |-> IF e = 0 THEN functions ELSE N(near(k)[e - 1])]
  <2>1. IsNear(near(k), direction, k, calls, functions)
    BY NearExists
  <2> QED BY <2>1, Zenon DEF IsNear
<1> HIDE DEF N, near
<1>2. \A k \in Nat : \A e \in 0 .. k : near(k)[e] = IF e = 0 THEN functions ELSE N(near(k)[e - 1])
  BY <1>1
<1>3. 0 \in T
  <2>1. \A a \in Nat : near(a)[0] = functions
    BY <1>2
  <2> QED BY <2>1
<1>4. ASSUME NEW k \in Nat, k \in T PROVE k + 1 \in T
  <2> SUFFICES ASSUME NEW a \in Nat, NEW b \in Nat, k + 1 <= a, k + 1 <= b
               PROVE  near(a)[k + 1] = near(b)[k + 1]
    OBVIOUS
  <2>1. near(a)[k] = near(b)[k]
    BY <1>4
  <2>2. k + 1 \in 0 .. a /\ k + 1 \in 0 .. b /\ k + 1 # 0 /\ (k + 1) - 1 = k
    OBVIOUS
  <2>3. near(a)[k + 1] = N(near(a)[(k + 1) - 1]) /\ near(b)[k + 1] = N(near(b)[(k + 1) - 1])
    BY <1>2, <2>2
  <2> QED BY <2>1, <2>2, <2>3
<1>5. d \in T
  <2> HIDE DEF T
  <2> QED BY <1>3, <1>4, Induction
<1>6. near(n)[d] = near(d)[d]
  BY <1>5
<1> QED BY <1>6 DEF near, Level

LEMMA Levels ==
    ASSUME NEW direction, NEW calls, NEW functions
    PROVE  /\ Level(direction, calls, functions, 0) = functions
           /\ \A d \in Nat :
                Level(direction, calls, functions, d + 1) =
                    Level(direction, calls, functions, d)
                        \cup NextOf(direction, calls, Level(direction, calls, functions, d))
<1> DEFINE L(d) == Level(direction, calls, functions, d)
           near(n) == Near(direction, n, calls, functions)
           N(S) == S \cup NextOf(direction, calls, S)
<1>1. ASSUME NEW n \in Nat
      PROVE  near(n) = [e \in 0 .. n |-> IF e = 0 THEN functions ELSE N(near(n)[e - 1])]
  <2>1. IsNear(near(n), direction, n, calls, functions)
    BY NearExists
  <2> QED BY <2>1, Zenon DEF IsNear
<1>2. ASSUME NEW n \in Nat, NEW d \in 0 .. n PROVE near(n)[d] = L(d)
  BY NearIsLevel
<1> HIDE DEF L, near, N
<1>3. L(0) = functions
  <2>1. near(0)[0] = functions
    BY <1>1
  <2> QED BY <1>2, <2>1
<1>4. ASSUME NEW d \in Nat PROVE L(d + 1) = N(L(d))
  <2>1. d + 1 \in Nat /\ d + 1 \in 0 .. d + 1 /\ d \in 0 .. d + 1 /\ d + 1 # 0 /\ (d + 1) - 1 = d
    OBVIOUS
  <2>2. near(d + 1)[d + 1] = N(near(d + 1)[(d + 1) - 1])
    BY <1>1, <2>1
  <2> QED BY <1>2, <2>1, <2>2
<1> QED BY <1>3, <1>4 DEF L, N

\* The distances of the model.
LEMMA WithinIsLevel ==
    ASSUME NEW calls, IsFiniteSet(calls), walk.depth \in Nat, NEW functions,
           NEW d \in 0 .. Cardinality(calls) + walk.depth
    PROVE  Within(calls, functions)[d] = Level(walk.direction, calls, functions, d)
<1>1. Cardinality(calls) + walk.depth \in Nat
  BY FS_CardinalityType
<1> DEFINE n == Cardinality(calls) + walk.depth
<1> HIDE DEF n
<1>2. Within(calls, functions) = Near(walk.direction, n, calls, functions)
  BY Zenon DEF Within, Near, IsNear, Successors, NextOf, n
<1> QED BY <1>1, <1>2, NearIsLevel DEF n

\* More calls lead farther.
LEMMA MoreCalls ==
    ASSUME NEW direction, NEW few, NEW many, few \subseteq many, NEW functions, NEW d \in Nat
    PROVE  Level(direction, few, functions, d) \subseteq Level(direction, many, functions, d)
<1> DEFINE F(k) == Level(direction, few, functions, k)
           M(k) == Level(direction, many, functions, k)
           T == {k \in Nat : F(k) \subseteq M(k)}
<1>1. F(0) = M(0) /\ \A k \in Nat : /\ F(k + 1) = F(k) \cup NextOf(direction, few, F(k))
                                    /\ M(k + 1) = M(k) \cup NextOf(direction, many, M(k))
  BY Levels
<1> HIDE DEF F, M
<1>2. 0 \in T
  BY <1>1
<1>3. ASSUME NEW k \in Nat, k \in T PROVE k + 1 \in T
  <2>1. F(k) \subseteq M(k)
    BY <1>3
  <2>2. NextOf(direction, few, F(k)) \subseteq NextOf(direction, many, M(k))
    BY <2>1 DEF NextOf
  <2> QED BY <1>1, <2>1, <2>2
<1>4. d \in T
  <2> HIDE DEF T
  <2> QED BY <1>2, <1>3, Induction
<1> QED BY <1>4 DEF F, M

\* What is near is within every larger distance.
LEMMA FartherIsMore ==
    ASSUME NEW direction, NEW calls, NEW functions, NEW d \in Nat, NEW e \in Nat, d <= e
    PROVE  Level(direction, calls, functions, d) \subseteq Level(direction, calls, functions, e)
<1> DEFINE L(k) == Level(direction, calls, functions, k)
           T == {k \in Nat : d <= k => L(d) \subseteq L(k)}
<1>1. \A k \in Nat : L(k) \subseteq L(k + 1)
  <2>1. \A k \in Nat : L(k + 1) = L(k) \cup NextOf(direction, calls, L(k))
    BY Levels
  <2> HIDE DEF L
  <2> QED BY <2>1
<1> HIDE DEF L
<1>2. 0 \in T
  OBVIOUS
<1>3. ASSUME NEW k \in Nat, k \in T PROVE k + 1 \in T
  BY <1>1, <1>3
<1>4. e \in T
  <2> HIDE DEF T
  <2> QED BY <1>2, <1>3, Induction
<1> QED BY <1>4 DEF L

\* A call leads one step on.
LEMMA StepOn ==
    ASSUME NEW direction, NEW calls, NEW functions, NEW d \in Nat, NEW r \in calls,
           Self(direction, r) \in Level(direction, calls, functions, d), Self(direction, r).usr # 0
    PROVE  Peer(direction, r) \in Level(direction, calls, functions, d + 1)
<1>1. Peer(direction, r) \in NextOf(direction, calls, Level(direction, calls, functions, d))
  BY DEF NextOf
<1>2. \A k \in Nat : Level(direction, calls, functions, k + 1) =
        Level(direction, calls, functions, k) \cup NextOf(direction, calls, Level(direction, calls, functions, k))
  BY Levels
<1> QED BY <1>1, <1>2

----------------------------------------------------------------------------
(* A visit: the records of one function, one after the other.              *)

LEMMA MaxIsGreatest ==
    ASSUME NEW s \in SUBSET Nat, NEW n \in s, \A y \in s : n >= y
    PROVE  Max(s) = n
<1> DEFINE Top(x) == \A y \in s : x >= y
<1>1. \A x \in s : Top(x) => x = n
  OBVIOUS
<1>2. Top(CHOOSE x \in s : Top(x)) /\ (CHOOSE x \in s : Top(x)) \in s
  <2> Top(n)
    OBVIOUS
  <2> HIDE DEF Top
  <2> QED OBVIOUS
<1>3. Max(s) = CHOOSE x \in s : Top(x)
  BY DEF Max
<1> HIDE DEF Top
<1> QED BY <1>1, <1>2, <1>3

\* What the fold over the records of a function defines.
IsVisit(h, function, base, rows, n) ==
    h = [s \in SUBSET (1 .. n) |->
            IF s = {} THEN base ELSE Consider(function, rows[Max(s)], h[s \ {Max(s)}])]

LEMMA VisitExists ==
    ASSUME NEW function, NEW base, NEW rows, NEW n \in Nat
    PROVE  \E h : IsVisit(h, function, base, rows, n)
<1> DEFINE V(h, s) == IF s = {} THEN base ELSE Consider(function, rows[Max(s)], h[s \ {Max(s)}])
           Is(h, k) == IsVisit(h, function, base, rows, k)
           T == {k \in Nat : \E h : Is(h, k)}
<1>0. ASSUME NEW h, NEW k
      PROVE  Is(h, k) <=> h = [s \in SUBSET (1 .. k) |-> V(h, s)]
  BY Zenon DEF IsVisit
<1> HIDE DEF Is
<1>1. 0 \in T
  <2> DEFINE h == [s \in SUBSET (1 .. 0) |-> base]
  <2>1. \A s \in SUBSET (1 .. 0) : V(h, s) = base
    <3>1. \A s \in SUBSET (1 .. 0) : s = {}
      OBVIOUS
    <3> QED BY <3>1, Zenon
  <2> HIDE DEF V
  <2>2. h = [s \in SUBSET (1 .. 0) |-> V(h, s)]
    BY <2>1
  <2> HIDE DEF h
  <2> QED BY <1>0, <2>2
<1>2. ASSUME NEW k \in Nat, k \in T PROVE k + 1 \in T
  <2>1. PICK h : h = [s \in SUBSET (1 .. k) |-> V(h, s)]
    BY <1>0, <1>2
  <2> DEFINE g == [s \in SUBSET (1 .. k + 1) |-> V(h, s)]
  <2>2. \A s \in SUBSET (1 .. k) : g[s] = h[s]
    <3>1. \A s \in SUBSET (1 .. k) : s \in SUBSET (1 .. k + 1)
      OBVIOUS
    <3>2. \A s \in SUBSET (1 .. k) : h[s] = V(h, s)
      BY <2>1, Zenon
    <3>3. \A s \in SUBSET (1 .. k + 1) : g[s] = V(h, s)
      OBVIOUS
    <3> HIDE DEF g, V
    <3> QED BY <3>1, <3>2, <3>3
  <2>3. ASSUME NEW s \in SUBSET (1 .. k + 1), s # {} PROVE s \ {Max(s)} \in SUBSET (1 .. k)
    <3>1. CASE k + 1 \in s
      <4>1. s \in SUBSET Nat /\ \A y \in s : k + 1 >= y
        OBVIOUS
      <4>2. Max(s) = k + 1
        BY <3>1, <4>1, MaxIsGreatest
      <4>3. \A m : m = k + 1 => s \ {m} \in SUBSET (1 .. k)
        OBVIOUS
      <4> QED BY <4>2, <4>3
    <3>2. CASE k + 1 \notin s
      <4>1. \A x \in s : x \in 1 .. k + 1 /\ x # k + 1
        BY <3>2
      <4>2. \A x \in s : x \in 1 .. k
        BY <4>1
      <4> QED BY <4>2
    <3> QED BY <3>1, <3>2
  <2>4. ASSUME NEW s \in SUBSET (1 .. k + 1) PROVE V(h, s) = V(g, s)
    <3>1. CASE s = {}
      BY <3>1
    <3>2. CASE s # {}
      <4>1. g[s \ {Max(s)}] = h[s \ {Max(s)}]
        <5> HIDE DEF g
        <5> QED BY <2>2, <2>3, <3>2
      <4> HIDE DEF g
      <4> QED BY <3>2, <4>1, Zenon
    <3> QED BY <3>1, <3>2
  <2>5. g = [s \in SUBSET (1 .. k + 1) |-> V(h, s)]
    OBVIOUS
  <2> HIDE DEF g, V
  <2>6. g = [s \in SUBSET (1 .. k + 1) |-> V(g, s)]
    BY <2>4, <2>5
  <2>7. Is(g, k + 1)
    BY <1>0, <2>6
  <2> QED BY <2>7
<1>3. n \in T
  <2> HIDE DEF T
  <2> QED BY <1>1, <1>2, Induction
<1> QED BY <1>3 DEF Is

\* Where a visit begins.
Base ==
    [pending |-> Tail(pending), visited |-> visited, edges |-> edges,
     hit |-> flags.nodeLimitHit, cycles |-> flags.cyclesDetected]

\* b follows a visit of function from record to record.
IsCourse(b, function, rows) ==
    /\ b[0] = Base
    /\ \A k \in 1 .. Len(rows) : b[k] = Consider(function, rows[k], b[k - 1])

\* A visit ends where its course does.
LEMMA VisitCourse ==
    ASSUME Visit, NEW R, NextCalls(Head(pending)) \in Seq(R)
    PROVE  LET rows == NextCalls(Head(pending))
           IN \E b : /\ IsCourse(b, Head(pending), rows)
                     /\ pending' = b[Len(rows)].pending
                     /\ visited' = b[Len(rows)].visited
                     /\ edges' = b[Len(rows)].edges
                     /\ flags' = [nodeLimitHit |-> b[Len(rows)].hit,
                                  cyclesDetected |-> b[Len(rows)].cycles]
<1> DEFINE function == Head(pending)
           rows == NextCalls(function)
           n == Len(rows)
           h == CHOOSE v : IsVisit(v, function, Base, rows, n)
           after == h[1 .. n]
<1>1. n \in Nat /\ DOMAIN rows = 1 .. n
  OBVIOUS
<1>2. /\ pending' = h[DOMAIN rows].pending
      /\ visited' = h[DOMAIN rows].visited
      /\ edges' = h[DOMAIN rows].edges
      /\ flags' = [nodeLimitHit |-> h[DOMAIN rows].hit, cyclesDetected |-> h[DOMAIN rows].cycles]
  <2> DEFINE i == CHOOSE v : v = [s \in SUBSET (DOMAIN rows) |->
                        IF s = {} THEN Base ELSE Consider(function, rows[Max(s)], v[s \ {Max(s)}])]
  <2>1. i = h
    BY <1>1, Zenon DEF IsVisit
  <2>2. /\ pending' = i[DOMAIN rows].pending
        /\ visited' = i[DOMAIN rows].visited
        /\ edges' = i[DOMAIN rows].edges
        /\ flags' = [nodeLimitHit |-> i[DOMAIN rows].hit, cyclesDetected |-> i[DOMAIN rows].cycles]
    BY Zenon DEF Visit, FoldLeft, MapThenFoldSet, Base
  <2> HIDE DEF i, h
  <2> QED BY <2>1, <2>2
<1>3. IsVisit(h, function, Base, rows, n)
  BY <1>1, VisitExists
<1> HIDE DEF h
<1> DEFINE b == [k \in 0 .. n |-> h[1 .. k]]
<1>4. b[0] = Base
  <2>1. 1 .. 0 = {}
    OBVIOUS
  <2>2. h[1 .. 0] = Base
    BY <1>3, <2>1, Zenon DEF IsVisit
  <2> QED BY <1>1, <2>2
<1>5. ASSUME NEW k \in 1 .. n PROVE b[k] = Consider(function, rows[k], b[k - 1])
  <2> DEFINE s == 1 .. k
  <2>1. s \in SUBSET (1 .. n) /\ s # {} /\ s \in SUBSET Nat /\ k \in s /\ \A y \in s : k >= y
    <3>1. k \in 1 .. k /\ k \in Nat /\ k <= n
      BY <1>1
    <3> HIDE DEF n
    <3> QED BY <1>1, <3>1
  <2>2. s \ {k} = 1 .. (k - 1) /\ k \in 0 .. n /\ k - 1 \in 0 .. n
    BY <1>1
  <2>3. b[k] = h[s] /\ b[k - 1] = h[1 .. (k - 1)]
    BY <2>2
  <2> HIDE DEF s, b
  <2>4. Max(s) = k
    BY <2>1, MaxIsGreatest
  <2>5. h[s] = Consider(function, rows[Max(s)], h[s \ {Max(s)}])
    BY <1>3, <2>1, Zenon DEF IsVisit
  <2> QED BY <2>2, <2>3, <2>4, <2>5
<1>6. b[n] = h[DOMAIN rows]
  BY <1>1
<1> HIDE DEF b, n
<1>7. IsCourse(b, function, rows)
  BY <1>4, <1>5 DEF IsCourse, n
<1> QED BY <1>2, <1>6, <1>7 DEF n

----------------------------------------------------------------------------
(* What one record does, and what holds in the middle of a visit.          *)

\* The functions a walk can meet, and what it keeps of them.
Functions == {walk.root} \cup {Peer(walk.direction, r) : r \in seen.ever}

Entries == [identity : Functions, depth : 0 .. walk.depth, ancestors : SUBSET Functions]

Edges == [record : seen.ever, depth : 1 .. walk.depth]

States ==
    [pending : Seq(Entries), visited : SUBSET Functions, edges : Seq(Edges),
     hit : BOOLEAN, cycles : BOOLEAN]

\* What a record adds to the edges, and to the functions to visit.
EdgeOf(function, r) == [record |-> r, depth |-> function.depth + 1]

EntryOf(function, r) ==
    [identity |-> Peer(walk.direction, r), depth |-> function.depth + 1,
     ancestors |-> function.ancestors \cup {Peer(walk.direction, r)}]

\* What a record does to the state s of the walk, by where it leads.
IsConsidered(t, s, function, r) ==
    LET next == Peer(walk.direction, r)
        found == Append(s.edges, EdgeOf(function, r))
    IN /\ t \in States
       /\ next \in function.ancestors =>
             /\ t.pending = s.pending /\ t.visited = s.visited /\ t.edges = found
             /\ t.hit = s.hit /\ t.cycles = TRUE
       /\ next \notin function.ancestors /\ next \in s.visited =>
             /\ t.pending = s.pending /\ t.visited = s.visited /\ t.edges = found
             /\ t.hit = s.hit /\ t.cycles = s.cycles
       /\ next \notin function.ancestors /\ next \notin s.visited
             /\ Cardinality(s.visited) >= walk.nodeLimit =>
             /\ t.pending = s.pending /\ t.visited = s.visited /\ t.edges = s.edges
             /\ t.hit = TRUE /\ t.cycles = s.cycles
       /\ next \notin function.ancestors /\ next \notin s.visited
             /\ ~(Cardinality(s.visited) >= walk.nodeLimit) =>
             /\ t.pending = Append(s.pending, EntryOf(function, r))
             /\ t.visited = s.visited \cup {next}
             /\ t.edges = found /\ t.hit = s.hit /\ t.cycles = s.cycles

LEMMA ConsiderCases ==
    ASSUME NEW s \in States, NEW function \in Entries, NEW r \in seen.ever,
           function.depth + 1 \in 1 .. walk.depth
    PROVE  IsConsidered(Consider(function, r, s), s, function, r)
<1> DEFINE next == Peer(walk.direction, r)
           found == EdgeOf(function, r)
           entry == EntryOf(function, r)
           noted == [s EXCEPT !.edges = Append(@, found)]
           t == Consider(function, r, s)
<1>1. next \in function.ancestors => t = [noted EXCEPT !.cycles = TRUE]
  BY Zenon DEF Consider, EdgeOf, EntryOf
<1>2. next \notin function.ancestors /\ next \in s.visited => t = noted
  BY Zenon DEF Consider, EdgeOf, EntryOf
<1>3. next \notin function.ancestors /\ next \notin s.visited
         /\ Cardinality(s.visited) >= walk.nodeLimit => t = [s EXCEPT !.hit = TRUE]
  BY Zenon DEF Consider, EdgeOf, EntryOf
<1>4. next \notin function.ancestors /\ next \notin s.visited
         /\ ~(Cardinality(s.visited) >= walk.nodeLimit) =>
         t = [noted EXCEPT !.visited = @ \cup {next}, !.pending = Append(@, entry)]
  BY Zenon DEF Consider, EdgeOf, EntryOf
<1>5. found \in Edges /\ entry \in Entries /\ next \in Functions
  BY DEF Edges, Entries, Functions, EdgeOf, EntryOf
<1> HIDE DEF t, next, found, entry
<1>6. /\ noted \in States
      /\ noted.pending = s.pending /\ noted.visited = s.visited /\ noted.edges = Append(s.edges, found)
      /\ noted.hit = s.hit /\ noted.cycles = s.cycles
  <2> DEFINE more == Append(s.edges, found)
  <2>1. more \in Seq(Edges)
    BY <1>5 DEF States
  <2>2. noted = [s EXCEPT !.edges = more]
    OBVIOUS
  <2> HIDE DEF more, noted
  <2>3. /\ noted \in States
        /\ noted.pending = s.pending /\ noted.visited = s.visited /\ noted.edges = more
        /\ noted.hit = s.hit /\ noted.cycles = s.cycles
    BY <2>1, <2>2 DEF States
  <2> QED BY <2>3 DEF more
<1>7. LET u == [s EXCEPT !.hit = TRUE]
      IN  /\ u \in States
          /\ u.pending = s.pending /\ u.visited = s.visited /\ u.edges = s.edges
          /\ u.hit = TRUE /\ u.cycles = s.cycles
  BY DEF States
<1> HIDE DEF noted
<1>8. LET u == [noted EXCEPT !.cycles = TRUE]
      IN  /\ u \in States
          /\ u.pending = noted.pending /\ u.visited = noted.visited /\ u.edges = noted.edges
          /\ u.hit = noted.hit /\ u.cycles = TRUE
  BY <1>6 DEF States
<1>9. LET u == [noted EXCEPT !.visited = @ \cup {next}, !.pending = Append(@, entry)]
      IN  /\ u \in States
          /\ u.pending = Append(noted.pending, entry) /\ u.visited = noted.visited \cup {next}
          /\ u.edges = noted.edges /\ u.hit = noted.hit /\ u.cycles = noted.cycles
  <2> DEFINE longer == Append(noted.pending, entry)
             larger == noted.visited \cup {next}
             u == [noted EXCEPT !.visited = larger, !.pending = longer]
  <2>1. longer \in Seq(Entries) /\ larger \in SUBSET Functions
    BY <1>5, <1>6 DEF States
  <2> HIDE DEF longer, larger
  <2>2. /\ u \in States
        /\ u.pending = longer /\ u.visited = larger
        /\ u.edges = noted.edges /\ u.hit = noted.hit /\ u.cycles = noted.cycles
    BY <1>6, <2>1 DEF States
  <2> HIDE DEF u
  <2> QED BY <2>2, Zenon DEF u, longer, larger
<1> HIDE DEF States
<1>10. t \in States
  BY <1>1, <1>2, <1>3, <1>4, <1>6, <1>7, <1>8, <1>9
<1>11. next \in function.ancestors =>
          /\ t.pending = s.pending /\ t.visited = s.visited /\ t.edges = Append(s.edges, found)
          /\ t.hit = s.hit /\ t.cycles = TRUE
  BY <1>1, <1>6, <1>8
<1>12. next \notin function.ancestors /\ next \in s.visited =>
          /\ t.pending = s.pending /\ t.visited = s.visited /\ t.edges = Append(s.edges, found)
          /\ t.hit = s.hit /\ t.cycles = s.cycles
  BY <1>2, <1>6
<1>13. next \notin function.ancestors /\ next \notin s.visited
          /\ Cardinality(s.visited) >= walk.nodeLimit =>
          /\ t.pending = s.pending /\ t.visited = s.visited /\ t.edges = s.edges
          /\ t.hit = TRUE /\ t.cycles = s.cycles
  BY <1>3, <1>7
<1>14. next \notin function.ancestors /\ next \notin s.visited
          /\ ~(Cardinality(s.visited) >= walk.nodeLimit) =>
          /\ t.pending = Append(s.pending, entry) /\ t.visited = s.visited \cup {next}
          /\ t.edges = Append(s.edges, found) /\ t.hit = s.hit /\ t.cycles = s.cycles
  BY <1>4, <1>6, <1>9
<1> QED BY <1>10, <1>11, <1>12, <1>13, <1>14, Zenon DEF IsConsidered, t, next, found, entry

\* A sequence goes on where another ends.
Extends(long, short) == Len(short) <= Len(long) /\ \A k \in 1 .. Len(short) : long[k] = short[k]

\* The edges, the functions to visit, those that were found, and the flags after i of
\* the records rows of function.
MidEdges(s, function, rows, i) ==
    /\ Extends(s.edges, edges)
    /\ Len(s.edges) <= Len(edges) + i
    /\ ~s.hit => Len(s.edges) = Len(edges) + i
    /\ \A k \in 1 .. Len(s.edges) : k > Len(edges) =>
          s.edges[k].depth = function.depth + 1 /\ \E j \in 1 .. i : s.edges[k].record = rows[j]
    /\ ~s.hit => \A j \in 1 .. i : \E k \in 1 .. Len(s.edges) : s.edges[k].record = rows[j]

IsFresh(p, s, function, rows, i) ==
    /\ p.depth = function.depth + 1
    /\ p.identity \notin function.ancestors
    /\ p.ancestors = function.ancestors \cup {p.identity}
    /\ p.identity \in s.visited
    /\ \E j \in 1 .. i : p.identity = Peer(walk.direction, rows[j])
    /\ \E k \in 1 .. Len(s.edges) : s.edges[k].depth = p.depth

MidPending(s, function, rows, i) ==
    /\ Extends(s.pending, Tail(pending))
    /\ \A k \in 1 .. Len(s.pending) : k > Len(Tail(pending)) =>
          IsFresh(s.pending[k], s, function, rows, i)

MidVisited(s, function, rows, i) ==
    /\ visited \subseteq s.visited
    /\ IsFiniteSet(s.visited) /\ Cardinality(s.visited) <= walk.nodeLimit
    /\ \A g \in s.visited \ visited : \E k \in 1 .. Len(s.pending) : s.pending[k].identity = g
    /\ ~s.hit => \A j \in 1 .. i : Peer(walk.direction, rows[j]) \in s.visited

MidFlags(s, function, rows, i) ==
    /\ flags.nodeLimitHit => s.hit
    /\ s.cycles => flags.cyclesDetected
                      \/ \E j \in 1 .. i : Peer(walk.direction, rows[j]) \in function.ancestors

Mid(s, function, rows, i) ==
    /\ s \in States
    /\ MidEdges(s, function, rows, i)
    /\ MidPending(s, function, rows, i)
    /\ MidVisited(s, function, rows, i)
    /\ MidFlags(s, function, rows, i)

\* A record that gets an edge.
LEMMA EdgeAdded ==
    ASSUME edges \in Seq(Edges), NEW s \in States, NEW function, NEW rows, NEW i \in Nat,
           MidEdges(s, function, rows, i), NEW t,
           function.depth + 1 \in 1 .. walk.depth, rows[i + 1] \in seen.ever,
           t.edges = Append(s.edges, EdgeOf(function, rows[i + 1])),
           t.hit = s.hit
    PROVE  /\ MidEdges(t, function, rows, i + 1) /\ t.edges \in Seq(Edges)
           /\ Extends(t.edges, s.edges)
<1> DEFINE found == EdgeOf(function, rows[i + 1])
           m == Len(s.edges)
<1>1. s.edges \in Seq(Edges) /\ m \in Nat /\ Len(edges) \in Nat
  BY DEF States
<1>2. found \in Edges /\ found.record = rows[i + 1] /\ found.depth = function.depth + 1
  BY DEF Edges, EdgeOf
<1> HIDE DEF found
<1>3. /\ t.edges \in Seq(Edges) /\ Len(t.edges) = m + 1 /\ t.edges[m + 1] = found
      /\ \A k \in 1 .. m : t.edges[k] = s.edges[k]
  BY <1>1, <1>2 DEF found
<1>4. /\ Len(edges) <= m /\ (\A k \in 1 .. Len(edges) : s.edges[k] = edges[k])
      /\ m <= Len(edges) + i /\ (~s.hit => m = Len(edges) + i)
      /\ (\A k \in 1 .. m : k > Len(edges) =>
             s.edges[k].depth = function.depth + 1 /\ \E j \in 1 .. i : s.edges[k].record = rows[j])
      /\ (~s.hit => \A j \in 1 .. i : \E k \in 1 .. m : s.edges[k].record = rows[j])
  BY DEF MidEdges, Extends
<1> HIDE DEF m
<1>5. \A k \in 1 .. m + 1 : k \in 1 .. m \/ k = m + 1
  BY <1>1
<1>6. ASSUME NEW k \in 1 .. m + 1, k > Len(edges)
      PROVE  t.edges[k].depth = function.depth + 1 /\ \E j \in 1 .. i + 1 : t.edges[k].record = rows[j]
  <2>1. CASE k = m + 1
    BY <1>2, <1>3, <2>1
  <2>2. CASE k \in 1 .. m
    <3>1. PICK j \in 1 .. i : s.edges[k].record = rows[j]
      BY <1>4, <1>6, <2>2
    <3>2. j \in 1 .. i + 1
      OBVIOUS
    <3> QED BY <1>3, <1>4, <1>6, <2>2, <3>1, <3>2
  <2> QED BY <1>5, <2>1, <2>2
<1>7. ASSUME ~s.hit, NEW j \in 1 .. i + 1 PROVE \E k \in 1 .. m + 1 : t.edges[k].record = rows[j]
  <2>1. CASE j = i + 1
    <3>1. m + 1 \in 1 .. m + 1
      BY <1>1
    <3> QED BY <1>2, <1>3, <2>1, <3>1
  <2>2. CASE j \in 1 .. i
    <3>1. PICK k \in 1 .. m : s.edges[k].record = rows[j]
      BY <1>4, <1>7, <2>2
    <3>2. k \in 1 .. m + 1
      BY <1>1
    <3>3. t.edges[k].record = rows[j]
      BY <1>3, <3>1
    <3> QED BY <3>2, <3>3, Zenon
  <2>3. j = i + 1 \/ j \in 1 .. i
    OBVIOUS
  <2> QED BY <2>1, <2>2, <2>3, Zenon
<1>8. Extends(t.edges, s.edges) /\ Extends(t.edges, edges)
  BY <1>1, <1>3, <1>4 DEF Extends, m
<1>10. Len(edges) <= m + 1 /\ m + 1 <= Len(edges) + (i + 1) /\ (~s.hit => m + 1 = Len(edges) + (i + 1))
  BY <1>1, <1>4
<1>11. ~t.hit => ~s.hit /\ m + 1 = Len(edges) + (i + 1)
  BY <1>10
<1>9. MidEdges(t, function, rows, i + 1)
  BY <1>3, <1>6, <1>7, <1>8, <1>10, <1>11, Zenon DEF MidEdges
<1> QED BY <1>3, <1>8, <1>9

\* A visit after one more record.
LEMMA MidStep ==
    ASSUME edges \in Seq(Edges), pending \in Seq(Entries), pending # <<>>, walk \in Walks,
           NEW function \in Entries, function.depth + 1 \in 1 .. walk.depth,
           function.ancestors \subseteq visited,
           NEW rows \in Seq(seen.ever), NEW i \in Nat, i + 1 \in 1 .. Len(rows),
           NEW s, Mid(s, function, rows, i)
    PROVE  Mid(Consider(function, rows[i + 1], s), function, rows, i + 1)
<1> DEFINE r == rows[i + 1]
           next == Peer(walk.direction, r)
           entry == EntryOf(function, r)
           t == Consider(function, r, s)
<1>1. s \in States /\ r \in seen.ever /\ next \in Functions
  BY DEF Mid, Functions
<1>0. IsConsidered(t, s, function, r)
  BY <1>1, ConsiderCases
<1>10. t \in States
  BY <1>0, Zenon DEF IsConsidered
<1>2. /\ function.ancestors \subseteq Functions
      /\ s.pending \in Seq(Entries) /\ s.visited \in SUBSET Functions /\ s.edges \in Seq(Edges)
      /\ s.hit \in BOOLEAN /\ s.cycles \in BOOLEAN
  BY <1>1 DEF States, Entries
<1>3. \A j \in 1 .. i + 1 : j \in 1 .. i \/ j = i + 1
  OBVIOUS
<1>4. \A j \in 1 .. i : j \in 1 .. i + 1
  OBVIOUS
<1>5. ASSUME t.visited = s.visited, t.pending = s.pending, Extends(t.edges, s.edges)
      PROVE  MidPending(t, function, rows, i + 1)
  <2>1. ASSUME NEW p, IsFresh(p, s, function, rows, i) PROVE IsFresh(p, t, function, rows, i + 1)
    <3>1. PICK k \in 1 .. Len(s.edges) : s.edges[k].depth = p.depth
      BY <2>1 DEF IsFresh
    <3>2. k \in 1 .. Len(t.edges) /\ t.edges[k].depth = p.depth
      BY <1>2, <1>5, <3>1 DEF Extends
    <3> QED BY <1>4, <1>5, <2>1, <3>2 DEF IsFresh
  <2> QED BY <1>5, <2>1 DEF Mid, MidPending
<1>6. CASE next \in function.ancestors
  <2>2. /\ t.pending = s.pending /\ t.visited = s.visited /\ t.hit = s.hit /\ t.cycles = TRUE
        /\ t.edges = Append(s.edges, EdgeOf(function, r))
    BY <1>6, <1>0, Zenon DEF IsConsidered
  <2> HIDE DEF t
  <2>3. MidEdges(t, function, rows, i + 1) /\ t.edges \in Seq(Edges) /\ Extends(t.edges, s.edges)
    BY <1>1, <2>2, EdgeAdded DEF Mid
  <2>5. MidVisited(t, function, rows, i + 1)
    BY <1>3, <1>6, <2>2 DEF Mid, MidVisited
  <2>6. MidFlags(t, function, rows, i + 1)
    BY <1>6, <2>2 DEF Mid, MidFlags
  <2> QED BY <1>10, <1>5, <2>2, <2>3, <2>5, <2>6 DEF Mid, t
<1>7. CASE next \notin function.ancestors /\ next \in s.visited
  <2>2. /\ t.pending = s.pending /\ t.visited = s.visited /\ t.hit = s.hit /\ t.cycles = s.cycles
        /\ t.edges = Append(s.edges, EdgeOf(function, r))
    BY <1>7, <1>0, Zenon DEF IsConsidered
  <2> HIDE DEF t
  <2>3. MidEdges(t, function, rows, i + 1) /\ t.edges \in Seq(Edges) /\ Extends(t.edges, s.edges)
    BY <1>1, <2>2, EdgeAdded DEF Mid
  <2>5. MidVisited(t, function, rows, i + 1)
    BY <1>3, <1>7, <2>2 DEF Mid, MidVisited
  <2>6. MidFlags(t, function, rows, i + 1)
    BY <1>4, <2>2 DEF Mid, MidFlags
  <2> QED BY <1>10, <1>5, <2>2, <2>3, <2>5, <2>6 DEF Mid, t
<1>8. CASE next \notin function.ancestors /\ next \notin s.visited
              /\ Cardinality(s.visited) >= walk.nodeLimit
  <2>2. /\ t.pending = s.pending /\ t.visited = s.visited /\ t.hit = TRUE /\ t.cycles = s.cycles
        /\ t.edges = s.edges
    BY <1>8, <1>0, Zenon DEF IsConsidered
  <2> HIDE DEF t
  <2>3. MidEdges(t, function, rows, i + 1) /\ Extends(t.edges, s.edges)
    <3>1. Len(s.edges) \in Nat /\ Len(edges) \in Nat
      BY <1>2
    <3>2. Len(s.edges) <= Len(edges) + i => Len(s.edges) <= Len(edges) + (i + 1)
      BY <3>1
    <3> QED BY <1>4, <2>2, <3>1, <3>2 DEF Mid, MidEdges, Extends
  <2>5. MidVisited(t, function, rows, i + 1)
    BY <2>2 DEF Mid, MidVisited
  <2>6. MidFlags(t, function, rows, i + 1)
    BY <1>4, <2>2 DEF Mid, MidFlags
  <2> QED BY <1>10, <1>5, <2>2, <2>3, <2>5, <2>6 DEF Mid, t
<1>9. CASE next \notin function.ancestors /\ next \notin s.visited
              /\ ~(Cardinality(s.visited) >= walk.nodeLimit)
  <2>2. /\ t.pending = Append(s.pending, entry) /\ t.visited = s.visited \cup {next}
        /\ t.hit = s.hit /\ t.cycles = s.cycles
        /\ t.edges = Append(s.edges, EdgeOf(function, r))
    BY <1>9, <1>0, Zenon DEF IsConsidered
  <2> HIDE DEF t
  <2>3. /\ MidEdges(t, function, rows, i + 1) /\ t.edges \in Seq(Edges) /\ Extends(t.edges, s.edges)
        /\ \E k \in 1 .. Len(t.edges) : t.edges[k].depth = function.depth + 1
    <3> HIDE DEF entry
    <3>1. t.edges = Append(s.edges, EdgeOf(function, rows[i + 1])) /\ t.hit = s.hit
      BY <2>2
    <3>2. /\ edges \in Seq(Edges) /\ MidEdges(s, function, rows, i) /\ rows[i + 1] \in seen.ever
          /\ function.depth + 1 \in 1 .. walk.depth
      BY <1>1 DEF Mid
    <3> HIDE DEF next, t, r
    <3>3. MidEdges(t, function, rows, i + 1) /\ t.edges \in Seq(Edges) /\ Extends(t.edges, s.edges)
      BY <1>1, <3>1, <3>2, EdgeAdded, Zenon
    <3>4. \E k \in 1 .. Len(t.edges) : t.edges[k].depth = function.depth + 1
      <4> DEFINE n == Len(s.edges) + 1
      <4>1. n \in 1 .. Len(t.edges) /\ t.edges[n] = EdgeOf(function, rows[i + 1])
        BY <1>2, <3>1
      <4>2. t.edges[n].depth = function.depth + 1
        BY <4>1 DEF EdgeOf
      <4> QED BY <4>1, <4>2
    <3> QED BY <3>3, <3>4
  <2>4. entry \in Entries /\ entry.identity = next /\ entry.depth = function.depth + 1
        /\ entry.ancestors = function.ancestors \cup {next}
    BY <1>1, <1>2 DEF Entries, EntryOf
  <2> HIDE DEF entry
  <2> DEFINE m == Len(s.pending)
  <2>5. /\ t.pending \in Seq(Entries) /\ m \in Nat /\ Len(t.pending) = m + 1
        /\ t.pending[m + 1] = entry /\ \A k \in 1 .. m : t.pending[k] = s.pending[k]
    BY <1>2, <2>2, <2>4
  <2>7. MidVisited(t, function, rows, i + 1)
    <3>1. IsFiniteSet(s.visited) /\ Cardinality(s.visited) \in Nat /\ walk.nodeLimit \in Nat
      BY WalksAssumption, FS_CardinalityType DEF Mid, MidVisited
    <3>2. IsFiniteSet(t.visited) /\ Cardinality(t.visited) = Cardinality(s.visited) + 1
      <4>1. /\ IsFiniteSet(s.visited \cup {next})
            /\ Cardinality(s.visited \cup {next}) = Cardinality(s.visited) + 1
        BY <1>9, <3>1, FS_AddElement
      <4> QED BY <2>2, <4>1
    <3>3. Cardinality(t.visited) <= walk.nodeLimit
      BY <1>9, <3>1, <3>2
    <3>4. ASSUME NEW g \in t.visited \ visited
          PROVE  \E k \in 1 .. Len(t.pending) : t.pending[k].identity = g
      <4>1. CASE g = next
        <5>1. m + 1 \in 1 .. m + 1
          BY <2>5
        <5> HIDE DEF m
        <5> QED BY <2>4, <2>5, <4>1, <5>1
      <4>2. CASE g \in s.visited
        <5>1. PICK k \in 1 .. m : s.pending[k].identity = g
          BY <3>4, <4>2 DEF Mid, MidVisited
        <5>2. k \in 1 .. m + 1
          BY <2>5
        <5> HIDE DEF m
        <5> QED BY <2>5, <5>1, <5>2
      <4> QED BY <2>2, <4>1, <4>2
    <3>5. visited \subseteq t.visited
      BY <2>2 DEF Mid, MidVisited
    <3>6. ~t.hit => \A j \in 1 .. i + 1 : Peer(walk.direction, rows[j]) \in t.visited
      BY <1>3, <2>2 DEF Mid, MidVisited
    <3> QED BY <3>2, <3>3, <3>4, <3>5, <3>6 DEF MidVisited
  <2>8. MidFlags(t, function, rows, i + 1)
    BY <1>4, <2>2 DEF Mid, MidFlags
  <2>9. MidPending(t, function, rows, i + 1)
    <3>1. ASSUME NEW p, IsFresh(p, s, function, rows, i) PROVE IsFresh(p, t, function, rows, i + 1)
      <4>1. PICK k \in 1 .. Len(s.edges) : s.edges[k].depth = p.depth
        BY <3>1 DEF IsFresh
      <4>2. Len(s.edges) \in Nat /\ Len(t.edges) \in Nat
        BY <1>2, <2>3
      <4>3. k \in 1 .. Len(t.edges) /\ t.edges[k] = s.edges[k]
        BY <2>3, <4>2 DEF Extends
      <4>4. t.edges[k].depth = p.depth
        BY <4>1, <4>3
      <4> QED BY <1>4, <2>2, <3>1, <4>3, <4>4 DEF IsFresh
    <3>2. IsFresh(entry, t, function, rows, i + 1)
      <4>1. i + 1 \in 1 .. i + 1 /\ next = Peer(walk.direction, rows[i + 1])
        OBVIOUS
      <4> QED BY <1>9, <2>2, <2>3, <2>4, <4>1 DEF IsFresh
    <3> DEFINE w == Len(Tail(pending))
    <3>3. /\ w \in Nat /\ w <= m /\ (\A k \in 1 .. w : s.pending[k] = Tail(pending)[k])
          /\ \A k \in 1 .. m : k > w => IsFresh(s.pending[k], s, function, rows, i)
      BY DEF Mid, MidPending, Extends
    <3> HIDE DEF w, m
    <3>4. Extends(t.pending, Tail(pending))
      BY <2>5, <3>3 DEF Extends, w
    <3>5. ASSUME NEW k \in 1 .. m + 1, k > w PROVE IsFresh(t.pending[k], t, function, rows, i + 1)
      <4>1. CASE k = m + 1
        BY <2>5, <3>2, <4>1
      <4>2. CASE k \in 1 .. m
        BY <2>5, <3>1, <3>3, <3>5, <4>2
      <4> QED BY <2>5, <4>1, <4>2
    <3> QED BY <2>5, <3>4, <3>5 DEF MidPending, w
  <2> QED BY <1>10, <2>3, <2>7, <2>8, <2>9 DEF Mid, t
<1> QED BY <1>6, <1>7, <1>8, <1>9

\* The calls a statement finds, up to one more than the limit leaves.
LEMMA CallsFound ==
    ASSUME edition \in Stores, walk \in Walks, edges \in Seq(Edges), Len(edges) <= walk.limit,
           NEW function, function.identity.symbol # 0
    PROVE  LET C == CallsOf(Records, function.identity, walk.direction)
               rows == NextCalls(function)
           IN /\ rows \in Seq(C)
              /\ Len(edges) + Len(rows) <= walk.limit + 1
              /\ Len(edges) + Len(rows) <= walk.limit => \A r \in C : \E i \in 1 .. Len(rows) : rows[i] = r
<1> DEFINE C == CallsOf(Records, function.identity, walk.direction)
           k == [r \in C |-> CallKey(walk.direction, r)]
           all == OrderedBy(C, k)
           left == walk.limit + 1 - Len(edges)
           rows == NextCalls(function)
<1>1. walk.direction \in {"callers", "callees"} /\ walk.limit \in Nat /\ Len(edges) \in Nat
  BY WalksAssumption
<1>2. left \in Nat /\ left # 0
  BY <1>1
<1>3. rows = Limited(all, left)
  <2>1. QueryCalls(edition, function.identity, walk.direction) = Answer(all)
    BY Zenon DEF QueryCalls, Ordered, Records
  <2> HIDE DEF all
  <2>2. QueryCalls(edition, function.identity, walk.direction).rows = all
    BY <2>1 DEF Answer
  <2> QED BY <2>2, Zenon DEF NextCalls
<1>4. /\ \A r \in C : CallKey(walk.direction, r) \in Keys /\ Len(CallKey(walk.direction, r)) = 5
      /\ \A a, b \in C : CallKey(walk.direction, a) = CallKey(walk.direction, b) => a = b
  BY <1>1, CallKeys DEF Records
<1> HIDE DEF C, left
<1>5. \A r \in C : k[r] = CallKey(walk.direction, r)
  OBVIOUS
<1> HIDE DEF k
<1>6. InOrder(all, C, k)
  <2>1. /\ \A r \in C : k[r] \in Keys /\ Len(k[r]) = 5
        /\ \A a, b \in C : k[a] = k[b] => a = b
    BY <1>4, <1>5
  <2> QED BY <2>1, KeysSort
<1> HIDE DEF all, rows
<1>7. all \in Seq(C) /\ Len(all) \in Nat /\ \A r \in C : \E i \in 1 .. Len(all) : all[i] = r
  BY <1>6 DEF InOrder
<1>8. /\ rows \in Seq(C)
      /\ Len(rows) = (IF Len(all) > left THEN left ELSE Len(all))
      /\ \A i \in 1 .. Len(rows) : rows[i] = all[i]
  BY <1>2, <1>3, <1>7, Limiting
<1>9. Len(edges) + Len(rows) <= walk.limit + 1
  <2>1. left = walk.limit + 1 - Len(edges)
    BY DEF left
  <2>2. Len(rows) <= left /\ Len(rows) \in Nat
    BY <1>2, <1>7, <1>8
  <2> QED BY <1>1, <2>1, <2>2
<1>10. ASSUME Len(edges) + Len(rows) <= walk.limit
       PROVE  \A r \in C : \E i \in 1 .. Len(rows) : rows[i] = r
  <2>1. Len(rows) = Len(all)
    BY <1>1, <1>7, <1>8, <1>10 DEF left
  <2> QED BY <1>7, <1>8, <2>1
<1> QED BY <1>8, <1>9, <1>10 DEF C, rows

----------------------------------------------------------------------------
(* What holds between the steps of a walk k, for the calls e that were      *)
(* there and the state s of the walk.                                       *)

WalkStates(k, calls) ==
    LET functions == {k.root} \cup {Peer(k.direction, r) : r \in calls}
    IN [pending : Seq([identity : functions, depth : 0 .. k.depth, ancestors : SUBSET functions]),
        visited : SUBSET functions, edges : Seq([record : calls, depth : 1 .. k.depth]),
        hit : BOOLEAN, cycles : BOOLEAN]

WalkTyped(k, e, s) ==
    /\ k \in Walks
    /\ e.always \subseteq e.ever /\ IsFiniteSet(e.ever)
    /\ s \in WalkStates(k, e.ever)
    /\ Len(s.edges) <= k.limit + 1
    /\ k.root \in s.visited /\ IsFiniteSet(s.visited) /\ Cardinality(s.visited) <= k.nodeLimit

\* A function to visit was reached over calls, as was its ancestors' way to it.
IsReached(k, ever, s, p) ==
    /\ p.identity \in Level(k.direction, ever, {k.root}, p.depth)
    /\ p.identity.symbol = 0 => k.direction = "callers" /\ \E r \in ever : r.context = 0
    /\ p.ancestors \subseteq s.visited
    /\ IsFiniteSet(p.ancestors) /\ Cardinality(p.ancestors) = p.depth + 1
    /\ \A a \in p.ancestors : p.identity \in Level(k.direction, ever, {a}, p.depth)
    /\ p.depth = 0 \/ \E m \in 1 .. Len(s.edges) : s.edges[m].depth = p.depth

PendingHolds(k, ever, s) ==
    /\ \A m \in 1 .. Len(s.pending) : IsReached(k, ever, s, s.pending[m])
    /\ \A i, j \in 1 .. Len(s.pending) : i <= j =>
          s.pending[i].depth <= s.pending[j].depth /\ s.pending[j].depth <= s.pending[i].depth + 1

EdgesHold(k, ever, s) ==
    \A m \in 1 .. Len(s.edges) :
        /\ Self(k.direction, s.edges[m].record) \in
              Level(k.direction, ever, {k.root}, s.edges[m].depth - 1)
        /\ \A i \in 1 .. Len(s.pending) : s.edges[m].depth <= s.pending[i].depth + 1

CyclesHold(k, ever, s) ==
    s.cycles => \E r \in ever : Self(k.direction, r) \in
                    Level(k.direction, ever, {Peer(k.direction, r)}, Cardinality(ever))

\* The calls of a function are edges, and lead to functions that were found.
IsDone(k, always, s, g) ==
    \A r \in always : Self(k.direction, r) = g /\ g.usr # 0 =>
        Peer(k.direction, r) \in s.visited /\ \E m \in 1 .. Len(s.edges) : s.edges[m].record = r

Waits(s, g, d) == \E m \in 1 .. Len(s.pending) : s.pending[m].identity = g /\ s.pending[m].depth <= d

Beyond(s, d) == \E m \in 1 .. Len(s.edges) : s.edges[m].depth > d

\* As long as nothing is left out: what was found is done or waits, and once the walk
\* is beyond a distance, so is every function within it.
CompleteHolds(k, always, s) ==
    ~s.hit /\ Len(s.edges) <= k.limit =>
        /\ \A g \in s.visited : IsDone(k, always, s, g) \/ Waits(s, g, k.depth) \/ Beyond(s, k.depth - 1)
        /\ \A d \in 0 .. k.depth - 1 : d = 0 \/ Beyond(s, d) =>
              \A g \in Level(k.direction, always, {k.root}, d) : IsDone(k, always, s, g) \/ Waits(s, g, d)

WalkHolds(k, e, s) ==
    /\ WalkTyped(k, e, s)
    /\ PendingHolds(k, e.ever, s)
    /\ EdgesHold(k, e.ever, s)
    /\ CyclesHold(k, e.ever, s)
    /\ CompleteHolds(k, e.always, s)

State ==
    [pending |-> pending, visited |-> visited, edges |-> edges,
     hit |-> flags.nodeLimitHit, cycles |-> flags.cyclesDetected]

AnswerHolds ==
    /\ answer \in {"none", "Success", "DatabaseError"}
    /\ flags \in [nodeLimitHit : BOOLEAN, cyclesDetected : BOOLEAN]
    /\ answer = "none" => seen.always \subseteq Calls(edition) /\ Calls(edition) \subseteq seen.ever
    /\ answer = "Success" => pending = <<>> \/ Len(edges) > walk.limit
    /\ WalkFails

WalkInv ==
    /\ edition \in Stores
    /\ IF activity = "walk" THEN WalkHolds(walk, seen, State) /\ AnswerHolds ELSE WalkIdle

LEMMA StatesAreStates == WalkStates(walk, seen.ever) = States
BY DEF WalkStates, States, Entries, Edges, Functions

\* What the invariant says of the variables.
LEMMA WalkTypes ==
    ASSUME WalkTyped(walk, seen, State)
    PROVE  /\ walk \in Walks /\ seen.always \subseteq seen.ever /\ IsFiniteSet(seen.ever)
           /\ State \in States /\ pending \in Seq(Entries) /\ edges \in Seq(Edges)
           /\ Len(edges) <= walk.limit + 1
           /\ visited \subseteq Functions /\ walk.root \in visited
           /\ IsFiniteSet(visited) /\ Cardinality(visited) <= walk.nodeLimit
           /\ flags.nodeLimitHit \in BOOLEAN /\ flags.cyclesDetected \in BOOLEAN
<1>1. State \in States
  BY StatesAreStates DEF WalkTyped
<1>2. /\ State.pending = pending /\ State.visited = visited /\ State.edges = edges
      /\ State.hit = flags.nodeLimitHit /\ State.cycles = flags.cyclesDetected
  BY DEF State
<1> QED BY <1>1, <1>2 DEF WalkTyped, States

LEMMA NoRecords ==
    ASSUME WalkTyped(walk, seen, State), pending # <<>>, NEW function, NEW rows
    PROVE  Mid(Base, function, rows, 0)
<1>1. /\ pending \in Seq(Entries) /\ edges \in Seq(Edges)
      /\ visited \subseteq Functions /\ IsFiniteSet(visited) /\ Cardinality(visited) <= walk.nodeLimit
      /\ flags.nodeLimitHit \in BOOLEAN /\ flags.cyclesDetected \in BOOLEAN
  BY WalkTypes
<1>2. /\ Base.pending = Tail(pending) /\ Base.visited = visited /\ Base.edges = edges
      /\ Base.hit = flags.nodeLimitHit /\ Base.cycles = flags.cyclesDetected
  BY DEF Base
<1>3. Tail(pending) \in Seq(Entries)
  BY <1>1
<1>4. Base \in States
  BY <1>1, <1>3 DEF Base, States
<1>5. Len(edges) \in Nat /\ Len(Tail(pending)) \in Nat
  BY <1>1, <1>3
<1>6. MidEdges(Base, function, rows, 0)
  BY <1>2, <1>5 DEF MidEdges, Extends
<1>7. MidPending(Base, function, rows, 0)
  BY <1>2, <1>5 DEF MidPending, Extends
<1>8. MidVisited(Base, function, rows, 0)
  BY <1>1, <1>2 DEF MidVisited
<1>9. MidFlags(Base, function, rows, 0)
  BY <1>2 DEF MidFlags
<1> QED BY <1>4, <1>6, <1>7, <1>8, <1>9 DEF Mid

\* What a visit does: an entry leaves the queue, and its records come in.
LEMMA VisitMid ==
    ASSUME WalkTyped(walk, seen, State), PendingHolds(walk, seen.ever, State), Visit,
           edition \in Stores, Calls(edition) \subseteq seen.ever
    PROVE  LET function == Head(pending)
               C == CallsOf(Records, function.identity, walk.direction)
           IN \E rows \in Seq(C), s \in States :
                /\ Len(edges) + Len(rows) <= walk.limit + 1
                /\ Len(edges) + Len(rows) <= walk.limit => \A r \in C : \E i \in 1 .. Len(rows) : rows[i] = r
                /\ Mid(s, function, rows, Len(rows))
                /\ pending' = s.pending /\ visited' = s.visited /\ edges' = s.edges
                /\ flags' = [nodeLimitHit |-> s.hit, cyclesDetected |-> s.cycles]
<1> DEFINE function == Head(pending)
           C == CallsOf(Records, function.identity, walk.direction)
           rows == NextCalls(function)
<1>1. /\ walk \in Walks /\ pending \in Seq(Entries) /\ edges \in Seq(Edges) /\ pending # <<>>
      /\ function.depth < walk.depth /\ Len(edges) <= walk.limit
      /\ QueryCalls(edition, function.identity, walk.direction).ret = "ok"
  BY WalkTypes DEF Visit, Going
<1>2. function \in Entries /\ function = pending[1] /\ 1 \in 1 .. Len(pending)
  BY <1>1
<1>3. function.identity.symbol # 0
  <2>1. function.identity.symbol = 0 =>
          QueryCalls(edition, function.identity, walk.direction) = Failed
    BY Zenon DEF QueryCalls
  <2>2. Failed.ret # "ok"
    BY DEF Failed
  <2> QED BY <1>1, <2>1, <2>2
<1>4. walk.depth \in Nat /\ function.depth \in Nat /\ function.depth + 1 \in 1 .. walk.depth
  <2>1. walk.depth \in Nat
    BY <1>1, WalksAssumption
  <2>2. function.depth \in 0 .. walk.depth
    BY <1>2 DEF Entries
  <2> QED BY <1>1, <2>1, <2>2
<1>5. function.ancestors \subseteq visited
  BY <1>2 DEF PendingHolds, IsReached, State
<1> HIDE DEF function
<1>6. /\ rows \in Seq(C)
      /\ Len(edges) + Len(rows) <= walk.limit + 1
      /\ Len(edges) + Len(rows) <= walk.limit => \A r \in C : \E i \in 1 .. Len(rows) : rows[i] = r
  BY <1>1, <1>3, CallsFound, Zenon
<1>7. C \subseteq seen.ever
  BY DEF CallsOf, Calls, Records
<1> DEFINE n == Len(rows)
<1>8. PICK b : /\ IsCourse(b, function, rows)
               /\ pending' = b[n].pending /\ visited' = b[n].visited /\ edges' = b[n].edges
               /\ flags' = [nodeLimitHit |-> b[n].hit, cyclesDetected |-> b[n].cycles]
  BY <1>6, VisitCourse, Zenon DEF function
<1> HIDE DEF C, rows
<1>9. rows \in Seq(seen.ever) /\ n \in Nat
  BY <1>6, <1>7
<1> DEFINE T == {k \in Nat : k <= n => Mid(b[k], function, rows, k)}
<1>10. 0 \in T
  BY <1>1, <1>8, NoRecords DEF IsCourse
<1>11. ASSUME NEW k \in Nat, k \in T PROVE k + 1 \in T
  <2> SUFFICES ASSUME k + 1 <= n PROVE Mid(b[k + 1], function, rows, k + 1)
    OBVIOUS
  <2>1. Mid(b[k], function, rows, k) /\ k + 1 \in 1 .. n /\ (k + 1) - 1 = k
    BY <1>9, <1>11
  <2>2. b[k + 1] = Consider(function, rows[k + 1], b[k])
    BY <1>8, <2>1 DEF IsCourse
  <2>3. Mid(Consider(function, rows[k + 1], b[k]), function, rows, k + 1)
    BY <1>1, <1>2, <1>4, <1>5, <1>9, <2>1, MidStep
  <2> QED BY <2>2, <2>3
<1>12. Mid(b[n], function, rows, n)
  <2> HIDE DEF T
  <2>1. n \in T
    BY <1>9, <1>10, <1>11, Induction
  <2> QED BY <1>9, <2>1 DEF T
<1>13. b[n] \in States
  BY <1>12 DEF Mid
<1> QED BY <1>6, <1>8, <1>12, <1>13 DEF function, C

----------------------------------------------------------------------------
(* A visit preserves the invariant.                                        *)

\* A visit of the first function in the queue ends in s.
Visits(rows, s) ==
    LET function == Head(pending)
        C == CallsOf(Records, function.identity, walk.direction)
    IN /\ WalkHolds(walk, seen, State)
       /\ edition \in Stores /\ seen.always \subseteq Calls(edition) /\ Calls(edition) \subseteq seen.ever
       /\ pending # <<>> /\ Len(edges) <= walk.limit /\ function.depth < walk.depth
       /\ rows \in Seq(C) /\ s \in States
       /\ Len(edges) + Len(rows) <= walk.limit + 1
       /\ Len(edges) + Len(rows) <= walk.limit => \A r \in C : \E i \in 1 .. Len(rows) : rows[i] = r
       /\ Mid(s, function, rows, Len(rows))

\* The function that is visited.
LEMMA VisitedFunction ==
    ASSUME NEW rows, NEW s, Visits(rows, s)
    PROVE  LET function == Head(pending)
           IN /\ function = pending[1] /\ 1 \in 1 .. Len(pending) /\ function \in Entries
              /\ IsReached(walk, seen.ever, State, function)
              /\ function.depth \in Nat /\ walk.depth \in Nat /\ function.depth < walk.depth
<1>1. pending \in Seq(Entries) /\ pending # <<>> /\ walk \in Walks
  BY WalkTypes DEF Visits, WalkHolds
<1>2. Head(pending) = pending[1] /\ 1 \in 1 .. Len(pending) /\ Head(pending) \in Entries
  BY <1>1
<1>3. IsReached(walk, seen.ever, State, Head(pending))
  BY <1>2 DEF Visits, WalkHolds, PendingHolds, State
<1>4. walk.depth \in Nat
  BY <1>1, WalksAssumption
<1>5. Head(pending).depth \in 0 .. walk.depth
  BY <1>2 DEF Entries
<1> QED BY <1>2, <1>3, <1>4, <1>5 DEF Visits

\* The records of the visit.
LEMMA VisitedRows ==
    ASSUME NEW rows, NEW s, Visits(rows, s), NEW j \in 1 .. Len(rows)
    PROVE  /\ rows[j] \in seen.ever /\ rows[j] \in Calls(edition)
           /\ Self(walk.direction, rows[j]) = Head(pending).identity
           /\ Self(walk.direction, rows[j]).usr # 0
           /\ Peer(walk.direction, rows[j]).symbol = 0 =>
                 walk.direction = "callers" /\ rows[j].context = 0
<1>1. rows[j] \in CallsOf(Records, Head(pending).identity, walk.direction)
  BY DEF Visits
<1>2. /\ rows[j] \in Calls(edition) /\ rows[j] \in RowsIn(edition, "records")
      /\ Self(walk.direction, rows[j]) = Head(pending).identity
      /\ Head(pending).identity.usr # 0
  BY <1>1 DEF CallsOf, Calls, Records
<1>3. rows[j] \in seen.ever
  BY <1>2 DEF Visits
<1>4. rows[j].symbol # 0
  <2>1. edition \in Stores
    BY DEF Visits
  <2>2. PICK f \in Files : edition[f] \in 1 .. MaxEdition /\ rows[j] \in Edition(f, edition[f]).records
    BY <1>2, <2>1, RowOf
  <2> QED BY <2>2, RowsAssumption
<1>5. Peer(walk.direction, rows[j]).symbol = 0 => walk.direction = "callers" /\ rows[j].context = 0
  BY <1>4 DEF Peer
<1> QED BY <1>2, <1>3, <1>5

\* What is in the queue and among the edges after the visit.
LEMMA VisitedQueue ==
    ASSUME NEW rows, NEW s, Visits(rows, s)
    PROVE  /\ \A m \in 1 .. Len(s.pending) :
                 \/ \E i \in 2 .. Len(pending) : s.pending[m] = pending[i]
                 \/ IsFresh(s.pending[m], s, Head(pending), rows, Len(rows))
           /\ \A i \in 2 .. Len(pending) : \E m \in 1 .. Len(s.pending) : s.pending[m] = pending[i]
           /\ \A m \in 1 .. Len(s.edges) :
                 \/ \E i \in 1 .. Len(edges) : s.edges[m] = edges[i]
                 \/ /\ s.edges[m].depth = Head(pending).depth + 1
                    /\ \E j \in 1 .. Len(rows) : s.edges[m].record = rows[j]
           /\ \A i \in 1 .. Len(edges) : \E m \in 1 .. Len(s.edges) : s.edges[m] = edges[i]
<1>1. /\ pending \in Seq(Entries) /\ edges \in Seq(Edges) /\ pending # <<>> /\ s \in States
      /\ Mid(s, Head(pending), rows, Len(rows))
  BY WalkTypes DEF Visits, WalkHolds
<1> DEFINE w == Len(Tail(pending))
<1>2. /\ Len(pending) \in Nat /\ Len(edges) \in Nat /\ w \in Nat /\ Len(pending) = w + 1
      /\ \A m \in 1 .. w : Tail(pending)[m] = pending[m + 1]
  BY <1>1
<1>3. Len(s.pending) \in Nat /\ Len(s.edges) \in Nat
  BY <1>1 DEF States
<1>4. /\ w <= Len(s.pending) /\ (\A m \in 1 .. w : s.pending[m] = Tail(pending)[m])
      /\ \A m \in 1 .. Len(s.pending) : m > w =>
            IsFresh(s.pending[m], s, Head(pending), rows, Len(rows))
  BY <1>1 DEF Mid, MidPending, Extends
<1>5. /\ Len(edges) <= Len(s.edges) /\ (\A m \in 1 .. Len(edges) : s.edges[m] = edges[m])
      /\ \A m \in 1 .. Len(s.edges) : m > Len(edges) =>
            s.edges[m].depth = Head(pending).depth + 1 /\ \E j \in 1 .. Len(rows) : s.edges[m].record = rows[j]
  BY <1>1 DEF Mid, MidEdges, Extends
<1> HIDE DEF w
<1>6. ASSUME NEW m \in 1 .. Len(s.pending)
      PROVE  \/ \E i \in 2 .. Len(pending) : s.pending[m] = pending[i]
             \/ IsFresh(s.pending[m], s, Head(pending), rows, Len(rows))
  <2>1. CASE m > w
    BY <1>4, <2>1
  <2>2. CASE ~(m > w)
    <3>1. m \in 1 .. w /\ m + 1 \in 2 .. Len(pending)
      BY <1>2, <1>3, <2>2
    <3>2. s.pending[m] = pending[m + 1]
      BY <1>2, <1>4, <3>1
    <3> QED BY <3>1, <3>2
  <2> QED BY <2>1, <2>2
<1>7. ASSUME NEW i \in 2 .. Len(pending) PROVE \E m \in 1 .. Len(s.pending) : s.pending[m] = pending[i]
  <2>1. i - 1 \in 1 .. w /\ i - 1 \in 1 .. Len(s.pending) /\ (i - 1) + 1 = i
    BY <1>2, <1>3, <1>4
  <2>2. s.pending[i - 1] = pending[(i - 1) + 1]
    BY <1>2, <1>4, <2>1
  <2> QED BY <2>1, <2>2
<1>8. ASSUME NEW m \in 1 .. Len(s.edges)
      PROVE  \/ \E i \in 1 .. Len(edges) : s.edges[m] = edges[i]
             \/ /\ s.edges[m].depth = Head(pending).depth + 1
                /\ \E j \in 1 .. Len(rows) : s.edges[m].record = rows[j]
  <2>1. m \in 1 .. Len(edges) \/ m > Len(edges)
    BY <1>2, <1>3
  <2> QED BY <1>5, <2>1
<1>9. ASSUME NEW i \in 1 .. Len(edges) PROVE \E m \in 1 .. Len(s.edges) : s.edges[m] = edges[i]
  <2>1. i \in 1 .. Len(s.edges)
    BY <1>2, <1>3, <1>5
  <2> QED BY <1>5, <2>1
<1> QED BY <1>6, <1>7, <1>8, <1>9

LEMMA VisitTyped ==
    ASSUME NEW rows, NEW s, Visits(rows, s)
    PROVE  WalkTyped(walk, seen, s)
<1>1. WalkTyped(walk, seen, State) /\ s \in States /\ Mid(s, Head(pending), rows, Len(rows))
  BY DEF Visits, WalkHolds
<1>2. s \in WalkStates(walk, seen.ever) /\ edges \in Seq(Edges) /\ walk \in Walks /\ walk.root \in visited
  BY <1>1, StatesAreStates, WalkTypes
<1>3. Len(s.edges) <= walk.limit + 1
  <2>1. Len(s.edges) \in Nat /\ Len(edges) \in Nat /\ walk.limit \in Nat
    BY <1>1, <1>2, WalksAssumption DEF States
  <2>2. Len(rows) \in Nat
    BY DEF Visits
  <2>3. Len(s.edges) <= Len(edges) + Len(rows) /\ Len(edges) + Len(rows) <= walk.limit + 1
    BY <1>1 DEF Visits, Mid, MidEdges
  <2> QED BY <2>1, <2>2, <2>3
<1>4. walk.root \in s.visited /\ IsFiniteSet(s.visited) /\ Cardinality(s.visited) <= walk.nodeLimit
  BY <1>1, <1>2 DEF Mid, MidVisited
<1> QED BY <1>1, <1>2, <1>3, <1>4 DEF WalkTyped

\* A new entry was reached over its record.
LEMMA FreshIsReached ==
    ASSUME NEW rows, NEW s, Visits(rows, s), NEW p,
           IsFresh(p, s, Head(pending), rows, Len(rows))
    PROVE  IsReached(walk, seen.ever, s, p)
<1> DEFINE function == Head(pending)
           d == function.depth
<1>1. d \in Nat /\ IsReached(walk, seen.ever, State, function)
  BY VisitedFunction
<1>2. PICK j \in 1 .. Len(rows) : p.identity = Peer(walk.direction, rows[j])
  BY DEF IsFresh
<1>3. /\ rows[j] \in seen.ever /\ Self(walk.direction, rows[j]) = function.identity
      /\ Self(walk.direction, rows[j]).usr # 0
      /\ p.identity.symbol = 0 => walk.direction = "callers" /\ rows[j].context = 0
  BY <1>2, VisitedRows
<1>4. /\ p.depth = d + 1 /\ p.identity \notin function.ancestors /\ p.identity \in s.visited
      /\ p.ancestors = function.ancestors \cup {p.identity}
      /\ \E m \in 1 .. Len(s.edges) : s.edges[m].depth = p.depth
  BY DEF IsFresh
<1>5. /\ function.identity \in Level(walk.direction, seen.ever, {walk.root}, d)
      /\ function.ancestors \subseteq visited
      /\ IsFiniteSet(function.ancestors) /\ Cardinality(function.ancestors) = d + 1
      /\ \A a \in function.ancestors : function.identity \in Level(walk.direction, seen.ever, {a}, d)
  BY <1>1 DEF IsReached, State
<1>6. visited \subseteq s.visited
  BY DEF Visits, Mid, MidVisited
<1> HIDE DEF function, d
<1>7. ASSUME NEW from, function.identity \in Level(walk.direction, seen.ever, from, d)
      PROVE  p.identity \in Level(walk.direction, seen.ever, from, d + 1)
  <2>1. Self(walk.direction, rows[j]) \in Level(walk.direction, seen.ever, from, d)
    BY <1>3, <1>7
  <2> QED BY <1>1, <1>2, <1>3, <2>1, StepOn
<1>8. p.identity \in Level(walk.direction, seen.ever, {walk.root}, p.depth)
  BY <1>4, <1>5, <1>7
<1>9. p.identity.symbol = 0 => walk.direction = "callers" /\ \E r \in seen.ever : r.context = 0
  BY <1>3
<1>10. p.ancestors \subseteq s.visited
  BY <1>4, <1>5, <1>6
<1>11. IsFiniteSet(p.ancestors) /\ Cardinality(p.ancestors) = p.depth + 1
  <2>1. /\ IsFiniteSet(function.ancestors \cup {p.identity})
        /\ Cardinality(function.ancestors \cup {p.identity}) = Cardinality(function.ancestors) + 1
    BY <1>4, <1>5, FS_AddElement
  <2> QED BY <1>4, <1>5, <2>1
<1>12. ASSUME NEW a \in p.ancestors
       PROVE  p.identity \in Level(walk.direction, seen.ever, {a}, p.depth)
  <2>1. CASE a \in function.ancestors
    BY <1>4, <1>5, <1>7, <2>1
  <2>2. CASE a = p.identity
    <3>1. Level(walk.direction, seen.ever, {a}, 0) = {a}
      BY Levels
    <3>2. p.depth \in Nat /\ 0 \in Nat /\ 0 <= p.depth
      BY <1>1, <1>4
    <3>3. Level(walk.direction, seen.ever, {a}, 0) \subseteq Level(walk.direction, seen.ever, {a}, p.depth)
      BY <3>2, FartherIsMore
    <3> QED BY <2>2, <3>1, <3>3
  <2> QED BY <1>4, <2>1, <2>2
<1> QED BY <1>4, <1>8, <1>9, <1>10, <1>11, <1>12 DEF IsReached

LEMMA VisitPending ==
    ASSUME NEW rows, NEW s, Visits(rows, s)
    PROVE  PendingHolds(walk, seen.ever, s)
<1> DEFINE d == Head(pending).depth
           w == Len(Tail(pending))
           Old(m) == \E i \in 2 .. Len(pending) : s.pending[m] = pending[i]
           New(m) == IsFresh(s.pending[m], s, Head(pending), rows, Len(rows))
<1>1. PendingHolds(walk, seen.ever, State) /\ pending \in Seq(Entries) /\ pending # <<>> /\ s \in States
  BY WalkTypes DEF Visits, WalkHolds
<1>2. \A m \in 1 .. Len(s.pending) : Old(m) \/ New(m)
  BY VisitedQueue
<1>3. d \in Nat /\ Head(pending) = pending[1] /\ 1 \in 1 .. Len(pending)
  BY VisitedFunction
<1>4. /\ \A m \in 1 .. Len(pending) : IsReached(walk, seen.ever, State, pending[m])
      /\ \A i, j \in 1 .. Len(pending) : i <= j =>
            pending[i].depth <= pending[j].depth /\ pending[j].depth <= pending[i].depth + 1
  BY <1>1 DEF PendingHolds, State
<1>5. /\ w \in Nat /\ Len(pending) = w + 1 /\ \A m \in 1 .. w : Tail(pending)[m] = pending[m + 1]
  BY <1>1
<1>6. /\ w <= Len(s.pending) /\ (\A m \in 1 .. w : s.pending[m] = Tail(pending)[m])
      /\ \A m \in 1 .. Len(s.pending) : m > w => New(m)
  BY DEF Visits, Mid, MidPending, Extends
<1>7. Len(s.pending) \in Nat
  BY <1>1 DEF States
<1>8. /\ visited \subseteq s.visited
      /\ \A i \in 1 .. Len(edges) : \E m \in 1 .. Len(s.edges) : s.edges[m] = edges[i]
  BY VisitedQueue DEF Visits, Mid, MidVisited
<1>9. ASSUME NEW m \in 1 .. Len(s.pending) PROVE IsReached(walk, seen.ever, s, s.pending[m])
  <2>1. CASE New(m)
    BY <2>1, FreshIsReached
  <2>2. CASE Old(m)
    <3>1. PICK i \in 2 .. Len(pending) : s.pending[m] = pending[i]
      BY <2>2
    <3>2. i \in 1 .. Len(pending)
      BY <1>5
    <3>3. IsReached(walk, seen.ever, State, pending[i])
      BY <1>4, <3>2
    <3>4. State.visited = visited /\ State.edges = edges
      BY DEF State
    <3>5. pending[i].depth = 0 \/ \E n \in 1 .. Len(s.edges) : s.edges[n].depth = pending[i].depth
      <4>1. CASE \E n \in 1 .. Len(edges) : edges[n].depth = pending[i].depth
        <5>1. PICK n \in 1 .. Len(edges) : edges[n].depth = pending[i].depth
          BY <4>1
        <5>2. PICK q \in 1 .. Len(s.edges) : s.edges[q] = edges[n]
          BY <1>8
        <5> QED BY <5>1, <5>2
      <4> QED BY <3>3, <3>4, <4>1 DEF IsReached
    <3>6. IsReached(walk, seen.ever, s, pending[i])
      BY <1>8, <3>3, <3>4, <3>5 DEF IsReached
    <3> QED BY <3>1, <3>6
  <2> HIDE DEF Old, New
  <2> QED BY <1>2, <2>1, <2>2
<1>10. \A i \in 2 .. Len(pending) : i \in 1 .. Len(pending) /\ pending[i].depth \in Nat
                                     /\ d <= pending[i].depth /\ pending[i].depth <= d + 1
  <2> SUFFICES ASSUME NEW i \in 2 .. Len(pending)
               PROVE  i \in 1 .. Len(pending) /\ pending[i].depth \in Nat
                      /\ d <= pending[i].depth /\ pending[i].depth <= d + 1
    OBVIOUS
  <2>1. i \in 1 .. Len(pending) /\ 1 <= i
    BY <1>5
  <2>2. pending[i] \in Entries
    BY <1>1, <2>1
  <2>3. pending[i].depth \in Nat
    BY <2>2, VisitedFunction DEF Entries
  <2> QED BY <1>3, <1>4, <2>1, <2>3
<1>11. \A m \in 1 .. Len(s.pending) : New(m) => s.pending[m].depth = d + 1
  BY DEF IsFresh
<1>12. ASSUME NEW i \in 1 .. Len(s.pending), NEW j \in 1 .. Len(s.pending), i <= j
       PROVE  s.pending[i].depth <= s.pending[j].depth /\ s.pending[j].depth <= s.pending[i].depth + 1
  <2> HIDE DEF d, New, w
  <2>1. CASE j <= w
    <3>1. /\ i \in 1 .. w /\ j \in 1 .. w /\ i + 1 \in 1 .. Len(pending) /\ j + 1 \in 1 .. Len(pending)
          /\ i + 1 <= j + 1
      BY <1>5, <1>7, <1>12, <2>1
    <3>2. s.pending[i] = pending[i + 1] /\ s.pending[j] = pending[j + 1]
      BY <1>5, <1>6, <3>1
    <3> QED BY <1>4, <3>1, <3>2
  <2>2. CASE ~(j <= w) /\ i <= w
    <3>1. i \in 1 .. w /\ i + 1 \in 2 .. Len(pending) /\ j > w
      BY <1>5, <1>7, <2>2
    <3>2. s.pending[i] = pending[i + 1] /\ s.pending[j].depth = d + 1
      BY <1>5, <1>6, <1>11, <3>1
    <3>3. pending[i + 1].depth \in Nat /\ d <= pending[i + 1].depth /\ pending[i + 1].depth <= d + 1
      BY <1>10, <3>1
    <3> QED BY <1>3, <3>2, <3>3
  <2>3. CASE ~(j <= w) /\ ~(i <= w)
    <3>1. s.pending[i].depth = d + 1 /\ s.pending[j].depth = d + 1
      BY <1>5, <1>6, <1>7, <1>11, <2>3
    <3> QED BY <1>3, <3>1
  <2> QED BY <2>1, <2>2, <2>3
<1> QED BY <1>9, <1>12 DEF PendingHolds

LEMMA NoFarther ==
    ASSUME NEW a \in Nat, NEW b \in Nat, NEW c \in Nat, a <= b + 1, b <= c
    PROVE  a <= c + 1
OBVIOUS

LEMMA VisitEdges ==
    ASSUME NEW rows, NEW s, Visits(rows, s)
    PROVE  EdgesHold(walk, seen.ever, s)
<1> DEFINE function == Head(pending)
           d == function.depth
<1>1. /\ EdgesHold(walk, seen.ever, State) /\ pending \in Seq(Entries) /\ edges \in Seq(Edges)
      /\ s \in States
  BY WalkTypes DEF Visits, WalkHolds
<1>2. /\ d \in Nat /\ walk.depth \in Nat /\ function = pending[1] /\ 1 \in 1 .. Len(pending)
      /\ IsReached(walk, seen.ever, State, function)
  BY VisitedFunction
<1>3. PendingHolds(walk, seen.ever, State)
  BY DEF Visits, WalkHolds
<1>4. \A m \in 1 .. Len(edges) :
        /\ Self(walk.direction, edges[m].record) \in
              Level(walk.direction, seen.ever, {walk.root}, edges[m].depth - 1)
        /\ \A i \in 1 .. Len(pending) : edges[m].depth <= pending[i].depth + 1
  BY <1>1 DEF EdgesHold, State
<1>5. ASSUME NEW i \in 1 .. Len(s.pending)
      PROVE  s.pending[i].depth \in Nat /\ d <= s.pending[i].depth
  <2>1. CASE \E j \in 2 .. Len(pending) : s.pending[i] = pending[j]
    <3>1. PICK j \in 2 .. Len(pending) : s.pending[i] = pending[j]
      BY <2>1
    <3>2. Len(pending) \in Nat
      BY <1>1
    <3>3. j \in 1 .. Len(pending) /\ 1 <= j
      BY <3>2
    <3>4. pending[1].depth <= pending[j].depth /\ pending[j] \in Entries
      BY <1>1, <1>2, <1>3, <3>3 DEF PendingHolds, State
    <3>5. pending[j].depth \in Nat
      BY <1>2, <3>4 DEF Entries
    <3> QED BY <1>2, <3>1, <3>4, <3>5
  <2>2. CASE IsFresh(s.pending[i], s, Head(pending), rows, Len(rows))
    <3>1. s.pending[i].depth = d + 1
      BY <2>2 DEF IsFresh
    <3> HIDE DEF d
    <3> QED BY <1>2, <3>1
  <2> QED BY <2>1, <2>2, VisitedQueue
<1> HIDE DEF function, d
<1>6. ASSUME NEW m \in 1 .. Len(s.edges)
      PROVE  /\ Self(walk.direction, s.edges[m].record) \in
                    Level(walk.direction, seen.ever, {walk.root}, s.edges[m].depth - 1)
             /\ \A i \in 1 .. Len(s.pending) : s.edges[m].depth <= s.pending[i].depth + 1
  <2>1. CASE \E n \in 1 .. Len(edges) : s.edges[m] = edges[n]
    <3>1. PICK n \in 1 .. Len(edges) : s.edges[m] = edges[n]
      BY <2>1
    <3>2. edges[n].depth <= d + 1 /\ edges[n].depth \in Nat
      <4>1. edges[n].depth <= pending[1].depth + 1
        BY <1>2, <1>4
      <4>2. edges[n] \in Edges
        BY <1>1
      <4>3. edges[n].depth \in Nat
        BY <1>2, <4>2 DEF Edges
      <4> QED BY <1>2, <4>1, <4>3 DEF d
    <3>3. ASSUME NEW i \in 1 .. Len(s.pending) PROVE s.edges[m].depth <= s.pending[i].depth + 1
      <4>1. s.edges[m].depth = edges[n].depth
        BY <3>1
      <4>2. s.pending[i].depth \in Nat /\ d <= s.pending[i].depth
        BY <1>5
      <4>3. d \in Nat
        BY <1>2
      <4>4. edges[n].depth <= s.pending[i].depth + 1
        BY <3>2, <4>2, <4>3, NoFarther
      <4> QED BY <4>1, <4>4
    <3> QED BY <1>4, <3>1, <3>3
  <2>2. CASE /\ s.edges[m].depth = Head(pending).depth + 1
             /\ \E j \in 1 .. Len(rows) : s.edges[m].record = rows[j]
    <3>1. PICK j \in 1 .. Len(rows) : s.edges[m].record = rows[j]
      BY <2>2
    <3>2. s.edges[m].depth = d + 1
      BY <2>2 DEF d, function
    <3>3. Self(walk.direction, rows[j]) = function.identity
      BY VisitedRows DEF function
    <3>4. function.identity \in Level(walk.direction, seen.ever, {walk.root}, d)
      BY <1>2 DEF IsReached, d
    <3>5. s.edges[m].depth - 1 = d
      BY <1>2, <3>2
    <3>6. \A i \in 1 .. Len(s.pending) : s.edges[m].depth <= s.pending[i].depth + 1
      BY <1>2, <1>5, <3>2
    <3> QED BY <3>1, <3>3, <3>4, <3>5, <3>6
  <2> QED BY <2>1, <2>2, VisitedQueue
<1> QED BY <1>6 DEF EdgesHold

\* There are no more functions than calls, and the root.
LEMMA FewFunctions ==
    ASSUME WalkTyped(walk, seen, State), NEW functions, functions \subseteq visited,
           NEW d \in Nat, Cardinality(functions) = d + 1
    PROVE  d <= Cardinality(seen.ever) /\ Cardinality(seen.ever) \in Nat
<1>1. IsFiniteSet(seen.ever) /\ visited \subseteq Functions
  BY WalkTypes
<1> DEFINE peers == {Peer(walk.direction, r) : r \in seen.ever}
<1>2. IsFiniteSet(peers) /\ Cardinality(peers) <= Cardinality(seen.ever)
  <2> DEFINE f == [r \in seen.ever |-> Peer(walk.direction, r)]
  <2>1. f \in Surjection(seen.ever, peers)
    BY DEF Surjection
  <2> HIDE DEF f, peers
  <2> QED BY <1>1, <2>1, FS_Surjection
<1> HIDE DEF peers
<1>3. Cardinality(peers) \in Nat /\ Cardinality(seen.ever) \in Nat
  BY <1>1, <1>2, FS_CardinalityType
<1>4. /\ IsFiniteSet(peers \cup {walk.root})
      /\ Cardinality(peers \cup {walk.root}) <= Cardinality(peers) + 1
      /\ Cardinality(peers \cup {walk.root}) \in Nat
  <2> DEFINE root == walk.root
  <2> HIDE DEF root
  <2>1. /\ IsFiniteSet(peers \cup {root})
        /\ Cardinality(peers \cup {root}) =
              IF root \in peers THEN Cardinality(peers) ELSE Cardinality(peers) + 1
    BY <1>2, FS_AddElement
  <2> QED BY <1>3, <2>1 DEF root
<1>5. functions \subseteq peers \cup {walk.root}
  BY <1>1 DEF Functions, peers
<1>6. Cardinality(functions) <= Cardinality(peers \cup {walk.root})
  BY <1>4, <1>5, FS_Subset
<1> QED BY <1>2, <1>3, <1>4, <1>6

LEMMA VisitCycles ==
    ASSUME NEW rows, NEW s, Visits(rows, s)
    PROVE  CyclesHold(walk, seen.ever, s)
<1> DEFINE function == Head(pending)
           d == function.depth
           Cycle(r) == Self(walk.direction, r) \in
                          Level(walk.direction, seen.ever, {Peer(walk.direction, r)}, Cardinality(seen.ever))
<1>1. WalkTyped(walk, seen, State) /\ CyclesHold(walk, seen.ever, State)
  BY DEF Visits, WalkHolds
<1>2. d \in Nat /\ IsReached(walk, seen.ever, State, function)
  BY VisitedFunction
<1> HIDE DEF function
<1>3. ASSUME NEW j \in 1 .. Len(rows), Peer(walk.direction, rows[j]) \in function.ancestors
      PROVE  rows[j] \in seen.ever /\ Cycle(rows[j])
  <2> DEFINE a == Peer(walk.direction, rows[j])
  <2>1. rows[j] \in seen.ever /\ Self(walk.direction, rows[j]) = function.identity
    BY VisitedRows DEF function
  <2>2. /\ function.identity \in Level(walk.direction, seen.ever, {a}, d)
        /\ function.ancestors \subseteq visited /\ Cardinality(function.ancestors) = d + 1
    BY <1>2, <1>3 DEF IsReached, State
  <2>3. d <= Cardinality(seen.ever) /\ Cardinality(seen.ever) \in Nat
    BY <1>1, <1>2, <2>2, FewFunctions
  <2> HIDE DEF a
  <2>4. Level(walk.direction, seen.ever, {a}, d)
          \subseteq Level(walk.direction, seen.ever, {a}, Cardinality(seen.ever))
    BY <1>2, <2>3, FartherIsMore
  <2>5. Self(walk.direction, rows[j]) \in Level(walk.direction, seen.ever, {a}, Cardinality(seen.ever))
    BY <2>1, <2>2, <2>4
  <2> QED BY <2>1, <2>5 DEF a
<1>4. s.cycles => flags.cyclesDetected
                     \/ \E j \in 1 .. Len(rows) : Peer(walk.direction, rows[j]) \in function.ancestors
  BY DEF Visits, Mid, MidFlags, function
<1>5. flags.cyclesDetected => \E r \in seen.ever : Cycle(r)
  BY <1>1 DEF CyclesHold, State
<1> HIDE DEF Cycle
<1>6. s.cycles => \E r \in seen.ever : Cycle(r)
  BY <1>3, <1>4, <1>5
<1> QED BY <1>6 DEF CyclesHold, Cycle

\* The functions within each distance of the root, over the calls that were always there.
LEMMA LevelsOfWalk ==
    /\ Level(walk.direction, seen.always, {walk.root}, 0) = {walk.root}
    /\ \A d \in Nat :
          Level(walk.direction, seen.always, {walk.root}, d + 1) =
              Level(walk.direction, seen.always, {walk.root}, d)
                  \cup NextOf(walk.direction, seen.always,
                              Level(walk.direction, seen.always, {walk.root}, d))
<1> DEFINE direction == walk.direction
           calls == seen.always
           root == {walk.root}
<1> HIDE DEF direction, calls, root
<1>1. Level(direction, calls, root, 0) = root
  BY Levels
<1>2. \A d \in Nat :
        Level(direction, calls, root, d + 1) =
            Level(direction, calls, root, d) \cup NextOf(direction, calls, Level(direction, calls, root, d))
  BY Levels
<1> QED BY <1>1, <1>2, Zenon DEF direction, calls, root

\* When a function at a distance is visited first, every function within it is done or waits.
LEMMA ReachedInOrder ==
    ASSUME NEW rows, NEW s, Visits(rows, s), ~flags.nodeLimitHit, ~Beyond(State, Head(pending).depth),
           NEW g \in Level(walk.direction, seen.always, {walk.root}, Head(pending).depth)
    PROVE  IsDone(walk, seen.always, State, g) \/ Waits(State, g, Head(pending).depth)
<1> DEFINE d == Head(pending).depth
           L(n) == Level(walk.direction, seen.always, {walk.root}, n)
           Done(h) == IsDone(walk, seen.always, State, h)
<1>1. /\ d \in Nat /\ walk.depth \in Nat /\ d < walk.depth /\ Head(pending) = pending[1]
      /\ 1 \in 1 .. Len(pending) /\ IsReached(walk, seen.ever, State, Head(pending))
  BY VisitedFunction
<1>2. State.pending = pending /\ State.edges = edges /\ State.visited = visited
      /\ State.hit = flags.nodeLimitHit
  BY DEF State
<1>3. pending \in Seq(Entries) /\ edges \in Seq(Edges) /\ PendingHolds(walk, seen.ever, State)
      /\ CompleteHolds(walk, seen.always, State)
  BY WalkTypes DEF Visits, WalkHolds
<1>4. /\ \A h \in visited : Done(h) \/ Waits(State, h, walk.depth) \/ Beyond(State, walk.depth - 1)
      /\ \A n \in 0 .. walk.depth - 1 : n = 0 \/ Beyond(State, n) =>
            \A h \in L(n) : Done(h) \/ Waits(State, h, n)
  BY <1>2, <1>3 DEF CompleteHolds, Visits
<1>5. \A m \in 1 .. Len(pending) : pending[m].depth \in Nat /\ d <= pending[m].depth
  <2> SUFFICES ASSUME NEW m \in 1 .. Len(pending)
               PROVE  pending[m].depth \in Nat /\ d <= pending[m].depth
    OBVIOUS
  <2>1. pending[m].depth \in Nat
    <3>1. pending[m] \in Entries
      BY <1>3
    <3> QED BY <1>1, <3>1 DEF Entries
  <2>2. 1 <= m
    OBVIOUS
  <2>3. pending[1].depth <= pending[m].depth
    BY <1>1, <1>2, <1>3, <2>2 DEF PendingHolds
  <2> QED BY <1>1, <2>1, <2>3
<1>6. \A m \in 1 .. Len(edges) : edges[m].depth \in Nat /\ edges[m].depth <= d
  <2>1. \A m \in 1 .. Len(edges) : edges[m].depth \in Nat
    <3>1. \A m \in 1 .. Len(edges) : edges[m] \in Edges
      BY <1>3
    <3>2. \A e \in Edges : e.depth \in Nat
      BY <1>1 DEF Edges
    <3> QED BY <3>1, <3>2
  <2> QED BY <1>1, <1>2, <2>1 DEF Beyond
<1>7. CASE d = 0
  <2>1. 0 \in 0 .. walk.depth - 1
    BY <1>1, <1>7
  <2> QED BY <1>4, <1>7, <2>1
<1>8. CASE d # 0
  <2>1. d - 1 \in Nat /\ d - 1 \in 0 .. walk.depth - 1 /\ d = (d - 1) + 1
    BY <1>1, <1>8
  <2>2. Beyond(State, d - 1)
    <3>1. PICK m \in 1 .. Len(edges) : edges[m].depth = d
      BY <1>1, <1>2, <1>8 DEF IsReached
    <3>2. edges[m].depth > d - 1
      BY <1>1, <3>1
    <3> QED BY <1>2, <3>2 DEF Beyond
  <2>3. ASSUME NEW h \in L(d - 1) PROVE Done(h)
    <3>1. Done(h) \/ Waits(State, h, d - 1)
      BY <1>4, <2>1, <2>2
    <3>2. ~Waits(State, h, d - 1)
      BY <1>1, <1>2, <1>5 DEF Waits
    <3> QED BY <3>1, <3>2
  <2>4. g \in L(d - 1) \/ g \in NextOf(walk.direction, seen.always, L(d - 1))
    <3>1. \A n \in Nat : L(n + 1) = L(n) \cup NextOf(walk.direction, seen.always, L(n))
      BY LevelsOfWalk
    <3>2. L((d - 1) + 1) = L(d - 1) \cup NextOf(walk.direction, seen.always, L(d - 1))
      BY <2>1, <3>1
    <3>3. g \in L(d)
      OBVIOUS
    <3> HIDE DEF L, d
    <3>4. L(d) = L(d - 1) \cup NextOf(walk.direction, seen.always, L(d - 1))
      BY <2>1, <3>2
    <3> QED BY <3>3, <3>4
  <2> HIDE DEF L
  <2>5. CASE g \in L(d - 1)
    BY <2>3, <2>5
  <2>6. CASE g \in NextOf(walk.direction, seen.always, L(d - 1))
    <3>1. PICK r \in seen.always : /\ g = Peer(walk.direction, r)
                                   /\ Self(walk.direction, r) \in L(d - 1)
                                   /\ Self(walk.direction, r).usr # 0
      BY <2>6 DEF NextOf
    <3>2. g \in visited
      BY <1>2, <2>3, <3>1 DEF IsDone
    <3>3. ~Beyond(State, walk.depth - 1)
      <4>1. d <= walk.depth - 1
        BY <1>1
      <4> QED BY <1>1, <1>2, <1>6, <4>1 DEF Beyond
    <3>4. Waits(State, g, walk.depth) => Waits(State, g, d)
      <4> SUFFICES ASSUME NEW m \in 1 .. Len(pending), pending[m].identity = g
                   PROVE  pending[m].depth <= d
        BY <1>2 DEF Waits
      <4>1. IsReached(walk, seen.ever, State, pending[m])
        BY <1>2, <1>3 DEF PendingHolds
      <4>2. pending[m].depth = 0 \/ \E n \in 1 .. Len(edges) : edges[n].depth = pending[m].depth
        BY <1>2, <4>1 DEF IsReached
      <4> QED BY <1>1, <1>6, <4>2
    <3> QED BY <1>4, <3>2, <3>3, <3>4
  <2> QED BY <2>4, <2>5, <2>6
<1> QED BY <1>7, <1>8

\* The visited function is done, if nothing was left out.
LEMMA VisitedIsDone ==
    ASSUME NEW rows, NEW s, Visits(rows, s), ~s.hit, Len(s.edges) <= walk.limit
    PROVE  IsDone(walk, seen.always, s, Head(pending).identity)
<1> DEFINE C == CallsOf(Records, Head(pending).identity, walk.direction)
           n == Len(rows)
<1>1. /\ Len(s.edges) = Len(edges) + n
      /\ \A j \in 1 .. n : \E k \in 1 .. Len(s.edges) : s.edges[k].record = rows[j]
      /\ \A j \in 1 .. n : Peer(walk.direction, rows[j]) \in s.visited
  BY DEF Visits, Mid, MidEdges, MidVisited
<1>2. \A r \in C : \E i \in 1 .. n : rows[i] = r
  BY <1>1 DEF Visits
<1>3. ASSUME NEW r \in seen.always, Self(walk.direction, r) = Head(pending).identity,
             Head(pending).identity.usr # 0
      PROVE  r \in C
  BY <1>3 DEF Visits, Calls, CallsOf, Records
<1> HIDE DEF C, n
<1> QED BY <1>1, <1>2, <1>3 DEF IsDone

\* What was done or waited before the visit is done or waits after it.
LEMMA StaysDone ==
    ASSUME NEW rows, NEW s, Visits(rows, s), ~s.hit, Len(s.edges) <= walk.limit, NEW g, NEW d,
           IsDone(walk, seen.always, State, g) \/ Waits(State, g, d)
    PROVE  IsDone(walk, seen.always, s, g) \/ Waits(s, g, d)
<1>1. State.pending = pending /\ State.edges = edges /\ State.visited = visited
  BY DEF State
<1>2. /\ visited \subseteq s.visited
      /\ \A i \in 1 .. Len(edges) : \E m \in 1 .. Len(s.edges) : s.edges[m] = edges[i]
      /\ \A i \in 2 .. Len(pending) : \E m \in 1 .. Len(s.pending) : s.pending[m] = pending[i]
  <2>1. visited \subseteq s.visited
    BY DEF Visits, Mid, MidVisited
  <2>2. \A i \in 1 .. Len(edges) : \E m \in 1 .. Len(s.edges) : s.edges[m] = edges[i]
    BY VisitedQueue
  <2>3. \A i \in 2 .. Len(pending) : \E m \in 1 .. Len(s.pending) : s.pending[m] = pending[i]
    BY VisitedQueue
  <2> QED BY <2>1, <2>2, <2>3
<1>3. CASE IsDone(walk, seen.always, State, g)
  <2>1. ASSUME NEW r, \E i \in 1 .. Len(edges) : edges[i].record = r
        PROVE  \E m \in 1 .. Len(s.edges) : s.edges[m].record = r
    <3>1. PICK i \in 1 .. Len(edges) : edges[i].record = r
      BY <2>1
    <3>2. PICK m \in 1 .. Len(s.edges) : s.edges[m] = edges[i]
      BY <1>2
    <3> QED BY <3>1, <3>2
  <2> QED BY <1>1, <1>2, <1>3, <2>1 DEF IsDone
<1>4. CASE Waits(State, g, d)
  <2>1. PICK m \in 1 .. Len(pending) : pending[m].identity = g /\ pending[m].depth <= d
    BY <1>1, <1>4 DEF Waits
  <2>2. CASE m = 1
    <3>1. Head(pending).identity = g
      BY <2>1, <2>2, VisitedFunction
    <3> QED BY <3>1, VisitedIsDone
  <2>3. CASE m # 1
    <3>1. m \in 2 .. Len(pending)
      BY <2>3
    <3> QED BY <1>2, <2>1, <3>1 DEF Waits
  <2> QED BY <2>2, <2>3
<1> QED BY <1>3, <1>4

LEMMA VisitComplete ==
    ASSUME NEW rows, NEW s, Visits(rows, s)
    PROVE  CompleteHolds(walk, seen.always, s)
<1> SUFFICES ASSUME ~s.hit, Len(s.edges) <= walk.limit
             PROVE  /\ \A g \in s.visited :
                          \/ IsDone(walk, seen.always, s, g) \/ Waits(s, g, walk.depth)
                          \/ Beyond(s, walk.depth - 1)
                    /\ \A d \in 0 .. walk.depth - 1 : d = 0 \/ Beyond(s, d) =>
                          \A g \in Level(walk.direction, seen.always, {walk.root}, d) :
                              IsDone(walk, seen.always, s, g) \/ Waits(s, g, d)
  BY DEF CompleteHolds
<1> DEFINE d == Head(pending).depth
           L(n) == Level(walk.direction, seen.always, {walk.root}, n)
           Done(z, h) == IsDone(walk, seen.always, z, h)
<1>1. State.pending = pending /\ State.edges = edges /\ State.visited = visited
      /\ State.hit = flags.nodeLimitHit
  BY DEF State
<1>2. /\ d \in Nat /\ walk.depth \in Nat /\ d < walk.depth /\ edges \in Seq(Edges) /\ s \in States
      /\ IsReached(walk, seen.ever, State, Head(pending)) /\ CompleteHolds(walk, seen.always, State)
  BY VisitedFunction, WalkTypes DEF Visits, WalkHolds
<1>3. ~flags.nodeLimitHit
  BY DEF Visits, Mid, MidFlags
<1>4. /\ \A h \in visited : Done(State, h) \/ Waits(State, h, walk.depth) \/ Beyond(State, walk.depth - 1)
      /\ \A n \in 0 .. walk.depth - 1 : n = 0 \/ Beyond(State, n) =>
            \A h \in L(n) : Done(State, h) \/ Waits(State, h, n)
  BY <1>1, <1>2, <1>3 DEF CompleteHolds, Visits
<1>5. ASSUME NEW h, NEW n, Done(State, h) \/ Waits(State, h, n) PROVE Done(s, h) \/ Waits(s, h, n)
  BY <1>5, StaysDone
<1>6. ASSUME NEW n, Beyond(State, n) PROVE Beyond(s, n)
  <2>1. PICK m \in 1 .. Len(edges) : edges[m].depth > n
    BY <1>1, <1>6 DEF Beyond
  <2>2. PICK i \in 1 .. Len(s.edges) : s.edges[i] = edges[m]
    BY VisitedQueue
  <2> QED BY <2>1, <2>2 DEF Beyond
<1>7. ASSUME NEW g \in s.visited
      PROVE  Done(s, g) \/ Waits(s, g, walk.depth) \/ Beyond(s, walk.depth - 1)
  <2>1. CASE g \in visited
    BY <1>4, <1>5, <1>6, <2>1
  <2>2. CASE g \notin visited
    <3>1. PICK m \in 1 .. Len(s.pending) : s.pending[m].identity = g
      BY <2>2 DEF Visits, Mid, MidVisited
    <3>2. s.pending[m] \in Entries
      BY <1>2 DEF States
    <3>3. s.pending[m].depth <= walk.depth
      BY <1>2, <3>2 DEF Entries
    <3> QED BY <3>1, <3>3 DEF Waits
  <2> QED BY <2>1, <2>2
<1>8. ASSUME NEW n \in 0 .. walk.depth - 1, n = 0 \/ Beyond(s, n), NEW g \in L(n)
      PROVE  Done(s, g) \/ Waits(s, g, n)
  <2>1. CASE n = 0 \/ Beyond(State, n)
    BY <1>4, <1>5, <1>8, <2>1
  <2>2. CASE n # 0 /\ ~Beyond(State, n)
    <3>1. \A m \in 1 .. Len(edges) : edges[m].depth \in Nat /\ edges[m].depth <= n
      <4>1. \A m \in 1 .. Len(edges) : edges[m].depth \in Nat
        <5>1. \A m \in 1 .. Len(edges) : edges[m] \in Edges
          BY <1>2
        <5>2. \A e \in Edges : e.depth \in Nat
          BY <1>2 DEF Edges
        <5> QED BY <5>1, <5>2
      <4> QED BY <1>1, <2>2, <4>1 DEF Beyond
    <3>2. n <= d
      <4>1. PICK m \in 1 .. Len(s.edges) : s.edges[m].depth > n
        BY <1>8, <2>2 DEF Beyond
      <4>2. CASE \E i \in 1 .. Len(edges) : s.edges[m] = edges[i]
        BY <3>1, <4>1, <4>2
      <4>3. CASE s.edges[m].depth = d + 1
        BY <1>2, <4>1, <4>3
      <4> QED BY <4>2, <4>3, VisitedQueue
    <3>3. d # 0
      BY <1>2, <2>2, <3>2
    <3>4. d <= n
      <4>1. PICK m \in 1 .. Len(edges) : edges[m].depth = d
        BY <1>1, <1>2, <3>3 DEF IsReached
      <4> QED BY <3>1, <4>1
    <3>5. n = d
      BY <1>2, <3>2, <3>4
    <3>6. Done(State, g) \/ Waits(State, g, n)
      <4>1. ~Beyond(State, d) /\ g \in L(d)
        BY <2>2, <3>5
      <4>2. Done(State, g) \/ Waits(State, g, d)
        BY <1>3, <4>1, ReachedInOrder
      <4> QED BY <3>5, <4>2
    <3> QED BY <1>5, <3>6
  <2> QED BY <2>1, <2>2
<1> QED BY <1>7, <1>8

LEMMA VisitHolds ==
    ASSUME NEW rows, NEW s, Visits(rows, s)
    PROVE  WalkHolds(walk, seen, s)
BY VisitTyped, VisitPending, VisitEdges, VisitCycles, VisitComplete DEF WalkHolds

----------------------------------------------------------------------------
(* The other steps.                                                        *)

\* A function too deep to be visited leaves the queue.
LEMMA LeavesQueue ==
    ASSUME NEW k, NEW e, NEW s, WalkHolds(k, e, s), s.pending # <<>>, ~(Head(s.pending).depth < k.depth),
           NEW t, t.pending = Tail(s.pending), t.visited = s.visited, t.edges = s.edges,
           t.hit = s.hit, t.cycles = s.cycles, t \in WalkStates(k, e.ever)
    PROVE  WalkHolds(k, e, t)
<1> DEFINE functions == {k.root} \cup {Peer(k.direction, r) : r \in e.ever}
           entries == [identity : functions, depth : 0 .. k.depth, ancestors : SUBSET functions]
           w == Len(Tail(s.pending))
<1>1. s.pending \in Seq(entries) /\ k.depth \in Nat \ {0, 1}
  BY WalksAssumption DEF WalkHolds, WalkTyped, WalkStates
<1> HIDE DEF functions
<1>2. \A p \in entries : p.depth \in Nat /\ p.depth <= k.depth
  BY <1>1
<1> HIDE DEF entries
<1>3. /\ w \in Nat /\ Len(s.pending) = w + 1 /\ Len(t.pending) = w
      /\ \A m \in 1 .. w : t.pending[m] = s.pending[m + 1]
      /\ Head(s.pending) = s.pending[1]
  BY <1>1
<1> HIDE DEF w
<1>4. \A m \in 1 .. w : m + 1 \in 1 .. w + 1
  BY <1>3
<1>5. s.pending[1].depth = k.depth
  <2>1. s.pending[1] \in entries
    BY <1>1, <1>3
  <2> QED BY <1>1, <1>2, <1>3, <2>1
<1>6. ASSUME NEW m \in 1 .. w + 1 PROVE m = 1 \/ \E i \in 1 .. w : t.pending[i] = s.pending[m]
  <2>1. m = 1 \/ (m - 1 \in 1 .. w /\ (m - 1) + 1 = m)
    BY <1>3
  <2> QED BY <1>3, <2>1
<1>7. WalkTyped(k, e, t)
  BY DEF WalkHolds, WalkTyped
<1>8. PendingHolds(k, e.ever, t)
  <2>1. \A m \in 1 .. w : IsReached(k, e.ever, t, t.pending[m])
    <3>1. \A m \in 1 .. w : IsReached(k, e.ever, s, s.pending[m + 1])
      BY <1>3, <1>4 DEF WalkHolds, PendingHolds
    <3>2. \A p : IsReached(k, e.ever, s, p) => IsReached(k, e.ever, t, p)
      BY DEF IsReached
    <3> QED BY <1>3, <3>1, <3>2
  <2>2. \A i, j \in 1 .. w : i <= j => i + 1 <= j + 1
    BY <1>3
  <2>3. \A i, j \in 1 .. w + 1 : i <= j =>
          s.pending[i].depth <= s.pending[j].depth /\ s.pending[j].depth <= s.pending[i].depth + 1
    BY <1>3 DEF WalkHolds, PendingHolds
  <2>4. \A i, j \in 1 .. w : i <= j =>
          t.pending[i].depth <= t.pending[j].depth /\ t.pending[j].depth <= t.pending[i].depth + 1
    BY <1>3, <1>4, <2>2, <2>3
  <2> QED BY <1>3, <2>1, <2>4 DEF PendingHolds
<1>9. EdgesHold(k, e.ever, t)
  BY <1>3, <1>4 DEF WalkHolds, EdgesHold
<1>10. CyclesHold(k, e.ever, t)
  BY DEF WalkHolds, CyclesHold
<1>11. ASSUME NEW g, NEW n, Waits(s, g, n) PROVE Waits(t, g, n) \/ k.depth <= n
  <2>1. PICK m \in 1 .. w + 1 : s.pending[m].identity = g /\ s.pending[m].depth <= n
    BY <1>3, <1>11 DEF Waits
  <2>2. CASE m = 1
    BY <1>5, <2>1, <2>2
  <2>3. CASE m # 1
    <3>1. PICK i \in 1 .. w : t.pending[i] = s.pending[m]
      BY <1>6, <2>3
    <3> QED BY <1>3, <2>1, <3>1 DEF Waits
  <2> QED BY <2>2, <2>3
<1>12. \A g : IsDone(k, e.always, s, g) <=> IsDone(k, e.always, t, g)
  BY DEF IsDone
<1>13. (\A n : Beyond(s, n) <=> Beyond(t, n)) /\ Beyond(s, k.depth - 1)
  <2>1. IsReached(k, e.ever, s, s.pending[1])
    BY <1>3 DEF WalkHolds, PendingHolds
  <2>2. PICK m \in 1 .. Len(s.edges) : s.edges[m].depth = k.depth
    BY <1>1, <1>5, <2>1 DEF IsReached
  <2>3. s.edges[m].depth > k.depth - 1
    BY <1>1, <2>2
  <2> QED BY <2>3 DEF Beyond
<1>14. CompleteHolds(k, e.always, t)
  <2> SUFFICES ASSUME ~t.hit, Len(t.edges) <= k.limit
               PROVE  /\ \A g \in t.visited :
                            \/ IsDone(k, e.always, t, g) \/ Waits(t, g, k.depth) \/ Beyond(t, k.depth - 1)
                      /\ \A d \in 0 .. k.depth - 1 : d = 0 \/ Beyond(t, d) =>
                            \A g \in Level(k.direction, e.always, {k.root}, d) :
                                IsDone(k, e.always, t, g) \/ Waits(t, g, d)
    BY DEF CompleteHolds
  <2>1. \A d \in 0 .. k.depth - 1 : d = 0 \/ Beyond(s, d) =>
          \A g \in Level(k.direction, e.always, {k.root}, d) : IsDone(k, e.always, s, g) \/ Waits(s, g, d)
    BY DEF WalkHolds, CompleteHolds
  <2>2. \A d \in 0 .. k.depth - 1 : ~(k.depth <= d)
    BY <1>1
  <2> QED BY <1>11, <1>12, <1>13, <2>1, <2>2
<1> QED BY <1>7, <1>8, <1>9, <1>10, <1>14 DEF WalkHolds

\* Calls come and go: what was reached stays reached, what was done stays done.
LEMMA CallsChange ==
    ASSUME NEW k, NEW e, NEW f, NEW s, WalkHolds(k, e, s), f.always \subseteq e.always,
           e.ever \subseteq f.ever, IsFiniteSet(f.ever)
    PROVE  WalkHolds(k, f, s)
<1>1. k.depth \in Nat
  BY WalksAssumption DEF WalkHolds, WalkTyped
<1>2. WalkTyped(k, f, s)
  <2> DEFINE few == {k.root} \cup {Peer(k.direction, r) : r \in e.ever}
             many == {k.root} \cup {Peer(k.direction, r) : r \in f.ever}
             E(functions) == [identity : functions, depth : 0 .. k.depth, ancestors : SUBSET functions]
             D(calls) == [record : calls, depth : 1 .. k.depth]
  <2>1. few \subseteq many
    OBVIOUS
  <2>2. /\ s \in [pending : Seq(E(few)), visited : SUBSET few, edges : Seq(D(e.ever)),
                   hit : BOOLEAN, cycles : BOOLEAN]
    BY DEF WalkHolds, WalkTyped, WalkStates
  <2> HIDE DEF few, many
  <2>3. E(few) \subseteq E(many)
    BY <2>1
  <2>4. D(e.ever) \subseteq D(f.ever)
    OBVIOUS
  <2> HIDE DEF E, D
  <2>5. s \in [pending : Seq(E(many)), visited : SUBSET many, edges : Seq(D(f.ever)),
               hit : BOOLEAN, cycles : BOOLEAN]
    <3>1. Seq(E(few)) \subseteq Seq(E(many)) /\ Seq(D(e.ever)) \subseteq Seq(D(f.ever))
      BY <2>3, <2>4
    <3> QED BY <2>1, <2>2, <3>1
  <2>6. s \in WalkStates(k, f.ever)
    BY <2>5, Zenon DEF WalkStates, E, D, many
  <2> QED BY <2>6 DEF WalkHolds, WalkTyped
<1>3. ASSUME NEW from, NEW d \in Nat
      PROVE  /\ Level(k.direction, e.ever, from, d) \subseteq Level(k.direction, f.ever, from, d)
             /\ Level(k.direction, f.always, from, d) \subseteq Level(k.direction, e.always, from, d)
  BY MoreCalls
<1> DEFINE functions == {k.root} \cup {Peer(k.direction, r) : r \in e.ever}
           entries == [identity : functions, depth : 0 .. k.depth, ancestors : SUBSET functions]
           found == [record : e.ever, depth : 1 .. k.depth]
<1>4. s.pending \in Seq(entries) /\ s.edges \in Seq(found)
  BY DEF WalkHolds, WalkTyped, WalkStates
<1> HIDE DEF functions
<1>5. \A p \in entries : p.depth \in Nat
  BY <1>1
<1>6. \A p \in found : p.depth - 1 \in Nat
  BY <1>1
<1> HIDE DEF entries, found
<1>7. ASSUME NEW m \in 1 .. Len(s.pending) PROVE IsReached(k, f.ever, s, s.pending[m])
  <2>1. IsReached(k, e.ever, s, s.pending[m])
    BY DEF WalkHolds, PendingHolds
  <2>2. s.pending[m] \in entries
    BY <1>4
  <2>3. s.pending[m].depth \in Nat
    BY <1>5, <2>2
  <2> QED BY <1>3, <2>1, <2>3 DEF IsReached
<1>8. PendingHolds(k, f.ever, s)
  BY <1>7 DEF WalkHolds, PendingHolds
<1>9. EdgesHold(k, f.ever, s)
  <2>1. ASSUME NEW m \in 1 .. Len(s.edges) PROVE s.edges[m].depth - 1 \in Nat
    <3>1. s.edges[m] \in found
      BY <1>4
    <3> QED BY <1>6, <3>1
  <2> QED BY <1>3, <2>1 DEF WalkHolds, EdgesHold
<1>10. CyclesHold(k, f.ever, s)
  <2> SUFFICES ASSUME s.cycles
               PROVE  \E r \in f.ever : Self(k.direction, r) \in
                          Level(k.direction, f.ever, {Peer(k.direction, r)}, Cardinality(f.ever))
    BY DEF CyclesHold
  <2>1. PICK r \in e.ever : Self(k.direction, r) \in
                Level(k.direction, e.ever, {Peer(k.direction, r)}, Cardinality(e.ever))
    BY DEF WalkHolds, CyclesHold
  <2>2. Cardinality(e.ever) \in Nat /\ Cardinality(f.ever) \in Nat
        /\ Cardinality(e.ever) <= Cardinality(f.ever)
    BY FS_Subset, FS_CardinalityType
  <2> DEFINE from == {Peer(k.direction, r)}
  <2> HIDE DEF from
  <2>3. Self(k.direction, r) \in Level(k.direction, f.ever, from, Cardinality(e.ever))
    BY <1>3, <2>1, <2>2 DEF from
  <2>4. Level(k.direction, f.ever, from, Cardinality(e.ever))
          \subseteq Level(k.direction, f.ever, from, Cardinality(f.ever))
    BY <2>2, FartherIsMore
  <2> QED BY <2>3, <2>4 DEF from
<1>11. CompleteHolds(k, f.always, s)
  <2>1. \A g : IsDone(k, e.always, s, g) => IsDone(k, f.always, s, g)
    BY DEF IsDone
  <2>2. \A d \in 0 .. k.depth - 1 : d \in Nat
    BY <1>1
  <2> QED BY <1>3, <2>1, <2>2 DEF WalkHolds, CompleteHolds
<1> QED BY <1>2, <1>8, <1>9, <1>10, <1>11 DEF WalkHolds

\* There are finitely many calls.
LEMMA CallsFinite == ASSUME NEW ed \in Stores PROVE IsFiniteSet(Calls(ed))
<1> DEFINE f == [r \in Calls(ed) |-> RecordKey(r)]
<1>1. /\ \A r \in Calls(ed) : RecordKey(r) \in Keys
      /\ \A a, b \in Calls(ed) : RecordKey(a) = RecordKey(b) => a = b
  BY RecordKeys DEF Calls
<1>2. f \in Injection(Calls(ed), Keys)
  BY <1>1 DEF Injection, IsInjective
<1> HIDE DEF f
<1> QED BY <1>2, FS_Injection, KeysAssumption

\* The invariant after a step that leaves the calls alone.
LEMMA SameCalls ==
    ASSUME UNCHANGED <<walk, seen>>, NEW s, WalkHolds(walk, seen, s), State' = s
    PROVE  WalkHolds(walk, seen, State)'
<1>1. PICK k, e : k = walk /\ e = seen
  OBVIOUS
<1>2. WalkHolds(k, e, s)
  BY <1>1
<1>3. walk' = k /\ seen' = e /\ State' = s
  BY <1>1
<1> QED BY <1>2, <1>3

LEMMA VisitInv ==
    ASSUME WalkInv, activity = "walk", Visit, UNCHANGED activity
    PROVE  WalkInv'
<1>1. /\ UNCHANGED <<walk, answer, seen, edition>>
      /\ answer = "none" /\ pending # <<>> /\ Len(edges) <= walk.limit
      /\ Head(pending).depth < walk.depth
  BY DEF Visit, Going, dbVars
<1>2. /\ edition \in Stores /\ WalkHolds(walk, seen, State)
      /\ seen.always \subseteq Calls(edition) /\ Calls(edition) \subseteq seen.ever
  BY <1>1 DEF WalkInv, AnswerHolds
<1> DEFINE C == CallsOf(Records, Head(pending).identity, walk.direction)
<1>3. PICK rows \in Seq(C), s \in States :
        /\ Len(edges) + Len(rows) <= walk.limit + 1
        /\ Len(edges) + Len(rows) <= walk.limit => \A r \in C : \E i \in 1 .. Len(rows) : rows[i] = r
        /\ Mid(s, Head(pending), rows, Len(rows))
        /\ pending' = s.pending /\ visited' = s.visited /\ edges' = s.edges
        /\ flags' = [nodeLimitHit |-> s.hit, cyclesDetected |-> s.cycles]
  BY <1>2, VisitMid, Zenon DEF WalkHolds
<1>4. Visits(rows, s)
  BY <1>1, <1>2, <1>3, Zenon DEF Visits
<1> HIDE DEF C
<1>5. WalkHolds(walk, seen, s)
  BY <1>4, VisitHolds
<1>6. State' = s
  <2>1. State' = [pending |-> s.pending, visited |-> s.visited, edges |-> s.edges,
                  hit |-> s.hit, cycles |-> s.cycles]
    BY <1>3 DEF State
  <2>2. s = [pending |-> s.pending, visited |-> s.visited, edges |-> s.edges,
             hit |-> s.hit, cycles |-> s.cycles]
    BY DEF States
  <2> QED BY <2>1, <2>2
<1>7. WalkHolds(walk, seen, State)'
  BY <1>1, <1>5, <1>6, SameCalls
<1>8. flags' \in [nodeLimitHit : BOOLEAN, cyclesDetected : BOOLEAN]
  BY <1>3 DEF States
<1>9. AnswerHolds'
  <2>1. answer' = "none" /\ Calls(edition)' = Calls(edition) /\ seen' = seen
    BY <1>1 DEF Calls
  <2> QED BY <1>2, <1>8, <2>1 DEF AnswerHolds, WalkFails
<1> QED BY <1>1, <1>2, <1>7, <1>9 DEF WalkInv

LEMMA TooDeepInv ==
    ASSUME WalkInv, activity = "walk", TooDeep, UNCHANGED activity
    PROVE  WalkInv'
<1>1. /\ UNCHANGED <<walk, answer, seen, edition, visited, edges, flags>>
      /\ answer = "none" /\ pending # <<>>
      /\ Head(pending).depth >= walk.depth /\ pending' = Tail(pending)
  BY DEF TooDeep, Going, dbVars
<1>2. WalkHolds(walk, seen, State) /\ AnswerHolds /\ edition \in Stores
  BY DEF WalkInv
<1>3. /\ walk \in Walks /\ pending \in Seq(Entries) /\ State \in States
  BY <1>2, WalkTypes DEF WalkHolds
<1>4. ~(Head(State.pending).depth < walk.depth) /\ State.pending # <<>>
  <2>1. walk.depth \in Nat /\ Head(pending) \in Entries
    BY <1>1, <1>3, WalksAssumption
  <2>2. Head(pending).depth \in Nat
    BY <2>1 DEF Entries
  <2>3. State.pending = pending
    BY DEF State
  <2> QED BY <1>1, <2>1, <2>2, <2>3
<1> DEFINE t == [pending |-> Tail(pending), visited |-> visited, edges |-> edges,
                 hit |-> flags.nodeLimitHit, cycles |-> flags.cyclesDetected]
<1>5. /\ t.pending = Tail(State.pending) /\ t.visited = State.visited /\ t.edges = State.edges
      /\ t.hit = State.hit /\ t.cycles = State.cycles
  BY DEF State
<1>6. t \in WalkStates(walk, seen.ever)
  <2>1. Tail(pending) \in Seq(Entries)
    BY <1>1, <1>3
  <2>2. t \in States
    BY <1>3, <2>1 DEF State, States
  <2> QED BY <2>2, StatesAreStates
<1>7. State' = t
  BY <1>1 DEF State
<1> HIDE DEF t
<1>8. WalkHolds(walk, seen, t)
  BY <1>2, <1>4, <1>5, <1>6, LeavesQueue
<1>9. WalkHolds(walk, seen, State)'
  BY <1>1, <1>7, <1>8, SameCalls
<1>10. AnswerHolds'
  <2>1. answer' = "none" /\ Calls(edition)' = Calls(edition) /\ seen' = seen
    BY <1>1 DEF Calls
  <2> QED BY <1>1, <1>2, <2>1 DEF AnswerHolds, WalkFails
<1> QED BY <1>1, <1>2, <1>9, <1>10 DEF WalkInv

\* A query is refused for the name of the function alone.
LEMMA VisitFailsInv ==
    ASSUME WalkInv, activity = "walk", VisitFails, UNCHANGED activity
    PROVE  WalkInv'
<1>1. /\ UNCHANGED <<walk, seen, edition, pending, visited, edges, flags>>
      /\ answer' = "DatabaseError" /\ pending # <<>>
      /\ QueryCalls(edition, Head(pending).identity, walk.direction).ret = "error"
  BY DEF VisitFails, Going, dbVars
<1>2. WalkHolds(walk, seen, State) /\ AnswerHolds /\ edition \in Stores
  BY DEF WalkInv
<1>3. State' = State
  BY <1>1 DEF State
<1>4. WalkHolds(walk, seen, State)'
  <2>1. PICK s : s = State
    OBVIOUS
  <2> QED BY <1>1, <1>2, <1>3, <2>1, SameCalls
<1>5. Head(pending).identity.symbol = 0
  <2>1. Head(pending).identity.symbol # 0 =>
          QueryCalls(edition, Head(pending).identity, walk.direction)
            = Answer(Ordered(CallsOf(RowsIn(edition, "records"), Head(pending).identity, walk.direction),
                             LAMBDA r : CallKey(walk.direction, r)))
    BY Zenon DEF QueryCalls
  <2>2. \A seq : Answer(seq).ret # "error"
    BY DEF Answer
  <2> QED BY <1>1, <2>1, <2>2, Zenon
<1>6. walk.direction = "callers" /\ \E r \in seen.ever : r.context = 0
  <2>1. pending \in Seq(Entries)
    BY <1>2, WalkTypes DEF WalkHolds
  <2>2. Head(pending) = pending[1] /\ 1 \in 1 .. Len(pending)
    BY <1>1, <2>1
  <2>3. IsReached(walk, seen.ever, State, Head(pending))
    BY <1>2, <2>2 DEF WalkHolds, PendingHolds, State
  <2> QED BY <1>5, <2>3 DEF IsReached
<1>7. AnswerHolds'
  BY <1>1, <1>2, <1>6 DEF AnswerHolds, WalkFails
<1> QED BY <1>1, <1>2, <1>4, <1>7 DEF WalkInv

LEMMA GraphAnswerInv ==
    ASSUME WalkInv, activity = "walk", GraphAnswer, UNCHANGED activity
    PROVE  WalkInv'
<1>1. /\ UNCHANGED <<walk, seen, edition, pending, visited, edges, flags>>
      /\ answer' = "Success" /\ (pending = <<>> \/ Len(edges) > walk.limit)
  BY DEF GraphAnswer, dbVars
<1>2. WalkHolds(walk, seen, State) /\ AnswerHolds /\ edition \in Stores
  BY DEF WalkInv
<1>3. State' = State
  BY <1>1 DEF State
<1>4. WalkHolds(walk, seen, State)'
  <2>1. PICK s : s = State
    OBVIOUS
  <2> QED BY <1>1, <1>2, <1>3, <2>1, SameCalls
<1>5. AnswerHolds'
  BY <1>1, <1>2 DEF AnswerHolds, WalkFails
<1> QED BY <1>1, <1>2, <1>4, <1>5 DEF WalkInv

LEMMA WalkStoreInv ==
    ASSUME WalkInv, activity = "walk", NEW f \in Files, NEW e \in 0 .. MaxEdition, WalkStore(f, e),
           UNCHANGED activity
    PROVE  WalkInv'
<1> DEFINE calls == Calls([edition EXCEPT ![f] = e])
           now == [always |-> seen.always \cap calls, ever |-> seen.ever \cup calls]
<1>1. /\ UNCHANGED <<walk, answer, pending, visited, edges, flags>>
      /\ answer = "none" /\ seen' = now /\ edition' = [edition EXCEPT ![f] = e]
  BY DEF WalkStore, StoreFile, Put
<1>2. WalkHolds(walk, seen, State) /\ AnswerHolds /\ edition \in Stores
  BY DEF WalkInv
<1>3. edition' \in Stores
  BY <1>1, <1>2 DEF Stores
<1>4. calls = Calls(edition)' /\ IsFiniteSet(calls)
  <2>1. [edition EXCEPT ![f] = e] \in Stores
    BY <1>2 DEF Stores
  <2> QED BY <1>1, <2>1, CallsFinite DEF Calls
<1> HIDE DEF calls
<1>5. now.always \subseteq seen.always /\ seen.ever \subseteq now.ever /\ IsFiniteSet(now.ever)
      /\ now.always \subseteq calls /\ calls \subseteq now.ever
  <2>1. IsFiniteSet(seen.ever)
    BY <1>2, WalkTypes DEF WalkHolds
  <2> QED BY <1>4, <2>1, FS_Union
<1> HIDE DEF now
<1>6. State' = State
  BY <1>1 DEF State
<1>7. WalkHolds(walk, seen, State)'
  <2>1. PICK s, k, c : s = State /\ k = walk /\ c = seen
    OBVIOUS
  <2>2. WalkHolds(k, c, s)
    BY <1>2, <2>1
  <2>3. PICK n : n = now
    OBVIOUS
  <2>4. WalkHolds(k, n, s)
    BY <1>5, <2>1, <2>2, <2>3, CallsChange
  <2>5. walk' = k /\ seen' = n /\ State' = s
    BY <1>1, <1>6, <2>1, <2>3
  <2> QED BY <2>4, <2>5
<1>8. AnswerHolds'
  BY <1>1, <1>2, <1>4, <1>5 DEF AnswerHolds, WalkFails
<1> QED BY <1>2, <1>3, <1>7, <1>8 DEF WalkInv

LEMMA WalkBegins == Init => WalkInv
<1> SUFFICES ASSUME Init PROVE WalkInv
  OBVIOUS
<1>1. edition \in Stores
  BY DEF Init, DbInit, Stores
<1>2. CASE activity # "walk"
  BY <1>1, <1>2 DEF Init, WalkInv
<1>3. CASE activity = "walk"
  <2> DEFINE first == [identity |-> walk.root, depth |-> 0, ancestors |-> {walk.root}]
             functions == {walk.root} \cup {Peer(walk.direction, r) : r \in seen.ever}
             entries == [identity : functions, depth : 0 .. walk.depth, ancestors : SUBSET functions]
  <2>1. /\ walk \in Walks /\ pending = <<first>> /\ visited = {walk.root} /\ edges = <<>>
        /\ flags = [nodeLimitHit |-> FALSE, cyclesDetected |-> FALSE] /\ answer = "none"
        /\ seen.always = Calls(edition) /\ seen.ever = Calls(edition)
    BY <1>3 DEF Init, WalkInit
  <2>2. /\ walk.depth \in Nat \ {0, 1} /\ walk.limit \in Nat /\ walk.nodeLimit \in Nat \ {0}
        /\ walk.root.symbol # 0
    BY <2>1, WalksAssumption
  <2>3. /\ State.pending = <<first>> /\ State.visited = {walk.root} /\ State.edges = <<>>
        /\ State.hit = FALSE /\ State.cycles = FALSE
    BY <2>1 DEF State
  <2>4. IsFiniteSet({walk.root}) /\ Cardinality({walk.root}) = 1
    BY FS_Singleton
  <2>5. first \in entries
    BY <2>2
  <2>6. first.identity = walk.root /\ first.depth = 0 /\ first.ancestors = {walk.root}
    OBVIOUS
  <2> HIDE DEF first, entries
  <2>7. WalkTyped(walk, seen, State)
    <3>1. State \in [pending : Seq(entries), visited : SUBSET functions,
                     edges : Seq([record : seen.ever, depth : 1 .. walk.depth]),
                     hit : BOOLEAN, cycles : BOOLEAN]
      <4>1. <<first>> \in Seq(entries)
        BY <2>5
      <4> QED BY <2>1, <4>1 DEF State
    <3>2. State \in WalkStates(walk, seen.ever)
      BY <3>1, Zenon DEF WalkStates, entries
    <3>3. Len(State.edges) <= walk.limit + 1
      BY <2>2, <2>3
    <3>4. walk.root \in State.visited /\ IsFiniteSet(State.visited)
          /\ Cardinality(State.visited) <= walk.nodeLimit
      BY <2>2, <2>3, <2>4
    <3>5. seen.always \subseteq seen.ever /\ IsFiniteSet(seen.ever)
      BY <1>1, <2>1, CallsFinite
    <3> QED BY <2>1, <3>2, <3>3, <3>4, <3>5 DEF WalkTyped
  <2>8. PendingHolds(walk, seen.ever, State)
    <3>1. walk.root \in Level(walk.direction, seen.ever, {walk.root}, 0)
      <4> DEFINE root == walk.root
      <4> HIDE DEF root
      <4>1. Level(walk.direction, seen.ever, {root}, 0) = {root}
        BY Levels
      <4> QED BY <4>1 DEF root
    <3>2. IsReached(walk, seen.ever, State, first)
      BY <2>2, <2>3, <2>4, <2>6, <3>1 DEF IsReached
    <3>3. Len(State.pending) = 1 /\ State.pending[1] = first
      BY <2>3
    <3>4. \A m \in 1 .. Len(State.pending) : m = 1
      BY <3>3
    <3> QED BY <2>6, <3>2, <3>3, <3>4 DEF PendingHolds
  <2>9. EdgesHold(walk, seen.ever, State) /\ CyclesHold(walk, seen.ever, State)
    BY <2>3 DEF EdgesHold, CyclesHold
  <2>10. CompleteHolds(walk, seen.always, State)
    <3>1. \A d \in Nat : Waits(State, walk.root, d)
      <4>1. 1 \in 1 .. Len(State.pending) /\ State.pending[1] = first
        BY <2>3
      <4> QED BY <2>6, <4>1 DEF Waits
    <3>2. \A d : ~Beyond(State, d)
      BY <2>3 DEF Beyond
    <3>3. Level(walk.direction, seen.always, {walk.root}, 0) = {walk.root}
      <4> DEFINE root == walk.root
      <4> HIDE DEF root
      <4>1. Level(walk.direction, seen.always, {root}, 0) = {root}
        BY Levels
      <4> QED BY <4>1 DEF root
    <3> QED BY <2>2, <2>3, <3>1, <3>2, <3>3 DEF CompleteHolds
  <2>11. AnswerHolds
    BY <2>1 DEF AnswerHolds, WalkFails
  <2> QED BY <1>1, <1>3, <2>7, <2>8, <2>9, <2>10, <2>11 DEF WalkInv, WalkHolds
<1> QED BY <1>2, <1>3

LEMMA WalkStep == WalkInv /\ [Next]_vars => WalkInv'
<1> SUFFICES ASSUME WalkInv, [Next]_vars PROVE WalkInv'
  OBVIOUS
<1>1. CASE Walk
  <2>1. activity = "walk" /\ UNCHANGED activity /\ WalkNext
    BY <1>1 DEF Walk
  <2> QED BY <2>1, VisitInv, VisitFailsInv, TooDeepInv, GraphAnswerInv, WalkStoreInv DEF WalkNext
<1>2. CASE Page \/ Read
  <2>1. activity # "walk" /\ UNCHANGED <<activity, walkVars>>
    BY <1>2 DEF Page, Read
  <2>2. WalkIdle'
    BY <2>1 DEF WalkInv, WalkIdle, walkVars
  <2>3. edition' \in Stores
    <3>1. edition \in Stores
      BY DEF WalkInv
    <3>2. CASE UNCHANGED <<edition, provenance>>
      BY <3>1, <3>2
    <3>3. ASSUME NEW f \in Files, NEW e \in 0 .. MaxEdition, Put(f, e) PROVE edition' \in Stores
      BY <3>1, <3>3 DEF Put, Stores
    <3> QED BY <3>2, <3>3, DatabaseSteps
  <2> QED BY <2>1, <2>2, <2>3 DEF WalkInv
<1>3. CASE UNCHANGED vars
  <2>1. UNCHANGED <<walk, seen, edition, pending, visited, edges, flags, answer, activity>>
    BY <1>3 DEF vars, walkVars, dbVars
  <2>2. State' = State /\ Calls(edition)' = Calls(edition)
    BY <2>1 DEF State, Calls
  <2>3. WalkHolds(walk, seen, State) => WalkHolds(walk, seen, State)'
    <3>1. PICK s : s = State
      OBVIOUS
    <3> QED BY <2>1, <2>2, <3>1, SameCalls
  <2> QED BY <2>1, <2>2, <2>3 DEF WalkInv, AnswerHolds, WalkFails, WalkIdle
<1> QED BY <1>1, <1>2, <1>3 DEF Next

\* The functions within a distance of the root are done once the queue is empty.
LEMMA AllDone ==
    ASSUME WalkHolds(walk, seen, State), pending = <<>>, ~flags.nodeLimitHit, Len(edges) <= walk.limit,
           NEW g \in Level(walk.direction, seen.always, {walk.root}, walk.depth - 1)
    PROVE  IsDone(walk, seen.always, State, g)
<1> DEFINE L(n) == Level(walk.direction, seen.always, {walk.root}, n)
           Done(h) == IsDone(walk, seen.always, State, h)
<1>1. walk.depth \in Nat \ {0, 1} /\ walk.root \in visited
  BY WalkTypes, WalksAssumption DEF WalkHolds
<1>2. State.pending = pending /\ State.edges = edges /\ State.visited = visited
      /\ State.hit = flags.nodeLimitHit
  BY DEF State
<1>3. \A h, n : ~Waits(State, h, n)
  BY <1>2 DEF Waits
<1>4. /\ \A h \in visited : Done(h) \/ Beyond(State, walk.depth - 1)
      /\ Beyond(State, walk.depth - 1) => \A h \in L(walk.depth - 1) : Done(h)
  <2>1. walk.depth - 1 \in 0 .. walk.depth - 1
    BY <1>1
  <2> QED BY <1>2, <1>3, <2>1 DEF WalkHolds, CompleteHolds
<1>5. CASE Beyond(State, walk.depth - 1)
  BY <1>4, <1>5
<1>6. CASE ~Beyond(State, walk.depth - 1)
  <2> DEFINE T == {n \in Nat : L(n) \subseteq visited}
  <2>1. \A h \in visited : Done(h)
    BY <1>4, <1>6
  <2>2. L(0) = {walk.root} /\ \A n \in Nat : L(n + 1) = L(n) \cup NextOf(walk.direction, seen.always, L(n))
    BY LevelsOfWalk
  <2> HIDE DEF L
  <2>3. 0 \in T
    BY <1>1, <2>2
  <2>4. ASSUME NEW n \in Nat, n \in T PROVE n + 1 \in T
    <3>1. L(n) \subseteq visited
      BY <2>4
    <3>2. ASSUME NEW r \in seen.always, Self(walk.direction, r) \in L(n), Self(walk.direction, r).usr # 0
          PROVE  Peer(walk.direction, r) \in visited
      BY <1>2, <2>1, <3>1, <3>2 DEF IsDone
    <3>3. NextOf(walk.direction, seen.always, L(n)) \subseteq visited
      BY <3>2 DEF NextOf
    <3> QED BY <2>2, <3>1, <3>3
  <2>5. walk.depth - 1 \in Nat
    BY <1>1
  <2>6. walk.depth - 1 \in T
    <3> DEFINE n == walk.depth - 1
    <3> HIDE DEF T, n
    <3>1. n \in T
      BY <2>3, <2>4, <2>5, Induction DEF n
    <3> QED BY <3>1 DEF n
  <2> QED BY <2>1, <2>6 DEF L
<1> QED BY <1>5, <1>6

LEMMA WalkIsFaithful == WalkInv => WalkFaithful
<1> SUFFICES ASSUME WalkInv PROVE WalkFaithful
  OBVIOUS
<1>1. walk.limit \in Nat /\ walk.depth \in Nat \ {0, 1}
  <2>1. walk \in Walks
    BY WalksAssumption, WalkTypes DEF WalkInv, WalkHolds, WalkIdle
  <2> QED BY <2>1, WalksAssumption
<1>2. CASE activity # "walk"
  <2>1. answer = "none" /\ edges = <<>> /\ flags.cyclesDetected = FALSE
    BY <1>2 DEF WalkInv, WalkIdle
  <2>2. Reported = {}
    <3>1. Len(edges) = 0 /\ Min({walk.limit, Len(edges)}) = 0
      BY <1>1, <2>1, MinOfTwo
    <3> QED BY <3>1 DEF Reported
  <2> QED BY <2>1, <2>2 DEF WalkFaithful, WalkComplete, WalkSound, WalkFails
<1>3. CASE activity = "walk"
  <2>1. WalkHolds(walk, seen, State) /\ AnswerHolds
    BY <1>3 DEF WalkInv
  <2>2. /\ IsFiniteSet(seen.ever) /\ IsFiniteSet(seen.always)
        /\ seen.always \subseteq seen.ever /\ edges \in Seq(Edges)
    BY <2>1, WalkTypes, FS_Subset DEF WalkHolds
  <2>3. State.edges = edges /\ State.visited = visited /\ State.cycles = flags.cyclesDetected
    BY DEF State
  <2>4. Cardinality(seen.ever) \in Nat /\ Cardinality(seen.always) \in Nat
    BY <2>2, FS_CardinalityType
  <2>5. WalkComplete
    <3> SUFFICES ASSUME answer = "Success", ~Truncated, NEW r \in seen.always,
                        Self(walk.direction, r) \in Within(seen.always, {walk.root})[walk.depth - 1],
                        Self(walk.direction, r).usr # 0
                 PROVE  \E edge \in Reported : edge.record = r
      BY DEF WalkComplete
    <3>1. ~flags.nodeLimitHit /\ Len(edges) <= walk.limit /\ Len(edges) \in Nat
      BY <1>1, <2>2 DEF Truncated
    <3>2. pending = <<>>
      BY <1>1, <2>1, <3>1 DEF AnswerHolds
    <3>3. walk.depth - 1 \in 0 .. Cardinality(seen.always) + walk.depth
      BY <1>1, <2>4
    <3>4. Self(walk.direction, r) \in Level(walk.direction, seen.always, {walk.root}, walk.depth - 1)
      BY <1>1, <2>2, <3>3, WithinIsLevel
    <3>5. IsDone(walk, seen.always, State, Self(walk.direction, r))
      BY <2>1, <3>1, <3>2, <3>4, AllDone
    <3>6. PICK m \in 1 .. Len(edges) : edges[m].record = r
      BY <2>3, <3>5 DEF IsDone
    <3>7. m \in 1 .. Min({walk.limit, Len(edges)})
      <4>1. Min({walk.limit, Len(edges)}) = Len(edges)
        BY <1>1, <3>1, MinOfTwo
      <4> QED BY <4>1
    <3> QED BY <3>6, <3>7 DEF Reported
  <2>6. ASSUME NEW edge \in Reported
        PROVE  /\ edge.record \in seen.ever /\ edge.depth \in 1 .. walk.depth
               /\ Self(walk.direction, edge.record) \in
                     Within(seen.ever, {walk.root})[edge.depth - 1]
    <3>1. PICK m \in 1 .. Len(edges) : edge = edges[m]
      <4>1. Len(edges) \in Nat
        BY <2>2
      <4>2. Min({walk.limit, Len(edges)}) = IF walk.limit <= Len(edges) THEN walk.limit ELSE Len(edges)
        BY <1>1, <4>1, MinOfTwo
      <4>3. \A i \in 1 .. Min({walk.limit, Len(edges)}) : i \in 1 .. Len(edges)
        BY <1>1, <4>1, <4>2
      <4> QED BY <4>3 DEF Reported
    <3>2. edge \in Edges
      BY <2>2, <3>1
    <3>3. edge.record \in seen.ever /\ edge.depth \in 1 .. walk.depth
      BY <3>2 DEF Edges
    <3>4. Self(walk.direction, edge.record) \in
             Level(walk.direction, seen.ever, {walk.root}, edge.depth - 1)
      BY <2>1, <2>3, <3>1 DEF WalkHolds, EdgesHold
    <3>5. edge.depth - 1 \in 0 .. Cardinality(seen.ever) + walk.depth
      BY <1>1, <2>4, <3>3
    <3>6. Within(seen.ever, {walk.root})[edge.depth - 1] =
             Level(walk.direction, seen.ever, {walk.root}, edge.depth - 1)
      BY <1>1, <2>2, <3>5, WithinIsLevel
    <3> QED BY <3>3, <3>4, <3>6
  <2>7. ASSUME flags.cyclesDetected
        PROVE  \E r \in seen.ever :
                  Self(walk.direction, r) \in
                      Within(seen.ever, {Peer(walk.direction, r)})[Cardinality(seen.ever)]
    <3>1. PICK r \in seen.ever : Self(walk.direction, r) \in
                Level(walk.direction, seen.ever, {Peer(walk.direction, r)}, Cardinality(seen.ever))
      BY <2>1, <2>3, <2>7 DEF WalkHolds, CyclesHold
    <3>2. Cardinality(seen.ever) \in 0 .. Cardinality(seen.ever) + walk.depth
      BY <1>1, <2>4
    <3> DEFINE from == {Peer(walk.direction, r)}
    <3> HIDE DEF from
    <3>3. Within(seen.ever, from)[Cardinality(seen.ever)] =
             Level(walk.direction, seen.ever, from, Cardinality(seen.ever))
      BY <1>1, <2>2, <3>2, WithinIsLevel
    <3> QED BY <3>1, <3>3 DEF from
  <2> QED BY <2>1, <2>5, <2>6, <2>7 DEF WalkFaithful, WalkSound, AnswerHolds
<1> QED BY <1>2, <1>3

\* A walk of the call graph, over a database that changes under it, reports only calls that
\* were there and no nearer than they are, every call that was there all the time if it
\* says that nothing was left out, and a cycle only where the calls make one; it fails
\* only at a caller without a name.
THEOREM WalksAreFaithful == Spec => []WalkFaithful
<1>1. Init => WalkInv
  BY WalkBegins
<1>2. WalkInv /\ [Next]_vars => WalkInv'
  BY WalkStep
<1>3. WalkInv => WalkFaithful
  BY WalkIsFaithful
<1> QED BY <1>1, <1>2, <1>3, PTL DEF Spec


----------------------------------------------------------------------------
(* Types, and the bounds of a source range.                                *)

\* The roots and commits that are known are those of editions.
Known(known) ==
    \A v \in DOMAIN known :
        /\ known[v].root \in {None} \cup {p.root : p \in Provenances}
        /\ known[v].commit \in {None} \cup {p.commit : p \in Provenances}

LEMMA StoredKnown ==
    ASSUME NEW known, Known(known), NEW f \in Files, NEW e \in 0 .. MaxEdition
    PROVE  Known(Stored(known, f, e))
<1> DEFINE new == Edition(f, e).provenance
           old == IF f.variant \in DOMAIN known THEN known[f.variant] ELSE Unknown
           all == Stored(known, f, e)
<1>1. new \in Provenances /\ DOMAIN new = {"root", "commit"}
  BY ContentAssumption DEF Provenances
<1>2. /\ old.root \in {None} \cup {p.root : p \in Provenances}
      /\ old.commit \in {None} \cup {p.commit : p \in Provenances}
  <2>1. CASE f.variant \in DOMAIN known
    BY <2>1 DEF Known
  <2>2. CASE f.variant \notin DOMAIN known
    BY <2>2 DEF Unknown
  <2> QED BY <2>1, <2>2
<1>3. \A v \in DOMAIN all : all[v] = (IF v = f.variant THEN Coalesced(new, old) ELSE known[v])
                           /\ (v \in DOMAIN known \/ v = f.variant)
  BY DEF Stored
<1> HIDE DEF new, old, all
<1>4. /\ Coalesced(new, old).root = (IF new.root = None THEN old.root ELSE new.root)
      /\ Coalesced(new, old).commit = (IF new.commit = None THEN old.commit ELSE new.commit)
  BY <1>1 DEF Coalesced
<1>5. /\ Coalesced(new, old).root \in {None} \cup {p.root : p \in Provenances}
      /\ Coalesced(new, old).commit \in {None} \cup {p.commit : p \in Provenances}
  BY <1>1, <1>2, <1>4
<1>6. Known(all)
  BY <1>3, <1>5 DEF Known
<1> QED BY <1>6 DEF all

LEMMA KnownBegins ==
    ASSUME DbInit(0 .. MaxEdition)
    PROVE  Known(provenance)
<1> DEFINE h == CHOOSE h : IsKnown(h, Indexed)
<1>1. IsFiniteSet(Indexed) /\ Indexed \subseteq Files
  BY FilesAssumption, FS_Subset DEF Indexed
<1>2. provenance = h[Indexed]
  BY Zenon DEF DbInit, FoldSet, MapThenFoldSet, IsKnown
<1>3. IsKnown(h, Indexed)
  BY <1>1, KnownExists
<1> HIDE DEF h
<1> DEFINE G == {s \in SUBSET Indexed : Known(h[s])}
<1>4. ASSUME NEW s \in SUBSET Indexed, \A x \in s : s \ {x} \in G PROVE s \in G
  <2>1. ASSUME s = {} PROVE Known(h[s])
    <3>1. h[s] = <<>>
      BY <1>3, <2>1 DEF IsKnown
    <3> QED BY <3>1 DEF Known
  <2>2. ASSUME s # {} PROVE Known(h[s])
    <3> DEFINE f == CHOOSE x \in s : TRUE
    <3>1. h[s] = Stored(h[s \ {f}], f, edition[f])
      BY <1>3, <2>2, Zenon DEF IsKnown
    <3>2. f \in s /\ f \in Files /\ edition[f] \in 0 .. MaxEdition
      BY <1>1, <2>2 DEF DbInit
    <3> HIDE DEF f
    <3>3. Known(h[s \ {f}])
      BY <1>4, <3>2
    <3>4. Known(Stored(h[s \ {f}], f, edition[f]))
      BY <3>2, <3>3, StoredKnown
    <3> QED BY <3>1, <3>4
  <2>3. Known(h[s])
    BY <2>1, <2>2
  <2> QED BY <2>3
<1>5. SUBSET Indexed \subseteq G
  <2>1. \A s \in SUBSET Indexed : (\A x \in s : s \ {x} \in G) => s \in G
    BY <1>4
  <2> HIDE DEF G
  <2> QED BY <1>1, <2>1, Shrinking
<1> QED BY <1>2, <1>5

LEMMA KnownStep ==
    ASSUME Known(provenance), [Next]_vars
    PROVE  Known(provenance)'
<1>1. CASE UNCHANGED <<edition, provenance>>
  BY <1>1 DEF Known
<1>2. ASSUME NEW f \in Files, NEW e \in 0 .. MaxEdition, Put(f, e)
      PROVE  Known(provenance)'
  <2>1. provenance' = Stored(provenance, f, e) /\ Known(Stored(provenance, f, e))
    BY <1>2, StoredKnown DEF Put
  <2>2. \A other : other = Stored(provenance, f, e) => Known(other)
    BY <2>1
  <2> QED BY <2>1, <2>2 DEF Known
<1> QED BY <1>1, <1>2, DatabaseSteps

\* What a reader has is within the limits of its client.
SizesHold ==
    /\ disk \in [SourceFiles -> 0 .. MaxVersion]
    /\ read.status \in {"Current", "NotIndexed", "Missing", "Drifted"}
    /\ read.origin \in {"None", "WorkingTree", "GitCommit"}
    /\ read.opened \in 0 .. MaxVersion /\ (read.pc = "blob" => read.opened # 0)
    /\ read.lines \in Seq(Int \X Int) /\ Len(read.lines) <= ask.count
    /\ read.bytes \in Nat /\ read.bytes <= ask.bytes

\* The same lines, or none.
LEMMA SizesKept ==
    ASSUME ReaderInv, SizesHold, UNCHANGED fileVars,
           read'.status \in {"Current", "NotIndexed", "Missing", "Drifted"},
           read'.origin \in {"None", "WorkingTree", "GitCommit"},
           read'.opened \in 0 .. MaxVersion, read'.pc = "blob" => read'.opened # 0,
           \/ read'.lines = read.lines /\ read'.bytes = read.bytes
           \/ read'.lines = <<>> /\ read'.bytes = 0
    PROVE  SizesHold'
<1>1. ask.count \in Nat /\ ask.bytes \in Nat
  BY RangesAssumption DEF ReaderInv, Typed
<1>2. CASE read'.lines = read.lines /\ read'.bytes = read.bytes
  BY <1>2 DEF SizesHold, fileVars
<1>3. CASE read'.lines = <<>> /\ read'.bytes = 0
  BY <1>1, <1>3 DEF SizesHold, fileVars
<1> QED BY <1>2, <1>3

\* The name that is tried is one a file may have.
LEMMA NameTried ==
    ASSUME ask \in Ranges, cwd \in Directories, read.name \in DOMAIN Names
    PROVE  Name \in SourceNames
<1>1. Names = DatabasePaths(ask.path, Root, cwd)
  BY DEF Names
<1>2. Name \in ToSet(DatabasePaths(ask.path, Root, cwd))
  BY <1>1 DEF Name, ToSet
<1> QED BY <1>2 DEF SourceNames

\* A line that fits.
LEMMA LineFits ==
    ASSUME ReaderInv, SizesHold, UNCHANGED fileVars, NEW version \in 1 .. MaxVersion,
           ~Complete(version), read' = NextLine(version)
    PROVE  SizesHold'
<1> DEFINE number == ask.first + Len(read.lines)
           content == Content(Physical, version)
           length == content[number] + 1
<1>1. /\ ask \in Ranges /\ ask.first \in Nat \ {0} /\ ask.count \in Nat /\ ask.bytes \in Nat
      /\ cwd \in Directories /\ read.name \in DOMAIN Names /\ Shaped(read)
  BY RangesAssumption DEF ReaderInv, Typed
<1>2. /\ read.lines \in Seq(Int \X Int) /\ Len(read.lines) \in Nat /\ Len(read.lines) <= ask.count
      /\ read.bytes \in Nat /\ read.bytes <= ask.bytes
  BY DEF SizesHold
<1>3. content \in Seq(Nat)
  <2>1. Content(Resolve(Root, Name), version) \in Seq(Nat)
    BY <1>1, NameTried, ContentAssumption
  <2> QED BY <2>1 DEF Physical
<1>4. Len(read.lines) # ask.count /\ number <= Len(content)
  BY <1>1, <1>2, <1>3 DEF Complete
<1>5. number \in Nat /\ length \in Nat
  <2>1. number \in 1 .. Len(content)
    BY <1>1, <1>2, <1>3, <1>4
  <2> HIDE DEF number, content
  <2>2. content[number] \in Nat
    BY <1>3, <2>1
  <2> QED BY <2>1, <2>2
<1>6. \/ read' = [read EXCEPT !.limitHit = TRUE]
      \/ /\ ~(length > ask.bytes - read.bytes)
         /\ read' = [read EXCEPT !.bytes = @ + length, !.lines = Append(@, <<version, number>>)]
  BY Zenon DEF NextLine
<1> HIDE DEF length, content, number
<1>7. CASE read' = [read EXCEPT !.limitHit = TRUE]
  <2>1. /\ read'.status = read.status /\ read'.origin = read.origin /\ read'.opened = read.opened
        /\ read'.lines = read.lines /\ read'.bytes = read.bytes /\ read'.pc = read.pc
    BY <1>1, <1>7 DEF Shaped
  <2> QED BY <2>1, SizesKept DEF SizesHold
<1>8. CASE /\ ~(length > ask.bytes - read.bytes)
           /\ read' = [read EXCEPT !.bytes = @ + length, !.lines = Append(@, <<version, number>>)]
  <2>1. /\ read'.status = read.status /\ read'.origin = read.origin /\ read'.opened = read.opened
        /\ read'.lines = Append(read.lines, <<version, number>>) /\ read'.bytes = read.bytes + length
        /\ read'.pc = read.pc
    BY <1>1, <1>8 DEF Shaped
  <2>2. <<version, number>> \in Int \X Int
    BY <1>5, VersionAssumption
  <2>3. read'.lines \in Seq(Int \X Int) /\ Len(read'.lines) = Len(read.lines) + 1
    BY <1>2, <2>1, <2>2
  <2>4. Len(read'.lines) <= ask.count
    BY <1>1, <1>2, <1>4, <2>3
  <2>5. read'.bytes \in Nat /\ read'.bytes <= ask.bytes
    <3>1. ~(length > ask.bytes - read.bytes)
      BY <1>8
    <3>2. read.bytes + length \in Nat /\ read.bytes + length <= ask.bytes
      BY <1>1, <1>2, <1>5, <3>1
    <3> QED BY <2>1, <3>2
  <2> QED BY <2>1, <2>3, <2>4, <2>5 DEF SizesHold, fileVars
<1> QED BY <1>6, <1>7, <1>8


LEMMA ReaderSizes ==
    ASSUME ReaderInv, SizesHold, Known(provenance), ReadNext
    PROVE  SizesHold'
<1>1. /\ Shaped(read) /\ ask \in Ranges /\ cwd \in Directories /\ read.name \in DOMAIN Names
      /\ disk \in [SourceFiles -> 0 .. MaxVersion]
      /\ read.opened \in 0 .. MaxVersion /\ (read.pc = "blob" => read.opened # 0)
  BY DEF ReaderInv, Typed, SizesHold
<1>2. OnDisk \in 0 .. MaxVersion
  BY <1>1, VersionAssumption DEF OnDisk
<1>3. ASSUME UNCHANGED fileVars, NEW reason \in {"Missing", "Drifted"}, read' = Drift(reason)
      PROVE  SizesHold'
  <2>1. /\ read'.status = reason /\ read'.origin = read.origin /\ read'.opened = read.opened
        /\ read'.lines = <<>> /\ read'.bytes = 0 /\ read'.pc = "commit"
    BY <1>1, <1>3 DEF Shaped, Drift
  <2> QED BY <1>3, <2>1, SizesKept DEF SizesHold
<1>4. ASSUME UNCHANGED fileVars, Shaped(read'), read'.status = read.status,
             read'.origin = read.origin,
             read'.opened \in 0 .. MaxVersion, read'.pc = "blob" => read'.opened # 0,
             read'.lines = read.lines, read'.bytes = read.bytes
      PROVE  SizesHold'
  BY <1>4, SizesKept DEF SizesHold
<1>5. ASSUME LookUp PROVE SizesHold'
  <2> DEFINE stamp == FindFile(edition, ask.variant, Name)
  <2>1. \/ read' = [read EXCEPT !.pc = "stat", !.stamp = stamp]
        \/ read' = [read EXCEPT !.name = @ + 1]
        \/ read' = [read EXCEPT !.pc = "done"]
    BY <1>5, Zenon DEF LookUp, Step
  <2>2. read.pc = "lookup" /\ UNCHANGED fileVars
    BY <1>5 DEF LookUp, Step
  <2> HIDE DEF stamp
  <2>3. /\ Shaped(read') /\ read'.status = read.status /\ read'.origin = read.origin
        /\ read'.opened = read.opened /\ read'.lines = read.lines /\ read'.bytes = read.bytes
        /\ read'.pc = "blob" => read'.opened # 0
    BY <1>1, <2>1, <2>2 DEF Shaped
  <2> QED BY <1>1, <1>4, <2>2, <2>3
<1>6. ASSUME StatBefore PROVE SizesHold'
  <2>1. \/ \E reason \in {"Missing", "Drifted"} : read' = Drift(reason)
        \/ read' = [read EXCEPT !.pc = "open"]
    <3>1. CASE OnDisk = 0
      BY <1>6, <3>1, Zenon DEF StatBefore, Step
    <3>2. CASE OnDisk # 0 /\ OnDisk # read.stamp
      BY <1>6, <3>2, Zenon DEF StatBefore, Step
    <3>3. CASE OnDisk # 0 /\ OnDisk = read.stamp
      BY <1>6, <3>3, Zenon DEF StatBefore, Step
    <3> QED BY <3>1, <3>2, <3>3
  <2>2. UNCHANGED fileVars
    BY <1>6 DEF StatBefore, Step
  <2>3. CASE read' = [read EXCEPT !.pc = "open"]
    <3>1. /\ Shaped(read') /\ read'.status = read.status /\ read'.origin = read.origin
          /\ read'.opened = read.opened /\ read'.lines = read.lines /\ read'.bytes = read.bytes
          /\ read'.pc = "blob" => read'.opened # 0
      BY <1>1, <2>3 DEF Shaped
    <3> QED BY <1>1, <1>4, <2>2, <3>1
  <2> QED BY <1>3, <2>1, <2>2, <2>3
<1>7. ASSUME Open PROVE SizesHold'
  <2>1. read' = [read EXCEPT !.pc = "error"] \/ read' = [read EXCEPT !.pc = "read", !.opened = OnDisk]
    BY <1>7, Zenon DEF Open, Failure
  <2>2. UNCHANGED fileVars
    BY <1>7 DEF Open, Step
  <2>3. /\ Shaped(read') /\ read'.status = read.status /\ read'.origin = read.origin
        /\ read'.opened \in 0 .. MaxVersion /\ read'.lines = read.lines /\ read'.bytes = read.bytes
        /\ read'.pc = "blob" => read'.opened # 0
    BY <1>1, <1>2, <2>1 DEF Shaped
  <2> QED BY <1>4, <2>2, <2>3
<1>8. ASSUME ReadRange PROVE SizesHold'
  <2>1. PICK version \in {read.opened, OnDisk} \ {0} :
          IF Complete(version) \/ read.limitHit THEN read' = [read EXCEPT !.pc = "restat"]
          ELSE read' = NextLine(version)
    BY <1>8, Zenon DEF ReadRange
  <2>2. UNCHANGED fileVars
    BY <1>8 DEF ReadRange, Step
  <2>3. version \in 1 .. MaxVersion
    BY <1>1, <1>2, VersionAssumption
  <2>4. CASE read' = [read EXCEPT !.pc = "restat"]
    <3>1. /\ Shaped(read') /\ read'.status = read.status /\ read'.origin = read.origin
          /\ read'.opened = read.opened /\ read'.lines = read.lines /\ read'.bytes = read.bytes
          /\ read'.pc = "blob" => read'.opened # 0
      BY <1>1, <2>4 DEF Shaped
    <3> QED BY <1>1, <1>4, <2>2, <3>1
  <2>5. CASE ~Complete(version) /\ read' = NextLine(version)
    BY <2>2, <2>3, <2>5, LineFits
  <2> QED BY <2>1, <2>4, <2>5, Zenon
<1>9. ASSUME StatAfter PROVE SizesHold'
  <2>1. \/ read' = [read EXCEPT !.pc = "error"]
        \/ read' = Drift("Drifted")
        \/ read' = [read EXCEPT !.pc = "done", !.status = "Current", !.origin = "WorkingTree"]
    <3>1. CASE OnDisk = 0
      BY <1>9, <3>1, Zenon DEF StatAfter, Step, Failure
    <3>2. CASE OnDisk # 0 /\ OnDisk # read.stamp
      BY <1>9, <3>2, Zenon DEF StatAfter, Step
    <3>3. CASE OnDisk # 0 /\ OnDisk = read.stamp
      BY <1>9, <3>3, Zenon DEF StatAfter, Step
    <3> QED BY <3>1, <3>2, <3>3
  <2>2. UNCHANGED fileVars
    BY <1>9 DEF StatAfter, Step
  <2>3. CASE read' = [read EXCEPT !.pc = "error"]
    <3>1. /\ Shaped(read') /\ read'.status = read.status /\ read'.origin = read.origin
          /\ read'.opened = read.opened /\ read'.lines = read.lines /\ read'.bytes = read.bytes
          /\ read'.pc = "blob" => read'.opened # 0
      BY <1>1, <2>3 DEF Shaped
    <3> QED BY <1>1, <1>4, <2>2, <3>1
  <2>4. CASE read' = [read EXCEPT !.pc = "done", !.status = "Current", !.origin = "WorkingTree"]
    <3>1. /\ read'.status = "Current" /\ read'.origin = "WorkingTree"
          /\ read'.opened = read.opened /\ read'.lines = read.lines /\ read'.bytes = read.bytes
          /\ read'.pc = "blob" => read'.opened # 0
      BY <1>1, <2>4 DEF Shaped
    <3> QED BY <1>1, <2>2, <3>1, SizesKept
  <2> QED BY <1>3, <2>1, <2>2, <2>3, <2>4
<1>10. ASSUME ReadCommit PROVE SizesHold'
  <2>1. BlobVersion \in 0 .. MaxVersion
    <3> DEFINE known == provenance[ask.variant]
               path == RepositoryPath(Name, known.root)
    <3>1. BlobVersion = 0 \/ /\ ask.variant \in DOMAIN provenance
                             /\ None \notin {known.root, known.commit}
                             /\ BlobVersion = CommitVersion(known.commit, path)
      BY Zenon DEF BlobVersion
    <3>2. CASE BlobVersion = 0
      BY <3>2, VersionAssumption
    <3>3. CASE /\ ask.variant \in DOMAIN provenance
               /\ None \notin {known.root, known.commit}
               /\ BlobVersion = CommitVersion(known.commit, path)
      <4>1. Name \in SourceNames
        BY <1>1, NameTried
      <4>2. /\ \E p \in Provenances : known.root = p.root
            /\ \E p \in Provenances : known.commit = p.commit
        BY <3>3 DEF Known
      <4>3. PICK p, q \in Provenances : known.root = p.root /\ known.commit = q.commit
        BY <4>2
      <4> HIDE DEF known
      <4>4. CommitVersion(q.commit, RepositoryPath(Name, p.root)) \in 0 .. MaxVersion
        BY <3>3, <4>1, <4>3, ContentAssumption
      <4> QED BY <3>3, <4>3, <4>4
    <3> QED BY <3>1, <3>2, <3>3
  <2> HIDE DEF BlobVersion
  <2>2. \/ read' = [read EXCEPT !.pc = "done"]
        \/ /\ BlobVersion # 0
           /\ read' = [read EXCEPT !.pc = "blob", !.opened = BlobVersion, !.origin = "GitCommit"]
    BY <1>10, Zenon DEF ReadCommit
  <2>3. UNCHANGED fileVars
    BY <1>10 DEF ReadCommit, Step
  <2>4. /\ read'.status = read.status /\ read'.origin \in {read.origin, "GitCommit"}
        /\ read'.opened \in 0 .. MaxVersion /\ read'.lines = read.lines /\ read'.bytes = read.bytes
        /\ read'.pc = "blob" => read'.opened # 0
    BY <1>1, <2>1, <2>2 DEF Shaped
  <2> QED BY <2>3, <2>4, SizesKept DEF SizesHold
<1>11. ASSUME ReadBlob PROVE SizesHold'
  <2>1. UNCHANGED fileVars /\ read.opened \in 1 .. MaxVersion
    BY <1>1, <1>11, VersionAssumption DEF ReadBlob, Step
  <2>2. \/ read' = [read EXCEPT !.pc = "done"]
        \/ ~Complete(read.opened) /\ read' = NextLine(read.opened)
    BY <1>11, Zenon DEF ReadBlob
  <2>3. CASE read' = [read EXCEPT !.pc = "done"]
    <3>1. /\ Shaped(read') /\ read'.status = read.status /\ read'.origin = read.origin
          /\ read'.opened = read.opened /\ read'.lines = read.lines /\ read'.bytes = read.bytes
          /\ read'.pc = "done"
      BY <1>1, <2>3 DEF Shaped
    <3> QED BY <1>1, <1>4, <2>1, <3>1
  <2>4. CASE ~Complete(read.opened) /\ read' = NextLine(read.opened)
    BY <2>1, <2>4, LineFits
  <2> QED BY <2>2, <2>3, <2>4
<1>12. ASSUME EditFile PROVE SizesHold'
  <2>1. UNCHANGED <<cwd, ask, writer, read>>
    BY <1>12 DEF EditFile
  <2>2. disk' \in [SourceFiles -> 0 .. MaxVersion]
    <3>1. PICK version \in {0} \cup (disk[ask.path] + 1 .. MaxVersion) :
             disk' = [disk EXCEPT ![ask.path] = version]
      BY <1>12 DEF EditFile
    <3>2. CASE ask.path \in SourceFiles
      <4>1. disk[ask.path] \in 0 .. MaxVersion /\ version \in 0 .. MaxVersion
        BY <1>1, <3>1, <3>2, VersionAssumption
      <4> QED BY <1>1, <3>1, <4>1
    <3>3. CASE ask.path \notin SourceFiles
      BY <1>1, <3>1, <3>3
    <3> QED BY <3>2, <3>3
  <2> QED BY <2>1, <2>2 DEF SizesHold
<1>13. ASSUME NEW f \in Files, NEW e \in 0 .. MaxEdition, ReadStore(f, e) PROVE SizesHold'
  <2>1. /\ read' = [read EXCEPT !.indexed = @ /\ HasRow([edition EXCEPT ![f] = e])]
        /\ UNCHANGED fileVars
    BY <1>13 DEF ReadStore
  <2>2. /\ Shaped(read') /\ read'.status = read.status /\ read'.origin = read.origin
        /\ read'.opened = read.opened /\ read'.lines = read.lines /\ read'.bytes = read.bytes
        /\ read'.pc = "blob" => read'.opened # 0
    BY <1>1, <2>1 DEF Shaped
  <2> QED BY <1>1, <1>4, <2>1, <2>2
<1> QED BY <1>5, <1>6, <1>7, <1>8, <1>9, <1>10, <1>11, <1>12, <1>13 DEF ReadNext


\* The inductive invariant behind the types of the client's variables.
TypeInv ==
    /\ ScanInv /\ ReadInv /\ WalkInv
    /\ Known(provenance)
    /\ configured \in Configured
    /\ activity # "page" => request = NoRequest /\ cursor = None /\ last = None
    /\ activity = "read" => SizesHold

LEMMA TypesBegin == Init => TypeInv
<1> SUFFICES ASSUME Init PROVE TypeInv
  OBVIOUS
<1>1. ScanInv
  BY ScanBegins
<1>2. WalkInv
  BY WalkBegins
<1>3. ReadInv
  BY ReadInitInv DEF Init, ReadInv, ReadIdle
<1>4. Known(provenance)
  BY KnownBegins DEF Init
<1>5. configured \in Configured
  BY ConfiguredAssumption DEF Init, ScanInit, ScanIdle
<1>6. activity # "page" => request = NoRequest /\ cursor = None /\ last = None
  BY DEF Init, ScanIdle
<1>7. ASSUME activity = "read" PROVE SizesHold
  <2>1. ReadInit
    BY <1>7 DEF Init
  <2>2. /\ read.status = "NotIndexed" /\ read.origin = "None" /\ read.opened = 0
        /\ read.pc = "lookup" /\ read.lines = <<>> /\ read.bytes = 0 /\ ask \in Ranges
    BY <2>1 DEF ReadInit, Fresh
  <2>3. PICK version \in 0 .. MaxVersion :
           disk = [file \in SourceFiles |-> IF file = ask.path THEN version ELSE 1]
    BY <2>1 DEF ReadInit
  <2> QED BY <2>2, <2>3, RangesAssumption, VersionAssumption DEF SizesHold
<1> QED BY <1>1, <1>2, <1>3, <1>4, <1>5, <1>6, <1>7 DEF TypeInv

LEMMA TypesStep == TypeInv /\ [Next]_vars => TypeInv'
<1> SUFFICES ASSUME TypeInv, [Next]_vars PROVE TypeInv'
  OBVIOUS
<1>1. ScanInv' /\ ReadInv' /\ WalkInv' /\ Known(provenance)'
  BY ScanStep, NextInv, WalkStep, KnownStep DEF TypeInv
<1>2. UNCHANGED <<activity, configured>>
  BY DEF Next, Page, Walk, Read, ScanNext, Reply, ScanStore, vars
<1>3. activity' # "page" => request' = NoRequest /\ cursor' = None /\ last' = None
  BY <1>2 DEF TypeInv, Next, Page, Walk, Read, vars, scanVars
<1>4. activity' = "read" => SizesHold'
  <2>1. CASE Read
    BY <2>1, ReaderSizes DEF TypeInv, Read, ReadInv
  <2>2. CASE Page \/ Walk \/ UNCHANGED vars
    <3>1. UNCHANGED <<activity, disk, ask, writer, read>>
      BY <2>2 DEF Page, Walk, vars, readVars
    <3> QED BY <3>1 DEF TypeInv, SizesHold
  <2> QED BY <2>1, <2>2 DEF Next
<1> QED BY <1>1, <1>2, <1>3, <1>4 DEF TypeInv

LEMMA TypesFollow == TypeInv => TypeOK
<1> SUFFICES ASSUME TypeInv PROVE TypeOK
  OBVIOUS
<1>1. edition \in [Files -> 0 .. MaxEdition] /\ DOMAIN provenance \subseteq {f.variant : f \in Files}
  BY DEF TypeInv, ScanInv, Stores, Variants
<1>2. /\ request \in Requests \cup {NoRequest} /\ {cursor, last} \subseteq Keys \cup {None}
      /\ reported \subseteq Keys /\ kept \subseteq Keys /\ status \in {"open", "done", "refused"}
  BY DEF TypeInv, ScanInv, Cursors
<1>3. /\ flags \in [nodeLimitHit : BOOLEAN, cyclesDetected : BOOLEAN]
      /\ answer \in {"none", "Success", "DatabaseError"}
      /\ activity = "walk" =>
            /\ walk.root \in visited
            /\ Cardinality(visited) <= walk.nodeLimit
            /\ Len(edges) <= walk.limit + 1
  <2>1. CASE activity = "walk"
    BY <2>1, WalkTypes DEF TypeInv, WalkInv, WalkHolds, AnswerHolds
  <2>2. CASE activity # "walk"
    <3>1. answer = "none" /\ flags = [nodeLimitHit |-> FALSE, cyclesDetected |-> FALSE]
      BY <2>2, Zenon DEF TypeInv, WalkInv, WalkIdle
    <3> QED BY <2>2, <3>1
  <2> QED BY <2>1, <2>2
<1> QED BY <1>1, <1>2, <1>3 DEF TypeInv, TypeOK, SizesHold

\* Whatever a client asks for and whatever is stored and edited meanwhile, its answers are
\* in their types, a walk within its limits and a range within its count and bytes.
THEOREM TypeCorrect == Spec => []TypeOK
<1>1. Init => TypeInv
  BY TypesBegin
<1>2. TypeInv /\ [Next]_vars => TypeInv'
  BY TypesStep
<1>3. TypeInv => TypeOK
  BY TypesFollow
<1> QED BY <1>1, <1>2, <1>3, PTL DEF Spec

=============================================================================
