---------------------------- MODULE SourcePaths ----------------------------
(***************************************************************************)
(* How one source file is named: by an absolute path, and by the path that *)
(* the writer stores for it (repository.c), which the readers must find    *)
(* again (source_resolver.cpp).  A path is [abs, names]; names are the     *)
(* components, "." alone is the directory itself.                          *)
(***************************************************************************)
EXTENDS Integers, SequencesExt

Absolute(names) == [abs |-> TRUE, names |-> names]
Relative(names) == [abs |-> FALSE, names |-> names]
NoPath == Relative(<<>>)

\* Absolute paths without "." and "..", as lexically_normal leaves them.
NormalPaths == [abs : {TRUE}, names : Seq(STRING \ {".", ".."})]

SharedPrefix(a, b) ==
    LET lengths == 0 .. (IF Len(a) < Len(b) THEN Len(a) ELSE Len(b))
    IN CHOOSE n \in lengths : /\ SubSeq(a, 1, n) = SubSeq(b, 1, n)
                              /\ \A m \in lengths : m > n => SubSeq(a, 1, m) # SubSeq(b, 1, m)

\* std::filesystem::path::lexically_relative, of normal paths
LexicallyRelative(path, base) ==
    LET n == SharedPrefix(path.names, base.names)
        names == [i \in 1 .. Len(base.names) - n |-> ".."] \o SubSeq(path.names, n + 1, Len(path.names))
    IN CASE path.abs # base.abs -> NoPath
         [] path.abs = base.abs /\ names = <<>> -> Relative(<<".">>)
         [] OTHER -> Relative(names)

Below(relative) == relative # NoPath /\ ~relative.abs /\ relative.names[1] # ".."

IsWithin(path, root) == Below(LexicallyRelative(path, root))

\* SemindexSourceResolver::resolve
Resolve(root, path) ==
    IF path.abs THEN path
    ELSE Absolute(root.names \o (IF path.names = <<".">> THEN <<>> ELSE path.names))

\* Mutant: names are relative to the current directory only.
PathsInDirectory(path, root, cwd) ==
    <<path>> \o (IF IsWithin(path, cwd) THEN <<LexicallyRelative(path, cwd)>> ELSE <<>>)

\* The names a file may have in the database, in the order they are tried.
DatabasePaths(path, root, cwd) ==
    LET relative == LexicallyRelative(path, root)
        cwdRelative == LexicallyRelative(path, cwd)
        distinct == cwdRelative # relative \/ ~Below(relative)
    IN <<path>>
       \o (IF Below(relative) THEN <<relative>> ELSE <<>>)
       \o (IF Below(cwdRelative) /\ distinct THEN <<cwdRelative>> ELSE <<>>)

\* The name of an indexed path in the trees of the repository.
RepositoryPath(path, root) ==
    LET relative == IF path.abs THEN LexicallyRelative(path, root) ELSE path
    IN IF Below(relative) THEN relative ELSE NoPath

\* semindex_repository_path: what the writer stores for a file that it was
\* given under one name and that realpath leads to another.  Without a root,
\* or if realpath fails (each of them NoPath), the name stays as it was given.
\* Below the root directory "/" the writer drops a character too many.
Clipped == "(without its first character)"

StoredPath(root, given, real) ==
    LET n == Len(root.names)
    IN CASE NoPath \in {root, real} -> given
         [] NoPath \notin {root, real} /\ ~IsPrefix(root.names, real.names) -> real
         [] NoPath \notin {root, real} /\ real.names = root.names -> Relative(<<".">>)
         [] NoPath \notin {root, real} /\ IsStrictPrefix(root.names, real.names) /\ n > 0 ->
                Relative(SubSeq(real.names, n + 1, Len(real.names)))
         [] OTHER -> Relative(<<Clipped>> \o Tail(real.names))
=============================================================================
