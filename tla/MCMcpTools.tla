----------------------------- MODULE MCMcpTools -----------------------------
(***************************************************************************)
(* Three small files in two variants, each with two editions: they call    *)
(* each other, once from outside of any function, and once in a cycle.     *)
(***************************************************************************)
EXTENDS McpTools

A == Relative(<<"a.c">>)
B == Relative(<<"s", "b.c">>)

MCRoot == Absolute(<<"w">>)

MCPaths == <<A, B>>

FileA == [variant |-> 1, path |-> A]
FileB == [variant |-> 1, path |-> B]
FileA2 == [variant |-> 2, path |-> A]

MCFiles == {FileA, FileB, FileA2}

\* Functions 1, 2 and 3, and an operator whose name is a pattern.
Operator == 4
MCGlobs == {<<"symbol", Operator>>}
MCGlobMatches == {<<"symbol", Operator, 1>>, <<"symbol", Operator, 2>>}
MCLeafLength(symbol) == 1

Record(f, line, symbol) ==
    [variant |-> f.variant, path |-> f.path, line |-> line, column |-> 1, record |-> Symbol,
     action |-> 1, kind |-> FunctionKind, symbol |-> symbol, context |-> 0, mode |-> 0,
     usr |-> symbol, cusr |-> 0, local |-> FALSE]

CallAt(f, line, caller, callee) ==
    [Record(f, line, callee) EXCEPT !.record = Use, !.action = CallAction, !.context = caller,
                                    !.cusr = caller]

Type(f, symbol, declared) ==
    [variant |-> f.variant, path |-> f.path, symbol |-> symbol, kind |-> FunctionKind,
     usr |-> symbol, declared |-> declared, canonical |-> 1, typeSymbol |-> 0, typeKind |-> -1,
     typeUsr |-> 0]

Position(f, symbol, position) ==
    [variant |-> f.variant, path |-> f.path, symbol |-> symbol, usr |-> symbol,
     position |-> position, declared |-> 1, canonical |-> 1, typeSymbol |-> 0, typeKind |-> -1,
     typeUsr |-> 0]

RecordsOf(f, e) ==
    CASE f = FileA /\ e = 1 -> {Record(f, 1, 1), CallAt(f, 2, 1, 2), CallAt(f, 3, 1, 3)}
      [] f = FileA /\ e = 2 -> {Record(f, 1, 1), CallAt(f, 2, 1, 2), CallAt(f, 3, Operator, 3), CallAt(f, 5, 0, 1)}
      [] f = FileB /\ e = 1 -> {Record(f, 1, 2), CallAt(f, 2, 2, 3), CallAt(f, 3, 2, 1)}
      [] f = FileB /\ e = 2 -> {Record(f, 1, 2), CallAt(f, 2, 2, 3), Record(f, 4, 3)}
      [] f = FileA2 /\ e = 1 -> {Record(f, 1, 1), Record(f, 2, Operator)}
      [] OTHER -> {}

Editions ==
    [f \in MCFiles, e \in 0 .. 2 |->
        [records |-> RecordsOf(f, e),
         types |-> IF e = 0 THEN {} ELSE {Type(f, 1, e)},
         signatures |-> IF e = 0 THEN {} ELSE {Position(f, 1, -1), Position(f, 1, 0)},
         stamp |-> e,
         provenance |-> IF f = FileA2 THEN Unknown ELSE [root |-> MCRoot, commit |-> e]]]

MCEdition(f, e) == Editions[f, e]

Every(kind) == UNION {MCEdition(f, e)[kind] : f \in MCFiles, e \in 1 .. 2}

MCKeys ==
    {RecordKey(r) : r \in Every("records")}
    \cup {SymbolTypeKey(t) : t \in Every("types")}
    \cup {FunctionTypeKey(t) : t \in Every("signatures")}
    \cup {CallKey(d, r) : d \in {"callers", "callees"}, r \in {c \in Every("records") : IsCall(c)}}
    \cup {VariantKey(f.variant) : f \in MCFiles}

MCBefore(a, b) == IF Len(a) = Len(b) THEN LexLess(a, b) ELSE Len(a) < Len(b)

-----------------------------------------------------------------------------
Ask(tool) ==
    [tool |-> tool, symbol |-> None, variant |-> None, usr |-> None, kind |-> None,
     context |-> None, local |-> None]

AskFunction(tool, symbol) ==
    [Ask(tool) EXCEPT !.symbol = symbol, !.variant = 1, !.usr = symbol, !.kind = FunctionKind]

MCRequests ==
    {[Ask("search_symbols") EXCEPT !.symbol = Operator],
     [Ask("search_symbols") EXCEPT !.symbol = 2, !.variant = 1, !.kind = FunctionKind],
     [Ask("search_symbols") EXCEPT !.symbol = 2, !.kind = Malformed],
     AskFunction("find_definitions", 3),
     AskFunction("find_references", 3),
     [AskFunction("find_references", 2) EXCEPT !.usr = None, !.context = 1, !.local = FALSE],
     [AskFunction("find_references", 2) EXCEPT !.variant = 2],
     AskFunction("find_declared_types", 1),
     AskFunction("find_function_signature", 1),
     AskFunction("find_callers", 3),
     AskFunction("find_callees", 1),
     Ask("find_callees"),
     Ask("list_variants")}

MCWalks ==
    [root : {[variant |-> 1, kind |-> FunctionKind, symbol |-> s, usr |-> s] : s \in {1, 3}},
     direction : {"callers", "callees"}, limit : {2, 6}, depth : {2, 3}, nodeLimit : {2, 5}]

-----------------------------------------------------------------------------
MCDirectories == {MCRoot, Absolute(<<"w", "s">>)}
MCSourceFiles == {Absolute(<<"w", "a.c">>), Absolute(<<"w", "s", "a.c">>)}

\* Three lines, of which the second is longer in the second version.
MCContent(file, version) == <<2, version, 1>>

MCCommitVersion(commit, path) == IF path = A THEN commit ELSE 0

MCRanges ==
    {[variant |-> 1, path |-> Absolute(<<"w", "a.c">>), first |-> first, count |-> 3 - first,
      bytes |-> 5] : first \in {1, 2}}
    \cup {[variant |-> 1, path |-> Absolute(<<"w", "s", "a.c">>), first |-> 1, count |-> 2, bytes |-> 5]}

\* Indexed below the root of the repository, without a repository from two
\* directories, and with a file that had gone when it was stored.
MCRepositoryWriters == {[root |-> MCRoot, directory |-> NoPath, resolves |-> TRUE]}

MCWriters ==
    MCRepositoryWriters
    \cup {[root |-> NoPath, directory |-> d, resolves |-> TRUE] : d \in MCDirectories}
    \cup {[root |-> MCRoot, directory |-> Absolute(<<"w", "s">>), resolves |-> FALSE]}
=============================================================================
