----------------------------- MODULE Navigation -----------------------------
(***************************************************************************)
(* The requests of the language server that look something up: each is a   *)
(* job of several statements (lsp_server.cpp, lsp_call_hierarchy.cpp).  The *)
(* server does one job at a time; other processes store and the user edits *)
(* between the statements.                                                 *)
(***************************************************************************)
EXTENDS LspOverlay, TextPositions

CONSTANTS
    Cwd,            \* the directory the server runs in
    Lines(_, _),    \* the lines of a version of a source file
    LeafUnits(_),   \* UTF-16 units in the last component of a qualified name
    SourceFiles,    \* absolute paths of the files the user edits
    MaxVersion      \* bound: versions of a file, 0 being a file that was removed

VARIABLES
    workspace,      \* the workspace the client named, None if it named none
    disk,           \* the version of each source file
    job,            \* the request in hand
    seen            \* records that were stored all the time of it, and at any time

worldVars == <<dbVars, configured, overlay, workspace, disk>>

\* The root of SemindexSourceResolver.
root == IF workspace = None THEN Cwd ELSE workspace

Idle ==
    [pc |-> "idle", id |-> None, method |-> "none", params |-> None, column |-> 0, version |-> 0,
     names |-> <<>>, cursors |-> <<>>, todo |-> <<>>, hit |-> FALSE, excluded |-> None,
     cached |-> None, found |-> {}, calls |-> {}, functions |-> {}]

\* The answer is an error, or a result without a lookup.
Instead(id) == [Idle EXCEPT !.pc = "reply", !.id = id]

Failure == Instead(job.id)

Nothing == [always |-> {}, ever |-> {}]

OnDisk(path) == IF path \in SourceFiles THEN disk[path] ELSE 0

\* LspSourceMapper::uri
Uri(path) == Resolve(root, path)

NamesOf(path) == DatabasePaths(path, root, Cwd)

-----------------------------------------------------------------------------
(* From the position of the cursor to the records it is on.                 *)

\* LspSourceMapper::byteColumn
ByteColumn(path, line, character) ==
    LET text == IF OnDisk(path) = 0 THEN <<>> ELSE Lines(path, OnDisk(path))
    IN IF line >= Len(text) THEN NoColumn
       ELSE LET offset == ByteOffset(text[line + 1], character)
            IN IF offset = NoColumn THEN NoColumn ELSE offset + 1

Locate ==
    /\ job.pc = "locate"
    /\ LET at == job.params
           column == ByteColumn(at.path, at.line, at.character)
       IN job' = IF column = NoColumn THEN [job EXCEPT !.pc = "run"]
                 ELSE [job EXCEPT !.pc = "at", !.column = column, !.version = OnDisk(at.path),
                                  !.names = NamesOf(at.path)]
    /\ UNCHANGED <<worldVars, seen>>

-----------------------------------------------------------------------------
(* What is left to do: a list of statements, each for one cursor.           *)

Statement(op, cursor, filter, path, first) ==
    [op |-> op, cursor |-> cursor, filter |-> filter, path |-> path, first |-> first]

\* A local symbol is looked for under each name of its file.
SymbolStatements(cursor, filter) ==
    LET names == NamesOf(Uri(cursor.path))
    IN IF ~cursor.local THEN <<Statement("symbol", cursor, filter, None, TRUE)>>
       ELSE [i \in DOMAIN names |-> Statement("symbol", cursor, filter, names[i], i = 1)]

Identity(r) == [variant |-> r.variant, symbol |-> r.symbol, kind |-> r.kind, usr |-> r.usr]

\* loadFunctionRecords
FunctionStatements(functions) ==
    LET batches == Batches(Ordered(functions, LAMBDA f : <<f.variant, f.symbol, f.usr>>))
    IN [i \in DOMAIN batches |-> [op |-> "functions", functions |-> batches[i]]]

\* collectFunctionIdentity: records without a stable identity are left out.
FunctionsAt(cursors) ==
    {Identity(r) : r \in {c \in ToSet(cursors) : c.kind = FunctionKind /\ c.usr # 0}}

ForEach(cursors, Plan(_)) == FlattenSeq([i \in DOMAIN cursors |-> Plan(cursors[i])])

Definitions(c) == SymbolStatements(c, "definition") \o <<[op |-> "fallback", cursor |-> c]>>
References(c) == SymbolStatements(c, "reference")
Symbols(c) == SymbolStatements(c, "symbol")
Highlights(c) ==
    LET names == NamesOf(job.params.path)
    IN [i \in DOMAIN names |-> Statement("highlight", c, "all", names[i], i = 1)]

StatementsFor(cursors) ==
    CASE job.method = "definition" -> ForEach(cursors, Definitions)
      [] job.method = "references" ->
            ForEach(cursors, References)
                \o (IF job.params.declaration THEN ForEach(cursors, Symbols) ELSE <<>>)
      [] job.method = "highlight" -> ForEach(cursors, Highlights)
      [] job.method = "prepare" -> FunctionStatements(FunctionsAt(cursors))
      [] job.method = "hover" -> <<>>

\* symbolsAt, one name of the file after the other until there is a record;
\* the call hierarchy looks into the database only.
RecordsAt ==
    /\ job.pc = "at"
    /\ LET answer == AtName(job.names[1], job.params.line + 1, job.column, job.method # "prepare")
       IN job' = IF answer.rows = <<>> /\ Len(job.names) > 1
                 THEN [job EXCEPT !.names = Tail(@)]
                 ELSE [job EXCEPT !.pc = "run", !.names = <<>>, !.cursors = answer.rows,
                                  !.todo = StatementsFor(answer.rows)]
    /\ UNCHANGED <<worldVars, seen>>

-----------------------------------------------------------------------------
(* Locations and highlights.  The lines of a file are read at its first    *)
(* record and kept until a record of another file comes.                   *)

Cached(cached, path) ==
    IF cached # None /\ cached.path = path THEN cached
    ELSE [path |-> path, version |-> OnDisk(path)]

\* LspSourceMapper::range
Span(r, cached) ==
    LET text == IF cached.version = 0 THEN <<>> ELSE Lines(cached.path, cached.version)
        start == IF r.line <= Len(text) THEN Utf16Length(text[r.line], r.column - 1)
                 ELSE r.column - 1
    IN [start |-> start, end |-> start + LeafUnits(r.symbol)]

Place(r) == [path |-> r.path, line |-> r.line, column |-> r.column]

Placed(found) == {[path |-> l.path, line |-> l.line, column |-> l.column] : l \in found}

Location(r, cached, kind) ==
    [path |-> r.path, line |-> r.line, column |-> r.column, uri |-> Uri(r.path),
     span |-> Span(r, cached), kind |-> kind]

\* Mutant: the paths are compared as they are stored.
ExcludedByPath(j, r) == j.excluded # None /\ r.path = j.excluded

\* Records of a file that the overlay replaces.
Excluded(j, r) == j.excluded # None /\ Uri(r.path) = j.excluded

CollectLocation(j, r) ==
    LET cached == Cached(j.cached, Uri(r.path))
    IN CASE Excluded(j, r) -> j
         [] ~Excluded(j, r) /\ Place(r) \in Placed(j.found) -> [j EXCEPT !.hit = TRUE]
         [] OTHER -> [j EXCEPT !.hit = TRUE, !.cached = cached, !.found = @ \cup {Location(r, cached, 0)}]

ReadAction == 1
WriteAction == 2

HighlightKind(r) ==
    CASE r.record = Use /\ r.action = ReadAction -> 2
      [] r.record = Use /\ r.action = WriteAction -> 3
      [] OTHER -> 1

\* Of several records at one place the strongest kind is shown.
CollectHighlight(j, r) ==
    LET cached == Cached(j.cached, Uri(r.path))
        Stronger(l) == Place(r) = [path |-> l.path, line |-> l.line, column |-> l.column]
                          /\ HighlightKind(r) > l.kind
    IN CASE Excluded(j, r) -> j
         [] ~Excluded(j, r) /\ Place(r) \in Placed(j.found) ->
                [j EXCEPT !.found = {IF Stronger(l) THEN [l EXCEPT !.kind = HighlightKind(r)] ELSE l : l \in @}]
         [] OTHER -> [j EXCEPT !.cached = cached, !.found = @ \cup {Location(r, cached, HighlightKind(r))}]

\* The answer's records one after the other: of the job only what is collected changes.
Gathered(op, j, records) ==
    IF op = "symbol" THEN FoldLeft(CollectLocation, j, records) ELSE FoldLeft(CollectHighlight, j, records)

Collect(op, j, records) ==
    LET g == Gathered(op, j, records)
    IN [j EXCEPT !.hit = g.hit, !.cached = g.cached, !.found = g.found]

Options(s) ==
    [NoFilters EXCEPT !.symbol = s.cursor.symbol, !.variant = s.cursor.variant, !.record = s.filter,
                      !.context = IF s.cursor.local THEN s.cursor.context ELSE None,
                      !.kind = IF s.op = "symbol" THEN s.cursor.kind ELSE None,
                      !.local = s.cursor.local]

\* Mutant: an overlay hides its file even where it has nothing of the symbol.
AfterAnyOverlay(s) ==
    LET reset == [job EXCEPT !.todo = Tail(@), !.hit = IF s.filter = "definition" THEN FALSE ELSE @,
                             !.excluded = None]
        above == OverlayQuery(s.cursor.path, s.cursor.variant, Options(s))
        collected == Collect(s.op, reset, above)
    IN [collected EXCEPT !.excluded = IF HasOverlay(s.cursor.path) THEN Uri(s.cursor.path) ELSE None]

\* The overlay of the file the cursor is in comes first; what it has of the
\* symbol stands for all the database has in that file.
AfterOverlay(s) ==
    LET reset == [job EXCEPT !.todo = Tail(@), !.excluded = None,
                             !.hit = IF s.filter = "definition" THEN FALSE ELSE @]
        above == IF HasOverlay(s.cursor.path) THEN OverlayQuery(s.cursor.path, s.cursor.variant, Options(s))
                 ELSE <<>>
        collected == Collect(s.op, reset, above)
        fresh == IF s.op = "symbol" THEN above # <<>>
                 ELSE Cardinality(collected.found) # Cardinality(job.found)
    IN [collected EXCEPT !.excluded = IF fresh THEN Uri(s.cursor.path) ELSE None]

\* querySymbol and documentHighlight
QuerySymbol ==
    /\ job.pc = "run" /\ job.todo # <<>> /\ Head(job.todo).op \in {"symbol", "highlight"}
    /\ LET s == Head(job.todo)
           before == IF s.first THEN AfterOverlay(s) ELSE [job EXCEPT !.todo = Tail(@)]
           rows == Query(edition, [Options(s) EXCEPT !.path = s.path]).rows
       IN job' = Collect(s.op, before, rows)
    /\ UNCHANGED <<worldVars, seen>>

\* A symbol without a definition is led to its declarations.
Fallback ==
    /\ job.pc = "run" /\ job.todo # <<>> /\ Head(job.todo).op = "fallback"
    /\ LET declarations == SymbolStatements(Head(job.todo).cursor, "declaration")
       IN job' = [job EXCEPT !.todo = (IF job.hit THEN <<>> ELSE declarations) \o Tail(@)]
    /\ UNCHANGED <<worldVars, seen>>

-----------------------------------------------------------------------------
(* Call hierarchy.                                                          *)

Direction == IF job.method = "incoming" THEN "callers" ELSE "callees"

\* collectCall: calls without a function at their other end are left out.
Grouped(direction, r) == Peer(direction, r).symbol # 0 /\ Peer(direction, r).usr # 0

QueryHierarchy ==
    /\ job.pc = "calls"
    /\ LET answer == QueryCalls(edition, job.params, Direction)
           calls == {r \in ToSet(answer.rows) : Grouped(Direction, r)}
       IN job' = IF answer.ret = "error" THEN Failure
                 ELSE [job EXCEPT !.pc = "run", !.calls = calls,
                           !.todo = FunctionStatements({Peer(Direction, r) : r \in calls})]
    /\ UNCHANGED <<worldVars, seen>>

\* collectFunctionRecord: the first record of a function, or its first definition.
CollectFunction(functions, r) ==
    LET old == {f \in functions : Identity(f) = Identity(r)}
    IN IF old = {} \/ (r.action # 0 /\ \A f \in old : f.action = 0) THEN (functions \ old) \cup {r}
       ELSE functions

CollectFunctions(functions, rows) == FoldLeft(CollectFunction, functions, rows)

QueryFunctions ==
    /\ job.pc = "run" /\ job.todo # <<>> /\ Head(job.todo).op = "functions"
    /\ LET rows == FunctionBatch(RowsIn(edition, "records"), Head(job.todo).functions)
       IN job' = [job EXCEPT !.todo = Tail(@), !.functions = CollectFunctions(@, rows)]
    /\ UNCHANGED <<worldVars, seen>>

-----------------------------------------------------------------------------
\* Any statement can fail, and ends the job.
StatementFails ==
    /\ \/ job.pc \in {"at", "calls"}
       \/ job.pc = "run" /\ job.todo # <<>> /\ Head(job.todo).op # "fallback"
    /\ job' = Failure
    /\ UNCHANGED <<worldVars, seen>>

Working == job.pc # "idle"

NavigationStep ==
    \/ Locate
    \/ RecordsAt
    \/ QuerySymbol
    \/ Fallback
    \/ QueryHierarchy
    \/ QueryFunctions
    \/ StatementFails

\* Another process stores or drops a file.
OtherStore(f, e) ==
    /\ StoreFile(f, e)
    /\ LET records == RowsIn([edition EXCEPT ![f] = e], "records")
       IN seen' = IF Working THEN [always |-> seen.always \cap records, ever |-> seen.ever \cup records]
                  ELSE seen
    /\ UNCHANGED <<configured, overlay, workspace, disk, job>>

\* The user saves another version of a file, or removes it.
EditFile(file) ==
    /\ disk[file] # 0
    /\ \E version \in {0} \cup (disk[file] + 1 .. MaxVersion) : disk' = [disk EXCEPT ![file] = version]
    /\ UNCHANGED <<dbVars, configured, overlay, workspace, job, seen>>

-----------------------------------------------------------------------------
(* What an answer must be.                                                  *)

Answered == job.pc = "run" /\ job.todo = <<>>

\* The records that are asked for with one cursor.  One of an overlay has no variant
\* if the server was given none (lsp_overlay.cpp): it asks for those of all variants.
Matches(c, r, filter) ==
    /\ r.symbol = c.symbol /\ c.variant \in {0, r.variant} /\ r.local = c.local
    /\ c.local => r.context = c.context /\ Uri(r.path) = Uri(c.path)
    /\ job.method # "highlight" => r.kind = c.kind
    /\ job.method = "highlight" => Uri(r.path) = Uri(job.params.path)
    /\ Filtered(filter, r)

Filters ==
    CASE job.method = "definition" -> {"definition"}
      [] job.method = "references" ->
            {"reference"} \cup (IF job.params.declaration THEN {"symbol"} ELSE {})
      [] job.method = "highlight" -> {"all"}
      [] OTHER -> {}

\* What is asked for under the names of one file: a local symbol, and every highlight.
Named(c) == c.local \/ job.method = "highlight"
FileOf(c) == IF job.method = "highlight" THEN job.params.path ELSE Uri(c.path)

\* Names that are no pattern for the database.
Plain(c) ==
    /\ <<"symbol", c.symbol>> \notin Globs /\ <<"variant", c.variant>> \notin Globs
    /\ Named(c) => \A name \in ToSet(NamesOf(FileOf(c))) : <<"path", name>> \notin Globs

\* The names a file is looked up by find records of that file only: none is a
\* pattern, and none means another file in another directory.
OwnNames(path) ==
    \A name \in ToSet(NamesOf(path)), stored \in ToSet(Paths) :
        TextMatches("path", name, stored) => Uri(stored) = Uri(path)

\* Names that find what the cursor is on and nothing else.
Exact(c) == Plain(c) /\ (Named(c) => OwnNames(FileOf(c)))

Above(c, filter) == {r \in OverlayRecords(c.path, c.variant) : Matches(c, r, filter)}

\* What is stored all the time and asked for is in the answer, but for what the
\* overlay of the file replaces; a symbol that never had a definition is led to
\* its declarations.
StoredShown(c) ==
    /\ \A filter \in Filters, r \in seen.always :
          Matches(c, r, filter) /\ (Above(c, filter) = {} \/ Uri(r.path) # Uri(c.path))
              => Place(r) \in Placed(job.found)
    /\ job.method = "definition" /\ Exact(c)
          /\ (~\E r \in seen.ever \cup Above(c, "definition") : Matches(c, r, "definition"))
          => \A r \in seen.always :
                Matches(c, r, "declaration") /\ Above(c, "declaration") = {}
                    => Place(r) \in Placed(job.found)

\* The overlay's records are in the answer, and those of the database unless the
\* cursor has no variant: as a filter that is the empty name, which no record has.
AnswerComplete ==
    \A c \in ToSet(job.cursors) : Plain(c) =>
        /\ \A filter \in Filters : \A r \in Above(c, filter) : Place(r) \in Placed(job.found)
        /\ c.variant # 0 => StoredShown(c)

\* Nothing else is in the answer.
AnswerSound ==
    \A l \in job.found :
        \E c \in ToSet(job.cursors), filter \in Filters \cup {"declaration"} :
            /\ filter = "declaration" => job.method = "definition"
            /\ ~Exact(c) \/ \E r \in seen.ever \cup Above(c, filter) :
                               Matches(c, r, filter) /\ Place(r) = [path |-> l.path, line |-> l.line,
                                                                    column |-> l.column]

\* A record that is stored all the time under the cursor is noticed.
CursorFound ==
    job.column # 0
        /\ (\E r \in seen.always :
              /\ r.path \in ToSet(NamesOf(job.params.path))
              /\ Equals(IF configured = 0 THEN None ELSE configured, r.variant)
              /\ Covers(r, job.params.line + 1, job.column))
        => job.cursors # <<>>

\* The hierarchy has every call to or from the function that was there all the
\* time, and each function that had a record all the time.
HierarchyFaithful ==
    /\ job.method \in {"incoming", "outgoing"} =>
          /\ {r \in CallsOf(seen.always, job.params, Direction) : Grouped(Direction, r)} \subseteq job.calls
          /\ job.calls \subseteq CallsOf(seen.ever, job.params, Direction)
    /\ job.method \in {"prepare", "incoming", "outgoing"} =>
          \A r \in seen.always :
              /\ r.record = Symbol /\ r.usr # 0 /\ r.kind = FunctionKind
              /\ Identity(r) \in FunctionsAt(job.cursors) \cup {Peer(Direction, c) : c \in job.calls}
              => \E f \in job.functions : Identity(f) = Identity(r) /\ (r.action # 0 => f.action # 0)

\* A navigation request answers from records that were in the index while it
\* ran, and misses none that was there all the time; but from a record of an
\* overlay without a variant it need not find any of the database.
NavigationFaithful ==
    Answered =>
        /\ CursorFound
        /\ HierarchyFaithful
        /\ job.method \in {"definition", "references", "highlight"} => AnswerComplete /\ AnswerSound

\* If the overlay of a file has shown every symbol at the cursor, and each at
\* places of its own, no highlight comes from older records of the database.
HighlightsFresh ==
    Answered /\ job.method = "highlight" /\ OwnNames(job.params.path)
        /\ (\A c \in ToSet(job.cursors) : Above(c, "all") # {})
        /\ (\A i, j \in DOMAIN job.cursors : i # j =>
               \A r \in Above(job.cursors[i], "all"), other \in Above(job.cursors[j], "all") :
                   Place(r) # Place(other))
        => \A l \in job.found : HasOverlay(l.path)

\* The name of a record stands in the text where the record says.
StandsIn(r, text) ==
    \E p, q \in PrefixesOf(text) :
        /\ Decodes(q)
        /\ BytesOf(p) = r.column - 1 /\ BytesOf(q) = BytesOf(p) + LeafLength(r.symbol)
        /\ UnitsOf(q) = UnitsOf(p) + LeafUnits(r.symbol)

\* The highlight under the cursor is where the editor's cursor is, in its own
\* columns, as long as the record at the cursor describes the file on disk, the file
\* does not change meanwhile, and the names at the cursor are equally long.
RangeCoversCursor ==
    Answered /\ job.method = "highlight" /\ job.column # 0 /\ OnDisk(job.params.path) = job.version
        /\ OwnNames(job.params.path) /\ (\A c \in ToSet(job.cursors) : Plain(c)) =>
        \A c \in ToSet(job.cursors) :
            /\ c \in OverlayRecords(c.path, configured) \/ (c \in seen.always /\ Above(c, "all") = {})
            /\ StandsIn(c, Lines(job.params.path, job.version)[c.line])
            /\ \A other \in ToSet(job.cursors) : LeafUnits(other.symbol) = LeafUnits(c.symbol)
            => \E l \in job.found : /\ l.line = job.params.line + 1
                                    /\ l.span.start <= job.params.character
                                    /\ job.params.character < l.span.end
=============================================================================
