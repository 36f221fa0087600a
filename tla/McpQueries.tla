----------------------------- MODULE McpQueries -----------------------------
(***************************************************************************)
(* The paginated tools of the MCP server (mcp_symbol_tools.cpp, direct     *)
(* calls in mcp_callgraph_tools.cpp, list_variants).  A client repeats one *)
(* call with the nextCursor of the answer before, and may change the limit *)
(* each time.  Every call is one statement on a snapshot of the database,  *)
(* and other processes store between the calls.                            *)
(*                                                                         *)
(* None stands for an argument that is not given, Malformed for one of the  *)
(* wrong JSON type or one that does not parse.                             *)
(***************************************************************************)
EXTENDS Database, PageOrder

CONSTANTS
    Requests,       \* what clients ask for, without limit and cursor
    Limits,         \* values of the limit argument
    DefaultLimit,   \* the limit of a call that gives none
    Malformed,
    Configured      \* values of the server's --variant option, 0 if not given

ASSUME DefaultAssumption == DefaultLimit \in 1 .. MaxLimit

ASSUME ConfiguredAssumption == Configured # {}

\* Keys of one table are in the order of their fields.
ASSUME KeyOrderAssumption ==
    /\ Start = None /\ Keys \subseteq Seq(Int)
    /\ \A a, b \in Keys : Len(a) = Len(b) => (Before(a, b) <=> LexLess(a, b))

PagedTools ==
    {"search_symbols", "find_definitions", "find_references", "find_declared_types",
     "find_function_signature", "find_callers", "find_callees", "list_variants"}

ASSUME RequestsAssumption == \A r \in Requests : r.tool \in PagedTools

VARIABLES
    configured,     \* the server's --variant option
    request,        \* the arguments of the client's calls
    cursor,         \* the nextCursor of the last answer
    last,           \* the key of the last row of the answers that had a nextCursor
    reported,       \* keys of the rows in the answers
    sent,           \* how many rows were in them
    table,          \* keys of the rows that match now, whatever the limit
    kept,           \* keys of the rows that matched since the first call
    status          \* "open", "done" or "refused"

scanVars == <<request, cursor, last, reported, sent, table, kept, status>>

-----------------------------------------------------------------------------
(* Arguments and results shared by the tools.                               *)

\* parseLimit: Malformed if the call is refused.
ParsedLimit(limit) ==
    CASE limit = None -> DefaultLimit
      [] limit \in 1 .. MaxLimit -> limit
      [] OTHER -> Malformed

\* selectedVariant: another variant than the configured one is refused.
SelectedVariant(a) ==
    CASE a.variant = None -> configured
      [] configured \in {0, a.variant} -> a.variant
      [] OTHER -> Malformed

Given(argument) == argument \notin {None, Malformed}

InvalidParams == [status |-> "InvalidParams", rows |-> <<>>, truncated |-> FALSE, nextCursor |-> None]

DatabaseError == [InvalidParams EXCEPT !.status = "DatabaseError"]

\* recordsResult and its siblings: one row more than the limit was asked for.
Result(answer, Key(_), limit) ==
    LET rows == Limited(answer.rows, limit)
        more == Len(answer.rows) > limit
    IN IF answer.ret = "error" THEN DatabaseError
       ELSE [status |-> "Success", rows |-> rows, truncated |-> more,
             nextCursor |-> IF more THEN Key(Last(rows)) ELSE None]

-----------------------------------------------------------------------------
(* The tools.  "more" is the row limit of the statement, one above limit.   *)

SearchOptions(a) ==
    [NoFilters EXCEPT !.symbol = a.symbol, !.kind = a.kind,
                      !.variant = IF SelectedVariant(a) = 0 THEN None ELSE SelectedVariant(a)]

\* Mutant: the statement is asked for no row more than the limit.
SearchWithoutLookAhead(db, a, after, limit) ==
    IF ~Given(a.symbol) \/ a.symbol = 0 \/ SelectedVariant(a) = Malformed \/ a.kind = Malformed
    THEN InvalidParams
    ELSE Result(Query(db, [SearchOptions(a) EXCEPT !.after = after, !.limit = limit]), RecordKey, limit)

SearchSymbols(db, a, after, limit) ==
    IF ~Given(a.symbol) \/ a.symbol = 0 \/ SelectedVariant(a) = Malformed \/ a.kind = Malformed
    THEN InvalidParams
    ELSE Result(Query(db, [SearchOptions(a) EXCEPT !.after = after, !.limit = limit + 1]),
                RecordKey, limit)

Identity(a) ==
    [variant |-> SelectedVariant(a), symbol |-> a.symbol, kind |-> a.kind, usr |-> a.usr]

\* The tools that need a symbol name and one variant.
NamesSymbol(a) == Given(a.symbol) /\ a.symbol # 0 /\ SelectedVariant(a) \notin {0, Malformed}

\* A usrId argument that is no string is taken for none at all.
NameFilters(a, filter) ==
    [NoFilters EXCEPT !.symbol = a.symbol, !.variant = SelectedVariant(a), !.record = filter,
                      !.context = IF Given(a.context) THEN a.context ELSE None,
                      !.local = IF Given(a.local) THEN a.local ELSE None]

RelatedRecords(db, a, filter, after, limit) ==
    CASE ~NamesSymbol(a) -> InvalidParams
      [] NamesSymbol(a) /\ a.usr = None ->
            Result(Query(db, [NameFilters(a, filter) EXCEPT !.after = after, !.limit = limit + 1]),
                   RecordKey, limit)
      [] OTHER ->
            IF a.usr \in {0, Malformed} \/ ~Given(a.kind) THEN InvalidParams
            ELSE Result(QueryIdentity(db, Identity(a), filter, after, limit + 1), RecordKey, limit)

DeclaredTypes(db, a, after, limit) ==
    IF ~NamesSymbol(a) \/ ~Given(a.usr) \/ a.usr = 0 \/ ~Given(a.kind) THEN InvalidParams
    ELSE Result(QuerySymbolTypes(db, Identity(a), after, limit + 1), SymbolTypeKey, limit)

Function(a) == [Identity(a) EXCEPT !.kind = FunctionKind]

NamesFunction(a) == NamesSymbol(a) /\ Given(a.usr) /\ a.usr # 0

FunctionSignature(db, a, after, limit) ==
    IF ~NamesFunction(a) THEN InvalidParams
    ELSE Result(QueryFunctionTypes(db, Function(a), after, limit + 1), FunctionTypeKey, limit)

\* The calls are read from the first on, up to the one the cursor names.  They come
\* in the order of the callers or callees (CallKey), but a cursor names a call as a
\* record (recordCursor): it leaves the caller out.
SkipTo(rows, after, Key(_)) ==
    LET seen == {i \in DOMAIN rows : Key(rows[i]) = after}
    IN SubSeq(rows, 1 + CHOOSE i \in seen : \A j \in seen : i <= j, Len(rows))

\* The calls of a function, from the one after the cursor on.
CallPage(db, function, direction, after, limit) ==
    LET answer == QueryCalls(db, function, direction)
    IN IF after = None THEN Result(answer, RecordKey, limit)
       ELSE IF after \notin {RecordKey(r) : r \in ToSet(answer.rows)} THEN InvalidParams
       ELSE Result(Answer(SkipTo(answer.rows, after, RecordKey)), RecordKey, limit)

CallRecords(db, a, direction, after, limit) ==
    IF NamesFunction(a) THEN CallPage(db, Function(a), direction, after, limit) ELSE InvalidParams

\* The names after the cursor, only the configured one if there is one.
VariantKey(name) == <<name>>

ListVariantsPage(known, after, limit) ==
    LET wanted == {name \in DOMAIN known : /\ after = None \/ name > after[1]
                                           /\ configured \in {0, name}}
    IN Result(Answer(ListVariants(Restrict(known, wanted))), VariantKey, limit)

-----------------------------------------------------------------------------
(* What the tables keep (the schema in index_db_writer.c): the rows of a file  *)
(* have its variant and path, and no two rows one primary key.  A record has a *)
(* name, and a position in its file.                                        *)

\* A type that is no symbol has kind -1, the result of a function position -1.
SymbolKinds == 0 .. 12
TypeKinds == {-1} \cup SymbolKinds

Distinct(rows, Primary(_)) == \A a, b \in rows : Primary(a) = Primary(b) => a = b

ASSUME FilesAssumption ==
    /\ IsFiniteSet(Files) /\ MaxEdition \in Nat
    /\ \A f \in Files : /\ f = [variant |-> f.variant, path |-> f.path]
                        /\ f.path \in ToSet(Paths) /\ f.variant # 0
                        /\ VariantKey(f.variant) \in Keys

ASSUME RowsAssumption ==
    \A f \in Files, e \in 1 .. MaxEdition :
        LET rows == Edition(f, e)
        IN /\ \A r \in rows.records \cup rows.types \cup rows.signatures :
                 r.variant = f.variant /\ r.path = f.path
           /\ \A r \in rows.records :
                 /\ RecordKey(r) \in Keys
                 /\ r.symbol # 0 /\ r.line > 0 /\ r.column > 0
                 /\ r.record \in {Symbol, Use} /\ r.action >= 0
                 /\ r.kind \in SymbolKinds /\ r.mode >= 0
                 /\ IsCall(r) => \A direction \in {"callers", "callees"} : CallKey(direction, r) \in Keys
           /\ \A t \in rows.types : SymbolTypeKey(t) \in Keys /\ t.typeKind \in TypeKinds
           /\ \A t \in rows.signatures :
                 FunctionTypeKey(t) \in Keys /\ t.typeKind \in TypeKinds /\ t.position >= -1
           /\ Distinct(rows.records, RecordKey)
           /\ Distinct(rows.types, LAMBDA t : <<t.symbol, t.kind, t.usr, SymbolTypeKey(t)>>)
           /\ Distinct(rows.signatures, LAMBDA t : <<t.symbol, t.usr, FunctionTypeKey(t)>>)

-----------------------------------------------------------------------------
\* McpToolService::call, on the editions db and the variants known
Call(db, known, after, limit) ==
    CASE request.tool = "search_symbols" -> SearchSymbols(db, request, after, limit)
      [] request.tool = "find_definitions" -> RelatedRecords(db, request, "definition", after, limit)
      [] request.tool = "find_references" -> RelatedRecords(db, request, "reference", after, limit)
      [] request.tool = "find_declared_types" -> DeclaredTypes(db, request, after, limit)
      [] request.tool = "find_function_signature" -> FunctionSignature(db, request, after, limit)
      [] request.tool = "find_callers" -> CallRecords(db, request, "callers", after, limit)
      [] request.tool = "find_callees" -> CallRecords(db, request, "callees", after, limit)
      [] request.tool = "list_variants" -> ListVariantsPage(known, after, limit)

CallTools == {"find_callers", "find_callees"}

Direction == IF request.tool = "find_callers" THEN "callers" ELSE "callees"

\* The key of a row in the order of its tool, and the cursor that names it.
Key(row) ==
    CASE request.tool \in {"search_symbols", "find_definitions", "find_references"} -> RecordKey(row)
      [] request.tool = "find_declared_types" -> SymbolTypeKey(row)
      [] request.tool = "find_function_signature" -> FunctionTypeKey(row)
      [] request.tool \in CallTools -> CallKey(Direction, row)
      [] request.tool = "list_variants" -> VariantKey(row)

CursorOf(row) == IF request.tool \in CallTools THEN RecordKey(row) ELSE Key(row)

NoRequest == [tool |-> "none"]

\* The numbers of a record cursor.
Positive(key, fields) == \A i \in fields : key[i] > 0

\* parseCursor, parseTypeCursor and parseFunctionTypeCursor: whether the tool
\* takes the cursor.  Cursors of calls and of variants are not looked into.
Parses(key) ==
    CASE request.tool \in {"search_symbols", "find_definitions", "find_references"} ->
            Positive(key, {3, 4}) /\ key[6] \in {Symbol, Use} /\ key[7] >= 0
                /\ key[8] \in SymbolKinds /\ key[9] >= 0
      [] request.tool = "find_declared_types" -> key[4] \in TypeKinds
      [] request.tool = "find_function_signature" -> key[1] >= -1 /\ key[5] \in TypeKinds
      [] OTHER -> TRUE

\* The keys of all that one call without a limit would answer now.
TableOf(db, known) == {Key(row) : row \in ToSet(Call(db, known, None, Cardinality(Keys)).rows)}

-----------------------------------------------------------------------------
ScanInit ==
    /\ configured \in Configured
    /\ request \in Requests
    /\ cursor = None
    /\ last = None
    /\ reported = {}
    /\ sent = 0
    /\ table = TableOf(edition, provenance)
    /\ kept = table
    /\ status = "open"

\* An answer, from which the client takes the rows and the cursor.
Reply(limit) ==
    /\ status = "open"
    /\ LET parsed == ParsedLimit(limit)
           reply == IF parsed = Malformed \/ (cursor # None /\ ~Parses(cursor)) THEN InvalidParams
                    ELSE Call(edition, provenance, cursor, parsed)
       IN /\ status' = CASE reply.status # "Success" -> "refused"
                         [] reply.truncated -> "open"
                         [] OTHER -> "done"
          /\ cursor' = IF reply.truncated THEN reply.nextCursor ELSE cursor
          /\ last' = IF reply.truncated THEN Key(Last(reply.rows)) ELSE last
          /\ reported' = reported \cup {Key(row) : row \in ToSet(reply.rows)}
          /\ sent' = sent + Len(reply.rows)
    /\ UNCHANGED <<request, table, kept, dbVars, configured>>

\* Another process stores, which is of interest until the scan is over.
ScanStore(f, e) ==
    /\ status = "open"
    /\ StoreFile(f, e)
    /\ UNCHANGED <<request, cursor, last, reported, sent, status, configured>>
    /\ table' = TableOf([edition EXCEPT ![f] = e], Stored(provenance, f, e))
    /\ kept' = kept \cap table'

ScanNext ==
    \/ \E limit \in Limits : Reply(limit)
    \/ \E f \in Files, e \in 0 .. MaxEdition : ScanStore(f, e)

-----------------------------------------------------------------------------
\* The calls of the function that is asked for, as they are now.
CallsListed(db) == ToSet(QueryCalls(db, Function(request), Direction).rows)

\* A store has renamed the caller of the call the cursor names, which is now at
\* another place of the list of callers.
CursorMoved ==
    /\ request.tool = "find_callers" /\ cursor # None
    /\ \E r \in CallsListed(edition) : RecordKey(r) = cursor /\ Key(r) # last

\* Following nextCursor to the end implements the paging that Pages promises:
\* whatever is stored between the calls, the answers hold every row that was
\* there all the time, and none twice (mcp.md: a bounded list and an opaque
\* nextCursor when another page is available).  In a list of callers that goes
\* wrong once the cursor has moved; in all others it cannot.
P == INSTANCE Pages WITH cursor <- last

PagesSpec == P!Init /\ [][P!Next \/ CursorMoved]_(P!vars)

\* A client that repeats its call with the nextCursor of the answer is refused
\* only in a list of calls, and only once the record the cursor names is gone:
\* every cursor a tool hands out is one it takes back.
CursorHonoured ==
    [][\A limit \in Limits :
            cursor # None /\ ParsedLimit(limit) # Malformed /\ Reply(limit) /\ status' = "refused"
                => /\ request.tool \in CallTools
                   /\ cursor \notin {RecordKey(r) : r \in CallsListed(edition)}]_scanVars
=============================================================================
