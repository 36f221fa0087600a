------------------------------ MODULE Database ------------------------------
(***************************************************************************)
(* The symbol database as its readers see it: libsemindex_database, the    *)
(* read-only API under both servers.  Another process may store a new      *)
(* edition of a file between any two statements of a reader; one statement *)
(* reads one snapshot.                                                     *)
(*                                                                         *)
(* Symbols, contexts, types and variants are naturals in the byte order of *)
(* the strings they stand for, 0 being the empty string.  A path is a      *)
(* value of the constant Paths, which lists them in byte order.            *)
(***************************************************************************)
EXTENDS Integers, SequencesExt

CONSTANTS
    Paths,          \* the paths of files rows, in byte order
    Files,          \* the (variant, path) pairs that can be in the database
    Edition(_, _),  \* the e-th edition of a file: its rows, its stamp and the provenance
    MaxEdition,     \* bound: editions of a file
    MaxStores,      \* bound: stores by other processes
    None,            \* a filter that is not set
    Globs,          \* the (column, name) pairs whose name holds one of * ? [ ]
    GlobMatches,    \* the (column, pattern, name) triples that GLOB accepts
    LeafLength(_),  \* bytes in the last component of a qualified name
    BatchSize       \* functions per statement, a third of SQLite's variable limit

ASSUME BatchAssumption == BatchSize \in Nat \ {0}

VARIABLES
    edition,        \* the edition of each file in the database, 0 if it has no row
    provenance,     \* repository root and commit of each variant that was ever stored
    stores          \* stores so far

dbVars == <<edition, provenance, stores>>

Indexed == {f \in Files : edition[f] > 0}

RowsIn(ed, rows) ==
    UNION {Edition(f, ed[f])[rows] : f \in {g \in Files : ed[g] > 0}}

Records == RowsIn(edition, "records")

\* A new provenance, where it is known, replaces the one a variant had.
Coalesced(new, old) ==
    [field \in DOMAIN new |-> IF new[field] = None THEN old[field] ELSE new[field]]

Unknown == [root |-> None, commit |-> None]

Stored(known, f, e) ==
    LET new == Edition(f, e).provenance
        old == IF f.variant \in DOMAIN known THEN known[f.variant] ELSE Unknown
    IN [v \in DOMAIN known \cup {f.variant} |->
            IF v = f.variant THEN Coalesced(new, old) ELSE known[v]]

\* Each file is at one of some editions when the readers start.
DbInit(editions) ==
    /\ edition \in [Files -> editions]
    /\ provenance = FoldSet(LAMBDA f, known : Stored(known, f, edition[f]), <<>>, Indexed)
    /\ stores = 0

Put(f, e) ==
    /\ edition' = [edition EXCEPT ![f] = e]
    /\ provenance' = Stored(provenance, f, e)

\* A merge replaces every row of a file at once (IndexStore), or drops the file.
StoreFile(f, e) ==
    /\ stores < MaxStores
    /\ e # edition[f]
    /\ Put(f, e)
    /\ stores' = stores + 1

-----------------------------------------------------------------------------
(* Rows, record types and cursors. *)

Symbol == 0
Use == 1

CallAction == 3
FunctionKind == 7

RecordType(r) ==
    IF r.record = Use THEN "reference"
    ELSE IF r.action # 0 THEN "definition" ELSE "declaration"

Filtered(filter, r) ==
    CASE filter = "all" -> TRUE
      [] filter = "symbol" -> r.record = Symbol
      [] OTHER -> RecordType(r) = filter

Rank(path) == CHOOSE i \in DOMAIN Paths : Paths[i] = path

LexLess(a, b) ==
    \E i \in DOMAIN a : a[i] < b[i] /\ \A j \in 1 .. i - 1 : a[j] = b[j]

RecordKey(r) ==
    <<r.variant, Rank(r.path), r.line, r.column, r.symbol, r.record, r.action, r.kind, r.mode>>

\* Mutant: no field of a cursor may be zero.
NonZeroCursor(key) == \A i \in DOMAIN key : key[i] # 0

\* A cursor names a record by the fields of its key.
ValidCursor(key) == key[1] # 0 /\ key[3] # 0 /\ key[4] # 0 /\ key[5] # 0

\* The rows in the order of their keys, as a statement returns them: a row with no
\* other before it, then what is left.
Least(rows, key) == CHOOSE r \in rows : \A other \in rows : ~LexLess(key[other], key[r])

OrderedBy(rows, key) ==
    MapThenFoldSet(LAMBDA r, later : <<r>> \o later, <<>>, LAMBDA r : r, LAMBDA s : Least(s, key), rows)

Ordered(rows, Key(_)) == OrderedBy(rows, [r \in rows |-> Key(r)])

Limited(seq, limit) == IF limit = 0 THEN seq ELSE SubSeq(seq, 1, Min({limit, Len(seq)}))

\* The unique index of a keyset page: what comes after the cursor.
After(rows, Key(_), cursor) ==
    IF cursor = None THEN rows ELSE {r \in rows : LexLess(cursor, Key(r))}

Failed == [ret |-> "error", rows |-> <<>>]
Answer(seq) == [ret |-> "ok", rows |-> seq]

-----------------------------------------------------------------------------
(* semindex_db_query: a filter is None when its option is not set.  The mode *)
(* filter is left out, only the search command sets it.                     *)

NoFilters ==
    [symbol |-> None, path |-> None, variant |-> None, context |-> None, record |-> "all",
     kind |-> None, usr |-> None, local |-> None, after |-> None, limit |-> 0]

TextMatches(column, pattern, name) ==
    \/ pattern = None
    \/ <<column, pattern>> \notin Globs /\ pattern = name
    \/ <<column, pattern>> \in Globs /\ <<column, pattern, name>> \in GlobMatches

Equals(filter, value) == filter = None \/ filter = value

MatchesQuery(o, r) ==
    /\ TextMatches("symbol", o.symbol, r.symbol)
    /\ TextMatches("path", o.path, r.path)
    /\ TextMatches("variant", o.variant, r.variant)
    /\ Equals(o.context, r.context)
    /\ Filtered(o.record, r)
    /\ Equals(o.kind, r.kind)
    /\ Equals(o.usr, r.usr)
    /\ Equals(o.local, r.local)

Query(ed, o) ==
    IF o.after # None /\ ~ValidCursor(o.after) THEN Failed
    ELSE LET rows == {r \in RowsIn(ed, "records") : MatchesQuery(o, r)}
         IN Answer(Limited(Ordered(After(rows, RecordKey, o.after), RecordKey), o.limit))

\* An identity is [variant, symbol, kind, usr].
ValidIdentity(i) == i.variant # 0 /\ i.symbol # 0 /\ i.usr # 0

IdentityFilters(i, filter) ==
    [NoFilters EXCEPT !.symbol = i.symbol, !.variant = i.variant, !.usr = i.usr,
                      !.kind = i.kind, !.record = filter]

QueryIdentity(ed, i, filter, after, limit) ==
    IF ~ValidIdentity(i) THEN Failed
    ELSE Query(ed, [IdentityFilters(i, filter) EXCEPT !.after = after, !.limit = limit])

-----------------------------------------------------------------------------
(* Types of a symbol and of a function: only the exact identity matches. *)

SymbolTypeKey(t) == <<t.declared, t.canonical, t.typeSymbol, t.typeKind, t.typeUsr, Rank(t.path)>>

SymbolTypesOf(ed, i) ==
    {t \in RowsIn(ed, "types") :
        <<t.symbol, t.kind, t.usr, t.variant>> = <<i.symbol, i.kind, i.usr, i.variant>>}

QuerySymbolTypes(ed, i, after, limit) ==
    IF ~ValidIdentity(i) THEN Failed
    ELSE Answer(Limited(Ordered(After(SymbolTypesOf(ed, i), SymbolTypeKey, after), SymbolTypeKey), limit))

FunctionTypeKey(t) == <<t.position>> \o SymbolTypeKey(t)

FunctionTypesOf(ed, i) ==
    {t \in RowsIn(ed, "signatures") :
        <<t.symbol, t.usr, t.variant>> = <<i.symbol, i.usr, i.variant>>}

QueryFunctionTypes(ed, i, after, limit) ==
    IF ~ValidIdentity(i) \/ i.kind # FunctionKind THEN Failed
    ELSE Answer(Limited(Ordered(After(FunctionTypesOf(ed, i), FunctionTypeKey, after),
                                FunctionTypeKey), limit))

-----------------------------------------------------------------------------
(* Calls.  The order has no unique key; rows that tie differ in the mode   *)
(* only, and come in the order of the primary key.                         *)

IsCall(r) == r.record = Use /\ r.action = CallAction /\ r.kind = FunctionKind

\* The function at the far end of a call.
Peer(direction, r) ==
    [variant |-> r.variant, kind |-> FunctionKind,
     symbol |-> IF direction = "callers" THEN r.context ELSE r.symbol,
     usr |-> IF direction = "callers" THEN r.cusr ELSE r.usr]

\* The function a call record was found for.
Self(direction, r) == Peer(IF direction = "callers" THEN "callees" ELSE "callers", r)

CallKey(direction, r) ==
    <<Peer(direction, r).symbol, Rank(r.path), r.line, r.column, r.mode>>

\* A stable identity of 0 is stored as NULL, which equals nothing.
CallsOf(rows, function, direction) ==
    {r \in rows : IsCall(r) /\ Self(direction, r) = function /\ function.usr # 0}

QueryCalls(ed, function, direction) ==
    IF function.symbol = 0 THEN Failed
    ELSE Answer(Ordered(CallsOf(RowsIn(ed, "records"), function, direction),
                        LAMBDA r : CallKey(direction, r)))

\* One statement for each batch of functions; definitions before declarations.
FunctionKey(r) ==
    <<r.variant, r.symbol, -r.action, Rank(r.path), r.line, r.column>>

FunctionBatch(rows, functions) ==
    Ordered({r \in rows : /\ r.record = Symbol /\ r.usr # 0
                          /\ [variant |-> r.variant, kind |-> r.kind,
                              symbol |-> r.symbol, usr |-> r.usr] \in functions}, FunctionKey)

Batches(functions) ==
    LET count == (Len(functions) + BatchSize - 1) \div BatchSize
    IN [b \in 1 .. count |->
            ToSet(SubSeq(functions, (b - 1) * BatchSize + 1, Min({b * BatchSize, Len(functions)})))]

-----------------------------------------------------------------------------
(* Records at a source position: the name's last component must cover it. *)

Covers(r, line, column) ==
    /\ r.line = line
    /\ r.column <= column
    /\ column - r.column < LeafLength(r.symbol)

PositionKey(r) == <<-r.column, r.record, r.symbol, r.action, r.kind, r.mode, r.variant>>

FindAt(ed, path, variant, line, column) ==
    IF line = 0 \/ column = 0 THEN Failed
    ELSE Answer(Ordered({r \in RowsIn(ed, "records") :
                            /\ r.path = path
                            /\ Equals(variant, r.variant)
                            /\ Covers(r, line, column)}, PositionKey))

ListVariants(known) == Ordered(DOMAIN known, LAMBDA name : <<name>>)

\* The stamp stored for a file, None if the file has no row.
FindFile(ed, variant, path) ==
    LET f == [variant |-> variant, path |-> path]
    IN IF f \in Files /\ ed[f] > 0 THEN Edition(f, ed[f]).stamp ELSE None
=============================================================================
