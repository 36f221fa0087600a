----------------------------- MODULE IndexData -----------------------------
(***************************************************************************)
(* The rows of the symbol database (schema in                              *)
(* lib/semindex_index_db/index_db_writer.c) and the parameters shared by   *)
(* SymbolIndex and IndexStore.                                             *)
(*                                                                         *)
(* Six tables hang off a files row.  They are merged by two rules only:    *)
(*   - records and function_types: INSERT OR IGNORE on a primary key that  *)
(*     leaves columns out (context, usr_id, local; name, variadic), so a   *)
(*     row is a key and a value and the first value of a key stays;        *)
(*   - symbol_types (the key is the whole row) and symbol_properties (bits *)
(*     combined with OR): rows accumulate, so they are sets of facts.      *)
(***************************************************************************)
EXTENDS Naturals

CONSTANTS
    Writers,        \* indexing processes
    Variants,       \* index variants (--variant=NAME)
    Files,          \* source and header paths
    Keys,           \* primary keys of the records and function_types tables
    Vals,           \* their columns outside the primary key
    Facts,          \* rows of symbol_types and symbol_properties bits
    Provenance,     \* repository roots and commits
    Null            \* SQL NULL, also: no row

\* Null is none of the values it stands beside.
ASSUME NullAssumption ==
    /\ Null \notin Nat
    /\ Null \notin Provenance

\* A row of the tables merged with INSERT OR IGNORE on a primary key that
\* does not cover every column (records, function_types).
Rows == [key : Keys, val : Vals]

\* INSERT OR IGNORE: a new row loses against a stored one of the same key.
InsertOrIgnore(old, new) ==
    old \cup {n \in new : \A o \in old : o.key # n.key}

\* Everything the front end emits for one file of a translation unit.
Emissions == [rows : SUBSET Rows, facts : SUBSET Facts]

NoEmission == [rows |-> {}, facts |-> {}]

\* The two provenance columns of the variants table.
ProvenanceRows == [commit : Provenance \cup {Null}, root : Provenance \cup {Null}]

\* The part of the database a query can see, for one variant: files.mtime_ns
\* and size (Null: no row), the rows of each file, and the variants row.
Stores ==
    [meta    : [Files -> Nat \cup {Null}],
     records : [Files -> SUBSET Rows],
     facts   : [Files -> SUBSET Facts],
     prov    : ProvenanceRows]

EmptyStore ==
    [meta    |-> [f \in Files |-> Null],
     records |-> [f \in Files |-> {}],
     facts   |-> [f \in Files |-> {}],
     prov    |-> [commit |-> Null, root |-> Null]]
============================================================================
