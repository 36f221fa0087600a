----------------------------- MODULE IndexStore -----------------------------
(***************************************************************************)
(* The symbol database writer, lib/semindex_index_db/index_db_writer.c:    *)
(* any number of indexing processes parse a translation unit, stage its    *)
(* rows in private TEMP tables while skipping files whose fingerprint is   *)
(* already stored, and then merge under the SQLite write lock after        *)
(* checking those cache hits again; a stale hit rolls back, stages every   *)
(* row and merges once more.                                               *)
(*                                                                         *)
(* Meanwhile the user edits and removes source files.  A file is known to  *)
(* the writers by its stamp (mtime and size together): 0 when stat fails,  *)
(* and a fresh number after every edit.                                    *)
(*                                                                         *)
(* SQLite is external: a transaction opened with BEGIN IMMEDIATE holds the *)
(* only write lock, its effects appear at COMMIT, and ROLLBACK or the      *)
(* death of the process undoes them.                                       *)
(***************************************************************************)
EXTENDS IndexData

CONSTANTS
    Sources,            \* the files that are compiled as a main file
    Includes(_),        \* the headers a source includes
    Emit(_, _, _),      \* Emit(main, f, s): the emissions the front end may
                        \* produce for file f with stamp s when compiling main
    MaxStamp,           \* bound on edits: the last stamp an edit may use
    EditsWhileParsed    \* may files change between the parse and the stat?

Stamps == 1 .. MaxStamp

ASSUME SourcesAssumption == Sources \subseteq Files

ASSUME EmitAssumption ==
    \A m, f \in Files, s \in Stamps : Emit(m, f, s) \subseteq Emissions

ASSUME BoundAssumption ==
    /\ MaxStamp \in Nat \ {0}
    /\ EditsWhileParsed \in BOOLEAN

VARIABLES
    disk,       \* [Files -> Nat]: the stamp stat would return now
    clock,      \* the last stamp handed out
    db,         \* [Variants -> Databases]: the committed database
    lock,       \* the writer inside BEGIN IMMEDIATE, or Null
    pc,         \* where each writer is in index_db_store
    job         \* its translation unit and TEMP tables

vars == <<disk, clock, db, lock, pc, job>>

\* A Store and the file_fingerprints table.  BLAKE3 is taken to be injective,
\* so a fingerprint is the emission it was computed from.
Databases ==
    [meta    : [Files -> Nat \cup {Null}],
     records : [Files -> SUBSET Rows],
     facts   : [Files -> SUBSET Facts],
     prints  : [Files -> SUBSET Emissions],
     prov    : ProvenanceRows]

EmptyDatabase ==
    [meta    |-> [f \in Files |-> Null],
     records |-> [f \in Files |-> {}],
     facts   |-> [f \in Files |-> {}],
     prints  |-> [f \in Files |-> {}],
     prov    |-> [commit |-> Null, root |-> Null]]

\* request->... and the staging tables: cached is staging_files.cached,
\* loaded the files whose rows are in staging_records and its siblings.
Jobs ==
    [variant : Variants,
     main    : Files,
     emitted : [Files -> Emissions],
     stamp   : [Files -> Nat],
     cached  : SUBSET Files,
     loaded  : SUBSET Files,
     retried : BOOLEAN,
     prov    : ProvenanceRows]

\* Null is none of the values it stands beside.
ASSUME NullIsNoValue == Null \notin Writers /\ Null \notin Jobs

\* Phases of index_db_store; "parsed" is the pipeline before calling it.
Phases == {"new", "parsed", "staged", "merging", "stale", "done", "failed"}

TypeOK ==
    /\ disk \in [Files -> Stamps \cup {0}]
    /\ clock \in Stamps
    /\ db \in [Variants -> Databases]
    /\ lock \in Writers \cup {Null}
    /\ pc \in [Writers -> Phases]
    /\ job \in [Writers -> Jobs \cup {Null}]

----------------------------------------------------------------------------
(* stage_files                                                             *)

\* The rows of staging_files: files with at least one record, and the main
\* file whatever it emitted.
StagedFiles(j) == {f \in Files : j.emitted[f] # NoEmission} \cup {j.main}

\* The EXISTS of the cache lookup and of cached_files_valid: a files row with
\* the staged metadata that owns the staged fingerprint.
HasFingerprint(d, j, f) ==
    /\ d.meta[f] = j.stamp[f]
    /\ j.emitted[f] \in d.prints[f]

\* UPDATE staging_files SET cached = 1 ...
CacheHits(d, j) ==
    {f \in StagedFiles(j) \ {j.main} : j.stamp[f] # 0 /\ HasFingerprint(d, j, f)}

\* cached_files_valid: every hit taken while staging is still one.
CachedFilesValid(d, j) == \A f \in j.cached : HasFingerprint(d, j, f)

----------------------------------------------------------------------------
(* merge_staging: the twelve statements in order                           *)

\* files_insert: files unknown to the variant get a row.
FilesInsert(d, j) ==
    [d EXCEPT !.meta = [f \in Files |->
        IF f \in StagedFiles(j) /\ d.meta[f] = Null THEN j.stamp[f] ELSE d.meta[f]]]

\* Mutant: the deletes forget "staging_files.is_main OR".
ReplacedByStamp(d, j) == {f \in StagedFiles(j) : d.meta[f] # j.stamp[f]}

\* The WHERE clause of the five deletes.
ReplacedFiles(d, j) ==
    {f \in StagedFiles(j) : f = j.main \/ d.meta[f] # j.stamp[f]}

\* Mutant: merge[5], fingerprints_delete, is missing.
DeleteRecordsOnly(d, j) ==
    [d EXCEPT
        !.records = [f \in Files |-> IF f \in ReplacedFiles(d, j) THEN {} ELSE d.records[f]],
        !.facts   = [f \in Files |-> IF f \in ReplacedFiles(d, j) THEN {} ELSE d.facts[f]]]

\* records_delete ... fingerprints_delete
DeleteReplaced(d, j) ==
    [d EXCEPT
        !.records = [f \in Files |-> IF f \in ReplacedFiles(d, j) THEN {} ELSE d.records[f]],
        !.facts   = [f \in Files |-> IF f \in ReplacedFiles(d, j) THEN {} ELSE d.facts[f]],
        !.prints  = [f \in Files |-> IF f \in ReplacedFiles(d, j) THEN {} ELSE d.prints[f]]]

\* files_update: staged metadata overwrites the row.
FilesUpdate(d, j) ==
    [d EXCEPT !.meta = [f \in Files |->
        IF f \in StagedFiles(j) THEN j.stamp[f] ELSE d.meta[f]]]

\* records_insert ... symbol_properties_insert, from what was staged.
RowsInsert(d, j) ==
    [d EXCEPT
        !.records = [f \in Files |->
            IF f \in j.loaded THEN InsertOrIgnore(d.records[f], j.emitted[f].rows)
                              ELSE d.records[f]],
        !.facts = [f \in Files |->
            IF f \in j.loaded THEN d.facts[f] \cup j.emitted[f].facts
                              ELSE d.facts[f]]]

\* fingerprints_insert: the main file has none.
FingerprintsInsert(d, j) ==
    [d EXCEPT !.prints = [f \in Files |->
        IF f \in StagedFiles(j) \ {j.main} THEN d.prints[f] \cup {j.emitted[f]}
                                           ELSE d.prints[f]]]

\* Mutants: no coalesce; a missing root stored as an empty string.
OverwriteVariantMetadata(d, j) == [d EXCEPT !.prov = j.prov]

StoreEmptyRoot(d, j) ==
    [d EXCEPT !.prov.root = IF j.prov.root # Null THEN j.prov.root ELSE ""]

\* store_variant_metadata: coalesce(excluded, stored) on both columns.
StoreVariantMetadata(d, j) ==
    [d EXCEPT !.prov =
        [commit |-> IF j.prov.commit # Null THEN j.prov.commit ELSE d.prov.commit,
         root   |-> IF j.prov.root # Null THEN j.prov.root ELSE d.prov.root]]

\* Mutant: files_update runs before the deletes.
MergeUpdatingFirst(d, j) ==
    StoreVariantMetadata(
        FingerprintsInsert(RowsInsert(DeleteReplaced(FilesUpdate(FilesInsert(d, j), j), j), j), j),
        j)

MergeStaging(d, j) ==
    LET d1 == FilesInsert(d, j)
        d2 == DeleteReplaced(d1, j)
        d3 == FilesUpdate(d2, j)
        d4 == RowsInsert(d3, j)
        d5 == FingerprintsInsert(d4, j)
    IN  StoreVariantMetadata(d5, j)

----------------------------------------------------------------------------
Init ==
    /\ disk = [f \in Files |-> 1]
    /\ clock = 1
    /\ db = [v \in Variants |-> EmptyDatabase]
    /\ lock = Null
    /\ pc = [w \in Writers |-> "new"]
    /\ job = [w \in Writers |-> Null]

TreeMayChange == EditsWhileParsed \/ \A w \in Writers : pc[w] # "parsed"

\* The user writes a file.
Edit(f) ==
    /\ clock < MaxStamp
    /\ TreeMayChange
    /\ clock' = clock + 1
    /\ disk' = [disk EXCEPT ![f] = clock + 1]
    /\ UNCHANGED <<db, lock, pc, job>>

\* The user removes a file: stat fails from now on.
Remove(f) ==
    /\ disk[f] # 0
    /\ TreeMayChange
    /\ disk' = [disk EXCEPT ![f] = 0]
    /\ UNCHANGED <<clock, db, lock, pc, job>>

\* What a file may contribute to a translation unit now.
Seen(m, f) ==
    IF disk[f] # 0 /\ f \in Includes(m) \cup {m} THEN Emit(m, f, disk[f]) ELSE {NoEmission}

\* The front end compiles a translation unit from the files as they are now
\* (a missing file contributes nothing) and produces a clean or partial index.
Parse(w, v, m, p) ==
    /\ pc[w] = "new"
    /\ disk[m] # 0
    /\ \E e \in [Files -> UNION {Seen(m, f) : f \in Files}] :
          /\ \A f \in Files : e[f] \in Seen(m, f)
          /\ job' = [job EXCEPT ![w] =
                [variant |-> v, main |-> m, emitted |-> e,
                 stamp |-> [f \in Files |-> 0], cached |-> {}, loaded |-> {},
                 retried |-> FALSE, prov |-> p]]
    /\ pc' = [pc EXCEPT ![w] = "parsed"]
    /\ UNCHANGED <<disk, clock, db, lock>>

\* The staging transaction: stat every file, look the fingerprints up in the
\* committed database, stage the rows of the files that missed.
Stage(w) ==
    /\ pc[w] = "parsed"
    /\ LET j == [job[w] EXCEPT !.stamp = disk]
           hits == CacheHits(db[j.variant], j)
       IN  job' = [job EXCEPT ![w] =
                [j EXCEPT !.cached = hits, !.loaded = StagedFiles(j) \ hits]]
    /\ pc' = [pc EXCEPT ![w] = "staged"]
    /\ UNCHANGED <<disk, clock, db, lock>>

\* Mutants: no second look at the hits; no ROLLBACK when they are stale.
BeginMergeUnchecked(w) ==
    /\ pc[w] = "staged"
    /\ lock = Null
    /\ lock' = w
    /\ pc' = [pc EXCEPT ![w] = "merging"]
    /\ UNCHANGED <<disk, clock, db, job>>

BeginMergeNoRollback(w) ==
    /\ pc[w] = "staged"
    /\ lock = Null
    /\ lock' = w
    /\ pc' = [pc EXCEPT ![w] =
          IF CachedFilesValid(db[job[w].variant], job[w]) THEN "merging" ELSE "stale"]
    /\ UNCHANGED <<disk, clock, db, job>>

\* BEGIN IMMEDIATE and cached_files_valid.  A stale hit rolls back; the first
\* time the caller stages again, the second time it gives up.
BeginMerge(w) ==
    /\ pc[w] = "staged"
    /\ lock = Null
    /\ IF CachedFilesValid(db[job[w].variant], job[w])
       THEN lock' = w /\ pc' = [pc EXCEPT ![w] = "merging"]
       ELSE /\ lock' = Null
            /\ pc' = [pc EXCEPT ![w] = IF job[w].retried THEN "failed" ELSE "stale"]
    /\ UNCHANGED <<disk, clock, db, job>>

\* The statements of merge_staging and COMMIT.
Commit(w) ==
    /\ pc[w] = "merging"
    /\ db' = [db EXCEPT ![job[w].variant] = MergeStaging(db[job[w].variant], job[w])]
    /\ lock' = Null
    /\ pc' = [pc EXCEPT ![w] = "done"]
    /\ UNCHANGED <<disk, clock, job>>

\* Mutants: cached[] is not cleared, so stage_records skips the same files;
\* staging_files.cached is not cleared.
RestageSkippingHits(w) ==
    /\ pc[w] = "stale"
    /\ job' = [job EXCEPT ![w] = [job[w] EXCEPT !.cached = {}, !.retried = TRUE]]
    /\ pc' = [pc EXCEPT ![w] = "staged"]
    /\ UNCHANGED <<disk, clock, db, lock>>

RestageKeepingHits(w) ==
    /\ pc[w] = "stale"
    /\ job' = [job EXCEPT ![w] =
          [job[w] EXCEPT !.loaded = StagedFiles(job[w]), !.retried = TRUE]]
    /\ pc' = [pc EXCEPT ![w] = "staged"]
    /\ UNCHANGED <<disk, clock, db, lock>>

\* The retry of index_db_store: forget the hits, stage every row.  The stamps
\* and fingerprints of the first staging stay.
Restage(w) ==
    /\ pc[w] = "stale"
    /\ job' = [job EXCEPT ![w] =
          [job[w] EXCEPT !.cached = {}, !.loaded = StagedFiles(job[w]), !.retried = TRUE]]
    /\ pc' = [pc EXCEPT ![w] = "staged"]
    /\ UNCHANGED <<disk, clock, db, lock>>

\* An SQL error (ROLLBACK, return -1) or the death of the process.
Abort(w) ==
    /\ pc[w] \in {"parsed", "staged", "merging", "stale"}
    /\ pc' = [pc EXCEPT ![w] = "failed"]
    /\ lock' = IF lock = w THEN Null ELSE lock
    /\ UNCHANGED <<disk, clock, db, job>>

WriterStep(w) == Stage(w) \/ BeginMerge(w) \/ Commit(w) \/ Restage(w)

Next ==
    \/ \E f \in Files : Edit(f) \/ Remove(f)
    \/ \E w \in Writers, v \in Variants, m \in Sources, p \in ProvenanceRows : Parse(w, v, m, p)
    \/ \E w \in Writers : WriterStep(w) \/ Abort(w)

Spec == Init /\ [][Next]_vars

\* A process that has parsed runs on: BUSY is retried for ever, and every
\* process stores once, so no writer can starve another.
FairSpec == Spec /\ \A w \in Writers : WF_vars(WriterStep(w))

----------------------------------------------------------------------------
(* Properties                                                              *)

\* The rows of an emission are in the database, at least by primary key.
Holds(d, f, e) ==
    /\ \A r \in e.rows : \E o \in d.records[f] : o.key = r.key
    /\ e.facts \subseteq d.facts[f]

\* A stored fingerprint vouches for its rows: whatever stages, merges,
\* replacements and retries have happened, every record an emission contains
\* is in the database as long as its fingerprint is (index_db_writer.c,
\* stage_files skips staging on the strength of this).
CacheSound ==
    \A v \in Variants, f \in Files : \A e \in db[v].prints[f] : Holds(db[v], f, e)

\* A merge that holds the write lock has no stale cache hit left, although the
\* hits were looked up before the lock was taken (merge_staging calls
\* cached_files_valid after BEGIN IMMEDIATE), and it has staged every file that
\* is not a hit.
HitsStillValid ==
    \A w \in Writers : pc[w] = "merging" =>
        /\ CachedFilesValid(db[job[w].variant], job[w])
        /\ StagedFiles(job[w]) = job[w].loaded \cup job[w].cached

\* The second attempt of index_db_store cannot be refused as stale, so one
\* retry is enough ("merge_staging(...) != 0" is then a real failure).
OneRetryIsEnough ==
    \A w \in Writers : (pc[w] = "staged" /\ job[w].retried) =>
        CachedFilesValid(db[job[w].variant], job[w])

\* When index_db_store succeeds the main file has exactly the rows this
\* translation unit emitted for it, and every other file has all of them,
\* including the ones that were never staged because of a cache hit.
StoreComplete ==
    [][\A w \in Writers : (pc[w] = "merging" /\ pc'[w] = "done") =>
          LET j == job[w]
              d == db'[j.variant]
          IN  /\ d.records[j.main] = j.emitted[j.main].rows
              /\ d.facts[j.main] = j.emitted[j.main].facts
              /\ \A f \in Files : Holds(d, f, j.emitted[f])]_vars

\* Every row of a file could have been emitted from the contents the files row
\* describes: rows of an older version of a file never stay behind a row with
\* newer metadata (the five deletes of merge_staging run before files_update).
RowsMatchMetadata ==
    \A v \in Variants, f \in Files : \A r \in db[v].records[f] :
        /\ db[v].meta[f] \in Nat
        /\ \E m \in Files : \E e \in Emit(m, f, db[v].meta[f]) : r \in e.rows

\* "When a physical file's modification time or size changes, its old records
\* in the current variant are removed before merging the new records": after a
\* store, every row of a file the translation unit includes could have been
\* emitted from the contents the store found on disk.
OldRecordsRemoved ==
    [][\A w \in Writers : (pc[w] = "merging" /\ pc'[w] = "done") =>
          LET j == job[w]
              d == db'[j.variant]
          IN  \A f \in Includes(j.main) : j.stamp[f] # 0 =>
                \A r \in d.records[f] :
                  \E m \in Files : \E e \in Emit(m, f, j.stamp[f]) : r \in e.rows]_vars

\* Every process that parsed a translation unit ends, with or without a retry
\* (exec_sql loops for as long as the database is busy).
StoresEnd ==
    \A w \in Writers : pc[w] = "parsed" ~> pc[w] \in {"done", "failed"}

----------------------------------------------------------------------------
(* The fingerprint cache, the staging tables and the retry are invisible:  *)
(* this module implements SymbolIndex.                                     *)

IndexView ==
    [v \in Variants |->
        [meta |-> db[v].meta, records |-> db[v].records,
         facts |-> db[v].facts, prov |-> db[v].prov]]

RequestView ==
    [w \in Writers |->
        IF pc[w] \in {"staged", "merging", "stale"}
        THEN {[variant |-> job[w].variant, main |-> job[w].main,
               emitted |-> job[w].emitted, stamp |-> job[w].stamp,
               prov |-> job[w].prov]}
        ELSE {}]

SI == INSTANCE SymbolIndex WITH index <- IndexView, request <- RequestView

\* Each step of a writer is a step of SymbolIndex or invisible to it: skipping
\* cached files stores exactly what storing all of them would have stored.
CacheIsTransparent == SI!ASpec
============================================================================
