------------------------- MODULE IndexStoreProofs -------------------------
(***************************************************************************)
(* What IndexStore guarantees for any number of writers, variants, files   *)
(* and edits, checked by TLAPS: the fingerprint cache is sound, a store is *)
(* complete, and the writer implements SymbolIndex.                        *)
(***************************************************************************)
EXTENDS IndexStore, TLAPS

USE NullAssumption, NullIsNoValue

----------------------------------------------------------------------------
(* The inductive invariant.                                                *)

Busy == {"staged", "merging", "stale"}

\* A process past the front end has a job.
JobStarted == \A w \in Writers : pc[w] # "new" => job[w] \in Jobs

\* The write lock is held by the one process that merges.
LockIsMerging == \A w \in Writers : lock = w <=> pc[w] = "merging"

\* TEMP tables and cache hits together cover what the translation unit
\* emitted; the main file is always staged.
StagingCovers ==
    \A w \in Writers : pc[w] \in Busy =>
        /\ StagedFiles(job[w]) = job[w].loaded \cup job[w].cached
        /\ job[w].main \notin job[w].cached

RetryHasNoHits ==
    \A w \in Writers : pc[w] \in Busy /\ job[w].retried => job[w].cached = {}

FirstTry == \A w \in Writers : pc[w] = "parsed" => ~job[w].retried

IInv ==
    /\ TypeOK
    /\ JobStarted
    /\ LockIsMerging
    /\ StagingCovers
    /\ RetryHasNoHits
    /\ FirstTry
    /\ CacheSound
    /\ HitsStillValid

----------------------------------------------------------------------------
(* Lemmas about the operators.                                             *)

\* No merge loses a key: INSERT OR IGNORE leaves a row for every key offered.
LEMMA InsertOrIgnoreCovers ==
    ASSUME NEW old, NEW new
    PROVE  /\ old \subseteq InsertOrIgnore(old, new)
           /\ \A r \in new : \E o \in InsertOrIgnore(old, new) : o.key = r.key
  BY DEF InsertOrIgnore

\* Offering rows whose keys are all present changes nothing.
LEMMA InsertOrIgnoreAbsorbs ==
    ASSUME NEW old, NEW new, \A r \in new : \E o \in old : o.key = r.key
    PROVE  InsertOrIgnore(old, new) = old
  BY DEF InsertOrIgnore

\* A file whose metadata already equals the staged one keeps its rows.
Replaces(d, j, f) ==
    /\ f \in StagedFiles(j)
    /\ f = j.main \/ d.meta[f] \notin {Null, j.stamp[f]}

\* A record with exactly the five tables of a database.
Shaped(d) ==
    d = [meta |-> d.meta, records |-> d.records, facts |-> d.facts,
         prints |-> d.prints, prov |-> d.prov]

\* A database is a record with these fields: what SMT needs to reason about EXCEPT.
LEMMA DatabaseShaped == \A d \in Databases : Shaped(d)
  BY DEF Databases, Shaped

\* What EXCEPT does to such a record, one lemma per group of tables.
LEMMA SetMeta ==
    ASSUME NEW d, Shaped(d), NEW x
    PROVE  [d EXCEPT !.meta = x] =
              [meta |-> x, records |-> d.records, facts |-> d.facts,
               prints |-> d.prints, prov |-> d.prov]
  BY DEF Shaped

\* The same for the records table: the other tables keep their values.
LEMMA SetRecords ==
    ASSUME NEW d, Shaped(d), NEW x, NEW y
    PROVE  [d EXCEPT !.records = x, !.facts = y] =
              [meta |-> d.meta, records |-> x, facts |-> y, prints |-> d.prints, prov |-> d.prov]
<1> DEFINE e == [d EXCEPT !.records = x]
<1>1. e = [meta |-> d.meta, records |-> x, facts |-> d.facts, prints |-> d.prints, prov |-> d.prov]
  BY DEF Shaped
<1>2. [d EXCEPT !.records = x, !.facts = y] = [e EXCEPT !.facts = y]
  BY Zenon
<1> HIDE DEF e
<1> QED BY <1>1, <1>2

\* The same for the three tables of types and properties.
LEMMA SetRows ==
    ASSUME NEW d, Shaped(d), NEW x, NEW y, NEW z
    PROVE  [d EXCEPT !.records = x, !.facts = y, !.prints = z] =
              [meta |-> d.meta, records |-> x, facts |-> y, prints |-> z, prov |-> d.prov]
<1> DEFINE e == [d EXCEPT !.records = x, !.facts = y]
<1>1. e = [meta |-> d.meta, records |-> x, facts |-> y, prints |-> d.prints, prov |-> d.prov]
  BY SetRecords
<1>2. [d EXCEPT !.records = x, !.facts = y, !.prints = z] = [e EXCEPT !.prints = z]
  BY Zenon
<1> HIDE DEF e
<1> QED BY <1>1, <1>2

\* The same for the fingerprints.
LEMMA SetPrints ==
    ASSUME NEW d, Shaped(d), NEW x
    PROVE  [d EXCEPT !.prints = x] =
              [meta |-> d.meta, records |-> d.records, facts |-> d.facts,
               prints |-> x, prov |-> d.prov]
  BY DEF Shaped

\* The same for the provenance of the variants.
LEMMA SetProv ==
    ASSUME NEW d, Shaped(d), NEW x
    PROVE  [d EXCEPT !.prov = x] =
              [meta |-> d.meta, records |-> d.records, facts |-> d.facts,
               prints |-> d.prints, prov |-> x]
  BY DEF Shaped

\* The tables after a merge: each is one function of the tables before it.
MergedMeta(d, j) ==
    [f \in Files |-> IF f \in StagedFiles(j) THEN j.stamp[f] ELSE d.meta[f]]

MergedRecords(d, j) ==
    [f \in Files |->
        IF f \in j.loaded
        THEN InsertOrIgnore(IF Replaces(d, j, f) THEN {} ELSE d.records[f], j.emitted[f].rows)
        ELSE IF Replaces(d, j, f) THEN {} ELSE d.records[f]]

MergedFacts(d, j) ==
    [f \in Files |->
        IF f \in j.loaded
        THEN (IF Replaces(d, j, f) THEN {} ELSE d.facts[f]) \cup j.emitted[f].facts
        ELSE IF Replaces(d, j, f) THEN {} ELSE d.facts[f]]

MergedPrints(d, j) ==
    [f \in Files |->
        IF f \in StagedFiles(j) \ {j.main}
        THEN (IF Replaces(d, j, f) THEN {} ELSE d.prints[f]) \cup {j.emitted[f]}
        ELSE IF Replaces(d, j, f) THEN {} ELSE d.prints[f]]

MergedProv(d, j) ==
    [commit |-> IF j.prov.commit # Null THEN j.prov.commit ELSE d.prov.commit,
     root   |-> IF j.prov.root # Null THEN j.prov.root ELSE d.prov.root]

\* The statements of merge_staging, collapsed into one assignment per table.
LEMMA MergeEffect ==
    ASSUME NEW d \in Databases, NEW j \in Jobs
    PROVE  MergeStaging(d, j) =
              [meta |-> MergedMeta(d, j), records |-> MergedRecords(d, j),
               facts |-> MergedFacts(d, j), prints |-> MergedPrints(d, j),
               prov |-> MergedProv(d, j)]
<1> DEFINE d1 == FilesInsert(d, j)
           d2 == DeleteReplaced(d1, j)
           d3 == FilesUpdate(d2, j)
           d4 == RowsInsert(d3, j)
           d5 == FingerprintsInsert(d4, j)
           gone(f) == Replaces(d, j, f)
<1>1. StagedFiles(j) \subseteq Files
  BY DEF StagedFiles, Jobs
<1>2. Shaped(d)
  BY DatabaseShaped
<1>3. /\ d1 = [meta |-> [f \in Files |-> IF f \in StagedFiles(j) /\ d.meta[f] = Null
                                         THEN j.stamp[f] ELSE d.meta[f]],
               records |-> d.records, facts |-> d.facts, prints |-> d.prints, prov |-> d.prov]
      /\ Shaped(d1)
  BY <1>2, SetMeta DEF FilesInsert, Shaped
<1> HIDE DEF d1
<1>4. \A f \in Files : f \in ReplacedFiles(d1, j) <=> gone(f)
  <2> SUFFICES ASSUME NEW f \in Files PROVE f \in ReplacedFiles(d1, j) <=> gone(f)
    OBVIOUS
  <2>1. d1.meta[f] = IF f \in StagedFiles(j) /\ d.meta[f] = Null THEN j.stamp[f] ELSE d.meta[f]
    BY <1>3
  <2> QED BY <1>1, <2>1 DEF ReplacedFiles, Replaces, Jobs
<1> HIDE DEF gone
<1>5. /\ d2 = [meta |-> d1.meta,
               records |-> [f \in Files |-> IF gone(f) THEN {} ELSE d.records[f]],
               facts   |-> [f \in Files |-> IF gone(f) THEN {} ELSE d.facts[f]],
               prints  |-> [f \in Files |-> IF gone(f) THEN {} ELSE d.prints[f]],
               prov |-> d.prov]
      /\ Shaped(d2)
  <2> DEFINE rs == [f \in Files |-> IF f \in ReplacedFiles(d1, j) THEN {} ELSE d1.records[f]]
             fs == [f \in Files |-> IF f \in ReplacedFiles(d1, j) THEN {} ELSE d1.facts[f]]
             ps == [f \in Files |-> IF f \in ReplacedFiles(d1, j) THEN {} ELSE d1.prints[f]]
  <2>1. /\ d1.records = d.records
        /\ d1.facts = d.facts
        /\ d1.prints = d.prints
        /\ d1.prov = d.prov
    BY <1>3
  <2>2. /\ rs = [f \in Files |-> IF gone(f) THEN {} ELSE d.records[f]]
        /\ fs = [f \in Files |-> IF gone(f) THEN {} ELSE d.facts[f]]
        /\ ps = [f \in Files |-> IF gone(f) THEN {} ELSE d.prints[f]]
    BY <1>4, <2>1
  <2>3. d2 = [d1 EXCEPT !.records = rs, !.facts = fs, !.prints = ps]
    BY DEF DeleteReplaced
  <2> HIDE DEF rs, fs, ps, d2
  <2>4. d2 = [meta |-> d1.meta, records |-> rs, facts |-> fs, prints |-> ps, prov |-> d1.prov]
    BY <1>3, <2>3, SetRows
  <2> QED BY <2>1, <2>2, <2>4 DEF Shaped
<1> HIDE DEF d2
<1>6. /\ d3 = [meta |-> MergedMeta(d, j),
               records |-> d2.records, facts |-> d2.facts, prints |-> d2.prints, prov |-> d.prov]
      /\ Shaped(d3)
  <2> DEFINE ms == [f \in Files |-> IF f \in StagedFiles(j) THEN j.stamp[f] ELSE d2.meta[f]]
  <2>1. d2.prov = d.prov /\ d2.meta = d1.meta
    BY <1>5
  <2>2. \A f \in Files : f \notin StagedFiles(j) => d2.meta[f] = d.meta[f]
    BY <1>3, <2>1
  <2>3. ms = MergedMeta(d, j)
    BY <2>2 DEF MergedMeta
  <2>4. d3 = [d2 EXCEPT !.meta = ms]
    BY DEF FilesUpdate
  <2> HIDE DEF ms, d3
  <2>5. d3 = [meta |-> ms, records |-> d2.records, facts |-> d2.facts,
              prints |-> d2.prints, prov |-> d2.prov]
    BY <1>5, <2>4, SetMeta
  <2> QED BY <2>1, <2>3, <2>5 DEF Shaped
<1> HIDE DEF d3
<1>7. /\ d4 = [meta |-> MergedMeta(d, j), records |-> MergedRecords(d, j),
               facts |-> MergedFacts(d, j), prints |-> d2.prints, prov |-> d.prov]
      /\ Shaped(d4)
  <2> DEFINE rs == [f \in Files |->
                      IF f \in j.loaded THEN InsertOrIgnore(d3.records[f], j.emitted[f].rows)
                                        ELSE d3.records[f]]
             fs == [f \in Files |->
                      IF f \in j.loaded THEN d3.facts[f] \cup j.emitted[f].facts
                                        ELSE d3.facts[f]]
  <2>1. \A f \in Files :
           /\ d3.records[f] = IF gone(f) THEN {} ELSE d.records[f]
           /\ d3.facts[f] = IF gone(f) THEN {} ELSE d.facts[f]
    BY <1>5, <1>6
  <2>2. rs = MergedRecords(d, j) /\ fs = MergedFacts(d, j)
    BY <2>1 DEF MergedRecords, MergedFacts, gone
  <2>3. d4 = [d3 EXCEPT !.records = rs, !.facts = fs]
    BY DEF RowsInsert
  <2>4. d3.meta = MergedMeta(d, j) /\ d3.prints = d2.prints /\ d3.prov = d.prov
    BY <1>6
  <2> HIDE DEF rs, fs, d4
  <2>5. d4 = [meta |-> d3.meta, records |-> rs, facts |-> fs, prints |-> d3.prints,
              prov |-> d3.prov]
    BY <1>6, <2>3, SetRecords
  <2> QED BY <2>2, <2>4, <2>5 DEF Shaped
<1> HIDE DEF d4
<1>8. /\ d5 = [meta |-> MergedMeta(d, j), records |-> MergedRecords(d, j),
               facts |-> MergedFacts(d, j), prints |-> MergedPrints(d, j), prov |-> d.prov]
      /\ Shaped(d5)
  <2> DEFINE ps == [f \in Files |->
                      IF f \in StagedFiles(j) \ {j.main} THEN d4.prints[f] \cup {j.emitted[f]}
                                                         ELSE d4.prints[f]]
  <2>1. \A f \in Files : d4.prints[f] = IF gone(f) THEN {} ELSE d.prints[f]
    BY <1>5, <1>7
  <2>2. ps = MergedPrints(d, j)
    BY <2>1 DEF MergedPrints, gone
  <2>3. d5 = [d4 EXCEPT !.prints = ps]
    BY DEF FingerprintsInsert
  <2>4. /\ d4.meta = MergedMeta(d, j)
        /\ d4.records = MergedRecords(d, j)
        /\ d4.facts = MergedFacts(d, j)
        /\ d4.prov = d.prov
    BY <1>7
  <2> HIDE DEF ps, d5
  <2>5. d5 = [meta |-> d4.meta, records |-> d4.records, facts |-> d4.facts, prints |-> ps,
              prov |-> d4.prov]
    BY <1>7, <2>3, SetPrints
  <2> QED BY <2>2, <2>4, <2>5 DEF Shaped
<1> HIDE DEF d5
<1>9. MergeStaging(d, j) = StoreVariantMetadata(d5, j)
  BY DEF MergeStaging, d1, d2, d3, d4, d5
<1>10. d5.prov = d.prov
  BY <1>8
<1>11. StoreVariantMetadata(d5, j) = [d5 EXCEPT !.prov = MergedProv(d, j)]
  BY <1>10 DEF StoreVariantMetadata, MergedProv
<1> QED BY <1>8, <1>9, <1>11, SetProv

----------------------------------------------------------------------------
(* What one merge preserves and establishes.                               *)

\* A merge of a well-typed job into a well-typed database gives one (merge_staging).
LEMMA MergeType ==
    ASSUME NEW d \in Databases, NEW j \in Jobs
    PROVE  MergeStaging(d, j) \in Databases
<1>1. MergedMeta(d, j) \in [Files -> Nat \cup {Null}]
  BY DEF MergedMeta, Databases, Jobs
<1>2. \A f \in Files : /\ j.emitted[f] \in Emissions
                       /\ j.emitted[f].rows \subseteq Rows
                       /\ j.emitted[f].facts \subseteq Facts
  BY DEF Jobs, Emissions
<1>3. MergedRecords(d, j) \in [Files -> SUBSET Rows]
  BY <1>2 DEF MergedRecords, Databases, InsertOrIgnore
<1>4. MergedFacts(d, j) \in [Files -> SUBSET Facts]
  BY <1>2 DEF MergedFacts, Databases
<1>5. MergedPrints(d, j) \in [Files -> SUBSET Emissions]
  BY <1>2 DEF MergedPrints, Databases
<1>6. MergedProv(d, j) \in ProvenanceRows
  BY DEF MergedProv, Databases, Jobs, ProvenanceRows
<1> QED BY <1>1, <1>3, <1>4, <1>5, <1>6, MergeEffect DEF Databases

\* What BeginMerge establishes and the write lock keeps until COMMIT.
ReadyToMerge(d, j) ==
    /\ CachedFilesValid(d, j)
    /\ StagedFiles(j) = j.loaded \cup j.cached
    /\ j.main \notin j.cached

Sound(d) == \A f \in Files : \A e \in d.prints[f] : Holds(d, f, e)

\* A cache hit that is valid under the lock is not among the deleted files.
LEMMA HitsAreKept ==
    ASSUME NEW d \in Databases, NEW j \in Jobs, ReadyToMerge(d, j), NEW f \in j.cached
    PROVE  ~Replaces(d, j, f) /\ j.emitted[f] \in d.prints[f]
<1>1. f # j.main /\ HasFingerprint(d, j, f)
  BY DEF ReadyToMerge, CachedFilesValid
<1> QED BY <1>1 DEF HasFingerprint, Replaces

\* Rows that are not deleted stay, and staged rows arrive.
LEMMA MergeKeeps ==
    ASSUME NEW d \in Databases, NEW j \in Jobs, NEW f \in Files,
           ~Replaces(d, j, f), NEW e, Holds(d, f, e)
    PROVE  Holds(MergeStaging(d, j), f, e)
<1>1. d.records[f] \subseteq MergedRecords(d, j)[f]
  BY DEF MergedRecords, InsertOrIgnore
<1>2. d.facts[f] \subseteq MergedFacts(d, j)[f]
  BY DEF MergedFacts
<1>3. /\ MergeStaging(d, j).records = MergedRecords(d, j)
      /\ MergeStaging(d, j).facts = MergedFacts(d, j)
  BY MergeEffect
<1> QED BY <1>1, <1>2, <1>3 DEF Holds

\* What merge_staging inserts is there after the merge, unless its key was taken.
LEMMA MergeAdds ==
    ASSUME NEW d \in Databases, NEW j \in Jobs, NEW f \in Files, f \in j.loaded
    PROVE  Holds(MergeStaging(d, j), f, j.emitted[f])
<1> DEFINE old == IF Replaces(d, j, f) THEN {} ELSE d.records[f]
<1>1. MergedRecords(d, j)[f] = InsertOrIgnore(old, j.emitted[f].rows)
  BY DEF MergedRecords
<1>2. j.emitted[f].facts \subseteq MergedFacts(d, j)[f]
  BY DEF MergedFacts
<1>3. \A r \in j.emitted[f].rows : \E o \in MergedRecords(d, j)[f] : o.key = r.key
  BY <1>1, InsertOrIgnoreCovers
<1>4. /\ MergeStaging(d, j).records = MergedRecords(d, j)
      /\ MergeStaging(d, j).facts = MergedFacts(d, j)
  BY MergeEffect
<1> QED BY <1>2, <1>3, <1>4 DEF Holds

\* After a merge every row the front end emitted is stored, staged or not.
LEMMA MergeCompletes ==
    ASSUME NEW d \in Databases, NEW j \in Jobs, Sound(d), ReadyToMerge(d, j), NEW f \in Files
    PROVE  Holds(MergeStaging(d, j), f, j.emitted[f])
<1>1. CASE f \in j.loaded
  BY <1>1, MergeAdds
<1>2. CASE f \in j.cached
  BY <1>2, HitsAreKept, MergeKeeps DEF Sound
<1>3. CASE f \notin j.loaded \cup j.cached
  <2>1. j.emitted[f] = NoEmission
    BY <1>3 DEF ReadyToMerge, StagedFiles
  <2> QED BY <2>1 DEF Holds, NoEmission
<1> QED BY <1>1, <1>2, <1>3

\* A merge leaves no fingerprint that vouches for rows it removed.
LEMMA MergeSound ==
    ASSUME NEW d \in Databases, NEW j \in Jobs, Sound(d), ReadyToMerge(d, j)
    PROVE  Sound(MergeStaging(d, j))
<1> SUFFICES ASSUME NEW f \in Files, NEW e \in MergeStaging(d, j).prints[f]
             PROVE  Holds(MergeStaging(d, j), f, e)
  BY DEF Sound
<1>1. e \in MergedPrints(d, j)[f]
  BY MergeEffect
<1>2. \/ ~Replaces(d, j, f) /\ e \in d.prints[f]
      \/ e = j.emitted[f]
  BY <1>1 DEF MergedPrints
<1>3. CASE ~Replaces(d, j, f) /\ e \in d.prints[f]
  BY <1>3, MergeKeeps DEF Sound
<1>4. CASE e = j.emitted[f]
  BY <1>4, MergeCompletes
<1> QED BY <1>2, <1>3, <1>4

\* The main file ends up with exactly what this translation unit emitted.
LEMMA MergeReplacesMain ==
    ASSUME NEW d \in Databases, NEW j \in Jobs, ReadyToMerge(d, j)
    PROVE  /\ MergeStaging(d, j).records[j.main] = j.emitted[j.main].rows
           /\ MergeStaging(d, j).facts[j.main] = j.emitted[j.main].facts
<1>1. j.main \in Files /\ j.main \in StagedFiles(j)
  BY DEF StagedFiles, Jobs
<1>2. j.main \in j.loaded /\ Replaces(d, j, j.main)
  BY <1>1 DEF ReadyToMerge, Replaces
<1>3. MergedRecords(d, j)[j.main] = InsertOrIgnore({}, j.emitted[j.main].rows)
  BY <1>1, <1>2 DEF MergedRecords
<1>4. MergedFacts(d, j)[j.main] = j.emitted[j.main].facts
  BY <1>1, <1>2 DEF MergedFacts
<1>5. InsertOrIgnore({}, j.emitted[j.main].rows) = j.emitted[j.main].rows
  BY DEF InsertOrIgnore
<1> QED BY <1>3, <1>4, <1>5, MergeEffect

----------------------------------------------------------------------------
(* The invariant is inductive.                                             *)

\* The invariant holds of the fresh database of init_schema.
LEMMA InitInv == Init => IInv
<1> SUFFICES ASSUME Init PROVE IInv
  OBVIOUS
<1>1. EmptyDatabase \in Databases
  BY DEF EmptyDatabase, Databases, ProvenanceRows
<1>2. TypeOK
  BY <1>1, BoundAssumption DEF Init, TypeOK, Phases, Stamps
<1>3. CacheSound
  BY DEF Init, CacheSound, EmptyDatabase
<1>4. JobStarted /\ LockIsMerging /\ StagingCovers /\ RetryHasNoHits /\ FirstTry /\ HitsStillValid
  BY DEF Init, JobStarted, LockIsMerging, StagingCovers, RetryHasNoHits, FirstTry,
         HitsStillValid, Busy
<1> QED BY <1>2, <1>3, <1>4 DEF IInv

\* Edits touch neither the database nor a process.
LEMMA TreeInv ==
    ASSUME IInv, NEW f \in Files, Edit(f) \/ Remove(f)
    PROVE  IInv'
<1>1. UNCHANGED <<db, lock, pc, job>>
  BY DEF Edit, Remove
<1>2. TypeOK'
  <2>1. CASE Edit(f)
    BY <2>1, BoundAssumption DEF IInv, TypeOK, Edit, Stamps
  <2>2. CASE Remove(f)
    BY <2>2 DEF IInv, TypeOK, Remove
  <2> QED BY <2>1, <2>2
<1> QED BY <1>1, <1>2 DEF IInv, JobStarted, LockIsMerging, StagingCovers, RetryHasNoHits, FirstTry,
            CacheSound, HitsStillValid

\* A step of one process that leaves the database alone: what is left to show
\* is about that process only.
LEMMA LocalStep ==
    ASSUME IInv, TypeOK', NEW w \in Writers, db' = db,
           \A u \in Writers \ {w} : pc'[u] = pc[u] /\ job'[u] = job[u],
           LockIsMerging',
           pc'[w] # "new" => job'[w] \in Jobs,
           pc'[w] \in Busy => /\ StagedFiles(job'[w]) = job'[w].loaded \cup job'[w].cached
                              /\ job'[w].main \notin job'[w].cached
                              /\ job'[w].retried => job'[w].cached = {},
           pc'[w] = "parsed" => ~job'[w].retried,
           pc'[w] = "merging" => CachedFilesValid(db[job'[w].variant], job'[w])
    PROVE  IInv'
<1> USE DEF IInv
<1>1. JobStarted'
  BY DEF JobStarted
<1>2. StagingCovers'
  <2> SUFFICES ASSUME NEW u \in Writers, pc'[u] \in Busy
               PROVE  /\ StagedFiles(job'[u]) = job'[u].loaded \cup job'[u].cached
                      /\ job'[u].main \notin job'[u].cached
    BY DEF StagingCovers, StagedFiles
  <2> QED BY DEF StagingCovers
<1>3. RetryHasNoHits'
  BY DEF RetryHasNoHits
<1>4. FirstTry'
  BY DEF FirstTry
<1>5. CacheSound'
  BY DEF CacheSound
<1>6. HitsStillValid'
  <2> SUFFICES ASSUME NEW u \in Writers, pc'[u] = "merging"
               PROVE  /\ CachedFilesValid(db[job'[u].variant], job'[u])
                      /\ StagedFiles(job'[u]) = job'[u].loaded \cup job'[u].cached
    BY DEF HitsStillValid, CachedFilesValid, HasFingerprint, StagedFiles
  <2> QED BY DEF HitsStillValid, Busy
<1> QED BY <1>1, <1>2, <1>3, <1>4, <1>5, <1>6

\* A parsed job emits what its files held, and holds no lock (index_pipeline_run).
LEMMA ParseInv ==
    ASSUME IInv, NEW w \in Writers, NEW v \in Variants, NEW m \in Sources,
           NEW p \in ProvenanceRows, Parse(w, v, m, p)
    PROVE  IInv'
<1>1. PICK e \in [Files -> UNION {Seen(m, f) : f \in Files}] :
         /\ \A f \in Files : e[f] \in Seen(m, f)
         /\ job' = [job EXCEPT ![w] =
               [variant |-> v, main |-> m, emitted |-> e,
                stamp |-> [f \in Files |-> 0], cached |-> {}, loaded |-> {},
                retried |-> FALSE, prov |-> p]]
  BY DEF Parse
<1>2. m \in Files
  BY SourcesAssumption
<1>3. e \in [Files -> Emissions]
  <2> SUFFICES ASSUME NEW f \in Files PROVE e[f] \in Emissions
    BY <1>1
  <2>1. NoEmission \in Emissions
    BY DEF NoEmission, Emissions
  <2>2. disk[f] # 0 => disk[f] \in Stamps
    BY DEF IInv, TypeOK
  <2> QED BY <1>1, <1>2, <2>1, <2>2, EmitAssumption DEF Seen
<1>4. job'[w] \in Jobs /\ ~job'[w].retried /\ job'[w] = [variant |-> v, main |-> m, emitted |-> e,
                stamp |-> [f \in Files |-> 0], cached |-> {}, loaded |-> {},
                retried |-> FALSE, prov |-> p]
  BY <1>1, <1>2, <1>3 DEF IInv, TypeOK, Jobs
<1>5. pc' = [pc EXCEPT ![w] = "parsed"] /\ pc[w] = "new" /\ UNCHANGED <<disk, clock, db, lock>>
  BY DEF Parse
<1>6. TypeOK'
  BY <1>1, <1>4, <1>5 DEF IInv, TypeOK, Phases
<1>7. LockIsMerging'
  BY <1>5 DEF IInv, TypeOK, LockIsMerging
<1>8. pc'[w] = "parsed"
  BY <1>5 DEF IInv, TypeOK
<1>9. \A u \in Writers \ {w} : pc'[u] = pc[u] /\ job'[u] = job[u]
  BY <1>1, <1>5 DEF IInv, TypeOK
<1> QED BY <1>4, <1>5, <1>6, <1>7, <1>8, <1>9, LocalStep DEF Busy

\* Staging marks only valid hits and stages every other file (stage_files).
LEMMA StageInv ==
    ASSUME IInv, NEW w \in Writers, Stage(w)
    PROVE  IInv'
<1> DEFINE j == [job[w] EXCEPT !.stamp = disk]
           hits == CacheHits(db[j.variant], j)
           k == [j EXCEPT !.cached = hits, !.loaded = StagedFiles(j) \ hits]
<1>1. /\ job[w] \in Jobs /\ ~job[w].retried /\ pc[w] = "parsed"
      /\ pc' = [pc EXCEPT ![w] = "staged"] /\ job' = [job EXCEPT ![w] = k]
      /\ UNCHANGED <<disk, clock, db, lock>>
  BY DEF Stage, IInv, JobStarted, FirstTry
<1>2. disk \in [Files -> Nat]
  BY BoundAssumption DEF IInv, TypeOK, Stamps
<1>3. j \in Jobs /\ ~j.retried
  BY <1>1, <1>2 DEF Jobs
<1> HIDE DEF j
<1>4. hits \subseteq StagedFiles(j) \ {j.main} /\ StagedFiles(j) \subseteq Files
  BY <1>3 DEF CacheHits, StagedFiles, Jobs
<1> HIDE DEF hits
<1>5. /\ k \in Jobs /\ k.cached = hits /\ k.loaded = StagedFiles(j) \ hits
      /\ k.main = j.main /\ k.emitted = j.emitted /\ k.retried = j.retried
  BY <1>3, <1>4 DEF Jobs
<1> HIDE DEF k
<1>6. StagedFiles(k) = StagedFiles(j)
  BY <1>5 DEF StagedFiles
<1>7. job'[w] = k /\ pc'[w] = "staged" /\ \A u \in Writers \ {w} : pc'[u] = pc[u] /\ job'[u] = job[u]
  BY <1>1 DEF IInv, TypeOK
<1>8. TypeOK'
  BY <1>1, <1>5 DEF IInv, TypeOK, Phases
<1>9. LockIsMerging'
  BY <1>1 DEF IInv, TypeOK, LockIsMerging
<1>10. StagedFiles(k) = k.loaded \cup k.cached /\ k.main \notin k.cached /\ ~k.retried
  BY <1>3, <1>4, <1>5, <1>6
<1> QED BY <1>1, <1>5, <1>7, <1>8, <1>9, <1>10, LocalStep

\* The lock is given only to a job without stale hits; a stale one gives it back.
LEMMA BeginMergeInv ==
    ASSUME IInv, NEW w \in Writers, BeginMerge(w)
    PROVE  IInv'
<1>1. /\ job[w] \in Jobs /\ pc[w] = "staged" /\ lock = Null
      /\ UNCHANGED <<disk, clock, db, job>>
  BY DEF BeginMerge, IInv, JobStarted
<1>2. /\ StagedFiles(job[w]) = job[w].loaded \cup job[w].cached
      /\ job[w].main \notin job[w].cached
      /\ job[w].retried => job[w].cached = {}
  BY <1>1 DEF IInv, StagingCovers, RetryHasNoHits, Busy
<1>3. CASE CachedFilesValid(db[job[w].variant], job[w])
  <2>1. lock' = w /\ pc' = [pc EXCEPT ![w] = "merging"]
    BY <1>3 DEF BeginMerge
  <2>2. TypeOK'
    BY <1>1, <2>1 DEF IInv, TypeOK, Phases
  <2>3. LockIsMerging'
    BY <1>1, <2>1 DEF IInv, TypeOK, LockIsMerging
  <2>4. pc'[w] = "merging" /\ \A u \in Writers \ {w} : pc'[u] = pc[u]
    BY <2>1 DEF IInv, TypeOK
  <2> QED BY <1>1, <1>2, <1>3, <2>2, <2>3, <2>4, LocalStep
<1>4. CASE ~CachedFilesValid(db[job[w].variant], job[w])
  <2>1. /\ lock' = Null
        /\ pc' = [pc EXCEPT ![w] = IF job[w].retried THEN "failed" ELSE "stale"]
    BY <1>4 DEF BeginMerge
  <2>2. TypeOK'
    BY <1>1, <2>1 DEF IInv, TypeOK, Phases
  <2>3. LockIsMerging'
    BY <1>1, <2>1 DEF IInv, TypeOK, LockIsMerging
  <2>4. pc'[w] \in {"failed", "stale"} /\ \A u \in Writers \ {w} : pc'[u] = pc[u]
    BY <2>1 DEF IInv, TypeOK
  <2> QED BY <1>1, <1>2, <2>2, <2>3, <2>4, LocalStep
<1> QED BY <1>3, <1>4

\* The retry stages everything, so it has no hit that could be stale (index_db_store).
LEMMA RestageInv ==
    ASSUME IInv, NEW w \in Writers, Restage(w)
    PROVE  IInv'
<1> DEFINE k == [job[w] EXCEPT !.cached = {}, !.loaded = StagedFiles(job[w]), !.retried = TRUE]
<1>1. /\ job[w] \in Jobs /\ pc[w] = "stale" /\ job' = [job EXCEPT ![w] = k]
      /\ pc' = [pc EXCEPT ![w] = "staged"] /\ UNCHANGED <<disk, clock, db, lock>>
  BY DEF Restage, IInv, JobStarted
<1>2. StagedFiles(job[w]) \subseteq Files
  BY <1>1 DEF StagedFiles, Jobs
<1>3. /\ k \in Jobs /\ k.cached = {} /\ k.loaded = StagedFiles(job[w])
      /\ k.main = job[w].main /\ k.emitted = job[w].emitted
  BY <1>1, <1>2 DEF Jobs
<1> HIDE DEF k
<1>4. StagedFiles(k) = k.loaded \cup k.cached
  BY <1>3 DEF StagedFiles
<1>5. TypeOK'
  BY <1>1, <1>3 DEF IInv, TypeOK, Phases
<1>6. LockIsMerging'
  BY <1>1 DEF IInv, TypeOK, LockIsMerging
<1>7. job'[w] = k /\ pc'[w] = "staged" /\ \A u \in Writers \ {w} : pc'[u] = pc[u] /\ job'[u] = job[u]
  BY <1>1 DEF IInv, TypeOK
<1> QED BY <1>1, <1>3, <1>4, <1>5, <1>6, <1>7, LocalStep

\* A store that fails rolls back: the database is as it was.
LEMMA AbortInv ==
    ASSUME IInv, NEW w \in Writers, Abort(w)
    PROVE  IInv'
<1>1. /\ pc[w] # "new" /\ pc' = [pc EXCEPT ![w] = "failed"]
      /\ lock' = (IF lock = w THEN Null ELSE lock) /\ UNCHANGED <<disk, clock, db, job>>
  BY DEF Abort
<1>2. TypeOK'
  BY <1>1 DEF IInv, TypeOK, Phases
<1>3. LockIsMerging'
  BY <1>1 DEF IInv, TypeOK, LockIsMerging
<1>4. pc'[w] = "failed" /\ \A u \in Writers \ {w} : pc'[u] = pc[u]
  BY <1>1 DEF IInv, TypeOK
<1>5. job[w] \in Jobs
  BY <1>1 DEF IInv, JobStarted
<1> QED BY <1>1, <1>2, <1>3, <1>4, <1>5, LocalStep DEF Busy

\* The job of the process that holds the write lock is ready.
LEMMA MergingIsReady ==
    ASSUME IInv, NEW w \in Writers, pc[w] = "merging"
    PROVE  /\ job[w] \in Jobs
           /\ db[job[w].variant] \in Databases
           /\ Sound(db[job[w].variant])
           /\ ReadyToMerge(db[job[w].variant], job[w])
<1>1. job[w] \in Jobs
  BY DEF IInv, JobStarted
<1>2. job[w].variant \in Variants
  BY <1>1 DEF Jobs
<1>3. db[job[w].variant] \in Databases
  BY <1>2 DEF IInv, TypeOK
<1>4. Sound(db[job[w].variant])
  BY <1>2 DEF IInv, CacheSound, Sound
<1>5. ReadyToMerge(db[job[w].variant], job[w])
  BY DEF IInv, HitsStillValid, StagingCovers, Busy, ReadyToMerge
<1> QED BY <1>1, <1>3, <1>4, <1>5

\* A commit replaces the database by the merge of a ready job.
LEMMA CommitInv ==
    ASSUME IInv, NEW w \in Writers, Commit(w)
    PROVE  IInv'
<1> DEFINE v == job[w].variant
           d == MergeStaging(db[v], job[w])
<1>1. /\ pc[w] = "merging" /\ db' = [db EXCEPT ![v] = d] /\ lock' = Null
      /\ pc' = [pc EXCEPT ![w] = "done"] /\ UNCHANGED <<disk, clock, job>>
  BY DEF Commit
<1>2. /\ job[w] \in Jobs /\ db[v] \in Databases /\ Sound(db[v]) /\ ReadyToMerge(db[v], job[w])
  BY <1>1, MergingIsReady
<1>3. d \in Databases /\ Sound(d)
  BY <1>2, MergeType, MergeSound
<1>4. v \in Variants
  BY <1>2 DEF Jobs
<1> HIDE DEF d, v
<1>5. pc'[w] = "done" /\ \A u \in Writers \ {w} : pc'[u] = pc[u]
  BY <1>1 DEF IInv, TypeOK
<1>6. \A u \in Writers \ {w} : pc[u] # "merging"
  BY <1>1 DEF IInv, LockIsMerging
<1>7. TypeOK'
  BY <1>1, <1>3, <1>4 DEF IInv, TypeOK, Phases
<1>8. LockIsMerging'
  BY <1>1, <1>5, <1>6 DEF LockIsMerging
<1>9. CacheSound'
  <2>1. \A x \in Variants : Sound(db'[x])
    BY <1>1, <1>3, <1>4 DEF IInv, TypeOK, CacheSound, Sound
  <2> QED BY <2>1 DEF CacheSound, Sound, Holds
<1>10. JobStarted' /\ StagingCovers' /\ RetryHasNoHits' /\ FirstTry'
  <2>1. /\ \A u \in Writers : pc'[u] # "new" => pc[u] # "new"
        /\ \A u \in Writers : pc'[u] \in Busy => pc[u] \in Busy
        /\ \A u \in Writers : pc'[u] = "parsed" => pc[u] = "parsed"
    BY <1>1, <1>5 DEF Busy
  <2> QED BY <1>1, <2>1 DEF IInv, JobStarted, StagingCovers, RetryHasNoHits, FirstTry, StagedFiles
<1>11. HitsStillValid'
  BY <1>5, <1>6 DEF HitsStillValid
<1> QED BY <1>7, <1>8, <1>9, <1>10, <1>11 DEF IInv

\* Every step of every process, and every edit, preserves the invariant.
LEMMA NextInv == IInv /\ [Next]_vars => IInv'
<1> SUFFICES ASSUME IInv, [Next]_vars PROVE IInv'
  OBVIOUS
<1>1. CASE \E f \in Files : Edit(f) \/ Remove(f)
  BY <1>1, TreeInv
<1>2. CASE \E w \in Writers, v \in Variants, m \in Sources, p \in ProvenanceRows :
              Parse(w, v, m, p)
  BY <1>2, ParseInv
<1>3. ASSUME NEW w \in Writers, WriterStep(w) \/ Abort(w) PROVE IInv'
  BY <1>3, StageInv, BeginMergeInv, CommitInv, RestageInv, AbortInv DEF WriterStep
<1>4. CASE UNCHANGED vars
  BY <1>4 DEF vars, IInv, TypeOK, JobStarted, LockIsMerging, StagingCovers, RetryHasNoHits,
              FirstTry, CacheSound, HitsStillValid, StagedFiles, Holds, CachedFilesValid,
              HasFingerprint
<1> QED BY <1>1, <1>2, <1>3, <1>4 DEF Next

\* The invariant of every reachable state of the writer.
THEOREM Invariant == Spec => []IInv
<1> QED BY InitInv, NextInv, PTL DEF Spec

\* Every reachable state is well typed.
THEOREM TypeCorrect == Spec => []TypeOK
<1>1. IInv => TypeOK
  BY DEF IInv
<1> QED BY <1>1, Invariant, PTL

\* A stored fingerprint never vouches for rows that are not in the database
\* (stage_files skips staging on the strength of it).
THEOREM CacheIsSound == Spec => []CacheSound
<1>1. IInv => CacheSound
  BY DEF IInv
<1> QED BY <1>1, Invariant, PTL

\* The process that holds the write lock has no stale cache hit (merge_staging).
THEOREM NoStaleHitIsMerged == Spec => []HitsStillValid
<1>1. IInv => HitsStillValid
  BY DEF IInv
<1> QED BY <1>1, Invariant, PTL

\* The one retry of index_db_store is never refused as stale.
THEOREM RetrySucceeds == Spec => []OneRetryIsEnough
<1>1. IInv => OneRetryIsEnough
  BY DEF IInv, RetryHasNoHits, Busy, OneRetryIsEnough, CachedFilesValid
<1> QED BY <1>1, Invariant, PTL

\* Only Commit takes a process from merging to done.
LEMMA OnlyCommitStores ==
    ASSUME IInv, [Next]_vars, NEW w \in Writers, pc[w] = "merging", pc'[w] = "done"
    PROVE  Commit(w)
<1>1. \A f \in Files : ~(Edit(f) \/ Remove(f))
  BY DEF Edit, Remove
<1>2. \A u \in Writers, v \in Variants, m \in Sources, p \in ProvenanceRows :
         ~Parse(u, v, m, p)
  BY DEF Parse, IInv, TypeOK
<1>3. \A u \in Writers : ~(Stage(u) \/ BeginMerge(u) \/ Restage(u) \/ Abort(u))
  BY DEF Stage, BeginMerge, Restage, Abort, IInv, TypeOK
<1>4. \A u \in Writers : Commit(u) => u = w
  BY DEF Commit, IInv, LockIsMerging
<1>5. pc' # pc
  OBVIOUS
<1> QED BY <1>1, <1>2, <1>3, <1>4, <1>5 DEF Next, WriterStep, vars

\* A successful index_db_store leaves the main file with exactly the rows of
\* this translation unit and every other file with all of them.
THEOREM StoresAreComplete == Spec => StoreComplete
<1> DEFINE Complete ==
       \A w \in Writers : (pc[w] = "merging" /\ pc'[w] = "done") =>
          LET j == job[w]
              d == db'[j.variant]
          IN  /\ d.records[j.main] = j.emitted[j.main].rows
              /\ d.facts[j.main] = j.emitted[j.main].facts
              /\ \A f \in Files : Holds(d, f, j.emitted[f])
<1>1. IInv /\ [Next]_vars => Complete
  <2> SUFFICES ASSUME IInv, [Next]_vars, NEW w \in Writers, pc[w] = "merging", pc'[w] = "done"
               PROVE  /\ db'[job[w].variant].records[job[w].main] = job[w].emitted[job[w].main].rows
                      /\ db'[job[w].variant].facts[job[w].main] = job[w].emitted[job[w].main].facts
                      /\ \A f \in Files : Holds(db'[job[w].variant], f, job[w].emitted[f])
    BY DEF Holds
  <2> DEFINE d == db[job[w].variant]
  <2>1. job[w] \in Jobs /\ d \in Databases /\ Sound(d) /\ ReadyToMerge(d, job[w])
    BY MergingIsReady
  <2>2. db' = [db EXCEPT ![job[w].variant] = MergeStaging(d, job[w])]
    BY OnlyCommitStores DEF Commit
  <2>3. db'[job[w].variant] = MergeStaging(d, job[w])
    BY <2>1, <2>2 DEF Jobs, IInv, TypeOK
  <2> HIDE DEF d
  <2> QED BY <2>1, <2>3, MergeCompletes, MergeReplacesMain
<1>2. IInv /\ [Next]_vars => [Complete]_vars
  BY <1>1
<1> HIDE DEF Complete
<1>3. Spec => [][Complete]_vars
  BY <1>2, Invariant, PTL DEF Spec
<1> QED BY <1>3 DEF StoreComplete, Complete

----------------------------------------------------------------------------
(* Rows and the metadata beside them.                                      *)

\* A row is one of those the front end may emit for contents s of the file.
Emitted(f, s, r) == \E m \in Files : \E e \in Emit(m, f, s) : r \in e.rows

\* The rows of one database belong to the contents its files rows describe.
Current(d) ==
    \A f \in Files : \A r \in d.records[f] : d.meta[f] \in Nat /\ Emitted(f, d.meta[f], r)

\* What a translation unit emitted for every file belongs to the stamps s.
Truthful(j, s) == \A f \in Files : \A r \in j.emitted[f].rows : Emitted(f, s[f], r)

\* From the parse to the stat the stamps are those on disk; afterwards those
\* that were staged, whatever happens to the files.
JobsAreTruthful ==
    \A w \in Writers :
        /\ pc[w] = "parsed" => Truthful(job[w], disk)
        /\ pc[w] \in Busy => Truthful(job[w], job[w].stamp)

RowsInv == RowsMatchMetadata /\ JobsAreTruthful

\* The databases are current exactly when RowsMatchMetadata says so.
LEMMA RowsAreCurrent == RowsMatchMetadata <=> \A v \in Variants : Current(db[v])
  BY DEF RowsMatchMetadata, Current, Emitted

\* The same of the next state.
LEMMA RowsAreCurrentPrime == RowsMatchMetadata' <=> \A v \in Variants : Current(db'[v])
  BY DEF RowsMatchMetadata, Current, Emitted

\* The deletes leave no row of other contents behind, and what is inserted was
\* emitted from the contents files_update records (merge_staging).
LEMMA MergeStaysCurrent ==
    ASSUME NEW d \in Databases, NEW j \in Jobs, Current(d), Truthful(j, j.stamp),
           ReadyToMerge(d, j)
    PROVE  Current(MergeStaging(d, j))
<1>1. /\ MergeStaging(d, j).records = MergedRecords(d, j)
      /\ MergeStaging(d, j).meta = MergedMeta(d, j)
  BY MergeEffect
<1>2. SUFFICES ASSUME NEW f \in Files, NEW r \in MergedRecords(d, j)[f]
               PROVE  MergedMeta(d, j)[f] \in Nat /\ Emitted(f, MergedMeta(d, j)[f], r)
  BY <1>1 DEF Current
<1>3. MergedMeta(d, j)[f] = IF f \in StagedFiles(j) THEN j.stamp[f] ELSE d.meta[f]
  BY DEF MergedMeta
<1>4. j.stamp[f] \in Nat
  BY DEF Jobs
<1>5. CASE f \in j.loaded /\ r \in j.emitted[f].rows
  <2>1. f \in StagedFiles(j)
    BY <1>5 DEF ReadyToMerge
  <2> QED BY <1>3, <1>4, <1>5, <2>1 DEF Truthful
<1>6. CASE ~(f \in j.loaded /\ r \in j.emitted[f].rows)
  <2>1. r \in d.records[f] /\ ~Replaces(d, j, f)
    BY <1>6 DEF MergedRecords, InsertOrIgnore
  <2>2. d.meta[f] \in Nat /\ Emitted(f, d.meta[f], r)
    BY <2>1 DEF Current
  <2>3. f \in StagedFiles(j) => d.meta[f] = j.stamp[f]
    BY <2>1, <2>2 DEF Replaces
  <2> QED BY <1>3, <2>2, <2>3
<1> QED BY <1>5, <1>6

\* No row and no job: nothing to be out of date.
LEMMA InitRows == Init => RowsInv
<1> SUFFICES ASSUME Init PROVE RowsInv
  OBVIOUS
<1>1. \A v \in Variants : Current(db[v])
  BY DEF Init, EmptyDatabase, Current
<1>2. JobsAreTruthful
  BY DEF Init, JobsAreTruthful, Busy
<1> QED BY <1>1, <1>2, RowsAreCurrent DEF RowsInv

\* A step of one writer that leaves the database and the tree alone.
LEMMA LocalRows ==
    ASSUME RowsInv, NEW w \in Writers, UNCHANGED <<disk, db>>,
           \A u \in Writers \ {w} : pc'[u] = pc[u] /\ job'[u] = job[u],
           pc'[w] = "parsed" => Truthful(job'[w], disk),
           pc'[w] \in Busy => Truthful(job'[w], job'[w].stamp)
    PROVE  RowsInv'
<1>1. RowsMatchMetadata'
  BY RowsAreCurrent, RowsAreCurrentPrime DEF RowsInv
<1>2. JobsAreTruthful'
  <2> SUFFICES ASSUME NEW u \in Writers
               PROVE  /\ pc'[u] = "parsed" => Truthful(job'[u], disk')
                      /\ pc'[u] \in Busy => Truthful(job'[u], job'[u].stamp)
    BY DEF JobsAreTruthful, Truthful, Emitted
  <2>1. CASE u = w
    BY <2>1
  <2>2. CASE u # w
    BY <2>2 DEF RowsInv, JobsAreTruthful
  <2> QED BY <2>1, <2>2
<1> QED BY <1>1, <1>2 DEF RowsInv

\* When files do not change between the parse and the stat, every step keeps
\* rows and metadata together.
LEMMA NextRows ==
    ASSUME ~EditsWhileParsed, IInv, RowsInv, [Next]_vars
    PROVE  RowsInv'
<1> USE DEF IInv, TypeOK
<1>1. ASSUME NEW f \in Files, Edit(f) \/ Remove(f) PROVE RowsInv'
  <2>1. (\A w \in Writers : pc[w] # "parsed") /\ UNCHANGED <<db, pc, job>>
    BY <1>1 DEF Edit, Remove, TreeMayChange
  <2>2. RowsMatchMetadata'
    BY <2>1, RowsAreCurrent, RowsAreCurrentPrime DEF RowsInv
  <2>3. JobsAreTruthful'
    BY <2>1 DEF RowsInv, JobsAreTruthful, Truthful, Emitted
  <2> QED BY <2>2, <2>3 DEF RowsInv
<1>2. ASSUME NEW w \in Writers, NEW v \in Variants, NEW m \in Sources, NEW p \in ProvenanceRows,
             Parse(w, v, m, p)
      PROVE  RowsInv'
  <2>1. PICK e \in [Files -> UNION {Seen(m, f) : f \in Files}] :
           /\ \A f \in Files : e[f] \in Seen(m, f)
           /\ job' = [job EXCEPT ![w] =
                 [variant |-> v, main |-> m, emitted |-> e,
                  stamp |-> [f \in Files |-> 0], cached |-> {}, loaded |-> {},
                  retried |-> FALSE, prov |-> p]]
    BY <1>2 DEF Parse
  <2>2. /\ pc'[w] = "parsed" /\ UNCHANGED <<disk, db>> /\ job'[w].emitted = e
        /\ \A u \in Writers \ {w} : pc'[u] = pc[u] /\ job'[u] = job[u]
    BY <1>2, <2>1 DEF Parse
  <2>3. m \in Files
    BY SourcesAssumption
  <2>4. ASSUME NEW f \in Files, NEW r \in e[f].rows PROVE Emitted(f, disk[f], r)
    BY <2>1, <2>3, <2>4 DEF Seen, NoEmission, Emitted
  <2>5. Truthful(job'[w], disk)
    BY <2>2, <2>4 DEF Truthful
  <2> QED BY <2>2, <2>5, LocalRows DEF Busy
<1>3. ASSUME NEW w \in Writers, Stage(w) PROVE RowsInv'
  <2> DEFINE j == [job[w] EXCEPT !.stamp = disk]
             hits == CacheHits(db[j.variant], j)
             k == [j EXCEPT !.cached = hits, !.loaded = StagedFiles(j) \ hits]
  <2>1. /\ job[w] \in Jobs /\ Truthful(job[w], disk)
        /\ pc'[w] = "staged" /\ job'[w] = k /\ UNCHANGED <<disk, db>>
        /\ \A u \in Writers \ {w} : pc'[u] = pc[u] /\ job'[u] = job[u]
    BY <1>3 DEF Stage, JobStarted, RowsInv, JobsAreTruthful
  <2>2. /\ j = [job[w] EXCEPT !.stamp = disk]
        /\ k = [j EXCEPT !.cached = hits, !.loaded = StagedFiles(j) \ hits]
    OBVIOUS
  <2> HIDE DEF k, hits, j
  <2>3. j.emitted = job[w].emitted /\ j.stamp = disk
    BY <2>1, <2>2 DEF Jobs
  <2>4. k.emitted = j.emitted /\ k.stamp = j.stamp
    BY <2>2
  <2>5. Truthful(k, k.stamp)
    BY <2>1, <2>3, <2>4 DEF Truthful
  <2> QED BY <2>1, <2>5, LocalRows
<1>4. ASSUME NEW w \in Writers, BeginMerge(w) \/ Abort(w) PROVE RowsInv'
  <2>1. /\ UNCHANGED <<disk, db, job>> /\ pc'[w] # "parsed"
        /\ pc'[w] \in Busy => pc[w] \in Busy
        /\ \A u \in Writers \ {w} : pc'[u] = pc[u]
    BY <1>4 DEF BeginMerge, Abort, Busy
  <2>2. pc'[w] \in Busy => Truthful(job'[w], job'[w].stamp)
    BY <2>1 DEF RowsInv, JobsAreTruthful
  <2> QED BY <2>1, <2>2, LocalRows
<1>5. ASSUME NEW w \in Writers, Commit(w) PROVE RowsInv'
  <2> DEFINE v == job[w].variant
             d == MergeStaging(db[v], job[w])
  <2>1. /\ pc[w] = "merging" /\ db' = [db EXCEPT ![v] = d] /\ pc'[w] = "done"
        /\ UNCHANGED <<disk, job>>
        /\ \A u \in Writers \ {w} : pc'[u] = pc[u]
    BY <1>5 DEF Commit
  <2>2. job[w] \in Jobs /\ db[v] \in Databases /\ ReadyToMerge(db[v], job[w])
    BY <2>1, MergingIsReady
  <2>3. v \in Variants
    BY <2>2 DEF Jobs
  <2>4. \A x \in Variants : Current(db[x])
    BY RowsAreCurrent DEF RowsInv
  <2>5. Truthful(job[w], job[w].stamp)
    BY <2>1 DEF RowsInv, JobsAreTruthful, Busy
  <2>6. Current(d)
    BY <2>2, <2>3, <2>4, <2>5, MergeStaysCurrent
  <2> HIDE DEF v, d
  <2>7. RowsMatchMetadata'
    BY <2>1, <2>3, <2>4, <2>6, RowsAreCurrentPrime
  <2>8. JobsAreTruthful'
    <3>1. \A u \in Writers : /\ pc'[u] = "parsed" => pc[u] = "parsed"
                             /\ pc'[u] \in Busy => pc[u] \in Busy
      BY <2>1 DEF Busy
    <3> QED BY <2>1, <3>1 DEF RowsInv, JobsAreTruthful, Truthful, Emitted
  <2> QED BY <2>7, <2>8 DEF RowsInv
<1>6. ASSUME NEW w \in Writers, Restage(w) PROVE RowsInv'
  <2> DEFINE k == [job[w] EXCEPT !.cached = {}, !.loaded = StagedFiles(job[w]), !.retried = TRUE]
  <2>1. /\ job[w] \in Jobs /\ Truthful(job[w], job[w].stamp)
        /\ pc'[w] = "staged" /\ job'[w] = k /\ UNCHANGED <<disk, db>>
        /\ \A u \in Writers \ {w} : pc'[u] = pc[u] /\ job'[u] = job[u]
    BY <1>6 DEF Restage, JobStarted, RowsInv, JobsAreTruthful, Busy
  <2>2. k.emitted = job[w].emitted /\ k.stamp = job[w].stamp
    BY <2>1 DEF Jobs
  <2> HIDE DEF k
  <2>3. Truthful(k, k.stamp)
    BY <2>1, <2>2 DEF Truthful
  <2> QED BY <2>1, <2>3, LocalRows
<1>7. CASE UNCHANGED vars
  BY <1>7, RowsAreCurrent, RowsAreCurrentPrime
     DEF vars, RowsInv, JobsAreTruthful, Truthful, Emitted
<1> QED BY <1>1, <1>2, <1>3, <1>4, <1>5, <1>6, <1>7 DEF Next, WriterStep

\* If no file changes between its parse and its stat, the rows of a file are
\* those of the contents its files row describes, whoever stored them and
\* however often a store was retried (merge_staging).
THEOREM RowsStayCurrent ==
    ASSUME ~EditsWhileParsed
    PROVE  Spec => []RowsMatchMetadata
<1>1. Init => RowsInv
  BY InitRows
<1>2. IInv /\ RowsInv /\ [Next]_vars => RowsInv'
  BY NextRows
<1>3. RowsInv => RowsMatchMetadata
  BY DEF RowsInv
<1> QED BY <1>1, <1>2, <1>3, Invariant, PTL DEF Spec

----------------------------------------------------------------------------
(* IndexStore implements SymbolIndex.                                      *)

StoreView(d) == [meta |-> d.meta, records |-> d.records, facts |-> d.facts, prov |-> d.prov]

RequestOf(j) ==
    [variant |-> j.variant, main |-> j.main, emitted |-> j.emitted,
     stamp |-> j.stamp, prov |-> j.prov]

\* Merging what the cache left to stage equals applying the whole request.
LEMMA MergeIsApply ==
    ASSUME NEW d \in Databases, NEW j \in Jobs, Sound(d), ReadyToMerge(d, j)
    PROVE  StoreView(MergeStaging(d, j)) = SI!Apply(StoreView(d), RequestOf(j))
<1> DEFINE s == StoreView(d)
           r == RequestOf(j)
<1>1. /\ s.meta = d.meta /\ s.records = d.records /\ s.facts = d.facts /\ s.prov = d.prov
      /\ r.main = j.main /\ r.emitted = j.emitted /\ r.stamp = j.stamp /\ r.prov = j.prov
  BY DEF StoreView, RequestOf
<1> HIDE DEF s, r
<1>2. SI!Touched(r) = StagedFiles(j)
  BY <1>1 DEF SI!Touched, SI!NoEmission, StagedFiles, NoEmission
<1>3. \A f \in Files : f \in SI!Replaced(s, r) <=> Replaces(d, j, f)
  BY <1>1, <1>2 DEF SI!Replaced, Replaces
<1>4. \A o, n : SI!InsertOrIgnore(o, n) = InsertOrIgnore(o, n)
  BY DEF SI!InsertOrIgnore, InsertOrIgnore
<1>5. ASSUME NEW f \in Files
      PROVE  /\ MergedRecords(d, j)[f] =
                   InsertOrIgnore(IF Replaces(d, j, f) THEN {} ELSE d.records[f], j.emitted[f].rows)
             /\ MergedFacts(d, j)[f] =
                   (IF Replaces(d, j, f) THEN {} ELSE d.facts[f]) \cup j.emitted[f].facts
  <2>1. CASE f \in j.loaded
    BY <2>1 DEF MergedRecords, MergedFacts
  <2>2. CASE f \in j.cached /\ f \notin j.loaded
    <3>1. ~Replaces(d, j, f) /\ j.emitted[f] \in d.prints[f]
      BY <2>2, HitsAreKept
    <3>2. Holds(d, f, j.emitted[f])
      BY <3>1 DEF Sound
    <3>3. InsertOrIgnore(d.records[f], j.emitted[f].rows) = d.records[f]
      BY <3>2, InsertOrIgnoreAbsorbs DEF Holds
    <3>4. d.facts[f] \cup j.emitted[f].facts = d.facts[f]
      BY <3>2 DEF Holds
    <3> QED BY <2>2, <3>1, <3>3, <3>4 DEF MergedRecords, MergedFacts
  <2>3. CASE f \notin j.loaded \cup j.cached
    <3>1. f \notin StagedFiles(j)
      BY <2>3 DEF ReadyToMerge
    <3>2. j.emitted[f].rows = {} /\ j.emitted[f].facts = {}
      BY <3>1 DEF StagedFiles, NoEmission
    <3>3. InsertOrIgnore(d.records[f], {}) = d.records[f]
      BY DEF InsertOrIgnore
    <3>4. ~Replaces(d, j, f)
      BY <3>1 DEF Replaces
    <3> QED BY <2>3, <3>2, <3>3, <3>4 DEF MergedRecords, MergedFacts
  <2> QED BY <2>1, <2>2, <2>3
<1>6. MergedRecords(d, j) =
        [f \in Files |-> SI!InsertOrIgnore(IF f \in SI!Replaced(s, r) THEN {} ELSE s.records[f],
                                           r.emitted[f].rows)]
  <2>1. MergedRecords(d, j) = [f \in Files |-> MergedRecords(d, j)[f]]
    BY DEF MergedRecords
  <2> QED BY <1>1, <1>3, <1>4, <1>5, <2>1
<1>7. MergedFacts(d, j) =
        [f \in Files |-> (IF f \in SI!Replaced(s, r) THEN {} ELSE s.facts[f])
                            \cup r.emitted[f].facts]
  <2>1. MergedFacts(d, j) = [f \in Files |-> MergedFacts(d, j)[f]]
    BY DEF MergedFacts
  <2> QED BY <1>1, <1>3, <1>5, <2>1
<1>8. MergedMeta(d, j) = [f \in Files |-> IF f \in SI!Touched(r) THEN r.stamp[f] ELSE s.meta[f]]
  BY <1>1, <1>2 DEF MergedMeta
<1>9. MergedProv(d, j) =
        [commit |-> IF r.prov.commit # Null THEN r.prov.commit ELSE s.prov.commit,
         root   |-> IF r.prov.root # Null THEN r.prov.root ELSE s.prov.root]
  BY <1>1 DEF MergedProv
<1>10. SI!Apply(s, r) = [meta |-> MergedMeta(d, j), records |-> MergedRecords(d, j),
                         facts |-> MergedFacts(d, j), prov |-> MergedProv(d, j)]
  BY <1>6, <1>7, <1>8, <1>9 DEF SI!Apply
<1>11. StoreView(MergeStaging(d, j)) =
         [meta |-> MergedMeta(d, j), records |-> MergedRecords(d, j),
          facts |-> MergedFacts(d, j), prov |-> MergedProv(d, j)]
  BY MergeEffect DEF StoreView
<1> QED BY <1>10, <1>11 DEF s, r

\* The refinement mapping in terms of the two views above.
LEMMA Views ==
    /\ IndexView = [v \in Variants |-> StoreView(db[v])]
    /\ RequestView = [w \in Writers |-> IF pc[w] \in Busy THEN {RequestOf(job[w])} ELSE {}]
  BY DEF IndexView, RequestView, StoreView, RequestOf, Busy

\* The same of the next state.
LEMMA ViewsPrime ==
    /\ IndexView' = [v \in Variants |-> StoreView(db'[v])]
    /\ RequestView' = [w \in Writers |-> IF pc'[w] \in Busy THEN {RequestOf(job'[w])} ELSE {}]
  BY DEF IndexView, RequestView, StoreView, RequestOf, Busy

\* The initial states of the writer are initial states of the abstract store.
LEMMA InitRefines == Init => SI!AInit
<1> SUFFICES ASSUME Init PROVE SI!AInit
  OBVIOUS
<1>1. IndexView = [v \in Variants |-> SI!EmptyStore]
  <2>1. StoreView(EmptyDatabase) = SI!EmptyStore
    BY DEF StoreView, EmptyDatabase, SI!EmptyStore
  <2> QED BY <2>1, Views DEF Init
<1>2. RequestView = [w \in Writers |-> {}]
  BY Views DEF Init, Busy
<1> QED BY <1>1, <1>2 DEF SI!AInit

\* A step that changes neither view is invisible.
LEMMA Invisible ==
    ASSUME db' = db, \A w \in Writers : pc'[w] \in Busy <=> pc[w] \in Busy,
           \A w \in Writers : pc'[w] \in Busy => RequestOf(job'[w]) = RequestOf(job[w])
    PROVE  UNCHANGED SI!avars
<1>1. IndexView' = IndexView
  BY Views, ViewsPrime
<1>2. RequestView' = RequestView
  BY Views, ViewsPrime
<1> QED BY <1>1, <1>2 DEF SI!avars

\* A process that stops leaves its request behind, or had none.
LEMMA Dropped ==
    ASSUME NEW w \in Writers, db' = db, job' = job, pc'[w] \notin Busy,
           \A u \in Writers \ {w} : pc'[u] = pc[u]
    PROVE  SI!Drop(w)
<1>1. IndexView' = IndexView
  BY Views, ViewsPrime
<1>2. RequestView' = [RequestView EXCEPT ![w] = {}]
  BY Views, ViewsPrime
<1> QED BY <1>1, <1>2 DEF SI!Drop

\* Every step of the writer is a step of the abstract store, or invisible to it.
LEMMA StepRefines == IInv /\ [Next]_vars => [SI!ANext]_(SI!avars)
<1> SUFFICES ASSUME IInv, [Next]_vars PROVE SI!ANext \/ UNCHANGED SI!avars
  OBVIOUS
<1> USE DEF IInv, TypeOK
<1>1. CASE \E f \in Files : Edit(f) \/ Remove(f)
  <2>1. db' = db /\ pc' = pc /\ job' = job
    BY <1>1 DEF Edit, Remove
  <2> QED BY <2>1, Invisible
<1>2. ASSUME NEW w \in Writers, NEW v \in Variants, NEW m \in Sources, NEW p \in ProvenanceRows,
             Parse(w, v, m, p)
      PROVE  UNCHANGED SI!avars
  <2>1. /\ db' = db /\ pc[w] = "new" /\ pc'[w] = "parsed"
        /\ \A u \in Writers \ {w} : pc'[u] = pc[u] /\ job'[u] = job[u]
    BY <1>2 DEF Parse
  <2> QED BY <2>1, Invisible DEF Busy
<1>3. ASSUME NEW w \in Writers, Stage(w) PROVE SI!Submit(w)
  <2>1. /\ db' = db /\ pc[w] = "parsed" /\ pc'[w] = "staged"
        /\ \A u \in Writers \ {w} : pc'[u] = pc[u] /\ job'[u] = job[u]
    BY <1>3 DEF Stage
  <2>2. job'[w] \in Jobs
    BY <2>1, <1>3, StageInv DEF JobStarted
  <2>3. RequestOf(job'[w]) \in SI!Requests
    BY <2>2 DEF RequestOf, Jobs, SI!Requests, Emissions, SI!Emissions, Rows, SI!Rows,
                ProvenanceRows, SI!ProvenanceRows
  <2>4. IndexView' = IndexView /\ RequestView[w] = {}
    BY <2>1, Views, ViewsPrime DEF Busy
  <2>5. RequestView' = [RequestView EXCEPT ![w] = {RequestOf(job'[w])}]
    BY <2>1, Views, ViewsPrime DEF Busy
  <2>6. RequestView'[w] = {RequestOf(job'[w])}
    BY <2>5, Views
  <2> HIDE DEF IInv, TypeOK
  <2> QED BY <2>3, <2>4, <2>5, <2>6 DEF SI!Submit
<1>4. ASSUME NEW w \in Writers, BeginMerge(w) PROVE SI!Drop(w) \/ UNCHANGED SI!avars
  <2>1. /\ db' = db /\ job' = job /\ pc[w] = "staged"
        /\ pc'[w] \in {"merging", "stale", "failed"}
        /\ \A u \in Writers \ {w} : pc'[u] = pc[u]
    BY <1>4 DEF BeginMerge
  <2>2. CASE pc'[w] = "failed"
    BY <2>1, <2>2, Dropped DEF Busy
  <2>3. CASE pc'[w] # "failed"
    <3>1. \A u \in Writers : pc'[u] \in Busy <=> pc[u] \in Busy
      BY <2>1, <2>3 DEF Busy
    <3> QED BY <2>1, <3>1, Invisible
  <2> QED BY <2>2, <2>3
<1>5. ASSUME NEW w \in Writers, Commit(w) PROVE SI!Store(w)
  <2> DEFINE v == job[w].variant
             d == db[v]
  <2>1. /\ pc[w] = "merging" /\ pc'[w] = "done" /\ job' = job
        /\ db' = [db EXCEPT ![v] = MergeStaging(d, job[w])]
        /\ \A u \in Writers \ {w} : pc'[u] = pc[u]
    BY <1>5 DEF Commit
  <2>2. job[w] \in Jobs /\ d \in Databases /\ Sound(d) /\ ReadyToMerge(d, job[w])
    BY <2>1, MergingIsReady
  <2>3. v \in Variants
    BY <2>2 DEF Jobs
  <2>4. StoreView(MergeStaging(d, job[w])) = SI!Apply(StoreView(d), RequestOf(job[w]))
    BY <2>2, MergeIsApply
  <2>5. RequestView[w] = {RequestOf(job[w])} /\ RequestOf(job[w]).variant = v
    BY <2>1, Views DEF Busy, RequestOf
  <2>6. RequestView' = [RequestView EXCEPT ![w] = {}]
    BY <2>1, Views, ViewsPrime DEF Busy
  <2> HIDE DEF v, d
  <2>7. IndexView[v] = StoreView(d)
    BY <2>3, Views DEF d
  <2>8. IndexView' = [IndexView EXCEPT ![v] = StoreView(MergeStaging(d, job[w]))]
    BY <2>1, <2>3, Views, ViewsPrime
  <2> HIDE DEF IInv, TypeOK
  <2> QED BY <2>4, <2>5, <2>6, <2>7, <2>8 DEF SI!Store
<1>6. ASSUME NEW w \in Writers, Restage(w) PROVE UNCHANGED SI!avars
  <2> DEFINE k == [job[w] EXCEPT !.cached = {}, !.loaded = StagedFiles(job[w]), !.retried = TRUE]
  <2>1. /\ db' = db /\ pc[w] = "stale" /\ pc'[w] = "staged" /\ job'[w] = k
        /\ \A u \in Writers \ {w} : pc'[u] = pc[u] /\ job'[u] = job[u]
    BY <1>6 DEF Restage
  <2>2. job[w] \in Jobs
    BY <2>1 DEF JobStarted
  <2>3. RequestOf(k) = RequestOf(job[w])
    BY <2>2 DEF RequestOf, Jobs
  <2> QED BY <2>1, <2>3, Invisible DEF Busy
<1>7. ASSUME NEW w \in Writers, Abort(w) PROVE SI!Drop(w)
  <2>1. /\ db' = db /\ job' = job /\ pc'[w] = "failed"
        /\ \A u \in Writers \ {w} : pc'[u] = pc[u]
    BY <1>7 DEF Abort
  <2> QED BY <2>1, Dropped DEF Busy
<1>8. CASE UNCHANGED vars
  BY <1>8, Invisible DEF vars
<1> QED BY <1>1, <1>2, <1>3, <1>4, <1>5, <1>6, <1>7, <1>8 DEF Next, WriterStep, SI!ANext

\* The staging tables, the fingerprint cache and the retry of index_db_store
\* are invisible: each store is one atomic application of the whole request.
THEOREM CacheRefinement == Spec => CacheIsTransparent
<1> QED BY InitRefines, StepRefines, Invariant, PTL DEF Spec, CacheIsTransparent, SI!ASpec

============================================================================
