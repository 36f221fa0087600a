# Verification of semindex

semindex indexes C and C++ sources with Clang, keeps the records in a SQLite
symbol database, remembers compiler commands in a second database, and serves
both to command lines, to editors (`semindex-lsp`) and to agents
(`semindex-mcp`). These modules model the parts of it in which several
processes or threads meet, or in which a failure between two steps leaves
something behind. Paths below are relative to `src/`.

## Inventory

| Component | State it keeps | Operations | What makes it correct |
| --- | --- | --- | --- |
| Symbol database writer, `lib/semindex_index_db/index_db_writer.c` | tables `files`, `records`, types and properties, `file_fingerprints`, `variants`; TEMP staging tables per process | `index_db_create`, `index_db_store` | a store is atomic; skipping files whose fingerprint is known loses nothing; schema created once |
| Command database, `lib/semindex_command_db` | `commands(variant, file)` | store, load, export | schema created once; a command is replaced as a whole, and comes out as it went in |
| Index pipeline, `lib/semindex_pipeline` | none of its own | run: frontend, fingerprints, symbols, command | what each failing stage leaves behind; order of the stores |
| Updater and resolver, `lib/semindex_index_update` | `update_mutex` | `update`, `resolve` | a made-up command is never stored; updates of one process are serial |
| Command lines `index`, `compiler`, `cc` | exit status | parse arguments, find the source, run and, for `cc`, exec the compiler | an index failure does not stop a build unless asked to; what is indexed is what is compiled |
| MCP server, `tools/mcp` | handshake state, `requests`, a control per call, transport | initialize, tool calls, cancel, deadlines, end | one true reply per request; no thread outlives the server; no deadlock |
| MCP tools, `tools/mcp/*_tools.cpp` | none; a connection per call | search, definitions, references, types, calls, variants, source, status | pages neither skip nor repeat a row; a walk over a changing graph is complete unless it says otherwise; current source is current |
| LSP server, `tools/lsp` | session state, overlays | save, definition, references, highlights, hover, call hierarchy, shutdown | one answer per request; what was saved is what is shown; positions in the editor's columns |
| Query service and reader, `lib/semindex_semantic`, `lib/semindex_database` | a read-only handle | find, search, page | each statement is one snapshot, in a total order with a cursor |
| Call graph of the command line, `lib/semindex_index_db/index_db_callgraph.c` | none | callers, callees | each edge once |
| Frontend and fingerprints, `lib/semindex_parser` | the records of one translation unit | parse, fingerprint | equal records of a file give equal fingerprints |
| Source resolver and repository paths, `lib/semindex_source`, `lib/semindex_support/repository.c` | a root | normalize, resolve, relate | database path and source file correspond |
| Output, names, git, traces, protocol log | none that is shared | format | not modelled: wording and layout |

They interact through two files and a few calls. Any number of processes open
`symbols.db` and `commands.db`; SQLite gives one of them at a time the write
lock, and readers see committed states. The command lines and both servers run
the pipeline, which calls the writer and then the command store. In the MCP
server the reading thread, a worker per call and a deadline thread per worker
share a `McpRequestControl`. The LSP server is one thread, so its requests
never overlap; it meets the others only in the databases.

The hard behaviours are: a cache that is read without the lock and trusted
under it; concurrent creation of a schema; a process that dies between two
stores; resolver decisions that are stale when used; answers made of several
statements while others store; a compiler line read with another grammar than
the compiler's; cancellation and deadlines
against a tool that is just finishing; the shutdown of detached threads; and
an overlay in an editor against a database that others update. `hazards` in
`PROJECT.json` lists each at its line.

## Modules

`IndexData` holds the data that the next two share: rows with a primary key,
what a file contributes to a translation unit (an emission), and
`INSERT OR IGNORE`.

`SymbolIndex` is the abstract writer: a request is applied to its variant in
one step, with all its rows, or dropped.

`IndexStore` is the real one. `Parse` is the pipeline up to the store, `Stage`
is `stage_files` with its cache lookup, `BeginMerge` is `BEGIN IMMEDIATE` with
`cached_files_valid`, `Commit` is the twelve statements of `merge_staging` in
their order, one operator each, `Restage` is the retry after a stale hit, and
`Abort` is an SQL error or the death of the process. A file's stamp stands for
its mtime and size (0 when `stat` fails). BLAKE3 is taken to be injective, so a
fingerprint is the emission it was made from. `Edit` and `Remove` are the user.
`CacheIsTransparent` says that it implements `SymbolIndex`: the staging area,
the fingerprint cache and the retry are invisible.

`SchemaInit` is `init_schema` of both databases: the look at `user_version`
without and with the lock, the `CREATE` statements one by one with the version
after the last of them, and the commit, by processes of several releases, any of
which may die in between. The two files differ in where they refuse (`kind`).

`IndexUpdate` is everything around the stores: `StartTool` and `StartUpdate`
are the ways into the pipeline, `Resolve` is `SemindexCommandResolver::resolve`,
`Frontend`, `StoreSymbols` and `StoreCommand` are the stages of
`index_pipeline_run`, `Answer` is `LspIndexer::update` and the end of a
reindex, `Exit` is the end of a command line, with the `exec` of `cc`, and
`Die` is a kill or a server restart, which loses the overlays. A file's
contents are a version that fixes the positions at which it has records.
`RecordAt` is `SemindexQueryService::recordsAt`. `index_db_store` is one step
here; `IndexStore` is where that is justified.

`McpServer` has a program counter for each thread: `main` for
`McpServer::run`, `worker[i].pc` for `runTool` and `McpToolService::call`,
`control[i].timer` for `waitForDeadline`. A section under `database_mutex`,
`completion_mutex` or `write_mutex` blocks on nothing and is one step;
`requests_mutex` is held across steps while the main thread cancels, and
`update_mutex` while an update runs. `owed` counts replies due. The statement
of a handle is active or not, because `sqlite3_interrupt` only stops an active
one.

`CompilerLines` has what `semindex cc` and `semindex compiler` make of their
arguments, as operators: the tool's options before `--` (`OptionsOf`, `Rest`,
`Accepted`), the driver (`Line`), the source (`FindSource`, which is
`compiler_command_find_source`), the blob of `commands.db` (`Pack`, `Unpack`,
`Exported`) and the words that are kept from Clang (`Sanitized`). A word is told
by its kind: an option whose value is the next word, a source, a response file,
and so on. Of the options with a value, `PassedOver` are those whose value
`option_takes_joined_or_next_arg` makes the scan pass over. `Compiled` is external: the sources the compiler
itself takes a line to have. `CompilerBuild` composes it with `IndexUpdate`: a
tool is started by `Invoke` with the job that its words give, beside the
servers. Edits are left to `IndexUpdate`.

`Database` is the reader library: one operator per query of
`index_db_reader.c`, with its filters, order, cursor and limit, over the rows
of the editions of files that are stored now. `StoreFile` is another process.
Its actors are in these modules:

* `McpQueries`, the paginated tools: `Reply` is one call of any of them, with
  the arguments checked, one row more than the limit asked for, and a cursor
  that is parsed again in the next call. `PageOrder` and `Pages` are the
  abstract paging that it implements (`PagesSpec`). A page of direct calls
  (`CallPage`) reads the list up to the record that the cursor names, and a
  cursor names no caller (`CursorOf`, which is `recordCursor`), so it may be found
  at another place of the list than it was sent from (`CursorMoved`).
* `CallGraph`, the recursive `find_callers` and `find_callees`: `Visit` is one
  turn of the loop, with its statement and what `Consider` does to each record.
* `SourceRead`, `read_source_context` and `index_status`: the name is looked up,
  the file stat'ed, opened, read line by line and stat'ed again, or read from
  the commit; `EditFile` is the user. `SourcePaths` has the names of a file:
  how the writer stores it and the order in which the resolver tries them. A
  `writer` has a root, or none, a directory from which it names the file, or an
  absolute name, and `realpath` may fail (`StoredPath`); its root need not be the
  workspace of the server.
* `McpTools` puts the three beside each other; one client does one of them.
* `Navigation`, the lookups of the language server: each is a job with a list
  of statements to do (`StatementsFor`), which goes through `Locate`, `RecordsAt`,
  `QuerySymbol`, `Fallback`, `QueryHierarchy` and `QueryFunctions`. `LspOverlay`
  has the overlay and its queries, `TextPositions` the UTF-16 columns.
* `LspServer`, the session: `Refuse`, `Pass`, `Initialize`, `Shutdown`, `Exit`,
  `DidSave` and `LookUp` are the branches of `dispatch`; `due` counts the
  answers that are owed. The outcome of the index run in `DidSave` is any
  (stored, overlay or failed); `IndexUpdate` is where it is decided.

The `MC` modules give the constants their values. The modules whose names end in
`Proofs` have the theorems about the module they are named after.

Operators whose comment calls them mutants, or plausible bugs, are not part of
a specification: each is a wrong version of the definition it precedes, and
shows that some property notices.

## Runs

| Run | Question | Bounds, and why they are enough |
| --- | --- | --- |
| `index_store` | Can the fingerprint cache hide or lose a row? | three writers (one stages, one makes its hit stale, one has retried), two sources and a header seen differently by each and also compiled itself, one edit, removals; rows with colliding keys |
| `index_store_variants` | Do variants or provenance interfere, also when files change between parse and stat? | two variants, two writers, known or unknown root and commit |
| `index_store_live` | Does every store end? | three writers and one stale hit; no symmetry |
| `index_store_emptied` | Is the documented removal of old records true? | **violated**, see below |
| `schema_init` | Can concurrent openers, also of two releases, spoil a schema or wait for ever? | three processes of one release and one of another over every kind of existing database |
| `index_update` | What do edits, failures and deaths leave in the databases and the editor? | one tool, one editor, one agent on one file with two versions and two commands: each pair of stores interleaves, and the versions share one position and differ in one |
| `compiler_build` | Does the compiler always run, and is what is indexed what is compiled? | two tools and an agent on three files; one tool is called in 31 ways (a line for each kind of word, option, driver, policy and mistake), the other with two lines for the same file, so that stores interleave; no compilation database |
| `index_update_overlay` | Does an overlay replace the stored records? | **violated**, see below |
| `mcp_calls` | Is each request answered once and truly, with two calls at once? | two ids, five messages after which the client can only close: two for the handshake, three for calls, duplicates and cancellations |
| `mcp_ends` | Do calls and the server end, also with a broken output? | one id used again and again, six messages; no symmetry |
| `mcp_queries` | Are pages, walks and source true while others store? | three files of two variants with two editions each, whose calls make a cycle, a diamond and a call from file scope; two stores; limits up to three, node limits 2 and 5, depths 2 and 3; two directories of the server; four writers (below the workspace as repository, without one from two directories, and one whose `realpath` fails); two versions on disk |
| `lsp_session` | Is every request answered once, and navigation from what was there? | a source and a header with two versions each, characters of one, two and four bytes, one store by others, 26 messages of every form; with and without `--variant` and a workspace |

Deadlock is checked for `mcp_calls`, `mcp_ends` and `index_update`. It is off
where every process does its work once and then stops (the writers, the schema
openers, the command lines), where a client may have read its last page, and
where the language server has exited.

Two runs show where a document and the code disagree.

* `index_store_emptied`: `Documentation/index-database.md:169` says that the
  old records of a changed file are removed. `stage_files` skips a file without
  records (`index_db_writer.c:890`), so when an edit leaves a header with none,
  its old records stay.
* `index_update_overlay`: `Documentation/semantic-queries.md:26` says that an
  overlay replaces the stored records of a file. `recordsAt` asks the database
  wherever the overlay is silent (`semantic_query.cpp:128`), so a stored record
  of older contents can answer. `Documentation/lsp.md:88` only says that both
  are consulted.

### Bounds

`MaxStamp` bounds the edits of a tree, `Versions` the contents of a file,
`MaxMessages` the messages of a client. `Tools` and `Writers` run once each; a
second run is another process. The servers of `IndexUpdate` run for ever.
`MaxStores` bounds the stores by other processes, `MaxEdition` and `MaxVersion`
the contents of a file in the database and on disk.

`RowsMatchMetadata`, `CacheSound` and the others of `index_store` are checked with
`EditsWhileParsed = FALSE`: files do not change between the parse and the
`stat` that follows. With a change there, the code stamps old records with the
new time, and `RowsMatchMetadata` is false; `index_store_variants` has such
changes and shows that the store as such is still the abstract one: `SymbolIndex`
stamps what it stores in the same way, so `CacheIsTransparent` allows old records
under a new time and does not tell of them. The code has no protection against
this, and no property covers it. The proofs do not need the restriction.

### Fairness

`IndexStore` and `SchemaInit`: a running process runs on. The code repeats a
busy statement without end (`exec_sql`), and each process takes the lock a
bounded number of times, so weak fairness of its steps is what the scheduler
gives. Neither `Abort` nor `Die` is fair.

`CompilerBuild`: weak fairness of the steps of a run of `IndexUpdate`, which includes that Clang
and SQLite return. Edits, deaths and new requests are not fair. Neither
is calling a tool, nor a failure to prepare the run.

`McpServer`: weak fairness for the main thread, each worker and each deadline
thread. Strong fairness of `AfterWork` says that a tool runs finitely many
statements. The client, the clock and the breaking of the output are not fair:
`RunEnds` is stated from the moment the loop is left, since a silent client may
keep the server reading for ever.

## Proofs

`IndexStoreProofs` proves, for any number of writers, variants, files and edits
and with `EditsWhileParsed` either way:

* `TypeCorrect`: the type invariant;
* `CacheIsSound`: a stored fingerprint vouches for rows that are there;
* `NoStaleHitIsMerged`: the holder of the lock has only valid hits and has
  staged every other file;
* `RetrySucceeds`: the second attempt cannot be refused as stale;
* `StoresAreComplete`: a successful store has every row, staged or skipped;
* `CacheRefinement`: `IndexStore` implements `SymbolIndex`;
* `RowsStayCurrent` (`RowsMatchMetadata`): the rows of a file are those of the
  contents its `files` row describes, if no file changes between its parse and
  its `stat` (`EditsWhileParsed = FALSE`; with such edits it is false).

They assume what the modules state about their constants: `Null` is none of
the values it stands beside, sources are files, and what the frontend emits is
an emission.

`CacheSound` is not inductive. The merge removes rows of replaced files and
keeps the fingerprints of the others, so its proof needs that the hits of the
job are valid when the lock is held (`HitsStillValid`), that no other process
merges meanwhile (`LockIsMerging`), and that staged and skipped files together
are all of them, the main file always staged (`StagingCovers`). The retry needs
that it has no hits (`RetryHasNoHits`, from `FirstTry`). `IInv` is the
conjunction. `MergeEffect` collapses the twelve statements into one assignment
per table; `HitsAreKept`, `MergeKeeps` and `MergeAdds` say what it does to rows,
and `MergeSound`, `MergeCompletes` and `MergeReplacesMain` follow. For the
refinement, `MergeIsApply` shows that the merge of a ready job equals the
abstract application of its whole request, `Views` relates the two states, and
`StepRefines` goes through the actions.

`RowsMatchMetadata` is not inductive either: a merge takes rows from a job that
was parsed long before. `JobsAreTruthful` says that what a job emitted belongs to
the stamps on disk until it has taken its own, and to those ever after, through
edits, hits that went stale and the retry; `MergeStaysCurrent` does the rest.

`IndexUpdateProofs` proves, for any number of tools, editors, agents, files and
versions, any of which may die at any step:

* `SavedCommandsWereUsed` (`CommandsFollowSymbols`): commands follow records;
* `StoresAreUsable` (`StoredIsUsable`): nothing made up or unusable is stored;
* `SavesAreShown` (`SavedIsShown`): a save whose records were stored, or went to
  the overlay, is what the editor shows until another process stores the file,
  also when the command could not be stored and the answer is a failure;
* `AgentsReindexOnly` (`AgentsKeepCommands`): agents never touch the saved
  commands and store only what a command made whose records were stored before;
* `TypeCorrect`: the type invariant.

None of the first four is inductive: each is about the databases after a step whose
input was decided several steps before, by the resolver or by the command line.
`IInv` follows a run through its phases: `RunSound` says what a run may hold (a
run that will store has a command of the build and usable records, and in an
editor the fallback command and "nothing is stored" go together), `CommandUsed`
that a run about to save its command has stored the records of that command,
`RunStored` that what a run has stored is still there unless another process has
stored the file since, and `OverlayIsAnswer` ties the overlay of an editor to
its last answer. `JobStep` is the frame: a step of one process changes its own
job and overlay, so only these and the other runs' `RunStored` are left to show;
`LocalStep` and `QuietStep` are its cases for steps that store nothing.
`AgentInv`, proved over `IInv`, adds that an agent's command was used and that
its run never reaches the phase in which a command is saved; it survives the
steps of others because `used` only grows (`UsedGrows`). The
assumptions are that the sorts are disjoint (`SortsAreDisjoint`,
`NoneIsNoSource`), that there is a file, and that versions are numbers.

`SchemaInitProofs` proves, for any number of processes of any releases over any
existing database, any of which may die at any step:

* `OpenersKeepTheirSchema` (`OpenMeansOwnSchema`): who has opened a database
  keeps its schema, and nobody turns away his own release;
* `SchemaIsWhole` (`WholeSchema`): a database without a version is what was found
  at the path, with no table added, and one with a version has what was found and
  every table of that release, though a process may die between any two
  statements (`found` is auxiliary and never changes);
* `SchemasAreKept` (`OnlyFreshIsWritten`);
* `TypeCorrect`: the type invariant.

`OpenMeansOwnSchema` is not inductive: a commit could replace the schema under
an open database. `IInv` says who is in a transaction (`LockIsTransaction`),
what such a process knows of the database and that it stays true as long as it
has the lock (`Sound`, with what its transaction has written so far), that a process that commits either changes nothing or
found no version (`Committable`), and why a refused process would be refused
again (`Taken`). `QuietStep` is the frame for every step but the commit. The
assumptions are that releases share a table, which makes `CREATE TABLE` fail
over another one (`SchemaAssumption`), and that databases are records.

`PagesProofs` proves of the abstract paging, for any finite set of keys, total
order, limits and stores: `PagesSkipNothing`, `PagesRepeatNothing` and the
inductive `ScanInvariant`, which says what a cursor means: all that was sent is at
or before it, and all that stayed and is at or before it was sent. The tools
implement `Pages` (`ScansInPages`), so their scans inherit both, but for a list of
callers once its cursor has moved.

`McpServerProofs` proves, for any ids and number of messages, and whether or not
the output breaks:

* `HandlesOutliveInterrupts` (`InterruptsOpenHandle`): `sqlite3_interrupt` never
  meets a handle that is closed;
* `AnswersAreTrue` (`AnswerIsTrue`): work that was cut short is not presented as
  a result, and what is called stopped was stopped;
* `RequestsAreAnsweredOnce` (`OneReply`) and `WorkersEndFirst`
  (`RunOutlivesWorkers`);
* `TypeCorrect`: the type invariant, which includes that the main thread cancels
  only controls that are in the map.

Each of them relates threads that are several steps apart. `HandleSound` has the
order in which a tool opens, binds, unbinds and closes: a bound handle is open
because the binding is taken back first. `OutcomeSound` follows a cut statement
to its reply: whoever cut it had set `cancelled` or `timed_out`, so the test
after the work, or the one after the join, overrides the result. `TimerSound`
says that a deadline thread lives within its worker, `SentSound` that a reply is
the last thing a worker sends, `MainSound` that the main thread holds
`requests_mutex` while it has a control in hand, and `OwedIsRead` bounds what is
owed by what was read, which keeps the counters in their types. `LocalStep`,
`ReplyStep` and `MainStep` are the frames for steps of a call, for replies and
for the main thread.

`McpToolsProofs` proves, for any workspace, directories, contents, rows,
requests, limits, edits and stores:

* `ScansInPages` (`PagesSpec`): the paginated tools implement `Pages`, so a client
  that follows `nextCursor` gets every row that was there all the time, and none
  twice; excepted are the steps of a `find_callers` in which a store has renamed
  the caller at the cursor (`CursorMoved`);
* `CursorsHonoured` (`CursorHonoured`): it is never refused with a cursor it was
  given, but in a list of calls whose record is gone;
* `CurrentIsIndexed` (`SourceIsCurrent`): lines that are called current are of
  the version that the row describes, though the file is read line by line while
  it is edited;
* `RowsAreFound` (`SourceIsFound`): a file whose row is there all the time is
  found, if its writer's root is the workspace, or the file is outside that root
  and stored under its absolute path, or was named absolutely or in the
  workspace, or in the directory of the server (`NameIsTried`), and if the
  workspace is not the root directory, below which the writer clips names
  (`Clipped`);
* `WalksAreFaithful` (`WalkFaithful`): a recursive call query, one statement for
  each function while others store, reports calls that were there and no nearer
  than they are, all that were there all the time if it says that nothing was
  left out, and a cycle only where the calls make one;
* `TypeCorrect` (`TypeOK`): a walk keeps its limits of records and functions and a
  source range its count and bytes, whichever version of the file, or commit, the
  lines come from.

`ScansInPages` goes from the rows up. `Sorting` shows that rows whose keys are
distinct have one order and that `Ordered` is in it; `RecordKeys` and its siblings
that the keys the tools hand out as cursors are distinct, which is where the
primary keys of the tables come in; `PageServes` that a statement with one row more
than the limit gives a page, and says truly whether there is more; `SkipInOrder`
that reading a list of calls up to the cursor comes to the same, unless the cursor
has moved. Each tool then
either refuses all calls of a request or answers from one set of keys
(`RequestServes`), and that set changes with the database only (`SameTable`).
`ScanInv` has that the table is this set and that a cursor is a key of its kind,
and `ReplyStep` and `StoreStep` map calls to pages and stores to stores.
`CursorsHonoured` adds that this cursor is one the tool can read (`ToolKeys`) and
that no other argument is refused (`Hopeless`): both were decided by the call that
handed it out, whatever limit and database the next call meets. Assumed
are what the schema and the writer guarantee (`FilesAssumption`, `RowsAssumption`:
the rows of a file have its variant and path, primary keys are unique, and a
record has a name and a place in its file) and that `Before`
orders keys of one kind by their fields, as `ORDER BY` does (`KeyOrderAssumption`).

`CurrentIsIndexed` rests on stamps that never come back: until the file is removed, the
row's stamp, every line and the file on disk are in this order (`Newer`), so an
equal stamp after the last line leaves no room for another version. `RowsAreFound`
is about names: `RelativeToRoot` and `StoredPathIsTried` show that one of the
names a reader tries is the one the writer stored, and `NamesLeadBack` that they
lead to the file. `RangesAssumption` is what `allowedPath` and `sourceRequest`
refuse, `DirectoriesAssumption` that directories are normalized. That stamps do
not come back is what the model takes a stamp to be: mtime and size, see `Edit`.

`WalksAreFaithful` is about a breadth-first search whose graph changes under it,
so `WalkInv` speaks of two graphs, the calls that were there at any time
(`seen.ever`) and those that were there all the time (`seen.always`), and of
distances in them (`Level`, which `Levels` and `StepOn` make sense of). `PendingHolds`
has that the queue is in order of depth with at most two depths in it, and
that each entry, and each of its ancestors' ways to it, is a chain of calls of
`ever`; `EdgesHold` that a record's depth is a distance in `ever` and never ahead
of the queue; `CyclesHold` that a cycle was seen because there is one.
`CompleteHolds` is the one that makes the search complete: as long as nothing was
left out, each function that was found has all its calls of `always` among the
edges, or waits, or the walk is at its depth; and once an edge lies beyond a
distance, every function within that distance in `always` is done or waits at no
greater depth. `Visit` is a fold over the records of one function, so `VisitCourse`
gives its states one record at a time, `MidStep` and `VisitMid` carry the first three parts through
it, and `ReachedInOrder` and `VisitHolds` the last. `TLC` checked `WalkInv` on
`MCMcpTools` before it was proved. `WalksAssumption` is what `callRecords`,
`parseLimit` and `parseGraphBounds` refuse: a root with a name, bounds of at least
one, and a depth above one, since depth one is a page of `CallPage`.

`TypeInv` is the conjunction of the invariants of the three activities with `Known`,
that what is recorded of a variant is the root and the commit of some edition, and
`SizesHold`, the bounds of a range. `LineFits` is its step: a line is appended only
while fewer than `count` are there and its bytes fit what is left. It needs that what is
under a name, in the tree or in a commit, is a version with lines
(`ContentAssumption`), and the limits that `sourceRequest` demands (`RangesAssumption`).

`LspServerProofs` proves, for any client, files and environment,
`RequestsAreAnsweredOnce` (`RepliesMatchRequests`) and `TypeCorrect`, which has
that nothing is looked up before `initialize`. `JobInv` says that the request in
hand is exactly what is owed, and that a server that ends in order has none in
hand; that no statement of a lookup changes the request it works for is
`NavigationKeeps`.

`HighlightsAreFresh` (`HighlightsFresh`) is about a whole `documentHighlight`, for any
number of symbols at the cursor, names of the file and records. Its invariant,
`HighlightInv`, says how far the request is (`Progress`): the statements ahead are
those of the cursors in order (`Ahead`, from `HighlightPlan`), and under the
property's condition the highlights are those of the overlay for the cursors that
are done (`FromOverlay`), and the file is excluded unless the next statement is a
cursor's first. `HighlightStep` is its step: the overlay's records of the next
cursor are at new places, so there are more highlights than before
(`MoreHighlights`), so the file is excluded (`OverlayFirst`), so every row of the
database, found under a name of the file, is left out (`FileExcluded`).
Exclusion alone is not inductive: that the comparison of the two sizes notices
the overlay's records rests on the places of all the cursors before. The rows of an
answer come from the sort of `Ordered` (`Listing`), and what is made of them is a
fold over them (`HighlightCourse`, `CollectAll`).

`NavigationIsFaithful` (`NavigationFaithful`) is about every lookup, from its arrival
to its answer; of a cursor that is a record of an overlay without a variant it only
says that the overlay's records are in the answer (`AnswerComplete`). `StepsOfSession` says what a step of the session can be to it: it ends
the lookup, brings one, does a statement of one (`Works`), or passes it by while
others store and edit (`Passes`). The records that were there all the time
(`seen.always`) shrink and those that were there at any time (`seen.ever`) grow, with
the database between them. `NavigationInv` has four parts.

* `LookupInv`: the request, its position, and that bound on the database.
* `CursorInv`: while the names of the file are tried, a record of `always` under the
  cursor is under a name that is still to be tried (`NextName`, `AtNameCovers`).
* `HierarchyInv`: each function of a hierarchy is in the answer or in a batch to come
  (`InSomeBatch`), and one with a definition in `always` is shown by a definition
  (`FunctionsCourse`).
* `AnswerInv`: for definitions, references and highlights, `Answering`. The
  statements ahead are a `Plan`: those of one cursor and filter come one after the
  other, the first of them reads the overlay, and a fallback follows a search for
  definitions. What is asked for is in the answer or waits in the plan
  (`AboveShown`, `KeptShown`, `DeclarationsShown`), under a name the plan asks for
  (`AskedWaits`), and each place in the answer has a record that is its reason
  (`Founded`). `HeadReady` is what makes this inductive: a file is only left out for
  a cursor and filter of which the overlay has something, and a hit has a definition
  as evidence, so the fallback is skipped for a reason. `QueryBrings` says what a
  statement adds, whatever the rows, and `QueryAnswers` that this is enough.

`RangesCoverCursor` (`RangeCoversCursor`) needs all of that, since the record at the
cursor must be in the answer (`CursorPlaced`), and `SpanInv`. By `Located` the column
was found in a version of the file that the disk has, or has left for good
(`DiskGrows`): so if the disk is at that version in the end, it was all the time. By
`Spanned` each highlight then has the span of a record of a symbol at the cursor, in
this version (`QuerySpanned`). That such a span covers the cursor is about
text (`CursorInSpan`): a part of a line has fewer bytes and fewer units than a longer
part (`TextGrows`), and where a part ends at a character `Utf16Length` counts its
units (`WholeCharacters`).

The proofs of this module assume

* that records are finite in number and made of numbers and names
  (`RecordsAssumption`), and `None` is none of these (`NoneAssumption`);
* that the path of a document is absolute and normal, and a position two unsigned
  numbers, as `pathFromUri` and the parser make them (`DocumentsAssumption`);
* that directories are absolute and normal, and a stored path is too or is one below
  the writer's root, without `..` (`PathsAssumption`; `SemindexSourceResolver::normalize`);
* that a line is a sequence of characters and of bytes that are part of none, and a
  name has a length (`TextAssumption`).

TLC evaluates them on `MCLspServer`, on which `NavigationFaithful` and
`RangeCoversCursor` are invariants.

`CompilerBuildProofs` proves, for builds of any number of tools and servers and
for lines of every length,

* `LinesSurvive` (`CommandsSurvive`): what is stored in `commands.db` is the line
  of a tool, and `unpack_arguments` and the export give back the line that
  `pack_arguments` was given, empty words and all. `UnpackedIsPacked` and
  `ExportedIsPacked` are the two about the blob: each terminator ends the word of
  its number (`EndsCover`, `NulsOfPack`).
* `IndexIsOfCompiled` (`IndexedIsCompiled`): a tool indexes if and only if its
  line compiles one source, and the records of a file come from lines that compile
  it. `FindSourceIsCompiled` says that on plain lines the scan of
  `compiler_command_find_source` and that of the compiler agree word by word, up to
  the value of an option it does not pass over (`Agree`); `SanitizedCompiles` that leaving out what
  Clang does not take changes nothing of it (`Follows`).
* `StoredLines`: the inductive `BuildInv`, by which a command that is stored, or with
  which a run is under way, is the line of a tool that has been called
  (`Origin`). `CommandsSurvive` is not inductive: the command in the database
  comes from a run, and the run's from the database or from a call.

The operators are folds over a line. `FoldRuns` says that a fold is the last of a
sequence of states in which each comes from the one before by a word, and the
lemmas show by `Induction` what these states are; it comes from `WFMin`, since the
library's induction theorems take an operator. The proofs assume what
`KindsAssumption` says of Clang's options, `InvocationsAssumption`, that a word has
no terminator in it, and `DefaultCompilerAssumption`, which no backend knows of
strings.

Every invariant of the runs that pass is stated by a theorem. Only model-checked are
the liveness properties: fairness and `ENABLED` are out of the prover's reach.

## What the properties leave out

Some properties have a condition, because without it the code does something
else. Each is a place where the code may surprise its user; TLC finds the first
three and that of `NavigationFaithful` in these models when the condition is dropped:

* `SourceIsFound`, first part: a row is only found if writer and server agree on
  the root, or if the stored name needs none (`NameIsTried`). A server whose
  workspace is a subdirectory takes the database of the repository
  (`server_environment.cpp:52`), whose names are relative to the root of the
  repository, and tries names relative to its workspace
  (`source_resolver.cpp:238`): what is indexed is "not indexed" to it.
  `Documentation/index-database.md:150` says that consumers resolve relative paths
  against the root of the repository; `Documentation/lsp.md:32` asks editors for a
  workspace that is this root, and no document asks agents.
* `SourceIsFound`, second part: with the server in a subdirectory of its
  workspace, where Clang may leave it for a while, a name relative to that
  directory is looked up in the database but opened relative to the workspace
  (`source_resolver.cpp:244`), so another file of the same name may be read.
* `PagesSpec`: a store may rename the caller at the cursor between two pages of
  `find_callers` (`CursorMoved`). The cursor is then found at its new place in the
  list (`mcp_callgraph_tools.cpp:60`, `mcp_tools.cpp:251`), so that rows that were
  there all the time come in no page, or come twice.
  `Documentation/mcp.md:51` promises a `nextCursor` when there is another page.
* `CompilerRuns`: a crash of Clang inside the wrapper (`tools/cc/cmd.c:201`) is the
  death of the process that would have started the compiler. It counts as a kill,
  which the property excuses: the code has no protection against it.
* `WalkFaithful`: a recursive `find_callers` ends with a database error at a call
  from file scope, whose caller has no name (`WalkFails`; `mcp_callgraph_tools.cpp:173`,
  `index_db_reader.c:721`). `cyclesDetected` only says so of ancestors on the
  path by which a function was first found, so edges of a cycle may be reported
  without it (`mcp_callgraph_tools.cpp:195`).
* `SourceIsCurrent` speaks of the working tree. From a commit, the contents are
  those of the commit the variant was last indexed at, whatever version of the
  file its rows describe.
* `Plain` and `Exact` in `Navigation`: a C++ operator or a path whose name has `*`,
  `?` or `[` is a pattern to the reader (`index_db_reader.c:326`), so `operator*` also
  finds other names, and a file of such a name is also asked for as a pattern. And a
  name relative to the directory of the server may be the stored name of another
  file, below the workspace (`OwnNames`). Then a local symbol is looked for in that
  file too, and a cursor may get the records of that file. `AnswerSound` used to
  speak only of patterns; the proof brought up the second file.
* `RangeCoversCursor`: an overlay that is older than the file hides what the
  database has of a cursor, so no highlight need be at the cursor
  (`lsp_server.cpp:303-316`). A highlight has the span of the first record
  at its place, so if two records of different names begin there, the span may be
  the shorter one. And of a record that does not describe the file on disk, the
  name need not stand where it says (`StandsIn`).
* `HighlightsFresh`: `documentHighlight` keeps the database's places out of a file
  only if the overlay added one to the set of highlights
  (`lsp_server.cpp:303-316`). So of two records of one name at a position the
  second may bring old places back; so may a symbol at the cursor of which the
  overlay has nothing, and one whose places another symbol has shown before. And
  places of another file come in if a name of the file is a pattern to the reader, or
  a name relative to the server's directory that means another file in the
  workspace (`OwnNames`). The proof found all but the first of these: the property
  used to be stated without them, and held in the run, whose overlays are too small.
* `NavigationFaithful`: without `--variant`, records of an overlay have the variant
  `""`, and what is looked up with them matches no row of the database: a symbol
  that is found in the overlay is only found there (`lsp_overlay.cpp:192`,
  `lsp_server.cpp:152`). So of such a cursor the property does not ask for the
  database's records, although `Documentation/lsp.md:88` says that navigation
  consults both.
* `Expects`: `initialize` without an id is answered, with a null id
  (`lsp_server.cpp:478`); the end of the input ends the server with status 0,
  also without `shutdown`.
* `Plain` in `CompilerLines`: `option_takes_joined_or_next_arg(arg) && !arg[2]`
  (`compiler_command.c:95`) only skips the value of `-D`, `-I`, `-U`, `-x` and `-o`:
  the other options of the list are longer, and `-L` and its like are not on it.
  So `gcc -L b.c a.c` and `gcc -include pre.c a.c` have two sources and are not
  indexed, and `gcc -include pre.c a.i` is indexed as `pre.c`. A response file is not looked
  into, so `@args a.c` is indexed, although `compiler-wrapper.md:57` says that
  such invocations are passed through. The proof brought up more such lines, which
  the run now has: with `-include -o a.c` the scan takes `a.c` for the value of
  `-o`; `sanitizeCommandLine` drops `-Werror` in `-o -Werror a.c` and the word after
  `--arch` in `-I --arch b.c a.c`, without looking whether they are values, so Clang
  takes the next word for the value; and `--arch a.c a.i` is indexed as `a.c`, which
  is then dropped.
* `Accepted`: a raw compiler line whose first word is an option and that has a
  `--` further on is taken for wrapper options, and refused.
* `repository.c:120` drops the first character of a path below the root directory
  `/` (`Clipped`). No run has the root directory as a workspace.

## Not modelled, and the plan

Left out for good: the AST visitor (its control flow is Clang's), output
formats, traces, the protocol log, symbolic links, and libgit2. Left out of the
language server: hover text, the ranges of hierarchy items and the contents of
diagnostics. Left out of the command lines: options with a value that only name
a path, a scope or a variant.

Next, in this order:

1. `Fingerprint`: the digest over a file's records as a function of the sorted
   set, so that `IndexStore`'s reading of a fingerprint as an emission is
   derived: equal sets in any order give equal digests, and a main file has
   none.
2. The call graph and the search of the command line
   (`index_db_callgraph.c`, `index_db_search.c`), and the queries of properties,
   which no server offers yet.
