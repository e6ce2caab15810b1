# HyperVector: models, checks and proofs

HyperVector is a vector index library in C++ (HNSW, IVF, flat and id-mapped
indexes, quantizers, persistence) with Python bindings, a server that keeps
collections of documents with an index each (`src/src/python`), and a client
(`src/pyhypervec`). This directory holds TLA+ models of it, the TLC
configurations that check them on small instances, and proofs checked by TLAPS.

Run a model with `tlc -config X.cfg M` for the run's module `M`, and the proofs
with `tlapm M.tla` for `CollectionProofs`, `LockProofs`, `StoreProofs`,
`BundleProofs`, `TransferProofs`, `SyncProofs`, `RequestsProofs` and
`VisitedTable`. `PROJECT.json` lists the runs, the mutants that show each property
can fail, and for every definition the lines of code it stands for.

## 1. The system

| Part | State | Operations | What makes it correct |
|---|---|---|---|
| Server engine (`hypervec_server_engine.py`) | loaded indexes, scalar cache, locks, index files | create, drop, insert, flush, load, close, search, upload, export, import, purge, start-up recovery | index, rows and record agree; no unexported row is purged; imports are all or nothing |
| Metadata store (`hypervec_meta_store.py`) | `collections.json` and its copy in memory | create, update, bump, set, delete | memory and disk agree; versions do not go back |
| Scalar store (`hypervec_scalar_store.py`) | SQLite tables `docs_<name>`, `docs_<name>__import`; a connection per thread with its open transaction | insert, read, stage, switch, purge | a batch is in or out; collections stay apart; nobody keeps the write lock |
| Bundle format (`hypervec_bundle.py`) | none | create, read, validate | what is exported can be imported, what was damaged cannot, imported labels resolve |
| Reader/writer lock (`rwlock.py`) | three counters and a condition | acquire, release | exclusion, no lost wake-up, writers get in |
| HTTP and gRPC front ends (`hypervec_dual_server.py` runs both) | temporary files, the event loop, thread pools | one per engine operation | the answer says what happened; every request ends |
| Client (`pyhypervec`) | downloaded indexes and bundles | one per route, over HTTP/1.1, HTTP/2 or gRPC | a copy believed current is current; what it is told is so |
| HNSW, visited table | graph, levels, visit marks | add, search, shrink | no vertex visited twice, links within bounds |
| Inverted lists, IVF, id map, flat codes | lists of codes and ids | add, remove, merge, search | an id finds its own vector after removal |
| Heaps, reservoirs, partitioning, sorting | arrays | push, pop, merge, partition | the k best are kept |
| Selectors, sparse index, term dictionary | sets, postings | test, add, search | no member is missed |
| Persistence | files | write, read, map, clone | what is read is what was written |
| Quantizers, k-means, distances, SIMD | codebooks | train, encode | numerics, out of reach here |

How they interact: the client picks a transport from the URI and makes one call
per method, which it never repeats. A front end calls the one engine that both
share from a thread pool, or, for HTTP uploads, on the event loop. The engine
takes the collection's reader/writer lock and writes three stores that share no
transaction (the record, the SQLite tables, the index files); the front end then
reads files of the engine's *outside* the lock. Each server thread has a SQLite
connection of its own for all collections, and SQLite has one write lock for the
whole file, so handlers of different collections, which share no lock of the
engine's, meet there. Recovery reads what the three stores say after a crash.

The hard parts are therefore a crash or an exception between two of those
writes, a second crash during recovery, a metadata rewrite that fails after the
record in memory has changed, threads that meet in the lock or in SQLite, a
transaction that outlives its handler, files read after the lock has been let
go, an answer that is lost or comes after its client has given up, and a bundle
that comes back other than it went out. `PROJECT.json` lists these hazards at
their lines with the properties that would catch them going wrong.

## 2. The modules

| Module | Models |
|---|---|
| `CollectionEngine` | the engine for one collection over its three stores |
| `CollectionProperties` | its type invariant, properties and inductive invariant |
| `CollectionProofs` | the proofs about it |
| `MCCollection` | rows, batches, bundles and uploads for TLC |
| `CollectionLock` | what a writer-preferred lock promises |
| `RWLock` | `rwlock.py`, and that it implements `CollectionLock` |
| `MCRWLock` | its instance |
| `SearchThreads` | the handlers as threads over `RWLock`, searches above all |
| `MCSearchThreads` | its instance |
| `LockProofs` | the proofs about the lock and about the handlers that take it |
| `StoreTables` | what the scalar store promises: tables that change whole and apart |
| `ScalarStore` | SQLite under several threads and collections, and that it implements `StoreTables` |
| `StoreProofs`, `MCScalarStore` | proofs and instance |
| `BundleFormat` | what is in a bundle and what an import accepts |
| `BundleProofs`, `MCBundleFormat` | proofs and instance |
| `Requests` | a call's way from the client through a front end to the engine and back |
| `RequestsProofs` | the proofs about it |
| `BundleTransfer`, `MCBundleTransfer` | concurrent bundle downloads through one path |
| `TransferProofs` | the proofs about it |
| `IndexSync` | index download and `sync_check` beside the writers |
| `SyncProofs` | the proofs about it |
| `VisitedTable` | the visited set of a graph search (C++), with its proof |

`RWLock` implements `CollectionLock`, and `SearchThreads` extends `RWLock` with the
handlers that use it. The others meet where one details what another takes as a
line: `ScalarStore` has the transactions that are single writes in
`CollectionEngine`, `BundleFormat` what it accepts as an import; `Requests` reduces
the engine to the collection's existence, index, export and state, and `BundleTransfer` and
`IndexSync` detail its two downloads. `drop_collection` is in `CollectionEngine` and
`SearchThreads`, and not in `ScalarStore`.

### CollectionEngine

A handler holds the collection's write lock from its first test to its return,
so at most one is active: `pc` is its position and `arg` its locals. Each action
is one durable write: a rewrite of `collections.json` (`WriteMeta`), a rename or
unlink (`WriteFiles`), or a SQLite transaction (`WriteTables`). The statements of
`import_rows_to_staging` are separate actions because `sqlite3` commits each
statement that defines a table by itself, and `DropFile` removes one file at a
time because `rmtree` does.

* `meta` is the record in memory and `disk` the one in `collections.json`.
  `MetaFlushFails` is the rewrite that raises: `MetaStore` has changed `meta` by
  then and `disk` is as before, until a rewrite for any collection publishes it
  (`OtherCollectionWrites`).
* A table is the sequence of its rows in `row_id` order, an index the sequence of
  rows it was built from. Its length is `n_total`, and it is its own checksum.
* `Crash` may come between any two writes, during recovery too. `Restart` and the
  `Recover...` actions are `_recover_interrupted_imports`, write by write.
* `StepFails` is an exception that a step raises before its write. In the
  preparing part of an import it starts the clean-up (`AbortFile` and so on);
  elsewhere it ends the handler, as in the code.
* `search`, `load_collection` and `close_collection` matter only for what they
  leave in `_indexes` and `_scalar_cache` (`Load`, `PublishIndex`, `Unload`).
  `cacheBehind` (history) is set by an import that finds a cache, which it does not
  replace, until the cache is read or dropped again.

### RWLock and CollectionLock

In `RWLock` an action is what a thread does between two acquisitions of the
condition's mutex: test and go in, test and go to sleep, or release and notify.
`asleep` is the condition's wait set. `CollectionLock` has no wait set: threads
are out, waiting to write, reading or writing, a reader gets in when no writer
is in or waiting, and waiting writers do get in. `ImplementsLock` is the
refinement.

### SearchThreads

A search tests `_indexes` without a lock, loads under the write lock if it must,
lets that lock go, takes the read lock, and looks again. `pc` is where a handler
is, and `at` (of `RWLock`) where its thread is in the lock. Every other handler is
two steps under the write lock, one for what it changes on disk and one for what
it changes in memory, `purge` and `drop` in the opposite order; `CollectionEngine`
has them write by write. Start-up recovery may have left the collection `invalid`,
which a search refuses to load and an export to ship; an export that finds no index
in memory loads it, and leaves the cache alone. A content is a number, so that rows, index and cache
built from each other can be told from others. `overtaken` remembers the searches
whose index somebody has unloaded since they last saw it.

### ScalarStore

`db` is what has been committed. A connection is in a transaction (`open`), may
have fixed a snapshot or made a working copy (`view`), which a commit of another
connection makes an old one (`stale`), and one of them may have SQLite's write
lock (`writer`). That is WAL mode: readers never wait, and an old snapshot cannot
be written from. `sqlite3` begins a transaction before an INSERT and ends none by
itself, so the branch of `insert_batch` that does not roll back ends in
`LeftOpen`. DDL is committed at once outside a transaction and joins one that is
open, which is why `StageTable` has both. `job` is a handler's locals and `meta`
as much of the record as its guards read. A collection name is a sequence of
parts, and `Live` and `Staging` fold it as the code and SQLite do; where names clash,
a handler finds the other collection's rows or no table, and fails as the code would.
A row says with which batch it came, since a batch with a document that sqlite3
cannot bind may be stored in part. `Restart` is a
crash with recovery's part in this file. Handlers of one collection exclude each
other by its lock (`Idle`); those of different collections interleave freely.

`StoreTables` has no staging tables, working copies or write lock: a table changes
in one step, by a whole numbered batch, a whole bundle, or a purge, and always as
it is committed. What it keeps is what a caller can notice: a connection left in a
transaction goes on reading one old instant of all tables (`snapshot`), and never
writes from it. `ImplementsTables` is the refinement: a table is the one `Live`
names, a snapshot is a transaction's view of those tables, and there is one for as
long as the transaction only reads; a handler's change happens at its COMMIT.

### BundleFormat

A row is its `row_id`, document, the length of its vector, and the kind of its
text; a checksum is the content it belongs to. `Export` fills the temporary file,
`Publish` renames it, `Deliver` hands it to a keeper. `Change` does to a kept
bundle what damage or a tool would: to one part of it, or to the rows together
with all that has to agree with them. `Reseal` puts fresh checksums in. `Outcome`
is `read_bundle` followed by the engine's checks, by the class of exception that
they raise. An import is one step here.

### Requests

`jobs` are the calls in the order in which they were made; `place` says how far a
call has got, `raised` what the engine raised, `told` what the client knows, and
`effect` (history) whether the engine has done nothing of it, a part, or all.
`Arrive` needs the server up, and for HTTP the event loop free. HTTP routes wait for
a thread of the pool, gRPC for one of the workers, and HTTP uploads keep the event
loop (`loop`) until the engine has finished. `store` is what an answer depends on:
whether the collection exists, what its index file is to its record, whether its
export covers it, and its state. `Done` is what a whole operation makes of that,
`HalfDone` what is left when one is cut short between its writes, by an exception
(`Break`) or a crash.

`Refuse` is an operation that finds the collection or its arguments wrong before it
does anything. `RefuseLate` is one whose exception the front ends answer as the
caller's fault when something has been done: an insert moves `data_version` and fixes
`dim` before `insert_batch` raises ValueError for a duplicate (or UnicodeEncodeError,
which is one); the `rmtree` of a drop, or the `stat` of an export, meets a download
that unlinks the file. Exceptions are kept by class because the two front ends
answer some classes differently.

A client that gives up or whose connection breaks is one thing (`Lose`): it knows
nothing more, and nothing stops what has reached the server. Over HTTP/2 in the clear
the end of the connection may be taken for the end of the answer (`CutH2c`).
`describe_collection`, `get_version`, `sync_check` and `download_index` take no lock.
`Serve`, `StopHttp` and `GraceOver` are the dual server's start and shutdown.

### BundleTransfer

The engine writes each bundle of a collection to one path under the write lock;
the request's thread opens, reads and unlinks that path later. The data of the
collection is a number that every change increases, and whether an export is
accepted is reduced to the purged state, since `CollectionEngine` has the rest.
An open file keeps its content when the path is replaced or unlinked, so open
and read are one action.

### IndexSync

The writers are serialised by the lock; `writer` is the list of writes that the
one inside has still to do: the file, then the record's fields in the order in
which `setattr` assigns them. The download reads the path, `version`,
`index_checksum` and the file one after the other, without the lock.
`sync_check` is the operator `NeedsSync`, evaluated while no handler is writing.
`records` keeps the record objects of dropped collections, since a reader may
hold one.

### VisitedTable

One byte for each vertex holds the number of the search that marked it last, or,
for `visno = 0`, a hash set is used. `advance` takes the next number, and clears
the bytes when the numbers start again. It has a proof and no run: an instance
would need 254 searches before anything happens.

## 3. What is checked

Every property of a passing run has a mutant of the model that breaks it.

| Run | Shows |
|---|---|
| `engine_crash` | With a crash between any two writes. `EligibleMeansExported`: a purge that would be authorised deletes only rows that are in a written bundle. `FreshIndexMatchesRows`: `index_version = data_version` means that the index was built from the rows in the table, and `SearchReturnsTheRightRow` that its labels are resolved to them, by the scalar cache or the table, unless an import has come since the cache was filled. `ImportAllOrNothingOverIndex`: an import into a collection that has an index leaves both halves old or both new. `DataVersionNeverGoesBack`; `ImportResolves`: an import does not stay pending. `PurgeSafety` is the invariant behind the proofs |
| `engine_faults` | with uploads, an exception at any step and a crash: the purge guard for the rows (`EligibleMeansExported`), and for the index until the first fault (`EligibleMeansIndexExported`); every bundle written has as many rows as its index, which an import asks of it, until something raises (`ExportedBundleAgrees`); and an import that ended after an exception has swept its staged file and table, unless it left its intent for a restart (`FailedImportIsSwept`) |
| `rwlock` | counters, exclusion, nobody asleep with nobody left to wake him; the refinement of `CollectionLock` with its fairness; readers get in once writers stop coming |
| `search` | a search answers from one instant (`SearchAtOneInstant`); it misses its index (the `KeyError`) only when another handler unloaded it in between (`IndexLostOnlyWhenOvertaken`); no handler comes to the lock with the lock in its hands (`ThreadsTypeOK`); when requests stop coming all of them end (`RequestsEnd`) |
| `store` | rows of one collection never get into another's table (`OwnRowsOnly`, for names that do not clash); an insert is in whole or not at all (`WholeInsertsOnly`); no handler that has ended keeps the write lock (`NoIdleWriter`); only a purge leaves a collection without its table (`TableStays`); all of it is `StoreTables` to the engine (`ImplementsTables`); every row came with an insert that had moved the version first, and nobody writes from an old snapshot (`TypeOK`) |
| `bundle` | of any bundle that is accepted the labels resolve (`LabelsResolve`); a change is noticed unless the bundle was sealed again (`OnlyExportedContent`); an untouched bundle of plain texts is accepted, whatever its collection went through (`OwnPlainBundleRestores`); every date fits a ZIP entry (`TypeOK`) |
| `requests` | who is told that a call is done can rely on it, and who is told that it was refused can rely on nothing having been done, with the three exceptions of section 5 (`AnswersAreTrue`); every request that arrived ends and takes its temporary file along (`RequestsAnswered`); no more handlers run than there are workers (`TypeOK`) |
| `transfer` | a download is never older than its request, no bundle stays behind, none survives a purge |
| `sync` | a client that is told it is current is current: by version while no version is used twice, by checksum while no earlier index comes back |

### Bounds

Two rows, inserted one at a time and in either order, are the least that let two
tables of equal length differ, which is what recovery's count cannot tell. A
third row adds no case: no test in the code compares more than lengths, equality
and versions. `engine_crash` has a scalar cache for up to one row, so that there are
collections with a cache and without. `MaxDataVersion` is 3 or 4 and `MaxVersion` 3: insert, flush, export,
and an import or a purge, and one more change. One crash reaches every position,
recovery's included; section 5 has what a second one does to an import. One exception
covers each write; `engine_faults` inserts one row only and takes the other from an
imported bundle, since the guards it checks compare versions and numbers, and has
no cache, which none of them reads. The uploaded index is as long as the full table and longer than
a table of one row. Bounds are
in the guards of the calls only, so a handler that has begun always finishes.
Four threads in the lock are two readers and two writers in every arrangement;
three downloads let one disturb a second while a third is in the lock. Three
index contents let one that was replaced come back, and two records let a
collection be created again.

In `store`, two threads and two collections are the least that compete for one
file; the collections are `x` and `x_`, whose names differ in the character that
others become. Of a batch of two the second document may be there already, so
that it stops half way. A third thread would find what the second finds: a locked
database or an old snapshot. In `search`, three threads are one that searches, one
that unloads and one that waits; three calls let each have one. In `bundle`, two
rows are the least whose numbers can be swapped, shifted or doubled; one change is
enough as it may take everything that has to agree with it along; the clock says
1979, 1980, 2107 and 2108, both ends of what a ZIP entry can hold. Documents and
schemas are symmetric: they are compared for equality only. In `requests`, two
calls, one HTTP thread and one gRPC worker make calls wait for each other and for
the lock; one exception or crash may happen, besides any number of broken
connections and timeouts and a shutdown; two sizes tell what gRPC or HTTP refuses
from what they take. The operations are those whose answers have something to get
wrong (insert, drop, both uploads, both downloads); the theorem has the others. In
`search` the collection may have been marked invalid by the recovery before it.

`CHECK_DEADLOCK FALSE` is given where the bounds on calls and changes end the
behaviours (`transfer`, `sync`, `store`, `search`, `requests` and
`v_purge_behind_snapshot`).

### Fairness

`CollectionEngine!FairSpec` is weak fairness of the handler's next write, of the
restart, and of recovery: a thread that has begun goes on, and the deployment
restarts the server. No call is fair, as clients need not call. `RWLock!FairSpec`
has weak fairness of releases (the `with` block ends) and of the retry of a
thread that has been woken (the interpreter schedules it); `CollectionLock`
promises that a waiting writer gets in, on the strength of no reader entering
before it. Nothing there assumes that a thread asks for the lock.
`SearchThreads!FairThreads` is weak fairness of each thread's next step, retries
of `wait()` included: a thread that can run does. `RequestsEnd` is about requests
that have an end (`MaxCalls`); that a stream of writers lets searches in is not
claimed, and not so. `Requests!FairSpec` is weak fairness of the server's steps
for each call that has arrived. Neither the client nor the network is fair, and
nobody has to stop the server.

## 4. What is proved

Each theorem holds for every value of the constants.

**`CollectionProofs`.** From `ConstantsAssumption` (batches, bundles and uploads
consist of rows) and `NoneAssumption` (None is no number, table or import record):
`TypeCorrect`, `PurgeSafetyHolds`, `PurgeDeletesOnlyExportedRows`
(`Spec => []EligibleMeansExported`), `IndexExportedBeforePurge` and `BundlesAgree`,
for any rows, bundles and uploads, any size of the scalar cache and any number of
crashes and exceptions (the last two state in their premises what a fault ends).
`FailedImportSweeps` (`FailedImportIsSwept`) is for at most one exception, and clients
whose older bundles have as many rows as their index says; with a second one the
clean-up itself may be what fails. `VersionKept` is for any number of crashes, where no
step raises (`MaxFailures = 0`; section 5 says why). `ImportIsAllOrNothing`,
`FreshIndexIsOfTheRows` and `SearchReturnsTheRow` assume at most one crash besides
(`MaxCrashes <= 1`; a second one can break the first of them, section 5), and the last
two that nobody uploads an index and that the bundles clients bring have rows and
index alike (`HonestClients`). `SearchReturnsTheRow` is for any size of the cache: it
says nothing between an import and the next reading of the cache, where the statement
is false (`v_cache_behind_import`).

`EligibleMeansExported` is not inductive: it speaks of idle states only, and it
rests on what the record says in the meantime. The inductive invariant is
`TypeOK /\ PurgeSafety`. `PurgeSafety` says of *both* copies of the record, since
a crash makes `disk` the next `meta` and a rewrite makes `meta` the next `disk`,
that

* the last export is not newer than the data (`ExportNotNewer`), so raising
  `data_version` ends eligibility for good;
* a pending import will publish a version no export has named (`TxnNewer`), so a
  roll-forward makes nothing eligible;
* an export that names the present `data_version` covers the present rows
  (`CoveredIfExported`).

The other conjuncts say what holds in the middle of a handler: between the bump
and the rows of an insert neither copy matches an export (`InsertInv`), the
bundle of an export in progress holds the rows (`ExportInv`), and an import in
progress has staged the rows of a bundle that exists (`ImportInv`). There is one
lemma per group of actions. More invariants build on it:

* `IndexInv`: until something crashes or raises, the recorded checksum is the
  file's wherever no handler is between replacing the one and the other, and the
  exported checksum is of an index in a bundle;
* `LoadedInv`: the index in memory is the one in the file, so comparing the length
  of the one speaks of the other;
* `VersionInv`: both copies of the record are the same, and a pending import will
  publish the version that follows;
* `AttemptInv`: what index, rows and side copies hold at each position of an import
  and of its recovery. While the commit intent is on disk, either both halves of
  the bundle are in and the staging table is gone, or the old rows are there and the
  old index can be put back; that is what `SwitchDone` tells apart;
* `SweptInv`: which of the staged file and the staged table are gone at each position of
  an import and its clean-up, and that the intent is in the record once the switch begins;
* `FreshInv`: whenever the record claims that the index is that of the table, it is,
  or it has been deleted, unless an import is between its renames; and then the index
  set aside was that of the old rows, so a roll-back makes the claim true again.

**`LockProofs`.** For any finite set of threads: `LockSafe` (the counters count,
exclusion), `WakeupsKept` (nobody sleeps without a holder or a woken thread that
will wake him), and `StepImplements`, which maps every step of `RWLock` to a step
or a stutter of `CollectionLock`. The counters are cardinalities, so the proofs
go through lemmas on adding one thread to a finite set and taking it away.

Of the handlers over it, `HandlersKeepLock` carries `LockSafe` and `WakeupsKept`
over to the handlers, which move the lock only by `RWLock`'s actions; `HandlersBalanced` says that each of them calls these as the
lock expects; from both follows `SearchConsistent`, since what a search has read
could be changed only under the write lock. `IndexKeptUnlessOvertaken` is
the same for the time in which a search holds no lock: whoever unloads the index
then has overtaken it.

**`StoreProofs`.** `RowsStayApart` assumes `SeparateNames`, which nothing in the
server enforces (section 5); its invariant speaks of every table a connection may
see, the committed ones and each snapshot and working copy, of each handler's
locals, and of each bundle.

Three theorems are for any names, clashing ones too, and any documents, those that
cannot be bound too: `OneWriter` (every row came with an insert that had moved its
collection's version first, and the discipline of the transactions), `InsertsWhole`
and `WriteLockAtWork`. The last two except only the very batch that cannot be bound:
a part of it may be stored, and SQLite's write lock stay with its connection. Their
invariant `AnyInv` says that every table there is, committed, copied, staged or in a
bundle, holds whole inserts of versions up to the record's (`TablesInv`), what a
handler has in its locals (`HandlersInv`), and where a write lock may be
(`LockInv`). What another collection's handler does to a shared table, it does to all
the rows of an insert alike.

`TablesImplemented`, `LabelsAreRowIds` (the row ids of a table are 0, 1, 2 and so on,
which is what makes an index label a row id) and `OnlyPurgeDrops` assume
`SeparateNames` and `Unbindable = {}`: without the first two collections number one
table, without the second a part of a batch is published later, and neither is a step
of `StoreTables`.

None of these is inductive: they speak of the committed tables, and what a commit
will publish is a copy somebody took earlier. Under those assumptions `RowsInv` speaks of
every copy and of what each handler counts on:

* the committed tables, each bundle and each transaction's tables hold whole inserts
  only, numbered from 0, of versions up to the record's (`SoundTables`);
* a transaction that writes sees what is committed but for its own collection's two
  tables, one that only reads sees what is committed unless it has been overtaken
  (`ViewOf`), so to commit changes no other collection;
* a handler between two statements finds what it read before them: the row ids and
  the version that an insert took before its transaction still follow on the table,
  the staging table of an import is there and the live one is as committed
  (`HandlerOf`). Nobody else works on the collection, since its lock is held.

A step is shown to be `Proper` for its collection once per handler, and what such a
step leaves of the others is shown once (`OthersKept`).

`TablesImplemented` is the refinement of `StoreTables`, for any threads, names and
batches. A step that commits maps to the change it publishes, every other one to a
look or a stutter, and the argument for the former is that part of `HandlerOf` which
says what a commit is about to publish: the committed table and the numbered batch,
documents that are not in it and a version above it, or the bundle that was staged.
A purge needs one invariant more: a record that names an export has a bundle. That
a step is `Proper` leaves only its own collection's table, bundle and snapshot to
be mapped.

`NoneIsNoData`, a hypothesis of these six, says that None is no set
of rows, no row and no contents of the tables; TLC cannot evaluate it of a model value, so it is no ASSUME.

**`BundleProofs`.** `ImportedLabelsResolve`: the rows are numbered 0 to n-1 each
once, as `Covers` accepts no others and an insert goes on from the greatest
(`LabelInv`). `DamageIsNoticed`: until somebody seals it again, each checksum in a
kept bundle is the original's or missing (`SealInv`). `OwnBundlesReturn`: what
`create_bundle` wrote passes every check of the reader and the engine, text aside,
because inserts and imports keep a collection's rows distinct, numbered and of one
dim, and its index of the same rows (`OwnInv`). `DatesFit`: the types, with every
date on which somebody changed a bundle one that a ZIP file can hold.

**`TransferProofs`.** For any number of downloads, purges and crashes:
`DownloadsRecent`, `NothingLeftBehind`, `PurgedWithoutBundle` and
`TransferTyped`. The invariant says who will unlink a bundle that is on the server
(`Minded`), and that the file a download will find was made after it asked
(`Recent`): a file is replaced only by a newer one.

**`SyncProofs`.** `CurrentByVersion`, `CurrentByChecksum` and `SyncTyped`, for any
number of indexes, versions and records. What a handler has still to write is part
of the invariants, as a download may read between any two of its writes. While no
version has been used twice, a version that can be read determines the index that
will be there when the writes are done (`VersionInv`); with checksums the argument
is about the latest index, which no copy can have under the checksum of another
(`ChecksumInv`, `Settled`).

**`RequestsProofs`.** For any number of calls, clients and threads, and every
operation. `ToldTruly` (`AnswersAreTrue`) is not inductive, as an answer is made of
what was done several steps before. `JobsInv` says per call how far it has come and,
of each place it may be at, what has been done for it and what was raised
(`Progress`), and that what the client was told agrees (`Honest`). What an engine
that refuses has done is in `EngineLeft`.
`WorkersBounded` (`TypeOK`): at most `HttpThreads + 1` HTTP calls are served at
once, which is not inductive, because the one over is the upload that runs on the
event loop; `WorkersInv` bounds the others by `HttpThreads`.

**`VisitedTable`.** `MarksExact`: a vertex is found marked exactly when this
search has marked it, because no byte holds a number still to come.

**Model-checked only.** Liveness (`ImportResolves`, `ReadersGetIn`, `RequestsEnd`,
`RequestsAnswered`, the fairness half of `ImplementsLock`), because TLAPS does not
reason about fairness. Every invariant and every action property of a passing run
is a theorem.

## 5. Where the code and its documentation part

Each of three runs finds a property violated; `PROJECT.json` quotes the statement.

| Run | What happens |
|---|---|
| `v_purge_behind_snapshot` | an insert that finds the database locked leaves its connection in a transaction; the thread's next SELECT fixes a snapshot there, its flush and export describe that snapshot, and the purge they authorise deletes rows that another thread has inserted since |
| `v_cache_behind_import` | an import replaces rows and index and leaves the scalar cache as it was (`engine.py:1064`; a flush or a load fills it, by default for up to 1,000,000 rows): the searches that follow answer new labels with old rows, until a flush, load, close or insert |
| `v_bundle_unreadable` | a bundle whose texts hold U+0085, U+2028 or U+2029, or whose texts or index compress more than 200 to 1, cannot be imported again |

Further statements are definitions of the modules that no run lists. To see the
counterexample of one, add it to the configuration as said:

| Definition | How | What happens |
|---|---|---|
| `ImportAllOrNothing` | as an invariant of `engine_crash` | an import into a collection with no index, interrupted after its index is in place, leaves the new index over the old rows: nothing had been set aside, so recovery takes the new one for the old |
| `ImportAllOrNothingOverIndex` | `engine_crash` with `MaxCrashes = 2` | a crash during a rollback, which drops the staging table first, makes the next recovery roll forward over old rows |
| `FreshIndexMatchesRows` | `engine_crash` with `MaxFailures = 1` | a drop whose metadata rewrite failed and was retried comes back after a restart, ready and without rows |
| `DeliveredAsClaimed` | as an invariant of `transfer` | of two downloads at once one can send the other's bundle under its own checksum |
| `PurgeAfterDownload` | as a property of `transfer` | a purge comes between the recorded export and the read of its file: it is authorised, and the download fails |

The premises of the passing properties mark further places to know of. Each was
seen in a counterexample when its premise was left out:

* `EligibleMeansIndexExported` holds until the first fault: a crash in
  `upload_index` between the file and the record leaves an index that no bundle
  holds behind a record that authorises its purge.
* `ExportedBundleAgrees` holds until something raises: when `upload_index` raises
  after it has replaced the file, export compares the counts of the index in
  memory and ships the file.
* `FailedImportIsSwept` leaves out an import that failed in its switch, which leaves
  the side copies and the intent to the next restart on purpose, and holds until a
  crash.
* `DataVersionNeverGoesBack` needs `MaxFailures = 0`: inserts after a failed
  import switch are followed by a recovery that publishes the older version of
  the pending import; and two rewrites that fail, a drop's and the next
  create's, publish the record of the second collection over the first's.
* `VersionSyncSound` holds while no version is used twice: an upload may keep the
  server's version, and a collection of the same name starts again at 1.
* `ChecksumSyncSound` holds while no earlier index comes back: a download that was
  overtaken keeps one index under the checksum of another. A flush between the
  headers and the file is enough to give a client headers that do not describe
  the body.
* `OwnRowsOnly` holds for `SeparateNames`: `a-b` and `a_b`, `Docs` and `docs`
  (SQLite does not tell capitals apart), and `x__import` beside `x` share a table.
* `WholeInsertsOnly` and `NoIdleWriter` except batches that are not `Bindable`: a lone
  surrogate in a text raises UnicodeEncodeError in the middle of a batch, which leaves
  a part of it pending, to be published with the next commit of the same thread, and
  SQLite's write lock with a thread that has gone home.
* `AnswersAreTrue` has three exceptions, refusals after which something has been done.
  An insert whose batch is refused (400, INVALID_ARGUMENT) has moved `data_version`
  and may have fixed `dim`: the index is stale, the export does not count any more,
  and rows of the batch may be pending in its connection. A drop is answered "not
  found" when a download unlinks the bundle under its `rmtree`: the record and the
  table are gone. A gRPC download whose file another one has taken away is answered
  NOT_FOUND with its export recorded; HTTP answers 500. And it does not speak of
  clients that are told of a fault or of nothing: they cannot know.
* Nothing is claimed of the content of a download over HTTP/2 in the clear: the
  client's loop over events (`pyhypervec/client.py:265`) ends with the connection as
  it ends with the stream, and what has come of a file is taken for the file; an empty
  body of another answer is taken for `None` or `{}` (`client.py:85`, `:626`).

And these follow from what is not there or not alike:

* `insert` and `flush` leave the state at `purged` after a purge, in which export
  refuses; `flush` and `load_collection` load an index in the state `invalid`,
  after which searches are served; a drop that is interrupted after the record is
  gone leaves a table that the next collection of that name takes over.
* gRPC refuses bundles over 256 MB both ways, a download after it has recorded the
  export; HTTP refuses an upload over 2 GiB that it gives as a download.
* A TypeError of the engine is a 500 over HTTP and INVALID_ARGUMENT over gRPC.
* HTTP's upload routes are `async` and run the engine, which waits for the
  collection's lock, on the event loop: every HTTP request waits with them.
* The client makes no call twice and does not wrap a timeout in
  `HypervecClientError`; the call that timed out may still take effect.
* The client saves a bundle with `target.write_bytes` (`pyhypervec/client.py:582`),
  over an earlier good copy, which an interruption leaves truncated.
* A crash leaves the temporary files of uploads behind.
* A bundle made by hand without `dim` in its manifest may bring rows of another
  length than the index has; rows that are not objects end in a TypeError.
* `visited_table.h` speaks of search numbers 1 to 250; the code uses 1 to 254.

## 6. What is not modelled

* The power failing: a write that has returned is durable, and renames are
  atomic. The code does not call `fsync`.
* A half-written staging, temporary or ZIP file: recovery never uses the staging
  file's content, and every other file is renamed into place when complete.
* The content of vectors, the index's structure and configuration, the filter
  language, and two builds of the same rows that differ in bytes.
  `CollectionEngine` has one `dim`; `BundleFormat` has several.
* `import_rows` of the scalar store, which nothing calls, and the migration
  defaults of the record's `from_dict`.
* An exception inside `Condition.wait`: handler threads receive no signals.
* The HTTP and the gRPC server each run alone, TLS, and the choice of a free port:
  `Requests` has the dual server, which includes both.
* In `IndexSync`, crashes; in `BundleTransfer`, purges with
  `require_exported=False`, which anyone who sends one has asked for.
* Start-up recovery runs before requests are served, so it needs no lock.
* A recovery that finds the database damaged: `count` answers 0 then.
* Generated code (protobuf and SWIG wrappers) and argument conversion.
* The C++ library but for `VisitedTable`: it keeps no state between the server's
  calls but the index object itself, which is guarded by the collection's lock.
  Much of it is numerics. Its graph, lists and heaps are the first thing a
  project of its own would model.

## 7. Plan

1. The migration of old records, and recovery of several collections in one
   `collections.json`, one of which fails.
2. `CollectionSpec`, an abstract collection (rows, an index of a snapshot of them,
   what has been exported) that `CollectionEngine` without faults implements.
3. Proofs: every step of `CollectionEngine` maps to a step or a stutter of 2, first
   without faults and then with one crash.
4. C++: the heaps and the reservoir against a reference definition, inverted lists
   and the id map with removal, HNSW's levels and neighbour lists.

Recursive definitions stay in modules without theorems; what is to be proved about
is written with functions and folds.
