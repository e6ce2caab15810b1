-------------------------- MODULE CollectionEngine --------------------------
(***************************************************************************)
(* The server engine's handling of one collection:                         *)
(* src/src/python/hypervec_server_engine.py over the metadata store        *)
(* (collections.json), the scalar store (one SQLite table) and the index   *)
(* files of the collection's directory.                                    *)
(*                                                                         *)
(* The three stores cannot be written in one transaction.  Each handler    *)
(* holds the collection's write lock and writes them one after the other;  *)
(* an action is one such write, pc is the handler's position, and a crash  *)
(* or a raised exception may come between any two writes.                  *)
(*                                                                         *)
(* A row is a member of Docs (its doc_id, vector and text), a table is the *)
(* sequence of its rows in row_id order (row_id i is position i+1, a       *)
(* missing table is the empty one), and the content of an index is the     *)
(* sequence of rows it was built from, so that its n_total is a length and *)
(* its checksum is the content itself.                                     *)
(***************************************************************************)
EXTENDS Integers, Sequences, FiniteSets

CONSTANTS
  Docs,             \* rows a client may insert
  None,             \* Python's None, and "the file or table is not there"
  Batches,          \* the row lists clients insert
  ExternalBundles,  \* bundles clients already hold (from an earlier session)
  UploadIndexes,    \* index contents clients upload with upload_index
  CacheMaxRows,     \* HYPERVEC_SCALAR_CACHE_MAX_ROWS
  MaxRows, MaxDataVersion, MaxVersion, MaxCrashes, MaxFailures  \* bounds

Bundle == [index : Seq(Docs), rows : Seq(Docs)]

ASSUME ConstantsAssumption ==
  /\ Batches \subseteq Seq(Docs)
  /\ ExternalBundles \subseteq Bundle
  /\ UploadIndexes \subseteq Seq(Docs)
  /\ CacheMaxRows \in Int
  /\ {MaxRows, MaxDataVersion, MaxVersion, MaxCrashes, MaxFailures} \subseteq Nat

VARIABLES
  meta,         \* MetaStore._data[name]: the record in memory
  disk,         \* the same record in collections.json
  rows,         \* table docs_<name>
  stagingRows,  \* table docs_<name>__import
  indexFile,    \* index.hypervec
  stagingFile,  \* index.hypervec.import.staging
  preFile,      \* index.hypervec.pre-import
  memIndex,     \* _indexes[name]
  memCache,     \* _scalar_cache[name]
  cacheBehind,  \* history: an import has replaced the rows memCache was read from
  pc,           \* position of the handler that holds the write lock
  arg,          \* its local variables
  produced,     \* history: bundles create_bundle has finished writing
  returned,     \* history: bundles a client has received
  attempt,      \* history: what the last import started from and was given
  crashes, failures

tables  == <<rows, stagingRows>>
files   == <<indexFile, stagingFile, preFile>>
durable == <<tables, files>>
memory  == <<memIndex, memCache, cacheBehind>>
history == <<produced, returned, attempt>>
counts  == <<crashes, failures>>
vars    == <<meta, disk, durable, memory, pc, arg, history, counts>>

-----------------------------------------------------------------------------
(* The metadata record.  All rows have the one dimension Dim, so dim only tells *)
(* whether it has been fixed; import_txn carries the fields that recovery reads. *)

Dim == "dim"

DataStates == {"absent", "ready", "purged", "importing", "invalid"}

ImportTxn == [new_data_version : Nat, prev_state : DataStates, total : Nat]

\* None is none of the values it stands in for the absence of.
ASSUME NoneAssumption == None \notin Nat /\ None \notin Seq(Docs) /\ None \notin ImportTxn

FreshMeta ==
  [data_state |-> "ready", dim |-> None, total |-> 0, version |-> 1,
   data_version |-> 1, index_version |-> 0, index_checksum |-> None,
   exported_data_version |-> None, exported_index_version |-> None,
   exported_index_checksum |-> None, import_txn |-> None]

NoMeta == [FreshMeta EXCEPT !.data_state = "absent"]

Exists == meta.data_state # "absent"

\* MetaStore.create, update, bump_version and set_version: the record is changed
\* in memory and the whole store is then rewritten and renamed into place.
WriteMeta(m) == meta' = m /\ disk' = m /\ UNCHANGED durable

\* A rename, an unlink or a replacement of the collection's files.
WriteFiles(index, staging, pre) ==
  /\ indexFile' = index /\ stagingFile' = staging /\ preFile' = pre
  /\ UNCHANGED <<meta, disk, tables>>

\* One SQLite transaction on the collection's tables.
WriteTables(live, staging) ==
  /\ rows' = live /\ stagingRows' = staging
  /\ UNCHANGED <<meta, disk, files>>

\* Mutants of the next definition: the test of the data snapshot, or of the
\* index's checksum, is dropped.
EligibleByIndex(m) ==
  /\ m.exported_index_version = m.index_version
  /\ m.exported_index_checksum = m.index_checksum

EligibleByVersion(m) ==
  /\ m.exported_data_version = m.data_version
  /\ m.exported_index_version = m.index_version

\* What purge_collection_data(require_exported=True) asks of the record.
Eligible(m) ==
  /\ m.exported_data_version = m.data_version
  /\ m.exported_index_version = m.index_version
  /\ m.exported_index_checksum = m.index_checksum

\* _refresh_scalar_cache, for a record whose total is n.
CacheOf(n) == IF CacheMaxRows <= 0 \/ n > CacheMaxRows THEN None ELSE rows

\* What is in memory: nothing; an index and the scalars read with it; or an index
\* published over the scalars that were there.
Unload == memIndex' = None /\ memCache' = None /\ cacheBehind' = FALSE

Load(index, n) == memIndex' = index /\ memCache' = CacheOf(n) /\ cacheBehind' = FALSE

PublishIndex(index) == memIndex' = index /\ UNCHANGED <<memCache, cacheBehind>>

-----------------------------------------------------------------------------
(* Handlers take the lock, test their guards and then go from step to step. *)

Call(first, locals) ==
  /\ pc = "idle" /\ pc' = first /\ arg' = locals
  /\ attempt' = None
  /\ UNCHANGED <<meta, disk, durable, produced, returned, counts>>

Step(here, next) == pc = here /\ pc' = next /\ UNCHANGED <<arg, history, counts>>

Return(here) == pc = here /\ pc' = "idle" /\ arg' = None /\ UNCHANGED <<history, counts>>

Init ==
  /\ meta = NoMeta /\ disk = NoMeta
  /\ rows = <<>> /\ stagingRows = None
  /\ indexFile = None /\ stagingFile = None /\ preFile = None
  /\ memIndex = None /\ memCache = None /\ cacheBehind = FALSE
  /\ pc = "idle" /\ arg = None
  /\ produced = {} /\ returned = {} /\ attempt = None
  /\ crashes = 0 /\ failures = 0

-----------------------------------------------------------------------------
(* create_collection.  ensure_table creates the table if it does not exist: *)
(* a table left behind by an earlier collection is taken over as it is.     *)

CallCreate == ~Exists /\ Call("create", None) /\ UNCHANGED memory

Create ==
  /\ Return("create")
  /\ WriteMeta(FreshMeta) /\ UNCHANGED memory

(* drop_collection: record, then table, then directory.  MetaStore.delete *)
(* rewrites the store only when the collection was there.                 *)

CallDrop == Call("drop_meta", None) /\ UNCHANGED memory

DropMeta ==
  /\ Step("drop_meta", "drop_table")
  /\ meta' = NoMeta
  /\ disk' = IF Exists THEN NoMeta ELSE disk
  /\ Unload
  /\ UNCHANGED durable

DropTable ==
  Step("drop_table", "drop_dir") /\ WriteTables(<<>>, stagingRows) /\ UNCHANGED memory

\* rmtree removes the directory's files one by one.
DropFile ==
  /\ Step("drop_dir", "drop_dir")
  /\ \/ indexFile # None   /\ WriteFiles(None, stagingFile, preFile)
     \/ stagingFile # None /\ WriteFiles(indexFile, None, preFile)
     \/ preFile # None     /\ WriteFiles(indexFile, stagingFile, None)
  /\ UNCHANGED memory

DropDir ==
  /\ Return("drop_dir")
  /\ indexFile = None /\ stagingFile = None /\ preFile = None
  /\ UNCHANGED <<meta, disk, durable, memory>>

-----------------------------------------------------------------------------
(* insert: data_version first, then the rows, then total. *)

CallInsert(batch) ==
  /\ Exists
  /\ meta.data_version < MaxDataVersion /\ Len(rows) + Len(batch) <= MaxRows
  /\ Call("insert_bump", [batch |-> batch]) /\ UNCHANGED memory

\* Mutant: the record keeps its data_version.
InsertDimMeta == [meta EXCEPT !.dim = IF arg.batch = <<>> THEN @ ELSE Dim]

InsertBumpMeta ==
  [meta EXCEPT !.dim = IF arg.batch = <<>> THEN @ ELSE Dim, !.data_version = @ + 1]

InsertBump ==
  /\ Step("insert_bump", "insert_rows")
  /\ WriteMeta(InsertBumpMeta) /\ UNCHANGED memory

\* doc_id is UNIQUE in the table.
NoDuplicate(s) == \A i, j \in DOMAIN s : s[i] = s[j] => i = j

InsertRows ==
  /\ Step("insert_rows", "insert_total")
  /\ NoDuplicate(rows \o arg.batch)
  /\ WriteTables(rows \o arg.batch, stagingRows) /\ UNCHANGED memory

\* IntegrityError: the batch is rolled back and the handler raises.
InsertDuplicate ==
  /\ Return("insert_rows")
  /\ ~NoDuplicate(rows \o arg.batch)
  /\ UNCHANGED <<meta, disk, durable, memory>>

InsertTotalMeta == [meta EXCEPT !.total = Len(rows)]

InsertTotal ==
  /\ Return("insert_total")
  /\ WriteMeta(InsertTotalMeta)
  /\ Unload

-----------------------------------------------------------------------------
(* flush: build an index from the rows, replace the file, then the record. *)

CallFlush ==
  /\ Exists /\ meta.dim # None /\ rows # <<>>
  /\ meta.version < MaxVersion
  /\ Call("flush_write", None) /\ UNCHANGED memory

FlushWrite ==
  /\ Step("flush_write", "flush_meta")
  /\ WriteFiles(rows, stagingFile, preFile) /\ UNCHANGED memory

FlushMetaRecord ==
  [meta EXCEPT !.version = @ + 1, !.dim = Dim, !.total = Len(rows),
               !.index_version = meta.data_version, !.index_checksum = indexFile]

FlushMeta ==
  /\ Return("flush_meta")
  /\ WriteMeta(FlushMetaRecord)
  /\ Load(rows, Len(rows))

-----------------------------------------------------------------------------
(* load_collection, the load that search does when nothing is loaded, and *)
(* close_collection write nothing durable.                                *)

LoadUnlocked ==
  /\ Load(indexFile, meta.total)
  /\ UNCHANGED <<meta, disk, durable, pc, arg, history, counts>>

LoadCollection == pc = "idle" /\ Exists /\ indexFile # None /\ LoadUnlocked

SearchLoad ==
  /\ pc = "idle" /\ memIndex = None
  /\ Exists /\ meta.data_state # "invalid" /\ indexFile # None
  /\ LoadUnlocked

CloseCollection ==
  /\ pc = "idle"
  /\ Unload
  /\ UNCHANGED <<meta, disk, durable, pc, arg, history, counts>>

-----------------------------------------------------------------------------
(* upload_index: replace the file, then the record.  A version that is given *)
(* and not refused is at least the current one, so max() takes it.           *)

CallUpload(index, version) ==
  /\ Exists
  /\ version # None => version >= meta.version
  /\ meta.version < MaxVersion
  /\ Call("upload_file", [index |-> index, version |-> version]) /\ UNCHANGED memory

UploadFile ==
  /\ Step("upload_file", "upload_meta")
  /\ WriteFiles(arg.index, stagingFile, preFile) /\ UNCHANGED memory

UploadMetaRecord ==
  [meta EXCEPT !.version = IF arg.version = None THEN @ + 1 ELSE arg.version,
               !.index_version = meta.data_version, !.index_checksum = indexFile]

UploadMeta ==
  /\ Return("upload_meta")
  /\ WriteMeta(UploadMetaRecord)
  /\ PublishIndex(arg.index)

-----------------------------------------------------------------------------
(* export_collection_bundle.  The counts are compared on the loaded index,  *)
(* the bundle is built from the file; the index stays loaded either way.    *)
(* The export counts once the record is written; the client has the bundle  *)
(* only when the response has been sent.                                    *)

ExportGuard ==
  /\ Exists /\ meta.data_state \notin {"purged", "importing", "invalid"}
  /\ indexFile # None
  /\ meta.index_version = meta.data_version

LiveIndex == IF memIndex = None THEN indexFile ELSE memIndex

\* Mutant: n_total is not compared.
TotalAgrees == Len(rows) = meta.total

CountsAgree == Len(LiveIndex) = Len(rows) /\ Len(rows) = meta.total

CallExport ==
  /\ ExportGuard /\ CountsAgree
  /\ Call("export_bundle", None)
  /\ PublishIndex(LiveIndex)

ExportRefused ==
  /\ pc = "idle" /\ ExportGuard /\ ~CountsAgree
  /\ PublishIndex(LiveIndex)
  /\ UNCHANGED <<meta, disk, durable, pc, arg, history, counts>>

ExportBundle ==
  /\ pc = "export_bundle" /\ pc' = "export_meta"
  /\ arg' = [index |-> indexFile, rows |-> rows]
  /\ produced' = produced \cup {arg'}
  /\ UNCHANGED <<meta, disk, durable, memory, returned, attempt, counts>>

ExportMetaRecord ==
  [meta EXCEPT !.exported_data_version = meta.data_version,
               !.exported_index_version = meta.index_version,
               !.exported_index_checksum = meta.index_checksum]

ExportMeta ==
  /\ Step("export_meta", "export_return")
  /\ WriteMeta(ExportMetaRecord) /\ UNCHANGED memory

ExportReturn ==
  /\ pc = "export_return" /\ pc' = "idle" /\ arg' = None
  /\ returned' = returned \cup {arg}
  /\ UNCHANGED <<meta, disk, durable, memory, produced, attempt, counts>>

-----------------------------------------------------------------------------
(* import_collection_bundle.  Prepare: index to the side file, rows to the *)
(* side table, commit intent to the record.                                *)

CallImport(bundle) ==
  /\ Exists
  /\ meta.data_version < MaxDataVersion /\ meta.version < MaxVersion
  /\ pc = "idle" /\ pc' = "import_file"
  /\ arg' = [bundle |-> bundle, new_data_version |-> meta.data_version + 1,
             prev_state |-> meta.data_state]
  /\ attempt' = [index |-> indexFile, rows |-> rows, bundle |-> bundle]
  /\ UNCHANGED <<meta, disk, durable, memory, produced, returned, counts>>

ImportFile ==
  /\ Step("import_file", IF Len(arg.bundle.index) = Len(arg.bundle.rows)
                         THEN "import_drop" ELSE "abort_file")
  /\ WriteFiles(indexFile, arg.bundle.index, preFile) /\ UNCHANGED memory

\* import_rows_to_staging: sqlite3 commits each DDL statement by itself.
ImportDrop ==
  Step("import_drop", "import_create") /\ WriteTables(rows, None) /\ UNCHANGED memory

ImportCreate ==
  Step("import_create", "import_rows") /\ WriteTables(rows, <<>>) /\ UNCHANGED memory

ImportRows ==
  /\ Step("import_rows", "import_intent")
  /\ WriteTables(rows, arg.bundle.rows) /\ UNCHANGED memory

ImportIntentMeta ==
  [meta EXCEPT !.data_state = "importing",
               !.import_txn = [new_data_version |-> arg.new_data_version,
                               prev_state |-> arg.prev_state,
                               total |-> Len(arg.bundle.rows)]]

ImportIntent ==
  /\ Step("import_intent", "switch_aside")
  /\ WriteMeta(ImportIntentMeta) /\ UNCHANGED memory

(* Commit switch: live index aside, staged index in, staged rows in (one *)
(* SQLite transaction), record, old index away.                          *)

SwitchAside ==
  /\ Step("switch_aside", "switch_index")
  /\ WriteFiles(None, stagingFile, IF indexFile # None THEN indexFile ELSE preFile)
  /\ UNCHANGED memory

SwitchIndex ==
  /\ Step("switch_index", "switch_rows")
  /\ WriteFiles(stagingFile, None, preFile) /\ UNCHANGED memory

SwitchRows ==
  /\ Step("switch_rows", "switch_meta")
  /\ WriteTables(stagingRows, None) /\ UNCHANGED memory

SwitchMetaRecord ==
  [meta EXCEPT !.version = @ + 1, !.data_state = "ready",
               !.dim = IF arg.bundle.rows = <<>> THEN @ ELSE Dim, !.total = Len(arg.bundle.rows),
               !.data_version = arg.new_data_version,
               !.index_version = arg.new_data_version,
               !.index_checksum = indexFile, !.import_txn = None]

SwitchMeta ==
  /\ Step("switch_meta", "switch_clean")
  /\ WriteMeta(SwitchMetaRecord) /\ UNCHANGED memory

\* Mutant: the imported index is not published in memory.
SwitchCleanFileOnly ==
  /\ Return("switch_clean")
  /\ WriteFiles(indexFile, stagingFile, None) /\ UNCHANGED memory

\* _scalar_cache is not refreshed.
SwitchClean ==
  /\ Return("switch_clean")
  /\ WriteFiles(indexFile, stagingFile, None)
  /\ memIndex' = arg.bundle.index
  /\ UNCHANGED memCache /\ cacheBehind' = (memCache # None)

(* A failure while preparing sweeps both side copies and takes the intent back. *)

AbortFile ==
  /\ Step("abort_file", "abort_rows")
  /\ WriteFiles(indexFile, None, preFile) /\ UNCHANGED memory

AbortRows ==
  Step("abort_rows", "abort_meta") /\ WriteTables(rows, None) /\ UNCHANGED memory

IntentWritten == meta.data_state = "importing" \/ meta.import_txn # None

AbortMetaRecord == [meta EXCEPT !.data_state = arg.prev_state, !.import_txn = None]

AbortMeta ==
  /\ Return("abort_meta")
  /\ IF IntentWritten THEN WriteMeta(AbortMetaRecord) ELSE UNCHANGED <<meta, disk, durable>>
  /\ UNCHANGED memory

-----------------------------------------------------------------------------
(* purge_collection_data: index, side files, side table, table, record.    *)

CallPurge(require_exported) ==
  /\ Exists
  /\ require_exported => Eligible(meta)
  /\ meta.data_version < MaxDataVersion
  /\ Call("purge_index", None) /\ UNCHANGED memory

PurgeIndex ==
  /\ Step("purge_index", "purge_sweep")
  /\ WriteFiles(None, stagingFile, preFile)
  /\ PublishIndex(None)

PurgeSweep ==
  /\ Step("purge_sweep", "purge_pre")
  /\ WriteFiles(indexFile, None, preFile) /\ UNCHANGED memory

PurgePre ==
  /\ Step("purge_pre", "purge_staging")
  /\ WriteFiles(indexFile, stagingFile, None) /\ UNCHANGED memory

PurgeStaging ==
  Step("purge_staging", "purge_rows") /\ WriteTables(rows, None) /\ UNCHANGED memory

PurgeRows ==
  Step("purge_rows", "purge_meta") /\ WriteTables(<<>>, stagingRows) /\ UNCHANGED memory

\* Mutants: the index version is reset like the checksum, or the data version
\* starts again.
PurgeMetaNoVersion ==
  [meta EXCEPT !.data_state = "purged", !.data_version = @ + 1,
               !.index_version = None, !.index_checksum = None, !.total = 0,
               !.exported_data_version = None, !.exported_index_version = None,
               !.exported_index_checksum = None]

PurgeMetaRestarted ==
  [FreshMeta EXCEPT !.data_state = "purged", !.dim = meta.dim, !.version = meta.version]

PurgeMetaRecord ==
  [meta EXCEPT !.data_state = "purged", !.data_version = @ + 1,
               !.index_version = 0, !.index_checksum = None, !.total = 0,
               !.exported_data_version = None, !.exported_index_version = None,
               !.exported_index_checksum = None]

PurgeMeta ==
  /\ Return("purge_meta")
  /\ WriteMeta(PurgeMetaRecord) /\ UNCHANGED memory

-----------------------------------------------------------------------------
(* Exceptions.  One raised by a step before it takes effect ends the handler, *)
(* or starts the clean-up of an import that is still preparing.  When it is   *)
(* MetaStore._flush that raises, the record in memory has already changed.    *)

\* Mutant: the intent is written outside the try.
PreparingUpToIntent == {"import_file", "import_drop", "import_create", "import_rows"}

Preparing == {"import_file", "import_drop", "import_create", "import_rows", "import_intent"}

Raise ==
  /\ failures < MaxFailures /\ failures' = failures + 1
  /\ pc' = IF pc \in Preparing THEN "abort_file" ELSE "idle"
  /\ arg' = IF pc \in Preparing THEN arg ELSE None
  /\ UNCHANGED <<disk, durable, memory, history, crashes>>

RecoverySteps ==
  {"down", "recover", "recover_clean", "recover_clean_pre",
   "recover_unlink", "recover_restore", "recover_state"}

StepFails == pc \notin RecoverySteps \cup {"idle"} /\ Raise /\ UNCHANGED meta

MetaFlushFails ==
  /\ \/ pc = "create"        /\ meta' = FreshMeta
     \/ pc = "drop_meta"     /\ Exists /\ meta' = NoMeta
     \/ pc = "insert_bump"   /\ meta' = InsertBumpMeta
     \/ pc = "insert_total"  /\ meta' = InsertTotalMeta
     \/ pc = "flush_meta"    /\ meta' = FlushMetaRecord
     \/ pc = "upload_meta"   /\ meta' = UploadMetaRecord
     \/ pc = "export_meta"   /\ meta' = ExportMetaRecord
     \/ pc = "import_intent" /\ meta' = ImportIntentMeta
     \/ pc = "switch_meta"   /\ meta' = SwitchMetaRecord
     \/ pc = "abort_meta"    /\ IntentWritten /\ meta' = AbortMetaRecord
     \/ pc = "purge_meta"    /\ meta' = PurgeMetaRecord
  /\ Raise

\* Writing any other collection's record rewrites the whole file.
OtherCollectionWrites ==
  /\ pc # "down" /\ disk # meta
  /\ disk' = meta
  /\ UNCHANGED <<meta, durable, memory, pc, arg, history, counts>>

-----------------------------------------------------------------------------
(* Crash, restart, and _recover_interrupted_imports. *)

Crash ==
  /\ pc # "down" /\ crashes < MaxCrashes
  /\ crashes' = crashes + 1
  /\ meta' = disk
  /\ Unload
  /\ pc' = "down" /\ arg' = None
  /\ UNCHANGED <<disk, durable, history, failures>>

Restart ==
  /\ Step("down", IF IntentWritten THEN "recover" ELSE "idle")
  /\ UNCHANGED <<meta, disk, durable, memory>>

\* Mutant: the staging table is not looked for.
SwitchDoneByCount ==
  /\ indexFile # None
  /\ meta.import_txn # None => Len(rows) = meta.import_txn.total

SwitchDone ==
  /\ stagingRows = None
  /\ indexFile # None
  /\ meta.import_txn # None => Len(rows) = meta.import_txn.total

\* Mutant: the state is left as it was found.
RecoverForwardState ==
  LET txn == meta.import_txn
      new == IF txn = None THEN meta.data_version + 1 ELSE txn.new_data_version
  IN  [meta EXCEPT !.version = @ + 1, !.data_version = new, !.index_version = new,
                   !.index_checksum = indexFile, !.import_txn = None]

RecoverForwardMeta ==
  LET txn == meta.import_txn
      new == IF txn = None THEN meta.data_version + 1 ELSE txn.new_data_version
      total == IF txn = None THEN meta.total ELSE txn.total
  IN  [meta EXCEPT !.version = @ + 1, !.data_state = "ready",
                   !.dim = IF total = 0 THEN @ ELSE Dim, !.total = total,
                   !.data_version = new, !.index_version = new,
                   !.index_checksum = indexFile, !.import_txn = None]

RecoverForward ==
  /\ SwitchDone
  /\ Step("recover", "recover_clean")
  /\ WriteMeta(RecoverForwardMeta) /\ UNCHANGED memory

RecoverClean ==
  /\ Step("recover_clean", "recover_clean_pre")
  /\ WriteFiles(indexFile, None, preFile) /\ UNCHANGED memory

RecoverCleanPre ==
  /\ Return("recover_clean_pre")
  /\ WriteFiles(indexFile, stagingFile, None) /\ UNCHANGED memory

RecoverBack ==
  /\ ~SwitchDone
  /\ Step("recover", "recover_unlink")
  /\ WriteTables(rows, None) /\ UNCHANGED memory

RecoverUnlink ==
  /\ Step("recover_unlink", "recover_restore")
  /\ WriteFiles(indexFile, None, preFile) /\ UNCHANGED memory

\* Mutant: only when there is no live index.
RecoverRestoreMissing ==
  /\ Step("recover_restore", "recover_state")
  /\ WriteFiles(IF preFile # None /\ indexFile = None THEN preFile ELSE indexFile,
                stagingFile, None)
  /\ UNCHANGED memory

\* An index that was set aside is put back.
RecoverRestore ==
  /\ Step("recover_restore", "recover_state")
  /\ WriteFiles(IF preFile # None THEN preFile ELSE indexFile, stagingFile, None)
  /\ UNCHANGED memory

RecoverState ==
  LET prev == IF meta.import_txn = None THEN "ready" ELSE meta.import_txn.prev_state
  IN  /\ Return("recover_state")
      /\ WriteMeta([meta EXCEPT !.data_state = IF indexFile # None THEN prev ELSE "invalid",
                                !.import_txn = None])
      /\ UNCHANGED memory

-----------------------------------------------------------------------------
HeldBundles == returned \cup ExternalBundles

Calls ==
  \/ CallCreate \/ CallDrop \/ CallFlush \/ CallExport
  \/ \E batch \in Batches : CallInsert(batch)
  \/ \E index \in UploadIndexes, version \in {None} \cup 1..MaxVersion :
       CallUpload(index, version)
  \/ \E bundle \in HeldBundles : CallImport(bundle)
  \/ \E require_exported \in BOOLEAN : CallPurge(require_exported)
  \/ LoadCollection \/ SearchLoad \/ CloseCollection \/ ExportRefused

HandlerStep ==
  \/ Create
  \/ DropMeta \/ DropTable \/ DropFile \/ DropDir
  \/ InsertBump \/ InsertRows \/ InsertDuplicate \/ InsertTotal
  \/ FlushWrite \/ FlushMeta
  \/ UploadFile \/ UploadMeta
  \/ ExportBundle \/ ExportMeta \/ ExportReturn
  \/ ImportFile \/ ImportDrop \/ ImportCreate \/ ImportRows \/ ImportIntent
  \/ SwitchAside \/ SwitchIndex \/ SwitchRows \/ SwitchMeta \/ SwitchClean
  \/ AbortFile \/ AbortRows \/ AbortMeta
  \/ PurgeIndex \/ PurgeSweep \/ PurgePre \/ PurgeStaging \/ PurgeRows \/ PurgeMeta

Recovery ==
  \/ RecoverForward \/ RecoverClean \/ RecoverCleanPre
  \/ RecoverBack \/ RecoverUnlink \/ RecoverRestore \/ RecoverState

Faults == StepFails \/ MetaFlushFails \/ OtherCollectionWrites \/ Crash

Next == Calls \/ HandlerStep \/ Restart \/ Recovery \/ Faults

Spec == Init /\ [][Next]_vars

\* A handler runs to its end, a crashed server is restarted and finishes its
\* recovery; clients need not call anything.
FairSpec == Spec /\ WF_vars(HandlerStep) /\ WF_vars(Restart) /\ WF_vars(Recovery)

=============================================================================
