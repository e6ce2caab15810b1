------------------------ MODULE CollectionProperties ------------------------
(***************************************************************************)
(* What the engine promises about one collection: properties of the        *)
(* specification in CollectionEngine, and the inductive invariant behind   *)
(* the promise that an authorised purge destroys no row that was never     *)
(* exported.                                                               *)
(***************************************************************************)
EXTENDS CollectionEngine

-----------------------------------------------------------------------------
(* Types. *)

Opt(S) == S \cup {None}

MetaRecord ==
  [data_state : DataStates, dim : Opt({Dim}), total : Nat, version : Nat,
   data_version : Nat, index_version : Nat, index_checksum : Opt(Seq(Docs)),
   exported_data_version : Opt(Nat), exported_index_version : Opt(Nat),
   exported_index_checksum : Opt(Seq(Docs)), import_txn : Opt(ImportTxn)]

InsertSteps  == {"insert_bump", "insert_rows", "insert_total"}
UploadSteps  == {"upload_file", "upload_meta"}
StagedSteps  == {"import_intent", "switch_aside", "switch_index", "switch_rows"}
ImportSteps  == Preparing \cup StagedSteps \cup {"switch_meta", "switch_clean"}
AbortSteps   == {"abort_file", "abort_rows", "abort_meta"}
PurgeSteps   == {"purge_index", "purge_sweep", "purge_pre", "purge_staging", "purge_rows",
                 "purge_meta"}
OtherSteps   == {"idle", "create", "drop_meta", "drop_table", "drop_dir", "flush_write",
                 "flush_meta", "export_bundle", "export_meta", "export_return"}

Steps == InsertSteps \cup UploadSteps \cup ImportSteps \cup AbortSteps
           \cup PurgeSteps \cup OtherSteps \cup RecoverySteps

ArgOK ==
  /\ pc \in InsertSteps => arg \in [batch : Seq(Docs)]
  /\ pc \in UploadSteps => arg \in [index : Seq(Docs), version : Opt(Nat)]
  /\ pc \in {"export_meta", "export_return"} => arg \in Bundle
  /\ pc \in ImportSteps \cup AbortSteps =>
       arg \in [bundle : Bundle, new_data_version : Nat, prev_state : DataStates]

\* Every variable holds a value of its kind: in particular no handler ever
\* leaves an index version, a total or a table undefined, and the locals of a
\* handler are those its position needs.
TypeOK ==
  /\ meta \in MetaRecord /\ disk \in MetaRecord
  /\ rows \in Seq(Docs) /\ stagingRows \in Opt(Seq(Docs))
  /\ indexFile \in Opt(Seq(Docs)) /\ stagingFile \in Opt(Seq(Docs))
  /\ preFile \in Opt(Seq(Docs))
  /\ memIndex \in Opt(Seq(Docs)) /\ memCache \in Opt(Seq(Docs)) /\ cacheBehind \in BOOLEAN
  /\ pc \in Steps /\ ArgOK
  /\ produced \subseteq Bundle /\ returned \subseteq Bundle
  /\ attempt \in Opt([index : Opt(Seq(Docs)), rows : Seq(Docs), bundle : Bundle])
  /\ crashes \in Nat /\ failures \in Nat

-----------------------------------------------------------------------------
(* Purge eligibility. *)

Idle == pc = "idle"

RowsOf(bundles) == {b.rows : b \in bundles}

\* Table contents that some bundle holds; an empty table needs none.
CoveredRows == {<<>>} \cup RowsOf(produced \cup ExternalBundles)

\* Whenever purge_collection_data(require_exported=True) would be accepted, the
\* rows it would delete are all in a bundle that was written: the order "bump
\* data_version, then insert" and the version that an import or its recovery
\* publishes leave no window, whatever crashes or raises in between.
EligibleMeansExported ==
  Idle /\ Exists /\ Eligible(meta) => rows \in CoveredRows

\* ... and, as long as nothing crashed or raised, the live index, which the purge
\* deletes too, is in one as well: the reason exported_index_version and
\* exported_index_checksum are compared.
EligibleMeansIndexExported ==
  Idle /\ Exists /\ Eligible(meta) /\ indexFile # None /\ crashes + failures = 0 =>
    indexFile \in {b.index : b \in produced \cup ExternalBundles}

\* The inductive invariant.  A record's last export is never newer than its
\* data; a pending import will publish a version no export has named; and a
\* record whose export names its data version describes covered rows.
ExportNotNewer(m) == m.exported_data_version # None => m.exported_data_version <= m.data_version

TxnNewer(m) ==
  m.import_txn # None =>
    /\ m.data_state \in {"importing", "purged"}
    /\ m.exported_data_version # None =>
         m.exported_data_version < m.import_txn.new_data_version

CoveredIfExported(m) == m.exported_data_version = m.data_version => rows \in CoveredRows

RecordOK(m) == ExportNotNewer(m) /\ TxnNewer(m) /\ CoveredIfExported(m)

RecordInv == RecordOK(meta) /\ RecordOK(disk)

\* Between the bump and the rows of an insert neither copy of the record
\* matches an export.
InsertInv ==
  pc = "insert_rows" => disk = meta /\ meta.exported_data_version # meta.data_version

\* An export in progress has no import pending and an index to copy, and its
\* bundle holds the rows.
ExportInv ==
  /\ pc \in {"export_bundle", "export_meta"} => meta.data_state = "ready"
  /\ pc = "export_bundle" => indexFile # None
  /\ pc \in {"export_meta", "export_return"} => arg \in produced
  /\ pc = "export_meta" => arg.rows = rows

\* An import in progress carries a bundle that exists outside the server, has
\* staged its rows, and will publish the next data version.
ImportInv ==
  /\ pc \in ImportSteps => arg.bundle \in produced \cup ExternalBundles
  /\ pc \in StagedSteps => stagingRows = arg.bundle.rows
  /\ pc \in ImportSteps \ {"switch_clean"} => arg.new_data_version = meta.data_version + 1

PurgeSafety ==
  RecordInv /\ InsertInv /\ ExportInv /\ ImportInv /\ returned \subseteq produced

-----------------------------------------------------------------------------
(* Agreement of index, rows and record. *)

Fresh == Exists /\ meta.data_state = "ready" /\ meta.index_version = meta.data_version

\* index_version = data_version is the engine's claim that the index file was
\* built from the rows now in the table.
FreshIndexMatchesRows == Idle /\ Fresh /\ indexFile # None => indexFile = rows

\* As long as no handler has been cut short by an exception, the two halves of
\* every bundle agree in number, which is what import asks of it: a bundle that
\* fails this can be exported, and purged against, but not restored.
ExportedBundleAgrees == failures = 0 => \A b \in produced : Len(b.index) = Len(b.rows)

\* The scalar row that search returns for a label of the loaded index.
ScalarOf(label) ==
  LET table == IF memCache # None THEN memCache ELSE rows
  IN  IF label \in DOMAIN table THEN table[label] ELSE None

\* docs/collection_bundle.md of an import: "index label can be mapped correctly to
\* the scalar row".  A search of a collection whose index claims to be fresh pairs
\* each label with the row whose vector was matched.
SearchPairsLabels ==
  Idle /\ Fresh /\ memIndex # None =>
    \A label \in DOMAIN memIndex : ScalarOf(label) = memIndex[label]

\* ... as it does, with or without the cache, unless an import has replaced the
\* rows that the cached scalars were read from: inserts, flushes, uploads, purges,
\* drops, loads and crashes leave no other way to pair a label with the wrong row.
SearchReturnsTheRightRow == ~cacheBehind => SearchPairsLabels

-----------------------------------------------------------------------------
(* Import. *)

Outcome == [index |-> indexFile, rows |-> rows]

Before == [index |-> attempt.index, rows |-> attempt.rows]

\* Once an import is over, finished, failed or recovered, index and rows are
\* both as they were before it or both the bundle's.
ImportAllOrNothing ==
  Idle /\ attempt # None /\ meta.data_state # "importing" =>
    Outcome \in {Before, attempt.bundle}

\* The same of an import into a collection that has an index file.
ImportAllOrNothingOverIndex ==
  attempt # None => (attempt.index # None => ImportAllOrNothing)

\* docs/collection_bundle.md: whichever step fails, the staging file and table are
\* cleaned up.  After an import that ended, with its bundle in place or taken back
\* after an exception, and without leaving its intent for a restart, neither side
\* copy is left: not even when it was the write of the intent that failed.
FailedImportIsSwept ==
  Idle /\ attempt # None /\ ~IntentWritten /\ crashes = 0 =>
    stagingFile = None /\ stagingRows = None

\* The version that decides freshness and purge eligibility is never taken back
\* in collections.json while the collection exists, not by a purge, an import or
\* a recovery, and not across a restart.
DataVersionNeverGoesBack ==
  [][Exists /\ Exists' => disk'.data_version >= disk.data_version]_<<meta, disk>>

\* An import never stays pending: it finishes, or a restart resolves it.
ImportResolves == meta.data_state = "importing" ~> meta.data_state # "importing"

=============================================================================
