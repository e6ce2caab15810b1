-------------------------- MODULE CollectionProofs --------------------------
(***************************************************************************)
(* Proofs, for every value of the constants, about one collection of the   *)
(* engine: the variables keep their types; the rows and the index that an  *)
(* authorised purge deletes are in a bundle that was written; bundles have *)
(* as many rows as their index; the data version only grows; an import     *)
(* takes effect as a whole or not at all; an index called fresh is that of *)
(* the rows, and a search answers with the row it matched.                 *)
(***************************************************************************)
EXTENDS CollectionProperties, TLAPS

-----------------------------------------------------------------------------
(* The records the handlers write have the type of a record. *)

LEMMA FreshType == FreshMeta \in MetaRecord /\ NoMeta \in MetaRecord
<1>1. FreshMeta \in MetaRecord
  BY DEF FreshMeta, MetaRecord, Opt, DataStates
<1>2. [FreshMeta EXCEPT !.data_state = "absent"] \in MetaRecord
  BY <1>1 DEF MetaRecord, DataStates
<1>3. QED
  BY <1>1, <1>2 DEF NoMeta

LEMMA InsertBumpType ==
  ASSUME meta \in MetaRecord PROVE InsertBumpMeta \in MetaRecord
<1>1. meta.data_version + 1 \in Nat
  BY DEF MetaRecord
<1>2. (IF arg.batch = <<>> THEN meta.dim ELSE Dim) \in Opt({Dim})
  BY DEF MetaRecord, Opt
<1>3. QED
  BY <1>1, <1>2 DEF InsertBumpMeta, MetaRecord

LEMMA InsertTotalType ==
  ASSUME meta \in MetaRecord, rows \in Seq(Docs) PROVE InsertTotalMeta \in MetaRecord
<1>1. Len(rows) \in Nat
  OBVIOUS
<1>2. QED
  BY <1>1 DEF InsertTotalMeta, MetaRecord

LEMMA FlushType ==
  ASSUME meta \in MetaRecord, rows \in Seq(Docs), indexFile \in Opt(Seq(Docs))
  PROVE  FlushMetaRecord \in MetaRecord
<1>1. meta.version + 1 \in Nat /\ meta.data_version \in Nat
  BY DEF MetaRecord
<1>2. Len(rows) \in Nat /\ Dim \in Opt({Dim})
  BY DEF Opt
<1>3. QED
  BY <1>1, <1>2 DEF FlushMetaRecord, MetaRecord

LEMMA UploadType ==
  ASSUME meta \in MetaRecord, arg \in [index : Seq(Docs), version : Opt(Nat)],
         indexFile \in Opt(Seq(Docs))
  PROVE  UploadMetaRecord \in MetaRecord
<1>1. (IF arg.version = None THEN meta.version + 1 ELSE arg.version) \in Nat
  BY DEF MetaRecord, Opt
<1>2. meta.data_version \in Nat
  BY DEF MetaRecord
<1>3. QED
  BY <1>1, <1>2 DEF UploadMetaRecord, MetaRecord

LEMMA ExportType ==
  ASSUME meta \in MetaRecord PROVE ExportMetaRecord \in MetaRecord
<1>1. /\ meta.data_version \in Opt(Nat) /\ meta.index_version \in Opt(Nat)
      /\ meta.index_checksum \in Opt(Seq(Docs))
  BY DEF MetaRecord, Opt
<1>2. QED
  BY <1>1 DEF ExportMetaRecord, MetaRecord

ImportArg == [bundle : Bundle, new_data_version : Nat, prev_state : DataStates]

LEMMA ImportArgType ==
  ASSUME arg \in ImportArg
  PROVE  /\ arg.bundle.index \in Seq(Docs) /\ arg.bundle.rows \in Seq(Docs)
         /\ Len(arg.bundle.rows) \in Nat
         /\ arg.new_data_version \in Nat /\ arg.prev_state \in DataStates
<1>1. arg.bundle \in Bundle /\ arg.new_data_version \in Nat /\ arg.prev_state \in DataStates
  BY DEF ImportArg
<1>2. arg.bundle.index \in Seq(Docs) /\ arg.bundle.rows \in Seq(Docs)
  BY <1>1 DEF Bundle
<1>3. QED
  BY <1>1, <1>2

LEMMA ImportIntentType ==
  ASSUME meta \in MetaRecord, arg \in ImportArg PROVE ImportIntentMeta \in MetaRecord
<1> DEFINE txn == [new_data_version |-> arg.new_data_version,
                   prev_state |-> arg.prev_state, total |-> Len(arg.bundle.rows)]
<1>1. txn \in Opt(ImportTxn)
  BY ImportArgType DEF ImportTxn, Opt
<1>2. "importing" \in DataStates
  BY DEF DataStates
<1> HIDE DEF txn
<1>3. [meta EXCEPT !.data_state = "importing", !.import_txn = txn] \in MetaRecord
  BY <1>1, <1>2 DEF MetaRecord
<1>4. QED
  BY <1>3 DEF ImportIntentMeta, txn

LEMMA SwitchType ==
  ASSUME meta \in MetaRecord, arg \in ImportArg, indexFile \in Opt(Seq(Docs))
  PROVE  SwitchMetaRecord \in MetaRecord
<1>1. (IF arg.bundle.rows = <<>> THEN meta.dim ELSE Dim) \in Opt({Dim})
  BY DEF MetaRecord, Opt
<1>2. meta.version + 1 \in Nat
  BY DEF MetaRecord
<1>3. "ready" \in DataStates /\ None \in Opt(ImportTxn)
  BY DEF DataStates, Opt
<1>4. Len(arg.bundle.rows) \in Nat /\ arg.new_data_version \in Nat
  BY ImportArgType
<1>5. QED
  BY <1>1, <1>2, <1>3, <1>4 DEF SwitchMetaRecord, MetaRecord

LEMMA AbortType ==
  ASSUME meta \in MetaRecord, arg \in ImportArg PROVE AbortMetaRecord \in MetaRecord
<1>1. arg.prev_state \in DataStates /\ None \in Opt(ImportTxn)
  BY ImportArgType DEF Opt
<1>2. QED
  BY <1>1 DEF AbortMetaRecord, MetaRecord

LEMMA PurgeType ==
  ASSUME meta \in MetaRecord PROVE PurgeMetaRecord \in MetaRecord
<1>1. "purged" \in DataStates /\ None \in Opt(Nat) /\ None \in Opt(Seq(Docs))
  BY DEF DataStates, Opt
<1>2. meta.data_version + 1 \in Nat
  BY DEF MetaRecord
<1>3. QED
  BY <1>1, <1>2 DEF PurgeMetaRecord, MetaRecord

LEMMA RecoverForwardType ==
  ASSUME meta \in MetaRecord, indexFile \in Opt(Seq(Docs))
  PROVE  RecoverForwardMeta \in MetaRecord
<1> DEFINE txn   == meta.import_txn
           new   == IF txn = None THEN meta.data_version + 1 ELSE txn.new_data_version
           total == IF txn = None THEN meta.total ELSE txn.total
           dim   == IF total = 0 THEN meta.dim ELSE Dim
<1>1. txn \in Opt(ImportTxn) /\ meta.data_version \in Nat /\ meta.total \in Nat
      /\ meta.dim \in Opt({Dim})
  BY DEF MetaRecord
<1>2. new \in Nat /\ total \in Nat /\ dim \in Opt({Dim})
  BY <1>1 DEF Opt, ImportTxn
<1>3. meta.version + 1 \in Nat /\ "ready" \in DataStates /\ None \in Opt(ImportTxn)
  BY DEF MetaRecord, DataStates, Opt
<1> HIDE DEF new, total, dim
<1>4. [meta EXCEPT !.version = meta.version + 1, !.data_state = "ready", !.dim = dim,
                   !.total = total, !.data_version = new, !.index_version = new,
                   !.index_checksum = indexFile, !.import_txn = None] \in MetaRecord
  BY <1>2, <1>3 DEF MetaRecord
<1>5. QED
  BY <1>4 DEF RecoverForwardMeta, new, total, dim

LEMMA RecoverStateType ==
  ASSUME meta \in MetaRecord, NEW state \in DataStates
  PROVE  [meta EXCEPT !.data_state = state, !.import_txn = None] \in MetaRecord
<1>1. None \in Opt(ImportTxn)
  BY DEF Opt
<1>2. QED
  BY <1>1 DEF MetaRecord

-----------------------------------------------------------------------------
(* Types are preserved by every step.  PurgeSafety is needed for what an import *)
(* has staged.                                                                  *)

IInv == TypeOK /\ PurgeSafety

LEMMA TypeInit == Init => TypeOK
<1>1. FreshMeta \in MetaRecord /\ NoMeta \in MetaRecord
  BY FreshType
<1>2. <<>> \in Seq(Docs)
  OBVIOUS
<1>3. Init => cacheBehind \in BOOLEAN
  BY DEF Init
<1>4. QED
  BY <1>1, <1>2, <1>3 DEF Init, TypeOK, Opt, Steps, OtherSteps, ArgOK, InsertSteps, UploadSteps,
     ImportSteps, AbortSteps, Preparing, StagedSteps

LEMMA TypeStep == ASSUME IInv, Next PROVE TypeOK'
<1> USE DEF IInv, TypeOK, memory, Unload, Load, PublishIndex,
            durable, tables, files, history, counts, Steps, ArgOK,
            InsertSteps, UploadSteps, ImportSteps, StagedSteps, Preparing, AbortSteps,
            PurgeSteps, OtherSteps, RecoverySteps
<1>CallCreate. CASE CallCreate
  BY <1>CallCreate DEF CallCreate, Call, Opt
<1>Create. CASE Create
  BY <1>Create, FreshType DEF Create, Return, WriteMeta
<1>CallDrop. CASE CallDrop
  BY <1>CallDrop DEF CallDrop, Call, Opt
<1>DropMeta. CASE DropMeta
  BY <1>DropMeta, FreshType DEF DropMeta, Step, Opt
<1>DropTable. CASE DropTable
  BY <1>DropTable DEF DropTable, Step, WriteTables
<1>DropFile. CASE DropFile
  BY <1>DropFile DEF DropFile, Step, WriteFiles, Opt
<1>DropDir. CASE DropDir
  BY <1>DropDir DEF DropDir, Return
<1>InsertBump. CASE InsertBump
  BY <1>InsertBump, InsertBumpType DEF InsertBump, Step, WriteMeta
<1>InsertRows. CASE InsertRows
  BY <1>InsertRows DEF InsertRows, Step, WriteTables
<1>InsertDuplicate. CASE InsertDuplicate
  BY <1>InsertDuplicate DEF InsertDuplicate, Return
<1>InsertTotal. CASE InsertTotal
  BY <1>InsertTotal, InsertTotalType DEF InsertTotal, Return, WriteMeta, Opt
<1>CallFlush. CASE CallFlush
  BY <1>CallFlush DEF CallFlush, Call, Opt
<1>FlushWrite. CASE FlushWrite
  BY <1>FlushWrite DEF FlushWrite, Step, WriteFiles, Opt
<1>FlushMeta. CASE FlushMeta
  BY <1>FlushMeta, FlushType DEF FlushMeta, Return, WriteMeta, CacheOf, Opt
<1>LoadCollection. CASE LoadCollection
  BY <1>LoadCollection DEF LoadCollection, LoadUnlocked, CacheOf, Opt
<1>SearchLoad. CASE SearchLoad
  BY <1>SearchLoad DEF SearchLoad, LoadUnlocked, CacheOf, Opt
<1>CloseCollection. CASE CloseCollection
  BY <1>CloseCollection DEF CloseCollection, Opt
<1>CallExport. CASE CallExport
  BY <1>CallExport DEF CallExport, Call, LiveIndex, Opt
<1>ExportRefused. CASE ExportRefused
  BY <1>ExportRefused DEF ExportRefused, LiveIndex
<1>ExportMeta. CASE ExportMeta
  BY <1>ExportMeta, ExportType DEF ExportMeta, Step, WriteMeta
<1>ExportReturn. CASE ExportReturn
  BY <1>ExportReturn DEF ExportReturn
<1>ImportDrop. CASE ImportDrop
  BY <1>ImportDrop DEF ImportDrop, Step, WriteTables, Opt
<1>ImportCreate. CASE ImportCreate
  BY <1>ImportCreate DEF ImportCreate, Step, WriteTables, Opt
<1>ImportIntent. CASE ImportIntent
  BY <1>ImportIntent, ImportIntentType DEF ImportIntent, Step, WriteMeta, ImportArg
<1>SwitchAside. CASE SwitchAside
  BY <1>SwitchAside DEF SwitchAside, Step, WriteFiles, Opt
<1>SwitchIndex. CASE SwitchIndex
  BY <1>SwitchIndex DEF SwitchIndex, Step, WriteFiles, Opt
<1>SwitchMeta. CASE SwitchMeta
  BY <1>SwitchMeta, SwitchType DEF SwitchMeta, Step, WriteMeta, ImportArg
<1>AbortFile. CASE AbortFile
  BY <1>AbortFile DEF AbortFile, Step, WriteFiles, Opt
<1>AbortRows. CASE AbortRows
  BY <1>AbortRows DEF AbortRows, Step, WriteTables, Opt
<1>AbortMeta. CASE AbortMeta
  BY <1>AbortMeta, AbortType DEF AbortMeta, Return, WriteMeta, ImportArg
<1>PurgeIndex. CASE PurgeIndex
  BY <1>PurgeIndex DEF PurgeIndex, Step, WriteFiles, Opt
<1>PurgeSweep. CASE PurgeSweep
  BY <1>PurgeSweep DEF PurgeSweep, Step, WriteFiles, Opt
<1>PurgePre. CASE PurgePre
  BY <1>PurgePre DEF PurgePre, Step, WriteFiles, Opt
<1>PurgeStaging. CASE PurgeStaging
  BY <1>PurgeStaging DEF PurgeStaging, Step, WriteTables, Opt
<1>PurgeRows. CASE PurgeRows
  BY <1>PurgeRows DEF PurgeRows, Step, WriteTables, Opt
<1>PurgeMeta. CASE PurgeMeta
  BY <1>PurgeMeta, PurgeType DEF PurgeMeta, Return, WriteMeta
<1>StepFails. CASE StepFails
  BY <1>StepFails DEF StepFails, Raise
<1>OtherCollectionWrites. CASE OtherCollectionWrites
  BY <1>OtherCollectionWrites DEF OtherCollectionWrites
<1>Crash. CASE Crash
  <2>1. cacheBehind' \in BOOLEAN
    BY <1>Crash DEF Crash
  <2>2. QED
    BY <1>Crash, <2>1 DEF Crash, Opt
<1>Restart. CASE Restart
  BY <1>Restart DEF Restart, Step
<1>UploadFile. CASE UploadFile
  BY <1>UploadFile DEF UploadFile, Step, WriteFiles, Opt
<1>UploadMeta. CASE UploadMeta
  BY <1>UploadMeta, UploadType DEF UploadMeta, Return, WriteMeta, Opt
<1>RecoverForward. CASE RecoverForward
  BY <1>RecoverForward, RecoverForwardType DEF RecoverForward, Step, WriteMeta
<1>RecoverClean. CASE RecoverClean
  BY <1>RecoverClean DEF RecoverClean, Step, WriteFiles, Opt
<1>RecoverCleanPre. CASE RecoverCleanPre
  BY <1>RecoverCleanPre DEF RecoverCleanPre, Return, WriteFiles, Opt
<1>RecoverBack. CASE RecoverBack
  BY <1>RecoverBack DEF RecoverBack, Step, WriteTables, Opt
<1>RecoverUnlink. CASE RecoverUnlink
  BY <1>RecoverUnlink DEF RecoverUnlink, Step, WriteFiles, Opt
<1>RecoverRestore. CASE RecoverRestore
  BY <1>RecoverRestore DEF RecoverRestore, Step, WriteFiles, Opt
<1>CallInsert. ASSUME NEW batch \in Batches, CallInsert(batch) PROVE TypeOK'
  <2>1. batch \in Seq(Docs)
    BY ConstantsAssumption
  <2>2. QED
    BY <1>CallInsert, <2>1 DEF CallInsert, Call, Opt
<1>CallUpload. ASSUME NEW index \in UploadIndexes, NEW version \in {None} \cup 1..MaxVersion,
                      CallUpload(index, version)
               PROVE  TypeOK'
  <2>1. index \in Seq(Docs) /\ version \in Opt(Nat)
    BY ConstantsAssumption DEF Opt
  <2>2. [index |-> index, version |-> version] \in [index : Seq(Docs), version : Opt(Nat)]
    BY <2>1
  <2>3. QED
    BY <1>CallUpload, <2>2 DEF CallUpload, Call, Opt
<1>CallImport. ASSUME NEW bundle \in HeldBundles, CallImport(bundle) PROVE TypeOK'
  <2>1. bundle \in Bundle
    BY ConstantsAssumption DEF HeldBundles
  <2>2. meta.data_version + 1 \in Nat /\ meta.data_state \in DataStates
    BY DEF MetaRecord
  <2>3. arg' \in ImportArg
    BY <1>CallImport, <2>1, <2>2 DEF CallImport, ImportArg
  <2>4. attempt' \in [index : Opt(Seq(Docs)), rows : Seq(Docs), bundle : Bundle]
    BY <1>CallImport, <2>1 DEF CallImport
  <2>5. QED
    BY <1>CallImport, <2>3, <2>4 DEF CallImport, Opt, ImportArg
<1>CallPurge. ASSUME NEW require_exported \in BOOLEAN, CallPurge(require_exported) PROVE TypeOK'
  BY <1>CallPurge DEF CallPurge, Call, Opt
<1>ExportBundle. CASE ExportBundle
  <2>1. indexFile \in Seq(Docs)
    BY <1>ExportBundle DEF ExportBundle, ExportInv, PurgeSafety, Opt
  <2>2. [index |-> indexFile, rows |-> rows] \in Bundle
    BY <2>1 DEF Bundle
  <2>3. QED
    BY <1>ExportBundle, <2>2 DEF ExportBundle
<1>ImportFile. CASE ImportFile
  <2>1. arg \in ImportArg
    BY <1>ImportFile DEF ImportFile, Step, ImportArg
  <2>2. arg.bundle.index \in Opt(Seq(Docs))
    BY <2>1, ImportArgType DEF Opt
  <2>3. QED
    BY <1>ImportFile, <2>1, <2>2 DEF ImportFile, Step, WriteFiles, ImportArg
<1>ImportRows. CASE ImportRows
  <2>1. arg \in ImportArg
    BY <1>ImportRows DEF ImportRows, Step, ImportArg
  <2>2. arg.bundle.rows \in Opt(Seq(Docs))
    BY <2>1, ImportArgType DEF Opt
  <2>3. QED
    BY <1>ImportRows, <2>1, <2>2 DEF ImportRows, Step, WriteTables, ImportArg
<1>SwitchRows. CASE SwitchRows
  <2>1. arg \in ImportArg
    BY <1>SwitchRows DEF SwitchRows, Step, ImportArg
  <2>2. stagingRows = arg.bundle.rows
    BY <1>SwitchRows DEF SwitchRows, Step, ImportInv, PurgeSafety
  <2>3. stagingRows \in Seq(Docs)
    BY <2>1, <2>2, ImportArgType
  <2>4. QED
    BY <1>SwitchRows, <2>1, <2>3 DEF SwitchRows, Step, WriteTables, ImportArg, Opt
<1>SwitchClean. CASE SwitchClean
  <2>1. arg \in ImportArg
    BY <1>SwitchClean DEF SwitchClean, Return, ImportArg
  <2>2. arg.bundle.index \in Opt(Seq(Docs))
    BY <2>1, ImportArgType DEF Opt
  <2>3. QED
    BY <1>SwitchClean, <2>2 DEF SwitchClean, Return, WriteFiles, Opt
<1>MetaFlushFails. CASE MetaFlushFails
  <2>1. meta' \in MetaRecord
    BY <1>MetaFlushFails, FreshType, InsertBumpType, InsertTotalType, FlushType, UploadType,
       ExportType, ImportIntentType, SwitchType, AbortType, PurgeType
       DEF MetaFlushFails, ImportArg
  <2>2. QED
    BY <1>MetaFlushFails, <2>1 DEF MetaFlushFails, Raise
<1>RecoverState. CASE RecoverState
  <2> DEFINE prev  == IF meta.import_txn = None THEN "ready" ELSE meta.import_txn.prev_state
             state == IF indexFile # None THEN prev ELSE "invalid"
  <2>1. meta.import_txn \in Opt(ImportTxn)
    BY DEF MetaRecord
  <2>2. prev \in DataStates
    BY <2>1 DEF Opt, ImportTxn, DataStates
  <2>3. state \in DataStates
    BY <2>2 DEF DataStates
  <2> HIDE DEF state
  <2>4. [meta EXCEPT !.data_state = state, !.import_txn = None] \in MetaRecord
    BY <2>3, RecoverStateType
  <2>5. meta' \in MetaRecord /\ disk' \in MetaRecord
    BY <1>RecoverState, <2>4 DEF RecoverState, WriteMeta, state
  <2>6. QED
    BY <1>RecoverState, <2>5 DEF RecoverState, Return, WriteMeta
<1>QED. QED
  BY <1>CallCreate, <1>Create, <1>CallDrop, <1>DropMeta, <1>DropTable, <1>DropDir,
     <1>InsertBump, <1>InsertRows, <1>InsertDuplicate, <1>InsertTotal, <1>CallFlush,
     <1>FlushWrite, <1>FlushMeta, <1>LoadCollection, <1>SearchLoad, <1>CloseCollection,
     <1>CallExport, <1>ExportRefused, <1>ExportMeta, <1>ExportReturn, <1>ImportIntent,
     <1>SwitchAside, <1>SwitchIndex, <1>SwitchMeta, <1>AbortFile, <1>AbortRows,
     <1>AbortMeta, <1>PurgeIndex, <1>PurgeSweep, <1>PurgeStaging, <1>PurgeRows,
     <1>PurgeMeta, <1>StepFails, <1>OtherCollectionWrites, <1>Crash, <1>Restart,
     <1>UploadFile, <1>UploadMeta, <1>RecoverForward, <1>RecoverClean,
     <1>RecoverCleanPre, <1>RecoverBack, <1>RecoverUnlink, <1>RecoverRestore,
     <1>CallInsert, <1>CallUpload, <1>CallImport, <1>CallPurge, <1>ExportBundle,
     <1>ImportFile, <1>ImportRows, <1>SwitchRows, <1>SwitchClean, <1>MetaFlushFails,
     <1>RecoverState, <1>DropFile, <1>PurgePre, <1>ImportDrop, <1>ImportCreate
     DEF Next, Calls, HandlerStep, Recovery, Faults

-----------------------------------------------------------------------------
(* What the written records say of data, exports and a pending import. *)

SameData(m) ==
  /\ m.data_version = meta.data_version
  /\ m.exported_data_version = meta.exported_data_version
  /\ m.import_txn = meta.import_txn /\ m.data_state = meta.data_state

LEMMA SameDataRecords ==
  ASSUME meta \in MetaRecord
  PROVE  SameData(InsertTotalMeta) /\ SameData(FlushMetaRecord) /\ SameData(UploadMetaRecord)
<1>1. SameData(InsertTotalMeta)
  BY DEF SameData, InsertTotalMeta, MetaRecord
<1>2. SameData(FlushMetaRecord)
  BY DEF SameData, FlushMetaRecord, MetaRecord
<1>3. SameData(UploadMetaRecord)
  BY DEF SameData, UploadMetaRecord, MetaRecord
<1>4. QED
  BY <1>1, <1>2, <1>3

LEMMA InsertBumpFields ==
  ASSUME meta \in MetaRecord
  PROVE  /\ InsertBumpMeta.data_version = meta.data_version + 1
         /\ InsertBumpMeta.exported_data_version = meta.exported_data_version
         /\ InsertBumpMeta.import_txn = meta.import_txn
         /\ InsertBumpMeta.data_state = meta.data_state
BY DEF InsertBumpMeta, MetaRecord

LEMMA ExportFields ==
  ASSUME meta \in MetaRecord
  PROVE  /\ ExportMetaRecord.data_version = meta.data_version
         /\ ExportMetaRecord.exported_data_version = meta.data_version
         /\ ExportMetaRecord.import_txn = meta.import_txn
         /\ ExportMetaRecord.data_state = meta.data_state
BY DEF ExportMetaRecord, MetaRecord

LEMMA ImportIntentFields ==
  ASSUME meta \in MetaRecord
  PROVE  /\ ImportIntentMeta.data_version = meta.data_version
         /\ ImportIntentMeta.exported_data_version = meta.exported_data_version
         /\ ImportIntentMeta.import_txn.new_data_version = arg.new_data_version
         /\ ImportIntentMeta.data_state = "importing"
BY DEF ImportIntentMeta, MetaRecord

LEMMA SwitchFields ==
  ASSUME meta \in MetaRecord
  PROVE  /\ SwitchMetaRecord.data_version = arg.new_data_version
         /\ SwitchMetaRecord.exported_data_version = meta.exported_data_version
         /\ SwitchMetaRecord.import_txn = None
BY DEF SwitchMetaRecord, MetaRecord

LEMMA AbortFields ==
  ASSUME meta \in MetaRecord
  PROVE  /\ AbortMetaRecord.data_version = meta.data_version
         /\ AbortMetaRecord.exported_data_version = meta.exported_data_version
         /\ AbortMetaRecord.import_txn = None
BY DEF AbortMetaRecord, MetaRecord

LEMMA PurgeFields ==
  ASSUME meta \in MetaRecord
  PROVE  /\ PurgeMetaRecord.data_version = meta.data_version + 1
         /\ PurgeMetaRecord.exported_data_version = None
         /\ PurgeMetaRecord.data_state = "purged"
BY DEF PurgeMetaRecord, MetaRecord

LEMMA RecoverForwardFields ==
  ASSUME meta \in MetaRecord
  PROVE  /\ RecoverForwardMeta.data_version =
              IF meta.import_txn = None THEN meta.data_version + 1
              ELSE meta.import_txn.new_data_version
         /\ RecoverForwardMeta.exported_data_version = meta.exported_data_version
         /\ RecoverForwardMeta.import_txn = None
BY DEF RecoverForwardMeta, MetaRecord

LEMMA RecoverStateFields ==
  ASSUME meta \in MetaRecord, NEW state
  PROVE  LET m == [meta EXCEPT !.data_state = state, !.import_txn = None]
         IN  /\ m.data_version = meta.data_version
             /\ m.exported_data_version = meta.exported_data_version
             /\ m.import_txn = None
BY DEF MetaRecord

\* The versions a record holds, without the rest of its type.
LEMMA VersionTypes ==
  ASSUME NEW m \in MetaRecord
  PROVE  /\ m.data_version \in Nat
         /\ m.exported_data_version # None => m.exported_data_version \in Nat
         /\ m.import_txn # None => m.import_txn.new_data_version \in Nat
BY DEF MetaRecord, Opt, ImportTxn

-----------------------------------------------------------------------------
(* RecordInv: what both copies of the record say of exports. *)

\* Most steps leave the table and both records, or bring the two together.
LEMMA QuietRecord ==
  ASSUME RecordInv, rows' = rows, produced' = produced,
         meta' \in {meta, disk}, disk' \in {meta, disk}
  PROVE  RecordInv'
BY DEF RecordInv, RecordOK, ExportNotNewer, TxnNewer, CoveredIfExported, CoveredRows, RowsOf

\* A handler writes a new record, in memory and, unless the write fails, on disk.
LEMMA NewRecord ==
  ASSUME RecordInv, rows' = rows, produced' = produced, disk' \in {disk, meta'},
         ExportNotNewer(meta'), TxnNewer(meta'),
         meta'.exported_data_version = meta'.data_version => rows \in CoveredRows
  PROVE  RecordInv'
BY DEF RecordInv, RecordOK, ExportNotNewer, TxnNewer, CoveredIfExported, CoveredRows, RowsOf

LEMMA SameDataRecord ==
  ASSUME RecordInv, rows' = rows, produced' = produced, disk' \in {disk, meta'},
         SameData(meta')
  PROVE  RecordInv'
BY NewRecord DEF RecordInv, RecordOK, ExportNotNewer, TxnNewer, CoveredIfExported, SameData

LEMMA CreateRecord ==
  ASSUME IInv, rows' = rows, produced' = produced, disk' \in {disk, meta'},
         meta' \in {FreshMeta, NoMeta}
  PROVE  RecordInv'
<1>1. /\ meta'.exported_data_version = None /\ meta'.import_txn = None
      /\ meta'.data_version = 1
  BY DEF FreshMeta, NoMeta
<1>2. meta'.exported_data_version # meta'.data_version
  BY <1>1, NoneAssumption
<1>3. QED
  BY <1>1, <1>2, NewRecord DEF IInv, PurgeSafety, ExportNotNewer, TxnNewer

LEMMA InsertBumpRecord ==
  ASSUME IInv, rows' = rows, produced' = produced, disk' \in {disk, meta'},
         meta' = InsertBumpMeta
  PROVE  RecordInv' /\ meta'.exported_data_version # meta'.data_version
<1>1. meta \in MetaRecord /\ RecordInv
  BY DEF IInv, TypeOK, PurgeSafety
<1>2. meta'.exported_data_version # meta'.data_version
  BY <1>1, InsertBumpFields, VersionTypes, NoneAssumption DEF RecordInv, RecordOK, ExportNotNewer
<1>3. ExportNotNewer(meta') /\ TxnNewer(meta')
  BY <1>1, InsertBumpFields, VersionTypes DEF RecordInv, RecordOK, ExportNotNewer, TxnNewer
<1>4. QED
  BY <1>1, <1>2, <1>3, NewRecord

LEMMA ExportRecord ==
  ASSUME IInv, rows' = rows, produced' = produced, disk' \in {disk, meta'},
         pc = "export_meta", meta' = ExportMetaRecord
  PROVE  RecordInv'
<1>1. meta \in MetaRecord /\ RecordInv /\ ExportInv
  BY DEF IInv, TypeOK, PurgeSafety
<1>2. meta.import_txn = None
  BY <1>1 DEF RecordInv, RecordOK, TxnNewer, ExportInv
<1>3. ExportNotNewer(meta') /\ TxnNewer(meta')
  BY <1>1, <1>2, ExportFields, VersionTypes DEF ExportNotNewer, TxnNewer
<1>4. rows \in CoveredRows
  BY <1>1 DEF ExportInv, CoveredRows, RowsOf
<1>5. QED
  BY <1>1, <1>3, <1>4, NewRecord

LEMMA ImportIntentRecord ==
  ASSUME IInv, rows' = rows, produced' = produced, disk' \in {disk, meta'},
         pc = "import_intent", meta' = ImportIntentMeta
  PROVE  RecordInv'
<1>1. meta \in MetaRecord /\ RecordInv /\ arg.new_data_version = meta.data_version + 1
  BY DEF IInv, TypeOK, PurgeSafety, ImportInv, ImportSteps, Preparing
<1>2. ExportNotNewer(meta') /\ TxnNewer(meta')
  BY <1>1, ImportIntentFields, VersionTypes DEF RecordInv, RecordOK, ExportNotNewer, TxnNewer
<1>3. QED
  BY <1>1, <1>2, ImportIntentFields, NewRecord DEF RecordInv, RecordOK, CoveredIfExported

LEMMA SwitchRecord ==
  ASSUME IInv, rows' = rows, produced' = produced, disk' \in {disk, meta'},
         pc = "switch_meta", meta' = SwitchMetaRecord
  PROVE  RecordInv'
<1>1. meta \in MetaRecord /\ RecordInv /\ arg.new_data_version = meta.data_version + 1
  BY DEF IInv, TypeOK, PurgeSafety, ImportInv, ImportSteps
<1>2. ExportNotNewer(meta') /\ TxnNewer(meta')
  BY <1>1, SwitchFields, VersionTypes DEF RecordInv, RecordOK, ExportNotNewer, TxnNewer
<1>3. meta'.exported_data_version # meta'.data_version
  BY <1>1, SwitchFields, VersionTypes, NoneAssumption DEF RecordInv, RecordOK, ExportNotNewer
<1>4. QED
  BY <1>1, <1>2, <1>3, NewRecord

LEMMA ImportOverRecord ==
  ASSUME IInv, rows' = rows, produced' = produced, disk' \in {disk, meta'},
         meta'.data_version = meta.data_version, meta'.import_txn = None,
         meta'.exported_data_version = meta.exported_data_version
  PROVE  RecordInv'
<1>1. RecordInv /\ ExportNotNewer(meta') /\ TxnNewer(meta')
  BY DEF IInv, PurgeSafety, RecordInv, RecordOK, ExportNotNewer, TxnNewer
<1>2. QED
  BY <1>1, NewRecord DEF RecordInv, RecordOK, CoveredIfExported

LEMMA PurgeRecord ==
  ASSUME IInv, rows' = rows, produced' = produced, disk' \in {disk, meta'},
         meta' = PurgeMetaRecord
  PROVE  RecordInv'
<1>1. meta \in MetaRecord /\ RecordInv
  BY DEF IInv, TypeOK, PurgeSafety
<1>2. ExportNotNewer(meta') /\ TxnNewer(meta')
  BY <1>1, PurgeFields DEF ExportNotNewer, TxnNewer
<1>3. meta'.exported_data_version # meta'.data_version
  BY <1>1, PurgeFields, VersionTypes, NoneAssumption
<1>4. QED
  BY <1>1, <1>2, <1>3, NewRecord

LEMMA RecoverForwardRecord ==
  ASSUME IInv, rows' = rows, produced' = produced, disk' \in {disk, meta'},
         meta' = RecoverForwardMeta
  PROVE  RecordInv'
<1>1. meta \in MetaRecord /\ RecordInv
  BY DEF IInv, TypeOK, PurgeSafety
<1>2. meta.exported_data_version # None =>
        meta.exported_data_version < meta'.data_version
  BY <1>1, RecoverForwardFields, VersionTypes DEF RecordInv, RecordOK, ExportNotNewer, TxnNewer
<1>3. meta'.data_version \in Nat
  BY <1>1, RecoverForwardFields, VersionTypes
<1>4. ExportNotNewer(meta') /\ TxnNewer(meta')
  BY <1>1, <1>2, <1>3, RecoverForwardFields, VersionTypes DEF ExportNotNewer, TxnNewer
<1>5. meta'.exported_data_version # meta'.data_version
  BY <1>1, <1>2, <1>3, RecoverForwardFields, VersionTypes, NoneAssumption
<1>6. QED
  BY <1>1, <1>4, <1>5, NewRecord

\* The table becomes one that needs no further bundle.
LEMMA CoveredTable ==
  ASSUME RecordInv, meta' = meta, disk' = disk, produced' = produced, rows' \in CoveredRows
  PROVE  RecordInv'
BY DEF RecordInv, RecordOK, ExportNotNewer, TxnNewer, CoveredIfExported, CoveredRows, RowsOf

LEMMA RecordStep == ASSUME IInv, Next PROVE RecordInv'
<1> USE DEF durable, tables, files, history
<1>0. RecordInv /\ meta \in MetaRecord
  BY DEF IInv, TypeOK, PurgeSafety
<1>CallCreate. CASE CallCreate
  BY <1>0, <1>CallCreate, QuietRecord DEF CallCreate, Call
<1>CallDrop. CASE CallDrop
  BY <1>0, <1>CallDrop, QuietRecord DEF CallDrop, Call
<1>InsertDuplicate. CASE InsertDuplicate
  BY <1>0, <1>InsertDuplicate, QuietRecord DEF InsertDuplicate, Return
<1>CallFlush. CASE CallFlush
  BY <1>0, <1>CallFlush, QuietRecord DEF CallFlush, Call
<1>FlushWrite. CASE FlushWrite
  BY <1>0, <1>FlushWrite, QuietRecord DEF FlushWrite, Step, WriteFiles
<1>LoadCollection. CASE LoadCollection
  BY <1>0, <1>LoadCollection, QuietRecord DEF LoadCollection, LoadUnlocked
<1>SearchLoad. CASE SearchLoad
  BY <1>0, <1>SearchLoad, QuietRecord DEF SearchLoad, LoadUnlocked
<1>CloseCollection. CASE CloseCollection
  BY <1>0, <1>CloseCollection, QuietRecord DEF CloseCollection
<1>CallExport. CASE CallExport
  BY <1>0, <1>CallExport, QuietRecord DEF CallExport, Call
<1>ExportRefused. CASE ExportRefused
  BY <1>0, <1>ExportRefused, QuietRecord DEF ExportRefused
<1>ExportReturn. CASE ExportReturn
  BY <1>0, <1>ExportReturn, QuietRecord DEF ExportReturn
<1>UploadFile. CASE UploadFile
  BY <1>0, <1>UploadFile, QuietRecord DEF UploadFile, Step, WriteFiles
<1>ImportFile. CASE ImportFile
  BY <1>0, <1>ImportFile, QuietRecord DEF ImportFile, Step, WriteFiles
<1>SwitchAside. CASE SwitchAside
  BY <1>0, <1>SwitchAside, QuietRecord DEF SwitchAside, Step, WriteFiles
<1>SwitchIndex. CASE SwitchIndex
  BY <1>0, <1>SwitchIndex, QuietRecord DEF SwitchIndex, Step, WriteFiles
<1>ImportDrop. CASE ImportDrop
  BY <1>0, <1>ImportDrop, QuietRecord DEF ImportDrop, Step, WriteTables
<1>ImportCreate. CASE ImportCreate
  BY <1>0, <1>ImportCreate, QuietRecord DEF ImportCreate, Step, WriteTables
<1>ImportRows. CASE ImportRows
  BY <1>0, <1>ImportRows, QuietRecord DEF ImportRows, Step, WriteTables
<1>SwitchClean. CASE SwitchClean
  BY <1>0, <1>SwitchClean, QuietRecord DEF SwitchClean, Return, WriteFiles
<1>AbortFile. CASE AbortFile
  BY <1>0, <1>AbortFile, QuietRecord DEF AbortFile, Step, WriteFiles
<1>AbortRows. CASE AbortRows
  BY <1>0, <1>AbortRows, QuietRecord DEF AbortRows, Step, WriteTables
<1>PurgeIndex. CASE PurgeIndex
  BY <1>0, <1>PurgeIndex, QuietRecord DEF PurgeIndex, Step, WriteFiles
<1>PurgeSweep. CASE PurgeSweep
  BY <1>0, <1>PurgeSweep, QuietRecord DEF PurgeSweep, Step, WriteFiles
<1>PurgePre. CASE PurgePre
  BY <1>0, <1>PurgePre, QuietRecord DEF PurgePre, Step, WriteFiles
<1>PurgeStaging. CASE PurgeStaging
  BY <1>0, <1>PurgeStaging, QuietRecord DEF PurgeStaging, Step, WriteTables
<1>DropFile. CASE DropFile
  BY <1>0, <1>DropFile, QuietRecord DEF DropFile, Step, WriteFiles
<1>DropDir. CASE DropDir
  BY <1>0, <1>DropDir, QuietRecord DEF DropDir, Return
<1>StepFails. CASE StepFails
  BY <1>0, <1>StepFails, QuietRecord DEF StepFails, Raise
<1>OtherCollectionWrites. CASE OtherCollectionWrites
  BY <1>0, <1>OtherCollectionWrites, QuietRecord DEF OtherCollectionWrites
<1>Crash. CASE Crash
  BY <1>0, <1>Crash, QuietRecord DEF Crash
<1>Restart. CASE Restart
  BY <1>0, <1>Restart, QuietRecord DEF Restart, Step
<1>RecoverClean. CASE RecoverClean
  BY <1>0, <1>RecoverClean, QuietRecord DEF RecoverClean, Step, WriteFiles
<1>RecoverCleanPre. CASE RecoverCleanPre
  BY <1>0, <1>RecoverCleanPre, QuietRecord DEF RecoverCleanPre, Return, WriteFiles
<1>RecoverBack. CASE RecoverBack
  BY <1>0, <1>RecoverBack, QuietRecord DEF RecoverBack, Step, WriteTables
<1>RecoverUnlink. CASE RecoverUnlink
  BY <1>0, <1>RecoverUnlink, QuietRecord DEF RecoverUnlink, Step, WriteFiles
<1>RecoverRestore. CASE RecoverRestore
  BY <1>0, <1>RecoverRestore, QuietRecord DEF RecoverRestore, Step, WriteFiles
<1>CallInsert. ASSUME NEW batch \in Batches, CallInsert(batch) PROVE RecordInv'
  BY <1>0, <1>CallInsert, QuietRecord DEF CallInsert, Call
<1>CallUpload. ASSUME NEW index \in UploadIndexes,
                      NEW version \in {None} \cup 1..MaxVersion, CallUpload(index, version) PROVE RecordInv'
  BY <1>0, <1>CallUpload, QuietRecord DEF CallUpload, Call
<1>CallImport. ASSUME NEW bundle \in HeldBundles, CallImport(bundle) PROVE RecordInv'
  BY <1>0, <1>CallImport, QuietRecord DEF CallImport
<1>CallPurge. ASSUME NEW require_exported \in BOOLEAN, CallPurge(require_exported) PROVE RecordInv'
  BY <1>0, <1>CallPurge, QuietRecord DEF CallPurge, Call
<1>Create. CASE Create
  BY <1>0, <1>Create, CreateRecord DEF Create, Return, WriteMeta
<1>DropMeta. CASE DropMeta
  BY <1>0, <1>DropMeta, CreateRecord DEF DropMeta, Step
<1>DropTable. CASE DropTable
  BY <1>0, <1>DropTable, CoveredTable DEF DropTable, Step, WriteTables, CoveredRows
<1>InsertBump. CASE InsertBump
  BY <1>0, <1>InsertBump, InsertBumpRecord DEF InsertBump, Step, WriteMeta
<1>InsertTotal. CASE InsertTotal
  BY <1>0, <1>InsertTotal, SameDataRecord, SameDataRecords DEF InsertTotal, Return, WriteMeta
<1>FlushMeta. CASE FlushMeta
  BY <1>0, <1>FlushMeta, SameDataRecord, SameDataRecords DEF FlushMeta, Return, WriteMeta
<1>UploadMeta. CASE UploadMeta
  BY <1>0, <1>UploadMeta, SameDataRecord, SameDataRecords DEF UploadMeta, Return, WriteMeta
<1>ExportMeta. CASE ExportMeta
  BY <1>0, <1>ExportMeta, ExportRecord DEF ExportMeta, Step, WriteMeta
<1>ImportIntent. CASE ImportIntent
  BY <1>0, <1>ImportIntent, ImportIntentRecord DEF ImportIntent, Step, WriteMeta
<1>SwitchMeta. CASE SwitchMeta
  BY <1>0, <1>SwitchMeta, SwitchRecord DEF SwitchMeta, Step, WriteMeta
<1>PurgeRows. CASE PurgeRows
  BY <1>0, <1>PurgeRows, CoveredTable DEF PurgeRows, Step, WriteTables, CoveredRows
<1>PurgeMeta. CASE PurgeMeta
  BY <1>0, <1>PurgeMeta, PurgeRecord DEF PurgeMeta, Return, WriteMeta
<1>RecoverForward. CASE RecoverForward
  BY <1>0, <1>RecoverForward, RecoverForwardRecord DEF RecoverForward, Step, WriteMeta
<1>InsertRows. CASE InsertRows
  <2>1. /\ disk = meta /\ meta.exported_data_version # meta.data_version
        /\ meta' = meta /\ disk' = disk
    BY <1>InsertRows DEF IInv, PurgeSafety, InsertInv, InsertRows, Step, WriteTables
  <2>2. QED
    BY <1>0, <2>1 DEF RecordInv, RecordOK, ExportNotNewer, TxnNewer, CoveredIfExported
<1>ExportBundle. CASE ExportBundle
  BY <1>0, <1>ExportBundle DEF ExportBundle, RecordInv, RecordOK, ExportNotNewer, TxnNewer,
     CoveredIfExported, CoveredRows, RowsOf
<1>SwitchRows. CASE SwitchRows
  <2>1. rows' = arg.bundle.rows /\ arg.bundle \in produced \cup ExternalBundles
    BY <1>SwitchRows DEF IInv, PurgeSafety, ImportInv, ImportSteps, StagedSteps, SwitchRows,
       Step, WriteTables
  <2>2. rows' \in CoveredRows
    BY <2>1 DEF CoveredRows, RowsOf
  <2>3. QED
    BY <1>0, <1>SwitchRows, <2>2, CoveredTable DEF SwitchRows, Step, WriteTables
<1>AbortMeta. CASE AbortMeta
  BY <1>0, <1>AbortMeta, AbortFields, ImportOverRecord, QuietRecord
     DEF AbortMeta, Return, WriteMeta
<1>RecoverState. CASE RecoverState
  <2>1. PICK state : meta' = [meta EXCEPT !.data_state = state, !.import_txn = None]
    BY <1>RecoverState DEF RecoverState, WriteMeta
  <2>2. /\ meta'.data_version = meta.data_version /\ meta'.import_txn = None
        /\ meta'.exported_data_version = meta.exported_data_version
    BY <1>0, <2>1, RecoverStateFields
  <2>3. QED
    BY <1>RecoverState, <2>2, ImportOverRecord DEF RecoverState, Return, WriteMeta
<1>MetaFlushFails. CASE MetaFlushFails
  <2>1. rows' = rows /\ produced' = produced /\ disk' = disk
    BY <1>MetaFlushFails DEF MetaFlushFails, Raise
  <2>2. \/ meta' \in {FreshMeta, NoMeta} \/ meta' = InsertBumpMeta
        \/ SameData(meta')
        \/ pc = "export_meta" /\ meta' = ExportMetaRecord
        \/ pc = "import_intent" /\ meta' = ImportIntentMeta
        \/ pc = "switch_meta" /\ meta' = SwitchMetaRecord
        \/ meta' = AbortMetaRecord \/ meta' = PurgeMetaRecord
    BY <1>0, <1>MetaFlushFails, SameDataRecords DEF MetaFlushFails
  <2>3. QED
    BY <1>0, <2>1, <2>2, CreateRecord, InsertBumpRecord, SameDataRecord, ExportRecord,
       ImportIntentRecord, SwitchRecord, AbortFields, ImportOverRecord, PurgeRecord
<1>QED. QED
  BY <1>CallCreate, <1>CallDrop, <1>InsertDuplicate, <1>CallFlush, <1>FlushWrite,
     <1>LoadCollection, <1>SearchLoad, <1>CloseCollection, <1>CallExport,
     <1>ExportRefused, <1>ExportReturn, <1>UploadFile, <1>ImportFile, <1>SwitchAside,
     <1>SwitchIndex, <1>ImportRows, <1>SwitchClean, <1>AbortFile, <1>AbortRows,
     <1>PurgeIndex, <1>PurgeSweep, <1>PurgeStaging, <1>DropDir, <1>StepFails,
     <1>OtherCollectionWrites, <1>Crash, <1>Restart, <1>RecoverClean,
     <1>RecoverCleanPre, <1>RecoverBack, <1>RecoverUnlink, <1>RecoverRestore,
     <1>CallInsert, <1>CallUpload, <1>CallImport, <1>CallPurge, <1>Create, <1>DropMeta,
     <1>DropTable, <1>InsertBump, <1>InsertTotal, <1>FlushMeta, <1>UploadMeta,
     <1>ExportMeta, <1>ImportIntent, <1>SwitchMeta, <1>PurgeRows, <1>PurgeMeta,
     <1>RecoverForward, <1>InsertRows, <1>ExportBundle, <1>SwitchRows, <1>AbortMeta,
     <1>RecoverState, <1>MetaFlushFails, <1>DropFile, <1>PurgePre, <1>ImportDrop,
     <1>ImportCreate
     DEF Next, Calls, HandlerStep, Recovery, Faults

-----------------------------------------------------------------------------
(* What the position of a handler says of its locals and of the record. *)

PositionInv == InsertInv /\ ExportInv /\ ImportInv /\ returned \subseteq produced

LEMMA PositionStep == ASSUME IInv, Next PROVE PositionInv'
<1> USE DEF PositionInv, InsertInv, ExportInv, ImportInv, ImportSteps, StagedSteps, Preparing,
            RecoverySteps, durable, tables, files, memory, history
<1>0. PositionInv /\ meta \in MetaRecord
  BY DEF IInv, TypeOK, PurgeSafety
<1>CallCreate. CASE CallCreate
  BY <1>0, <1>CallCreate DEF CallCreate, Call
<1>CallDrop. CASE CallDrop
  BY <1>0, <1>CallDrop DEF CallDrop, Call
<1>InsertDuplicate. CASE InsertDuplicate
  BY <1>0, <1>InsertDuplicate DEF InsertDuplicate, Return
<1>CallFlush. CASE CallFlush
  BY <1>0, <1>CallFlush DEF CallFlush, Call
<1>FlushWrite. CASE FlushWrite
  BY <1>0, <1>FlushWrite DEF FlushWrite, Step, WriteFiles
<1>LoadCollection. CASE LoadCollection
  BY <1>0, <1>LoadCollection DEF LoadCollection, LoadUnlocked
<1>SearchLoad. CASE SearchLoad
  BY <1>0, <1>SearchLoad DEF SearchLoad, LoadUnlocked
<1>CloseCollection. CASE CloseCollection
  BY <1>0, <1>CloseCollection DEF CloseCollection
<1>CallExport. CASE CallExport
  <2>1. meta.data_state \in DataStates
    BY <1>0 DEF MetaRecord
  <2>2. meta.data_state = "ready"
    BY <1>CallExport, <2>1 DEF CallExport, ExportGuard, Exists, DataStates
  <2>3. QED
    BY <1>0, <1>CallExport, <2>2 DEF CallExport, Call, ExportGuard
<1>ExportRefused. CASE ExportRefused
  BY <1>0, <1>ExportRefused DEF ExportRefused
<1>ExportReturn. CASE ExportReturn
  BY <1>0, <1>ExportReturn DEF ExportReturn
<1>UploadFile. CASE UploadFile
  BY <1>0, <1>UploadFile DEF UploadFile, Step, WriteFiles
<1>ImportFile. CASE ImportFile
  BY <1>0, <1>ImportFile DEF ImportFile, Step, WriteFiles
<1>SwitchAside. CASE SwitchAside
  BY <1>0, <1>SwitchAside DEF SwitchAside, Step, WriteFiles
<1>SwitchIndex. CASE SwitchIndex
  BY <1>0, <1>SwitchIndex DEF SwitchIndex, Step, WriteFiles
<1>ImportDrop. CASE ImportDrop
  BY <1>0, <1>ImportDrop DEF ImportDrop, Step, WriteTables
<1>ImportCreate. CASE ImportCreate
  BY <1>0, <1>ImportCreate DEF ImportCreate, Step, WriteTables
<1>ImportRows. CASE ImportRows
  BY <1>0, <1>ImportRows DEF ImportRows, Step, WriteTables
<1>SwitchClean. CASE SwitchClean
  BY <1>0, <1>SwitchClean DEF SwitchClean, Return, WriteFiles
<1>AbortFile. CASE AbortFile
  BY <1>0, <1>AbortFile DEF AbortFile, Step, WriteFiles
<1>AbortRows. CASE AbortRows
  BY <1>0, <1>AbortRows DEF AbortRows, Step, WriteTables
<1>PurgeIndex. CASE PurgeIndex
  BY <1>0, <1>PurgeIndex DEF PurgeIndex, Step, WriteFiles
<1>PurgeSweep. CASE PurgeSweep
  BY <1>0, <1>PurgeSweep DEF PurgeSweep, Step, WriteFiles
<1>PurgePre. CASE PurgePre
  BY <1>0, <1>PurgePre DEF PurgePre, Step, WriteFiles
<1>PurgeStaging. CASE PurgeStaging
  BY <1>0, <1>PurgeStaging DEF PurgeStaging, Step, WriteTables
<1>DropFile. CASE DropFile
  BY <1>0, <1>DropFile DEF DropFile, Step, WriteFiles
<1>DropDir. CASE DropDir
  BY <1>0, <1>DropDir DEF DropDir, Return
<1>StepFails. CASE StepFails
  BY <1>0, <1>StepFails DEF StepFails, Raise
<1>OtherCollectionWrites. CASE OtherCollectionWrites
  BY <1>0, <1>OtherCollectionWrites DEF OtherCollectionWrites
<1>Crash. CASE Crash
  BY <1>0, <1>Crash DEF Crash
<1>Restart. CASE Restart
  BY <1>0, <1>Restart DEF Restart, Step
<1>RecoverClean. CASE RecoverClean
  BY <1>0, <1>RecoverClean DEF RecoverClean, Step, WriteFiles
<1>RecoverCleanPre. CASE RecoverCleanPre
  BY <1>0, <1>RecoverCleanPre DEF RecoverCleanPre, Return, WriteFiles
<1>RecoverBack. CASE RecoverBack
  BY <1>0, <1>RecoverBack DEF RecoverBack, Step, WriteTables
<1>RecoverUnlink. CASE RecoverUnlink
  BY <1>0, <1>RecoverUnlink DEF RecoverUnlink, Step, WriteFiles
<1>RecoverRestore. CASE RecoverRestore
  BY <1>0, <1>RecoverRestore DEF RecoverRestore, Step, WriteFiles
<1>Create. CASE Create
  BY <1>0, <1>Create DEF Create, Return, WriteMeta
<1>DropMeta. CASE DropMeta
  BY <1>0, <1>DropMeta DEF DropMeta, Step
<1>DropTable. CASE DropTable
  BY <1>0, <1>DropTable DEF DropTable, Step, WriteTables
<1>InsertBump. CASE InsertBump
  BY <1>0, <1>InsertBump, InsertBumpRecord DEF InsertBump, Step, WriteMeta
<1>InsertRows. CASE InsertRows
  BY <1>0, <1>InsertRows DEF InsertRows, Step, WriteTables
<1>InsertTotal. CASE InsertTotal
  BY <1>0, <1>InsertTotal DEF InsertTotal, Return, WriteMeta
<1>FlushMeta. CASE FlushMeta
  BY <1>0, <1>FlushMeta DEF FlushMeta, Return, WriteMeta
<1>UploadMeta. CASE UploadMeta
  BY <1>0, <1>UploadMeta DEF UploadMeta, Return, WriteMeta
<1>ExportBundle. CASE ExportBundle
  BY <1>0, <1>ExportBundle DEF ExportBundle
<1>ExportMeta. CASE ExportMeta
  BY <1>0, <1>ExportMeta, ExportFields DEF ExportMeta, Step, WriteMeta
<1>ImportIntent. CASE ImportIntent
  BY <1>0, <1>ImportIntent, ImportIntentFields DEF ImportIntent, Step, WriteMeta
<1>SwitchRows. CASE SwitchRows
  BY <1>0, <1>SwitchRows DEF SwitchRows, Step, WriteTables
<1>SwitchMeta. CASE SwitchMeta
  BY <1>0, <1>SwitchMeta DEF SwitchMeta, Step, WriteMeta
<1>AbortMeta. CASE AbortMeta
  BY <1>0, <1>AbortMeta DEF AbortMeta, Return, WriteMeta
<1>PurgeRows. CASE PurgeRows
  BY <1>0, <1>PurgeRows DEF PurgeRows, Step, WriteTables
<1>PurgeMeta. CASE PurgeMeta
  BY <1>0, <1>PurgeMeta DEF PurgeMeta, Return, WriteMeta
<1>RecoverForward. CASE RecoverForward
  BY <1>0, <1>RecoverForward DEF RecoverForward, Step, WriteMeta
<1>RecoverState. CASE RecoverState
  BY <1>0, <1>RecoverState DEF RecoverState, Return
<1>MetaFlushFails. CASE MetaFlushFails
  BY <1>0, <1>MetaFlushFails DEF MetaFlushFails, Raise
<1>CallInsert. ASSUME NEW batch \in Batches, CallInsert(batch) PROVE PositionInv'
  BY <1>0, <1>CallInsert DEF CallInsert, Call
<1>CallUpload. ASSUME NEW index \in UploadIndexes,
                      NEW version \in {None} \cup 1..MaxVersion, CallUpload(index, version) PROVE PositionInv'
  BY <1>0, <1>CallUpload DEF CallUpload, Call
<1>CallImport. ASSUME NEW bundle \in HeldBundles, CallImport(bundle) PROVE PositionInv'
  BY <1>0, <1>CallImport DEF CallImport, HeldBundles
<1>CallPurge. ASSUME NEW require_exported \in BOOLEAN, CallPurge(require_exported) PROVE PositionInv'
  BY <1>0, <1>CallPurge DEF CallPurge, Call
<1>QED. QED
  BY <1>CallCreate, <1>CallDrop, <1>InsertDuplicate, <1>CallFlush, <1>FlushWrite,
     <1>LoadCollection, <1>SearchLoad, <1>CloseCollection, <1>CallExport,
     <1>ExportRefused, <1>ExportReturn, <1>UploadFile, <1>ImportFile, <1>SwitchAside,
     <1>SwitchIndex, <1>ImportRows, <1>SwitchClean, <1>AbortFile, <1>AbortRows,
     <1>PurgeIndex, <1>PurgeSweep, <1>PurgeStaging, <1>DropDir, <1>StepFails,
     <1>OtherCollectionWrites, <1>Crash, <1>Restart, <1>RecoverClean,
     <1>RecoverCleanPre, <1>RecoverBack, <1>RecoverUnlink, <1>RecoverRestore, <1>Create,
     <1>DropMeta, <1>DropTable, <1>InsertBump, <1>InsertRows, <1>InsertTotal,
     <1>FlushMeta, <1>UploadMeta, <1>ExportBundle, <1>ExportMeta, <1>ImportIntent,
     <1>SwitchRows, <1>SwitchMeta, <1>AbortMeta, <1>PurgeRows, <1>PurgeMeta,
     <1>RecoverForward, <1>RecoverState, <1>MetaFlushFails, <1>CallInsert,
     <1>CallUpload, <1>CallImport, <1>CallPurge, <1>DropFile, <1>PurgePre,
     <1>ImportDrop, <1>ImportCreate
     DEF Next, Calls, HandlerStep, Recovery, Faults
-----------------------------------------------------------------------------
(* The theorems. *)

LEMMA SafetyInit == Init => PurgeSafety
<1> SUFFICES ASSUME Init PROVE PurgeSafety
  OBVIOUS
<1>1. meta = NoMeta /\ disk = NoMeta /\ pc = "idle" /\ produced = {} /\ returned = {}
  BY DEF Init
<1>2. /\ NoMeta.exported_data_version = None /\ NoMeta.import_txn = None
      /\ NoMeta.data_version = 1
  BY DEF NoMeta, FreshMeta
<1>3. RecordInv
  BY <1>1, <1>2, NoneAssumption
     DEF RecordInv, RecordOK, ExportNotNewer, TxnNewer, CoveredIfExported
<1>4. InsertInv /\ ExportInv /\ ImportInv
  BY <1>1 DEF InsertInv, ExportInv, ImportInv, ImportSteps, StagedSteps, Preparing
<1>5. QED
  BY <1>1, <1>3, <1>4 DEF PurgeSafety

\* A step that changes nothing keeps everything.
LEMMA StutterStep == ASSUME IInv, UNCHANGED vars PROVE IInv'
BY DEF vars, IInv, durable, tables, files, memory, history, counts, TypeOK, ArgOK,
       PurgeSafety, RecordInv, RecordOK, ExportNotNewer, TxnNewer, CoveredIfExported,
       CoveredRows, RowsOf, InsertInv, ExportInv, ImportInv

\* Types and purge safety together are inductive.
THEOREM Invariance == Spec => []IInv
<1>1. Init => IInv
  BY TypeInit, SafetyInit DEF IInv
<1>2. IInv /\ [Next]_vars => IInv'
  BY TypeStep, RecordStep, PositionStep, StutterStep DEF IInv, PurgeSafety, PositionInv
<1>3. QED
  BY <1>1, <1>2, PTL DEF Spec

\* Every variable of the engine keeps its type: no interleaving of handlers,
\* failed writes, crashes and recoveries leaves a record half written or a
\* handler without the locals its position needs.
THEOREM TypeCorrect == Spec => []TypeOK
<1>1. IInv => TypeOK
  BY DEF IInv
<1>2. QED
  BY <1>1, Invariance, PTL

\* The record and its copy on disk never claim an export of rows that no bundle
\* holds, at any position of any handler.
THEOREM PurgeSafetyHolds == Spec => []PurgeSafety
<1>1. IInv => PurgeSafety
  BY DEF IInv
<1>2. QED
  BY <1>1, Invariance, PTL

\* What require_exported=True of purge_collection_data accepts deletes only rows
\* that are in a written bundle (or in one a client brought), for any number of
\* rows, bundles, crashes and failed writes.
THEOREM PurgeDeletesOnlyExportedRows == Spec => []EligibleMeansExported
<1>1. IInv => EligibleMeansExported
  BY DEF IInv, PurgeSafety, RecordInv, RecordOK, CoveredIfExported, EligibleMeansExported,
     Eligible
<1>2. QED
  BY <1>1, Invariance, PTL

-----------------------------------------------------------------------------
(* The index of an eligible collection is exported too, until something fails. *)

Exporting == pc = "export_meta" => arg.index = indexFile /\ indexFile # None

\* Positions at which the file and the checksum of the record may differ: between
\* the replacement of the one and that of the other.
Replacing == {"flush_meta", "upload_meta", "switch_rows", "switch_meta"}

\* No handler but these runs without a collection.
Unborn == {"idle", "create", "drop_meta", "drop_table", "drop_dir"} \cup RecoverySteps

Unfailed ==
  /\ Exists /\ indexFile # None /\ pc \notin Replacing => meta.index_checksum = indexFile
  /\ ~Exists /\ pc \notin {"drop_table", "drop_dir"} => indexFile = None
  /\ pc = "create" => ~Exists
  /\ pc \notin Unborn => Exists
  /\ pc \in ImportSteps \cup AbortSteps => arg.prev_state # "absent"
  /\ pc \in PurgeSteps \ {"purge_index"} => indexFile = None
  /\ Exporting
  /\ meta.exported_index_checksum # None =>
       meta.exported_index_checksum \in {b.index : b \in produced}

IndexInv ==
  /\ pc \in RecoverySteps => crashes > 0
  /\ crashes + failures = 0 => Unfailed

\* What a written record takes over from the one before.
Keeps(m) ==
  /\ m.index_checksum = meta.index_checksum
  /\ m.exported_index_checksum = meta.exported_index_checksum
  /\ m.data_state = meta.data_state

LEMMA IndexFields ==
  ASSUME meta \in MetaRecord
  PROVE  /\ Keeps(InsertBumpMeta) /\ Keeps(InsertTotalMeta)
         /\ \A m \in {FlushMetaRecord, UploadMetaRecord} :
              /\ m.index_checksum = indexFile /\ m.data_state = meta.data_state
              /\ m.exported_index_checksum = meta.exported_index_checksum
         /\ ExportMetaRecord.index_checksum = meta.index_checksum
         /\ ExportMetaRecord.exported_index_checksum = meta.index_checksum
         /\ ExportMetaRecord.data_state = meta.data_state
         /\ ImportIntentMeta.index_checksum = meta.index_checksum
         /\ ImportIntentMeta.exported_index_checksum = meta.exported_index_checksum
         /\ ImportIntentMeta.data_state = "importing"
         /\ SwitchMetaRecord.index_checksum = indexFile
         /\ SwitchMetaRecord.exported_index_checksum = meta.exported_index_checksum
         /\ SwitchMetaRecord.data_state = "ready"
         /\ AbortMetaRecord.index_checksum = meta.index_checksum
         /\ AbortMetaRecord.exported_index_checksum = meta.exported_index_checksum
         /\ AbortMetaRecord.data_state = arg.prev_state
         /\ PurgeMetaRecord.exported_index_checksum = None
         /\ PurgeMetaRecord.data_state = "purged"
<1> USE DEF MetaRecord
<1>1. Keeps(InsertBumpMeta) /\ Keeps(InsertTotalMeta)
  BY DEF Keeps, InsertBumpMeta, InsertTotalMeta
<1>2. \A m \in {FlushMetaRecord, UploadMetaRecord} :
        /\ m.index_checksum = indexFile /\ m.data_state = meta.data_state
        /\ m.exported_index_checksum = meta.exported_index_checksum
  BY DEF FlushMetaRecord, UploadMetaRecord
<1>3. /\ ExportMetaRecord.index_checksum = meta.index_checksum
      /\ ExportMetaRecord.exported_index_checksum = meta.index_checksum
      /\ ExportMetaRecord.data_state = meta.data_state
  BY DEF ExportMetaRecord
<1>4. /\ ImportIntentMeta.index_checksum = meta.index_checksum
      /\ ImportIntentMeta.exported_index_checksum = meta.exported_index_checksum
      /\ ImportIntentMeta.data_state = "importing"
  BY DEF ImportIntentMeta
<1>5. /\ SwitchMetaRecord.index_checksum = indexFile
      /\ SwitchMetaRecord.exported_index_checksum = meta.exported_index_checksum
      /\ SwitchMetaRecord.data_state = "ready"
  BY DEF SwitchMetaRecord
<1>6. /\ AbortMetaRecord.index_checksum = meta.index_checksum
      /\ AbortMetaRecord.exported_index_checksum = meta.exported_index_checksum
      /\ AbortMetaRecord.data_state = arg.prev_state
  BY DEF AbortMetaRecord
<1>7. PurgeMetaRecord.exported_index_checksum = None /\ PurgeMetaRecord.data_state = "purged"
  BY DEF PurgeMetaRecord
<1>8. QED
  BY <1>1, <1>2, <1>3, <1>4, <1>5, <1>6, <1>7

\* Calls change neither index nor record.
LEMMA UnfailedCall == ASSUME IInv, Unfailed, Calls PROVE Unfailed'
<1> USE DEF Unfailed, Exporting, Unborn, Replacing, Exists, ImportSteps, AbortSteps, PurgeSteps,
            Preparing, StagedSteps, RecoverySteps, durable, files, history
<1>1. CASE CallCreate
  BY <1>1 DEF CallCreate, Call
<1>2. CASE CallDrop
  BY <1>2 DEF CallDrop, Call
<1>3. CASE CallFlush
  BY <1>3 DEF CallFlush, Call
<1>4. CASE CallExport
  BY <1>4 DEF CallExport, ExportGuard, Call
<1>5. ASSUME NEW batch \in Batches, CallInsert(batch) PROVE Unfailed'
  BY <1>5 DEF CallInsert, Call
<1>6. ASSUME NEW index \in UploadIndexes, NEW version \in {None} \cup 1..MaxVersion,
             CallUpload(index, version)
      PROVE  Unfailed'
  BY <1>6 DEF CallUpload, Call
<1>7. ASSUME NEW bundle \in HeldBundles, CallImport(bundle) PROVE Unfailed'
  BY <1>7 DEF CallImport
<1>8. ASSUME NEW require_exported \in BOOLEAN, CallPurge(require_exported) PROVE Unfailed'
  BY <1>8 DEF CallPurge, Call
<1>9. CASE LoadCollection \/ SearchLoad \/ CloseCollection \/ ExportRefused
  BY <1>9 DEF LoadCollection, SearchLoad, CloseCollection, ExportRefused, LoadUnlocked
<1>10. QED
  BY <1>1, <1>2, <1>3, <1>4, <1>5, <1>6, <1>7, <1>8, <1>9 DEF Calls

LEMMA UnfailedStep == ASSUME IInv, Unfailed, HandlerStep PROVE Unfailed'
<1> USE IndexFields DEF IInv, TypeOK, Unfailed, Exporting, Unborn, Replacing, Exists, ImportSteps,
        AbortSteps, PurgeSteps, Preparing, StagedSteps, RecoverySteps, durable, files, tables, history,
        Step, Return, WriteMeta, WriteFiles, WriteTables, Keeps
<1>1. CASE Create
  BY <1>1 DEF Create, FreshMeta
<1>2. CASE DropMeta \/ DropTable \/ DropFile \/ DropDir
  BY <1>2 DEF DropMeta, DropTable, DropFile, DropDir, NoMeta, FreshMeta
<1>3. CASE InsertBump \/ InsertRows \/ InsertDuplicate \/ InsertTotal
  BY <1>3 DEF InsertBump, InsertRows, InsertDuplicate, InsertTotal
<1>4. CASE FlushWrite \/ FlushMeta
  BY <1>4 DEF FlushWrite, FlushMeta
<1>5. CASE UploadFile \/ UploadMeta
  BY <1>5 DEF UploadFile, UploadMeta
<1>6. CASE ExportBundle
  BY <1>6 DEF ExportBundle, PurgeSafety, ExportInv
<1>7. CASE ExportMeta
  BY <1>7 DEF ExportMeta, PurgeSafety, ExportInv
<1>8. CASE ExportReturn
  BY <1>8 DEF ExportReturn
<1>9. CASE ImportFile \/ ImportDrop \/ ImportCreate \/ ImportRows
  BY <1>9 DEF ImportFile, ImportDrop, ImportCreate, ImportRows
<1>10. CASE ImportIntent
  BY <1>10 DEF ImportIntent
<1>11. CASE SwitchAside \/ SwitchIndex \/ SwitchRows \/ SwitchClean
  BY <1>11 DEF SwitchAside, SwitchIndex, SwitchRows, SwitchClean
<1>12. CASE SwitchMeta
  BY <1>12 DEF SwitchMeta
<1>13. CASE AbortFile \/ AbortRows
  BY <1>13 DEF AbortFile, AbortRows
<1>14. CASE AbortMeta
  BY <1>14 DEF AbortMeta
<1>15. CASE PurgeIndex \/ PurgeSweep \/ PurgePre \/ PurgeStaging \/ PurgeRows
  BY <1>15 DEF PurgeIndex, PurgeSweep, PurgePre, PurgeStaging, PurgeRows
<1>16. CASE PurgeMeta
  BY <1>16 DEF PurgeMeta
<1>17. QED
  BY <1>1, <1>2, <1>3, <1>4, <1>5, <1>6, <1>7, <1>8, <1>9, <1>10, <1>11, <1>12, <1>13, <1>14,
     <1>15, <1>16 DEF HandlerStep

LEMMA IndexStep == ASSUME IInv, IndexInv, Next PROVE IndexInv'
<1>0. crashes \in Nat /\ failures \in Nat
  BY DEF IInv, TypeOK
<1>1. CASE Calls
  <2>1. pc = "idle" /\ UNCHANGED counts /\ pc' \notin RecoverySteps
    BY <1>1 DEF Calls, CallCreate, CallDrop, CallFlush, CallExport, CallInsert, CallUpload, CallImport,
       CallPurge, LoadCollection, SearchLoad, LoadUnlocked, CloseCollection, ExportRefused, Call,
       RecoverySteps
  <2>2. QED
    BY <1>0, <1>1, <2>1, UnfailedCall DEF IndexInv, counts
<1>2. CASE HandlerStep
  <2>1. UNCHANGED counts /\ pc' \notin RecoverySteps
    BY <1>2 DEF HandlerStep, Create, DropMeta, DropTable, DropFile, DropDir, InsertBump, InsertRows,
       InsertDuplicate, InsertTotal, FlushWrite, FlushMeta, UploadFile, UploadMeta, ExportBundle,
       ExportMeta, ExportReturn, ImportFile, ImportDrop, ImportCreate, ImportRows, ImportIntent,
       SwitchAside, SwitchIndex, SwitchRows, SwitchMeta, SwitchClean, AbortFile, AbortRows, AbortMeta,
       PurgeIndex, PurgeSweep, PurgePre, PurgeStaging, PurgeRows, PurgeMeta, Step, Return, RecoverySteps
  <2>2. QED
    BY <1>0, <1>2, <2>1, UnfailedStep DEF IndexInv, counts
<1>3. CASE Restart \/ Recovery
  <2>1. pc \in RecoverySteps /\ UNCHANGED counts
    BY <1>3 DEF Restart, Recovery, RecoverForward, RecoverClean, RecoverCleanPre, RecoverBack,
       RecoverUnlink, RecoverRestore, RecoverState, Step, Return, RecoverySteps
  <2>2. QED
    BY <1>0, <2>1 DEF IndexInv, counts
<1>4. CASE OtherCollectionWrites
  BY <1>4 DEF OtherCollectionWrites, IndexInv, Unfailed, Exporting, Exists, durable, files, history, counts
<1>5. CASE StepFails \/ MetaFlushFails
  <2>1. failures' = failures + 1 /\ crashes' = crashes /\ pc' \in {"abort_file", "idle"}
    BY <1>5 DEF StepFails, MetaFlushFails, Raise
  <2>2. QED
    BY <1>0, <2>1 DEF IndexInv, RecoverySteps
<1>6. CASE Crash
  BY <1>0, <1>6 DEF Crash, IndexInv
<1>7. QED
  BY <1>1, <1>2, <1>3, <1>4, <1>5, <1>6 DEF Next, Faults

\* As long as nothing crashed or raised, the index that an authorised purge deletes
\* is in a bundle that was written: uploads do not change the data version, so this
\* rests on the index version and the checksum of the record.
THEOREM IndexExportedBeforePurge == Spec => []EligibleMeansIndexExported
<1>1. Init => IndexInv
  BY DEF Init, IndexInv, Unfailed, Exporting, Exists, NoMeta, FreshMeta, RecoverySteps, Unborn,
     ImportSteps, AbortSteps, PurgeSteps, Preparing, StagedSteps
<1>2. ASSUME IInv, IndexInv, [Next]_vars PROVE IndexInv'
  <2>1. CASE UNCHANGED vars
    BY <1>2, <2>1 DEF vars, IndexInv, Unfailed, Exporting, Exists, durable, files, history, counts
  <2>2. QED
    BY <1>2, <2>1, IndexStep
<1>3. IndexInv => EligibleMeansIndexExported
  BY DEF IndexInv, Unfailed, EligibleMeansIndexExported, Idle, Eligible, Replacing
<1>4. QED
  BY <1>1, <1>2, <1>3, Invariance, PTL DEF Spec

-----------------------------------------------------------------------------
(* Bundles can be imported again, as long as no handler is cut short by an      *)
(* exception: the loaded index is the one in the file.                          *)

\* Positions at which the loaded index and the file may differ.
Publishing ==
  {"flush_meta", "upload_meta", "switch_index", "switch_rows", "switch_meta", "switch_clean"}

Staged == {"import_drop", "import_create", "import_rows", "import_intent", "switch_aside",
           "switch_index"}

LoadedInv ==
  /\ pc \in RecoverySteps \cup {"drop_table", "drop_dir"} => memIndex = None
  /\ memIndex # None /\ pc \notin Publishing => memIndex = indexFile
  /\ pc = "flush_meta" => indexFile = rows
  /\ pc = "upload_meta" => indexFile = arg.index
  /\ pc \in Staged => stagingFile = arg.bundle.index
  /\ pc \in {"switch_rows", "switch_meta", "switch_clean"} => indexFile = arg.bundle.index
  /\ pc = "export_bundle" => Len(indexFile) = Len(rows)

LEMMA LoadedStep ==
  ASSUME IInv, failures = 0 => LoadedInv, ExportedBundleAgrees, Next, failures' = 0
  PROVE  LoadedInv' /\ ExportedBundleAgrees'
<1> USE DEF IInv, TypeOK, LoadedInv, ExportedBundleAgrees, Publishing, Staged, RecoverySteps,
            durable, files, tables, memory, Unload, Load, PublishIndex, history, counts,
            Step, Return, WriteMeta, WriteFiles, WriteTables
<1>1. CASE CallCreate \/ CallDrop \/ CallFlush
  BY <1>1 DEF CallCreate, CallDrop, CallFlush, Call
<1>2. ASSUME NEW batch \in Batches, CallInsert(batch) PROVE LoadedInv' /\ ExportedBundleAgrees'
  BY <1>2 DEF CallInsert, Call
<1>3. ASSUME NEW index \in UploadIndexes, NEW version \in {None} \cup 1..MaxVersion,
             CallUpload(index, version)
      PROVE  LoadedInv' /\ ExportedBundleAgrees'
  BY <1>3 DEF CallUpload, Call
<1>4. ASSUME NEW bundle \in HeldBundles, CallImport(bundle) PROVE LoadedInv' /\ ExportedBundleAgrees'
  BY <1>4 DEF CallImport
<1>5. ASSUME NEW require_exported \in BOOLEAN, CallPurge(require_exported)
      PROVE  LoadedInv' /\ ExportedBundleAgrees'
  BY <1>5 DEF CallPurge, Call
<1>6. CASE LoadCollection \/ SearchLoad \/ CloseCollection
  BY <1>6 DEF LoadCollection, SearchLoad, LoadUnlocked, CloseCollection
<1>7. CASE CallExport \/ ExportRefused
  BY <1>7 DEF CallExport, ExportRefused, ExportGuard, CountsAgree, LiveIndex, Call
<1>8. CASE Create \/ DropMeta \/ DropTable \/ DropFile \/ DropDir
  BY <1>8 DEF Create, DropMeta, DropTable, DropFile, DropDir
<1>9. CASE InsertBump \/ InsertRows \/ InsertDuplicate \/ InsertTotal
  BY <1>9 DEF InsertBump, InsertRows, InsertDuplicate, InsertTotal
<1>10. CASE FlushWrite \/ FlushMeta \/ UploadFile \/ UploadMeta
  BY <1>10 DEF FlushWrite, FlushMeta, UploadFile, UploadMeta
<1>11. CASE ExportBundle
  <2>1. arg'.index = indexFile /\ arg'.rows = rows /\ produced' = produced \cup {arg'}
    BY <1>11 DEF ExportBundle
  <2>2. ExportedBundleAgrees'
    BY <1>11, <2>1 DEF ExportBundle
  <2>3. QED
    BY <1>11, <2>2 DEF ExportBundle
<1>12. CASE ExportMeta \/ ExportReturn
  BY <1>12 DEF ExportMeta, ExportReturn
<1>13. CASE ImportFile \/ ImportDrop \/ ImportCreate \/ ImportRows \/ ImportIntent
  BY <1>13 DEF ImportFile, ImportDrop, ImportCreate, ImportRows, ImportIntent
<1>14. CASE SwitchAside \/ SwitchIndex \/ SwitchRows \/ SwitchMeta \/ SwitchClean
  BY <1>14 DEF SwitchAside, SwitchIndex, SwitchRows, SwitchMeta, SwitchClean
<1>15. CASE AbortFile \/ AbortRows \/ AbortMeta
  BY <1>15 DEF AbortFile, AbortRows, AbortMeta
<1>16. CASE PurgeIndex \/ PurgeSweep \/ PurgePre \/ PurgeStaging \/ PurgeRows \/ PurgeMeta
  BY <1>16 DEF PurgeIndex, PurgeSweep, PurgePre, PurgeStaging, PurgeRows, PurgeMeta
<1>17. CASE Restart \/ Recovery
  BY <1>17 DEF Restart, Recovery, RecoverForward, RecoverClean, RecoverCleanPre, RecoverBack,
     RecoverUnlink, RecoverRestore, RecoverState
<1>18. CASE Crash \/ OtherCollectionWrites
  BY <1>18 DEF Crash, OtherCollectionWrites
<1>19. ~StepFails /\ ~MetaFlushFails
  BY DEF StepFails, MetaFlushFails, Raise
<1>20. QED
  BY <1>1, <1>2, <1>3, <1>4, <1>5, <1>6, <1>7, <1>8, <1>9, <1>10, <1>11, <1>12, <1>13, <1>14,
     <1>15, <1>16, <1>17, <1>18, <1>19 DEF Next, Calls, HandlerStep, Faults

\* As long as nothing has raised, the count that export compares on the loaded index
\* is that of the file it copies: every bundle has as many rows as its index, whatever
\* crashes, uploads and imports came before, and import will not refuse it.
THEOREM BundlesAgree == Spec => []ExportedBundleAgrees
<1> DEFINE LoadedUnfailed == failures = 0 => LoadedInv
<1>1. Init => LoadedUnfailed /\ ExportedBundleAgrees
  BY DEF Init, LoadedInv, ExportedBundleAgrees, RecoverySteps, Publishing, Staged
<1>2. ASSUME IInv, LoadedUnfailed, ExportedBundleAgrees, [Next]_vars
      PROVE  LoadedUnfailed' /\ ExportedBundleAgrees'
  <2>1. CASE UNCHANGED vars
    BY <1>2, <2>1 DEF vars, LoadedInv, ExportedBundleAgrees, durable, files, tables, memory,
       history, counts
  <2>2. CASE Next /\ failures' = 0
    BY <1>2, <2>2, LoadedStep
  <2>3. CASE failures' # 0
    BY <2>3 DEF ExportedBundleAgrees
  <2>4. QED
    BY <1>2, <2>1, <2>2, <2>3
<1>3. IInv /\ (LoadedUnfailed /\ ExportedBundleAgrees) /\ [Next]_vars
        => (LoadedUnfailed /\ ExportedBundleAgrees)'
  BY <1>2
<1>4. QED
  BY <1>1, <1>3, Invariance, PTL DEF Spec

-----------------------------------------------------------------------------
(* An import that fails sweeps what it staged, whichever of its steps raised. *)

\* The bundles of an earlier session are ones that import would take.
AgreeingBundles == \A b \in ExternalBundles : Len(b.index) = Len(b.rows)

Swept == stagingFile = None /\ stagingRows = None

SweptInv ==
  /\ pc \in {"switch_aside", "switch_index", "switch_rows"} => meta.import_txn # None
  /\ pc \notin ImportSteps \cup AbortSteps \cup RecoverySteps \cup {"idle"} => attempt = None
  /\ crashes = 0 =>
       /\ pc \notin RecoverySteps
       /\ pc \in AbortSteps => failures > 0
       /\ pc \in {"switch_rows", "abort_rows"} => stagingFile = None
       /\ pc \in {"switch_meta", "switch_clean", "abort_meta"} => Swept
       /\ pc = "idle" /\ attempt # None /\ ~IntentWritten => Swept

LEMMA SweptStep ==
  ASSUME IInv, ExportedBundleAgrees, SweptInv, AgreeingBundles, MaxFailures <= 1, Next
  PROVE  SweptInv'
<1> USE DEF SweptInv, Swept, IntentWritten, ImportSteps, AbortSteps, StagedSteps, Preparing,
            RecoverySteps, durable, tables, files, history, counts, Step, Return, WriteMeta,
            WriteFiles, WriteTables
<1>0. failures \in Nat /\ crashes \in Nat /\ MaxFailures \in Nat
  BY ConstantsAssumption DEF IInv, TypeOK
<1>1. CASE CallCreate \/ CallDrop \/ CallFlush \/ CallExport
  BY <1>1 DEF CallCreate, CallDrop, CallFlush, CallExport, Call
<1>2. ASSUME NEW batch \in Batches, CallInsert(batch) PROVE SweptInv'
  BY <1>2 DEF CallInsert, Call
<1>3. ASSUME NEW index \in UploadIndexes, NEW version \in {None} \cup 1..MaxVersion,
             CallUpload(index, version)
      PROVE  SweptInv'
  BY <1>3 DEF CallUpload, Call
<1>4. ASSUME NEW bundle \in HeldBundles, CallImport(bundle) PROVE SweptInv'
  BY <1>4 DEF CallImport
<1>5. ASSUME NEW require_exported \in BOOLEAN, CallPurge(require_exported) PROVE SweptInv'
  BY <1>5 DEF CallPurge, Call
<1>6. CASE LoadCollection \/ SearchLoad \/ CloseCollection \/ ExportRefused
  BY <1>6 DEF LoadCollection, SearchLoad, LoadUnlocked, CloseCollection, ExportRefused
<1>7. CASE Create \/ DropMeta \/ DropTable \/ DropFile \/ DropDir
  BY <1>7 DEF Create, DropMeta, DropTable, DropFile, DropDir
<1>8. CASE InsertBump \/ InsertRows \/ InsertDuplicate \/ InsertTotal
  BY <1>8 DEF InsertBump, InsertRows, InsertDuplicate, InsertTotal
<1>9. CASE FlushWrite \/ FlushMeta \/ UploadFile \/ UploadMeta
  BY <1>9 DEF FlushWrite, FlushMeta, UploadFile, UploadMeta
<1>10. CASE ExportBundle \/ ExportMeta \/ ExportReturn
  BY <1>10 DEF ExportBundle, ExportMeta, ExportReturn
<1>11. CASE ImportFile
  <2>1. arg.bundle \in produced \cup ExternalBundles
    BY <1>11 DEF ImportFile, IInv, PurgeSafety, ImportInv
  <2>2. failures = 0 => Len(arg.bundle.index) = Len(arg.bundle.rows)
    BY <2>1 DEF ExportedBundleAgrees, AgreeingBundles
  <2>3. QED
    BY <1>0, <1>11, <2>2 DEF ImportFile
<1>12. CASE ImportDrop \/ ImportCreate \/ ImportRows
  BY <1>12 DEF ImportDrop, ImportCreate, ImportRows
<1>13. CASE ImportIntent
  <2>1. arg \in ImportArg
    BY <1>13 DEF ImportIntent, IInv, TypeOK, ArgOK, ImportArg
  <2>2. ImportIntentMeta.import_txn # None
    BY <2>1, NoneAssumption, ImportArgType DEF ImportIntentMeta, ImportTxn, IInv, TypeOK, MetaRecord, ImportArg
  <2>3. QED
    BY <1>13, <2>2 DEF ImportIntent
<1>14. CASE SwitchAside \/ SwitchIndex \/ SwitchRows \/ SwitchMeta \/ SwitchClean
  BY <1>14 DEF SwitchAside, SwitchIndex, SwitchRows, SwitchMeta, SwitchClean
<1>15. CASE AbortFile \/ AbortRows \/ AbortMeta
  BY <1>15 DEF AbortFile, AbortRows, AbortMeta
<1>16. CASE PurgeIndex \/ PurgeSweep \/ PurgePre \/ PurgeStaging \/ PurgeRows \/ PurgeMeta
  BY <1>16 DEF PurgeIndex, PurgeSweep, PurgePre, PurgeStaging, PurgeRows, PurgeMeta
<1>17. CASE Restart \/ Recovery
  BY <1>17 DEF Restart, Recovery, RecoverForward, RecoverClean, RecoverCleanPre, RecoverBack,
     RecoverUnlink, RecoverRestore, RecoverState
<1>18. CASE Crash
  BY <1>0, <1>18 DEF Crash
<1>19. CASE OtherCollectionWrites
  BY <1>19 DEF OtherCollectionWrites
<1>20. CASE StepFails
  BY <1>0, <1>20 DEF StepFails, Raise
<1>21. CASE MetaFlushFails
  BY <1>0, <1>21 DEF MetaFlushFails, Raise
<1>22. QED
  BY <1>1, <1>2, <1>3, <1>4, <1>5, <1>6, <1>7, <1>8, <1>9, <1>10, <1>11, <1>12, <1>13, <1>14,
     <1>15, <1>16, <1>17, <1>18, <1>19, <1>20, <1>21
     DEF Next, Calls, HandlerStep, Faults

\* An import that an exception ended, at any of its steps, the write of its intent
\* included, leaves neither side copy, unless it left its intent for a restart: for
\* one exception, and clients whose older bundles import would take.
THEOREM FailedImportSweeps ==
  ASSUME MaxFailures <= 1, AgreeingBundles
  PROVE  Spec => []FailedImportIsSwept
<1>1. Init => SweptInv
  BY DEF Init, SweptInv, Swept, ImportSteps, AbortSteps, StagedSteps, Preparing, RecoverySteps
<1>2. ASSUME IInv, ExportedBundleAgrees, SweptInv, [Next]_vars PROVE SweptInv'
  <2>1. CASE UNCHANGED vars
    BY <1>2, <2>1 DEF vars, SweptInv, Swept, IntentWritten, durable, files, tables, history, counts
  <2>2. QED
    BY <1>2, <2>1, SweptStep
<1>3. SweptInv /\ IInv /\ ExportedBundleAgrees /\ [Next]_vars => SweptInv'
  BY <1>2
<1>4. SweptInv => FailedImportIsSwept
  BY DEF SweptInv, Swept, FailedImportIsSwept, Idle
<1>5. QED
  BY <1>1, <1>3, <1>4, Invariance, BundlesAgree, PTL DEF Spec

-----------------------------------------------------------------------------
(* The data version only grows, as long as no write of the record fails.       *)

\* Positions at which an import may be pending.
Pending == {"switch_aside", "switch_index", "switch_rows", "switch_meta",
            "down", "recover", "recover_unlink", "recover_restore", "recover_state"}

VersionInv ==
  /\ disk = meta
  /\ ~Exists => meta = NoMeta
  /\ pc = "create" => ~Exists
  /\ pc \notin Unborn => Exists
  /\ pc \in RecoverySteps \ {"down"} => Exists
  /\ pc \in ImportSteps \cup AbortSteps => arg.prev_state # "absent"
  /\ meta.import_txn # None =>
       /\ pc \in Pending
       /\ meta.import_txn.new_data_version = meta.data_version + 1
       /\ meta.import_txn.prev_state # "absent"

Grows == Exists /\ Exists' => disk'.data_version >= disk.data_version

LEMMA VersionFields ==
  ASSUME meta \in MetaRecord
  PROVE  /\ InsertBumpMeta.data_version = meta.data_version + 1
         /\ PurgeMetaRecord.data_version = meta.data_version + 1
         /\ \A m \in {InsertBumpMeta, InsertTotalMeta, FlushMetaRecord, UploadMetaRecord, ExportMetaRecord} :
              m.data_state = meta.data_state /\ m.import_txn = meta.import_txn
         /\ PurgeMetaRecord.data_state = "purged" /\ PurgeMetaRecord.import_txn = meta.import_txn
         /\ \A m \in {InsertTotalMeta, FlushMetaRecord, UploadMetaRecord, ExportMetaRecord,
                      ImportIntentMeta, AbortMetaRecord} : m.data_version = meta.data_version
         /\ ImportIntentMeta.data_state = "importing"
         /\ ImportIntentMeta.import_txn.new_data_version = arg.new_data_version
         /\ ImportIntentMeta.import_txn.prev_state = arg.prev_state
         /\ AbortMetaRecord.data_state = arg.prev_state /\ AbortMetaRecord.import_txn = None
         /\ SwitchMetaRecord.data_state = "ready" /\ SwitchMetaRecord.import_txn = None
         /\ SwitchMetaRecord.data_version = arg.new_data_version
         /\ RecoverForwardMeta.data_state = "ready" /\ RecoverForwardMeta.import_txn = None
<1> USE DEF MetaRecord
<1>1. InsertBumpMeta.data_version = meta.data_version + 1
      /\ PurgeMetaRecord.data_version = meta.data_version + 1
  BY DEF InsertBumpMeta, PurgeMetaRecord
<1>2. \A m \in {InsertBumpMeta, InsertTotalMeta, FlushMetaRecord, UploadMetaRecord, ExportMetaRecord} :
        m.data_state = meta.data_state /\ m.import_txn = meta.import_txn
  BY DEF InsertBumpMeta, InsertTotalMeta, FlushMetaRecord, UploadMetaRecord, ExportMetaRecord
<1>3. PurgeMetaRecord.data_state = "purged" /\ PurgeMetaRecord.import_txn = meta.import_txn
  BY DEF PurgeMetaRecord
<1>4. \A m \in {InsertTotalMeta, FlushMetaRecord, UploadMetaRecord, ExportMetaRecord,
                ImportIntentMeta, AbortMetaRecord} : m.data_version = meta.data_version
  BY DEF InsertTotalMeta, FlushMetaRecord, UploadMetaRecord, ExportMetaRecord, ImportIntentMeta,
     AbortMetaRecord
<1>5. /\ ImportIntentMeta.data_state = "importing"
      /\ ImportIntentMeta.import_txn.new_data_version = arg.new_data_version
      /\ ImportIntentMeta.import_txn.prev_state = arg.prev_state
  BY DEF ImportIntentMeta
<1>6. AbortMetaRecord.data_state = arg.prev_state /\ AbortMetaRecord.import_txn = None
  BY DEF AbortMetaRecord
<1>7. /\ SwitchMetaRecord.data_state = "ready" /\ SwitchMetaRecord.import_txn = None
      /\ SwitchMetaRecord.data_version = arg.new_data_version
  BY DEF SwitchMetaRecord
<1>8. RecoverForwardMeta.data_state = "ready" /\ RecoverForwardMeta.import_txn = None
  BY DEF RecoverForwardMeta
<1>9. QED
  BY <1>1, <1>2, <1>3, <1>4, <1>5, <1>6, <1>7, <1>8

LEMMA VersionStep ==
  ASSUME IInv, VersionInv, MaxFailures = 0, Next PROVE VersionInv' /\ Grows
<1> USE DEF IInv, TypeOK, VersionInv, Grows, Exists, Unborn, Pending, ImportSteps, AbortSteps,
            StagedSteps, Preparing, RecoverySteps, durable, files, tables, memory, history,
            Step, Return, WriteMeta, WriteFiles, WriteTables
<1>0. meta.data_version \in Nat
  BY VersionTypes
<1>1. CASE CallCreate \/ CallDrop \/ CallFlush \/ CallExport
  BY <1>0, <1>1 DEF CallCreate, CallDrop, CallFlush, CallExport, ExportGuard, Call
<1>2. ASSUME NEW batch \in Batches, CallInsert(batch) PROVE VersionInv' /\ Grows
  BY <1>0, <1>2 DEF CallInsert, Call
<1>3. ASSUME NEW index \in UploadIndexes, NEW version \in {None} \cup 1..MaxVersion,
             CallUpload(index, version)
      PROVE  VersionInv' /\ Grows
  BY <1>0, <1>3 DEF CallUpload, Call
<1>4. ASSUME NEW bundle \in HeldBundles, CallImport(bundle) PROVE VersionInv' /\ Grows
  BY <1>0, <1>4 DEF CallImport
<1>5. ASSUME NEW require_exported \in BOOLEAN, CallPurge(require_exported) PROVE VersionInv' /\ Grows
  BY <1>0, <1>5 DEF CallPurge, Call
<1>6. CASE LoadCollection \/ SearchLoad \/ CloseCollection \/ ExportRefused
  BY <1>0, <1>6 DEF LoadCollection, SearchLoad, LoadUnlocked, CloseCollection, ExportRefused
<1>7. CASE Create
  BY <1>0, <1>7 DEF Create, FreshMeta
<1>8. CASE DropMeta
  BY <1>0, <1>8 DEF DropMeta, NoMeta, FreshMeta
<1>9. CASE DropTable \/ DropFile \/ DropDir
  BY <1>0, <1>9 DEF DropTable, DropFile, DropDir
<1>10. CASE InsertBump \/ InsertRows \/ InsertDuplicate \/ InsertTotal
  BY <1>0, <1>10, VersionFields DEF InsertBump, InsertRows, InsertDuplicate, InsertTotal
<1>11. CASE FlushWrite \/ FlushMeta \/ UploadFile \/ UploadMeta
  BY <1>0, <1>11, VersionFields DEF FlushWrite, FlushMeta, UploadFile, UploadMeta
<1>12. CASE ExportBundle \/ ExportMeta \/ ExportReturn
  BY <1>0, <1>12, VersionFields DEF ExportBundle, ExportMeta, ExportReturn
<1>13. CASE ImportFile \/ ImportDrop \/ ImportCreate \/ ImportRows
  BY <1>0, <1>13 DEF ImportFile, ImportDrop, ImportCreate, ImportRows
<1>14. CASE ImportIntent
  BY <1>0, <1>14, VersionFields DEF ImportIntent, PurgeSafety, ImportInv
<1>15. CASE SwitchAside \/ SwitchIndex \/ SwitchRows \/ SwitchClean
  BY <1>0, <1>15 DEF SwitchAside, SwitchIndex, SwitchRows, SwitchClean
<1>16. CASE SwitchMeta
  BY <1>0, <1>16, VersionFields DEF SwitchMeta, PurgeSafety, ImportInv
<1>17. CASE AbortFile \/ AbortRows
  BY <1>0, <1>17 DEF AbortFile, AbortRows
<1>18. CASE AbortMeta
  BY <1>0, <1>18, VersionFields DEF AbortMeta, IntentWritten
<1>19. CASE PurgeIndex \/ PurgeSweep \/ PurgePre \/ PurgeStaging \/ PurgeRows
  BY <1>0, <1>19 DEF PurgeIndex, PurgeSweep, PurgePre, PurgeStaging, PurgeRows
<1>20. CASE PurgeMeta
  BY <1>0, <1>20, VersionFields DEF PurgeMeta
<1>21. CASE Restart
  BY <1>0, <1>21 DEF Restart, IntentWritten, NoMeta, FreshMeta
<1>22. CASE RecoverForward
  BY <1>0, <1>22, VersionFields, RecoverForwardFields DEF RecoverForward
<1>23. CASE RecoverClean \/ RecoverCleanPre \/ RecoverBack \/ RecoverUnlink \/ RecoverRestore
  BY <1>0, <1>23 DEF RecoverClean, RecoverCleanPre, RecoverBack, RecoverUnlink, RecoverRestore
<1>24. CASE RecoverState
  <2> DEFINE prev  == IF meta.import_txn = None THEN "ready" ELSE meta.import_txn.prev_state
             state == IF indexFile # None THEN prev ELSE "invalid"
  <2>1. state # "absent"
    BY <1>24 DEF RecoverState
  <2> HIDE DEF state
  <2>2. meta' = [meta EXCEPT !.data_state = state, !.import_txn = None]
    BY <1>24 DEF RecoverState, state
  <2>3. meta'.data_state = state /\ meta'.import_txn = None /\ meta'.data_version = meta.data_version
    BY <2>2 DEF MetaRecord
  <2>4. QED
    BY <1>0, <1>24, <2>1, <2>3 DEF RecoverState
<1>25. CASE Crash \/ OtherCollectionWrites
  BY <1>0, <1>25 DEF Crash, OtherCollectionWrites
<1>26. ~StepFails /\ ~MetaFlushFails
  BY DEF StepFails, MetaFlushFails, Raise
<1>27. QED
  BY <1>1, <1>2, <1>3, <1>4, <1>5, <1>6, <1>7, <1>8, <1>9, <1>10, <1>11, <1>12, <1>13, <1>14,
     <1>15, <1>16, <1>17, <1>18, <1>19, <1>20, <1>21, <1>22, <1>23, <1>24, <1>25, <1>26
     DEF Next, Calls, HandlerStep, Recovery, Faults

\* The version that decides freshness and purge eligibility is never taken back while
\* the collection exists, whatever crashes and however often recovery is interrupted,
\* as long as no write of collections.json fails.
THEOREM VersionKept == ASSUME MaxFailures = 0 PROVE Spec => DataVersionNeverGoesBack
<1>1. Init => VersionInv
  BY DEF Init, VersionInv, Exists, NoMeta, FreshMeta, Unborn, RecoverySteps, ImportSteps, AbortSteps,
     Preparing, StagedSteps
<1>2. ASSUME IInv, VersionInv, [Next]_vars
      PROVE  VersionInv' /\ [Grows]_<<meta, disk>>
  <2>1. CASE UNCHANGED vars
    BY <1>2, <2>1 DEF vars, VersionInv, Exists
  <2>2. QED
    BY <1>2, <2>1, VersionStep
<1>3. [Grows]_<<meta, disk>> =>
        [Exists /\ Exists' => disk'.data_version >= disk.data_version]_<<meta, disk>>
  BY DEF Grows
<1>4. QED
  BY <1>1, <1>2, <1>3, Invariance, PTL DEF Spec, DataVersionNeverGoesBack

-----------------------------------------------------------------------------
(* An import over an index takes effect as a whole or not at all, through one  *)
(* crash.                                                                       *)

Untouched == indexFile = attempt.index /\ rows = attempt.rows
Imported  == indexFile = attempt.bundle.index /\ rows = attempt.bundle.rows

\* The old index, if there was one, is aside, or was not yet set aside.
Restorable ==
  /\ rows = attempt.rows
  /\ attempt.index # None =>
       preFile = attempt.index \/ (preFile = None /\ indexFile = attempt.index)

\* The commit intent and the state name the same imports.
TxnInv ==
  /\ meta.data_state = "importing" <=> meta.import_txn # None
  /\ pc \in {"switch_aside", "switch_index", "switch_rows", "switch_meta",
             "recover", "recover_unlink", "recover_restore", "recover_state"} =>
       meta.import_txn # None
  /\ meta.import_txn # None =>
       /\ meta.import_txn.prev_state # "importing"
       /\ attempt.bundle \in Bundle /\ meta.import_txn.total = Len(attempt.bundle.rows)

\* What each position says of index and rows.
PlaceInv ==
  /\ pc \in Preparing \cup {"switch_aside"} \cup AbortSteps => Untouched
  /\ pc \in {"switch_index", "switch_rows"} =>
       rows = attempt.rows /\ (attempt.index # None => preFile = attempt.index)
  /\ pc = "switch_meta" => Imported /\ stagingRows = None
  /\ pc \in {"switch_clean", "recover_clean", "recover_clean_pre"} => Imported
  /\ pc \in {"down", "recover"} /\ meta.import_txn # None =>
       \/ Imported /\ stagingRows = None
       \/ Restorable /\ stagingRows # None
  /\ pc \in {"recover_unlink", "recover_restore"} => Restorable
  /\ pc = "recover_state" /\ attempt.index # None => Untouched
  /\ pc \in {"idle", "down"} /\ meta.import_txn = None /\ attempt # None
       /\ attempt.index # None => Untouched \/ Imported

AttemptInv ==
  /\ TxnInv /\ PlaceInv
  /\ pc \in ImportSteps \cup AbortSteps =>
       /\ attempt.bundle \in Bundle /\ arg.bundle = attempt.bundle
       /\ arg.prev_state # "importing"
  /\ pc \notin ImportSteps \cup AbortSteps \cup RecoverySteps \cup {"idle"} => attempt = None
  /\ crashes = 0 /\ preFile # None =>
       pc \in {"switch_index", "switch_rows", "switch_meta", "switch_clean"}

\* The invariants of the sections above, which hold together.
Ground ==
  failures = 0 /\ IInv /\ IndexInv /\ LoadedInv /\ ExportedBundleAgrees /\ VersionInv

\* Without a failed step, failures stays as it is.
LEMMA NoFailure == ASSUME Next, ~StepFails, ~MetaFlushFails PROVE failures' = failures
BY DEF Next, Calls, HandlerStep, Recovery, Faults, counts, Call, Step, Return, CallCreate, CallDrop,
   CallFlush, CallExport, CallInsert, CallUpload, CallImport, CallPurge, LoadCollection, SearchLoad,
   CloseCollection, ExportRefused, LoadUnlocked, Create, DropMeta, DropTable, DropFile, DropDir,
   InsertBump, InsertRows, InsertDuplicate, InsertTotal, FlushWrite, FlushMeta, UploadFile,
   UploadMeta, ExportBundle, ExportMeta, ExportReturn, ImportFile, ImportDrop, ImportCreate,
   ImportRows, ImportIntent, SwitchAside, SwitchIndex, SwitchRows, SwitchMeta, SwitchClean,
   AbortFile, AbortRows, AbortMeta, PurgeIndex, PurgeSweep, PurgePre, PurgeStaging, PurgeRows,
   PurgeMeta, Restart, RecoverForward, RecoverClean, RecoverCleanPre, RecoverBack, RecoverUnlink,
   RecoverRestore, RecoverState, OtherCollectionWrites, Crash

LEMMA GroundStep == ASSUME Ground, MaxFailures = 0, [Next]_vars PROVE Ground'
<1>1. CASE Next
  <2>1. ~StepFails /\ ~MetaFlushFails
    BY DEF StepFails, MetaFlushFails, Raise, Ground
  <2>2. failures' = 0
    BY <1>1, <2>1, NoFailure DEF Ground
  <2>3. QED
    BY <1>1, <2>2, TypeStep, RecordStep, PositionStep, IndexStep, LoadedStep, VersionStep
       DEF IInv, PurgeSafety, PositionInv, Ground
<1>2. CASE UNCHANGED vars
  <2>1. IInv'
    BY <1>2, StutterStep DEF Ground
  <2>2. IndexInv' /\ VersionInv'
    BY <1>2 DEF Ground, vars, IndexInv, Unfailed, Exporting, Exists, VersionInv, durable, files,
       history, counts
  <2>3. LoadedInv' /\ ExportedBundleAgrees'
    BY <1>2 DEF Ground, vars, LoadedInv, ExportedBundleAgrees, durable, files, tables, memory,
       history, counts
  <2>4. failures' = 0
    BY <1>2 DEF Ground, vars, counts
  <2>5. QED
    BY <2>1, <2>2, <2>3, <2>4 DEF Ground
<1>3. QED
  BY <1>1, <1>2

LEMMA IntentTotal ==
  ASSUME meta \in MetaRecord, arg \in ImportArg
  PROVE  /\ ImportIntentMeta.import_txn # None
         /\ ImportIntentMeta.import_txn.total = Len(arg.bundle.rows)
<1>1. ImportIntentMeta.import_txn = [new_data_version |-> arg.new_data_version,
                                     prev_state |-> arg.prev_state,
                                     total |-> Len(arg.bundle.rows)]
  BY DEF ImportIntentMeta, MetaRecord
<1>2. ImportIntentMeta.import_txn \in ImportTxn
  BY <1>1, ImportArgType DEF ImportTxn
<1>3. QED
  BY <1>1, <1>2, NoneAssumption

LEMMA AttemptStep ==
  ASSUME Ground, AttemptInv, MaxFailures = 0, MaxCrashes <= 1, Next
  PROVE  AttemptInv'
<1> USE DEF AttemptInv, TxnInv, PlaceInv, Untouched, Imported, Restorable, ImportSteps, AbortSteps,
            StagedSteps, Preparing, RecoverySteps, durable, files, tables, memory, history, counts,
            Step, Return, WriteMeta, WriteFiles, WriteTables
<1>0. /\ meta \in MetaRecord /\ disk = meta /\ crashes \in Nat
      /\ pc \in RecoverySteps => crashes > 0
      /\ meta.import_txn # None => pc \in Pending
  BY DEF Ground, IInv, TypeOK, IndexInv, VersionInv
<1>1. CASE CallCreate \/ CallDrop \/ CallFlush \/ CallExport
  BY <1>0, <1>1 DEF CallCreate, CallDrop, CallFlush, CallExport, Call, Pending
<1>2. ASSUME NEW batch \in Batches, CallInsert(batch) PROVE AttemptInv'
  BY <1>0, <1>2 DEF CallInsert, Call, Pending
<1>3. ASSUME NEW index \in UploadIndexes, NEW version \in {None} \cup 1..MaxVersion,
             CallUpload(index, version)
      PROVE  AttemptInv'
  BY <1>0, <1>3 DEF CallUpload, Call, Pending
<1>4. ASSUME NEW bundle \in HeldBundles, CallImport(bundle) PROVE AttemptInv'
  <2>1. attempt' = [index |-> indexFile, rows |-> rows, bundle |-> bundle]
        /\ arg'.bundle = bundle /\ arg'.prev_state = meta.data_state /\ pc = "idle"
    BY <1>4 DEF CallImport
  <2>2. attempt'.index = indexFile /\ attempt'.rows = rows /\ attempt'.bundle = bundle
    BY <2>1
  <2>3. bundle \in Bundle
    BY ConstantsAssumption DEF HeldBundles, Ground, IInv, TypeOK
  <2>4. QED
    BY <1>0, <1>4, <2>1, <2>2, <2>3 DEF CallImport, Pending
<1>5. ASSUME NEW require_exported \in BOOLEAN, CallPurge(require_exported) PROVE AttemptInv'
  BY <1>0, <1>5 DEF CallPurge, Call, Pending
<1>6. CASE LoadCollection \/ SearchLoad \/ CloseCollection \/ ExportRefused
  BY <1>0, <1>6 DEF LoadCollection, SearchLoad, LoadUnlocked, CloseCollection, ExportRefused
<1>7. CASE Create \/ DropMeta
  BY <1>0, <1>7 DEF Create, DropMeta, FreshMeta, NoMeta
<1>8. CASE DropTable \/ DropFile \/ DropDir
  BY <1>0, <1>8 DEF DropTable, DropFile, DropDir
<1>9. CASE InsertBump \/ InsertRows \/ InsertDuplicate \/ InsertTotal
  BY <1>0, <1>9, VersionFields DEF InsertBump, InsertRows, InsertDuplicate, InsertTotal
<1>10. CASE FlushWrite \/ FlushMeta \/ UploadFile \/ UploadMeta
  BY <1>0, <1>10, VersionFields DEF FlushWrite, FlushMeta, UploadFile, UploadMeta
<1>11. CASE ExportBundle \/ ExportMeta \/ ExportReturn
  BY <1>0, <1>11, VersionFields DEF ExportBundle, ExportMeta, ExportReturn
<1>12. CASE ImportFile \/ ImportDrop \/ ImportCreate \/ ImportRows
  BY <1>0, <1>12 DEF ImportFile, ImportDrop, ImportCreate, ImportRows
<1>13. CASE ImportIntent
  <2>1. arg \in ImportArg
    BY <1>13 DEF ImportIntent, Ground, IInv, TypeOK, ArgOK, ImportArg
  <2>2. QED
    BY <1>0, <1>13, <2>1, VersionFields, IntentTotal DEF ImportIntent
<1>14. CASE SwitchAside \/ SwitchIndex
  BY <1>0, <1>14 DEF SwitchAside, SwitchIndex
<1>15. CASE SwitchRows
  BY <1>0, <1>15 DEF SwitchRows, Ground, LoadedInv, IInv, PurgeSafety, ImportInv
<1>16. CASE SwitchMeta
  BY <1>0, <1>16, VersionFields DEF SwitchMeta
<1>17. CASE SwitchClean
  BY <1>0, <1>17 DEF SwitchClean
<1>18. CASE AbortFile \/ AbortRows
  BY <1>0, <1>18 DEF AbortFile, AbortRows
<1>19. CASE AbortMeta
  BY <1>0, <1>19, VersionFields DEF AbortMeta, Pending
<1>20. CASE PurgeIndex \/ PurgeSweep \/ PurgePre \/ PurgeStaging \/ PurgeRows
  BY <1>0, <1>20 DEF PurgeIndex, PurgeSweep, PurgePre, PurgeStaging, PurgeRows, PurgeSteps
<1>21. CASE PurgeMeta
  BY <1>0, <1>21, VersionFields DEF PurgeMeta, Pending
<1>22. CASE Restart
  BY <1>0, <1>22 DEF Restart, IntentWritten
<1>23. CASE RecoverForward
  BY <1>0, <1>23, VersionFields DEF RecoverForward, SwitchDone
<1>24. CASE RecoverBack
  <2>1. attempt.bundle.index # None
    BY <1>24, NoneAssumption DEF RecoverBack, Bundle
  <2>2. Restorable
    BY <1>24, <2>1 DEF RecoverBack, SwitchDone
  <2>3. QED
    BY <1>0, <1>24, <2>2 DEF RecoverBack
<1>25. CASE RecoverClean \/ RecoverCleanPre \/ RecoverUnlink
  BY <1>0, <1>25 DEF RecoverClean, RecoverCleanPre, RecoverUnlink, Pending
<1>26. CASE RecoverRestore
  BY <1>0, <1>26 DEF RecoverRestore
<1>27. CASE RecoverState
  <2> DEFINE prev  == IF meta.import_txn = None THEN "ready" ELSE meta.import_txn.prev_state
             state == IF indexFile # None THEN prev ELSE "invalid"
  <2>1. state # "importing"
    BY <1>27 DEF RecoverState
  <2> HIDE DEF state
  <2>2. meta' = [meta EXCEPT !.data_state = state, !.import_txn = None]
    BY <1>27 DEF RecoverState, state
  <2>3. meta'.data_state = state /\ meta'.import_txn = None
    BY <1>0, <2>2 DEF MetaRecord
  <2>4. QED
    BY <1>0, <1>27, <2>1, <2>3 DEF RecoverState
<1>28. CASE Crash
  <2>1. crashes = 0 /\ pc \notin RecoverySteps /\ meta' = meta
    BY <1>0, <1>28, ConstantsAssumption DEF Crash
  <2>2. pc \in StagedSteps => stagingRows # None
    BY NoneAssumption DEF Ground, IInv, TypeOK, ArgOK, PurgeSafety, ImportInv, Bundle
  <2>3. meta.import_txn # None =>
          \/ Imported /\ stagingRows = None
          \/ Restorable /\ stagingRows # None
    BY <1>0, <2>1, <2>2 DEF Pending
  <2>4. meta.import_txn = None /\ attempt # None /\ attempt.index # None => Untouched \/ Imported
    <3>1. CASE pc \in {"switch_index", "switch_rows", "switch_meta"}
      BY <3>1
    <3>2. CASE pc \notin {"switch_index", "switch_rows", "switch_meta"}
      BY <2>1, <3>2
    <3>3. QED
      BY <3>1, <3>2
  <2>5. QED
    BY <1>0, <1>28, <2>1, <2>3, <2>4 DEF Crash
<1>29. CASE OtherCollectionWrites
  BY <1>0, <1>29 DEF OtherCollectionWrites
<1>30. ~StepFails /\ ~MetaFlushFails
  BY DEF StepFails, MetaFlushFails, Raise, Ground, IInv, TypeOK
<1>31. QED
  BY <1>1, <1>2, <1>3, <1>4, <1>5, <1>6, <1>7, <1>8, <1>9, <1>10, <1>11, <1>12, <1>13, <1>14,
     <1>15, <1>16, <1>17, <1>18, <1>19, <1>20, <1>21, <1>22, <1>23, <1>24, <1>25, <1>26, <1>27,
     <1>28, <1>29, <1>30
     DEF Next, Calls, HandlerStep, Recovery, Faults

LEMMA GroundInit == Init => Ground /\ AttemptInv
<1> SUFFICES ASSUME Init PROVE Ground /\ AttemptInv
  OBVIOUS
<1>1. IInv
  BY TypeInit, SafetyInit DEF IInv
<1>2. IndexInv /\ VersionInv
  BY DEF Init, IndexInv, Unfailed, Exporting, VersionInv, Exists, NoMeta, FreshMeta, RecoverySteps,
     Unborn, ImportSteps, AbortSteps, PurgeSteps, Preparing, StagedSteps
<1>3. LoadedInv /\ ExportedBundleAgrees
  BY DEF Init, LoadedInv, ExportedBundleAgrees, RecoverySteps, Publishing, Staged
<1>4. failures = 0
  BY DEF Init
<1>5. AttemptInv
  BY DEF Init, AttemptInv, TxnInv, PlaceInv, NoMeta, FreshMeta, ImportSteps, AbortSteps,
     StagedSteps, Preparing, RecoverySteps
<1>6. QED
  BY <1>1, <1>2, <1>3, <1>4, <1>5 DEF Ground

LEMMA AttemptInvariance ==
  ASSUME MaxFailures = 0, MaxCrashes <= 1 PROVE Spec => [](Ground /\ AttemptInv)
<1>1. ASSUME Ground, AttemptInv, [Next]_vars PROVE AttemptInv'
  <2>1. CASE UNCHANGED vars
    BY <1>1, <2>1 DEF vars, AttemptInv, TxnInv, PlaceInv, Untouched, Imported, Restorable, durable,
       files, tables, history, counts
  <2>2. QED
    BY <1>1, <2>1, AttemptStep
<1>2. Ground /\ AttemptInv /\ [Next]_vars => (Ground /\ AttemptInv)'
  BY <1>1, GroundStep
<1>3. QED
  BY GroundInit, <1>2, PTL DEF Spec

\* What an import started from and was given has its parts and no others.
LEMMA OutcomeParts ==
  ASSUME TypeOK, attempt # None
  PROVE  /\ Untouched => Outcome = Before
         /\ Imported => Outcome = attempt.bundle
<1>1. attempt \in [index : Opt(Seq(Docs)), rows : Seq(Docs), bundle : Bundle]
  BY DEF TypeOK, Opt
<1>2. attempt.bundle = [index |-> attempt.bundle.index, rows |-> attempt.bundle.rows]
  BY <1>1 DEF Bundle
<1>3. QED
  BY <1>2 DEF Untouched, Imported, Outcome, Before

\* An import over an index leaves, finished, refused or cut short by a crash and
\* recovered, the index and the rows that were there or both of the bundle's: the
\* commit intent is on disk from before the index is set aside until both are
\* in, and the staged table tells recovery whether to go on or to go back.  One
\* crash, since a second one may undo what recovery has done, and no exception.
THEOREM ImportIsAllOrNothing ==
  ASSUME MaxFailures = 0, MaxCrashes <= 1 PROVE Spec => []ImportAllOrNothingOverIndex
<1>1. Ground /\ AttemptInv => ImportAllOrNothingOverIndex
  BY OutcomeParts DEF Ground, IInv, AttemptInv, TxnInv, PlaceInv, ImportAllOrNothingOverIndex,
     ImportAllOrNothing, Idle
<1>2. QED
  BY <1>1, AttemptInvariance, PTL

-----------------------------------------------------------------------------
(* An index whose version claims to be that of the rows was built from them,   *)
(* where nobody uploads an index of his own.                                    *)

\* The record claims that the index file is that of the table.
Claims == Exists /\ meta.index_version = meta.data_version

\* Index and rows are being exchanged for those of a bundle, or will be put right
\* by a recovery.
InFlight ==
  \/ pc \in {"switch_index", "switch_rows", "switch_meta"}
  \/ pc \in RecoverySteps /\ meta.import_txn # None

IndexPurged == PurgeSteps \ {"purge_index"}

FreshInv ==
  /\ \A b \in produced : b.index = b.rows
  /\ pc \in ImportSteps \/ meta.import_txn # None => attempt.bundle.index = attempt.bundle.rows
  /\ meta.index_version <= meta.data_version
  /\ pc \in {"insert_rows", "insert_total"} => meta.index_version # meta.data_version
  /\ pc = "export_bundle" => Claims
  /\ pc \in {"drop_table", "drop_dir"} => ~Exists
  /\ pc \notin UploadSteps
  /\ pc \in IndexPurged => indexFile = None
  /\ Claims /\ ~InFlight => indexFile \in {None, rows}
  /\ Claims /\ ~InFlight /\ crashes = 0 /\ pc \notin IndexPurged => indexFile = rows
  /\ Claims /\ InFlight /\ (crashes = 0 \/ pc \in RecoverySteps) =>
       attempt.index = attempt.rows /\ attempt.index # None

LEMMA FreshFields ==
  ASSUME meta \in MetaRecord
  PROVE  /\ \A m \in {InsertBumpMeta, InsertTotalMeta, ExportMetaRecord, ImportIntentMeta,
                      AbortMetaRecord} : m.index_version = meta.index_version
         /\ FlushMetaRecord.index_version = meta.data_version
         /\ SwitchMetaRecord.index_version = arg.new_data_version
         /\ PurgeMetaRecord.index_version = 0
         /\ RecoverForwardMeta.index_version = RecoverForwardMeta.data_version
<1> USE DEF MetaRecord
<1>1. \A m \in {InsertBumpMeta, InsertTotalMeta, ExportMetaRecord, ImportIntentMeta,
                AbortMetaRecord} : m.index_version = meta.index_version
  BY DEF InsertBumpMeta, InsertTotalMeta, ExportMetaRecord, ImportIntentMeta, AbortMetaRecord
<1>2. FlushMetaRecord.index_version = meta.data_version
  BY DEF FlushMetaRecord
<1>3. SwitchMetaRecord.index_version = arg.new_data_version
  BY DEF SwitchMetaRecord
<1>4. PurgeMetaRecord.index_version = 0
  BY DEF PurgeMetaRecord
<1>5. RecoverForwardMeta.index_version = RecoverForwardMeta.data_version
  BY DEF RecoverForwardMeta
<1>6. QED
  BY <1>1, <1>2, <1>3, <1>4, <1>5

\* What clients hold and upload: bundles made by this engine, and no indexes.
HonestClients == UploadIndexes = {} /\ \A b \in ExternalBundles : b.index = b.rows

LEMMA FreshStep ==
  ASSUME Ground, AttemptInv, FreshInv, MaxFailures = 0, MaxCrashes <= 1, HonestClients, Next
  PROVE  FreshInv'
<1> USE DEF FreshInv, Claims, InFlight, IndexPurged, Exists, ImportSteps, UploadSteps, PurgeSteps,
            StagedSteps, Preparing, RecoverySteps, durable, files, tables, memory, history, counts,
            Step, Return, WriteMeta, WriteFiles, WriteTables
<1>0. /\ meta \in MetaRecord /\ disk = meta /\ rows \in Seq(Docs)
      /\ meta.data_version \in Nat /\ meta.index_version \in Nat
      /\ meta.import_txn # None => pc \in Pending
  BY DEF Ground, IInv, TypeOK, VersionInv, MetaRecord
<1>1. CASE CallCreate \/ CallDrop \/ CallFlush \/ CallExport
  BY <1>0, <1>1 DEF CallCreate, CallDrop, CallFlush, CallExport, ExportGuard, Call, Pending
<1>2. ASSUME NEW batch \in Batches, CallInsert(batch) PROVE FreshInv'
  BY <1>0, <1>2 DEF CallInsert, Call, Pending
<1>3. \A index \in UploadIndexes, version \in {None} \cup 1..MaxVersion : ~CallUpload(index, version)
  BY DEF HonestClients
<1>4. ASSUME NEW bundle \in HeldBundles, CallImport(bundle) PROVE FreshInv'
  <2>1. bundle.index = bundle.rows
    BY DEF HeldBundles, HonestClients, Ground, IInv, PurgeSafety
  <2>2. attempt' = [index |-> indexFile, rows |-> rows, bundle |-> bundle]
    BY <1>4 DEF CallImport
  <2>3. attempt'.bundle = bundle
    BY <2>2
  <2>4. QED
    BY <1>0, <1>4, <2>1, <2>3 DEF CallImport, Pending
<1>5. ASSUME NEW require_exported \in BOOLEAN, CallPurge(require_exported) PROVE FreshInv'
  BY <1>0, <1>5 DEF CallPurge, Call, Pending
<1>6. CASE LoadCollection \/ SearchLoad \/ CloseCollection \/ ExportRefused
  BY <1>0, <1>6 DEF LoadCollection, SearchLoad, LoadUnlocked, CloseCollection, ExportRefused
<1>7. CASE Create \/ DropMeta
  BY <1>0, <1>7 DEF Create, DropMeta, FreshMeta, NoMeta
<1>8. CASE DropTable \/ DropFile \/ DropDir
  BY <1>0, <1>8 DEF DropTable, DropFile, DropDir
<1>9. CASE InsertBump \/ InsertRows \/ InsertDuplicate \/ InsertTotal
  BY <1>0, <1>9, VersionFields, FreshFields
     DEF InsertBump, InsertRows, InsertDuplicate, InsertTotal
<1>10. CASE FlushWrite \/ FlushMeta
  BY <1>0, <1>10, VersionFields, FreshFields DEF FlushWrite, FlushMeta, Ground, LoadedInv
<1>11. ~UploadFile /\ ~UploadMeta
  BY DEF UploadFile, UploadMeta
<1>12. CASE ExportBundle
  <2>1. indexFile # None /\ meta.data_state = "ready"
    BY <1>12 DEF ExportBundle, Ground, IInv, PurgeSafety, ExportInv
  <2>2. indexFile = rows
    BY <1>12, <2>1 DEF ExportBundle
  <2>3. arg'.index = indexFile /\ arg'.rows = rows /\ produced' = produced \cup {arg'}
    BY <1>12 DEF ExportBundle
  <2>4. QED
    BY <1>0, <1>12, <2>2, <2>3 DEF ExportBundle
<1>13. CASE ExportMeta \/ ExportReturn
  BY <1>0, <1>13, VersionFields, FreshFields DEF ExportMeta, ExportReturn
<1>14. CASE ImportFile \/ ImportDrop \/ ImportCreate \/ ImportRows
  BY <1>0, <1>14 DEF ImportFile, ImportDrop, ImportCreate, ImportRows
<1>15. CASE ImportIntent
  BY <1>0, <1>15, VersionFields, FreshFields DEF ImportIntent, Ground, VersionInv, Unborn
<1>16. CASE SwitchAside
  <2>1. attempt.index = indexFile /\ attempt.rows = rows
    BY <1>16 DEF SwitchAside, AttemptInv, PlaceInv, Untouched
  <2>2. QED
    BY <1>0, <1>16, <2>1, NoneAssumption DEF SwitchAside
<1>17. CASE SwitchIndex \/ SwitchRows
  BY <1>0, <1>17 DEF SwitchIndex, SwitchRows
<1>18. CASE SwitchMeta
  BY <1>0, <1>18, VersionFields, FreshFields
     DEF SwitchMeta, AttemptInv, PlaceInv, Imported, Ground, IInv, TypeOK, ArgOK
<1>19. CASE SwitchClean
  BY <1>0, <1>19 DEF SwitchClean
<1>20. CASE AbortFile \/ AbortRows
  BY <1>0, <1>20 DEF AbortFile, AbortRows
<1>21. CASE AbortMeta
  BY <1>0, <1>21, VersionFields, FreshFields DEF AbortMeta, Ground, VersionInv, Unborn, AbortSteps
<1>22. CASE PurgeIndex \/ PurgeSweep \/ PurgePre \/ PurgeStaging \/ PurgeRows
  BY <1>0, <1>22 DEF PurgeIndex, PurgeSweep, PurgePre, PurgeStaging, PurgeRows
<1>23. CASE PurgeMeta
  BY <1>0, <1>23, VersionFields, FreshFields DEF PurgeMeta
<1>24. CASE Restart
  BY <1>0, <1>24 DEF Restart, IntentWritten, AttemptInv, TxnInv
<1>25. CASE RecoverForward
  <2>1. indexFile = rows
    BY <1>25 DEF RecoverForward, SwitchDone, AttemptInv, TxnInv, PlaceInv, Imported
  <2>2. RecoverForwardMeta.data_version \in Nat
    BY <1>0, <1>25, TypeStep DEF RecoverForward, Ground, IInv, TypeOK, MetaRecord
  <2>3. QED
    BY <1>0, <1>25, <2>1, <2>2, VersionFields, FreshFields DEF RecoverForward
<1>26. CASE RecoverClean \/ RecoverCleanPre
  BY <1>0, <1>26 DEF RecoverClean, RecoverCleanPre, Pending
<1>27. CASE RecoverBack \/ RecoverUnlink \/ RecoverRestore
  BY <1>0, <1>27 DEF RecoverBack, RecoverUnlink, RecoverRestore, AttemptInv, TxnInv
<1>28. CASE RecoverState
  <2>1. /\ meta.data_version = meta'.data_version /\ meta.index_version = meta'.index_version
        /\ meta'.import_txn = None
    BY <1>0, <1>28 DEF RecoverState, MetaRecord
  <2>2. Exists /\ crashes > 0 /\ meta.import_txn # None
    BY <1>0, <1>28 DEF RecoverState, Ground, VersionInv, IndexInv, AttemptInv, TxnInv
  <2>3. attempt.index # None => indexFile = attempt.index /\ rows = attempt.rows
    BY <1>28 DEF RecoverState, AttemptInv, PlaceInv, Untouched
  <2>4. Claims => indexFile = rows
    BY <1>28, <2>2, <2>3 DEF RecoverState
  <2>5. QED
    BY <1>0, <1>28, <2>1, <2>2, <2>4 DEF RecoverState
<1>29. CASE Crash
  <2>1. crashes = 0 /\ pc \notin RecoverySteps /\ meta' = meta
    BY <1>29, <1>0, ConstantsAssumption DEF Crash, Ground, IndexInv, IInv, TypeOK
  <2>2. Claims /\ pc = "switch_aside" => attempt.index = attempt.rows /\ attempt.index # None
    BY <1>0, <2>1, NoneAssumption DEF AttemptInv, PlaceInv, Untouched
  <2>3. Claims /\ meta.import_txn # None => attempt.index = attempt.rows /\ attempt.index # None
    BY <1>0, <2>1, <2>2 DEF Pending
  <2>4. meta.import_txn = None => ~InFlight
    BY <2>1 DEF AttemptInv, TxnInv
  <2>5. QED
    BY <1>0, <1>29, <2>1, <2>3, <2>4 DEF Crash
<1>30. CASE OtherCollectionWrites
  BY <1>0, <1>30 DEF OtherCollectionWrites
<1>31. ~StepFails /\ ~MetaFlushFails
  BY DEF StepFails, MetaFlushFails, Raise, Ground, IInv, TypeOK
<1>32. QED
  BY <1>1, <1>2, <1>3, <1>4, <1>5, <1>6, <1>7, <1>8, <1>9, <1>10, <1>11, <1>12, <1>13, <1>14,
     <1>15, <1>16, <1>17, <1>18, <1>19, <1>20, <1>21, <1>22, <1>23, <1>24, <1>25, <1>26, <1>27,
     <1>28, <1>29, <1>30, <1>31
     DEF Next, Calls, HandlerStep, Recovery, Faults

\* What the claim of a fresh index rests on is inductive, with the invariants above.
LEMMA FreshInvariance ==
  ASSUME MaxFailures = 0, MaxCrashes <= 1, HonestClients
  PROVE  Spec => [](Ground /\ FreshInv)
<1>1. Init => FreshInv
  BY DEF Init, FreshInv, Claims, InFlight, Exists, NoMeta, FreshMeta, IndexPurged, PurgeSteps,
     ImportSteps, StagedSteps, Preparing, UploadSteps, RecoverySteps
<1>2. ASSUME Ground, AttemptInv, FreshInv, [Next]_vars PROVE FreshInv'
  <2>1. CASE UNCHANGED vars
    BY <1>2, <2>1 DEF vars, FreshInv, Claims, InFlight, Exists, durable, files, tables, history,
       counts
  <2>2. QED
    BY <1>2, <2>1, FreshStep
<1>3. FreshInv /\ (Ground /\ AttemptInv) /\ [Next]_vars => FreshInv'
  BY <1>2
<1>4. QED
  BY <1>1, <1>3, AttemptInvariance, PTL DEF Spec

\* An index file that the record calls fresh was built from the rows of the table,
\* whatever inserts, imports and purges ran and wherever one crash cut them short:
\* where nobody uploads an index and no write raises.
THEOREM FreshIndexIsOfTheRows ==
  ASSUME MaxFailures = 0, MaxCrashes <= 1, HonestClients
  PROVE  Spec => []FreshIndexMatchesRows
<1>1. Ground /\ FreshInv => FreshIndexMatchesRows
  BY DEF FreshInv, Claims, InFlight, FreshIndexMatchesRows, Fresh, Idle, RecoverySteps
<1>2. QED
  BY <1>1, FreshInvariance, PTL

\* What the scalars in memory are worth: those of a collection whose record says
\* "ready" are the table's, except while a handler replaces the table, and except
\* after an import.
Replaced == {"insert_total", "switch_clean", "purge_meta"}

CacheInv ==
  /\ pc \notin AbortSteps
  /\ pc \in {"switch_aside", "switch_index", "switch_rows", "switch_meta"} =>
       meta.data_state = "importing"
  /\ ~Exists \/ pc \in RecoverySteps => memCache = None
  /\ memCache # None /\ ~cacheBehind /\ meta.data_state = "ready" /\ pc \notin Replaced =>
       memCache = rows

LEMMA CacheStep ==
  ASSUME Ground, AttemptInv, FreshInv, CacheInv, MaxFailures = 0, HonestClients, Next
  PROVE  CacheInv'
<1> USE DEF CacheInv, Exists, Replaced, AbortSteps, RecoverySteps, durable, files, tables, memory,
            Unload, Load, PublishIndex, CacheOf, history, counts, Step, Return, WriteMeta,
            WriteFiles, WriteTables
<1>0. /\ meta \in MetaRecord /\ cacheBehind \in BOOLEAN
      /\ pc = "create" => ~Exists
      /\ pc \in {"drop_table", "drop_dir"} => ~Exists
      /\ pc \notin UploadSteps
      /\ pc = "flush_meta" => Exists
  BY DEF Ground, IInv, TypeOK, VersionInv, FreshInv, Unborn
<1>1. CASE CallCreate \/ CallDrop \/ CallFlush \/ CallExport
  BY <1>1 DEF CallCreate, CallDrop, CallFlush, CallExport, Call
<1>2. ASSUME NEW batch \in Batches, CallInsert(batch) PROVE CacheInv'
  BY <1>2 DEF CallInsert, Call
<1>3. \A index \in UploadIndexes, version \in {None} \cup 1..MaxVersion : ~CallUpload(index, version)
  BY DEF HonestClients
<1>4. ASSUME NEW bundle \in HeldBundles, CallImport(bundle) PROVE CacheInv'
  BY <1>4 DEF CallImport
<1>5. ASSUME NEW require_exported \in BOOLEAN, CallPurge(require_exported) PROVE CacheInv'
  BY <1>5 DEF CallPurge, Call
<1>6. CASE LoadCollection \/ SearchLoad \/ CloseCollection \/ ExportRefused
  BY <1>6 DEF LoadCollection, SearchLoad, LoadUnlocked, CloseCollection, ExportRefused
<1>7. CASE Create \/ DropMeta \/ DropTable \/ DropFile \/ DropDir
  BY <1>0, <1>7 DEF Create, DropMeta, DropTable, DropFile, DropDir
<1>8. CASE InsertBump \/ InsertRows \/ InsertDuplicate \/ InsertTotal
  BY <1>0, <1>8, VersionFields DEF InsertBump, InsertRows, InsertDuplicate, InsertTotal
<1>9. CASE FlushWrite \/ FlushMeta
  BY <1>0, <1>9, VersionFields DEF FlushWrite, FlushMeta
<1>10. ~UploadFile /\ ~UploadMeta
  BY <1>0 DEF UploadFile, UploadMeta, UploadSteps
<1>11. CASE ExportBundle \/ ExportMeta \/ ExportReturn
  BY <1>0, <1>11, VersionFields DEF ExportBundle, ExportMeta, ExportReturn
<1>12. CASE ImportFile
  <2>1. arg.bundle.index = arg.bundle.rows
    BY <1>12 DEF ImportFile, AttemptInv, FreshInv, ImportSteps, Preparing
  <2>2. QED
    BY <1>12, <2>1 DEF ImportFile
<1>13. CASE ImportDrop \/ ImportCreate \/ ImportRows
  BY <1>13 DEF ImportDrop, ImportCreate, ImportRows
<1>14. CASE ImportIntent
  BY <1>0, <1>14, VersionFields DEF ImportIntent
<1>15. CASE SwitchAside \/ SwitchIndex \/ SwitchRows \/ SwitchMeta
  <2>1. SwitchMetaRecord.data_state = "ready"
    BY <1>0 DEF SwitchMetaRecord, MetaRecord
  <2>2. QED
    BY <1>15, <2>1 DEF SwitchAside, SwitchIndex, SwitchRows, SwitchMeta
<1>16. CASE SwitchClean
  BY <1>0, <1>16 DEF SwitchClean
<1>17. ~AbortFile /\ ~AbortRows /\ ~AbortMeta
  BY DEF AbortFile, AbortRows, AbortMeta
<1>18. CASE PurgeIndex \/ PurgeSweep \/ PurgePre \/ PurgeStaging \/ PurgeRows
  BY <1>18 DEF PurgeIndex, PurgeSweep, PurgePre, PurgeStaging, PurgeRows
<1>19. CASE PurgeMeta
  BY <1>0, <1>19, VersionFields DEF PurgeMeta
<1>20. CASE Restart \/ Recovery
  BY <1>20 DEF Restart, Recovery, RecoverForward, RecoverClean, RecoverCleanPre, RecoverBack,
     RecoverUnlink, RecoverRestore, RecoverState
<1>21. CASE OtherCollectionWrites \/ Crash
  BY <1>21 DEF OtherCollectionWrites, Crash
<1>22. ~StepFails /\ ~MetaFlushFails
  BY DEF StepFails, MetaFlushFails, Raise, Ground
<1>23. QED
  BY <1>1, <1>2, <1>3, <1>4, <1>5, <1>6, <1>7, <1>8, <1>9, <1>10, <1>11, <1>12, <1>13, <1>14,
     <1>15, <1>16, <1>17, <1>18, <1>19, <1>20, <1>21, <1>22
     DEF Next, Calls, HandlerStep, Recovery, Faults

\* A search of a collection that the record calls fresh answers each label of the
\* loaded index with the row whose vector was matched, for any size of the scalar
\* cache, unless an import has come since the cache was filled: the loaded index is
\* that of the file, the file is that of the table, and so is the cache.
THEOREM SearchReturnsTheRow ==
  ASSUME MaxFailures = 0, MaxCrashes <= 1, HonestClients
  PROVE  Spec => []SearchReturnsTheRightRow
<1>1. Init => CacheInv
  BY DEF Init, CacheInv, AbortSteps, RecoverySteps
<1>2. ASSUME Ground, AttemptInv, FreshInv, CacheInv, [Next]_vars PROVE CacheInv'
  <2>1. CASE UNCHANGED vars
    BY <1>2, <2>1 DEF vars, CacheInv, Exists, durable, tables, memory
  <2>2. QED
    BY <1>2, <2>1, CacheStep
<1>3. CacheInv /\ (Ground /\ AttemptInv) /\ (Ground /\ FreshInv) /\ [Next]_vars => CacheInv'
  BY <1>2
<1>4. Ground /\ FreshInv /\ CacheInv => SearchReturnsTheRightRow
  <2> SUFFICES ASSUME Ground, FreshInv, CacheInv, ~cacheBehind, Idle, Fresh, memIndex # None
               PROVE  \A label \in DOMAIN memIndex : ScalarOf(label) = memIndex[label]
    BY DEF SearchReturnsTheRightRow, SearchPairsLabels
  <2>1. memIndex = indexFile
    BY DEF Ground, LoadedInv, Idle, Publishing
  <2>2. memIndex = rows
    BY <2>1 DEF FreshInv, Claims, InFlight, Fresh, Idle, RecoverySteps
  <2>3. memCache \in {None, rows}
    BY DEF CacheInv, Fresh, Idle, Replaced
  <2>4. QED
    BY <2>2, <2>3 DEF ScalarOf
<1>5. QED
  BY <1>1, <1>3, <1>4, FreshInvariance, AttemptInvariance, PTL DEF Spec

=============================================================================
