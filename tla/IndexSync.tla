------------------------------ MODULE IndexSync ------------------------------
(***************************************************************************)
(* Index synchronisation: a client downloads the index file of a           *)
(* collection, keeps it with the version and checksum it came with, and    *)
(* asks sync_check whether it still is the server's.                       *)
(*                                                                         *)
(* The operations that change the index are serialised by the collection's *)
(* write lock; writer is what the one inside still has to write.  The      *)
(* download reads the file and the fields of the metadata record without   *)
(* the lock, one after the other, while set_version and bump_version       *)
(* assign those fields one after the other.                                *)
(*                                                                         *)
(* An index content is a number and its own checksum.  Crashes and raised  *)
(* exceptions are in CollectionEngine, not here.                           *)
(***************************************************************************)
EXTENDS Integers, Sequences

CONSTANTS
  None,  \* no such file, no checksum, no copy
  MaxIndexes, MaxVersion, MaxRecords  \* bounds

ASSUME SyncAssumption ==
  /\ None \notin Nat
  /\ {MaxIndexes, MaxVersion, MaxRecords} \subseteq Nat /\ MaxVersion # 0

VARIABLES
  file,     \* index.hypervec
  records,  \* every CollectionMeta object there has been: a reader may keep one
  live,     \* the one in MetaStore._data, or 0
  writer,   \* the writes ahead of the handler in the write lock
  made,     \* index contents there have been
  at,       \* where the client's download is
  local,    \* what the download has read so far
  copy,     \* what the client keeps
  versionReused,  \* history: has a version been used for a second index?
  indexReused     \* history: has an index come back?

reuse  == <<versionReused, indexReused>>
server == <<file, records, live, writer, made, reuse>>
vars == <<server, at, local, copy>>

Indexes == 1..MaxIndexes

Init ==
  /\ file = None /\ records = <<[version |-> 1, checksum |-> None]>> /\ live = 1
  /\ writer = <<>> /\ made = 0
  /\ at = "idle" /\ local = None /\ copy = None
  /\ versionReused = FALSE /\ indexReused = FALSE

-----------------------------------------------------------------------------
(* Writers. *)

Write(what, value) == [what |-> what, value |-> value]

\* Mutant: the record is written before the file.
PublishRecordFirst(index, version) ==
  <<Write("version", version), Write("checksum", index), Write("file", index)>>

\* flush and upload_index replace the file, then change the record.
Publish(index, version) ==
  <<Write("file", index), Write("version", version), Write("checksum", index)>>

\* Mutant: a purge clears the version too.
RemoveVersioned == <<Write("file", None), Write("version", None), Write("checksum", None)>>

\* purge_collection_data leaves the version as it is.
Remove == <<Write("file", None), Write("checksum", None)>>

Start(writes) == writer = <<>> /\ writer' = writes /\ UNCHANGED <<file, records, at, local, copy>>

Version == records[live].version

\* A content the server has not had, or any.
NewIndex(index) == index = made + 1 /\ made' = index /\ UNCHANGED indexReused

OldIndex(index) == index <= made /\ indexReused' = TRUE /\ UNCHANGED made

AnyIndex(index) == NewIndex(index) \/ OldIndex(index)

Flush ==
  /\ live # 0 /\ \E index \in Indexes : NewIndex(index) /\ Start(Publish(index, Version + 1))
  /\ Version < MaxVersion /\ UNCHANGED <<live, versionReused>>

\* A version given with the upload is at least the current one.
Upload ==
  /\ live # 0 /\ UNCHANGED live
  /\ \E index \in Indexes, version \in 1..MaxVersion :
       /\ version >= Version
       /\ versionReused' = (versionReused \/ version = Version)
       /\ AnyIndex(index) /\ Start(Publish(index, version))

\* The live index is set aside before the staged one takes its place.
Replace(index, version) ==
  <<Write("file", None), Write("file", index), Write("version", version), Write("checksum", index)>>

Import ==
  /\ live # 0 /\ Version < MaxVersion /\ UNCHANGED <<live, versionReused>>
  /\ \E index \in Indexes :
       AnyIndex(index) /\ Start(Replace(index, Version + 1))

Purge == live # 0 /\ Start(Remove) /\ UNCHANGED <<live, made, reuse>>

\* delete takes the record out of _data, rmtree the file; a new collection has a
\* record of its own and starts at version 1.
Drop ==
  /\ live # 0 /\ live' = 0
  /\ Start(<<Write("file", None)>>) /\ UNCHANGED <<made, reuse>>

Create ==
  /\ live = 0 /\ writer = <<>> /\ Len(records) < MaxRecords
  /\ records' = Append(records, [version |-> 1, checksum |-> None])
  /\ live' = Len(records') /\ versionReused' = TRUE
  /\ UNCHANGED <<file, writer, made, at, local, copy, indexReused>>

WriterStep ==
  /\ writer # <<>> /\ writer' = Tail(writer)
  /\ LET w == Head(writer) IN
       /\ file' = IF w.what = "file" THEN w.value ELSE file
       /\ records' = IF w.what = "file" THEN records
                     ELSE [records EXCEPT ![live][w.what] = w.value]
  /\ UNCHANGED <<live, made, at, local, copy, reuse>>

-----------------------------------------------------------------------------
(* download_index and DownloadIndex: the path, the record, the file. *)

Goto(here, there) == at = here /\ at' = there /\ UNCHANGED server

Ask == live # 0 /\ file # None /\ Goto("idle", "version") /\ UNCHANGED <<local, copy>>

ReadVersion ==
  /\ live # 0 /\ Goto("version", "checksum")
  /\ local' = [record |-> live, version |-> Version] /\ UNCHANGED copy

\* 404: the collection has been dropped.
ReadVersionFails == live = 0 /\ Goto("version", "idle") /\ UNCHANGED <<local, copy>>

ReadChecksum ==
  /\ Goto("checksum", "file")
  /\ local' = [version |-> local.version, checksum |-> records[local.record].checksum]
  /\ UNCHANGED copy

ReadFile ==
  /\ file # None /\ Goto("file", "idle")
  /\ copy' = [version |-> local.version, checksum |-> local.checksum, content |-> file]
  /\ local' = None

\* The file is gone: the client keeps what it has.
ReadFileFails == file = None /\ Goto("file", "idle") /\ local' = None /\ UNCHANGED copy

Next ==
  \/ Flush \/ Upload \/ Import \/ Purge \/ Drop \/ Create \/ WriterStep
  \/ Ask \/ ReadVersion \/ ReadVersionFails \/ ReadChecksum \/ ReadFile \/ ReadFileFails

Spec == Init /\ [][Next]_vars

-----------------------------------------------------------------------------
(* Properties. *)

Opt(S) == S \cup {None}

Record == [version : 1..MaxVersion, checksum : Opt(Indexes)]

\* The types: a record is never without a version, and the client keeps no copy
\* without a content.
TypeOK ==
  /\ file \in Opt(Indexes) /\ records \in Seq(Record) /\ live \in 0..Len(records)
  /\ made \in 0..MaxIndexes
  /\ writer = <<>> \/ Head(writer).what \in {"file", "version", "checksum"}
  /\ at \in {"idle", "version", "checksum", "file"}
  /\ versionReused \in BOOLEAN /\ indexReused \in BOOLEAN
  /\ copy \in Opt([version : 1..MaxVersion, checksum : Opt(Indexes), content : Indexes])

\* sync_check, for a client that sends the checksum or does not.
NeedsSync(checksum) ==
  LET record == records[live] IN
    \/ copy.version # record.version
    \/ checksum # None /\ record.checksum # None /\ checksum # record.checksum

Quiet == writer = <<>> /\ live # 0 /\ file # None /\ copy # None

\* A client that asks with its version, while no handler is writing, and is told
\* that it needs no sync has the server's index, as long as no version has been
\* used twice: however the download was overtaken, the file is replaced before
\* the version that announces it.
VersionSyncSound ==
  Quiet /\ ~NeedsSync(None) /\ ~versionReused => copy.content = file

\* A client whose copy came with a checksum and sends it is told right also when
\* uploads keep the version and a collection of the same name starts again, as
\* long as no earlier index has come back.
ChecksumSyncSound ==
  Quiet /\ copy.checksum # None /\ ~NeedsSync(copy.checksum) /\ ~indexReused =>
    copy.content = file

=============================================================================
