----------------------------- MODULE SyncProofs -----------------------------
(***************************************************************************)
(* Proofs about IndexSync, for all bounds: what sync_check tells a client  *)
(* by version and by checksum, however its download was overtaken.         *)
(***************************************************************************)
EXTENDS IndexSync, TLAPS

Numbers == 1..MaxVersion

\* The handler in the lock has a file to put in place ...
Filing(i, v) == writer = Replace(i, v) \/ writer = Publish(i, v)

\* ... or has done so and has to announce it.
Announcing(i, v) == writer = <<Write("version", v), Write("checksum", i)>> /\ file = i

Publishing(i, v) ==
  /\ live # 0
  /\ \/ Filing(i, v) \/ Announcing(i, v)
     \/ writer = <<Write("checksum", i)>> /\ file = i

Removing ==
  \/ writer = Remove /\ live # 0
  \/ writer = <<Write("checksum", None)>> /\ live # 0 /\ file = None
  \/ writer = <<Write("file", None)>> /\ live = 0

\* What the handler in the lock has still to write.
WriterOK ==
  writer = <<>> \/ Removing \/ \E i \in Indexes, v \in Numbers : Publishing(i, v)

LocalOK ==
  /\ at = "checksum" => local \in [record : 1..Len(records), version : Numbers]
  /\ at = "file" => local \in [version : Numbers, checksum : Opt(Indexes)]

Types == TypeOK /\ WriterOK /\ LocalOK

-----------------------------------------------------------------------------
LEMMA Constants == None \notin Nat /\ MaxIndexes \in Nat /\ MaxVersion \in Nat \ {0} /\ MaxRecords \in Nat
BY SyncAssumption

\* The four writes there are.
LEMMA WriteCases ==
  ASSUME Types, WriterStep
  PROVE  \/ /\ \E x \in Opt(Indexes) : file' = x /\ Head(writer) = Write("file", x)
            /\ UNCHANGED records
         \/ /\ live \in 1..Len(records) /\ file' = file
            /\ \E v \in Numbers : /\ Head(writer) = Write("version", v)
                                  /\ records' = [records EXCEPT ![live] = [@ EXCEPT !.version = v]]
         \/ /\ live \in 1..Len(records) /\ file' = file
            /\ \E x \in Opt(Indexes) : /\ Head(writer) = Write("checksum", x)
                                       /\ records' = [records EXCEPT ![live] = [@ EXCEPT !.checksum = x]]
<1> USE Constants
<1>1. \/ \E x \in Opt(Indexes) : Head(writer) = Write("file", x)
      \/ live # 0 /\ \E v \in Numbers : Head(writer) = Write("version", v)
      \/ live # 0 /\ \E x \in Opt(Indexes) : Head(writer) = Write("checksum", x)
  BY DEF Types, WriterOK, Publishing, Filing, Announcing, Removing, Replace, Publish, Remove,
         Write, Opt, WriterStep
<1>2. CASE \E x \in Opt(Indexes) : Head(writer) = Write("file", x)
  BY <1>2 DEF WriterStep, Write
<1>3. CASE live # 0 /\ \E v \in Numbers : Head(writer) = Write("version", v)
  <2>1. PICK v \in Numbers : Head(writer) = Write("version", v)
    BY <1>3
  <2>2. Head(writer).what = "version" /\ Head(writer).value = v
    BY <2>1 DEF Write
  <2>3. file' = file /\ records' = [records EXCEPT ![live]["version"] = v]
    BY <2>2 DEF WriterStep
  <2>4. records' = [records EXCEPT ![live] = [@ EXCEPT !.version = v]]
    BY <2>3
  <2>5. live \in 1..Len(records)
    BY <1>3 DEF Types, TypeOK
  <2>6. QED
    BY <2>1, <2>3, <2>4, <2>5
<1>4. CASE live # 0 /\ \E x \in Opt(Indexes) : Head(writer) = Write("checksum", x)
  <2>1. PICK x \in Opt(Indexes) : Head(writer) = Write("checksum", x)
    BY <1>4
  <2>2. Head(writer).what = "checksum" /\ Head(writer).value = x
    BY <2>1 DEF Write
  <2>3. file' = file /\ records' = [records EXCEPT ![live]["checksum"] = x]
    BY <2>2 DEF WriterStep
  <2>4. records' = [records EXCEPT ![live] = [@ EXCEPT !.checksum = x]]
    BY <2>3
  <2>5. live \in 1..Len(records)
    BY <1>4 DEF Types, TypeOK
  <2>6. QED
    BY <2>1, <2>3, <2>4, <2>5
<1>5. QED
  BY <1>1, <1>2, <1>3, <1>4

LEMMA WriterStepShape == ASSUME Types, WriterStep PROVE WriterOK'
<1> USE Constants DEF WriterStep, Write, Opt
<1>1. CASE writer = <<>>
  BY <1>1
<1>2. CASE Removing
  <2>1. CASE writer = Remove /\ live # 0
    BY <2>1 DEF Remove, Removing, WriterOK
  <2>2. CASE writer = <<Write("checksum", None)>> /\ live # 0 /\ file = None
    <3>1. writer' = <<>>
      BY <2>2
    <3>2. QED
      BY <3>1 DEF WriterOK
  <2>3. CASE writer = <<Write("file", None)>> /\ live = 0
    <3>1. writer' = <<>>
      BY <2>3
    <3>2. QED
      BY <3>1 DEF WriterOK
  <2>4. QED
    BY <1>2, <2>1, <2>2, <2>3 DEF Removing
<1>3. ASSUME NEW i \in Indexes, NEW v \in Numbers, Publishing(i, v) PROVE WriterOK'
  <2>1. CASE writer = Replace(i, v)
    BY <1>3, <2>1 DEF Replace, Publish, Publishing, Filing, WriterOK
  <2>2. CASE writer = Publish(i, v)
    BY <1>3, <2>2 DEF Publish, Publishing, Announcing, WriterOK
  <2>3. CASE Announcing(i, v)
    BY <1>3, <2>3 DEF Publishing, Announcing, WriterOK
  <2>4. CASE writer = <<Write("checksum", i)>> /\ file = i
    BY <2>4 DEF WriterOK
  <2>5. QED
    BY <1>3, <2>1, <2>2, <2>3, <2>4 DEF Publishing, Filing
<1>4. QED
  BY <1>1, <1>2, <1>3 DEF Types, WriterOK

-----------------------------------------------------------------------------
(* Types. *)

LEMMA FreshRecord == [version |-> 1, checksum |-> None] \in Record
BY Constants DEF Record, Opt

LEMMA SyncInit == Init => Types
<1> SUFFICES ASSUME Init PROVE Types
  OBVIOUS
<1>1. records \in Seq(Record) /\ Len(records) = 1
  BY FreshRecord DEF Init
<1>2. versionReused \in BOOLEAN /\ indexReused \in BOOLEAN
  BY DEF Init
<1>3. TypeOK
  BY <1>1, <1>2, Constants DEF Init, TypeOK, Opt
<1>4. QED
  BY <1>3 DEF Init, Types, WriterOK, LocalOK

\* What a record there is holds.
LEMMA RecordTypes ==
  ASSUME Types, NEW r \in 1..Len(records)
  PROVE  records[r].version \in Numbers /\ records[r].checksum \in Opt(Indexes)
<1>1. records[r] \in Record
  BY DEF Types, TypeOK
<1>2. QED
  BY <1>1 DEF Record, Numbers

\* What a write to the record in use leaves.
LEMMA RecordIs ==
  ASSUME records \in Seq(Record), NEW r \in 1..Len(records)
  PROVE  /\ \A v : LET new == [records EXCEPT ![r] = [@ EXCEPT !.version = v]]
                  IN  /\ Len(new) = Len(records) /\ new[r].version = v
                      /\ \A q \in 1..Len(records) : new[q].checksum = records[q].checksum
         /\ \A x : LET new == [records EXCEPT ![r] = [@ EXCEPT !.checksum = x]]
                  IN  /\ Len(new) = Len(records) /\ new[r].checksum = x
                      /\ \A q \in 1..Len(records) :
                           new[q].version = records[q].version
                           /\ (q # r => new[q].checksum = records[q].checksum)
<1>1. \A q \in 1..Len(records) : records[q] \in Record
  OBVIOUS
<1>2. QED
  BY <1>1 DEF Record

LEMMA VersionType == ASSUME Types PROVE live # 0 => Version \in Numbers
<1>1. live # 0 => live \in 1..Len(records)
  BY DEF Types, TypeOK
<1>2. QED
  BY <1>1, RecordTypes DEF Version

\* The head of what is ahead is one of the three kinds.
LEMMA HeadKind ==
  WriterOK => writer = <<>> \/ Head(writer).what \in {"file", "version", "checksum"}
BY DEF WriterOK, Removing, Publishing, Filing, Announcing, Replace, Publish, Remove, Write

LEMMA StartTypes ==
  ASSUME Types, Flush \/ Upload \/ Import \/ Purge \/ Drop
  PROVE  Types'
<1> USE Constants
<1>1. /\ UNCHANGED <<file, records, at, local, copy>>
      /\ made' \in 0..MaxIndexes /\ live' \in 0..Len(records)
      /\ versionReused' \in BOOLEAN /\ indexReused' \in BOOLEAN
  <2>1. UNCHANGED <<file, records, at, local, copy>>
    BY DEF Flush, Upload, Import, Purge, Drop, Start
  <2>2. made' \in 0..MaxIndexes /\ live' \in 0..Len(records)
    BY DEF Types, TypeOK, Flush, Upload, Import, Purge, Drop, AnyIndex, NewIndex, OldIndex, reuse,
           Indexes
  <2>3. indexReused' = indexReused \/ indexReused' = TRUE
    BY DEF Flush, Upload, Import, Purge, Drop, AnyIndex, NewIndex, OldIndex, reuse
  <2>4. versionReused' = versionReused \/ versionReused' \in BOOLEAN
    BY DEF Flush, Upload, Import, Purge, Drop, reuse
  <2>5. versionReused \in BOOLEAN /\ indexReused \in BOOLEAN
    BY DEF Types, TypeOK
  <2>6. QED
    BY <2>1, <2>2, <2>3, <2>4, <2>5
<1>2. WriterOK'
  <2>1. live # 0 => Version \in Numbers
    BY VersionType
  <2>2. CASE Flush \/ Import
    <3>1. PICK i \in Indexes : writer' = Publish(i, Version + 1) \/ writer' = Replace(i, Version + 1)
      BY <2>2 DEF Flush, Import, Start
    <3>2. Version + 1 \in Numbers /\ live' # 0
      BY <2>1, <2>2 DEF Flush, Import, Numbers
    <3>3. QED
      BY <3>1, <3>2 DEF WriterOK, Publishing, Filing
  <2>3. CASE Upload
    BY <2>3 DEF Upload, Start, WriterOK, Publishing, Filing, Numbers
  <2>4. CASE Purge \/ Drop
    BY <2>4 DEF Purge, Drop, Start, WriterOK, Removing
  <2>5. QED
    BY <2>2, <2>3, <2>4
<1>3. (writer = <<>> \/ Head(writer).what \in {"file", "version", "checksum"})'
  BY <1>2, HeadKind, PTL
<1>4. QED
  BY <1>1, <1>2, <1>3 DEF Types, TypeOK, LocalOK

LEMMA WriterTypes == ASSUME Types, WriterStep PROVE Types'
<1> USE Constants
<1>1. WriterOK'
  BY WriterStepShape
<1>2. (writer = <<>> \/ Head(writer).what \in {"file", "version", "checksum"})'
  BY <1>1, HeadKind, PTL
<1>3. file' \in Opt(Indexes) /\ records' \in Seq(Record) /\ Len(records') = Len(records)
  <2>1. CASE \E x \in Opt(Indexes) : file' = x /\ UNCHANGED records
    BY <2>1 DEF Types, TypeOK
  <2>2. ASSUME live \in 1..Len(records), NEW v \in Numbers,
               records' = [records EXCEPT ![live] = [@ EXCEPT !.version = v]]
        PROVE  records' \in Seq(Record) /\ Len(records') = Len(records)
    <3>1. records[live] \in Record
      BY <2>2 DEF Types, TypeOK
    <3>2. [records[live] EXCEPT !.version = v] \in Record
      BY <3>1 DEF Record, Numbers
    <3>3. QED
      BY <2>2, <3>2 DEF Types, TypeOK
  <2>3. ASSUME live \in 1..Len(records), NEW x \in Opt(Indexes),
               records' = [records EXCEPT ![live] = [@ EXCEPT !.checksum = x]]
        PROVE  records' \in Seq(Record) /\ Len(records') = Len(records)
    <3>1. records[live] \in Record
      BY <2>3 DEF Types, TypeOK
    <3>2. [records[live] EXCEPT !.checksum = x] \in Record
      BY <3>1 DEF Record
    <3>3. QED
      BY <2>3, <3>2 DEF Types, TypeOK
  <2>4. QED
    BY WriteCases, <2>1, <2>2, <2>3 DEF Types, TypeOK
<1>4. QED
  BY <1>1, <1>2, <1>3 DEF Types, TypeOK, LocalOK, WriterStep, reuse

LEMMA ReaderTypes ==
  ASSUME Types,
         Create \/ Ask \/ ReadVersion \/ ReadVersionFails \/ ReadChecksum \/ ReadFile \/ ReadFileFails
  PROVE  Types'
<1> USE Constants DEF Types, TypeOK
<1>1. CASE Create
  <2>1. [version |-> 1, checksum |-> None] \in Record
    BY FreshRecord
  <2>2. records' \in Seq(Record) /\ live' = Len(records') /\ Len(records') = Len(records) + 1
    BY <1>1, <2>1 DEF Create
  <2>3. WriterOK'
    BY <1>1 DEF Create, WriterOK
  <2>4. LocalOK'
    BY <1>1, <2>2 DEF Create, LocalOK
  <2>5. QED
    BY <1>1, <2>2, <2>3, <2>4 DEF Create
<1>2. CASE ~Create
  <2>1. UNCHANGED server
    BY <1>2 DEF Ask, ReadVersion, ReadVersionFails, ReadChecksum, ReadFile, ReadFileFails, Goto
  <2>2. WriterOK'
    BY <2>1 DEF server, WriterOK, Removing, Publishing, Filing, Announcing
  <2>3. LocalOK'
    <3>1. live # 0 => Version \in Numbers
      BY VersionType
    <3>2. at = "checksum" => records[local.record].checksum \in Opt(Indexes)
      BY RecordTypes DEF LocalOK
    <3>3. QED
      BY <1>2, <2>1, <3>1, <3>2 DEF server, LocalOK, Ask, ReadVersion, ReadVersionFails,
         ReadChecksum, ReadFile, ReadFileFails, Goto
  <2>4. copy' \in Opt([version : 1..MaxVersion, checksum : Opt(Indexes), content : Indexes])
    <3>1. CASE ReadFile
      <4>1. local.version \in 1..MaxVersion /\ local.checksum \in Opt(Indexes) /\ file \in Indexes
        BY <3>1 DEF ReadFile, Goto, LocalOK, Opt, Numbers
      <4>2. QED
        BY <3>1, <4>1 DEF ReadFile, Opt
    <3>2. CASE ~ReadFile
      BY <1>2, <3>2 DEF Ask, ReadVersion, ReadVersionFails, ReadChecksum, ReadFileFails
    <3>3. QED
      BY <3>1, <3>2
  <2>5. at' \in {"idle", "version", "checksum", "file"}
    BY <1>2 DEF Ask, ReadVersion, ReadVersionFails, ReadChecksum, ReadFile, ReadFileFails, Goto
  <2>6. QED
    BY <2>1, <2>2, <2>3, <2>4, <2>5 DEF server, reuse
<1>3. QED
  BY <1>1, <1>2

\* What the handlers and the download have to write is of its kind, and the file is
\* replaced before the record that announces it.
THEOREM SyncTypes == Spec => []Types
<1>1. ASSUME Types, [Next]_vars PROVE Types'
  <2>1. CASE UNCHANGED vars
    BY <1>1, <2>1 DEF vars, server, reuse, Types, TypeOK, WriterOK, Removing, Publishing, Filing,
       Announcing, LocalOK
  <2>2. CASE Next
    BY <1>1, <2>2, StartTypes, WriterTypes, ReaderTypes DEF Next
  <2>3. QED
    BY <1>1, <2>1, <2>2
<1>2. QED
  BY <1>1, SyncInit, PTL DEF Spec
\* The record, the file, the copies and the writes to come stay of their kinds.
THEOREM SyncTyped == Spec => []TypeOK
<1>1. Types => TypeOK
  BY DEF Types
<1>2. QED
  BY <1>1, SyncTypes, PTL

-----------------------------------------------------------------------------
(* What comes after a write, and that what is ahead determines index and version. *)

FileNext == \A x \in Indexes : Head(writer) = Write("file", x) =>
  \E v \in Numbers : writer = Publish(x, v) /\ writer' = <<Write("version", v), Write("checksum", x)>>

NoFileNext == Head(writer) = Write("file", None) =>
  \/ live = 0 /\ writer' = <<>>
  \/ live # 0 /\ writer' = <<Write("checksum", None)>>
  \/ \E i \in Indexes, v \in Numbers : live # 0 /\ writer = Replace(i, v) /\ writer' = Publish(i, v)

VersionNext == \A v \in Numbers : Head(writer) = Write("version", v) =>
  \E i \in Indexes : Announcing(i, v) /\ writer' = <<Write("checksum", i)>>

ChecksumNext == \A x \in Opt(Indexes) : Head(writer) = Write("checksum", x) =>
  file = x /\ writer = <<Write("checksum", x)>> /\ writer' = <<>>

LEMMA NextWrites ==
  ASSUME Types, WriterStep PROVE FileNext /\ NoFileNext /\ VersionNext /\ ChecksumNext
<1> USE Constants DEF WriterStep, Write, Opt, Indexes, FileNext, NoFileNext, VersionNext, ChecksumNext
<1>1. CASE Removing
  <2>1. CASE writer = Remove /\ live # 0
    BY <2>1 DEF Remove
  <2>2. CASE writer = <<Write("checksum", None)>> /\ live # 0 /\ file = None
    BY <2>2
  <2>3. CASE writer = <<Write("file", None)>> /\ live = 0
    BY <2>3
  <2>4. QED
    BY <1>1, <2>1, <2>2, <2>3 DEF Removing
<1>2. ASSUME NEW i \in Indexes, NEW v \in Numbers, Publishing(i, v)
      PROVE  FileNext /\ NoFileNext /\ VersionNext /\ ChecksumNext
  <2>1. CASE writer = Replace(i, v)
    BY <1>2, <2>1 DEF Replace, Publish, Publishing
  <2>2. CASE writer = Publish(i, v)
    BY <1>2, <2>2 DEF Publish
  <2>3. CASE Announcing(i, v)
    BY <1>2, <2>3 DEF Announcing
  <2>4. CASE writer = <<Write("checksum", i)>> /\ file = i
    BY <1>2, <2>4
  <2>5. QED
    BY <1>2, <2>1, <2>2, <2>3, <2>4 DEF Publishing, Filing
<1>3. QED
  BY <1>1, <1>2 DEF Types, WriterOK

\* A list of writes says which index and version it is about.
LEMMA Distinct ==
  ASSUME NEW i, NEW v, NEW j, NEW w
  PROVE  /\ Publish(i, v) = Publish(j, w) => i = j /\ v = w
         /\ Replace(i, v) = Replace(j, w) => i = j /\ v = w
         /\ Publish(i, v) # Replace(j, w)
         /\ <<Write("version", v), Write("checksum", i)>> = <<Write("version", w), Write("checksum", j)>>
              => i = j /\ v = w
         /\ <<Write("version", v), Write("checksum", i)>> # Publish(j, w)
         /\ <<Write("version", v), Write("checksum", i)>> # Replace(j, w)
         /\ \A s : s \in {<<>>, Remove, <<Write("file", None)>>, <<Write("checksum", j)>>} =>
              /\ s # Publish(i, v) /\ s # Replace(i, v)
              /\ s # <<Write("version", v), Write("checksum", i)>>
<1>1. Publish(i, v) = Publish(j, w) => i = j /\ v = w
  BY DEF Publish, Write
<1>2. Replace(i, v) = Replace(j, w) => i = j /\ v = w
  BY DEF Replace, Write
<1>3. Publish(i, v) # Replace(j, w)
  BY DEF Publish, Replace
<1>4. <<Write("version", v), Write("checksum", i)>> = <<Write("version", w), Write("checksum", j)>>
        => i = j /\ v = w
  BY DEF Write
<1>5. /\ <<Write("version", v), Write("checksum", i)>> # Publish(j, w)
      /\ <<Write("version", v), Write("checksum", i)>> # Replace(j, w)
  BY DEF Publish, Replace
<1>6. ASSUME NEW s, s \in {<<>>, Remove, <<Write("file", None)>>, <<Write("checksum", j)>>}
      PROVE  /\ s # Publish(i, v) /\ s # Replace(i, v)
             /\ s # <<Write("version", v), Write("checksum", i)>>
  <2>1. CASE s = Remove
    BY <2>1 DEF Remove, Publish, Replace, Write
  <2>2. CASE s = <<>>
    BY <2>2 DEF Publish, Replace
  <2>3. CASE s = <<Write("file", None)>>
    BY <2>3 DEF Publish, Replace
  <2>4. CASE s = <<Write("checksum", j)>>
    BY <2>4 DEF Publish, Replace
  <2>5. QED
    BY <1>6, <2>1, <2>2, <2>3, <2>4
<1>7. QED
  BY <1>1, <1>2, <1>3, <1>4, <1>5, <1>6

-----------------------------------------------------------------------------
(* By version. *)

\* While no version is used twice there is one record; a handler that publishes goes
\* beyond its version, and until then what a client has under that version is the file.
VersionInv ==
  ~versionReused =>
    /\ Len(records) = 1
    /\ at \in {"checksum", "file"} => local.version <= records[1].version
    /\ \A i \in Indexes, v \in Numbers : Filing(i, v) \/ Announcing(i, v) => v > records[1].version
    /\ copy # None => copy.version <= records[1].version
    /\ copy # None /\ file # None /\ copy.version = records[1].version =>
         copy.content = file \/ \E i \in Indexes, v \in Numbers : Announcing(i, v)

LEMMA VersionStart ==
  ASSUME Types, VersionInv, Flush \/ Upload \/ Import \/ Purge \/ Drop, ~versionReused'
  PROVE  VersionInv'
<1>1. /\ writer = <<>> /\ ~versionReused /\ Len(records) = 1
      /\ UNCHANGED <<file, records, at, local, copy>>
  <2>1. writer = <<>> /\ UNCHANGED <<file, records, at, local, copy>>
    BY DEF Flush, Upload, Import, Purge, Drop, Start
  <2>2. ~versionReused
    <3>1. CASE Upload
      <4>1. PICK w : versionReused' = (versionReused \/ w = Version)
        BY <3>1 DEF Upload
      <4>2. QED
        BY <4>1
    <3>2. CASE Flush \/ Import \/ Purge \/ Drop
      BY <3>2 DEF Flush, Import, Purge, Drop, reuse
    <3>3. QED
      BY <3>1, <3>2
  <2>3. QED
    BY <2>1, <2>2 DEF VersionInv
<1>2. \A i \in Indexes, v \in Numbers : ~Announcing(i, v) /\ ~Announcing(i, v)'
  <2> SUFFICES ASSUME NEW i \in Indexes, NEW v \in Numbers
               PROVE  ~Announcing(i, v) /\ ~Announcing(i, v)'
    OBVIOUS
  <2>1. ~Announcing(i, v)
    BY <1>1, Distinct DEF Announcing
  <2>2. \/ \E j, w : writer' \in {Publish(j, w), Replace(j, w)}
        \/ writer' \in {Remove, <<Write("file", None)>>}
    BY DEF Flush, Upload, Import, Purge, Drop, Start
  <2>3. ~Announcing(i, v)'
    <3>1. CASE \E j, w : writer' = Publish(j, w) \/ writer' = Replace(j, w)
      <4>1. \A j, w : /\ <<Write("version", v), Write("checksum", i)>> # Publish(j, w)
                      /\ <<Write("version", v), Write("checksum", i)>> # Replace(j, w)
        BY DEF Publish, Replace
      <4>2. QED
        BY <3>1, <4>1 DEF Announcing
    <3>2. CASE writer' \in {Remove, <<Write("file", None)>>}
      BY <3>2, Distinct DEF Announcing
    <3>3. QED
      BY <2>2, <3>1, <3>2
  <2>4. QED
    BY <2>1, <2>3
<1>3. live # 0 => Version = records[1].version /\ Version \in Numbers
  BY <1>1, VersionType DEF Types, TypeOK, Version
<1>4. ASSUME NEW i \in Indexes, NEW v \in Numbers, Filing(i, v)' PROVE v > records[1].version
  <2>1. CASE Flush \/ Import
    <3>1. \E j \in Indexes : writer' \in {Publish(j, Version + 1), Replace(j, Version + 1)}
      BY <2>1 DEF Flush, Import, Start
    <3>2. v = Version + 1
      BY <1>4, <3>1, Distinct DEF Filing
    <3>3. QED
      BY <1>3, <2>1, <3>2 DEF Flush, Import, Numbers
  <2>2. CASE Upload
    <3>1. PICK j \in Indexes, w \in 1..MaxVersion :
            writer' = Publish(j, w) /\ w >= Version /\ versionReused' = (versionReused \/ w = Version)
      BY <2>2 DEF Upload, Start
    <3>2. v = w
      BY <1>4, <3>1, Distinct DEF Filing
    <3>3. w # Version
      BY <3>1
    <3>4. QED
      BY <1>3, <2>2, <3>1, <3>2, <3>3 DEF Upload, Numbers
  <2>3. CASE Purge \/ Drop
    BY <1>4, <2>3, Distinct DEF Purge, Drop, Start, Filing
  <2>4. QED
    BY <2>1, <2>2, <2>3
<1>5. QED
  BY <1>1, <1>2, <1>4 DEF VersionInv

LEMMA VersionWrite == ASSUME Types, VersionInv, WriterStep, ~versionReused' PROVE VersionInv'
<1>1. /\ ~versionReused /\ Len(records) = 1 /\ records[1].version \in Numbers
      /\ UNCHANGED <<live, at, local, copy>>
  <2>1. ~versionReused /\ UNCHANGED <<live, at, local, copy>>
    BY DEF WriterStep, reuse
  <2>2. Len(records) = 1
    BY <2>1 DEF VersionInv
  <2>3. 1 \in 1..Len(records)
    BY <2>2
  <2>4. QED
    BY <2>1, <2>2, <2>3, RecordTypes
<1>2. CASE \E x \in Opt(Indexes) : file' = x /\ Head(writer) = Write("file", x) /\ UNCHANGED records
  <2>1. PICK x \in Opt(Indexes) : file' = x /\ Head(writer) = Write("file", x) /\ UNCHANGED records
    BY <1>2
  <2>2. CASE x \in Indexes
    <3>1. PICK w \in Numbers :
            writer = Publish(x, w) /\ writer' = <<Write("version", w), Write("checksum", x)>>
      BY <2>1, <2>2, NextWrites DEF FileNext
    <3>2. w > records[1].version /\ Announcing(x, w)'
      BY <1>1, <2>1, <2>2, <3>1 DEF VersionInv, Filing, Announcing
    <3>3. \A i \in Indexes, v \in Numbers : Filing(i, v)' \/ Announcing(i, v)' => v = w
      BY <3>1, Distinct DEF Filing, Announcing
    <3>4. QED
      BY <1>1, <2>1, <2>2, <3>2, <3>3 DEF VersionInv
  <2>3. CASE x = None
    <3>1. \A i \in Indexes, v \in Numbers : ~Announcing(i, v)' /\ (Filing(i, v)' => Filing(i, v))
      <4> SUFFICES ASSUME NEW i \in Indexes, NEW v \in Numbers
                   PROVE  ~Announcing(i, v)' /\ (Filing(i, v)' => Filing(i, v))
        OBVIOUS
      <4>1. CASE writer' \in {<<>>, <<Write("checksum", None)>>}
        BY <4>1, Distinct DEF Filing, Announcing
      <4>2. ASSUME NEW j \in Indexes, NEW w \in Numbers, writer = Replace(j, w), writer' = Publish(j, w)
            PROVE  ~Announcing(i, v)' /\ (Filing(i, v)' => Filing(i, v))
        <5>0. <<Write("version", v), Write("checksum", i)>> # Publish(j, w)
          BY DEF Publish
        <5>1. ~Announcing(i, v)'
          BY <4>2, <5>0 DEF Announcing
        <5>2. Filing(i, v)' => i = j /\ v = w
          BY <4>2, Distinct DEF Filing
        <5>3. QED
          BY <4>2, <5>1, <5>2 DEF Filing
      <4>3. QED
        BY <2>1, <2>3, <4>1, <4>2, NextWrites DEF NoFileNext
    <3>2. QED
      BY <1>1, <2>1, <2>3, <3>1 DEF VersionInv
  <2>4. QED
    BY <2>1, <2>2, <2>3 DEF Opt
<1>3. ASSUME NEW w \in Numbers, live \in 1..Len(records), file' = file, Head(writer) = Write("version", w),
             records' = [records EXCEPT ![live] = [@ EXCEPT !.version = w]]
      PROVE  VersionInv'
  <2>1. PICK j \in Indexes : Announcing(j, w) /\ writer' = <<Write("checksum", j)>>
    BY <1>3, NextWrites DEF VersionNext
  <2>2. w > records[1].version /\ live = 1
    BY <1>1, <1>3, <2>1 DEF VersionInv
  <2>3. records'[1].version = w /\ Len(records') = 1
    BY <1>1, <1>3, <2>2, RecordIs DEF Types, TypeOK
  <2>4. \A i \in Indexes, v \in Numbers : ~Filing(i, v)' /\ ~Announcing(i, v)'
    BY <2>1, Distinct DEF Filing, Announcing
  <2>5. at \in {"checksum", "file"} => local.version \in Numbers
    BY DEF Types, LocalOK
  <2>6. copy # None => copy.version \in Numbers
    BY DEF Types, TypeOK, Opt, Numbers
  <2>7. QED
    BY <1>1, <2>2, <2>3, <2>4, <2>5, <2>6 DEF VersionInv, Numbers
<1>4. ASSUME NEW x \in Opt(Indexes), live \in 1..Len(records), file' = file,
             Head(writer) = Write("checksum", x),
             records' = [records EXCEPT ![live] = [@ EXCEPT !.checksum = x]]
      PROVE  VersionInv'
  <2>1. writer = <<Write("checksum", x)>> /\ writer' = <<>>
    BY <1>4, NextWrites DEF ChecksumNext
  <2>2. records'[1].version = records[1].version /\ Len(records') = 1
    BY <1>1, <1>4, RecordIs DEF Types, TypeOK
  <2>3. \A i \in Indexes, v \in Numbers : ~Filing(i, v)' /\ ~Announcing(i, v)' /\ ~Announcing(i, v)
    BY <2>1, Distinct DEF Filing, Announcing
  <2>4. QED
    BY <1>1, <1>4, <2>2, <2>3 DEF VersionInv
<1>5. QED
  BY WriteCases, <1>2, <1>3, <1>4

LEMMA VersionRead ==
  ASSUME Types, VersionInv, ~versionReused',
         Create \/ Ask \/ ReadVersion \/ ReadVersionFails \/ ReadChecksum \/ ReadFile \/ ReadFileFails
  PROVE  VersionInv'
<1>1. ~Create
  BY DEF Create
<1>2. UNCHANGED server
  BY <1>1 DEF Ask, ReadVersion, ReadVersionFails, ReadChecksum, ReadFile, ReadFileFails, Goto
<1>3. ~versionReused /\ Len(records) = 1 /\ records[1].version \in Numbers
  <2>1. ~versionReused
    BY <1>2 DEF server, reuse
  <2>2. Len(records) = 1
    BY <2>1 DEF VersionInv
  <2>3. 1 \in 1..Len(records)
    BY <2>2
  <2>4. QED
    BY <2>1, <2>2, <2>3, RecordTypes
<1>4. live # 0 => Version = records[1].version
  BY <1>3 DEF Types, TypeOK, Version
<1>5. at' \in {"checksum", "file"} => local'.version <= records[1].version
  BY <1>1, <1>3, <1>4 DEF VersionInv, Ask, ReadVersion, ReadVersionFails, ReadChecksum, ReadFile,
     ReadFileFails, Goto, Numbers
<1>6. \/ copy' = copy
      \/ /\ ReadFile
         /\ copy' = [version |-> local.version, checksum |-> local.checksum, content |-> file]
  <2>1. CASE ReadFile
    BY <2>1 DEF ReadFile
  <2>2. CASE ~ReadFile
    BY <1>1, <2>2 DEF Ask, ReadVersion, ReadVersionFails, ReadChecksum, ReadFileFails, Goto
  <2>3. QED
    BY <2>1, <2>2
<1>7. \A i \in Indexes, v \in Numbers :
        (Filing(i, v)' <=> Filing(i, v)) /\ (Announcing(i, v)' <=> Announcing(i, v))
  BY <1>2 DEF server, Filing, Announcing
<1>8. CASE copy' = copy
  BY <1>2, <1>3, <1>5, <1>7, <1>8 DEF VersionInv, server
<1>9. CASE ReadFile /\ copy' = [version |-> local.version, checksum |-> local.checksum, content |-> file]
  <2>1. local.version <= records[1].version
    BY <1>3, <1>9 DEF ReadFile, Goto, VersionInv
  <2>2. QED
    BY <1>2, <1>3, <1>5, <1>7, <1>9, <2>1 DEF VersionInv, server
<1>10. QED
  BY <1>6, <1>8, <1>9

\* A client told by its version that it is current has the server's index, while no
\* version is used twice: for any number of indexes and versions.
THEOREM CurrentByVersion == Spec => []VersionSyncSound
<1>1. Init => VersionInv
  <2> SUFFICES ASSUME Init PROVE VersionInv
    OBVIOUS
  <2>1. \A i \in Indexes, v \in Numbers : ~Filing(i, v) /\ ~Announcing(i, v)
    BY Distinct DEF Init, Filing, Announcing
  <2>2. QED
    BY <2>1 DEF Init, VersionInv
<1>2. ASSUME Types, VersionInv, [Next]_vars PROVE VersionInv'
  <2>1. CASE UNCHANGED vars
    BY <1>2, <2>1 DEF vars, server, reuse, VersionInv, Filing, Announcing
  <2>2. CASE versionReused'
    BY <2>2 DEF VersionInv
  <2>3. CASE Next /\ ~versionReused'
    BY <1>2, <2>3, VersionStart, VersionWrite, VersionRead DEF Next
  <2>4. QED
    BY <1>2, <2>1, <2>2, <2>3
<1>3. ASSUME Types, VersionInv PROVE VersionSyncSound
  <2> SUFFICES ASSUME Quiet, ~NeedsSync(None), ~versionReused PROVE copy.content = file
    BY DEF VersionSyncSound
  <2>0. Len(records) = 1
    BY <1>3 DEF VersionInv
  <2>1. live = 1
    BY <1>3, <2>0 DEF Quiet, Types, TypeOK
  <2>2. \A i \in Indexes, v \in Numbers : ~Announcing(i, v)
    BY Distinct DEF Quiet, Announcing
  <2>3. QED
    BY <1>3, <2>1, <2>2 DEF Quiet, NeedsSync, VersionInv
<1>4. QED
  BY <1>1, <1>2, <1>3, SyncTypes, PTL DEF Spec

-----------------------------------------------------------------------------
(* By checksum. *)

\* When nobody writes, the record in use has the checksum of the file.
Settled ==
  writer = <<>> => /\ live = 0 => file = None
                   /\ live # 0 /\ file # None => records[live].checksum = file

\* The number of the last index that was put in place.
Latest == IF \E i \in Indexes, v \in Numbers : Filing(i, v) THEN made - 1 ELSE made

\* While no earlier index comes back, the file is the last index, what a checksum
\* announces has been in place, and a copy is no older than its checksum.
ChecksumInv ==
  ~indexReused =>
    /\ file # None => file = Latest
    /\ \A i \in Indexes, v \in Numbers : Filing(i, v) => i = made
    /\ \A r \in 1..Len(records) : records[r].checksum # None => records[r].checksum <= Latest
    /\ at = "file" /\ local.checksum # None => local.checksum <= Latest
    /\ copy # None => copy.content <= Latest /\ (copy.checksum # None => copy.checksum <= copy.content)

LEMMA ChecksumStart ==
  ASSUME Types, ChecksumInv, Flush \/ Upload \/ Import \/ Purge \/ Drop
  PROVE  Settled' /\ ChecksumInv'
<1>1. writer = <<>> /\ UNCHANGED <<file, records, at, local, copy>>
  BY DEF Flush, Upload, Import, Purge, Drop, Start
<1>2. writer' # <<>>
  BY DEF Flush, Upload, Import, Purge, Drop, Start, Publish, Replace, Remove
<1>3. Latest = made
  BY <1>1, Distinct DEF Latest, Filing
<1>4. ASSUME ~indexReused' PROVE ChecksumInv'
  <2>1. ~indexReused /\ Latest' = made
        /\ \A i \in Indexes, v \in Numbers : Filing(i, v)' => i = made'
    <3>1. CASE Flush \/ Upload \/ Import
      <4>1. PICK j \in Indexes, w \in Numbers :
              writer' \in {Publish(j, w), Replace(j, w)} /\ j = made + 1 /\ made' = j /\ UNCHANGED indexReused
        <5>1. CASE Upload
          BY <1>4, <5>1 DEF Upload, Start, AnyIndex, NewIndex, OldIndex, Numbers
        <5>2. CASE Flush \/ Import
          <6>1. PICK j \in Indexes :
                  /\ writer' \in {Publish(j, Version + 1), Replace(j, Version + 1)}
                  /\ j = made + 1 /\ made' = j /\ UNCHANGED indexReused
            BY <1>4, <5>2 DEF Flush, Import, Start, AnyIndex, NewIndex, OldIndex
          <6>2. Version + 1 \in Numbers
            BY <5>2, VersionType, Constants DEF Flush, Import, Numbers
          <6>3. QED
            BY <6>1, <6>2
        <5>3. QED
          BY <3>1, <5>1, <5>2
      <4>2. \A i \in Indexes, v \in Numbers : Filing(i, v)' => i = j
        BY <4>1, Distinct DEF Filing
      <4>3. Filing(j, w)'
        BY <4>1 DEF Filing
      <4>4. made \in Nat
        BY Constants DEF Types, TypeOK
      <4>5. QED
        BY <1>4, <4>1, <4>2, <4>3, <4>4 DEF Latest
    <3>2. CASE Purge \/ Drop
      <4>1. writer' \in {Remove, <<Write("file", None)>>} /\ made' = made /\ UNCHANGED indexReused
        BY <3>2 DEF Purge, Drop, Start, reuse
      <4>2. \A i \in Indexes, v \in Numbers : ~Filing(i, v)'
        BY <4>1, Distinct DEF Filing
      <4>3. QED
        BY <1>4, <4>1, <4>2 DEF Latest
    <3>3. QED
      BY <3>1, <3>2
  <2>2. QED
    BY <1>1, <1>3, <2>1 DEF ChecksumInv
<1>5. QED
  BY <1>2, <1>4 DEF Settled, ChecksumInv

LEMMA ChecksumWrite == ASSUME Types, ChecksumInv, WriterStep PROVE Settled' /\ ChecksumInv'
<1>1. UNCHANGED <<live, made, at, local, copy, indexReused>>
  BY DEF WriterStep, reuse
<1>2. made \in Nat /\ Len(records) \in Nat
      /\ \A r \in 1..Len(records) : records[r].checksum \in Opt(Indexes)
  BY RecordTypes, Constants DEF Types, TypeOK
<1>3. CASE \E x \in Opt(Indexes) : file' = x /\ Head(writer) = Write("file", x) /\ UNCHANGED records
  <2>1. PICK x \in Opt(Indexes) : file' = x /\ Head(writer) = Write("file", x) /\ UNCHANGED records
    BY <1>3
  <2>2. CASE x \in Indexes
    <3>1. PICK w \in Numbers :
            writer = Publish(x, w) /\ writer' = <<Write("version", w), Write("checksum", x)>>
      BY <2>1, <2>2, NextWrites DEF FileNext
    <3>2. Filing(x, w) /\ Settled'
      BY <3>1 DEF Filing, Settled
    <3>3. \A i \in Indexes, v \in Numbers : ~Filing(i, v)'
      BY <3>1, Distinct DEF Filing
    <3>4. Latest = made - 1 /\ Latest' = made
      BY <1>1, <2>2, <3>2, <3>3 DEF Latest
    <3>5. ASSUME ~indexReused PROVE x = made
      BY <2>2, <3>2, <3>5 DEF ChecksumInv
    <3>6. ASSUME ~indexReused PROVE ChecksumInv'
      <4>1. \A r \in 1..Len(records) : records[r].checksum # None => records[r].checksum <= made
        BY <1>2, <3>4, <3>6 DEF ChecksumInv, Opt, Indexes
      <4>2. at = "file" /\ local.checksum # None => local.checksum <= made
        BY <1>2, <3>4, <3>6 DEF ChecksumInv, Types, LocalOK, Opt, Indexes
      <4>3. copy # None => copy.content <= made /\ (copy.checksum # None => copy.checksum <= copy.content)
        BY <1>2, <3>4, <3>6 DEF ChecksumInv, Types, TypeOK, Opt, Indexes
      <4>4. QED
        BY <1>1, <2>1, <3>3, <3>4, <3>5, <3>6, <4>1, <4>2, <4>3 DEF ChecksumInv
    <3>7. QED
      BY <1>1, <3>2, <3>6 DEF ChecksumInv
  <2>3. CASE x = None
    <3>1. Settled'
      BY <2>1, <2>3 DEF Settled
    <3>2. \A i \in Indexes, v \in Numbers : (Filing(i, v)' => \E w \in Numbers : Filing(i, w))
            /\ (Filing(i, v) => \E w \in Numbers : Filing(i, w)')
      <4> SUFFICES ASSUME NEW i \in Indexes, NEW v \in Numbers
                   PROVE  /\ Filing(i, v)' => \E w \in Numbers : Filing(i, w)
                          /\ Filing(i, v) => \E w \in Numbers : Filing(i, w)'
        OBVIOUS
      <4>1. ~(writer = Publish(i, v))
        BY <2>1, <2>3, Constants DEF Publish, Write, Indexes
      <4>2. CASE writer' \in {<<>>, <<Write("checksum", None)>>}
        <5>1. ~Filing(i, v)'
          BY <4>2, Distinct DEF Filing
        <5>2. ASSUME writer = Replace(i, v) PROVE FALSE
          <6>1. Len(writer') = 3
            BY <5>2 DEF Replace, WriterStep
          <6>2. QED
            BY <4>2, <6>1
        <5>3. QED
          BY <4>1, <5>1, <5>2 DEF Filing
      <4>3. ASSUME NEW j \in Indexes, NEW w \in Numbers, writer = Replace(j, w), writer' = Publish(j, w)
            PROVE  /\ Filing(i, v)' => \E u \in Numbers : Filing(i, u)
                   /\ Filing(i, v) => \E u \in Numbers : Filing(i, u)'
        <5>1. Filing(i, v)' => i = j
          BY <4>3, Distinct DEF Filing
        <5>2. Filing(i, v) => i = j
          BY <4>3, Distinct DEF Filing
        <5>3. Filing(j, w) /\ Filing(j, w)'
          BY <4>3 DEF Filing
        <5>4. QED
          BY <5>1, <5>2, <5>3
      <4>4. QED
        BY <2>1, <2>3, <4>2, <4>3, NextWrites DEF NoFileNext
    <3>3. Latest' = Latest
      BY <1>1, <3>2 DEF Latest
    <3>4. QED
      BY <1>1, <2>1, <2>3, <3>1, <3>2, <3>3 DEF ChecksumInv
  <2>4. QED
    BY <2>1, <2>2, <2>3 DEF Opt
<1>4. ASSUME NEW w \in Numbers, live \in 1..Len(records), file' = file, Head(writer) = Write("version", w),
             records' = [records EXCEPT ![live] = [@ EXCEPT !.version = w]]
      PROVE  Settled' /\ ChecksumInv'
  <2>1. PICK j \in Indexes : Announcing(j, w) /\ writer' = <<Write("checksum", j)>>
    BY <1>4, NextWrites DEF VersionNext
  <2>2. Settled'
    BY <2>1 DEF Settled
  <2>3. \A i \in Indexes, v \in Numbers : ~Filing(i, v)' /\ ~Filing(i, v)
    <3> SUFFICES ASSUME NEW i \in Indexes, NEW v \in Numbers
                 PROVE  ~Filing(i, v)' /\ ~Filing(i, v)
      OBVIOUS
    <3>1. Len(writer) = 2 /\ Len(writer') = 1
      BY <2>1 DEF Announcing
    <3>2. Len(Replace(i, v)) = 4 /\ Len(Publish(i, v)) = 3
      BY DEF Replace, Publish
    <3>3. QED
      BY <3>1, <3>2 DEF Filing
  <2>4. Latest' = made /\ Latest = made
    BY <1>1, <2>3 DEF Latest
  <2>5. Len(records') = Len(records)
        /\ \A r \in 1..Len(records) : records'[r].checksum = records[r].checksum
    BY <1>4, RecordIs DEF Types, TypeOK
  <2>6. QED
    BY <1>1, <1>4, <2>2, <2>3, <2>4, <2>5 DEF ChecksumInv
<1>5. ASSUME NEW x \in Opt(Indexes), live \in 1..Len(records), file' = file,
             Head(writer) = Write("checksum", x),
             records' = [records EXCEPT ![live] = [@ EXCEPT !.checksum = x]]
      PROVE  Settled' /\ ChecksumInv'
  <2>1. writer = <<Write("checksum", x)>> /\ writer' = <<>> /\ file = x
    BY <1>5, NextWrites DEF ChecksumNext
  <2>2. Len(records') = Len(records) /\ records'[live].checksum = x
        /\ \A r \in 1..Len(records) : r # live => records'[r].checksum = records[r].checksum
    BY <1>5, RecordIs DEF Types, TypeOK
  <2>3. Settled'
    BY <1>1, <1>5, <2>1, <2>2 DEF Settled
  <2>4. \A i \in Indexes, v \in Numbers : ~Filing(i, v)' /\ ~Filing(i, v)
    BY <2>1, Distinct DEF Filing
  <2>5. Latest' = made /\ Latest = made
    BY <1>1, <2>4 DEF Latest
  <2>6. ASSUME ~indexReused, NEW r \in 1..Len(records), records'[r].checksum # None
        PROVE  records'[r].checksum <= made
    <3>1. CASE r = live
      BY <1>2, <2>1, <2>2, <2>5, <2>6, <3>1 DEF ChecksumInv
    <3>2. CASE r # live
      BY <2>2, <2>5, <2>6, <3>2 DEF ChecksumInv
    <3>3. QED
      BY <3>1, <3>2
  <2>7. QED
    BY <1>1, <1>5, <2>2, <2>3, <2>4, <2>5, <2>6 DEF ChecksumInv
<1>6. QED
  BY WriteCases, <1>3, <1>4, <1>5

LEMMA ChecksumRead ==
  ASSUME Types, Settled, ChecksumInv,
         Create \/ Ask \/ ReadVersion \/ ReadVersionFails \/ ReadChecksum \/ ReadFile \/ ReadFileFails
  PROVE  Settled' /\ ChecksumInv'
<1>0. UNCHANGED <<file, writer, made, indexReused>>
  BY DEF Create, Ask, ReadVersion, ReadVersionFails, ReadChecksum, ReadFile, ReadFileFails, Goto,
         server, reuse
<1>1. \A i \in Indexes, v \in Numbers : Filing(i, v)' <=> Filing(i, v)
  BY <1>0 DEF Filing
<1>2. Latest' = Latest
  BY <1>0, <1>1 DEF Latest
<1>3. CASE Create
  <2>1. Len(records') = Len(records) + 1 /\ records'[Len(records) + 1].checksum = None
        /\ \A r \in 1..Len(records) : records'[r] = records[r]
    BY <1>3 DEF Create, Types, TypeOK
  <2>2. file = None /\ UNCHANGED <<at, local, copy>>
    BY <1>3 DEF Create, Settled
  <2>3. Settled'
    BY <1>0, <2>2 DEF Settled
  <2>4. ASSUME ~indexReused, NEW r \in 1..Len(records'), records'[r].checksum # None
        PROVE  records'[r].checksum <= Latest
    <3>1. r \in 1..Len(records)
      BY <2>1, <2>4 DEF Types, TypeOK
    <3>2. QED
      BY <2>1, <2>4, <3>1 DEF ChecksumInv
  <2>5. QED
    BY <1>0, <1>1, <1>2, <2>2, <2>3, <2>4 DEF ChecksumInv
<1>4. CASE ~Create
  <2>1. UNCHANGED server
    BY <1>4 DEF Ask, ReadVersion, ReadVersionFails, ReadChecksum, ReadFile, ReadFileFails, Goto
  <2>2. Settled'
    BY <2>1 DEF server, Settled
  <2>3. ASSUME ~indexReused, at' = "file", local'.checksum # None PROVE local'.checksum <= Latest
    <3>1. CASE ReadChecksum
      <4>1. local' = [version |-> local.version, checksum |-> records[local.record].checksum]
            /\ at = "checksum"
        BY <3>1 DEF ReadChecksum, Goto
      <4>2. local.record \in 1..Len(records)
        BY <4>1 DEF Types, LocalOK
      <4>3. QED
        BY <2>3, <4>1, <4>2 DEF ChecksumInv
    <3>2. CASE ~ReadChecksum
      BY <1>4, <2>3, <3>2 DEF Ask, ReadVersion, ReadVersionFails, ReadFile, ReadFileFails, Goto
    <3>3. QED
      BY <3>1, <3>2
  <2>4. ASSUME ~indexReused, copy' # None
        PROVE  copy'.content <= Latest /\ (copy'.checksum # None => copy'.checksum <= copy'.content)
    <3>1. CASE ReadFile
      <4>1. at = "file" /\ file # None /\ file = Latest
            /\ copy' = [version |-> local.version, checksum |-> local.checksum, content |-> file]
        BY <2>4, <3>1 DEF ReadFile, Goto, ChecksumInv
      <4>2. file \in Indexes
        BY <4>1 DEF Types, TypeOK, Opt
      <4>3. QED
        BY <2>4, <4>1, <4>2 DEF ChecksumInv, Indexes
    <3>2. CASE ~ReadFile
      <4>1. copy' = copy
        BY <1>4, <3>2 DEF Ask, ReadVersion, ReadVersionFails, ReadChecksum, ReadFileFails, Goto
      <4>2. QED
        BY <2>4, <4>1 DEF ChecksumInv
    <3>3. QED
      BY <3>1, <3>2
  <2>5. QED
    BY <1>0, <1>1, <1>2, <2>1, <2>2, <2>3, <2>4 DEF ChecksumInv, server
<1>5. QED
  BY <1>3, <1>4

\* A client told by its checksum that it is current has the server's index, also across
\* uploads that keep the version and collections that are created again.
THEOREM CurrentByChecksum == Spec => []ChecksumSyncSound
<1>1. Init => Settled /\ ChecksumInv
  <2> SUFFICES ASSUME Init PROVE Settled /\ ChecksumInv
    OBVIOUS
  <2>1. \A i \in Indexes, v \in Numbers : ~Filing(i, v)
    BY Distinct DEF Init, Filing
  <2>2. \A r \in 1..Len(records) : records[r].checksum = None
    BY DEF Init
  <2>3. QED
    BY <2>1, <2>2 DEF Init, Settled, ChecksumInv
<1>2. ASSUME Types, Settled, ChecksumInv, [Next]_vars PROVE (Settled /\ ChecksumInv)'
  <2>1. CASE UNCHANGED vars
    BY <1>2, <2>1 DEF vars, server, reuse, Settled, ChecksumInv, Latest, Filing
  <2>2. CASE Next
    BY <1>2, <2>2, ChecksumStart, ChecksumWrite, ChecksumRead DEF Next
  <2>3. QED
    BY <1>2, <2>1, <2>2
<1>3. ASSUME Types, Settled, ChecksumInv PROVE ChecksumSyncSound
  <2> SUFFICES ASSUME Quiet, copy.checksum # None, ~NeedsSync(copy.checksum), ~indexReused
               PROVE  copy.content = file
    BY DEF ChecksumSyncSound
  <2>1. records[live].checksum = file /\ copy.checksum = file
    BY <1>3 DEF Quiet, Settled, NeedsSync
  <2>2. copy.content <= Latest /\ copy.checksum <= copy.content /\ file = Latest
    BY <1>3 DEF Quiet, ChecksumInv
  <2>3. copy.content \in Nat /\ file \in Nat
    BY <1>3 DEF Quiet, Types, TypeOK, Opt, Indexes
  <2>4. QED
    BY <2>1, <2>2, <2>3
<1>4. QED
  BY <1>1, <1>2, <1>3, SyncTypes, PTL DEF Spec

=============================================================================
