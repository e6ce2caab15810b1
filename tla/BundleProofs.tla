---------------------------- MODULE BundleProofs ----------------------------
(***************************************************************************)
(* Proofs about BundleFormat for any documents, dims, schemas, texts and   *)
(* bounds: the labels of an imported index resolve, and a bundle that was  *)
(* damaged, and not sealed again, is never imported as something else than *)
(* what was exported.                                                      *)
(***************************************************************************)
EXTENDS BundleFormat, SequenceTheorems, TLAPS

-----------------------------------------------------------------------------
(* Types. *)

Collections ==
  [rows : Seq(Row), index : Indexes \cup {None}, dim : Dims \cup {None}, schema : Schemas]

Typed ==
  /\ collection \in Collections
  /\ {tmp, file, carried, original} \subseteq Bundles \cup {None}

-----------------------------------------------------------------------------
(* What a change to a bundle keeps. *)

LEMMA LengthenedTyped ==
  ASSUME NEW lines \in Seq(Row), NEW x \in Lengthened(lines)
  PROVE  x \in Seq(Row)
<1>1. ASSUME NEW i \in DOMAIN lines PROVE Append(lines, lines[i]) \in Seq(Row)
  <2>1. lines[i] \in Row
    BY ElementOfSeq, LenProperties
  <2>2. QED
    BY <2>1, AppendProperties
<1>2. SubSeq(lines, 1, Len(lines) - 1) \in Seq(Row) /\ SubSeq(lines, 2, Len(lines)) \in Seq(Row)
  BY SMT
<1>3. QED
  BY <1>1, <1>2 DEF Lengthened

LEMMA RewrittenTyped ==
  ASSUME NEW row \in Row, NEW x \in Rewritten(row)
  PROVE  x \in Row
BY FormatAssumption DEF Rewritten, Row

LEMMA LinesTyped ==
  ASSUME NEW lines \in Seq(Row), NEW x \in LinesFrom(lines)
  PROVE  x \in Seq(Row)
<1>1. CASE x \in Lengthened(lines)
  BY <1>1, LengthenedTyped
<1>2. ASSUME NEW i \in DOMAIN lines, NEW row \in Rewritten(lines[i]), x = [lines EXCEPT ![i] = row]
      PROVE  x \in Seq(Row)
  <2>1. row \in Row
    BY ElementOfSeq, LenProperties, RewrittenTyped
  <2>2. QED
    BY <1>2, <2>1, LenProperties, ExceptSeq
<1>3. QED
  BY <1>1, <1>2 DEF LinesFrom

\* The checksums a manifest carries are not turned into others: they stay or go.
KeepsSeals(m, n) ==
  /\ n.index_checksum \in {m.index_checksum, None}
  /\ n.scalar_checksum \in {m.scalar_checksum, None}

LEMMA ManifestTyped ==
  ASSUME NEW m \in Manifests, NEW n \in ManifestsFrom(m)
  PROVE  n \in Manifests /\ KeepsSeals(m, n)
<1>1. CASE n \in {[m EXCEPT !.format = "v2"], [m EXCEPT !.name = "other"],
                  [m EXCEPT !.label_strategy = None], [m EXCEPT !.label_strategy = "explicit"]}
  BY <1>1 DEF Manifests, KeepsSeals
<1>2. CASE n \in {[m EXCEPT !.index_checksum = None], [m EXCEPT !.scalar_checksum = None],
                  [m EXCEPT !.schema_checksum = None], [m EXCEPT !.fields = None],
                  [m EXCEPT !.total = None]}
  BY <1>2 DEF Manifests, KeepsSeals
<1>3. CASE \E k \in 0..MaxInserts : n = [m EXCEPT !.total = k]
  BY <1>3, FormatAssumption DEF Manifests, KeepsSeals
<1>4. CASE \E dim \in Dims \cup {None} : n = [m EXCEPT !.dim = dim]
  BY <1>4 DEF Manifests, KeepsSeals
<1>5. CASE \E s \in Schemas : n = [m EXCEPT !.schema_checksum = s, !.fields = s]
  BY <1>5 DEF Manifests, KeepsSeals
<1>6. QED
  BY <1>1, <1>2, <1>3, <1>4, <1>5 DEF ManifestsFrom

LEMMA ChangeTyped ==
  ASSUME NEW b \in Bundles, NEW c \in ChangedFrom(b)
  PROVE  c \in Bundles /\ KeepsSeals(b.manifest, c.manifest)
<1>1. CASE c \in {[b EXCEPT !.zip = FALSE], [b EXCEPT !.huge = TRUE]}
  BY <1>1 DEF Bundles, KeepsSeals
<1>2. CASE \E m \in {Members \ {x} : x \in Members} \cup {Members \cup {"other"}} :
             c = [b EXCEPT !.members = m]
  BY <1>2 DEF Bundles, KeepsSeals, Members
<1>3. CASE \E x \in Members : c = [b EXCEPT !.dense = {x}]
  BY <1>3 DEF Bundles, KeepsSeals
<1>4. CASE \E m \in ManifestsFrom(b.manifest) : c = [b EXCEPT !.manifest = m]
  <2>1. b.manifest \in Manifests
    BY DEF Bundles
  <2>2. QED
    BY <1>4, <2>1, ManifestTyped DEF Bundles
<1>5. CASE \E dim \in Dims : c = [b EXCEPT !.index.dim = dim]
  BY <1>5 DEF Bundles, Indexes, KeepsSeals
<1>6. CASE \E rows \in Lengthened(b.index.built) : c = [b EXCEPT !.index.built = rows]
  <2>1. PICK rows \in Lengthened(b.index.built) : c = [b EXCEPT !.index.built = rows]
    BY <1>6
  <2>2. b.index.built \in Seq(Row)
    BY DEF Bundles, Indexes
  <2>3. rows \in Seq(Row)
    BY <2>2, LengthenedTyped
  <2>4. QED
    BY <2>1, <2>3 DEF Bundles, Indexes, KeepsSeals
<1>7. CASE \E lines \in LinesFrom(b.lines) : c = [b EXCEPT !.lines = lines]
  <2>1. b.lines \in Seq(Row)
    BY DEF Bundles
  <2>2. QED
    BY <1>7, <2>1, LinesTyped DEF Bundles, KeepsSeals
<1>8. CASE \E lines \in LinesFrom(b.lines) :
             c = [b EXCEPT !.lines = lines, !.index.built = lines, !.manifest.total = Len(lines)]
  <2>1. PICK lines \in LinesFrom(b.lines) :
          c = [b EXCEPT !.lines = lines, !.index.built = lines, !.manifest.total = Len(lines)]
    BY <1>8
  <2>2. lines \in Seq(Row) /\ Len(lines) \in Nat
    BY LinesTyped, LenProperties DEF Bundles
  <2>3. QED
    BY <2>1, <2>2 DEF Bundles, Indexes, Manifests, KeepsSeals
<1>9. QED
  BY <1>1, <1>2, <1>3, <1>4, <1>5, <1>6, <1>7, <1>8 DEF ChangedFrom

-----------------------------------------------------------------------------
(* Labels. *)

\* A collection's rows are numbered 0, 1, ..., and its index is over as many.
Numbered ==
  /\ Covers(collection.rows)
  /\ collection.index # None => Len(collection.index.built) = Len(collection.rows)

LabelInv == Typed /\ Numbered

LEMMA NothingCovers == Covers(<<>>)
BY DEF Covers

\* Rows numbered from 0 are numbered on with their number.
LEMMA NextIsLength ==
  ASSUME NEW rows \in Seq(Row), Covers(rows)
  PROVE  NextRowId(rows) = Len(rows)
<1>1. CASE rows = <<>>
  BY <1>1 DEF NextRowId
<1>2. CASE rows # <<>>
  <2>. DEFINE P(n) == /\ n \in {rows[i].row_id + 1 : i \in DOMAIN rows}
                      /\ \A i \in DOMAIN rows : rows[i].row_id < n
  <2>1. /\ Len(rows) \in Nat \ {0} /\ DOMAIN rows = 1..Len(rows)
    BY <1>2, LenProperties, EmptySeq
  <2>2. \A i \in DOMAIN rows : rows[i].row_id \in 0..(Len(rows) - 1)
    BY DEF Covers
  <2>3. P(Len(rows))
    <3>1. PICK i \in DOMAIN rows : rows[i].row_id = Len(rows) - 1
      BY <2>1 DEF Covers
    <3>2. rows[i].row_id + 1 = Len(rows)
      BY <2>1, <3>1
    <3>3. QED
      BY <2>1, <2>2, <3>2
  <2>4. ASSUME NEW n, P(n) PROVE n = Len(rows)
    <3>1. PICK i \in DOMAIN rows : n = rows[i].row_id + 1
      BY <2>4
    <3>2. PICK j \in DOMAIN rows : rows[j].row_id = Len(rows) - 1
      BY <2>1 DEF Covers
    <3>3. rows[i].row_id \in 0..(Len(rows) - 1) /\ rows[j].row_id < n
      BY <2>2, <2>4
    <3>4. QED
      BY <2>1, <3>1, <3>2, <3>3
  <2>5. NextRowId(rows) = CHOOSE n : P(n)
    BY <1>2 DEF NextRowId
  <2>. HIDE DEF P
  <2>6. QED
    BY <2>3, <2>4, <2>5
<1>3. QED
  BY <1>1, <1>2

LEMMA AppendCovers ==
  ASSUME NEW rows \in Seq(Row), Covers(rows),
         NEW row \in Row, row.row_id = Len(rows)
  PROVE  Covers(Append(rows, row))
<1>. DEFINE longer == Append(rows, row)
<1>1. /\ Len(rows) \in Nat /\ DOMAIN rows = 1..Len(rows)
      /\ longer \in Seq(Row) /\ Len(longer) = Len(rows) + 1 /\ DOMAIN longer = 1..(Len(rows) + 1)
      /\ \A i \in 1..Len(rows) : longer[i] = rows[i]
      /\ longer[Len(rows) + 1] = row
  BY AppendProperties, LenProperties
<1>2. \A i \in 1..Len(rows) : rows[i].row_id \in 0..(Len(rows) - 1)
  BY <1>1 DEF Covers
<1>. HIDE DEF longer
<1>3. ASSUME NEW i \in DOMAIN longer, NEW j \in DOMAIN longer, longer[i].row_id = longer[j].row_id
      PROVE  i = j
  <2>1. CASE i \in 1..Len(rows) /\ j \in 1..Len(rows)
    BY <1>1, <1>3, <2>1 DEF Covers
  <2>2. CASE i = Len(rows) + 1 \/ j = Len(rows) + 1
    BY <1>1, <1>2, <1>3, <2>2
  <2>3. QED
    BY <1>1, <2>1, <2>2
<1>4. {longer[i].row_id : i \in DOMAIN longer} = 0..(Len(longer) - 1)
  <2>1. ASSUME NEW i \in DOMAIN longer PROVE longer[i].row_id \in 0..(Len(longer) - 1)
    BY <1>1, <1>2
  <2>2. ASSUME NEW id \in 0..(Len(longer) - 1) PROVE \E i \in DOMAIN longer : longer[i].row_id = id
    <3>1. CASE id = Len(rows)
      <4>1. Len(rows) + 1 \in DOMAIN longer /\ longer[Len(rows) + 1].row_id = id
        BY <1>1, <3>1
      <4>2. QED
        BY <4>1
    <3>2. CASE id \in 0..(Len(rows) - 1)
      <4>1. PICK i \in DOMAIN rows : rows[i].row_id = id
        BY <3>2 DEF Covers
      <4>2. i \in DOMAIN longer /\ longer[i].row_id = id
        BY <1>1, <4>1
      <4>3. QED
        BY <4>2
    <3>3. id = Len(rows) \/ id \in 0..(Len(rows) - 1)
      <4>1. Len(rows) \in Nat /\ Len(longer) - 1 = Len(rows)
        BY <1>1
      <4>2. id \in 0..Len(rows)
        BY <4>1
      <4>3. QED
        BY <4>1, <4>2
    <3>4. QED
      BY <3>1, <3>2, <3>3
  <2>3. QED
    BY <2>1, <2>2
<1>5. QED
  BY <1>3, <1>4 DEF Covers, longer

LEMMA CreatedTyped ==
  ASSUME NEW schema \in Schemas, NEW dim \in Dims \cup {None}
  PROVE  /\ Created(schema, dim) \in Collections
         /\ Covers(Created(schema, dim).rows) /\ Created(schema, dim).index = None
BY NothingCovers, EmptySeq DEF Created, Collections

LEMMA InsertNumbered ==
  ASSUME LabelInv, NEW doc \in Docs, NEW dim \in Dims, NEW text \in Texts,
         InsertFlush(doc, dim, text)
  PROVE  LabelInv'
<1>. DEFINE row == [row_id |-> NextRowId(collection.rows), doc |-> doc, dim |-> dim, text |-> text]
            rows == Append(collection.rows, row)
<1>1. collection \in Collections /\ collection.rows \in Seq(Row) /\ Covers(collection.rows)
  BY DEF LabelInv, Typed, Numbered, Collections
<1>2. NextRowId(collection.rows) = Len(collection.rows) /\ Len(collection.rows) \in Nat
  BY <1>1, NextIsLength, LenProperties
<1>3. row \in Row
  BY <1>2 DEF Row
<1>4. rows \in Seq(Row) /\ Covers(rows)
  BY <1>1, <1>2, <1>3, AppendProperties, AppendCovers
<1>5. /\ collection' = [collection EXCEPT !.rows = rows, !.dim = dim,
                                          !.index = [dim |-> dim, built |-> rows]]
      /\ UNCHANGED <<tmp, file, carried, original>>
  BY DEF InsertFlush, export, outside
<1>. HIDE DEF rows
<1>6. collection' \in Collections /\ collection'.rows = rows /\ collection'.index.built = rows
  BY <1>1, <1>4, <1>5 DEF Collections, Indexes
<1>7. QED
  BY <1>4, <1>5, <1>6 DEF LabelInv, Typed, Numbered

LEMMA ExportTyped ==
  ASSUME Typed, NEW clock \in Years, NEW dense \in SUBSET Members, Export(clock, dense)
  PROVE  tmp' \in Bundles
BY DEF Typed, Export, Packed, Manifest, Bundles, Manifests, Collections, Members

LEMMA ImportNumbered ==
  ASSUME LabelInv, NEW checksum, Import(checksum)
  PROVE  LabelInv'
<1>1. CASE result' # "imported"
  BY <1>1 DEF Import, LabelInv, Typed, Numbered, export, outside
<1>2. CASE result' = "imported"
  <2>1. Readable(carried) /\ IndexAgrees(carried)
    BY <1>2 DEF Import, Outcome
  <2>2. Covers(carried.lines) /\ Len(carried.index.built) = Len(carried.lines)
    BY <2>1 DEF Readable, LabelsMap, IndexAgrees
  <2>3. collection \in Collections /\ carried \in Bundles
    BY DEF LabelInv, Typed, Import
  <2>4. collection' = [collection EXCEPT !.rows = carried.lines, !.index = carried.index,
                        !.dim = IF carried.manifest.dim = None THEN @ ELSE carried.manifest.dim]
    BY <1>2 DEF Import
  <2>5. /\ collection' \in Collections
        /\ collection'.rows = carried.lines /\ collection'.index = carried.index
    BY <2>3, <2>4 DEF Collections, Bundles, Manifests
  <2>6. QED
    BY <2>2, <2>5 DEF Import, LabelInv, Typed, Numbered, export, outside
<1>3. QED
  BY <1>1, <1>2

LEMMA ResealTyped ==
  ASSUME Typed, Reseal
  PROVE  carried' \in Bundles
<1>1. carried \in Bundles
  BY DEF Typed, Reseal
<1>2. [carried.manifest EXCEPT !.index_checksum = carried.index, !.scalar_checksum = carried.lines]
        \in Manifests
  BY <1>1 DEF Bundles, Manifests
<1>3. carried' = [carried EXCEPT !.manifest =
        [carried.manifest EXCEPT !.index_checksum = carried.index, !.scalar_checksum = carried.lines]]
  BY <1>1 DEF Reseal, Bundles
<1>4. QED
  BY <1>1, <1>2, <1>3 DEF Bundles

LEMMA LabelStep == ASSUME LabelInv, [Next]_vars PROVE LabelInv'
<1>1. CASE UNCHANGED vars
  BY <1>1 DEF vars, LabelInv, Typed, Numbered
<1>2. ASSUME NEW doc \in Docs, NEW dim \in Dims, NEW text \in Texts, InsertFlush(doc, dim, text)
      PROVE  LabelInv'
  BY <1>2, InsertNumbered
<1>3. ASSUME NEW schema \in Schemas, NEW dim \in Dims \cup {None}, Recreate(schema, dim)
      PROVE  LabelInv'
  BY <1>3, CreatedTyped DEF Recreate, outside, LabelInv, Typed, Numbered
<1>4. ASSUME NEW clock \in Years, NEW dense \in SUBSET Members, Export(clock, dense)
      PROVE  LabelInv'
  <2>1. tmp' \in Bundles
    BY <1>4, ExportTyped DEF LabelInv
  <2>2. QED
    BY <1>4, <2>1 DEF Export, outside, LabelInv, Typed, Numbered
<1>5. CASE Purge
  <2>1. collection.schema \in Schemas /\ collection.dim \in Dims \cup {None}
    BY DEF LabelInv, Typed, Collections
  <2>2. QED
    BY <1>5, <2>1, CreatedTyped DEF Purge, outside, LabelInv, Typed, Numbered
<1>6. CASE Publish \/ ExportFails \/ Deliver
  BY <1>6 DEF Publish, ExportFails, Deliver, outside, LabelInv, Typed, Numbered
<1>7. CASE Reseal
  BY <1>7, ResealTyped DEF Reseal, export, LabelInv, Typed, Numbered
<1>8. ASSUME carried # None, NEW b \in ChangedFrom(carried), Change(b) PROVE LabelInv'
  <2>1. b \in Bundles
    BY <1>8, ChangeTyped DEF LabelInv, Typed
  <2>2. QED
    BY <1>8, <2>1 DEF Change, export, LabelInv, Typed, Numbered
<1>9. ASSUME NEW checksum \in {None, original}, Import(checksum) PROVE LabelInv'
  BY <1>9, ImportNumbered
<1>10. QED
  BY <1>1, <1>2, <1>3, <1>4, <1>5, <1>6, <1>7, <1>8, <1>9 DEF Next

LEMMA LabelInit == ASSUME Init PROVE LabelInv
<1>1. PICK schema \in Schemas : collection = Created(schema, None)
  BY DEF Init
<1>2. QED
  BY <1>1, CreatedTyped DEF Init, LabelInv, Typed, Numbered

LEMMA NumberedResolves == ASSUME LabelInv PROVE LabelsResolve
<1>. SUFFICES ASSUME collection.index # None
              PROVE  /\ Len(collection.index.built) = Len(collection.rows)
                     /\ \A label \in 0..(Len(collection.index.built) - 1) :
                          \E i \in DOMAIN collection.rows : Labelled(collection.rows, label) = {i}
  BY DEF LabelsResolve
<1>1. Len(collection.index.built) = Len(collection.rows) /\ Covers(collection.rows)
  BY DEF LabelInv, Numbered
<1>2. ASSUME NEW label \in 0..(Len(collection.rows) - 1)
      PROVE  \E i \in DOMAIN collection.rows : Labelled(collection.rows, label) = {i}
  <2>1. PICK i \in DOMAIN collection.rows : collection.rows[i].row_id = label
    BY <1>1 DEF Covers
  <2>2. Labelled(collection.rows, label) = {i}
    BY <1>1, <2>1 DEF Covers, Labelled
  <2>3. QED
    BY <2>2
<1>3. QED
  BY <1>1, <1>2

\* Whatever bundle was imported, the labels of a collection's index resolve to one
\* row each, because the rows are numbered from 0 after every insert and import.
THEOREM ImportedLabelsResolve == Spec => []LabelsResolve
<1>1. Init => LabelInv
  BY LabelInit
<1>2. LabelInv /\ [Next]_vars => LabelInv'
  BY LabelStep
<1>3. LabelInv => LabelsResolve
  BY NumberedResolves
<1>4. QED
  BY <1>1, <1>2, <1>3, PTL DEF Spec

-----------------------------------------------------------------------------
(* The temporary file and its date. *)

TypesInv == LabelInv /\ TypeOK

LEMMA YearIsSafe ==
  ASSUME NEW year \in Years PROVE ZipSafeYear(year) \in 1980..2107
BY FormatAssumption DEF ZipSafeYear

LEMMA Bounds == MaxChanges \in Nat /\ 0 \in 0..MaxChanges /\ None \notin 1980..2107
<1>1. MaxChanges \in Nat /\ None \notin Nat
  BY FormatAssumption
<1>2. 1980..2107 \subseteq Nat
  OBVIOUS
<1>3. QED
  BY <1>1, <1>2

LEMMA TypesStep == ASSUME TypesInv, [Next]_vars PROVE TypesInv'
<1>1. LabelInv'
  BY LabelStep DEF TypesInv
<1>2. collection'.dim \in Dims \cup {None} /\ collection'.schema \in Schemas
  BY <1>1 DEF LabelInv, Typed, Collections
<1>3. CASE UNCHANGED vars
  BY <1>1, <1>3 DEF vars, TypesInv, TypeOK
<1>4. ASSUME result' = None, UNCHANGED <<tmp, stamp, resealed, changes>> PROVE TypeOK'
  BY <1>2, <1>4 DEF TypesInv, TypeOK
<1>5. ASSUME NEW clock \in Years, NEW dense \in SUBSET Members, Export(clock, dense) PROVE TypeOK'
  <2>1. tmp' # None
    BY <1>5, ExportTyped, NoneAssumption DEF TypesInv, LabelInv
  <2>2. stamp' \in 1980..2107 /\ stamp' # None
    <3>1. stamp' = ZipSafeYear(clock)
      BY <1>5 DEF Export
    <3>2. QED
      BY <3>1, YearIsSafe, Bounds
  <2>3. QED
    BY <1>2, <1>5, <2>1, <2>2 DEF Export, outside, TypesInv, TypeOK
<1>6. CASE Publish \/ ExportFails
  BY <1>1, <1>2, <1>6 DEF Publish, ExportFails, outside, TypesInv, TypeOK
<1>7. CASE Deliver
  <2>1. resealed' = FALSE /\ changes' = 0 /\ result' = None /\ UNCHANGED <<tmp, stamp>>
    BY <1>7 DEF Deliver
  <2>2. resealed' \in BOOLEAN
    BY <2>1
  <2>3. changes' \in 0..MaxChanges
    BY <2>1, Bounds
  <2>4. QED
    BY <1>1, <1>2, <2>1, <2>2, <2>3 DEF TypesInv, TypeOK
<1>8. ASSUME NEW b, Change(b) PROVE TypeOK'
  <2>1. changes' \in 0..MaxChanges
    BY <1>8, Bounds DEF Change, TypesInv, TypeOK
  <2>2. QED
    BY <1>2, <1>8, <2>1 DEF Change, export, TypesInv, TypeOK
<1>9. CASE Reseal
  BY <1>1, <1>2, <1>9 DEF Reseal, export, TypesInv, TypeOK
<1>10. ASSUME NEW checksum, Import(checksum) PROVE TypeOK'
  <2>1. result' \in {"imported", "invalid", "conflict", "error"}
    BY <1>10 DEF Import, Outcome
  <2>2. QED
    BY <1>2, <1>10, <2>1 DEF Import, export, outside, TypesInv, TypeOK
<1>11. QED
  BY <1>1, <1>3, <1>4, <1>5, <1>6, <1>7, <1>8, <1>9, <1>10
     DEF Next, InsertFlush, Recreate, Purge, export, outside, TypesInv

\* An export that ends, well or by an exception, has no temporary file left, and
\* _zip_safe_date_time's date is one that a ZIP entry holds, whatever the clock says.
THEOREM DatesFit == Spec => []TypeOK
<1>1. Init => TypesInv
  <2> SUFFICES ASSUME Init PROVE TypesInv
    OBVIOUS
  <2>1. PICK schema \in Schemas : collection = Created(schema, None)
    BY DEF Init
  <2>2. collection.dim = None /\ collection.schema \in Schemas
    BY <2>1 DEF Created
  <2>3. resealed = FALSE /\ changes = 0
    BY DEF Init
  <2>4. resealed \in BOOLEAN
    BY <2>3
  <2>5. changes \in 0..MaxChanges
    BY <2>3, Bounds
  <2>6. QED
    BY <2>2, <2>4, <2>5, LabelInit DEF Init, TypesInv, TypeOK
<1>2. TypesInv /\ [Next]_vars => TypesInv'
  BY TypesStep
<1>3. QED
  BY <1>1, <1>2, PTL DEF Spec, TypesInv

-----------------------------------------------------------------------------
(* Seals. *)

\* A bundle carries its own checksums, or has lost one, and then is not readable.
SealsOf(b, c) ==
  /\ c.manifest.index_checksum \in {b.index, None}
  /\ c.manifest.scalar_checksum \in {b.lines, None}

SealInv ==
  /\ Typed
  /\ \A b \in {tmp, file, original} : b # None => SealsOf(b, b)
  /\ carried # None => original # None
  /\ carried # None /\ ~resealed => SealsOf(original, carried)
  /\ OnlyExportedContent

LEMMA SealImport ==
  ASSUME SealInv, NEW checksum, Import(checksum), Typed'
  PROVE  SealInv'
<1>1. OnlyExportedContent'
  <2>. SUFFICES ASSUME result' = "imported", ~resealed
                PROVE  collection'.rows = original.lines /\ collection'.index = original.index
    BY DEF Import, outside, OnlyExportedContent
  <2>1. Sealed(carried) /\ collection \in Collections
    BY DEF Import, Outcome, Readable, SealInv, Typed
  <2>2. carried.lines = original.lines /\ carried.index = original.index
    BY <2>1 DEF Import, SealInv, SealsOf, Sealed, SealedIndex
  <2>3. collection'.rows = carried.lines /\ collection'.index = carried.index
    BY <2>1 DEF Import, Collections
  <2>4. QED
    BY <2>2, <2>3
<1>2. QED
  BY <1>1 DEF Import, export, outside, SealInv, SealsOf

LEMMA SealChange ==
  ASSUME SealInv, carried # None, NEW b \in ChangedFrom(carried), Change(b), Typed'
  PROVE  SealInv'
<1>1. carried \in Bundles /\ ~resealed /\ SealsOf(original, carried)
  BY DEF SealInv, Typed, Change
<1>2. KeepsSeals(carried.manifest, b.manifest)
  BY <1>1, ChangeTyped
<1>3. SealsOf(original, b)
  BY <1>1, <1>2 DEF SealsOf, KeepsSeals
<1>4. QED
  BY <1>3, FormatAssumption DEF Change, export, SealInv, SealsOf, OnlyExportedContent

LEMMA SealExport ==
  ASSUME SealInv, NEW clock \in Years, NEW dense \in SUBSET Members, Export(clock, dense), Typed'
  PROVE  SealInv'
<1>1. SealsOf(tmp', tmp')
  BY DEF Export, Packed, Manifest, SealsOf
<1>2. QED
  BY <1>1, FormatAssumption DEF Export, outside, SealInv, SealsOf, OnlyExportedContent

LEMMA SealDeliver ==
  ASSUME SealInv, Deliver, Typed'
  PROVE  SealInv'
BY FormatAssumption DEF Deliver, SealInv, SealsOf, OnlyExportedContent

LEMMA SealStep == ASSUME SealInv, [Next]_vars, Typed' PROVE SealInv'
<1>1. CASE UNCHANGED vars
  BY <1>1, FormatAssumption DEF vars, SealInv, SealsOf, OnlyExportedContent
<1>2. ASSUME NEW doc \in Docs, NEW dim \in Dims, NEW text \in Texts, InsertFlush(doc, dim, text)
      PROVE  SealInv'
  BY <1>2, FormatAssumption DEF InsertFlush, export, outside, SealInv, SealsOf, OnlyExportedContent
<1>3. ASSUME NEW schema \in Schemas, NEW dim \in Dims \cup {None}, Recreate(schema, dim)
      PROVE  SealInv'
  BY <1>3, FormatAssumption DEF Recreate, outside, SealInv, SealsOf, OnlyExportedContent
<1>4. ASSUME NEW clock \in Years, NEW dense \in SUBSET Members, Export(clock, dense)
      PROVE  SealInv'
  BY <1>4, SealExport
<1>5. CASE Purge
  BY <1>5, FormatAssumption DEF Purge, outside, SealInv, SealsOf, OnlyExportedContent
<1>6. CASE Publish \/ ExportFails
  BY <1>6, FormatAssumption DEF Publish, ExportFails, outside, SealInv, SealsOf, OnlyExportedContent
<1>7. CASE Deliver
  BY <1>7, SealDeliver
<1>8. CASE Reseal
  BY <1>8, FormatAssumption DEF Reseal, export, SealInv, SealsOf, OnlyExportedContent
<1>9. ASSUME carried # None, NEW b \in ChangedFrom(carried), Change(b) PROVE SealInv'
  BY <1>9, SealChange
<1>10. ASSUME NEW checksum \in {None, original}, Import(checksum) PROVE SealInv'
  BY <1>10, SealImport
<1>11. QED
  BY <1>1, <1>2, <1>3, <1>4, <1>5, <1>6, <1>7, <1>8, <1>9, <1>10 DEF Next

\* An import that goes through, of a bundle whose checksums nobody has made anew,
\* restores what was exported, however the bundle was changed on its way.
THEOREM DamageIsNoticed == Spec => []OnlyExportedContent
<1>1. Init => LabelInv /\ SealInv
  BY LabelInit, FormatAssumption DEF Init, LabelInv, SealInv, SealsOf, OnlyExportedContent
<1>2. (LabelInv /\ SealInv) /\ [Next]_vars => (LabelInv /\ SealInv)'
  BY LabelStep, SealStep DEF LabelInv
<1>3. SealInv => OnlyExportedContent
  BY DEF SealInv
<1>4. QED
  BY <1>1, <1>2, <1>3, PTL DEF Spec

-----------------------------------------------------------------------------
(* Untouched bundles. *)

\* The rows of a collection to which nothing was imported.
Proper(rows, dim) ==
  /\ \A i \in DOMAIN rows : rows[i].doc # None /\ rows[i].dim \in Dims /\ rows[i].dim = dim
  /\ \A i, j \in DOMAIN rows : rows[i].doc = rows[j].doc => i = j

\* A bundle as create_bundle writes it.
OwnBundle(b) ==
  /\ b.zip /\ ~b.huge /\ b.members = Members
  /\ b.manifest.format = "v1" /\ b.manifest.name = "own"
  /\ b.manifest.label_strategy = "implicit_sequential"
  /\ b.manifest.schema_checksum \in Schemas
  /\ b.manifest.index_checksum = b.index /\ b.index # None
  /\ b.manifest.scalar_checksum = b.lines
  /\ b.manifest.dim = b.index.dim
  /\ b.manifest.total = Len(b.lines) /\ Len(b.index.built) = Len(b.lines)
  /\ Covers(b.lines) /\ Proper(b.lines, b.manifest.dim)

OwnInv ==
  /\ original = None => carried = None /\ Proper(collection.rows, collection.dim)
  /\ \A b \in {tmp, file, original} : b # None => OwnBundle(b)
  /\ OwnPlainBundleRestores

LEMMA OwnInsert ==
  ASSUME LabelInv, OwnInv, NEW doc \in Docs, NEW dim \in Dims, NEW text \in Texts,
         InsertFlush(doc, dim, text)
  PROVE  OwnInv'
<1> DEFINE row == [row_id |-> NextRowId(collection.rows), doc |-> doc, dim |-> dim, text |-> text]
           rows == Append(collection.rows, row)
<1>1. /\ collection \in Collections /\ collection.rows \in Seq(Row)
      /\ collection.dim \in {None, dim} /\ result' = None
      /\ UNCHANGED <<tmp, file, carried, original>>
  BY DEF LabelInv, Typed, Collections, InsertFlush, export, outside
<1>2. collection'.rows = rows /\ collection'.dim = dim
  BY <1>1 DEF InsertFlush, Collections
<1>3. /\ Len(collection.rows) \in Nat /\ DOMAIN collection.rows = 1..Len(collection.rows)
      /\ DOMAIN rows = 1..(Len(collection.rows) + 1) /\ rows[Len(collection.rows) + 1] = row
      /\ \A i \in 1..Len(collection.rows) : rows[i] = collection.rows[i]
  BY <1>1, AppendProperties, LenProperties
<1>4. row.doc = doc /\ row.dim = dim /\ doc # None /\ None \notin Dims
      /\ \A i \in DOMAIN collection.rows : collection.rows[i].doc # doc
  BY FormatAssumption DEF InsertFlush
<1> HIDE DEF rows, row
<1>5. ASSUME Proper(collection.rows, collection.dim) PROVE Proper(rows, dim)
  <2>1. ASSUME NEW i \in DOMAIN rows PROVE rows[i].doc # None /\ rows[i].dim \in Dims /\ rows[i].dim = dim
    <3>1. CASE i \in 1..Len(collection.rows)
      BY <1>1, <1>3, <1>4, <1>5, <3>1 DEF Proper
    <3>2. CASE i = Len(collection.rows) + 1
      BY <1>3, <1>4, <3>2
    <3>3. QED
      BY <1>3, <3>1, <3>2
  <2>2. ASSUME NEW i \in DOMAIN rows, NEW j \in DOMAIN rows, rows[i].doc = rows[j].doc PROVE i = j
    <3>1. CASE i \in 1..Len(collection.rows) /\ j \in 1..Len(collection.rows)
      BY <1>3, <1>5, <2>2, <3>1 DEF Proper
    <3>2. CASE i = Len(collection.rows) + 1 \/ j = Len(collection.rows) + 1
      BY <1>3, <1>4, <2>2, <3>2
    <3>3. QED
      BY <1>3, <3>1, <3>2
  <2>3. QED
    BY <2>1, <2>2 DEF Proper
<1>6. QED
  BY <1>1, <1>2, <1>5 DEF OwnInv, OwnBundle, OwnPlainBundleRestores

LEMMA OwnExport ==
  ASSUME LabelInv, OwnInv, NEW clock \in Years, NEW dense \in SUBSET Members, Export(clock, dense)
  PROVE  OwnInv'
<1>1. collection \in Collections /\ collection.index # None /\ Covers(collection.rows)
      /\ Proper(collection.rows, collection.dim)
  BY DEF LabelInv, Typed, Numbered, OwnInv, Export
<1>2. tmp' = Packed(collection, dense) /\ collection.index.dim = collection.dim
      /\ Len(collection.index.built) = Len(collection.rows)
      /\ result' = None /\ UNCHANGED <<collection, file, carried, original>>
  BY DEF Export, outside
<1>3. collection.schema \in Schemas
  BY <1>1 DEF Collections
<1>4. OwnBundle(tmp')
  BY <1>1, <1>2, <1>3 DEF Packed, Manifest, OwnBundle
<1>5. QED
  BY <1>2, <1>4 DEF OwnInv, OwnPlainBundleRestores

\* What was exported passes each check of read_bundle and of the engine.
LEMMA OwnOutcome ==
  ASSUME Typed, original # None, OwnBundle(original), Parses(original), original.dense = {},
         Fits(original, collection), NEW checksum \in {None, original}
  PROVE  Outcome(original, collection, checksum) = "imported"
<1>1. original.lines \in Seq(Row)
  BY DEF Typed, Bundles
<1>2. Unpacks(original) /\ Sealed(original)
  BY <1>1, NoneAssumption DEF OwnBundle, Unpacks, Sealed, SealedIndex
<1>3. LabelsMap(original)
  <2>1. ASSUME NEW i \in DOMAIN original.lines PROVE IsInt(original.lines[i].row_id)
    <3>1. original.lines[i].row_id \in Nat
      BY <1>1, LenProperties DEF OwnBundle, Covers
    <3>2. QED
      BY <3>1, FormatAssumption DEF IsInt
  <2>2. QED
    BY <2>1 DEF OwnBundle, Proper, LabelsMap, SameDim
<1>4. IndexAgrees(original)
  BY DEF OwnBundle, IndexAgrees
<1>5. Stageable(original.lines)
  BY FormatAssumption DEF OwnBundle, Proper, Stageable
<1>6. QED
  BY <1>2, <1>3, <1>4, <1>5 DEF Outcome, Readable

LEMMA OwnImport ==
  ASSUME LabelInv, OwnInv, NEW checksum \in {None, original}, Import(checksum)
  PROVE  OwnInv'
<1>1. original # None /\ UNCHANGED <<tmp, file, carried, original>>
  BY DEF OwnInv, Import, export, outside
<1>2. OwnPlainBundleRestores'
  <2> SUFFICES ASSUME result' # "imported", carried = original, Fits(original, collection'),
                      Parses(original), original.dense = {}
               PROVE  FALSE
    BY <1>1 DEF OwnPlainBundleRestores, Untouched, Parses, Fits, SameDim
  <2>1. collection' = collection /\ result' = Outcome(original, collection, checksum)
    BY DEF Import
  <2>2. QED
    BY <1>1, <2>1, OwnOutcome DEF LabelInv, OwnInv
<1>3. QED
  BY <1>1, <1>2 DEF OwnInv, OwnBundle

LEMMA OwnStep == ASSUME LabelInv, OwnInv, [Next]_vars PROVE OwnInv'
<1> USE DEF OwnInv, OwnBundle
<1>1. CASE UNCHANGED vars
  BY <1>1 DEF vars, OwnPlainBundleRestores, Untouched, Fits, SameDim, Parses
<1>2. ASSUME NEW doc \in Docs, NEW dim \in Dims, NEW text \in Texts, InsertFlush(doc, dim, text)
      PROVE  OwnInv'
  BY <1>2, OwnInsert
<1>3. ASSUME NEW schema, NEW dim, collection' = Created(schema, dim), file' = None, result' = None,
             UNCHANGED <<tmp, outside>>
      PROVE  OwnInv'
  <2>1. Proper(collection'.rows, collection'.dim)
    BY <1>3 DEF Created, Proper
  <2>2. QED
    BY <1>3, <2>1 DEF outside, OwnPlainBundleRestores
<1>4. ASSUME NEW clock \in Years, NEW dense \in SUBSET Members, Export(clock, dense) PROVE OwnInv'
  BY <1>4, OwnExport
<1>5. CASE Publish \/ ExportFails
  BY <1>5 DEF Publish, ExportFails, outside, OwnPlainBundleRestores, Untouched, Fits, SameDim, Parses
<1>6. CASE Deliver
  BY <1>6 DEF Deliver, OwnPlainBundleRestores
<1>7. CASE Reseal \/ \E b : Change(b)
  BY <1>7 DEF Reseal, Change, export, OwnPlainBundleRestores
<1>8. ASSUME NEW checksum \in {None, original}, Import(checksum) PROVE OwnInv'
  BY <1>8, OwnImport
<1>9. QED
  BY <1>1, <1>2, <1>3, <1>4, <1>5, <1>6, <1>7, <1>8 DEF Next, Recreate, Purge

\* An untouched bundle of plain texts comes back into every collection of the same
\* schema and dim: no check of read_bundle or of the engine refuses what
\* create_bundle wrote.
THEOREM OwnBundlesReturn == Spec => []OwnPlainBundleRestores
<1>1. Init => LabelInv /\ OwnInv
  <2> SUFFICES ASSUME Init PROVE LabelInv /\ OwnInv
    OBVIOUS
  <2>1. collection.rows = <<>>
    BY DEF Init, Created
  <2>2. Proper(collection.rows, collection.dim)
    BY <2>1 DEF Proper
  <2>3. QED
    BY <2>2, LabelInit DEF Init, OwnInv, OwnPlainBundleRestores
<1>2. (LabelInv /\ OwnInv) /\ [Next]_vars => (LabelInv /\ OwnInv)'
  BY LabelStep, OwnStep
<1>3. QED
  BY <1>1, <1>2, PTL DEF Spec, OwnInv

=============================================================================
