---------------------------- MODULE BundleFormat ----------------------------
(***************************************************************************)
(* What is in a bundle, and what an import accepts: create_bundle and      *)
(* read_bundle of hypervec_bundle.py with the checks of the engine's       *)
(* export_collection_bundle and import_collection_bundle.  A collection is *)
(* exported; the bundle is kept outside the server, where it may be        *)
(* damaged or rewritten by hand; and it is imported into the collection as *)
(* it is by then.  The steps of an import and what a crash leaves of them  *)
(* are in CollectionEngine, here an import is whole.                       *)
(*                                                                         *)
(* A checksum is the content it is the checksum of.  An index is its       *)
(* dimension and the rows it was built from, whose number is n_total.      *)
(***************************************************************************)
EXTENDS Integers, Sequences, FiniteSets

CONSTANTS
  Docs,       \* document ids
  Dims,       \* lengths of vectors
  Schemas,    \* collection schemas, with the names of their fields
  Years,      \* what the server's clock may say
  None,       \* no such key, no file, null
  TrueId,     \* the JSON value true
  Texts,      \* kinds of text among AllTexts
  MaxInserts, MaxChanges  \* bounds: documents inserted, changes to a bundle

AllTexts == {"plain", "separator", "repetitive"}

\* A separator text has a character that json.dumps leaves as it is and
\* str.splitlines splits at (U+0085, U+2028, U+2029); a repetitive document's
\* text, or its vector, may compress more than 200 to 1.
ASSUME FormatAssumption ==
  /\ None \notin Nat \cup Docs \cup {"imported"} /\ TrueId \notin Nat /\ TrueId # None
  /\ Dims \subseteq Nat /\ Years \subseteq Nat /\ Texts \subseteq AllTexts
  /\ {MaxInserts, MaxChanges} \subseteq Nat

Row == [row_id : Nat \cup {TrueId, None}, doc : Docs \cup {None},
        dim : Dims \cup {None}, text : Texts]

Members == {"manifest.json", "index.hypervec", "scalar.jsonl"}

\* An index, a manifest and a bundle, as they are exported and as others make them.
Indexes == [dim : Dims, built : Seq(Row)]

Manifests ==
  [format : {"v1", "v2"}, name : {"own", "other"}, dim : Dims \cup {None},
   total : Nat \cup {None}, schema_checksum : Schemas \cup {None},
   fields : Schemas \cup {None}, index_checksum : Indexes \cup {None},
   scalar_checksum : Seq(Row) \cup {None},
   label_strategy : {None, "implicit_sequential", "explicit"}]

Bundles ==
  [zip : BOOLEAN, members : SUBSET (Members \cup {"other"}), dense : SUBSET Members,
   huge : BOOLEAN, manifest : Manifests, index : Indexes, lines : Seq(Row)]

\* None is none of the values it stands in for the absence of.
ASSUME NoneAssumption == None \notin Schemas /\ None \notin Seq(Row) /\ None \notin Bundles

VARIABLES
  collection,  \* rows, index, dim and schema of the collection
  tmp, file,   \* the bundle being written, and the one at the export path
  stamp,       \* date_time of the entries of tmp
  carried,     \* the bundle as its keeper has it
  original,    \* history: the bundle as it was exported
  resealed,    \* history: somebody has put new checksums into carried
  changes,     \* how often carried was changed
  inserted,    \* documents inserted so far
  result       \* how the last import ended, None when something came after it

vars == <<collection, tmp, file, stamp, carried, original, resealed, changes, inserted, result>>
export == <<tmp, file, stamp>>
outside == <<carried, original, resealed, changes>>

Created(schema, dim) == [rows |-> <<>>, index |-> None, dim |-> dim, schema |-> schema]

Init ==
  /\ \E schema \in Schemas : collection = Created(schema, None)
  /\ tmp = None /\ file = None /\ stamp = None /\ carried = None /\ original = None
  /\ resealed = FALSE /\ changes = 0 /\ inserted = 0 /\ result = None

-----------------------------------------------------------------------------
(* The collection's other operations, whole. *)

\* Where a row with this label is, as get_by_row_ids finds it.
Labelled(rows, label) == {i \in DOMAIN rows : rows[i].row_id = label}

\* next_row_id: one more than the greatest.
NextRowId(rows) ==
  IF rows = <<>> THEN 0
  ELSE CHOOSE n \in {rows[i].row_id + 1 : i \in DOMAIN rows} :
         \A i \in DOMAIN rows : rows[i].row_id < n

\* Insert a document and flush: the index is built in row_id order, which is the
\* order in which rows are numbered.
InsertFlush(doc, dim, text) ==
  LET rows == Append(collection.rows,
                [row_id |-> NextRowId(collection.rows), doc |-> doc, dim |-> dim, text |-> text])
  IN /\ tmp = None /\ inserted < MaxInserts /\ inserted' = inserted + 1
     /\ collection.dim \in {None, dim}
     /\ \A i \in DOMAIN collection.rows : collection.rows[i].doc # doc
     /\ collection' = [collection EXCEPT !.rows = rows, !.dim = dim,
                                         !.index = [dim |-> dim, built |-> rows]]
     /\ result' = None /\ UNCHANGED <<export, outside>>

Purge ==
  /\ tmp = None
  /\ collection' = Created(collection.schema, collection.dim)
  /\ file' = None /\ result' = None
  /\ UNCHANGED <<tmp, stamp, inserted, outside>>

\* Dropped and created again, perhaps with a dim.
Recreate(schema, dim) ==
  /\ tmp = None
  /\ collection' = Created(schema, dim)
  /\ file' = None /\ result' = None
  /\ UNCHANGED <<tmp, stamp, inserted, outside>>

-----------------------------------------------------------------------------
(* Export. *)

\* Mutant: the date is not clamped.
WallClockYear(year) == year

\* _zip_safe_date_time: the DOS date of a ZIP entry counts years from 1980 to 2107.
ZipSafeYear(year) == IF year < 1980 THEN 1980 ELSE IF year > 2107 THEN 2107 ELSE year

Manifest(c) ==
  [format |-> "v1", name |-> "own", dim |-> c.dim, total |-> Len(c.rows),
   schema_checksum |-> c.schema, fields |-> c.schema,
   index_checksum |-> c.index, scalar_checksum |-> c.rows,
   label_strategy |-> "implicit_sequential"]

\* dense are the members that compress past the limit, huge says that all
\* together are past theirs.
Packed(c, dense) ==
  [zip |-> TRUE, members |-> Members, dense |-> dense, huge |-> FALSE,
   manifest |-> Manifest(c), index |-> c.index, lines |-> c.rows]

\* Repetitive texts may compress past the limit, and so may the index of repetitive vectors.
MayBeDense(rows) ==
  IF \E i \in DOMAIN rows : rows[i].text = "repetitive"
  THEN SUBSET {"scalar.jsonl", "index.hypervec"} ELSE {{}}

\* create_bundle fills a temporary file, once the export has found index, rows and
\* dim to agree.  One bundle is followed: after its delivery there is no other export.
Export(clock, dense) ==
  /\ original = None /\ tmp = None /\ collection.index # None
  /\ Len(collection.index.built) = Len(collection.rows)
  /\ collection.index.dim = collection.dim
  /\ dense \in MayBeDense(collection.rows)
  /\ tmp' = Packed(collection, dense) /\ stamp' = ZipSafeYear(clock)
  /\ result' = None /\ UNCHANGED <<collection, file, inserted, outside>>

Publish ==
  /\ tmp # None /\ file' = tmp /\ tmp' = None /\ stamp' = None
  /\ UNCHANGED <<collection, inserted, outside, result>>

\* Any exception removes the temporary file, and the export the published one too.
ExportFails ==
  /\ tmp # None /\ tmp' = None /\ file' = None /\ stamp' = None
  /\ UNCHANGED <<collection, inserted, outside, result>>

\* The download hands the bundle over and unlinks it.
Deliver ==
  /\ tmp = None /\ file # None /\ file' = None
  /\ carried' = file /\ original' = file /\ resealed' = FALSE /\ changes' = 0
  /\ result' = None /\ UNCHANGED <<collection, tmp, stamp, inserted>>

-----------------------------------------------------------------------------
(* What may happen to a bundle outside. *)

\* A row as a tool or a slip may rewrite it.
Rewritten(row) ==
  {[row EXCEPT !.row_id = id] : id \in 0..MaxInserts \cup {TrueId, None}}
  \cup {[row EXCEPT !.dim = dim] : dim \in Dims \cup {None}}
  \cup {[row EXCEPT !.doc = doc] : doc \in Docs \cup {None}}

Lengthened(lines) ==
  {SubSeq(lines, 1, Len(lines) - 1), SubSeq(lines, 2, Len(lines))}
  \cup {Append(lines, lines[i]) : i \in DOMAIN lines}

LinesFrom(lines) ==
  Lengthened(lines) \cup UNION {{[lines EXCEPT ![i] = row] : row \in Rewritten(lines[i])} : i \in DOMAIN lines}

ManifestsFrom(m) ==
  {[m EXCEPT !.format = "v2"], [m EXCEPT !.name = "other"],
   [m EXCEPT !.label_strategy = None], [m EXCEPT !.label_strategy = "explicit"],
   [m EXCEPT !.index_checksum = None], [m EXCEPT !.scalar_checksum = None],
   [m EXCEPT !.schema_checksum = None], [m EXCEPT !.fields = None], [m EXCEPT !.total = None]}
  \cup {[m EXCEPT !.total = n] : n \in 0..MaxInserts}
  \cup {[m EXCEPT !.dim = dim] : dim \in Dims \cup {None}}
  \cup {[m EXCEPT !.schema_checksum = s, !.fields = s] : s \in Schemas}

\* One part is changed, or the rows with everything that has to agree with them.
ChangedFrom(b) ==
  {[b EXCEPT !.zip = FALSE], [b EXCEPT !.huge = TRUE]}
  \cup {[b EXCEPT !.members = m] : m \in {Members \ {x} : x \in Members} \cup {Members \cup {"other"}}}
  \cup {[b EXCEPT !.dense = {x}] : x \in Members}
  \cup {[b EXCEPT !.manifest = m] : m \in ManifestsFrom(b.manifest)}
  \cup {[b EXCEPT !.index.dim = dim] : dim \in Dims}
  \cup {[b EXCEPT !.index.built = rows] : rows \in Lengthened(b.index.built)}
  \cup {[b EXCEPT !.lines = lines] : lines \in LinesFrom(b.lines)}
  \cup {[b EXCEPT !.lines = lines, !.index.built = lines, !.manifest.total = Len(lines)] :
           lines \in LinesFrom(b.lines)}

Change(b) ==
  /\ carried # None /\ ~resealed /\ changes < MaxChanges /\ changes' = changes + 1
  /\ b \in ChangedFrom(carried) \ {carried} /\ carried' = b
  /\ result' = None /\ UNCHANGED <<collection, export, original, resealed, inserted>>

\* A hand-made bundle has, in the end, the checksums of what is in it.
Reseal ==
  /\ carried # None /\ changes > 0 /\ ~resealed /\ resealed' = TRUE
  /\ carried' = [carried EXCEPT !.manifest.index_checksum = carried.index,
                                !.manifest.scalar_checksum = carried.lines]
  /\ result' = None /\ UNCHANGED <<collection, export, original, changes, inserted>>

-----------------------------------------------------------------------------
(* Import: read_bundle ... *)

Unpacks(b) ==
  /\ b.zip /\ ~b.huge
  /\ b.members = Members /\ b.dense = {}

\* Mutant: the rows' checksum is not compared.
SealedIndex(b) ==
  /\ b.manifest.format = "v1"
  /\ None \notin {b.manifest.index_checksum, b.manifest.scalar_checksum, b.manifest.schema_checksum}
  /\ b.manifest.index_checksum = b.index

Sealed(b) == SealedIndex(b) /\ b.manifest.scalar_checksum = b.lines

\* splitlines() cuts a line with a separator into two, and json.loads fails.
Parses(b) == \A i \in DOMAIN b.lines : b.lines[i].text # "separator"

IsInt(id) == id # None /\ id # TrueId

\* Mutant: one row id past the end is let through.
CoversMore(rows) ==
  LET seen == {rows[i].row_id : i \in DOMAIN rows}
  IN Cardinality(seen) = Len(rows) /\ seen \subseteq 0..Len(rows)

\* Mutant: labels counted from one.
CoversFromOne(rows) == {rows[i].row_id : i \in DOMAIN rows} = 1..Len(rows)

\* The ids seen, each once, are 0..total-1.
Covers(rows) ==
  /\ \A i, j \in DOMAIN rows : rows[i].row_id = rows[j].row_id => i = j
  /\ {rows[i].row_id : i \in DOMAIN rows} = 0..(Len(rows) - 1)

\* Two dims are compared when both are there.
SameDim(d, e) == None \in {d, e} \/ d = e

\* validate_index_label_mapping; a manifest's dim and label_strategy may be absent.
LabelsMap(b) ==
  /\ b.manifest.label_strategy \in {None, "implicit_sequential"}
  /\ b.manifest.total = Len(b.lines)
  /\ \A i \in DOMAIN b.lines :
       /\ IsInt(b.lines[i].row_id)
       /\ SameDim(b.lines[i].dim, b.manifest.dim)
  /\ Covers(b.lines)

Readable(b) == Unpacks(b) /\ Sealed(b) /\ Parses(b) /\ LabelsMap(b)

(* ... and what the engine asks of it. *)

Fits(b, c) ==
  /\ b.manifest.name = "own"
  /\ SameDim(c.dim, b.manifest.dim)
  /\ b.manifest.schema_checksum = c.schema
  /\ b.manifest.fields \in {None, c.schema}

IndexAgrees(b) ==
  /\ b.manifest.dim \in {None, b.index.dim}
  /\ Len(b.index.built) = b.manifest.total

\* import_rows_to_staging needs doc_id and vector, and doc_id is UNIQUE.
Stageable(rows) ==
  /\ \A i \in DOMAIN rows : rows[i].doc # None /\ rows[i].dim # None
  /\ \A i, j \in DOMAIN rows : rows[i].doc = rows[j].doc => i = j

\* The class of exception: ValueError, ConflictError, or one of Python's or SQLite's.
Outcome(b, c, checksum) ==
  IF checksum \notin {None, b} \/ ~Readable(b) THEN "invalid"
  ELSE IF ~Fits(b, c) \/ ~IndexAgrees(b) THEN "conflict"
  ELSE IF ~Stageable(b.lines) THEN "error" ELSE "imported"

\* With the checksum that came with the download, or with none.
Import(checksum) ==
  /\ tmp = None /\ carried # None /\ checksum \in {None, original}
  /\ result' = Outcome(carried, collection, checksum)
  /\ collection' = IF result' # "imported" THEN collection
                   ELSE [collection EXCEPT !.rows = carried.lines, !.index = carried.index,
                           !.dim = IF carried.manifest.dim = None THEN @ ELSE carried.manifest.dim]
  /\ UNCHANGED <<export, inserted, outside>>

-----------------------------------------------------------------------------
Next ==
  \/ \E doc \in Docs, dim \in Dims, text \in Texts : InsertFlush(doc, dim, text)
  \/ \E schema \in Schemas, dim \in Dims \cup {None} : Recreate(schema, dim)
  \/ \E clock \in Years, dense \in SUBSET Members : Export(clock, dense)
  \/ Purge \/ Publish \/ ExportFails \/ Deliver \/ Reseal
  \/ carried # None /\ \E b \in ChangedFrom(carried) : Change(b)
  \/ \E checksum \in {None, original} : Import(checksum)

Spec == Init /\ [][Next]_vars

-----------------------------------------------------------------------------
(* Properties. *)

\* An export has let go of its temporary file when it ends, and every date in a
\* bundle is one that a ZIP entry can hold, whatever the server's clock says: with
\* another, the export would fail with struct.error.
TypeOK ==
  /\ collection.dim \in Dims \cup {None} /\ collection.schema \in Schemas
  /\ resealed \in BOOLEAN /\ changes \in 0..MaxChanges
  /\ result \in {None, "imported", "invalid", "conflict", "error"}
  /\ stamp # None <=> tmp # None
  /\ stamp # None => stamp \in 1980..2107

\* Whatever an import accepts, even a bundle that was put together by hand: every
\* label of the index then finds exactly one row, and there are no others.
LabelsResolve ==
  collection.index # None =>
    /\ Len(collection.index.built) = Len(collection.rows)
    /\ \A label \in 0..(Len(collection.index.built) - 1) :
         \E i \in DOMAIN collection.rows : Labelled(collection.rows, label) = {i}

\* Damage is noticed: unless somebody has put new checksums in, an import that goes
\* through restores the rows and the index that were exported, with no checksum
\* from the caller too.
OnlyExportedContent ==
  result = "imported" /\ ~resealed =>
    collection.rows = original.lines /\ collection.index = original.index

Untouched == carried # None /\ carried = original /\ Fits(original, collection)

\* A bundle that comes back untouched, to a collection of the same schema and dim,
\* restores it, whatever the collection has been through since the export: of
\* texts that hold no line separator and do not compress past the limit.
OwnPlainBundleRestores ==
  /\ result # None /\ Untouched /\ Parses(original) /\ original.dense = {}
  => result = "imported"

\* The same for every text: what the client's download promises for the time after
\* a purge.
OwnBundleRestores == result # None /\ Untouched => result = "imported"

=============================================================================
