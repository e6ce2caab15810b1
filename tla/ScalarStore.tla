---------------------------- MODULE ScalarStore ----------------------------
(***************************************************************************)
(* src/src/python/hypervec_scalar_store.py under its threads: one SQLite   *)
(* file in WAL mode, one connection per thread, and the engine's handlers  *)
(* that insert, flush, export, import and purge, each under its own        *)
(* collection's lock only.  Handlers of different collections compete for  *)
(* SQLite's one write lock.                                                *)
(*                                                                         *)
(* sqlite3 opens a transaction before the first INSERT and nothing ends it *)
(* but commit() or rollback().  insert_batch rolls back after an           *)
(* IntegrityError only, so a connection can be left in a transaction: its  *)
(* next SELECT takes a snapshot, and later ones read that snapshot.        *)
(***************************************************************************)
EXTENDS Integers, Sequences, FiniteSets

CONSTANTS
  Threads,     \* server threads, each with its connection
  Names,       \* collection names, sequences of parts
  Docs, Batches,  \* document ids; what an insert may bring, sequences of them
  Unbindable,  \* documents sqlite3 cannot bind (a lone surrogate, say)
  None,        \* no such table, file, snapshot, thread or version
  MaxVersion, MaxCrashes  \* bounds

\* '-' and every other character that is not alphanumeric becomes '_', and SQLite
\* does not tell capitals apart.
Fold(part) == CASE part = "-" -> "_" [] part = "A" -> "a" [] OTHER -> part

Live(n) == [i \in DOMAIN n |-> Fold(n[i])]

\* Mutant: all collections stage their imports in one table.
StagingShared(n) == <<"__import">>

Staging(n) == Append(Live(n), "__import")

\* A part is a character or the word "__import".  Nothing in the server keeps clashing
\* names apart: what is said below of whose rows are where assumes it of the names.
SeparateNames ==
  \A m, n \in Names :
    /\ Live(m) = Live(n) => m = n
    /\ Staging(m) = Staging(n) => m = n
    /\ Live(m) # Staging(n)

ASSUME StoreAssumption ==
  /\ MaxVersion \in Nat /\ MaxCrashes \in Nat /\ None \notin Nat \cup Threads
  /\ \A b \in Batches : b \in Seq(Docs) /\ b # <<>>

VARIABLES
  db,       \* the committed tables
  open,     \* connections in a transaction
  view,     \* the snapshot, or the working copy, of a transaction that has one
  stale,    \* connections whose snapshot has been overtaken by a commit
  writer,   \* the connection that has the write lock
  at, job,  \* where each thread is, and what it works on
  meta,     \* the collections' records and index files
  bundle,   \* the rows in the last bundle of each collection
  crashes

connections == <<open, view, stale, writer>>
vars == <<db, connections, at, job, meta, bundle, crashes>>

Tables == {Live(n) : n \in Names} \cup {Staging(n) : n \in Names}

RowsIn(d, table) == IF d[table] = None THEN {} ELSE d[table]

FreshMeta ==
  [version |-> 0, index |-> 0, file |-> None, total |-> 0,
   exported |-> None, importing |-> FALSE, purged |-> FALSE]

Init ==
  /\ db = [table \in Tables |-> None]
  /\ open = {} /\ view = [t \in Threads |-> None] /\ stale = {} /\ writer = None
  /\ at = [t \in Threads |-> "idle"] /\ job = [t \in Threads |-> None]
  /\ meta = [n \in Names |-> FreshMeta] /\ bundle = [n \in Names |-> None]
  /\ crashes = 0

-----------------------------------------------------------------------------
(* A connection. *)

Seen(t) == IF view[t] = None THEN db ELSE view[t]

\* A SELECT inside a transaction fixes its snapshot.
Reads(t) ==
  /\ view' = [view EXCEPT ![t] = IF t \in open THEN Seen(t) ELSE None]
  /\ UNCHANGED <<db, open, stale, writer>>

\* Otherwise "database is locked": after the busy timeout when another connection
\* writes, at once when the snapshot is old.
CanWrite(t) == writer \in {None, t} /\ t \notin stale

Write(t, d) ==
  /\ open' = open \cup {t} /\ view' = [view EXCEPT ![t] = d] /\ writer' = t
  /\ UNCHANGED <<db, stale>>

\* The transaction, or the statement outside of one, ends with the tables d.
Publish(t, d) ==
  /\ db' = d
  /\ open' = open \ {t} /\ view' = [view EXCEPT ![t] = None]
  /\ stale' = IF d = db THEN stale \ {t} ELSE {u \in Threads \ {t} : view[u] # None}
  /\ writer' = IF writer = t THEN None ELSE writer

\* commit(), rollback().
Commit(t)   == Publish(t, IF writer = t THEN Seen(t) ELSE db)
Rollback(t) == Publish(t, db)

\* One DDL statement and commit(); a statement with nothing to do takes no lock.
Execute(t, table, rows) ==
  LET d == [Seen(t) EXCEPT ![table] = rows]
  IN  IF d = Seen(t) THEN Commit(t) ELSE CanWrite(t) /\ Publish(t, d)

Locked(t, table, rows) == Seen(t)[table] # rows /\ ~CanWrite(t)

\* BEGIN has been executed, the first INSERT has not.
LeftOpen(t) == open' = open \cup {t} /\ UNCHANGED <<db, view, stale, writer>>

Goto(t, here, there) ==
  /\ at[t] = here /\ at' = [at EXCEPT ![t] = there]
  /\ job' = [job EXCEPT ![t] = IF there = "idle" THEN None ELSE @]

Idle(n) == {t \in Threads : at[t] # "idle" /\ job[t].name = n} = {}

Call(t, n, there, rows) ==
  /\ Idle(n) /\ at[t] = "idle" /\ at' = [at EXCEPT ![t] = there]
  /\ job' = [job EXCEPT ![t] = [name |-> n, rows |-> rows]]

\* A handler of one step.
At(t, n) == at[t] = "idle" /\ Idle(n) /\ UNCHANGED <<at, job>>

Name(t) == job[t].name

-----------------------------------------------------------------------------
(* insert: ensure_table, next_row_id, the version bump, insert_batch, count. *)

\* MAX(row_id) + 1.
NextId(rows) ==
  CHOOSE i \in {0} \cup {r.id + 1 : r \in rows} : \A r \in rows : r.id < i

\* of and version say which insert brought the row (history), batch what came with it.
NewRows(n, batch) ==
  [i \in DOMAIN batch |->
     [of |-> n, id |-> NextId(RowsIn(db', Live(n))) + i - 1, doc |-> batch[i],
      version |-> meta[n].version + 1, batch |-> batch]]

Bindable(batch) == \A i \in DOMAIN batch : batch[i] \notin Unbindable

\* Mutant: the data version is not moved before the rows come.
CallInsertNoBump(t, n, batch) ==
  /\ meta[n].version < MaxVersion
  /\ LET table == Seen(t)[Live(n)] IN Execute(t, Live(n), IF table = None THEN {} ELSE table)
  /\ Call(t, n, "insert", NewRows(n, batch))
  /\ UNCHANGED <<meta, bundle, crashes>>

CallInsert(t, n, batch) ==
  /\ meta[n].version < MaxVersion
  /\ LET table == Seen(t)[Live(n)] IN Execute(t, Live(n), IF table = None THEN {} ELSE table)
  /\ Call(t, n, "insert", NewRows(n, batch))
  /\ meta' = [meta EXCEPT ![n].version = @ + 1]
  /\ UNCHANGED <<bundle, crashes>>

FirstRows(rows, k) == {rows[i] : i \in DOMAIN rows \cap 1..k}

\* Both row_id and doc_id are unique in a table.
Clash(r, s) == r.id = s.id \/ r.doc = s.doc

\* The first row that cannot be stored, Len(rows) + 1 when all can.
Stopper(rows, table) ==
  CHOOSE k \in 1..(Len(rows) + 1) :
    /\ k <= Len(rows) =>
         \/ rows[k].doc \in Unbindable
         \/ \E r \in table \cup FirstRows(rows, k - 1) : Clash(r, rows[k])
    /\ \A j \in 1..(k - 1) :
         /\ rows[j].doc \notin Unbindable
         /\ \A r \in table \cup FirstRows(rows, j - 1) : ~Clash(r, rows[j])

With(d, table, rows) == [d EXCEPT ![table] = RowsIn(d, table) \cup rows]

\* Mutant: a duplicate is not rolled back.
StoreRowsNoRollback(t, live, rows) ==
  LET k == Stopper(rows, RowsIn(Seen(t), live))
  IN  /\ Goto(t, "insert", IF k > Len(rows) THEN "commit" ELSE "idle")
      /\ Write(t, With(Seen(t), live, FirstRows(rows, k - 1)))

StoreRows(t, live, rows) ==
  LET k      == Stopper(rows, RowsIn(Seen(t), live))
      stored == With(Seen(t), live, FirstRows(rows, k - 1))
  IN  \/ /\ k > Len(rows)
         /\ Goto(t, "insert", "commit") /\ Write(t, stored)
      \/ /\ k <= Len(rows) /\ rows[k].doc \notin Unbindable
         /\ Goto(t, "insert", "idle") /\ Rollback(t)
      \/ /\ k <= Len(rows) /\ rows[k].doc \in Unbindable
         /\ Goto(t, "insert", "idle")
         /\ IF k = 1 THEN LeftOpen(t) ELSE Write(t, stored)

InsertRows(t) ==
  /\ at[t] = "insert"
  /\ LET live == Live(Name(t))
     IN  \/ /\ Seen(t)[live] = None                     \* no such table
            /\ Goto(t, "insert", "idle") /\ UNCHANGED <<db, connections>>
         \/ /\ Seen(t)[live] # None /\ ~CanWrite(t)
            /\ Goto(t, "insert", "idle") /\ LeftOpen(t)
         \/ /\ Seen(t)[live] # None /\ CanWrite(t)
            /\ StoreRows(t, live, job[t].rows)
  /\ UNCHANGED <<meta, bundle, crashes>>

InsertCommit(t) ==
  /\ Goto(t, "commit", "idle") /\ Commit(t)
  /\ meta' = [meta EXCEPT ![Name(t)].total = Cardinality(RowsIn(db', Live(Name(t))))]
  /\ UNCHANGED <<bundle, crashes>>

-----------------------------------------------------------------------------
(* Handlers that only read rows. *)

\* get_by_row_ids, load_all_scalars, count, has_staging.
Search(t, n) == At(t, n) /\ Reads(t) /\ UNCHANGED <<meta, bundle, crashes>>

\* get_vectors, and an index over what it returns.
Flush(t, n) ==
  LET rows == RowsIn(Seen(t), Live(n))
  IN  /\ At(t, n) /\ Reads(t) /\ rows # {}
      /\ meta' = [meta EXCEPT ![n].index = meta[n].version, ![n].file = rows,
                              ![n].total = Cardinality(rows)]
      /\ UNCHANGED <<bundle, crashes>>

\* count and export_rows, of a fresh index that counts as many rows.
Export(t, n) ==
  LET rows == RowsIn(Seen(t), Live(n))
  IN  /\ At(t, n) /\ Reads(t)
      /\ ~meta[n].importing /\ ~meta[n].purged
      /\ meta[n].file # None /\ meta[n].index = meta[n].version
      /\ Cardinality(meta[n].file) = Cardinality(rows) /\ meta[n].total = Cardinality(rows)
      /\ bundle' = [bundle EXCEPT ![n] = rows]
      /\ meta' = [meta EXCEPT ![n].exported = meta[n].version]
      /\ UNCHANGED crashes

-----------------------------------------------------------------------------
(* purge with require_exported: the staging table, the table, VACUUM. *)

CallPurge(t, n) ==
  /\ meta[n].exported = meta[n].version /\ meta[n].version < MaxVersion
  /\ Call(t, n, "purge_staging", <<>>) /\ Reads(t)
  /\ meta' = [meta EXCEPT ![n].file = None]
  /\ UNCHANGED <<bundle, crashes>>

Drops(t, here, table, there) ==
  /\ \/ Goto(t, here, there) /\ Execute(t, table, None)
     \/ Goto(t, here, "idle") /\ Locked(t, table, None) /\ UNCHANGED <<db, connections>>
  /\ UNCHANGED <<meta, bundle, crashes>>

PurgeStaging(t) == Drops(t, "purge_staging", Staging(Name(t)), "purge_rows")
PurgeRows(t)    == Drops(t, "purge_rows", Live(Name(t)), "vacuum")

\* VACUUM rewrites the file, so every snapshot is an old one after it.
Vacuum(t) ==
  /\ Goto(t, "vacuum", "idle")
  /\ \/ /\ writer = None
        /\ stale' = {u \in Threads : view[u] # None}
        /\ meta' = [meta EXCEPT ![Name(t)] =
                      [FreshMeta EXCEPT !.version = meta[Name(t)].version + 1, !.purged = TRUE]]
     \/ writer # None /\ UNCHANGED <<stale, meta>>
  /\ UNCHANGED <<db, open, view, writer, bundle, crashes>>

-----------------------------------------------------------------------------
(* import: import_rows_to_staging, commit_staging; rollback_staging. *)

CallImport(t, n) ==
  /\ bundle[n] # None /\ meta[n].version < MaxVersion
  /\ Call(t, n, "stage", bundle[n])
  /\ UNCHANGED <<db, connections, meta, bundle, crashes>>

\* DROP and CREATE: at once, or as a part of a transaction left open.
StageTable(t) ==
  LET d == [Seen(t) EXCEPT ![Staging(Name(t))] = {}]
  IN  /\ \/ /\ CanWrite(t) /\ Goto(t, "stage", "stage_rows")
            /\ IF t \in open THEN Write(t, d) ELSE Publish(t, d)
         \/ /\ ~CanWrite(t) /\ Goto(t, "stage", "abort")
            /\ UNCHANGED <<db, connections>>
      /\ UNCHANGED <<meta, bundle, crashes>>

\* Where names clash, another import may have dropped the staging table, or filled it.
StageRows(t) ==
  LET staged  == Seen(t)[Staging(Name(t))]
      clashes == \E r \in RowsIn(Seen(t), Staging(Name(t))), s \in job[t].rows : Clash(r, s)
  IN  /\ at[t] = "stage_rows"
      /\ \/ /\ staged # None /\ CanWrite(t) /\ ~clashes /\ Goto(t, "stage_rows", "stage_commit")
            /\ Write(t, With(Seen(t), Staging(Name(t)), job[t].rows))
         \/ /\ staged # None /\ CanWrite(t) /\ clashes /\ Goto(t, "stage_rows", "abort")
            /\ Write(t, Seen(t))
         \/ staged # None /\ ~CanWrite(t) /\ Goto(t, "stage_rows", "abort") /\ LeftOpen(t)
         \/ staged = None /\ Goto(t, "stage_rows", "abort") /\ UNCHANGED <<db, connections>>
      /\ UNCHANGED <<meta, bundle, crashes>>

\* And the commit intent.
StageCommit(t) ==
  /\ Goto(t, "stage_commit", "switch") /\ Commit(t)
  /\ meta' = [meta EXCEPT ![Name(t)].importing = TRUE]
  /\ UNCHANGED <<bundle, crashes>>

Abort(t) == Drops(t, "abort", Staging(Name(t)), "idle")

\* Mutant: no BEGIN, so the DROP is committed on its own.
SwitchDropAlone(t) ==
  /\ CanWrite(t) /\ Goto(t, "switch", "rename")
  /\ Publish(t, [Seen(t) EXCEPT ![Live(Name(t))] = None])
  /\ UNCHANGED <<meta, bundle, crashes>>

\* BEGIN, DROP; no transaction is open before the BEGIN.
SwitchDrop(t) ==
  /\ \/ /\ CanWrite(t) /\ Goto(t, "switch", "rename")
        /\ Write(t, [Seen(t) EXCEPT ![Live(Name(t))] = None])
     \/ ~CanWrite(t) /\ Goto(t, "switch", "idle") /\ Rollback(t)
  /\ UNCHANGED <<meta, bundle, crashes>>

\* RENAME, COMMIT, and the record; ROLLBACK when there is nothing to rename.
SwitchRename(t) ==
  LET n == Name(t)
      d == Seen(t)
  IN  /\ Goto(t, "rename", "idle")
      /\ \/ /\ d[Staging(n)] # None
            /\ Publish(t, [d EXCEPT ![Live(n)] = d[Staging(n)], ![Staging(n)] = None])
            /\ meta' = [meta EXCEPT ![n] =
                  [FreshMeta EXCEPT !.version = meta[n].version + 1, !.index = meta[n].version + 1,
                     !.file = job[t].rows, !.total = Cardinality(job[t].rows),
                     !.exported = meta[n].exported]]
         \/ d[Staging(n)] = None /\ Rollback(t) /\ UNCHANGED meta
      /\ UNCHANGED <<bundle, crashes>>

-----------------------------------------------------------------------------

\* A crash loses every transaction; recovery rolls back the imports left pending.
Restart ==
  /\ crashes < MaxCrashes /\ crashes' = crashes + 1
  /\ db' = [table \in Tables |->
             IF \E n \in Names : table = Staging(n) /\ meta[n].importing THEN None ELSE db[table]]
  /\ meta' = [n \in Names |-> [meta[n] EXCEPT !.importing = FALSE]]
  /\ open' = {} /\ view' = [t \in Threads |-> None] /\ stale' = {} /\ writer' = None
  /\ at' = [t \in Threads |-> "idle"] /\ job' = [t \in Threads |-> None]
  /\ UNCHANGED bundle

Starts(t, n) ==
  \/ \E batch \in Batches : CallInsert(t, n, batch)
  \/ Search(t, n) \/ Flush(t, n) \/ Export(t, n) \/ CallPurge(t, n) \/ CallImport(t, n)

Continues(t) ==
  \/ InsertRows(t) \/ InsertCommit(t)
  \/ PurgeStaging(t) \/ PurgeRows(t) \/ Vacuum(t)
  \/ StageTable(t) \/ StageRows(t) \/ StageCommit(t) \/ Abort(t)
  \/ SwitchDrop(t) \/ SwitchRename(t)

Next ==
  \/ \E t \in Threads : Continues(t) \/ \E n \in Names : Starts(t, n)
  \/ Restart

Spec == Init /\ [][Next]_vars

-----------------------------------------------------------------------------
(* Properties. *)

\* One connection writes at a time, from the newest snapshot, and only a connection
\* in a transaction has a snapshot; and no row is newer than its collection's record, so
\* that a crash between the two never leaves rows that an older index or export passes for.
TypeOK ==
  /\ \A table \in Tables : \A r \in RowsIn(db, table) :
       r.of \in Names /\ r.version \in 1..meta[r.of].version
  /\ \A t \in Threads : view[t] # None => t \in open
  /\ stale \subseteq {t \in open : view[t] # None}
  /\ writer # None => view[writer] # None /\ writer \notin stale

\* The tables of a collection hold its own rows only, for collections whose names
\* do not clash, however their handlers interleave in one file.
OwnRowsOnly ==
  \A n \in Names : \A table \in {Live(n), Staging(n)} :
    \A r \in RowsIn(db, table) : r.of = n

\* Of the documents of one insert all are in the table or none: a duplicate, a locked
\* database or a crash leaves no part of it behind, whichever names clash.  Only a batch
\* with a document that cannot be bound may be stored in part.
WholeInsertsOnly ==
  \A table \in Tables : \A r \in RowsIn(db, table) :
    Bindable(r.batch) =>
      \A i \in DOMAIN r.batch : \E s \in RowsIn(db, table) :
        s.of = r.of /\ s.version = r.version /\ s.doc = r.batch[i]

\* Nobody finds a collection without its table while an import swaps it, and a crash in
\* the swap leaves the old one: of purge and import, only a purge drops a table.
\* (drop_collection, which drops it as purge does, is not in this module.)
TableStays ==
  [][\A n \in Names :
       (db[Live(n)] # None /\ db'[Live(n)] = None) => \E t \in Threads : at[t] = "purge_rows"]_vars

\* No handler that has ended keeps SQLite's write lock, which every other collection's
\* handlers need, unless it was an insert that stopped at a document that cannot be
\* bound: its first rows wait in the connection for the next commit.
NoIdleWriter ==
  writer # None /\ at[writer] = "idle" =>
    \E table \in Tables : \E r \in RowsIn(view[writer], table) : ~Bindable(r.batch)

\* The tables that a transaction reads; one that writes reads on in a copy of its own.
Snapshot(t) ==
  IF view[t] = None \/ writer = t THEN None ELSE [n \in Names |-> view[t][Live(n)]]

Promised ==
  INSTANCE StoreTables WITH
    tables <- [n \in Names |-> db[Live(n)]], bundles <- bundle,
    snapshot <- [t \in Threads |-> Snapshot(t)]

\* Rows stored one by one, staging tables, renames and transactions left open amount
\* to whole inserts, imports and purges on the tables as committed, and to reads of
\* all collections at one instant: no insert is lost to a connection that still reads
\* an older snapshot, and none takes part of another collection along.
ImplementsTables == Promised!Spec

\* What docs/collection_bundle.md says of require_exported: rows inserted after the
\* export are not purged.
PurgeDropsOnlyExported ==
  \A t \in Threads :
    at[t] = "purge_rows" => RowsIn(db, Live(Name(t))) \subseteq bundle[Name(t)]

=============================================================================
