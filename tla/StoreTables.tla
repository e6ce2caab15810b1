---------------------------- MODULE StoreTables ----------------------------
(***************************************************************************)
(* What the scalar store promises the engine: a collection's table changes *)
(* in one step, by a whole insert with the row ids that follow, by a whole *)
(* bundle or by a purge, always as it is committed, and no change of one   *)
(* collection touches another.  A connection reads all collections at one  *)
(* instant: now, or when the transaction it was left in took a snapshot.   *)
(* ScalarStore implements it with tables that are written row by row,      *)
(* staging tables and renames, on connections that fail and crash.         *)
(***************************************************************************)
EXTENDS Integers, Sequences, FiniteSets

CONSTANTS
  Threads, Names, Batches, None,
  MaxVersion  \* bound

VARIABLES
  tables,   \* the rows of each collection, None when it has no table
  bundles,  \* the rows in its last bundle
  snapshot  \* the tables as a transaction reads them, None outside of one

vars == <<tables, bundles, snapshot>>

Init ==
  /\ tables = [n \in Names |-> None] /\ bundles = [n \in Names |-> None]
  /\ snapshot = [t \in Threads |-> None]

Sees(t) == IF snapshot[t] = None THEN tables ELSE snapshot[t]

Reads(t) == snapshot' \in {snapshot, [snapshot EXCEPT ![t] = Sees(t)]}
Ends(t)  == snapshot' = [snapshot EXCEPT ![t] = None]

\* SELECTs, a handler that fails, and a transaction that has nothing to commit.
Look(t) == (Reads(t) \/ Ends(t)) /\ UNCHANGED <<tables, bundles>>

\* A connection that changes a table does not go on with an older snapshot.
Put(t, n, rows) ==
  tables' = [tables EXCEPT ![n] = rows] /\ Ends(t) /\ UNCHANGED bundles

Create(t, n) == tables[n] = None /\ Put(t, n, {})

Numbered(n, rows, batch, version) ==
  {[of |-> n, id |-> Cardinality(rows) + i - 1, doc |-> batch[i],
    version |-> version, batch |-> batch] : i \in DOMAIN batch}

\* All of a batch of new documents, numbered from the rows there are.
Insert(t, n, batch) ==
  /\ tables[n] # None
  /\ \A i \in DOMAIN batch :
       /\ \A r \in tables[n] : r.doc # batch[i]
       /\ \A j \in DOMAIN batch : batch[i] = batch[j] => i = j
  /\ \E version \in 1..MaxVersion :
       /\ \A r \in tables[n] : r.version < version
       /\ Put(t, n, tables[n] \cup Numbered(n, tables[n], batch, version))

Export(t, n) ==
  /\ bundles' = [bundles EXCEPT ![n] = IF Sees(t)[n] = None THEN {} ELSE Sees(t)[n]]
  /\ Reads(t) /\ UNCHANGED tables

\* Whether the collection has a table or not.
Import(t, n) == bundles[n] # None /\ Put(t, n, bundles[n])

Purge(t, n) == bundles[n] # None /\ Put(t, n, None)

Restart == snapshot' = [t \in Threads |-> None] /\ UNCHANGED <<tables, bundles>>

Next ==
  \/ \E t \in Threads :
       \/ Look(t)
       \/ \E n \in Names :
            \/ Create(t, n) \/ Export(t, n) \/ Import(t, n) \/ Purge(t, n)
            \/ \E batch \in Batches : Insert(t, n, batch)
  \/ Restart

Spec == Init /\ [][Next]_vars

=============================================================================
