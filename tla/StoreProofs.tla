---------------------------- MODULE StoreProofs ----------------------------
(***************************************************************************)
(* Proofs about ScalarStore for any threads, documents and batches.        *)
(*                                                                         *)
(* Whatever the names and whatever cannot be bound: connections write one  *)
(* at a time, rows follow their record, inserts are stored whole but for   *)
(* batches that cannot be bound, and only such a batch keeps the write     *)
(* lock in an idle thread.  Collections whose names do not clash keep      *)
(* their rows apart.  If, besides, every document can be bound, row ids    *)
(* are 0, 1, 2 and so on, only a purge drops a table, and the store        *)
(* implements StoreTables.                                                 *)
(***************************************************************************)
EXTENDS ScalarStore, FiniteSetTheorems, SequenceTheorems, TLAPS

Row == [of : Names, id : Nat, doc : Docs, version : Nat, batch : Batches]

\* None is no set of rows, holds no row and is not the contents of the tables.  (TLC cannot ask
\* this of the model value it has for None, which is equal to nothing else.)
NoneIsNoData ==
  /\ None \notin SUBSET Row /\ \A r \in None : r.of \notin Names
  /\ \A d : DOMAIN d \in {Tables, Names} => d # None

StagingPlaces == {"stage", "stage_rows", "stage_commit", "switch", "rename", "abort"}

-----------------------------------------------------------------------------
(* Rows stay with their collection. *)

TablesOf(n) == {Live(n), Staging(n)}

RowsOf(n, rows) == rows = None \/ \A r \in rows : r.of = n

Owned(d) ==
  DOMAIN d = Tables /\ \A n \in Names : \A table \in TablesOf(n) : RowsOf(n, d[table])

ConnInv == DOMAIN view = Threads /\ Owned(db) /\ \A t \in Threads : Owned(Seen(t))

JobInv ==
  /\ DOMAIN at = Threads /\ DOMAIN job = Threads
  /\ \A t \in Threads :
       /\ at[t] # "idle" => job[t].name \in Names
       /\ at[t] = "insert" => \A i \in DOMAIN job[t].rows : job[t].rows[i].of = job[t].name
       /\ at[t] \in StagingPlaces => \A r \in job[t].rows : r.of = job[t].name

BundleInv == DOMAIN bundle = Names /\ \A n \in Names : RowsOf(n, bundle[n])

OwnInv == ConnInv /\ JobInv /\ BundleInv

\* Where names do not clash a table has one collection.
LEMMA OneOwner ==
  ASSUME SeparateNames, NEW m \in Names, NEW n \in Names,
         NEW table \in TablesOf(m), table \in TablesOf(n)
  PROVE  m = n
BY DEF SeparateNames, TablesOf

LEMMA OwnedExcept ==
  ASSUME SeparateNames, NEW d, Owned(d), NEW n \in Names, NEW table \in TablesOf(n),
         NEW rows, RowsOf(n, rows)
  PROVE  Owned([d EXCEPT ![table] = rows])
<1>1. table \in Tables
  BY DEF TablesOf, Tables
<1>2. ASSUME NEW m \in Names, NEW other \in TablesOf(m)
      PROVE  RowsOf(m, [d EXCEPT ![table] = rows][other])
  <2>1. other \in Tables
    BY DEF TablesOf, Tables
  <2>2. CASE other = table
    BY <1>1, <2>2, OneOwner DEF Owned
  <2>3. CASE other # table
    BY <2>1, <2>3 DEF Owned
  <2>4. QED
    BY <2>2, <2>3
<1>3. QED
  BY <1>2 DEF Owned

LEMMA OwnedWith ==
  ASSUME SeparateNames, NEW d, Owned(d), NEW n \in Names, NEW table \in TablesOf(n),
         NEW rows, \A r \in rows : r.of = n
  PROVE  Owned(With(d, table, rows))
<1>1. RowsOf(n, RowsIn(d, table) \cup rows)
  BY DEF Owned, RowsOf, RowsIn
<1>2. QED
  BY <1>1, OwnedExcept DEF With

LEMMA PublishOwned ==
  ASSUME ConnInv, NEW t \in Threads, NEW d, Owned(d), Publish(t, d) PROVE ConnInv'
<1>1. db' = d /\ view' = [view EXCEPT ![t] = None]
  BY DEF Publish
<1>2. ASSUME NEW u \in Threads PROVE Owned(Seen(u)')
  BY <1>1 DEF ConnInv, Seen
<1>3. QED
  BY <1>1, <1>2 DEF ConnInv

LEMMA WriteOwned ==
  ASSUME ConnInv, NEW t \in Threads, NEW d, Owned(d), Write(t, d) PROVE ConnInv'
<1>1. db' = db /\ view' = [view EXCEPT ![t] = d]
  BY DEF Write
<1>2. ASSUME NEW u \in Threads PROVE Owned(Seen(u)')
  BY <1>1 DEF ConnInv, Seen
<1>3. QED
  BY <1>1, <1>2 DEF ConnInv

LEMMA ReadsOwned == ASSUME ConnInv, NEW t \in Threads, Reads(t) PROVE ConnInv'
<1>1. db' = db /\ view' = [view EXCEPT ![t] = IF t \in open THEN Seen(t) ELSE None]
  BY DEF Reads
<1>2. ASSUME NEW u \in Threads PROVE Owned(Seen(u)')
  BY <1>1 DEF ConnInv, Seen
<1>3. QED
  BY <1>1, <1>2 DEF ConnInv

LEMMA SameOwned == ASSUME ConnInv, UNCHANGED <<db, view>> PROVE ConnInv'
BY DEF ConnInv, Owned, Seen

LEMMA CommitOwned ==
  ASSUME ConnInv, NEW t \in Threads, Commit(t) \/ Rollback(t) PROVE ConnInv'
<1>1. Owned(IF writer = t THEN Seen(t) ELSE db)
  BY DEF ConnInv
<1>2. QED
  BY <1>1, PublishOwned DEF ConnInv, Commit, Rollback

LEMMA ExecuteOwned ==
  ASSUME SeparateNames, ConnInv, NEW t \in Threads, NEW n \in Names,
         NEW table \in TablesOf(n), NEW rows, RowsOf(n, rows), Execute(t, table, rows)
  PROVE  ConnInv'
<1>1. Owned([Seen(t) EXCEPT ![table] = rows])
  BY OwnedExcept DEF ConnInv
<1>2. Commit(t) \/ Publish(t, [Seen(t) EXCEPT ![table] = rows])
  BY DEF Execute
<1>3. QED
  BY <1>1, <1>2, CommitOwned, PublishOwned

-----------------------------------------------------------------------------
(* Each step keeps the rows apart. *)

\* A thread moves on within its handler, or ends it.
LEMMA GotoJob ==
  ASSUME JobInv, NEW t \in Threads, NEW here, NEW there, Goto(t, here, there),
         there # "insert",
         there \in StagingPlaces => here \in StagingPlaces,
         here # "idle"
  PROVE  JobInv'
<1>1. /\ at' = [at EXCEPT ![t] = there] /\ at[t] = here
      /\ job' = [job EXCEPT ![t] = IF there = "idle" THEN None ELSE @]
  BY DEF Goto
<1>2. ASSUME NEW u \in Threads, u # t PROVE at'[u] = at[u] /\ job'[u] = job[u]
  BY <1>1, <1>2 DEF JobInv
<1>3. at'[t] = there /\ (there # "idle" => job'[t] = job[t])
  BY <1>1 DEF JobInv
<1>4. "idle" \notin StagingPlaces /\ "insert" \notin StagingPlaces
  BY DEF StagingPlaces
<1>5. QED
  BY <1>1, <1>2, <1>3, <1>4 DEF JobInv

LEMMA CallJob ==
  ASSUME JobInv, NEW t \in Threads, NEW n \in Names, NEW there, NEW rows,
         Call(t, n, there, rows),
         there = "insert" => \A i \in DOMAIN rows : rows[i].of = n,
         there \in StagingPlaces => \A r \in rows : r.of = n
  PROVE  JobInv'
<1>1. at' = [at EXCEPT ![t] = there] /\ job' = [job EXCEPT ![t] = [name |-> n, rows |-> rows]]
  BY DEF Call
<1>2. QED
  BY <1>1 DEF JobInv

LEMMA CallInsertOwned ==
  ASSUME SeparateNames, OwnInv, NEW t \in Threads, NEW n \in Names, NEW batch \in Batches,
         CallInsert(t, n, batch)
  PROVE  OwnInv'
<1> DEFINE table == Seen(t)[Live(n)]
           rows  == IF table = None THEN {} ELSE table
<1>1. RowsOf(n, rows)
  BY DEF OwnInv, ConnInv, Owned, TablesOf, RowsOf
<1>2. Execute(t, Live(n), rows) /\ Live(n) \in TablesOf(n)
  BY DEF CallInsert, TablesOf
<1>3. ConnInv'
  BY <1>1, <1>2, ExecuteOwned DEF OwnInv
<1>4. \A i \in DOMAIN NewRows(n, batch) : NewRows(n, batch)[i].of = n
  BY DEF NewRows
<1>5. Call(t, n, "insert", NewRows(n, batch)) /\ UNCHANGED bundle
  BY DEF CallInsert
<1>6. "insert" \notin StagingPlaces
  BY DEF StagingPlaces
<1>7. JobInv'
  BY <1>4, <1>5, <1>6, CallJob DEF OwnInv
<1>8. QED
  BY <1>3, <1>5, <1>7 DEF OwnInv, BundleInv

LEMMA InsertRowsOwned ==
  ASSUME SeparateNames, OwnInv, NEW t \in Threads, InsertRows(t) PROVE OwnInv'
<1> DEFINE n    == Name(t)
           rows == job[t].rows
           stored(k) == With(Seen(t), Live(n), FirstRows(rows, k - 1))
<1>1. at[t] = "insert" /\ n \in Names /\ \A i \in DOMAIN rows : rows[i].of = n
  BY DEF InsertRows, OwnInv, JobInv, Name
<1>2. ASSUME NEW k PROVE Owned(stored(k))
  <2>1. \A r \in FirstRows(rows, k - 1) : r.of = n
    BY <1>1 DEF FirstRows
  <2>2. QED
    BY <1>1, <2>1, OwnedWith DEF OwnInv, ConnInv, TablesOf
<1>3. \/ UNCHANGED <<db, connections>> \/ LeftOpen(t) \/ Rollback(t)
      \/ \E k : Write(t, stored(k))
  BY DEF InsertRows, StoreRows
<1>4. ConnInv'
  BY <1>2, <1>3, SameOwned, CommitOwned, WriteOwned DEF OwnInv, connections, LeftOpen
<1>5. Goto(t, "insert", "idle") \/ Goto(t, "insert", "commit")
  BY DEF InsertRows, StoreRows
<1>6. JobInv'
  BY <1>5, GotoJob DEF OwnInv, StagingPlaces
<1>7. QED
  BY <1>4, <1>6 DEF OwnInv, BundleInv, InsertRows

LEMMA ReadersOwned ==
  ASSUME SeparateNames, OwnInv, NEW t \in Threads, NEW n \in Names,
         Search(t, n) \/ Flush(t, n) \/ Export(t, n)
  PROVE  OwnInv'
<1>1. Reads(t) /\ UNCHANGED <<at, job>>
  BY DEF Search, Flush, Export, At
<1>2. ConnInv' /\ JobInv'
  BY <1>1, ReadsOwned DEF OwnInv, JobInv
<1>3. RowsOf(n, RowsIn(Seen(t), Live(n)))
  BY DEF OwnInv, ConnInv, Owned, TablesOf, RowsOf, RowsIn
<1>4. BundleInv'
  BY <1>3 DEF Search, Flush, Export, OwnInv, BundleInv
<1>5. QED
  BY <1>2, <1>4 DEF OwnInv

LEMMA DropsOwned ==
  ASSUME SeparateNames, OwnInv, NEW t \in Threads, NEW here, NEW there, NEW table,
         Name(t) \in Names => table \in TablesOf(Name(t)), here # "idle", there # "insert",
         there \notin StagingPlaces, Drops(t, here, table, there)
  PROVE  OwnInv'
<1>1. Goto(t, here, there) \/ Goto(t, here, "idle")
  BY DEF Drops
<1>2. Name(t) \in Names
  BY <1>1 DEF Goto, OwnInv, JobInv, Name
<1>3. Execute(t, table, None) \/ UNCHANGED <<db, connections>>
  BY DEF Drops
<1>4. ConnInv'
  BY <1>2, <1>3, ExecuteOwned, SameOwned DEF OwnInv, connections, RowsOf
<1>5. JobInv'
  BY <1>1, GotoJob DEF OwnInv, StagingPlaces
<1>6. QED
  BY <1>4, <1>5 DEF OwnInv, BundleInv, Drops

LEMMA PurgeOwned ==
  ASSUME SeparateNames, OwnInv, NEW t \in Threads,
         \/ \E n \in Names : CallPurge(t, n)
         \/ PurgeStaging(t) \/ PurgeRows(t) \/ Vacuum(t) \/ Abort(t)
  PROVE  OwnInv'
<1>1. CASE PurgeStaging(t) \/ PurgeRows(t) \/ Abort(t)
  BY <1>1, DropsOwned DEF PurgeStaging, PurgeRows, Abort, StagingPlaces, TablesOf
<1>2. CASE Vacuum(t)
  <2>1. ConnInv'
    BY <1>2, SameOwned DEF Vacuum, OwnInv
  <2>2. JobInv'
    BY <1>2, GotoJob DEF Vacuum, OwnInv, StagingPlaces
  <2>3. QED
    BY <1>2, <2>1, <2>2 DEF OwnInv, BundleInv, Vacuum
<1>3. ASSUME NEW n \in Names, CallPurge(t, n) PROVE OwnInv'
  <2>1. ConnInv'
    BY <1>3, ReadsOwned DEF CallPurge, OwnInv
  <2>2. JobInv'
    BY <1>3, CallJob DEF CallPurge, OwnInv, StagingPlaces
  <2>3. QED
    BY <1>3, <2>1, <2>2 DEF OwnInv, BundleInv, CallPurge
<1>4. QED
  BY <1>1, <1>2, <1>3

LEMMA StageOwned ==
  ASSUME SeparateNames, OwnInv, NEW t \in Threads,
         StageTable(t) \/ StageRows(t) \/ StageCommit(t)
  PROVE  OwnInv'
<1> DEFINE n == Name(t)
           empty == [Seen(t) EXCEPT ![Staging(n)] = {}]
           full  == With(Seen(t), Staging(n), job[t].rows)
<1>1. at[t] \in {"stage", "stage_rows", "stage_commit"}
  BY DEF StageTable, StageRows, StageCommit, Goto
<1>2. n \in Names /\ \A r \in job[t].rows : r.of = n
  BY <1>1 DEF OwnInv, JobInv, Name, StagingPlaces
<1>3. Staging(n) \in TablesOf(n) /\ Owned(Seen(t))
  BY DEF TablesOf, OwnInv, ConnInv
<1>4. Owned(empty)
  BY <1>2, <1>3, OwnedExcept DEF RowsOf
<1>5. Owned(full)
  BY <1>2, <1>3, OwnedWith
<1>6. \/ UNCHANGED <<db, connections>> \/ LeftOpen(t) \/ Commit(t)
      \/ Write(t, empty) \/ Publish(t, empty) \/ Write(t, full) \/ Write(t, Seen(t))
  BY DEF StageTable, StageRows, StageCommit
<1>7. ConnInv'
  BY <1>3, <1>4, <1>5, <1>6, SameOwned, CommitOwned, WriteOwned, PublishOwned
     DEF OwnInv, connections, LeftOpen
<1>8. JobInv'
  BY GotoJob DEF StageTable, StageRows, StageCommit, OwnInv, StagingPlaces
<1>9. QED
  BY <1>7, <1>8 DEF OwnInv, BundleInv, StageTable, StageRows, StageCommit

LEMMA SwitchOwned ==
  ASSUME SeparateNames, OwnInv, NEW t \in Threads, SwitchDrop(t) \/ SwitchRename(t)
  PROVE  OwnInv'
<1> DEFINE n == Name(t)
           dropped == [Seen(t) EXCEPT ![Live(n)] = None]
           renamed == [Seen(t) EXCEPT ![Live(n)] = Seen(t)[Staging(n)], ![Staging(n)] = None]
<1>1. n \in Names
  BY DEF SwitchDrop, SwitchRename, Goto, OwnInv, JobInv, Name
<1>2. Live(n) \in TablesOf(n) /\ Staging(n) \in TablesOf(n) /\ Owned(Seen(t))
  BY DEF TablesOf, OwnInv, ConnInv
<1>3. Owned(dropped)
  BY <1>1, <1>2, OwnedExcept DEF RowsOf
<1>4. Owned(renamed)
  <2>1. RowsOf(n, Seen(t)[Staging(n)])
    BY <1>1, <1>2 DEF Owned
  <2>2. Owned([Seen(t) EXCEPT ![Live(n)] = Seen(t)[Staging(n)]])
    BY <1>1, <1>2, <2>1, OwnedExcept
  <2>3. QED
    BY <1>1, <1>2, <2>2, OwnedExcept DEF RowsOf
<1>5. Write(t, dropped) \/ Rollback(t) \/ Publish(t, renamed)
  BY DEF SwitchDrop, SwitchRename
<1>6. ConnInv'
  BY <1>3, <1>4, <1>5, CommitOwned, WriteOwned, PublishOwned DEF OwnInv
<1>7. JobInv'
  BY GotoJob DEF SwitchDrop, SwitchRename, OwnInv, StagingPlaces
<1>8. QED
  BY <1>6, <1>7 DEF OwnInv, BundleInv, SwitchDrop, SwitchRename

LEMMA OtherOwned ==
  ASSUME SeparateNames, OwnInv, NEW t \in Threads,
         InsertCommit(t) \/ \E n \in Names : CallImport(t, n)
  PROVE  OwnInv'
<1>1. CASE InsertCommit(t)
  <2>1. ConnInv' /\ JobInv'
    BY <1>1, CommitOwned, GotoJob DEF InsertCommit, OwnInv, StagingPlaces
  <2>2. QED
    BY <1>1, <2>1 DEF OwnInv, BundleInv, InsertCommit
<1>2. ASSUME NEW n \in Names, CallImport(t, n) PROVE OwnInv'
  <2>1. \A r \in bundle[n] : r.of = n
    BY <1>2 DEF CallImport, OwnInv, BundleInv, RowsOf
  <2>2. JobInv'
    BY <1>2, <2>1, CallJob DEF CallImport, OwnInv
  <2>3. ConnInv'
    BY <1>2, SameOwned DEF CallImport, OwnInv, connections
  <2>4. QED
    BY <1>2, <2>2, <2>3 DEF OwnInv, BundleInv, CallImport
<1>3. QED
  BY <1>1, <1>2

LEMMA RestartOwned == ASSUME OwnInv, Restart PROVE OwnInv'
<1>1. Owned(db')
  BY DEF Restart, OwnInv, ConnInv, Owned, RowsOf, TablesOf, Tables
<1>2. ConnInv'
  BY <1>1 DEF Restart, ConnInv, Seen
<1>3. JobInv'
  BY DEF Restart, JobInv, StagingPlaces
<1>4. QED
  BY <1>2, <1>3 DEF OwnInv, BundleInv, Restart

LEMMA OwnStep == ASSUME SeparateNames, OwnInv, [Next]_vars PROVE OwnInv'
<1>1. CASE UNCHANGED vars
  BY <1>1, SameOwned DEF vars, connections, OwnInv, JobInv, BundleInv
<1>2. ASSUME NEW t \in Threads, Continues(t) PROVE OwnInv'
  BY <1>2, InsertRowsOwned, OtherOwned, PurgeOwned, StageOwned, SwitchOwned DEF Continues
<1>3. ASSUME NEW t \in Threads, NEW n \in Names, Starts(t, n) PROVE OwnInv'
  BY <1>3, CallInsertOwned, ReadersOwned, PurgeOwned, OtherOwned DEF Starts
<1>4. CASE Restart
  BY <1>4, RestartOwned
<1>5. QED
  BY <1>1, <1>2, <1>3, <1>4 DEF Next

LEMMA OwnInit == Init => OwnInv
BY DEF Init, OwnInv, ConnInv, JobInv, BundleInv, Owned, Seen, RowsOf, TablesOf, Tables, StagingPlaces

\* Collections whose names do not clash never see each other's rows, whatever their
\* handlers, failures and restarts: TablesOf is what the store's methods name.
THEOREM RowsStayApart ==
  ASSUME SeparateNames PROVE Spec => []OwnRowsOnly
<1>1. Init => OwnInv
  BY OwnInit
<1>2. OwnInv /\ [Next]_vars => OwnInv'
  BY OwnStep
<1>3. OwnInv => OwnRowsOnly
  BY DEF OwnInv, ConnInv, Owned, OwnRowsOnly, RowsOf, RowsIn, TablesOf
<1>4. QED
  BY <1>1, <1>2, <1>3, PTL DEF Spec

-----------------------------------------------------------------------------
(* Where insert_batch stops. *)

\* No document of the rows is in S or comes twice.
NewDocs(S, rows) ==
  \A i \in 1..Len(rows) :
    /\ \A r \in S : r.doc # rows[i].doc
    /\ \A j \in 1..Len(rows) : rows[i].doc = rows[j].doc => i = j

LEMMA Least == ASSUME NEW T \in SUBSET Nat, T # {} PROVE \E x \in T : \A y \in T : x <= y
<1> DEFINE below == {0..x : x \in T}
<1>1. below \subseteq FiniteSubsetsOf(Nat) /\ below # {}
  <2>1. \A x \in T : IsFiniteSet(0..x) /\ 0..x \subseteq Nat
    BY FS_Interval
  <2>2. QED
    BY <2>1 DEF FiniteSubsetsOf
<1>2. PICK low \in below : \A s \in below : ~ (<<s, low>> \in StrictSubsetOrdering(Nat))
  <2> HIDE DEF below
  <2>1. QED
    BY <1>1, FS_StrictSubsetOrderingWellFounded, WFMin
<1>3. PICK x \in T : low = 0..x
  BY <1>2
<1>4. ASSUME NEW y \in T PROVE x <= y
  <2>1. <<0..y, low>> \notin StrictSubsetOrdering(Nat)
    BY <1>2
  <2>2. ~(0..y \subseteq 0..x /\ 0..y # 0..x)
    BY <2>1, <1>3 DEF StrictSubsetOrdering
  <2>3. CASE y < x
    <3>1. 0..y \subseteq 0..x /\ x \in 0..x /\ x \notin 0..y
      BY <2>3
    <3>2. QED
      BY <2>2, <3>1
  <2>4. QED
    BY <2>3
<1>5. QED
  BY <1>4

\* Where no row of a batch is in the way, FirstRows takes all of it.
LEMMA StopperExists ==
  ASSUME NEW rows, Len(rows) \in Nat, DOMAIN rows = 1..Len(rows), NEW table
  PROVE  /\ Stopper(rows, table) \in 1..(Len(rows) + 1)
         /\ Stopper(rows, table) = Len(rows) + 1 => NewDocs(table, rows)
<1> DEFINE Bad(k) == \/ rows[k].doc \in Unbindable
                     \/ \E r \in table \cup FirstRows(rows, k - 1) : Clash(r, rows[k])
           T == {k \in 1..(Len(rows) + 1) : k <= Len(rows) => Bad(k)}
<1>1. Len(rows) \in Nat
  OBVIOUS
<1> HIDE DEF Bad
<1>2. Len(rows) + 1 \in T /\ T \subseteq Nat
  BY <1>1
<1>3. PICK k \in T : \A j \in T : k <= j
  <2> HIDE DEF T
  <2>1. QED
    BY <1>2, Least
<1>4. \A j \in 1..(k - 1) : ~Bad(j)
  BY <1>1, <1>3
<1>5. /\ k \in 1..(Len(rows) + 1) /\ (k <= Len(rows) => Bad(k))
      /\ \A j \in 1..(k - 1) :
           /\ rows[j].doc \notin Unbindable
           /\ \A r \in table \cup FirstRows(rows, j - 1) : ~Clash(r, rows[j])
      /\ k <= Len(rows) =>
           \/ rows[k].doc \in Unbindable
           \/ \E r \in table \cup FirstRows(rows, k - 1) : Clash(r, rows[k])
  BY <1>3, <1>4 DEF Bad
<1> DEFINE stop == Stopper(rows, table)
<1>6. /\ stop \in 1..(Len(rows) + 1)
      /\ \A j \in 1..(stop - 1) :
           \A r \in table \cup FirstRows(rows, j - 1) : ~Clash(r, rows[j])
  BY <1>5 DEF Stopper
<1>7. ASSUME stop = Len(rows) + 1 PROVE NewDocs(table, rows)
  <2> HIDE DEF stop
  <2>1. \A j \in 1..Len(rows) :
          \A r \in table \cup FirstRows(rows, j - 1) : r.doc # rows[j].doc
    BY <1>1, <1>6, <1>7 DEF Clash
  <2>2. ASSUME NEW i \in 1..Len(rows), NEW j \in 1..Len(rows), i < j
        PROVE  rows[i].doc # rows[j].doc
    <3>1. DOMAIN rows = 1..Len(rows) /\ i \in 1..(j - 1)
      BY <1>1, <2>2
    <3>2. rows[i] \in FirstRows(rows, j - 1)
      BY <3>1 DEF FirstRows
    <3>3. QED
      BY <2>1, <3>2
  <2>3. ASSUME NEW i \in 1..Len(rows), NEW j \in 1..Len(rows), rows[i].doc = rows[j].doc
        PROVE  i = j
    <3>1. i \in Nat /\ j \in Nat /\ ~(i < j) /\ ~(j < i)
      BY <1>1, <2>2, <2>3
    <3>2. QED
      BY <3>1
  <2>4. QED
    BY <2>1, <2>3 DEF NewDocs
<1>8. QED
  BY <1>6, <1>7

-----------------------------------------------------------------------------
(* Whatever the names, and whatever can be bound.                          *)
(*                                                                         *)
(* AnyInv holds of collections that share a table as well, and of threads  *)
(* that were left in a transaction with part of a batch: rows are counted  *)
(* by the insert that brought them, not by the collection they are in.     *)

\* The row's insert has moved its collection's version.
Brought(r, records) == r.of \in Names /\ r.version \in 1..records[r.of].version

Whole(S) ==
  \A r \in S :
    Bindable(r.batch) =>
      \A i \in DOMAIN r.batch : \E s \in S :
        s.of = r.of /\ s.version = r.version /\ s.doc = r.batch[i]

FineRows(S, records) == Whole(S) /\ \A r \in S : Brought(r, records)

Fine(S, records) == S = None \/ FineRows(S, records)

FineTables(d, records) ==
  DOMAIN d = Tables /\ \A table \in Tables : Fine(d[table], records)

\* The rows of one insert.
Batched(rows, records) ==
  /\ Len(rows) \in Nat /\ DOMAIN rows = 1..Len(rows)
  /\ \A i \in 1..Len(rows) :
       /\ Brought(rows[i], records)
       /\ DOMAIN rows[i].batch = 1..Len(rows) /\ rows[i].doc = rows[i].batch[i]
       /\ \A j \in 1..Len(rows) :
            /\ rows[j].batch = rows[i].batch
            /\ rows[j].of = rows[i].of /\ rows[j].version = rows[i].version

TablesInv == FineTables(db, meta) /\ \A t \in Threads : FineTables(Seen(t), meta)

HandlersInv ==
  /\ DOMAIN job = Threads /\ DOMAIN meta = Names /\ DOMAIN bundle = Names
  /\ \A n \in Names :
       meta[n].version \in Nat /\ DOMAIN meta[n] = DOMAIN FreshMeta /\ Fine(bundle[n], meta)
  /\ \A t \in Threads :
       /\ at[t] # "idle" => job[t].name \in Names
       /\ at[t] = "insert" => Batched(job[t].rows, meta)
       /\ at[t] \in StagingPlaces => FineRows(job[t].rows, meta)

\* Part of a batch with a document that cannot be bound.
Partial(d) == \E table \in Tables : \E r \in RowsIn(d, table) : ~Bindable(r.batch)

\* Where a handler may have written in a transaction of its own.
Writing == {"commit", "stage_rows", "stage_commit", "abort", "rename"}

LockInv ==
  /\ DOMAIN view = Threads /\ DOMAIN at = Threads /\ open \subseteq Threads
  /\ \A t \in Threads : view[t] # None => t \in open
  /\ stale \subseteq {t \in open : view[t] # None}
  /\ writer # None =>
       /\ writer \in Threads /\ view[writer] # None /\ writer \notin stale
       /\ at[writer] \in Writing \/ Partial(view[writer])
  /\ \A t \in Threads : at[t] = "rename" => writer = t

AnyInv == TablesInv /\ HandlersInv /\ LockInv

LEMMA EmptyFine == ASSUME NEW records PROVE FineRows({}, records)
BY DEF FineRows, Whole

\* Rows of several inserts are fine together.
LEMMA UnionFine ==
  ASSUME NEW records, NEW S, FineRows(S, records), NEW T, FineRows(T, records)
  PROVE  FineRows(S \cup T, records)
<1>1. ASSUME NEW r \in S \cup T, Bindable(r.batch), NEW i \in DOMAIN r.batch
      PROVE  \E s \in S \cup T : s.of = r.of /\ s.version = r.version /\ s.doc = r.batch[i]
  BY <1>1 DEF FineRows, Whole
<1>2. QED
  BY <1>1 DEF FineRows, Whole

LEMMA ExceptFine ==
  ASSUME NEW records, NEW d, FineTables(d, records), NEW table, NEW rows, Fine(rows, records)
  PROVE  FineTables([d EXCEPT ![table] = rows], records)
BY DEF FineTables

LEMMA WithFine ==
  ASSUME NEW records, NEW d, FineTables(d, records), NEW table \in Tables, NEW rows,
         FineRows(rows, records)
  PROVE  FineTables(With(d, table, rows), records)
<1>1. FineRows(RowsIn(d, table), records)
  BY EmptyFine DEF FineTables, Fine, RowsIn
<1>2. FineRows(RowsIn(d, table) \cup rows, records)
  BY <1>1, UnionFine
<1>3. QED
  BY <1>2, ExceptFine DEF With, Fine

LEMMA OfTables == ASSUME NEW n \in Names PROVE Live(n) \in Tables /\ Staging(n) \in Tables
BY DEF Tables

\* Versions only grow, so what was brought stays so.
Grows ==
  /\ DOMAIN meta' = Names
  /\ \A n \in Names : /\ meta'[n].version \in Nat /\ DOMAIN meta'[n] = DOMAIN FreshMeta
                      /\ meta[n].version <= meta'[n].version

LEMMA LaterFine ==
  ASSUME HandlersInv, Grows, NEW S, FineRows(S, meta) PROVE FineRows(S, meta')
<1>1. ASSUME NEW r \in S PROVE Brought(r, meta')
  <2>1. r.of \in Names /\ r.version \in 1..meta[r.of].version
    BY DEF FineRows, Brought
  <2>2. meta[r.of].version \in Nat /\ meta'[r.of].version \in Nat
        /\ meta[r.of].version <= meta'[r.of].version
    BY <2>1 DEF HandlersInv, Grows
  <2>3. QED
    BY <2>1, <2>2 DEF Brought
<1>2. QED
  BY <1>1 DEF FineRows

LEMMA LaterFineTables ==
  ASSUME HandlersInv, Grows, NEW d, FineTables(d, meta) PROVE FineTables(d, meta')
<1>1. ASSUME NEW table \in Tables PROVE Fine(d[table], meta')
  BY LaterFine DEF FineTables, Fine
<1>2. QED
  BY <1>1 DEF FineTables

LEMMA SameGrows == ASSUME HandlersInv, UNCHANGED meta PROVE Grows
BY DEF HandlersInv, Grows

-----------------------------------------------------------------------------
(* What a connection does. *)

\* Thread t goes to a place, the others stay.
To(t, there) ==
  DOMAIN at' = Threads /\ at'[t] = there /\ \A u \in Threads \ {t} : at'[u] = at[u]

\* What is seen after a step was fine before it.
KeepsTables == FineTables(db', meta) /\ \A u \in Threads : FineTables(Seen(u)', meta)

LEMMA PublishAny ==
  ASSUME AnyInv, NEW t \in Threads, NEW d, FineTables(d, meta), Publish(t, d),
         CanWrite(t) \/ d = db \/ writer = t,
         NEW there, To(t, there), there # "rename"
  PROVE  KeepsTables /\ LockInv'
<1>1. /\ db' = d /\ open' = open \ {t} /\ view' = [view EXCEPT ![t] = None]
      /\ stale' = (IF d = db THEN stale \ {t} ELSE {u \in Threads \ {t} : view[u] # None})
      /\ writer' = IF writer = t THEN None ELSE writer
  BY DEF Publish
<1>2. DOMAIN view' = Threads /\ view'[t] = None /\ \A u \in Threads \ {t} : view'[u] = view[u]
  BY <1>1 DEF AnyInv, LockInv
<1>3. KeepsTables
  BY <1>1, <1>2 DEF KeepsTables, Seen, AnyInv, TablesInv
<1>4. stale' \subseteq {u \in open' : view'[u] # None}
  <2>1. ASSUME NEW u \in stale' PROVE u \in open' /\ view'[u] # None
    <3>1. CASE u \in Threads
      BY <1>1, <1>2, <2>1, <3>1 DEF AnyInv, LockInv
    <3>2. CASE u \notin Threads
      <4>1. u \in stale /\ u # t /\ view'[u] = view[u]
        BY <1>1, <2>1, <3>2
      <4>2. QED
        BY <1>1, <4>1 DEF AnyInv, LockInv
    <3>3. QED
      BY <3>1, <3>2
  <2>2. QED
    BY <2>1
<1>5. writer' # None => writer' = writer /\ writer # t /\ d = db
  BY <1>1 DEF CanWrite
<1>6. writer' # None =>
        /\ writer' \in Threads /\ view'[writer'] # None /\ writer' \notin stale'
        /\ at'[writer'] \in Writing \/ Partial(view'[writer'])
  BY <1>1, <1>2, <1>5 DEF AnyInv, LockInv, To
<1>7. ASSUME NEW u \in Threads, at'[u] = "rename" PROVE writer' = u
  BY <1>1, <1>7 DEF AnyInv, LockInv, To
<1>8. open' \subseteq Threads /\ \A u \in Threads : view'[u] # None => u \in open'
  BY <1>1, <1>2 DEF AnyInv, LockInv
<1>9. LockInv'
  <2>1. writer' # None => at'[writer'] \in Writing \/ Partial(view[writer])'
    BY <1>6 DEF Partial, RowsIn
  <2>2. QED
    BY <1>2, <1>4, <1>6, <1>7, <1>8, <2>1 DEF LockInv, To, Partial, RowsIn
<1>10. QED
  BY <1>3, <1>9

LEMMA CommitAny ==
  ASSUME AnyInv, NEW t \in Threads, Commit(t) \/ Rollback(t),
         NEW there, To(t, there), there # "rename"
  PROVE  KeepsTables /\ LockInv'
<1>1. PICK d : FineTables(d, meta) /\ Publish(t, d) /\ (d = db \/ writer = t)
  BY DEF Commit, Rollback, AnyInv, TablesInv
<1>2. QED
  BY <1>1, PublishAny

LEMMA ExecuteAny ==
  ASSUME AnyInv, NEW t \in Threads, NEW table, NEW rows, Fine(rows, meta), Execute(t, table, rows),
         NEW there, To(t, there), there # "rename"
  PROVE  KeepsTables /\ LockInv'
<1>1. FineTables([Seen(t) EXCEPT ![table] = rows], meta)
  BY ExceptFine DEF AnyInv, TablesInv
<1>2. Commit(t) \/ (CanWrite(t) /\ Publish(t, [Seen(t) EXCEPT ![table] = rows]))
  BY DEF Execute
<1>3. QED
  BY <1>1, <1>2, CommitAny, PublishAny

LEMMA WriteAny ==
  ASSUME NoneIsNoData, AnyInv, NEW t \in Threads, NEW d, FineTables(d, meta), Write(t, d), CanWrite(t),
         NEW there, To(t, there), there \in Writing \/ (Partial(d) /\ there # "rename")
  PROVE  KeepsTables /\ LockInv'
<1>1. /\ db' = db /\ open' = open \cup {t} /\ view' = [view EXCEPT ![t] = d]
      /\ stale' = stale /\ writer' = t /\ t \notin stale /\ writer \in {None, t}
  BY DEF Write, CanWrite
<1>2. /\ DOMAIN view' = Threads /\ view'[t] = d /\ \A u \in Threads \ {t} : view'[u] = view[u]
      /\ d # None
  BY <1>1 DEF AnyInv, LockInv, NoneIsNoData, FineTables
<1>3. KeepsTables
  BY <1>1, <1>2 DEF KeepsTables, Seen, AnyInv, TablesInv
<1>4. stale' \subseteq {u \in open' : view'[u] # None}
  <2>1. ASSUME NEW u \in stale' PROVE u \in open' /\ view'[u] # None
    BY <1>1, <1>2, <2>1 DEF AnyInv, LockInv
  <2>2. QED
    BY <2>1
<1>5. \A u \in Threads : at'[u] = "rename" => u = t
  BY <1>1, StoreAssumption DEF AnyInv, LockInv, To
<1>6. /\ t # None
      /\ at'[t] \in Writing \/ Partial(view[t])'
  BY <1>2, StoreAssumption DEF To, Partial, RowsIn
<1>7. open' \subseteq Threads /\ \A u \in Threads : view'[u] # None => u \in open'
  BY <1>1, <1>2 DEF AnyInv, LockInv
<1>8. LockInv'
  BY <1>1, <1>2, <1>4, <1>5, <1>6, <1>7 DEF LockInv, To, Partial, RowsIn
<1>9. QED
  BY <1>3, <1>8

\* A step that does not write: nothing, a BEGIN, a SELECT.
LEMMA QuietAny ==
  ASSUME AnyInv, NEW t \in Threads,
         UNCHANGED <<db, connections>> \/ LeftOpen(t) \/ Reads(t),
         NEW there, To(t, there), there # "rename",
         writer # t \/ there \in Writing \/ Partial(view[t])
  PROVE  KeepsTables /\ LockInv'
<1>1. /\ UNCHANGED <<db, stale, writer>> /\ open' \in {open, open \cup {t}}
      /\ view' = view \/ view' = [view EXCEPT ![t] = IF t \in open THEN Seen(t) ELSE None]
  BY DEF connections, LeftOpen, Reads
<1>2. DOMAIN view' = Threads /\ \A u \in Threads \ {t} : view'[u] = view[u]
  BY <1>1 DEF AnyInv, LockInv
<1>3. /\ view[t] # None => view'[t] = view[t]
      /\ view'[t] \in {None, view[t], db}
      /\ view'[t] # None => t \in open'
  BY <1>1 DEF AnyInv, LockInv, Seen
<1>4. KeepsTables
  BY <1>1, <1>2, <1>3 DEF KeepsTables, Seen, AnyInv, TablesInv
<1>5. stale' \subseteq {u \in open' : view'[u] # None}
  <2>1. ASSUME NEW u \in stale' PROVE u \in open' /\ view'[u] # None
    <3>1. u \in stale /\ u \in open /\ view[u] # None
      BY <1>1, <2>1 DEF AnyInv, LockInv
    <3>2. CASE u = t
      BY <1>1, <1>3, <3>1, <3>2
    <3>3. CASE u # t
      BY <1>1, <1>2, <3>1, <3>3 DEF AnyInv, LockInv
    <3>4. QED
      BY <3>2, <3>3
  <2>2. QED
    BY <2>1
<1>6. writer # None => /\ writer \in Threads /\ view'[writer] = view[writer] /\ view'[writer] # None
                       /\ at'[writer] \in Writing \/ Partial(view[writer])
  BY <1>2, <1>3 DEF AnyInv, LockInv, To
<1>7. \A u \in Threads : at'[u] = "rename" => writer' = u
  BY <1>1 DEF AnyInv, LockInv, To
<1>8. open' \subseteq Threads /\ \A u \in Threads : view'[u] # None => u \in open'
  BY <1>1, <1>2, <1>3 DEF AnyInv, LockInv
<1>9. writer' # None => at'[writer'] \in Writing \/ Partial(view[writer])'
  BY <1>1, <1>6 DEF Partial, RowsIn
<1>10. LockInv'
  BY <1>1, <1>2, <1>5, <1>6, <1>7, <1>8, <1>9 DEF LockInv, To, AnyInv
<1>11. QED
  BY <1>4, <1>10

\* Where the handler is, it holds the write lock only if it may have written; an idle
\* thread only with part of a batch.
LEMMA RefusedAny == ASSUME AnyInv, NEW t \in Threads, ~CanWrite(t) PROVE writer # t
BY StoreAssumption DEF AnyInv, LockInv, CanWrite

LEMMA HeldAny ==
  ASSUME AnyInv, NEW t \in Threads, at[t] \notin Writing PROVE writer # t \/ Partial(view[t])
BY StoreAssumption DEF AnyInv, LockInv

-----------------------------------------------------------------------------
(* What becomes of the handlers. *)

LEMMA GrowsExcept ==
  ASSUME HandlersInv, NEW n \in Names, NEW record, meta' = [meta EXCEPT ![n] = record],
         DOMAIN record = DOMAIN FreshMeta, record.version \in Nat,
         meta[n].version <= record.version
  PROVE  Grows
BY DEF HandlersInv, Grows

LEMMA LaterBatched ==
  ASSUME HandlersInv, Grows, NEW rows, Batched(rows, meta) PROVE Batched(rows, meta')
<1>1. ASSUME NEW i \in 1..Len(rows) PROVE Brought(rows[i], meta')
  <2>1. rows[i].of \in Names /\ rows[i].version \in 1..meta[rows[i].of].version
    BY DEF Batched, Brought
  <2>2. meta[rows[i].of].version \in Nat /\ meta'[rows[i].of].version \in Nat
        /\ meta[rows[i].of].version <= meta'[rows[i].of].version
    BY <2>1 DEF HandlersInv, Grows
  <2>3. QED
    BY <2>1, <2>2 DEF Brought
<1>2. QED
  BY <1>1 DEF Batched

\* Thread t moves, perhaps with another job, and what the others work on is as it was.
LEMMA HandlersKept ==
  ASSUME HandlersInv, Grows, NEW t \in Threads, NEW there, To(t, there),
         DOMAIN job' = Threads, \A u \in Threads \ {t} : job'[u] = job[u],
         DOMAIN bundle' = Names, \A n \in Names : Fine(bundle'[n], meta'),
         there # "idle" => job'[t].name \in Names,
         there = "insert" => Batched(job'[t].rows, meta'),
         there \in StagingPlaces => FineRows(job'[t].rows, meta')
  PROVE  HandlersInv'
<1>1. \A n \in Names : meta'[n].version \in Nat /\ DOMAIN meta'[n] = DOMAIN FreshMeta
  BY DEF Grows
<1>2. ASSUME NEW u \in Threads
      PROVE  /\ at'[u] # "idle" => job'[u].name \in Names
             /\ at'[u] = "insert" => Batched(job'[u].rows, meta')
             /\ at'[u] \in StagingPlaces => FineRows(job'[u].rows, meta')
  <2>1. CASE u = t
    BY <2>1 DEF To
  <2>2. CASE u # t
    <3>1. at'[u] = at[u] /\ job'[u] = job[u]
      BY <2>2 DEF To
    <3>2. QED
      BY <3>1, LaterFine, LaterBatched DEF HandlersInv
  <2>3. QED
    BY <2>1, <2>2
<1>3. DOMAIN meta' = Names
  BY DEF Grows
<1>4. QED
  BY <1>1, <1>2, <1>3 DEF HandlersInv

LEMMA BundlesFine ==
  ASSUME HandlersInv, Grows, UNCHANGED bundle
  PROVE  DOMAIN bundle' = Names /\ \A n \in Names : Fine(bundle'[n], meta')
BY LaterFine DEF HandlersInv, Fine

LEMMA GotoAny ==
  ASSUME AnyInv, Grows, NEW t \in Threads, NEW here, here # "idle", NEW there,
         Goto(t, here, there), UNCHANGED bundle, there # "insert",
         there \in StagingPlaces => here \in StagingPlaces
  PROVE  at[t] = here /\ Name(t) \in Names /\ To(t, there) /\ HandlersInv'
<1>1. /\ at[t] = here /\ at' = [at EXCEPT ![t] = there]
      /\ job' = [job EXCEPT ![t] = IF there = "idle" THEN None ELSE @]
      /\ DOMAIN at = Threads /\ DOMAIN job = Threads
  BY DEF Goto, AnyInv, HandlersInv, LockInv
<1>2. To(t, there)
  BY <1>1 DEF To
<1>3. job[t].name \in Names
  BY <1>1 DEF AnyInv, HandlersInv
<1>4. /\ there # "idle" => job'[t].name \in Names
      /\ there \in StagingPlaces => FineRows(job'[t].rows, meta')
  <2>1. there # "idle" => job'[t] = job[t]
    BY <1>1
  <2>2. there \in StagingPlaces => there # "idle" /\ FineRows(job[t].rows, meta)
    BY <1>1 DEF AnyInv, HandlersInv, StagingPlaces
  <2>3. QED
    BY <1>3, <2>1, <2>2, LaterFine DEF AnyInv
<1>5. DOMAIN job' = Threads /\ \A u \in Threads \ {t} : job'[u] = job[u]
  BY <1>1
<1>6. HandlersInv'
  BY <1>2, <1>4, <1>5, BundlesFine, HandlersKept DEF AnyInv
<1>7. QED
  BY <1>1, <1>2, <1>3, <1>6 DEF Name

LEMMA CallAny ==
  ASSUME AnyInv, Grows, NEW t \in Threads, NEW n \in Names, NEW there, NEW rows,
         Call(t, n, there, rows), UNCHANGED bundle,
         there = "insert" => Batched(rows, meta'),
         there \in StagingPlaces => FineRows(rows, meta')
  PROVE  at[t] = "idle" /\ To(t, there) /\ HandlersInv'
<1>1. /\ at[t] = "idle" /\ at' = [at EXCEPT ![t] = there]
      /\ job' = [job EXCEPT ![t] = [name |-> n, rows |-> rows]]
      /\ DOMAIN at = Threads /\ DOMAIN job = Threads
  BY DEF Call, AnyInv, HandlersInv, LockInv
<1>2. To(t, there)
  BY <1>1 DEF To
<1>3. /\ DOMAIN job' = Threads /\ \A u \in Threads \ {t} : job'[u] = job[u]
      /\ job'[t].name = n /\ job'[t].rows = rows
  BY <1>1
<1>4. HandlersInv'
  BY <1>2, <1>3, BundlesFine, HandlersKept DEF AnyInv
<1>5. QED
  BY <1>1, <1>2, <1>4

LEMMA TablesAny == ASSUME HandlersInv, Grows, KeepsTables PROVE TablesInv'
<1>1. FineTables(db', meta')
  BY LaterFineTables DEF KeepsTables
<1>2. ASSUME NEW u \in Threads PROVE FineTables(Seen(u)', meta')
  BY LaterFineTables DEF KeepsTables
<1>3. QED
  BY <1>1, <1>2 DEF TablesInv

LEMMA StepAny ==
  ASSUME AnyInv, Grows, KeepsTables, HandlersInv', LockInv' PROVE AnyInv'
BY TablesAny DEF AnyInv

-----------------------------------------------------------------------------
(* Each step, whatever the names. *)

LEMMA CallInsertAny ==
  ASSUME NoneIsNoData, AnyInv, NEW t \in Threads, NEW n \in Names, NEW batch \in Batches,
         CallInsert(t, n, batch)
  PROVE  AnyInv'
<1> DEFINE table  == Seen(t)[Live(n)]
           rows   == IF table = None THEN {} ELSE table
           new    == NewRows(n, batch)
           v      == meta[n].version
           record == [meta[n] EXCEPT !.version = v + 1]
           k      == Len(batch)
<1>1. /\ Execute(t, Live(n), rows) /\ Call(t, n, "insert", new) /\ UNCHANGED bundle
      /\ meta' = [meta EXCEPT ![n] = record]
  BY DEF CallInsert
<1>2. v \in Nat /\ DOMAIN meta = Names /\ DOMAIN meta[n] = DOMAIN FreshMeta
  BY DEF AnyInv, HandlersInv
<1>3. DOMAIN record = DOMAIN FreshMeta /\ record.version = v + 1 /\ meta'[n] = record
  <2>1. "version" \in DOMAIN FreshMeta
    BY DEF FreshMeta
  <2>2. QED
    BY <1>1, <1>2, <2>1
<1>4. Grows /\ meta'[n].version = v + 1
  <2> HIDE DEF record
  <2>1. record.version \in Nat /\ v <= record.version
    BY <1>2, <1>3
  <2>2. QED
    BY <1>1, <1>3, <2>1, GrowsExcept DEF AnyInv
<1>5. Batched(new, meta')
  <2>1. batch \in Seq(Docs) /\ k \in Nat /\ DOMAIN batch = 1..k
    BY StoreAssumption
  <2>2. DOMAIN new = 1..k
    BY <2>1 DEF NewRows
  <2>3. Len(new) = k
    <3> DEFINE R == {new[i] : i \in 1..k}
    <3>1. new \in [1..k -> R]
      BY <2>1 DEF NewRows
    <3> HIDE DEF new
    <3>2. new \in Seq(R)
      BY <2>1, <3>1
    <3> HIDE DEF R, k
    <3>3. QED
      BY <2>1, <2>2, <3>2, LenProperties
  <2>4. \A i \in 1..k : /\ new[i].of = n /\ new[i].version = v + 1
                        /\ new[i].batch = batch /\ new[i].doc = batch[i]
    BY <2>1 DEF NewRows
  <2>5. v + 1 \in 1..(v + 1)
    BY <1>2
  <2> HIDE DEF new, k, v
  <2>6. \A i \in 1..k : Brought(new[i], meta')
    BY <1>4, <2>4, <2>5 DEF Brought
  <2>7. QED
    BY <2>1, <2>2, <2>3, <2>4, <2>6 DEF Batched
<1> HIDE DEF new
<1>6. at[t] = "idle" /\ To(t, "insert") /\ HandlersInv'
  <2>1. "insert" \notin StagingPlaces
    BY DEF StagingPlaces
  <2>2. QED
    BY <1>1, <1>4, <1>5, <2>1, CallAny
<1>7. Fine(rows, meta)
  BY OfTables, EmptyFine DEF AnyInv, TablesInv, FineTables, Fine
<1>8. KeepsTables /\ LockInv'
  <2> HIDE DEF rows
  <2>1. QED
    BY <1>1, <1>6, <1>7, ExecuteAny
<1>9. QED
  BY <1>4, <1>6, <1>8, StepAny

\* What insert_batch has executed when a row stops it: nothing, or part of a batch.
LEMMA FirstRowsFine ==
  ASSUME NEW records, NEW rows, Batched(rows, records), NEW k \in 1..(Len(rows) + 1),
         k <= Len(rows) => rows[k].doc \in Unbindable
  PROVE  /\ FineRows(FirstRows(rows, k - 1), records)
         /\ k <= Len(rows) /\ k # 1 =>
              \E r \in FirstRows(rows, k - 1) : ~Bindable(r.batch)
<1>1. Len(rows) \in Nat /\ DOMAIN rows = 1..Len(rows)
  BY DEF Batched
<1> DEFINE S == FirstRows(rows, k - 1)
<1>2. \A r \in S : \E i \in 1..Len(rows) : r = rows[i]
  BY <1>1 DEF FirstRows
<1>3. CASE k = Len(rows) + 1
  <2>1. \A i \in 1..Len(rows) : rows[i] \in S
    BY <1>1, <1>3 DEF FirstRows
  <2>2. ASSUME NEW r \in S, NEW i \in DOMAIN r.batch
        PROVE  \E s \in S : s.of = r.of /\ s.version = r.version /\ s.doc = r.batch[i]
    <3>1. PICK j \in 1..Len(rows) : r = rows[j]
      BY <1>2
    <3>2. i \in 1..Len(rows) /\ r.batch = rows[i].batch
      BY <3>1 DEF Batched
    <3>3. /\ rows[i] \in S /\ rows[i].of = r.of /\ rows[i].version = r.version
          /\ rows[i].doc = r.batch[i]
      BY <2>1, <3>1, <3>2 DEF Batched
    <3>4. QED
      BY <3>3
  <2>3. QED
    BY <1>1, <1>2, <1>3, <2>2 DEF FineRows, Whole, Batched
<1>4. CASE k <= Len(rows)
  <2>1. k \in 1..Len(rows)
    BY <1>1, <1>4
  <2>2. \A i \in 1..Len(rows) : ~Bindable(rows[i].batch)
    BY <1>4, <2>1 DEF Batched, Bindable
  <2>3. k # 1 => rows[1] \in S
    BY <1>1, <2>1 DEF FirstRows
  <2>4. k # 1 => 1 \in 1..Len(rows)
    BY <1>1, <2>1
  <2>5. QED
    BY <1>2, <2>2, <2>3, <2>4 DEF FineRows, Whole, Batched
<1>5. QED
  BY <1>1, <1>3, <1>4

LEMMA InsertRowsAny ==
  ASSUME NoneIsNoData, AnyInv, NEW t \in Threads, InsertRows(t) PROVE AnyInv'
<1> DEFINE live   == Live(Name(t))
           rows   == job[t].rows
           table  == RowsIn(Seen(t), live)
           k      == Stopper(rows, table)
           stored == With(Seen(t), live, FirstRows(rows, k - 1))
<1>1. at[t] = "insert" /\ UNCHANGED <<meta, bundle>>
  BY DEF InsertRows
<1>2. Grows
  BY <1>1, SameGrows DEF AnyInv
<1>3. Batched(rows, meta) /\ Name(t) \in Names /\ (writer # t \/ Partial(view[t]))
  BY <1>1, HeldAny DEF AnyInv, HandlersInv, Name, Writing
<1>4. k \in 1..(Len(rows) + 1) /\ Len(rows) \in Nat
  <2>1. Len(rows) \in Nat /\ DOMAIN rows = 1..Len(rows)
    BY <1>3 DEF Batched
  <2> HIDE DEF rows, table
  <2>2. QED
    BY <2>1, StopperExists
<1> HIDE DEF rows, table, k
<1>5. ASSUME Goto(t, "insert", "idle"),
             \/ UNCHANGED <<db, connections>> \/ LeftOpen(t) \/ Rollback(t)
      PROVE  AnyInv'
  <2>1. To(t, "idle") /\ HandlersInv'
    BY <1>1, <1>2, <1>5, GotoAny DEF StagingPlaces
  <2>2. KeepsTables /\ LockInv'
    BY <1>3, <1>5, <2>1, QuietAny, CommitAny
  <2>3. QED
    BY <1>2, <2>1, <2>2, StepAny
<1>6. ASSUME k <= Len(rows) => rows[k].doc \in Unbindable PROVE FineTables(stored, meta)
  BY <1>3, <1>4, <1>6, FirstRowsFine, WithFine, OfTables DEF AnyInv, TablesInv
<1>7. CASE k > Len(rows) /\ Goto(t, "insert", "commit") /\ Write(t, stored) /\ CanWrite(t)
  <2>1. To(t, "commit") /\ HandlersInv'
    BY <1>1, <1>2, <1>7, GotoAny DEF StagingPlaces
  <2>2. FineTables(stored, meta)
    BY <1>4, <1>6, <1>7
  <2> HIDE DEF stored
  <2>3. KeepsTables /\ LockInv'
    BY <1>7, <2>1, <2>2, WriteAny DEF Writing
  <2>4. QED
    BY <1>2, <2>1, <2>3, StepAny
<1>8. CASE /\ k <= Len(rows) /\ rows[k].doc \in Unbindable /\ k # 1
           /\ Goto(t, "insert", "idle") /\ Write(t, stored) /\ CanWrite(t)
  <2>1. To(t, "idle") /\ HandlersInv'
    BY <1>1, <1>2, <1>8, GotoAny DEF StagingPlaces
  <2>2. FineTables(stored, meta)
    BY <1>6, <1>8
  <2>3. Partial(stored)
    <3>1. \E r \in FirstRows(rows, k - 1) : ~Bindable(r.batch)
      BY <1>3, <1>4, <1>8, FirstRowsFine
    <3>2. live \in Tables /\ DOMAIN Seen(t) = Tables
      BY <1>3, OfTables DEF AnyInv, TablesInv, FineTables
    <3>3. stored[live] = RowsIn(Seen(t), live) \cup FirstRows(rows, k - 1)
      BY <3>2 DEF With
    <3>4. FirstRows(rows, k - 1) \subseteq RowsIn(stored, live)
      <4>1. PICK r \in FirstRows(rows, k - 1) : r.of \in Names
        BY <1>3, <1>4, <1>8, <3>1, FirstRowsFine DEF FineRows, Brought
      <4>2. stored[live] # None
        BY <3>3, <4>1 DEF NoneIsNoData
      <4> HIDE DEF stored
      <4>3. QED
        BY <3>3, <4>2 DEF RowsIn
    <3>5. QED
      BY <3>1, <3>2, <3>4 DEF Partial
  <2> HIDE DEF stored
  <2>4. KeepsTables /\ LockInv'
    BY <1>8, <2>1, <2>2, <2>3, WriteAny
  <2>5. QED
    BY <1>2, <2>1, <2>4, StepAny
<1>9. QED
  BY <1>4, <1>5, <1>7, <1>8 DEF InsertRows, StoreRows, rows, table, k

LEMMA InsertCommitAny ==
  ASSUME AnyInv, NEW t \in Threads, InsertCommit(t) PROVE AnyInv'
<1> DEFINE n      == Name(t)
           total  == Cardinality(RowsIn(db', Live(n)))
           record == [meta[n] EXCEPT !.total = total]
<1>1. /\ Goto(t, "commit", "idle") /\ Commit(t) /\ UNCHANGED bundle
      /\ meta' = [meta EXCEPT ![n] = record]
  BY DEF InsertCommit
<1>2. n \in Names
  BY <1>1 DEF Goto, AnyInv, HandlersInv, Name
<1>3. Grows
  <2>1. meta[n].version \in Nat /\ DOMAIN meta[n] = DOMAIN FreshMeta
    BY <1>2 DEF AnyInv, HandlersInv
  <2>2. DOMAIN record = DOMAIN FreshMeta /\ record.version = meta[n].version
    BY <2>1
  <2>3. record.version \in Nat /\ meta[n].version <= record.version
    BY <2>1, <2>2
  <2> HIDE DEF record
  <2>4. QED
    BY <1>1, <1>2, <2>2, <2>3, GrowsExcept DEF AnyInv
<1>4. To(t, "idle") /\ HandlersInv'
  BY <1>1, <1>3, GotoAny DEF StagingPlaces
<1>5. KeepsTables /\ LockInv'
  BY <1>1, <1>4, CommitAny
<1>6. QED
  BY <1>3, <1>4, <1>5, StepAny

LEMMA ReadersAny ==
  ASSUME AnyInv, NEW t \in Threads, NEW n \in Names, Search(t, n) \/ Flush(t, n) \/ Export(t, n)
  PROVE  AnyInv'
<1> DEFINE rows == RowsIn(Seen(t), Live(n))
<1>1. /\ at[t] = "idle" /\ at' = at /\ job' = job /\ Reads(t)
      /\ bundle' = bundle \/ bundle' = [bundle EXCEPT ![n] = rows]
  BY DEF Search, Flush, Export, At
<1>2. /\ meta[n].version \in Nat /\ DOMAIN meta[n] = DOMAIN FreshMeta /\ DOMAIN meta = Names
  BY DEF AnyInv, HandlersInv
<1>3. Grows
  <2> DEFINE flushed  == [meta[n] EXCEPT !.index = meta[n].version, !.file = rows,
                                         !.total = Cardinality(rows)]
             exported == [meta[n] EXCEPT !.exported = meta[n].version]
  <2>1. \/ meta' = meta
        \/ meta' = [meta EXCEPT ![n] = flushed]
        \/ meta' = [meta EXCEPT ![n] = exported]
    <3>1. CASE Search(t, n)
      BY <3>1 DEF Search
    <3>2. CASE Flush(t, n)
      BY <1>2, <3>2 DEF Flush
    <3>3. CASE Export(t, n)
      BY <1>2, <3>3 DEF Export
    <3>4. QED
      BY <3>1, <3>2, <3>3
  <2>2. /\ DOMAIN flushed = DOMAIN FreshMeta /\ flushed.version = meta[n].version
        /\ DOMAIN exported = DOMAIN FreshMeta /\ exported.version = meta[n].version
    BY <1>2
  <2> HIDE DEF flushed, exported
  <2>3. QED
    BY <1>2, <2>1, <2>2, SameGrows, GrowsExcept DEF AnyInv
<1>4. To(t, "idle") /\ DOMAIN job' = Threads
  BY <1>1 DEF To, AnyInv, HandlersInv, LockInv
<1>5. FineRows(rows, meta)
  BY OfTables, EmptyFine DEF AnyInv, TablesInv, FineTables, Fine, RowsIn
<1>6. DOMAIN bundle' = Names /\ \A m \in Names : Fine(bundle'[m], meta')
  <2> HIDE DEF rows
  <2>1. Fine(rows, meta')
    BY <1>3, <1>5, LaterFine DEF AnyInv, Fine
  <2>2. \A m \in Names : Fine(bundle[m], meta')
    BY <1>3, LaterFine DEF AnyInv, HandlersInv, Fine
  <2>3. DOMAIN bundle = Names
    BY DEF AnyInv, HandlersInv
  <2>4. QED
    BY <1>1, <2>1, <2>2, <2>3
<1>7. HandlersInv'
  BY <1>1, <1>3, <1>4, <1>6, HandlersKept DEF AnyInv, StagingPlaces
<1>8. KeepsTables /\ LockInv'
  BY <1>1, <1>4, HeldAny, QuietAny DEF Writing
<1>9. QED
  BY <1>3, <1>7, <1>8, StepAny

LEMMA CallsAny ==
  ASSUME AnyInv, NEW t \in Threads, NEW n \in Names, CallPurge(t, n) \/ CallImport(t, n)
  PROVE  AnyInv'
<1>1. Grows
  <2> DEFINE record == [meta[n] EXCEPT !.file = None]
  <2>1. meta' = meta \/ meta' = [meta EXCEPT ![n] = record]
    BY DEF CallPurge, CallImport
  <2>2. meta[n].version \in Nat /\ DOMAIN meta[n] = DOMAIN FreshMeta
    BY DEF AnyInv, HandlersInv
  <2>3. DOMAIN record = DOMAIN FreshMeta /\ record.version = meta[n].version
    BY <2>2
  <2> HIDE DEF record
  <2>4. QED
    BY <2>1, <2>2, <2>3, SameGrows, GrowsExcept DEF AnyInv
<1>2. PICK there \in {"purge_staging", "stage"}, rows \in {<<>>, bundle[n]} :
        /\ Call(t, n, there, rows) /\ UNCHANGED bundle
        /\ there = "stage" => bundle[n] # None /\ rows = bundle[n]
  BY DEF CallPurge, CallImport
<1>3. there = "stage" => FineRows(rows, meta')
  BY <1>1, <1>2, LaterFine DEF AnyInv, HandlersInv, Fine
<1>4. at[t] = "idle" /\ To(t, there) /\ HandlersInv'
  BY <1>1, <1>2, <1>3, CallAny DEF StagingPlaces
<1>5. Reads(t) \/ UNCHANGED <<db, connections>>
  BY DEF CallPurge, CallImport
<1>6. KeepsTables /\ LockInv'
  BY <1>4, <1>5, HeldAny, QuietAny DEF Writing
<1>7. QED
  BY <1>1, <1>4, <1>6, StepAny

LEMMA DropsAny ==
  ASSUME AnyInv, NEW t \in Threads,
         NEW here \in {"purge_staging", "purge_rows", "abort"},
         NEW there \in {"purge_rows", "vacuum", "idle"}, NEW table, Drops(t, here, table, there)
  PROVE  AnyInv'
<1>1. Grows /\ UNCHANGED bundle
  BY SameGrows DEF Drops, AnyInv
<1>2. CASE Goto(t, here, there) /\ Execute(t, table, None)
  <2>1. To(t, there) /\ HandlersInv'
    BY <1>1, <1>2, GotoAny DEF StagingPlaces
  <2>2. KeepsTables /\ LockInv'
    BY <1>2, <2>1, ExecuteAny DEF Fine
  <2>3. QED
    BY <1>1, <2>1, <2>2, StepAny
<1>3. CASE Goto(t, here, "idle") /\ ~CanWrite(t) /\ UNCHANGED <<db, connections>>
  <2>1. To(t, "idle") /\ HandlersInv'
    BY <1>1, <1>3, GotoAny DEF StagingPlaces
  <2>2. KeepsTables /\ LockInv'
    BY <1>3, <2>1, RefusedAny, QuietAny
  <2>3. QED
    BY <1>1, <2>1, <2>2, StepAny
<1>4. QED
  BY <1>2, <1>3 DEF Drops, Locked

LEMMA VacuumAny == ASSUME AnyInv, NEW t \in Threads, Vacuum(t) PROVE AnyInv'
<1> DEFINE n == Name(t)
           purged == [FreshMeta EXCEPT !.version = meta[n].version + 1, !.purged = TRUE]
<1>1. at[t] = "vacuum" /\ Goto(t, "vacuum", "idle") /\ UNCHANGED <<db, open, view, writer, bundle>>
  BY DEF Vacuum, Goto
<1>2. n \in Names
  BY <1>1 DEF AnyInv, HandlersInv, Name
<1>3. Grows
  <2>1. meta' = meta \/ meta' = [meta EXCEPT ![n] = purged]
    BY DEF Vacuum
  <2>2. meta[n].version \in Nat
    BY <1>2 DEF AnyInv, HandlersInv
  <2>3. DOMAIN purged = DOMAIN FreshMeta /\ purged.version = meta[n].version + 1
    BY DEF FreshMeta
  <2>4. purged.version \in Nat /\ meta[n].version <= purged.version
    BY <2>2, <2>3
  <2> HIDE DEF purged
  <2>5. QED
    BY <1>2, <2>1, <2>3, <2>4, SameGrows, GrowsExcept DEF AnyInv
<1>4. To(t, "idle") /\ HandlersInv'
  BY <1>1, <1>3, GotoAny DEF StagingPlaces
<1>5. CASE UNCHANGED stale
  <2>1. UNCHANGED <<db, connections>>
    BY <1>1, <1>5 DEF connections
  <2>2. KeepsTables /\ LockInv'
    BY <1>1, <1>4, <2>1, HeldAny, QuietAny DEF Writing
  <2>3. QED
    BY <1>3, <1>4, <2>2, StepAny
<1>6. CASE writer = None /\ stale' = {u \in Threads : view[u] # None}
  <2>1. KeepsTables
    BY <1>1 DEF KeepsTables, Seen, AnyInv, TablesInv
  <2>2. \A u \in Threads : at'[u] # "rename"
    BY <1>4, <1>6, StoreAssumption DEF AnyInv, LockInv, To
  <2>3. LockInv'
    BY <1>1, <1>4, <1>6, <2>2 DEF AnyInv, LockInv, To
  <2>4. QED
    BY <1>3, <1>4, <2>1, <2>3, StepAny
<1>7. QED
  BY <1>5, <1>6 DEF Vacuum

LEMMA StageAny ==
  ASSUME NoneIsNoData, AnyInv, NEW t \in Threads, StageTable(t) \/ StageRows(t)
  PROVE  AnyInv'
<1> DEFINE n     == Name(t)
           empty == [Seen(t) EXCEPT ![Staging(n)] = {}]
           full  == With(Seen(t), Staging(n), job[t].rows)
<1>1. PICK here \in {"stage", "stage_rows"}, there \in {"stage_rows", "stage_commit", "abort"} :
        Goto(t, here, there)
  BY DEF StageTable, StageRows
<1>2. Grows /\ UNCHANGED bundle
  BY SameGrows DEF StageTable, StageRows, AnyInv
<1>3. at[t] = here /\ n \in Names /\ To(t, there) /\ HandlersInv'
  BY <1>1, <1>2, GotoAny DEF StagingPlaces
<1>4. FineRows(job[t].rows, meta)
  BY <1>3 DEF AnyInv, HandlersInv, StagingPlaces
<1>5. FineTables(Seen(t), meta) /\ FineTables(empty, meta)
  BY EmptyFine, ExceptFine DEF AnyInv, TablesInv, Fine
<1>6. FineTables(full, meta)
  BY <1>3, <1>4, <1>5, WithFine, OfTables
<1>7. there \in Writing /\ there # "rename"
  BY DEF Writing
<1>8. \/ CanWrite(t) /\ (Write(t, empty) \/ Publish(t, empty) \/ Write(t, full) \/ Write(t, Seen(t)))
      \/ UNCHANGED <<db, connections>> \/ LeftOpen(t)
  BY DEF StageTable, StageRows
<1> HIDE DEF empty, full
<1>9. KeepsTables /\ LockInv'
  BY <1>3, <1>5, <1>6, <1>7, <1>8, WriteAny, PublishAny, QuietAny
<1>10. QED
  BY <1>2, <1>3, <1>9, StepAny

LEMMA StageCommitAny == ASSUME AnyInv, NEW t \in Threads, StageCommit(t) PROVE AnyInv'
<1> DEFINE n == Name(t)
           record == [meta[n] EXCEPT !.importing = TRUE]
<1>1. /\ Goto(t, "stage_commit", "switch") /\ Commit(t) /\ UNCHANGED bundle
      /\ meta' = [meta EXCEPT ![n] = record]
  BY DEF StageCommit
<1>2. n \in Names
  BY <1>1 DEF Goto, AnyInv, HandlersInv, Name
<1>3. Grows
  <2>1. meta[n].version \in Nat /\ DOMAIN meta[n] = DOMAIN FreshMeta
    BY <1>2 DEF AnyInv, HandlersInv
  <2>2. DOMAIN record = DOMAIN FreshMeta /\ record.version = meta[n].version
    BY <2>1
  <2>3. record.version \in Nat /\ meta[n].version <= record.version
    BY <2>1, <2>2
  <2> HIDE DEF record
  <2>4. QED
    BY <1>1, <1>2, <2>2, <2>3, GrowsExcept DEF AnyInv
<1>4. To(t, "switch") /\ HandlersInv'
  BY <1>1, <1>3, GotoAny DEF StagingPlaces
<1>5. KeepsTables /\ LockInv'
  BY <1>1, <1>4, CommitAny
<1>6. QED
  BY <1>3, <1>4, <1>5, StepAny

LEMMA SwitchDropAny ==
  ASSUME NoneIsNoData, AnyInv, NEW t \in Threads, SwitchDrop(t) PROVE AnyInv'
<1> DEFINE d == [Seen(t) EXCEPT ![Live(Name(t))] = None]
<1>1. Grows /\ UNCHANGED bundle
  BY SameGrows DEF SwitchDrop, AnyInv
<1>2. CASE CanWrite(t) /\ Goto(t, "switch", "rename") /\ Write(t, d)
  <2>1. To(t, "rename") /\ HandlersInv'
    BY <1>1, <1>2, GotoAny DEF StagingPlaces
  <2>2. FineTables(d, meta)
    BY ExceptFine DEF AnyInv, TablesInv, Fine
  <2> HIDE DEF d
  <2>3. KeepsTables /\ LockInv'
    BY <1>2, <2>1, <2>2, WriteAny DEF Writing
  <2>4. QED
    BY <1>1, <2>1, <2>3, StepAny
<1>3. CASE Goto(t, "switch", "idle") /\ Rollback(t)
  <2>1. To(t, "idle") /\ HandlersInv'
    BY <1>1, <1>3, GotoAny DEF StagingPlaces
  <2>2. KeepsTables /\ LockInv'
    BY <1>3, <2>1, CommitAny
  <2>3. QED
    BY <1>1, <2>1, <2>2, StepAny
<1>4. QED
  BY <1>2, <1>3 DEF SwitchDrop

LEMMA SwitchRenameAny == ASSUME AnyInv, NEW t \in Threads, SwitchRename(t) PROVE AnyInv'
<1> DEFINE n == Name(t)
           e == [Seen(t) EXCEPT ![Live(n)] = Seen(t)[Staging(n)]]
           d == [e EXCEPT ![Staging(n)] = None]
           record == [FreshMeta EXCEPT !.version = meta[n].version + 1, !.index = meta[n].version + 1,
                        !.file = job[t].rows, !.total = Cardinality(job[t].rows),
                        !.exported = meta[n].exported]
<1>1. /\ at[t] = "rename" /\ Goto(t, "rename", "idle") /\ UNCHANGED bundle
      /\ Publish(t, d) \/ Rollback(t)
      /\ meta' = meta \/ meta' = [meta EXCEPT ![n] = record]
  BY DEF SwitchRename, Goto
<1>2. n \in Names /\ writer = t
  BY <1>1 DEF AnyInv, HandlersInv, LockInv, Name
<1>3. Grows
  <2>1. meta[n].version \in Nat
    BY <1>2 DEF AnyInv, HandlersInv
  <2>2. DOMAIN record = DOMAIN FreshMeta /\ record.version = meta[n].version + 1
    BY DEF FreshMeta
  <2>3. record.version \in Nat /\ meta[n].version <= record.version
    BY <2>1, <2>2
  <2> HIDE DEF record
  <2>4. QED
    BY <1>1, <1>2, <2>2, <2>3, SameGrows, GrowsExcept DEF AnyInv
<1>4. To(t, "idle") /\ HandlersInv'
  BY <1>1, <1>3, GotoAny DEF StagingPlaces
<1>5. FineTables(d, meta)
  <2>1. FineTables(Seen(t), meta) /\ Fine(Seen(t)[Staging(n)], meta)
    BY <1>2, OfTables DEF AnyInv, TablesInv, FineTables
  <2>2. FineTables(e, meta)
    BY <2>1, ExceptFine
  <2> HIDE DEF e
  <2>3. QED
    BY <2>2, ExceptFine DEF Fine
<1> HIDE DEF d
<1>6. KeepsTables /\ LockInv'
  BY <1>1, <1>2, <1>4, <1>5, PublishAny, CommitAny
<1>7. QED
  BY <1>3, <1>4, <1>6, StepAny

LEMMA RestartAny == ASSUME AnyInv, Restart PROVE AnyInv'
<1>1. /\ view' = [t \in Threads |-> None] /\ at' = [t \in Threads |-> "idle"]
      /\ job' = [t \in Threads |-> None] /\ open' = {} /\ stale' = {} /\ writer' = None
      /\ bundle' = bundle /\ meta' = [n \in Names |-> [meta[n] EXCEPT !.importing = FALSE]]
      /\ DOMAIN db' = Tables /\ \A table \in Tables : db'[table] \in {None, db[table]}
  BY DEF Restart
<1>2. Grows
  <2>1. ASSUME NEW n \in Names
        PROVE  DOMAIN meta'[n] = DOMAIN FreshMeta /\ meta'[n].version = meta[n].version
    BY <1>1 DEF AnyInv, HandlersInv, FreshMeta
  <2>2. QED
    BY <1>1, <2>1 DEF Grows, AnyInv, HandlersInv
<1>3. KeepsTables
  <2>1. FineTables(db', meta)
    BY <1>1 DEF AnyInv, TablesInv, FineTables, Fine
  <2>2. \A t \in Threads : Seen(t)' = db'
    BY <1>1 DEF Seen
  <2>3. QED
    BY <2>1, <2>2 DEF KeepsTables
<1>4. HandlersInv'
  <2>1. /\ DOMAIN bundle' = Names /\ DOMAIN job' = Threads
        /\ \A n \in Names : Fine(bundle'[n], meta')
    BY <1>1, <1>2, BundlesFine DEF AnyInv
  <2>2. \A t \in Threads : at'[t] = "idle"
    BY <1>1
  <2>3. QED
    BY <1>2, <2>1, <2>2 DEF HandlersInv, Grows, StagingPlaces
<1>5. LockInv'
  BY <1>1 DEF LockInv
<1>6. QED
  BY <1>2, <1>3, <1>4, <1>5, StepAny

LEMMA AnyStep == ASSUME NoneIsNoData, AnyInv, [Next]_vars PROVE AnyInv'
<1>1. CASE UNCHANGED vars
  <2>1. TablesInv'
    BY <1>1 DEF vars, connections, AnyInv, TablesInv, FineTables, Fine, FineRows, Brought, Seen
  <2>2. HandlersInv'
    BY <1>1 DEF vars, connections, AnyInv, HandlersInv, Fine, FineRows, Brought, Batched
  <2>3. LockInv'
    BY <1>1 DEF vars, connections, AnyInv, LockInv, Partial, RowsIn
  <2>4. QED
    BY <2>1, <2>2, <2>3 DEF AnyInv
<1>2. ASSUME NEW t \in Threads, Continues(t) PROVE AnyInv'
  <2>1. CASE PurgeStaging(t) \/ PurgeRows(t) \/ Abort(t)
    BY <2>1, DropsAny DEF PurgeStaging, PurgeRows, Abort
  <2>2. QED
    BY <1>2, <2>1, InsertRowsAny, InsertCommitAny, VacuumAny, StageAny, StageCommitAny,
       SwitchDropAny, SwitchRenameAny DEF Continues
<1>3. ASSUME NEW t \in Threads, NEW n \in Names, Starts(t, n) PROVE AnyInv'
  BY <1>3, CallInsertAny, ReadersAny, CallsAny DEF Starts
<1>4. CASE Restart
  BY <1>4, RestartAny
<1>5. QED
  BY <1>1, <1>2, <1>3, <1>4 DEF Next

LEMMA AnyInit == Init => AnyInv
<1>1. SUFFICES ASSUME Init PROVE AnyInv
  OBVIOUS
<1>2. TablesInv
  BY <1>1 DEF Init, TablesInv, FineTables, Fine, Seen
<1>3. HandlersInv
  BY <1>1 DEF Init, HandlersInv, Fine, FreshMeta, StagingPlaces
<1>4. LockInv
  BY <1>1 DEF Init, LockInv
<1>5. QED
  BY <1>2, <1>3, <1>4 DEF AnyInv

LEMMA AnyAlways == ASSUME NoneIsNoData PROVE Spec => []AnyInv
<1>1. Init => AnyInv
  BY AnyInit
<1>2. AnyInv /\ [Next]_vars => AnyInv'
  BY AnyStep
<1>3. QED
  BY <1>1, <1>2, PTL DEF Spec

\* Whichever names clash and whatever cannot be bound, connections write one at a time
\* and from the newest snapshot, and every row came with an insert that had moved its
\* collection's version first (update_data_version before insert_batch).
THEOREM OneWriter == ASSUME NoneIsNoData PROVE Spec => []TypeOK
<1>1. ASSUME AnyInv PROVE TypeOK
  <2>1. ASSUME NEW table \in Tables, NEW r \in RowsIn(db, table)
        PROVE  r.of \in Names /\ r.version \in 1..meta[r.of].version
    BY <1>1 DEF AnyInv, TablesInv, FineTables, Fine, FineRows, Brought, RowsIn
  <2>2. QED
    BY <1>1, <2>1 DEF TypeOK, AnyInv, LockInv
<1>2. QED
  BY <1>1, AnyAlways, PTL

\* insert_batch stores a whole batch or nothing of it, unless a document of the batch
\* cannot be bound; and what clashing names, other batches left in part, imports,
\* failures and crashes do to a table, they do to all the rows of an insert alike.
THEOREM InsertsWhole == ASSUME NoneIsNoData PROVE Spec => []WholeInsertsOnly
<1>1. ASSUME AnyInv PROVE WholeInsertsOnly
  <2>1. ASSUME NEW table \in Tables PROVE Whole(RowsIn(db, table))
    BY <1>1, EmptyFine DEF AnyInv, TablesInv, FineTables, Fine, FineRows, RowsIn
  <2>2. QED
    BY <2>1 DEF WholeInsertsOnly, Whole
<1>2. QED
  BY <1>1, AnyAlways, PTL

\* An idle thread holds SQLite's write lock only with part of a batch that could not be
\* bound: insert_batch's rollback, the engine's rollback_staging and commit_staging's
\* ROLLBACK let it go however else a handler fails, and whichever names clash.
THEOREM WriteLockAtWork == ASSUME NoneIsNoData PROVE Spec => []NoIdleWriter
<1>1. ASSUME AnyInv PROVE NoIdleWriter
  BY <1>1 DEF AnyInv, LockInv, NoIdleWriter, Writing, Partial
<1>2. QED
  BY <1>1, AnyAlways, PTL

-----------------------------------------------------------------------------
(* The write lock, when every document can be bound. *)

\* Where a handler has an open transaction of its own that has written.
WriterPlaces == {"commit", "stage_commit", "rename"}

WriterInv ==
  /\ DOMAIN at = Threads
  /\ writer # None =>
       writer \in Threads /\ writer \notin stale /\ at[writer] \in Writing
  /\ \A t \in Threads : at[t] \in WriterPlaces => writer = t

Moves(t, there) == at' = [at EXCEPT ![t] = there]

LEMMA PublishWriter ==
  ASSUME WriterInv, NEW t \in Threads, NEW d, Publish(t, d),
         CanWrite(t) \/ d = db \/ writer = t,
         NEW there, Moves(t, there), there \notin WriterPlaces
  PROVE  WriterInv'
<1>1. /\ writer' = IF writer = t THEN None ELSE writer
      /\ at' = [at EXCEPT ![t] = there]
      /\ d = db => stale' = stale \ {t}
  BY DEF Publish, Moves
<1>2. writer' # None => writer' = writer /\ writer # t /\ d = db
  BY <1>1 DEF CanWrite
<1>3. ASSUME NEW u \in Threads, at'[u] \in WriterPlaces PROVE writer' = u
  BY <1>1, <1>3 DEF WriterInv
<1>4. writer' # None =>
        /\ writer' \in Threads /\ writer' \notin stale'
        /\ at'[writer'] \in Writing
  BY <1>1, <1>2 DEF WriterInv
<1>5. QED
  BY <1>1, <1>3, <1>4 DEF WriterInv

LEMMA CommitWriter ==
  ASSUME WriterInv, NEW t \in Threads, Commit(t) \/ Rollback(t),
         NEW there, Moves(t, there), there \notin WriterPlaces
  PROVE  WriterInv'
BY PublishWriter DEF Commit, Rollback

LEMMA ExecuteWriter ==
  ASSUME WriterInv, NEW t \in Threads, NEW table, NEW rows, Execute(t, table, rows),
         NEW there, Moves(t, there), there \notin WriterPlaces
  PROVE  WriterInv'
BY CommitWriter, PublishWriter DEF Execute

LEMMA WriteWriter ==
  ASSUME WriterInv, NEW t \in Threads, NEW d, Write(t, d), CanWrite(t),
         NEW there, Moves(t, there), there \in Writing
  PROVE  WriterInv'
<1>1. writer' = t /\ stale' = stale /\ at' = [at EXCEPT ![t] = there] /\ t \notin stale
  BY DEF Write, CanWrite, Moves
<1>2. ASSUME NEW u \in Threads, at'[u] \in WriterPlaces PROVE u = t
  <2>1. CASE u # t
    <3>1. writer = u
      BY <1>1, <1>2, <2>1 DEF WriterInv
    <3>2. QED
      BY <3>1, <2>1, StoreAssumption DEF CanWrite
  <2>2. QED
    BY <2>1
<1>3. QED
  BY <1>1, <1>2 DEF WriterInv

LEMMA QuietWriter ==
  ASSUME WriterInv, NEW t \in Threads, UNCHANGED <<stale, writer>>, writer # t,
         NEW there, Moves(t, there), there \notin WriterPlaces
  PROVE  WriterInv'
BY DEF WriterInv, Moves

\* A thread that is not where its handler has written does not hold the write lock.
LEMMA NotWriter ==
  ASSUME WriterInv, NEW t \in Threads, at[t] \notin Writing
  PROVE  writer # t
BY StoreAssumption DEF WriterInv

LEMMA Refused == ASSUME WriterInv, NEW t \in Threads, ~CanWrite(t) PROVE writer # t
BY StoreAssumption DEF WriterInv, CanWrite

LEMMA DropsWriter ==
  ASSUME WriterInv, NEW t \in Threads, NEW here, NEW there, NEW table,
         Drops(t, here, table, there), there \notin WriterPlaces
  PROVE  WriterInv'
<1>1. CASE Goto(t, here, there) /\ Execute(t, table, None)
  BY <1>1, ExecuteWriter DEF Goto, Moves
<1>2. CASE Goto(t, here, "idle") /\ ~CanWrite(t) /\ UNCHANGED connections
  BY <1>2, Refused, QuietWriter DEF Goto, Moves, connections, WriterPlaces, Writing
<1>3. QED
  BY <1>1, <1>2 DEF Drops, Locked

LEMMA InsertWriter ==
  ASSUME Unbindable = {}, WriterInv, NEW t \in Threads, InsertRows(t) \/ InsertCommit(t)
  PROVE  WriterInv'
<1>1. CASE InsertCommit(t)
  BY <1>1, CommitWriter DEF InsertCommit, Goto, Moves, WriterPlaces, Writing
<1>2. CASE InsertRows(t)
  <2>1. writer # t
    BY <1>2, NotWriter DEF InsertRows, WriterPlaces, Writing
  <2>2. CASE Goto(t, "insert", "idle") /\ (LeftOpen(t) \/ UNCHANGED <<db, connections>>)
    BY <2>1, <2>2, QuietWriter DEF Goto, Moves, LeftOpen, connections, WriterPlaces, Writing
  <2>3. CASE Goto(t, "insert", "idle") /\ Rollback(t)
    BY <2>3, CommitWriter DEF Goto, Moves, WriterPlaces, Writing
  <2>4. CASE Goto(t, "insert", "commit") /\ CanWrite(t) /\ \E d : Write(t, d)
    BY <2>4, WriteWriter DEF Goto, Moves, WriterPlaces, Writing
  <2>5. QED
    BY <1>2, <2>2, <2>3, <2>4 DEF InsertRows, StoreRows
<1>3. QED
  BY <1>1, <1>2

LEMMA PurgeWriter ==
  ASSUME WriterInv, NEW t \in Threads, PurgeStaging(t) \/ PurgeRows(t) \/ Vacuum(t) \/ Abort(t)
  PROVE  WriterInv'
<1>1. CASE PurgeStaging(t) \/ PurgeRows(t) \/ Abort(t)
  BY <1>1, DropsWriter DEF PurgeStaging, PurgeRows, Abort, WriterPlaces, Writing
<1>2. CASE Vacuum(t)
  <2>1. writer # t /\ Moves(t, "idle") /\ writer' = writer
    BY <1>2, NotWriter DEF Vacuum, Goto, WriterPlaces, Writing, Moves
  <2>2. CASE UNCHANGED stale
    BY <2>1, <2>2, QuietWriter DEF WriterPlaces, Writing
  <2>3. CASE writer = None
    BY <2>1, <2>3 DEF WriterInv, Moves, WriterPlaces, Writing
  <2>4. QED
    BY <1>2, <2>2, <2>3 DEF Vacuum
<1>3. QED
  BY <1>1, <1>2

LEMMA StageWriter ==
  ASSUME WriterInv, NEW t \in Threads,
         StageTable(t) \/ StageRows(t) \/ StageCommit(t) \/ SwitchDrop(t) \/ SwitchRename(t)
  PROVE  WriterInv'
<1>1. CASE StageTable(t)
  <2>1. CASE CanWrite(t) /\ Goto(t, "stage", "stage_rows")
    BY <1>1, <2>1, WriteWriter, PublishWriter DEF StageTable, Goto, Moves, WriterPlaces, Writing
  <2>2. CASE ~CanWrite(t) /\ Goto(t, "stage", "abort") /\ UNCHANGED connections
    BY <2>2, Refused, QuietWriter DEF Goto, Moves, connections, WriterPlaces, Writing
  <2>3. QED
    BY <1>1, <2>1, <2>2 DEF StageTable
<1>2. CASE StageRows(t)
  <2>1. CASE CanWrite(t) /\ Goto(t, "stage_rows", "stage_commit") /\ \E d : Write(t, d)
    BY <2>1, WriteWriter DEF Goto, Moves, WriterPlaces, Writing
  <2>2. CASE ~CanWrite(t) /\ Goto(t, "stage_rows", "abort") /\ LeftOpen(t)
    BY <2>2, Refused, QuietWriter DEF Goto, Moves, LeftOpen, WriterPlaces, Writing
  <2>3. CASE CanWrite(t) /\ Goto(t, "stage_rows", "abort") /\ \E d : Write(t, d)
    BY <2>3, WriteWriter DEF Goto, Moves, WriterPlaces, Writing
  <2>4. CASE Goto(t, "stage_rows", "abort") /\ UNCHANGED connections
    BY <2>4 DEF WriterInv, Goto, connections, WriterPlaces, Writing
  <2>5. QED
    BY <1>2, <2>1, <2>2, <2>3, <2>4 DEF StageRows
<1>3. CASE StageCommit(t)
  BY <1>3, CommitWriter DEF StageCommit, Goto, Moves, WriterPlaces, Writing
<1>4. CASE SwitchDrop(t)
  BY <1>4, WriteWriter, CommitWriter DEF SwitchDrop, Goto, Moves, WriterPlaces, Writing
<1>5. CASE SwitchRename(t)
  <2>1. at[t] = "rename" /\ Moves(t, "idle") /\ \E d : Publish(t, d)
    BY <1>5 DEF SwitchRename, Rollback, Goto, Moves
  <2>2. writer = t
    BY <2>1 DEF WriterInv, WriterPlaces, Writing
  <2>3. QED
    BY <2>1, <2>2, PublishWriter DEF WriterPlaces, Writing
<1>6. QED
  BY <1>1, <1>2, <1>3, <1>4, <1>5

LEMMA StartWriter ==
  ASSUME WriterInv, NEW t \in Threads, NEW n \in Names, Starts(t, n) PROVE WriterInv'
<1>1. CASE at[t] = "idle" /\ UNCHANGED <<at, stale, writer>>
  BY <1>1 DEF WriterInv
<1>2. CASE \E there \in {"purge_staging", "stage"} :
             at[t] = "idle" /\ Moves(t, there) /\ UNCHANGED <<stale, writer>>
  BY <1>2, NotWriter, QuietWriter DEF WriterPlaces, Writing
<1>3. ASSUME NEW batch \in Batches, CallInsert(t, n, batch) PROVE WriterInv'
  BY <1>3, ExecuteWriter DEF CallInsert, Call, Moves, WriterPlaces, Writing
<1>4. QED
  BY <1>1, <1>2, <1>3
     DEF Starts, Search, Flush, Export, CallPurge, CallImport, Call, At, Reads, Moves, connections

LEMMA WriterStep == ASSUME Unbindable = {}, WriterInv, [Next]_vars PROVE WriterInv'
<1>1. CASE UNCHANGED vars
  BY <1>1 DEF vars, connections, WriterInv
<1>2. ASSUME NEW t \in Threads, Continues(t) PROVE WriterInv'
  BY <1>2, InsertWriter, PurgeWriter, StageWriter DEF Continues
<1>3. CASE Restart
  BY <1>3 DEF Restart, WriterInv, WriterPlaces, Writing
<1>4. QED
  BY <1>1, <1>2, <1>3, StartWriter DEF Next

-----------------------------------------------------------------------------
(* Row ids and versions. *)

\* The row ids are 0, 1, 2 and so on.
Dense(S) == \A i \in Nat : (\E r \in S : r.id = i) <=> i < Cardinality(S)

\* Rows of collection n that inserts up to a version have brought.
SoundRows(n, S, version) ==
  /\ S \in SUBSET Row /\ IsFiniteSet(S) /\ Dense(S)
  /\ \A r \in S : r.of = n /\ r.version <= version

Sound(n, S, version) == S = None \/ SoundRows(n, S, version)

\* What an insert of a version makes of a batch, for a table that holds S.
Labelled(n, S, batch, version) ==
  [i \in DOMAIN batch |->
     [of |-> n, id |-> Cardinality(S) + i - 1, doc |-> batch[i],
      version |-> version, batch |-> batch]]

\* What an insert of a version is about to add to S: rows that follow those of S.
NextRows(n, S, rows, version) ==
  /\ version \in 1..MaxVersion /\ \E batch \in Batches : rows = Labelled(n, S, batch, version)
  /\ rows \in Seq(Row) /\ rows # <<>>
  /\ \A i \in DOMAIN rows :
       /\ rows[i].of = n /\ rows[i].id = Cardinality(S) + i - 1
       /\ rows[i].version = version
  /\ \A r \in S : r.version < version

\* A sequence without repetitions has as many elements as it is long.
LEMMA CountDistinct ==
  ASSUME NEW S, NEW f \in Seq(S), \A i, j \in 1..Len(f) : f[i] = f[j] => i = j
  PROVE  IsFiniteSet({f[i] : i \in 1..Len(f)}) /\ Cardinality({f[i] : i \in 1..Len(f)}) = Len(f)
<1> DEFINE k == Len(f)
           T == {f[i] : i \in 1..k}
           g == [i \in 1..k |-> f[i]]
<1>1. k \in Nat
  OBVIOUS
<1>2. g \in Bijection(1..k, T)
  BY DEF Bijection, Injection, Surjection, IsInjective
<1>3. ExistsBijection(1..k, T)
  BY <1>2 DEF ExistsBijection
<1>4. IsFiniteSet(1..k) /\ Cardinality(1..k) = k
  <2> HIDE DEF k
  <2>1. QED
    BY <1>1, FS_Interval
<1>5. IsFiniteSet(T) /\ Cardinality(T) = k
  <2> HIDE DEF T, k
  <2>1. QED
    BY <1>3, <1>4, FS_Bijection
<1>6. QED
  BY <1>5

\* MAX(row_id) + 1 is the number of rows.
LEMMA NextIdIsCount ==
  ASSUME NEW S \in SUBSET Row, IsFiniteSet(S), Dense(S)
  PROVE  NextId(S) = Cardinality(S)
<1> DEFINE c == Cardinality(S)
           T == {0} \cup {r.id + 1 : r \in S}
           Fits(i) == \A r \in S : r.id < i
<1>1. c \in Nat
  BY FS_CardinalityType
<1>2. \A i \in Nat : (\E r \in S : r.id = i) <=> i < c
  BY DEF Dense
<1>3. \A r \in S : r.id \in Nat /\ r.id < c
  BY <1>2 DEF Row
<1> HIDE DEF c
<1>4. c \in T /\ Fits(c)
  <2>1. CASE c = 0
    BY <1>3, <2>1
  <2>2. CASE c # 0
    <3>1. c - 1 \in Nat /\ c - 1 < c
      BY <1>1, <2>2
    <3>2. PICK r \in S : r.id = c - 1
      BY <1>2, <3>1
    <3>3. c = r.id + 1
      BY <1>1, <3>2
    <3>4. QED
      BY <1>3, <3>3
  <2>3. QED
    BY <2>1, <2>2
<1>5. ASSUME NEW i \in T, Fits(i) PROVE i = c
  <2>1. i \in Nat /\ i <= c
    BY <1>1, <1>3
  <2>2. ~(i < c)
    <3>1. ASSUME i < c PROVE FALSE
      <4>1. PICK r \in S : r.id = i
        BY <1>2, <2>1, <3>1
      <4>2. QED
        BY <1>3, <1>5, <4>1
    <3>2. QED
      BY <3>1
  <2>3. QED
    BY <1>1, <2>1, <2>2
<1>6. NextId(S) = CHOOSE i \in T : Fits(i)
  BY DEF NextId
<1>7. NextId(S) = c
  <2> HIDE DEF T, Fits
  <2>1. QED
    BY <1>4, <1>5, <1>6
<1>8. QED
  BY <1>7 DEF c

\* What an insert adds leaves the ids dense.
LEMMA InsertedSound ==
  ASSUME NEW n, NEW S, NEW rows, NEW v \in Nat, SoundRows(n, S, v), NextRows(n, S, rows, v)
  PROVE  SoundRows(n, S \cup {rows[i] : i \in 1..Len(rows)}, v)
<1> DEFINE new == {rows[i] : i \in 1..Len(rows)}
           c == Cardinality(S)
           k == Len(rows)
<1>1. c \in Nat /\ k \in Nat /\ IsFiniteSet(S) /\ S \subseteq Row /\ rows \in Seq(Row)
  BY FS_CardinalityType DEF SoundRows, NextRows
<1>2. \A i \in 1..k : /\ rows[i] \in Row /\ rows[i].of = n /\ rows[i].id = c + i - 1
                      /\ rows[i].version = v
  BY <1>1 DEF NextRows
<1>3. IsFiniteSet(new) /\ Cardinality(new) = k
  <2>1. ASSUME NEW i \in 1..k, NEW j \in 1..k, rows[i] = rows[j] PROVE i = j
    <3>1. c + i - 1 = c + j - 1
      BY <1>2, <2>1
    <3>2. QED
      BY <1>1, <3>1
  <2>2. QED
    BY <1>1, <2>1, CountDistinct
<1>4. \A r \in S : r.id \in Nat /\ r.id < c /\ r.version \in Nat /\ r.version < v /\ r.of = n
  <2>1. \A r \in S : r.id \in Nat /\ r.version \in Nat
    BY <1>1 DEF Row
  <2>2. ASSUME NEW r \in S PROVE r.id < c
    <3>1. \A i \in Nat : (\E s \in S : s.id = i) => i < c
      BY DEF SoundRows, Dense
    <3>2. QED
      BY <2>1, <3>1
  <2>3. QED
    BY <2>1, <2>2 DEF SoundRows, NextRows
<1>5. S \cap new = {}
  BY <1>1, <1>2, <1>4
<1>6. IsFiniteSet(S \cup new) /\ Cardinality(S \cup new) = c + k
  <2> HIDE DEF new
  <2>1. Cardinality(S \cap new) = 0
    BY <1>5, FS_EmptySet
  <2>2. /\ IsFiniteSet(S \cup new)
        /\ Cardinality(S \cup new) = Cardinality(S) + Cardinality(new) - Cardinality(S \cap new)
    BY <1>1, <1>3, FS_Union
  <2>3. QED
    BY <1>1, <1>3, <2>1, <2>2
<1>7. Dense(S \cup new)
  <2>1. ASSUME NEW i \in Nat PROVE (\E r \in S \cup new : r.id = i) <=> i < c + k
    <3>1. (\E r \in S : r.id = i) <=> i < c
      BY DEF SoundRows, Dense
    <3>2. (\E r \in new : r.id = i) <=> c <= i /\ i < c + k
      <4>1. ASSUME NEW r \in new, r.id = i PROVE c <= i /\ i < c + k
        BY <1>1, <1>2, <4>1
      <4>2. ASSUME c <= i, i < c + k PROVE \E r \in new : r.id = i
        <5>1. i - c + 1 \in 1..k /\ c + (i - c + 1) - 1 = i
          BY <1>1, <4>2
        <5>2. rows[i - c + 1] \in new /\ rows[i - c + 1].id = i
          BY <1>2, <5>1
        <5>3. QED
          BY <5>2
      <4>3. QED
        BY <4>1, <4>2
    <3>3. i < c => i < c + k
      BY <1>1
    <3>4. QED
      BY <1>1, <3>1, <3>2, <3>3
  <2>2. QED
    BY <1>6, <2>1 DEF Dense
<1>8. \A r \in S \cup new : r \in Row /\ r.of = n /\ r.version <= v
  BY <1>1, <1>2, <1>4 DEF Row
<1>9. QED
  BY <1>6, <1>7, <1>8 DEF SoundRows

\* No rows at all are sound.
LEMMA EmptySound == ASSUME NEW n, NEW version PROVE SoundRows(n, {}, version)
BY FS_EmptySet DEF SoundRows, Dense

LEMMA LaterSound ==
  ASSUME NEW n, NEW S, NEW v \in Nat, NEW w \in Nat, v <= w, Sound(n, S, v)
  PROVE  Sound(n, S, w)
<1>1. \A r \in Row : r.version \in Nat
  BY DEF Row
<1>2. CASE S # None
  <2>1. \A r \in S : r \in Row /\ r.of = n /\ r.version <= v
    BY <1>2 DEF Sound, SoundRows
  <2>2. \A r \in S : r.of = n /\ r.version <= w
    BY <1>1, <2>1
  <2>3. QED
    BY <1>2, <2>2 DEF Sound, SoundRows
<1>3. QED
  BY <1>2 DEF Sound

-----------------------------------------------------------------------------
(* Transactions see whole inserts.                                         *)
(*                                                                         *)
(* RowsInv says of every thread what its connection sees and what its      *)
(* handler relies on from one statement to the next.  A step of a handler  *)
(* is shown to keep what the others rely on once, in OthersKept.           *)

SoundTables(d, records) ==
  /\ DOMAIN d = Tables
  /\ \A n \in Names : \A table \in TablesOf(n) : Sound(n, d[table], records[n].version)

\* The tables d are those committed but for the two of collection n.
AgreesBut(n, d) == DOMAIN d = Tables /\ \A table \in Tables \ TablesOf(n) : d[table] = db[table]

\* A transaction sees what is committed, an old snapshot, or, if it writes, the
\* committed tables of the other collections and its own.
ViewOf(t) ==
  /\ SoundTables(Seen(t), meta)
  /\ view[t] # None => t \in open
  /\ t \in stale => view[t] # None
  /\ writer = t => view[t] # None /\ AgreesBut(Name(t), view[t])
  /\ view[t] # None /\ t \notin stale /\ writer # t => view[t] = db

\* What a handler relies on from one of its statements to the next.
HandlerOf(t) ==
  LET n == Name(t)
  IN  /\ at[t] # "idle" => n \in Names
      /\ at[t] = "insert" =>
           view[t] = None /\ NextRows(n, RowsIn(db, Live(n)), job[t].rows, meta[n].version)
      /\ at[t] = "commit" =>
           /\ db[Live(n)] # None /\ NewDocs(db[Live(n)], job[t].rows)
           /\ NextRows(n, db[Live(n)], job[t].rows, meta[n].version)
           /\ view[t][Live(n)] = db[Live(n)] \cup {job[t].rows[i] : i \in 1..Len(job[t].rows)}
      /\ at[t] \in StagingPlaces =>
           SoundRows(n, job[t].rows, meta[n].version) /\ job[t].rows = bundle[n]
      /\ at[t] = "stage_rows" =>
           (writer = t \/ view[t] = None) /\ Seen(t)[Staging(n)] = {}
      /\ at[t] = "abort" => writer # t
      /\ at[t] \in {"stage_rows", "stage_commit"} => Seen(t)[Live(n)] = db[Live(n)]
      /\ at[t] = "switch" => view[t] = None
      /\ at[t] \in {"stage_commit", "switch", "rename"} => Seen(t)[Staging(n)] = job[t].rows

Domains ==
  /\ DOMAIN view = Threads /\ DOMAIN at = Threads /\ DOMAIN job = Threads
  /\ DOMAIN meta = Names /\ DOMAIN bundle = Names
  /\ \A n \in Names : DOMAIN meta[n] = DOMAIN FreshMeta
  /\ stale \subseteq Threads /\ open \subseteq Threads

RowsInv ==
  /\ Domains /\ WriterInv
  /\ SoundTables(db, meta)
  /\ \A n \in Names : meta[n].version \in Nat /\ Sound(n, bundle[n], meta[n].version)
  /\ \A t \in Threads : ViewOf(t) /\ HandlerOf(t)
  /\ \A t, u \in Threads : t # u /\ at[t] # "idle" /\ at[u] # "idle" => Name(t) # Name(u)

\* A step of thread t, in a handler of collection n, as every other connection and
\* every other handler finds it.
KeepsConnections(t, n) ==
  /\ DOMAIN view' = Threads /\ stale' \subseteq Threads /\ open' \subseteq Threads
  /\ AgreesBut(n, db')
  /\ db' # db => writer \in {None, t}
  /\ \A u \in Threads \ {t} :
       /\ view'[u] = view[u] /\ (u \in open' <=> u \in open) /\ (writer' = u <=> writer = u)
       /\ u \in stale => u \in stale'
       /\ u \in stale' => view[u] # None
       /\ db' # db /\ view[u] # None => u \in stale'

KeepsRecords(n) ==
  /\ DOMAIN meta' = Names /\ \A m \in Names \ {n} : meta'[m] = meta[m]
  /\ DOMAIN meta'[n] = DOMAIN FreshMeta
  /\ meta'[n].version \in Nat /\ meta[n].version <= meta'[n].version

KeepsHandlers(t, n) ==
  /\ KeepsRecords(n)
  /\ DOMAIN at' = Threads /\ DOMAIN job' = Threads /\ DOMAIN bundle' = Names
  /\ \A u \in Threads \ {t} : at'[u] = at[u] /\ job'[u] = job[u]
  /\ \A m \in Names \ {n} : bundle'[m] = bundle[m]
  /\ IF at[t] = "idle" THEN Idle(n) ELSE Name(t) = n
  /\ at'[t] # "idle" => job'[t].name = n

\* And what it has to leave behind of its own.
Leaves(t, n) ==
  /\ SoundTables(db', meta') /\ Sound(n, bundle'[n], meta'[n].version)
  /\ ViewOf(t)' /\ HandlerOf(t)'
  /\ db[Live(n)] # None /\ db'[Live(n)] = None => at[t] = "purge_rows"

Proper(t, n) == KeepsConnections(t, n) /\ KeepsHandlers(t, n) /\ Leaves(t, n)

\* What was sound stays so: versions only grow.
LEMMA LaterTables ==
  ASSUME RowsInv, NEW n \in Names, KeepsRecords(n), NEW d, SoundTables(d, meta)
  PROVE  SoundTables(d, meta')
<1>1. \A m \in Names : /\ meta[m].version \in Nat /\ meta'[m].version \in Nat
                       /\ meta[m].version <= meta'[m].version
  BY DEF KeepsRecords, RowsInv
<1>2. ASSUME NEW m \in Names, NEW table \in TablesOf(m)
      PROVE  Sound(m, d[table], meta'[m].version)
  BY <1>1, LaterSound DEF SoundTables
<1>3. QED
  BY <1>2 DEF SoundTables

LEMMA Distinct ==
  ASSUME SeparateNames, NEW m \in Names, NEW n \in Names, m # n
  PROVE  /\ Live(m) \in Tables \ TablesOf(n) /\ Staging(m) \in Tables \ TablesOf(n)
         /\ Live(n) # Staging(n)
BY DEF SeparateNames, TablesOf, Tables

\* The other handlers find what they rely on.
LEMMA OthersKept ==
  ASSUME SeparateNames, RowsInv, NEW t \in Threads, NEW n \in Names,
         KeepsConnections(t, n), KeepsHandlers(t, n), SoundTables(db', meta'),
         NEW u \in Threads, u # t
  PROVE  ViewOf(u)' /\ HandlerOf(u)' /\ (at[u] # "idle" => Name(u) # n)
<1> DEFINE m == Name(u)
<1>1. /\ view'[u] = view[u] /\ (u \in open' <=> u \in open) /\ (writer' = u <=> writer = u)
      /\ u \in stale => u \in stale'
      /\ u \in stale' => view[u] # None
      /\ db' # db /\ view[u] # None => u \in stale'
      /\ at'[u] = at[u] /\ job'[u] = job[u] /\ Name(u)' = m
  BY DEF KeepsConnections, KeepsHandlers, Name
<1>2. ViewOf(u) /\ HandlerOf(u) /\ None \notin Threads
  BY StoreAssumption DEF RowsInv
<1>3. at[u] # "idle" => m # n
  BY DEF KeepsHandlers, Idle, RowsInv, Name
<1>4. SoundTables(Seen(u)', meta')
  <2>1. CASE view[u] = None
    BY <1>1, <2>1 DEF Seen
  <2>2. CASE view[u] # None
    <3>1. SoundTables(view[u], meta)
      BY <1>2, <2>2 DEF ViewOf, Seen
    <3>2. SoundTables(view[u], meta')
      BY <3>1, LaterTables DEF KeepsHandlers
    <3>3. QED
      BY <1>1, <2>2, <3>2 DEF Seen
  <2>3. QED
    BY <2>1, <2>2
<1>5. writer' = u => db' = db
  BY <1>1, <1>2 DEF KeepsConnections
<1>6. ViewOf(u)'
  <2>1. writer' = u => view'[u] # None /\ AgreesBut(Name(u), view[u])'
    BY <1>1, <1>2, <1>5 DEF ViewOf, AgreesBut
  <2>2. view'[u] # None /\ u \notin stale' /\ writer' # u => view'[u] = db'
    BY <1>1, <1>2 DEF ViewOf
  <2>3. QED
    BY <1>1, <1>2, <1>4, <2>1, <2>2 DEF ViewOf
<1>7. HandlerOf(u)'
  <2>1. CASE at[u] = "idle"
    BY <1>1, <2>1 DEF HandlerOf, StagingPlaces
  <2>2. CASE at[u] # "idle"
    <3>1. m \in Names /\ m # n
      BY <1>2, <1>3, <2>2 DEF HandlerOf
    <3>2. meta'[m] = meta[m]
      BY <3>1 DEF KeepsHandlers, KeepsRecords
    <3>3. db'[Live(m)] = db[Live(m)] /\ db'[Staging(m)] = db[Staging(m)]
      BY <3>1, Distinct DEF KeepsConnections, AgreesBut
    <3>4. Seen(u)'[Live(m)] = Seen(u)[Live(m)] /\ Seen(u)'[Staging(m)] = Seen(u)[Staging(m)]
      BY <1>1, <3>3 DEF Seen
    <3>5. RowsIn(db', Live(m)) = RowsIn(db, Live(m)) /\ bundle'[m] = bundle[m]
      BY <3>1, <3>3 DEF RowsIn, KeepsHandlers
    <3>6. QED
      BY <1>1, <1>2, <3>1, <3>2, <3>3, <3>4, <3>5 DEF HandlerOf
  <2>3. QED
    BY <2>1, <2>2
<1>8. QED
  BY <1>3, <1>6, <1>7

LEMMA ProperStep ==
  ASSUME SeparateNames, RowsInv, WriterInv', NEW t \in Threads, NEW n \in Names, Proper(t, n)
  PROVE  RowsInv'
<1>1. \A u \in Threads : ViewOf(u)' /\ HandlerOf(u)'
  BY OthersKept DEF Proper, Leaves
<1>2. \A m \in Names : meta'[m].version \in Nat /\ Sound(m, bundle'[m], meta'[m].version)
  BY DEF Proper, KeepsHandlers, KeepsRecords, Leaves, RowsInv
<1>3. ASSUME NEW u \in Threads, NEW w \in Threads, u # w, at'[u] # "idle", at'[w] # "idle"
      PROVE  job'[u].name # job'[w].name
  <2>1. \A x \in Threads \ {t} : at[x] # "idle" => Name(x) # n
    BY OthersKept DEF Proper, Leaves
  <2>2. CASE u # t /\ w # t
    BY <1>3, <2>2 DEF Proper, KeepsHandlers, RowsInv, Name
  <2>3. CASE u = t \/ w = t
    BY <1>3, <2>1, <2>3 DEF Proper, KeepsHandlers, Name
  <2>4. QED
    BY <2>2, <2>3
<1>4. Domains'
  BY DEF Proper, KeepsHandlers, KeepsRecords, KeepsConnections, RowsInv, Domains
<1>5. QED
  BY <1>1, <1>2, <1>3, <1>4 DEF RowsInv, Proper, Leaves, Name

-----------------------------------------------------------------------------
(* What the statements of a connection do. *)

LEMMA SoundExcept ==
  ASSUME SeparateNames, NEW d, NEW records, SoundTables(d, records),
         NEW n \in Names, NEW table \in TablesOf(n),
         NEW rows, Sound(n, rows, records[n].version)
  PROVE  SoundTables([d EXCEPT ![table] = rows], records)
<1>1. ASSUME NEW m \in Names, NEW other \in TablesOf(m)
      PROVE  Sound(m, [d EXCEPT ![table] = rows][other], records[m].version)
  <2>1. other \in Tables
    BY DEF TablesOf, Tables
  <2>2. CASE other = table
    BY <2>1, <2>2, OneOwner DEF SoundTables
  <2>3. CASE other # table
    BY <2>1, <2>3 DEF SoundTables
  <2>4. QED
    BY <2>2, <2>3
<1>2. QED
  BY <1>1 DEF SoundTables

LEMMA AgreesExcept ==
  ASSUME NEW n \in Names, NEW d, AgreesBut(n, d), NEW table \in TablesOf(n), NEW rows
  PROVE  AgreesBut(n, [d EXCEPT ![table] = rows])
BY DEF AgreesBut

\* A connection that may write sees the newest tables of every other collection, and
\* before it has written all of them.
LEMMA SeenFresh ==
  ASSUME RowsInv, NEW t \in Threads, t \notin stale
  PROVE  /\ AgreesBut(Name(t), Seen(t))
         /\ writer # t => Seen(t) = db
<1>1. ViewOf(t) /\ DOMAIN db = Tables
  BY DEF RowsInv, SoundTables
<1>2. QED
  BY <1>1 DEF ViewOf, Seen, AgreesBut

LEMMA Published ==
  ASSUME RowsInv, NEW t \in Threads, NEW n \in Names, KeepsRecords(n),
         NEW d, Publish(t, d), AgreesBut(n, d), SoundTables(d, meta'),
         d = db \/ writer \in {None, t}
  PROVE  /\ KeepsConnections(t, n) /\ SoundTables(db', meta') /\ ViewOf(t)'
         /\ db' = d /\ view'[t] = None /\ Seen(t)' = d
<1>1. /\ db' = d /\ view' = [view EXCEPT ![t] = None] /\ open' = open \ {t}
      /\ stale' = IF d = db THEN stale \ {t} ELSE {u \in Threads \ {t} : view[u] # None}
      /\ writer' = IF writer = t THEN None ELSE writer
  BY DEF Publish
<1>2. /\ DOMAIN view = Threads /\ stale \subseteq Threads /\ open \subseteq Threads
      /\ None \notin Threads
      /\ \A u \in Threads : u \in stale => view[u] # None
  BY StoreAssumption DEF RowsInv, Domains, ViewOf
<1>3. view'[t] = None /\ Seen(t)' = d /\ writer' # t /\ t \notin stale'
  BY <1>1, <1>2 DEF Seen
<1>4. KeepsConnections(t, n)
  <2>1. ASSUME NEW u \in Threads \ {t}
        PROVE  /\ view'[u] = view[u] /\ (u \in open' <=> u \in open) /\ (writer' = u <=> writer = u)
               /\ u \in stale => u \in stale'
               /\ u \in stale' => view[u] # None
               /\ db' # db /\ view[u] # None => u \in stale'
    BY <1>1, <1>2
  <2>2. DOMAIN view' = Threads /\ stale' \subseteq Threads /\ open' \subseteq Threads
    BY <1>1, <1>2
  <2>3. AgreesBut(n, db') /\ (db' # db => writer \in {None, t})
    BY <1>1
  <2>4. QED
    BY <2>1, <2>2, <2>3 DEF KeepsConnections
<1>5. ViewOf(t)'
  BY <1>3 DEF ViewOf
<1>6. QED
  BY <1>1, <1>3, <1>4, <1>5

LEMMA Written ==
  ASSUME NoneIsNoData, RowsInv, NEW t \in Threads, NEW n \in Names, KeepsRecords(n),
         NEW d, Write(t, d), CanWrite(t), AgreesBut(n, d), SoundTables(d, meta'),
         job'[t].name = n
  PROVE  /\ KeepsConnections(t, n) /\ SoundTables(db', meta') /\ ViewOf(t)'
         /\ db' = db /\ view'[t] = d /\ Seen(t)' = d /\ writer' = t
<1>1. /\ db' = db /\ view' = [view EXCEPT ![t] = d] /\ open' = open \cup {t}
      /\ stale' = stale /\ writer' = t
  BY DEF Write
<1>2. /\ DOMAIN view = Threads /\ stale \subseteq Threads /\ open \subseteq Threads
      /\ None \notin Threads /\ writer \in {None, t} /\ t \notin stale
      /\ \A u \in Threads : u \in stale => view[u] # None
      /\ SoundTables(db, meta) /\ d # None
  BY StoreAssumption DEF RowsInv, Domains, ViewOf, CanWrite, NoneIsNoData, AgreesBut
<1>3. view'[t] = d /\ Seen(t)' = d
  BY <1>1, <1>2 DEF Seen
<1>4. AgreesBut(n, db') /\ SoundTables(db', meta')
  BY <1>1, <1>2, LaterTables DEF AgreesBut, SoundTables
<1>5. KeepsConnections(t, n)
  <2>1. ASSUME NEW u \in Threads \ {t}
        PROVE  /\ view'[u] = view[u] /\ (u \in open' <=> u \in open) /\ (writer' = u <=> writer = u)
               /\ u \in stale => u \in stale'
               /\ u \in stale' => view[u] # None
               /\ db' # db /\ view[u] # None => u \in stale'
    BY <1>1, <1>2
  <2>2. QED
    BY <1>1, <1>2, <1>4, <2>1 DEF KeepsConnections
<1>6. ViewOf(t)'
  <2>1. AgreesBut(Name(t), view[t])'
    BY <1>1, <1>3 DEF AgreesBut, Name
  <2>2. QED
    BY <1>1, <1>2, <1>3, <2>1 DEF ViewOf
<1>7. QED
  BY <1>1, <1>3, <1>4, <1>5, <1>6

\* SELECTs, a BEGIN alone, and nothing at all.
LEMMA Read ==
  ASSUME NoneIsNoData, RowsInv, NEW t \in Threads, writer # t, NEW n \in Names, KeepsRecords(n),
         Reads(t) \/ LeftOpen(t) \/ UNCHANGED <<db, connections>>
  PROVE  /\ KeepsConnections(t, n) /\ SoundTables(db', meta') /\ ViewOf(t)' /\ db' = db
<1>1. /\ db' = db /\ stale' = stale /\ writer' = writer /\ DOMAIN view' = Threads
      /\ open' \in {open, open \cup {t}}
      /\ \A u \in Threads \ {t} : view'[u] = view[u]
  BY DEF Reads, LeftOpen, connections, RowsInv, Domains
<1>2. /\ stale \subseteq Threads /\ open \subseteq Threads
      /\ \A u \in Threads : u \in stale => view[u] # None
      /\ SoundTables(db, meta)
  BY DEF RowsInv, Domains, ViewOf
<1>3. ViewOf(t) /\ Seen(t) # None
  BY DEF RowsInv, ViewOf, SoundTables, NoneIsNoData
<1>4. /\ Seen(t)' = Seen(t) /\ (view'[t] # None => t \in open')
      /\ t \in stale => view'[t] # None
      /\ view'[t] # None => view'[t] = Seen(t)
  <2>1. CASE Reads(t)
    <3>1. view'[t] = (IF t \in open THEN Seen(t) ELSE None) /\ open' = open
      BY <2>1 DEF Reads, RowsInv, Domains
    <3>2. QED
      BY <1>1, <1>3, <3>1 DEF Seen, ViewOf
  <2>2. CASE LeftOpen(t) \/ UNCHANGED <<db, connections>>
    BY <1>3, <2>2 DEF LeftOpen, connections, Seen, ViewOf
  <2>3. QED
    BY <2>1, <2>2
<1>5. AgreesBut(n, db') /\ SoundTables(db', meta') /\ SoundTables(Seen(t), meta')
  BY <1>1, <1>2, <1>3, LaterTables DEF AgreesBut, SoundTables, ViewOf
<1>6. KeepsConnections(t, n)
  BY <1>1, <1>2, <1>5 DEF KeepsConnections
<1>7. ViewOf(t)'
  <2>1. view[t] # None /\ t \notin stale => Seen(t) = db
    BY SeenFresh
  <2>2. t \notin stale => Seen(t) = db
    BY <2>1 DEF Seen
  <2>3. QED
    BY <1>1, <1>3, <1>4, <1>5, <2>2 DEF ViewOf
<1>8. QED
  BY <1>1, <1>5, <1>6, <1>7

\* One DDL statement leaves the committed tables as they are, or changes its own one.
LEMMA Executed ==
  ASSUME SeparateNames, RowsInv, NEW t \in Threads, writer # t,
         NEW n \in Names, KeepsRecords(n), NEW table \in TablesOf(n),
         NEW rows, Execute(t, table, rows), Sound(n, rows, meta'[n].version)
  PROVE  /\ KeepsConnections(t, n) /\ SoundTables(db', meta') /\ ViewOf(t)'
         /\ view'[t] = None
         /\ \/ db' = db /\ Seen(t)[table] = rows
            \/ db' = [db EXCEPT ![table] = rows] /\ Seen(t) = db
<1>1. SoundTables(db, meta') /\ AgreesBut(n, db)
  BY LaterTables DEF RowsInv, SoundTables, AgreesBut
<1>2. CASE [Seen(t) EXCEPT ![table] = rows] = Seen(t)
  <2>1. Publish(t, db)
    BY <1>2 DEF Execute, Commit
  <2>2. table \in DOMAIN Seen(t)
    BY DEF RowsInv, ViewOf, SoundTables, TablesOf, Tables
  <2>3. Seen(t)[table] = rows
    BY <1>2, <2>2
  <2>4. QED
    BY <1>1, <2>1, <2>3, Published
<1>3. CASE [Seen(t) EXCEPT ![table] = rows] # Seen(t)
  <2>1. CanWrite(t) /\ Publish(t, [Seen(t) EXCEPT ![table] = rows])
    BY <1>3 DEF Execute
  <2>2. Seen(t) = db /\ writer \in {None, t}
    BY <2>1, SeenFresh DEF CanWrite
  <2>3. SoundTables([db EXCEPT ![table] = rows], meta') /\ AgreesBut(n, [db EXCEPT ![table] = rows])
    BY <1>1, SoundExcept, AgreesExcept
  <2>4. QED
    BY <2>1, <2>2, <2>3, Published
<1>4. QED
  BY <1>2, <1>3

-----------------------------------------------------------------------------
(* Each step of a handler is proper. *)

LEMMA SameRecords == ASSUME RowsInv, NEW n \in Names, UNCHANGED meta PROVE KeepsRecords(n)
BY DEF RowsInv, Domains, KeepsRecords

LEMMA NewRecord ==
  ASSUME RowsInv, NEW n \in Names, NEW record, meta' = [meta EXCEPT ![n] = record],
         DOMAIN record = DOMAIN FreshMeta, record.version \in Nat,
         meta[n].version <= record.version
  PROVE  KeepsRecords(n)
BY DEF RowsInv, Domains, KeepsRecords

\* A handler at work moves on, or ends.
LEMMA GotoKeeps ==
  ASSUME RowsInv, NEW t \in Threads, NEW here, here # "idle", NEW there, Goto(t, here, there),
         UNCHANGED bundle
  PROVE  /\ Name(t) \in Names /\ at[t] = here /\ at'[t] = there
         /\ there # "idle" => job'[t] = job[t]
         /\ KeepsRecords(Name(t)) =>
              /\ KeepsHandlers(t, Name(t))
              /\ Sound(Name(t), bundle'[Name(t)], meta'[Name(t)].version)
<1>1. /\ at[t] = here /\ at' = [at EXCEPT ![t] = there]
      /\ job' = [job EXCEPT ![t] = IF there = "idle" THEN None ELSE @]
      /\ DOMAIN at = Threads /\ DOMAIN job = Threads /\ DOMAIN bundle = Names
  BY DEF Goto, RowsInv, Domains
<1>2. Name(t) \in Names
  BY <1>1 DEF RowsInv, HandlerOf
<1>3. Sound(Name(t), bundle[Name(t)], meta[Name(t)].version) /\ meta[Name(t)].version \in Nat
  BY <1>2 DEF RowsInv
<1>4. ASSUME KeepsRecords(Name(t))
      PROVE  Sound(Name(t), bundle'[Name(t)], meta'[Name(t)].version)
  BY <1>2, <1>3, <1>4, LaterSound DEF KeepsRecords
<1>5. ASSUME KeepsRecords(Name(t)) PROVE KeepsHandlers(t, Name(t))
  BY <1>1, <1>2, <1>5 DEF KeepsHandlers, Name
<1>6. QED
  BY <1>1, <1>2, <1>4, <1>5

\* A handler starts.
LEMMA CallKeeps ==
  ASSUME RowsInv, NEW t \in Threads, NEW n \in Names, NEW there, there # "idle", NEW rows,
         Call(t, n, there, rows), UNCHANGED bundle
  PROVE  /\ at[t] = "idle" /\ at'[t] = there /\ job'[t] = [name |-> n, rows |-> rows]
         /\ KeepsRecords(n) =>
              KeepsHandlers(t, n) /\ Sound(n, bundle'[n], meta'[n].version)
<1>1. /\ at[t] = "idle" /\ at' = [at EXCEPT ![t] = there] /\ Idle(n)
      /\ job' = [job EXCEPT ![t] = [name |-> n, rows |-> rows]]
      /\ DOMAIN at = Threads /\ DOMAIN job = Threads /\ DOMAIN bundle = Names
  BY DEF Call, RowsInv, Domains
<1>2. Sound(n, bundle[n], meta[n].version) /\ meta[n].version \in Nat
  BY DEF RowsInv
<1>3. ASSUME KeepsRecords(n) PROVE KeepsHandlers(t, n)
  BY <1>1, <1>3 DEF KeepsHandlers
<1>4. ASSUME KeepsRecords(n) PROVE Sound(n, bundle'[n], meta'[n].version)
  BY <1>2, <1>4, LaterSound DEF KeepsRecords
<1>5. QED
  BY <1>1, <1>3, <1>4

LEMMA IdleHandler == ASSUME NEW t \in Threads, at'[t] = "idle" PROVE HandlerOf(t)'
BY DEF HandlerOf, StagingPlaces

\* A step that leaves the committed tables and ends its handler, or only starts one.
LEMMA QuietEnd ==
  ASSUME NoneIsNoData, RowsInv, NEW t \in Threads, writer # t, NEW here, here # "idle",
         Goto(t, here, "idle"), UNCHANGED <<meta, bundle>>,
         Reads(t) \/ LeftOpen(t) \/ UNCHANGED <<db, connections>> \/ Rollback(t)
  PROVE  Proper(t, Name(t))
<1> DEFINE n == Name(t)
<1>1. n \in Names /\ at'[t] = "idle" /\ KeepsRecords(n)
  BY GotoKeeps, SameRecords
<1>2. KeepsHandlers(t, n) /\ Sound(n, bundle'[n], meta'[n].version)
  BY <1>1, GotoKeeps
<1>3. KeepsConnections(t, n) /\ SoundTables(db', meta') /\ ViewOf(t)' /\ db' = db
  <2>1. CASE Rollback(t)
    <3>1. SoundTables(db, meta') /\ AgreesBut(n, db)
      BY <1>1, LaterTables DEF RowsInv, SoundTables, AgreesBut
    <3>2. QED
      BY <1>1, <2>1, <3>1, Published DEF Rollback
  <2>2. CASE ~Rollback(t)
    BY <1>1, <2>2, Read
  <2>3. QED
    BY <2>1, <2>2
<1>4. QED
  BY <1>1, <1>2, <1>3, IdleHandler DEF Proper, Leaves

LEMMA InsertRowsProper ==
  ASSUME NoneIsNoData, SeparateNames, Unbindable = {}, RowsInv, NEW t \in Threads, InsertRows(t)
  PROVE  Proper(t, Name(t))
<1> DEFINE n     == Name(t)
           rows  == job[t].rows
           table == RowsIn(db, Live(n))
           k     == Stopper(rows, table)
           v     == meta[n].version
<1>1. /\ at[t] = "insert" /\ n \in Names /\ view[t] = None /\ NextRows(n, table, rows, v)
      /\ UNCHANGED <<meta, bundle>> /\ v \in Nat
  BY DEF InsertRows, RowsInv, HandlerOf
<1>2. writer # t /\ Seen(t) = db /\ Live(n) \in TablesOf(n) /\ Live(n) \in Tables
  BY <1>1, NotWriter DEF RowsInv, WriterPlaces, Writing, Seen, TablesOf, Tables
<1>3. CASE Goto(t, "insert", "idle") /\ (UNCHANGED <<db, connections>> \/ LeftOpen(t) \/ Rollback(t))
  BY <1>1, <1>2, <1>3, QuietEnd
<1>4. CASE /\ Goto(t, "insert", "commit") /\ CanWrite(t) /\ k > Len(rows)
           /\ db[Live(n)] # None /\ Write(t, With(db, Live(n), FirstRows(rows, k - 1)))
  <2>1. rows \in Seq(Row) /\ Len(rows) \in Nat
    BY <1>1 DEF NextRows
  <2>2. k = Len(rows) + 1 /\ NewDocs(table, rows)
    <3> HIDE DEF k, rows, table
    <3>1. k \in 1..(Len(rows) + 1) /\ (k = Len(rows) + 1 => NewDocs(table, rows))
      BY <2>1, StopperExists DEF k
    <3>2. QED
      BY <1>4, <2>1, <3>1
  <2>3. FirstRows(rows, k - 1) = {rows[i] : i \in 1..Len(rows)}
    <3>1. DOMAIN rows = 1..Len(rows) /\ k - 1 = Len(rows)
      BY <2>1, <2>2
    <3>2. DOMAIN rows \cap 1..(k - 1) = 1..Len(rows)
      BY <3>1
    <3>3. QED
      BY <3>2 DEF FirstRows
  <2>4. table = db[Live(n)] /\ SoundRows(n, table, v)
    BY <1>1, <1>2, <1>4 DEF RowsIn, RowsInv, SoundTables, Sound
  <2> DEFINE full == table \cup {rows[i] : i \in 1..Len(rows)}
             d    == [db EXCEPT ![Live(n)] = full]
  <2>5. SoundRows(n, full, v)
    BY <1>1, <2>4, InsertedSound
  <2>6. full # None
    BY <2>5 DEF SoundRows, NoneIsNoData
  <2>7. Write(t, d)
    BY <1>4, <2>3 DEF With
  <2>8. job'[t] = job[t] /\ at'[t] = "commit" /\ KeepsRecords(n)
    BY <1>1, <1>4, GotoKeeps, SameRecords
  <2>9. KeepsHandlers(t, n) /\ Sound(n, bundle'[n], meta'[n].version)
    BY <1>1, <1>4, <2>8, GotoKeeps
  <2>10. AgreesBut(n, d) /\ SoundTables(d, meta')
    <3>1. AgreesBut(n, db) /\ SoundTables(db, meta) /\ meta' = meta
      BY <1>1 DEF RowsInv, SoundTables, AgreesBut
    <3>2. Sound(n, full, meta[n].version)
      BY <2>5 DEF Sound
    <3>3. AgreesBut(n, d)
      BY <1>1, <1>2, <3>1, AgreesExcept
    <3>4. SoundTables(d, meta)
      BY <1>1, <1>2, <3>1, <3>2, SoundExcept
    <3>5. QED
      BY <3>1, <3>3, <3>4
  <2>11. /\ KeepsConnections(t, n) /\ SoundTables(db', meta') /\ ViewOf(t)'
         /\ db' = db /\ view'[t] = d
    <3> HIDE DEF d
    <3>1. job'[t].name = n
      BY <2>8 DEF Name
    <3>2. QED
      BY <1>1, <1>4, <2>7, <2>8, <2>10, <3>1, Written
  <2>12. view'[t][Live(n)] = full
    <3>1. DOMAIN db = Tables
      BY DEF RowsInv, SoundTables
    <3>2. QED
      BY <1>2, <2>11, <3>1
  <2>13. HandlerOf(t)'
    <3>1. Name(t)' = n /\ job'[t].rows = rows /\ db'[Live(n)] = table /\ meta'[n].version = v
      BY <1>1, <2>4, <2>8, <2>11 DEF Name
    <3>2. NewDocs(table, rows) /\ NextRows(n, table, rows, v) /\ table # None
      BY <1>1, <1>4, <2>2, <2>4
    <3> HIDE DEF table, rows, v
    <3>3. QED
      BY <1>1, <2>8, <2>12, <3>1, <3>2 DEF HandlerOf, StagingPlaces
  <2>14. QED
    BY <2>9, <2>11, <2>13 DEF Proper, Leaves
<1>5. QED
  BY <1>1, <1>2, <1>3, <1>4 DEF InsertRows, StoreRows

LEMMA CallInsertProper ==
  ASSUME NoneIsNoData, SeparateNames, RowsInv, NEW t \in Threads, NEW n \in Names,
         NEW batch \in Batches, CallInsert(t, n, batch)
  PROVE  Proper(t, n)
<1> DEFINE table == Seen(t)[Live(n)]
           rows  == IF table = None THEN {} ELSE table
           S     == RowsIn(db', Live(n))
           v     == meta[n].version
           new   == NewRows(n, batch)
<1>1. /\ Execute(t, Live(n), rows) /\ Call(t, n, "insert", new) /\ UNCHANGED bundle
      /\ meta' = [meta EXCEPT ![n].version = @ + 1]
  BY DEF CallInsert
<1>2. v \in Nat /\ DOMAIN meta = Names /\ DOMAIN meta[n] = DOMAIN FreshMeta
  BY DEF RowsInv, Domains
<1>3. "version" \in DOMAIN FreshMeta
  BY DEF FreshMeta
<1>4. meta'[n].version = v + 1 /\ KeepsRecords(n)
  <2>1. meta' = [meta EXCEPT ![n] = [meta[n] EXCEPT !.version = v + 1]]
    BY <1>1
  <2> DEFINE record == [meta[n] EXCEPT !.version = v + 1]
  <2>2. DOMAIN record = DOMAIN FreshMeta /\ record.version = v + 1
    BY <1>2, <1>3
  <2>3. meta'[n] = record
    BY <1>2, <2>1
  <2>4. v + 1 \in Nat /\ v <= v + 1
    BY <1>2
  <2> HIDE DEF record
  <2>5. KeepsRecords(n)
    BY <2>1, <2>2, <2>4, NewRecord DEF record
  <2>6. QED
    BY <2>2, <2>3, <2>5
<1>5. /\ at[t] = "idle" /\ at'[t] = "insert" /\ job'[t] = [name |-> n, rows |-> new]
      /\ KeepsHandlers(t, n) /\ Sound(n, bundle'[n], meta'[n].version)
  <2> HIDE DEF new
  <2>1. QED
    BY <1>1, <1>4, CallKeeps
<1>6. writer # t /\ Live(n) \in TablesOf(n) /\ Live(n) \in Tables
  BY <1>5, NotWriter DEF RowsInv, WriterPlaces, Writing, TablesOf, Tables
<1>7. SoundTables(db, meta) /\ SoundTables(Seen(t), meta)
  BY DEF RowsInv, ViewOf
<1>8. SoundRows(n, rows, v) /\ rows # None
  <2>1. Sound(n, table, v)
    BY <1>6, <1>7 DEF SoundTables
  <2>2. SoundRows(n, rows, v)
    BY <2>1, EmptySound DEF Sound
  <2>3. QED
    BY <2>2 DEF SoundRows, NoneIsNoData
<1>9. Sound(n, rows, v + 1) /\ Sound(n, rows, v)
  BY <1>2, <1>8, LaterSound DEF Sound
<1> HIDE DEF rows
<1>10. /\ KeepsConnections(t, n) /\ SoundTables(db', meta') /\ ViewOf(t)' /\ view'[t] = None
       /\ \/ db' = db /\ Seen(t)[Live(n)] = rows
          \/ db' = [db EXCEPT ![Live(n)] = rows] /\ Seen(t) = db
  <2> HIDE DEF v
  <2>1. Execute(t, Live(n), rows)
    BY <1>1 DEF rows
  <2>2. Sound(n, rows, meta'[n].version)
    BY <1>4, <1>9
  <2>3. QED
    BY <1>4, <1>6, <2>1, <2>2, Executed
<1>11. SoundTables(db', meta)
  BY <1>6, <1>7, <1>9, <1>10, SoundExcept
<1>12. db[Live(n)] # None => db'[Live(n)] # None
  BY <1>6, <1>7, <1>8, <1>10 DEF SoundTables
<1>13. SoundRows(n, S, v)
  <2>1. Sound(n, db'[Live(n)], v)
    BY <1>6, <1>11 DEF SoundTables
  <2>2. QED
    BY <2>1, EmptySound DEF Sound, RowsIn
<1>14. NextRows(n, S, new, v + 1)
  <2>1. NextId(S) = Cardinality(S) /\ Cardinality(S) \in Nat
    BY <1>13, NextIdIsCount, FS_CardinalityType DEF SoundRows
  <2>2. batch \in Seq(Docs) /\ batch # <<>>
    BY StoreAssumption
  <2>3. Len(batch) \in Nat \ {0} /\ DOMAIN batch = 1..Len(batch)
    BY <2>2
  <2>4. new = [i \in 1..Len(batch) |->
                [of |-> n, id |-> Cardinality(S) + i - 1, doc |-> batch[i],
                 version |-> v + 1, batch |-> batch]]
    BY <2>1, <2>3 DEF NewRows
  <2>5. \A i \in 1..Len(batch) :
          [of |-> n, id |-> Cardinality(S) + i - 1, doc |-> batch[i],
           version |-> v + 1, batch |-> batch] \in Row
    BY <1>2, <2>1, <2>2, <2>3 DEF Row
  <2> HIDE DEF S, v, new
  <2>6. new \in Seq(Row) /\ Len(new) = Len(batch) /\ new # <<>>
    BY <2>3, <2>4, <2>5
  <2>7. \A i \in DOMAIN new :
          /\ new[i].of = n /\ new[i].id = Cardinality(S) + i - 1
          /\ new[i].version = v + 1
    BY <2>3, <2>4, <2>6
  <2>8. \A r \in S : r.version < v + 1
    <3>1. \A r \in S : r.version \in Nat /\ r.version <= v
      BY <1>13 DEF SoundRows, Row
    <3>2. QED
      BY <1>2, <3>1 DEF v
  <2>9. v + 1 \in 1..MaxVersion /\ new = Labelled(n, S, batch, v + 1)
    <3>1. new = Labelled(n, S, batch, v + 1)
      BY <2>3, <2>4 DEF Labelled
    <3>2. v < MaxVersion /\ MaxVersion \in Nat
      BY StoreAssumption DEF CallInsert, v
    <3>3. v + 1 \in 1..MaxVersion
      BY <1>2, <3>2 DEF v
    <3>4. QED
      BY <3>1, <3>3
  <2>10. QED
    BY <2>6, <2>7, <2>8, <2>9 DEF NextRows
<1>15. HandlerOf(t)'
  <2> HIDE DEF new
  <2>1. Name(t)' = n /\ job'[t].rows = new
    BY <1>5 DEF Name
  <2>2. QED
    BY <1>4, <1>5, <1>10, <1>14, <2>1 DEF HandlerOf, StagingPlaces
<1>16. QED
  BY <1>5, <1>10, <1>12, <1>15 DEF Proper, Leaves

\* A connection about to commit an insert has a table to publish.
LEMMA CommitSees ==
  ASSUME NoneIsNoData, RowsInv, NEW t \in Threads, at[t] = "commit"
  PROVE  view[t][Live(Name(t))] # None
<1> DEFINE n == Name(t)
           S == db[Live(n)]
           rows == job[t].rows
           full == S \cup {rows[i] : i \in 1..Len(rows)}
<1>1. /\ n \in Names /\ meta[n].version \in Nat /\ S # None
      /\ NextRows(n, S, rows, meta[n].version) /\ view[t][Live(n)] = full
  BY DEF RowsInv, HandlerOf
<1>2. SoundRows(n, S, meta[n].version)
  BY <1>1 DEF RowsInv, SoundTables, Sound, TablesOf
<1>3. SoundRows(n, full, meta[n].version)
  <2> HIDE DEF S, rows
  <2>1. QED
    BY <1>1, <1>2, InsertedSound
<1>4. QED
  BY <1>1, <1>3 DEF SoundRows, NoneIsNoData

LEMMA InsertCommitProper ==
  ASSUME NoneIsNoData, SeparateNames, RowsInv, NEW t \in Threads, InsertCommit(t)
  PROVE  Proper(t, Name(t))
<1> DEFINE n == Name(t)
           total == Cardinality(RowsIn(db', Live(n)))
<1>1. /\ Goto(t, "commit", "idle") /\ Commit(t) /\ UNCHANGED bundle
      /\ meta' = [meta EXCEPT ![n].total = total]
  BY DEF InsertCommit
<1>2. /\ n \in Names /\ at[t] = "commit" /\ at'[t] = "idle"
      /\ KeepsRecords(n) =>
           KeepsHandlers(t, n) /\ Sound(n, bundle'[n], meta'[n].version)
  BY <1>1, GotoKeeps
<1>3. KeepsRecords(n)
  <2>1. /\ meta[n].version \in Nat /\ DOMAIN meta = Names /\ DOMAIN meta[n] = DOMAIN FreshMeta
    BY <1>2 DEF RowsInv, Domains
  <2> DEFINE record == [meta[n] EXCEPT !.total = total]
  <2>2. DOMAIN record = DOMAIN FreshMeta /\ record.version = meta[n].version
    BY <2>1
  <2>3. meta' = [meta EXCEPT ![n] = record]
    BY <1>1
  <2>4. PICK new : /\ meta' = [meta EXCEPT ![n] = new]
                   /\ DOMAIN new = DOMAIN FreshMeta /\ new.version = meta[n].version
    BY <2>2, <2>3
  <2>5. meta[n].version <= new.version /\ new.version \in Nat
    BY <2>1, <2>4
  <2>6. QED
    BY <1>2, <2>4, <2>5, NewRecord
<1>4. /\ writer = t /\ t \notin stale /\ view[t] # None /\ view[t][Live(n)] # None
      /\ Seen(t) = view[t] /\ SoundTables(Seen(t), meta)
  <2>1. writer = t
    BY <1>2 DEF RowsInv, WriterInv, WriterPlaces, Writing
  <2>2. writer # None
    BY <2>1, StoreAssumption
  <2>3. QED
    BY <1>2, <2>1, <2>2, CommitSees DEF RowsInv, WriterInv, ViewOf, Seen
<1>5. Publish(t, Seen(t)) /\ AgreesBut(n, Seen(t)) /\ SoundTables(Seen(t), meta')
  BY <1>1, <1>2, <1>3, <1>4, SeenFresh, LaterTables DEF Commit
<1>6. KeepsConnections(t, n) /\ SoundTables(db', meta') /\ ViewOf(t)' /\ db' = view[t]
  BY <1>2, <1>3, <1>4, <1>5, Published
<1>7. QED
  BY <1>2, <1>3, <1>4, <1>6, IdleHandler DEF Proper, Leaves

\* A handler of one step that reads.
LEMMA ReadersProper ==
  ASSUME NoneIsNoData, SeparateNames, RowsInv, NEW t \in Threads, NEW n \in Names,
         Search(t, n) \/ Flush(t, n) \/ Export(t, n)
  PROVE  Proper(t, n)
<1> DEFINE rows == RowsIn(Seen(t), Live(n))
<1>1. /\ at[t] = "idle" /\ Idle(n) /\ at' = at /\ job' = job /\ Reads(t)
      /\ bundle' = bundle \/ bundle' = [bundle EXCEPT ![n] = rows]
  BY DEF Search, Flush, Export, At
<1>2. /\ DOMAIN at = Threads /\ DOMAIN job = Threads /\ DOMAIN bundle = Names
      /\ DOMAIN meta = Names /\ DOMAIN meta[n] = DOMAIN FreshMeta /\ meta[n].version \in Nat
  BY DEF RowsInv, Domains
<1>3. KeepsRecords(n) /\ meta'[n].version = meta[n].version
  <2> DEFINE flushed  == [meta[n] EXCEPT !.index = meta[n].version, !.file = rows,
                                         !.total = Cardinality(rows)]
             exported == [meta[n] EXCEPT !.exported = meta[n].version]
  <2>1. \/ meta' = meta
        \/ meta' = [meta EXCEPT ![n] = flushed]
        \/ meta' = [meta EXCEPT ![n] = exported]
    <3>1. CASE Search(t, n)
      BY <3>1 DEF Search
    <3>2. CASE Flush(t, n)
      BY <1>2, <3>2 DEF Flush
    <3>3. CASE Export(t, n)
      BY <1>2, <3>3 DEF Export
    <3>4. QED
      BY <3>1, <3>2, <3>3
  <2>2. /\ DOMAIN flushed = DOMAIN FreshMeta /\ flushed.version = meta[n].version
        /\ DOMAIN exported = DOMAIN FreshMeta /\ exported.version = meta[n].version
    BY <1>2
  <2> HIDE DEF flushed, exported
  <2>3. KeepsRecords(n)
    BY <1>2, <2>1, <2>2, SameRecords, NewRecord
  <2>4. meta'[n] \in {meta[n], flushed, exported}
    BY <1>2, <2>1
  <2>5. QED
    BY <2>2, <2>3, <2>4
<1>4. KeepsHandlers(t, n)
  BY <1>1, <1>2, <1>3 DEF KeepsHandlers
<1>5. Sound(n, bundle'[n], meta'[n].version)
  <2>1. Sound(n, Seen(t)[Live(n)], meta[n].version) /\ Sound(n, bundle[n], meta[n].version)
    BY DEF RowsInv, ViewOf, SoundTables, TablesOf
  <2>2. Sound(n, rows, meta[n].version)
    BY <2>1, EmptySound DEF RowsIn, Sound
  <2> HIDE DEF rows
  <2>3. QED
    BY <1>1, <1>2, <1>3, <2>1, <2>2
<1>6. writer # t
  BY <1>1, NotWriter DEF RowsInv, WriterPlaces, Writing
<1>7. KeepsConnections(t, n) /\ SoundTables(db', meta') /\ ViewOf(t)' /\ db' = db
  BY <1>1, <1>3, <1>6, Read
<1>8. QED
  BY <1>1, <1>4, <1>5, <1>7, IdleHandler DEF Proper, Leaves

LEMMA CallsProper ==
  ASSUME NoneIsNoData, SeparateNames, RowsInv, NEW t \in Threads, NEW n \in Names,
         CallPurge(t, n) \/ CallImport(t, n)
  PROVE  Proper(t, n)
<1>1. DOMAIN meta = Names /\ DOMAIN meta[n] = DOMAIN FreshMeta /\ meta[n].version \in Nat
  BY DEF RowsInv, Domains
<1>2. KeepsRecords(n)
  <2>1. CASE CallPurge(t, n)
    <3> DEFINE record == [meta[n] EXCEPT !.file = None]
    <3>1. meta' = [meta EXCEPT ![n] = record]
      BY <2>1 DEF CallPurge
    <3>2. DOMAIN record = DOMAIN FreshMeta /\ record.version = meta[n].version
      BY <1>1
    <3>3. record.version \in Nat /\ meta[n].version <= record.version
      BY <1>1, <3>2
    <3> HIDE DEF record
    <3>4. QED
      BY <3>1, <3>2, <3>3, NewRecord
  <2>2. CASE CallImport(t, n)
    BY <2>2, SameRecords DEF CallImport
  <2>3. QED
    BY <2>1, <2>2
<1>3. PICK there \in {"purge_staging", "stage"}, rows \in {<<>>, bundle[n]} :
        /\ Call(t, n, there, rows) /\ UNCHANGED bundle
        /\ there = "stage" => CallImport(t, n) /\ rows = bundle[n]
  BY DEF CallPurge, CallImport
<1>4. /\ at[t] = "idle" /\ at'[t] = there /\ job'[t] = [name |-> n, rows |-> rows]
      /\ KeepsHandlers(t, n) /\ Sound(n, bundle'[n], meta'[n].version)
  BY <1>2, <1>3, CallKeeps
<1>5. writer # t
  BY <1>4, NotWriter DEF RowsInv, WriterPlaces, Writing
<1>6. Reads(t) \/ UNCHANGED <<db, connections>>
  BY DEF CallPurge, CallImport
<1>7. KeepsConnections(t, n) /\ SoundTables(db', meta') /\ ViewOf(t)' /\ db' = db
  BY <1>2, <1>5, <1>6, Read
<1>8. there = "stage" => SoundRows(n, rows, meta'[n].version) /\ rows = bundle'[n]
  <2>1. ASSUME there = "stage" PROVE SoundRows(n, rows, meta'[n].version) /\ rows = bundle'[n]
    <3>1. bundle[n] # None /\ rows = bundle[n] /\ bundle' = bundle
      BY <1>3, <2>1 DEF CallImport
    <3>2. QED
      BY <1>4, <3>1 DEF Sound
  <2>2. QED
    BY <2>1
<1>9. HandlerOf(t)'
  <2>1. Name(t)' = n /\ job'[t].rows = rows
    BY <1>4 DEF Name
  <2>2. QED
    BY <1>4, <1>8, <2>1 DEF HandlerOf, StagingPlaces
<1>10. QED
  BY <1>4, <1>7, <1>9 DEF Proper, Leaves

LEMMA DropsProper ==
  ASSUME NoneIsNoData, SeparateNames, RowsInv, NEW t \in Threads,
         NEW here \in {"purge_staging", "purge_rows", "abort"},
         NEW there \in {"purge_rows", "vacuum", "idle"},
         NEW table \in TablesOf(Name(t)), table = Live(Name(t)) => here = "purge_rows",
         Drops(t, here, table, there)
  PROVE  Proper(t, Name(t))
<1> DEFINE n == Name(t)
<1>1. at[t] = here /\ UNCHANGED <<meta, bundle>> /\ n \in Names
  BY GotoKeeps DEF Drops, Goto
<1>2. writer # t
  BY <1>1, NotWriter DEF RowsInv, HandlerOf, WriterPlaces, Writing
<1>3. KeepsRecords(n)
  BY <1>1, SameRecords
<1>4. CASE Goto(t, here, there) /\ Execute(t, table, None)
  <2>1. /\ at'[t] = there /\ (there # "idle" => job'[t] = job[t])
        /\ KeepsHandlers(t, n) /\ Sound(n, bundle'[n], meta'[n].version)
    BY <1>1, <1>3, <1>4, GotoKeeps
  <2>2. Sound(n, None, meta'[n].version)
    BY DEF Sound
  <2>3. /\ KeepsConnections(t, n) /\ SoundTables(db', meta') /\ ViewOf(t)'
        /\ db' = db \/ db' = [db EXCEPT ![table] = None]
    BY <1>1, <1>2, <1>3, <1>4, <2>2, Executed
  <2>4. db[Live(n)] # None /\ db'[Live(n)] = None => at[t] = "purge_rows"
    <3>1. Live(n) \in DOMAIN db
      BY <1>1 DEF RowsInv, SoundTables, Tables
    <3>2. QED
      BY <1>1, <2>3, <3>1
  <2>5. HandlerOf(t)'
    <3>1. CASE there = "idle"
      BY <2>1, <3>1, IdleHandler
    <3>2. CASE there # "idle"
      <4>1. Name(t)' = n
        BY <2>1, <3>2 DEF Name
      <4>2. QED
        BY <1>1, <2>1, <3>2, <4>1 DEF HandlerOf, StagingPlaces
    <3>3. QED
      BY <3>1, <3>2
  <2>6. QED
    BY <2>1, <2>3, <2>4, <2>5 DEF Proper, Leaves
<1>5. CASE Goto(t, here, "idle") /\ UNCHANGED <<db, connections>>
  BY <1>1, <1>2, <1>5, QuietEnd
<1>6. QED
  BY <1>4, <1>5 DEF Drops

LEMMA VacuumProper ==
  ASSUME NoneIsNoData, SeparateNames, RowsInv, NEW t \in Threads, Vacuum(t)
  PROVE  Proper(t, Name(t))
<1> DEFINE n == Name(t)
           purged == [FreshMeta EXCEPT !.version = meta[n].version + 1, !.purged = TRUE]
<1>1. Goto(t, "vacuum", "idle") /\ UNCHANGED <<db, open, view, writer, bundle>>
  BY DEF Vacuum
<1>2. n \in Names /\ at[t] = "vacuum" /\ at'[t] = "idle"
  BY <1>1, GotoKeeps
<1>3. writer # t
  BY <1>2, NotWriter DEF RowsInv, WriterPlaces, Writing
<1>4. CASE UNCHANGED <<stale, meta>>
  BY <1>1, <1>3, <1>4, QuietEnd DEF connections
<1>5. CASE /\ writer = None /\ stale' = {u \in Threads : view[u] # None}
           /\ meta' = [meta EXCEPT ![n] = purged]
  <2>1. meta[n].version \in Nat
    BY <1>2 DEF RowsInv
  <2>2. /\ DOMAIN purged = DOMAIN FreshMeta /\ purged.version = meta[n].version + 1
        /\ meta[n].version + 1 \in Nat /\ meta[n].version <= meta[n].version + 1
    BY <2>1 DEF FreshMeta
  <2>3. KeepsRecords(n)
    <3> HIDE DEF purged
    <3>1. QED
      BY <1>2, <1>5, <2>2, NewRecord
  <2>4. KeepsHandlers(t, n) /\ Sound(n, bundle'[n], meta'[n].version)
    BY <1>1, <2>3, GotoKeeps
  <2>5. SoundTables(db', meta') /\ SoundTables(Seen(t), meta') /\ AgreesBut(n, db')
    BY <1>1, <1>2, <2>3, LaterTables DEF RowsInv, ViewOf, AgreesBut, SoundTables
  <2>6. KeepsConnections(t, n)
    BY <1>1, <1>5, <2>5, StoreAssumption DEF KeepsConnections, RowsInv, Domains, ViewOf
  <2>7. ViewOf(t)'
    BY <1>1, <1>3, <1>5, <2>5 DEF RowsInv, ViewOf, Seen
  <2>8. QED
    BY <1>1, <1>2, <2>4, <2>5, <2>6, <2>7, IdleHandler DEF Proper, Leaves
<1>6. QED
  BY <1>4, <1>5 DEF Vacuum

LEMMA StageTableProper ==
  ASSUME NoneIsNoData, SeparateNames, RowsInv, NEW t \in Threads, StageTable(t)
  PROVE  Proper(t, Name(t))
<1> DEFINE n == Name(t)
           d == [db EXCEPT ![Staging(n)] = {}]
<1>1. at[t] = "stage" /\ UNCHANGED <<meta, bundle>>
  BY DEF StageTable, Goto
<1>2. n \in Names /\ SoundRows(n, job[t].rows, meta[n].version) /\ job[t].rows = bundle[n]
  BY <1>1 DEF RowsInv, HandlerOf, StagingPlaces
<1>3. writer # t /\ KeepsRecords(n) /\ Live(n) # Staging(n)
  BY <1>1, <1>2, NotWriter, SameRecords DEF RowsInv, WriterPlaces, Writing, SeparateNames
<1>4. CASE /\ CanWrite(t) /\ Goto(t, "stage", "stage_rows")
           /\ Write(t, [Seen(t) EXCEPT ![Staging(n)] = {}])
                \/ Publish(t, [Seen(t) EXCEPT ![Staging(n)] = {}])
  <2>1. Seen(t) = db /\ writer \in {None, t}
    BY <1>3, <1>4, SeenFresh DEF CanWrite
  <2>2. /\ at'[t] = "stage_rows" /\ job'[t] = job[t]
        /\ KeepsHandlers(t, n) /\ Sound(n, bundle'[n], meta'[n].version)
    BY <1>1, <1>3, <1>4, GotoKeeps
  <2>3. SoundTables(db, meta') /\ AgreesBut(n, db) /\ Staging(n) \in TablesOf(n)
    BY <1>2, <1>3, LaterTables DEF RowsInv, SoundTables, AgreesBut, TablesOf
  <2>4. Sound(n, {}, meta'[n].version)
    BY EmptySound DEF Sound
  <2>5. AgreesBut(n, d) /\ SoundTables(d, meta')
    BY <1>2, <2>3, <2>4, AgreesExcept, SoundExcept
  <2>6. d[Staging(n)] = {} /\ d[Live(n)] = db[Live(n)]
    BY <1>2, <1>3, <2>3 DEF SoundTables, TablesOf, Tables
  <2> HIDE DEF d
  <2>7. Write(t, d) \/ Publish(t, d)
    BY <1>4, <2>1 DEF d
  <2>8. job'[t].name = n
    BY <2>2 DEF Name
  <2>9. /\ KeepsConnections(t, n) /\ SoundTables(db', meta') /\ ViewOf(t)' /\ Seen(t)' = d
        /\ \/ db' = db /\ writer' = t
           \/ db' = d /\ view'[t] = None
    BY <1>2, <1>3, <1>4, <2>1, <2>5, <2>7, <2>8, Written, Published
  <2>10. HandlerOf(t)'
    <3>1. Name(t)' = n
      BY <2>2 DEF Name
    <3>2. SoundRows(n, job'[t].rows, meta'[n].version) /\ job'[t].rows = bundle'[n]
      BY <1>1, <1>2, <2>2
    <3>3. QED
      BY <1>2, <2>2, <2>6, <2>9, <3>1, <3>2 DEF HandlerOf
  <2>11. QED
    BY <2>2, <2>6, <2>9, <2>10 DEF Proper, Leaves
<1>5. CASE Goto(t, "stage", "abort") /\ UNCHANGED <<db, connections>>
  <2>1. /\ at'[t] = "abort" /\ job'[t] = job[t] /\ writer' = writer
        /\ KeepsHandlers(t, n) /\ Sound(n, bundle'[n], meta'[n].version)
    BY <1>1, <1>3, <1>5, GotoKeeps DEF connections
  <2>2. KeepsConnections(t, n) /\ SoundTables(db', meta') /\ ViewOf(t)' /\ db' = db
    BY <1>2, <1>3, <1>5, Read
  <2>3. HandlerOf(t)'
    <3>1. Name(t)' = n
      BY <2>1 DEF Name
    <3>2. SoundRows(n, job'[t].rows, meta'[n].version) /\ job'[t].rows = bundle'[n]
      BY <1>1, <1>2, <2>1
    <3>3. QED
      BY <1>2, <1>3, <2>1, <3>1, <3>2 DEF HandlerOf
  <2>4. QED
    BY <2>1, <2>2, <2>3 DEF Proper, Leaves
<1>6. QED
  BY <1>1, <1>4, <1>5 DEF StageTable

LEMMA StageRowsProper ==
  ASSUME NoneIsNoData, SeparateNames, RowsInv, NEW t \in Threads, StageRows(t)
  PROVE  Proper(t, Name(t))
<1> DEFINE n == Name(t)
           rows == job[t].rows
           d == [Seen(t) EXCEPT ![Staging(n)] = rows]
<1>1. at[t] = "stage_rows" /\ UNCHANGED <<meta, bundle>>
  BY DEF StageRows, Goto
<1>2. /\ n \in Names /\ SoundRows(n, rows, meta[n].version) /\ rows = bundle[n]
      /\ Seen(t)[Staging(n)] = {} /\ Seen(t)[Live(n)] = db[Live(n)]
  BY <1>1 DEF RowsInv, HandlerOf, StagingPlaces
<1>3. KeepsRecords(n) /\ Live(n) # Staging(n)
  BY <1>1, <1>2, SameRecords DEF SeparateNames
<1>4. CASE /\ CanWrite(t) /\ Goto(t, "stage_rows", "stage_commit")
           /\ Write(t, With(Seen(t), Staging(n), rows))
  <2>1. /\ at'[t] = "stage_commit" /\ job'[t] = job[t]
        /\ KeepsHandlers(t, n) /\ Sound(n, bundle'[n], meta'[n].version)
    BY <1>1, <1>3, <1>4, GotoKeeps
  <2>2. With(Seen(t), Staging(n), rows) = d
    BY <1>2 DEF With, RowsIn
  <2>3. SoundTables(Seen(t), meta') /\ AgreesBut(n, Seen(t)) /\ Staging(n) \in TablesOf(n)
    BY <1>2, <1>3, <1>4, LaterTables, SeenFresh DEF RowsInv, ViewOf, CanWrite, TablesOf
  <2>4. Sound(n, rows, meta'[n].version) /\ rows # None
    BY <1>1, <1>2 DEF Sound, SoundRows, NoneIsNoData
  <2>5. AgreesBut(n, d) /\ SoundTables(d, meta')
    BY <1>2, <2>3, <2>4, AgreesExcept, SoundExcept
  <2>6. d[Staging(n)] = rows /\ d[Live(n)] = Seen(t)[Live(n)]
    BY <1>2, <1>3, <2>3 DEF SoundTables, TablesOf, Tables
  <2> HIDE DEF d
  <2>7. job'[t].name = n /\ Write(t, d)
    BY <1>4, <2>1, <2>2 DEF Name
  <2>8. /\ KeepsConnections(t, n) /\ SoundTables(db', meta') /\ ViewOf(t)' /\ Seen(t)' = d
        /\ db' = db
    BY <1>2, <1>3, <1>4, <2>5, <2>7, Written
  <2>9. HandlerOf(t)'
    <3>1. Name(t)' = n
      BY <2>1 DEF Name
    <3>2. SoundRows(n, job'[t].rows, meta'[n].version) /\ job'[t].rows = bundle'[n]
      BY <1>1, <1>2, <2>1
    <3>3. QED
      BY <1>2, <2>1, <2>4, <2>6, <2>8, <3>1, <3>2 DEF HandlerOf
  <2>10. QED
    BY <2>1, <2>8, <2>9 DEF Proper, Leaves
<1>5. CASE ~CanWrite(t) /\ Goto(t, "stage_rows", "abort") /\ LeftOpen(t)
  <2>1. /\ at'[t] = "abort" /\ job'[t] = job[t] /\ writer' = writer
        /\ KeepsHandlers(t, n) /\ Sound(n, bundle'[n], meta'[n].version)
    BY <1>1, <1>3, <1>5, GotoKeeps DEF LeftOpen
  <2>2. writer # t
    BY <1>5, Refused DEF RowsInv
  <2>3. KeepsConnections(t, n) /\ SoundTables(db', meta') /\ ViewOf(t)' /\ db' = db
    BY <1>2, <1>3, <1>5, <2>2, Read
  <2>4. HandlerOf(t)'
    <3>1. Name(t)' = n
      BY <2>1 DEF Name
    <3>2. SoundRows(n, job'[t].rows, meta'[n].version) /\ job'[t].rows = bundle'[n]
      BY <1>1, <1>2, <2>1
    <3>3. QED
      BY <1>2, <2>1, <2>2, <3>1, <3>2 DEF HandlerOf
  <2>5. QED
    BY <2>1, <2>3, <2>4 DEF Proper, Leaves
<1>6. Seen(t)[Staging(n)] # None /\ RowsIn(Seen(t), Staging(n)) = {}
  BY <1>2 DEF NoneIsNoData, RowsIn
<1>7. QED
  BY <1>1, <1>4, <1>5, <1>6 DEF StageRows

\* Where a handler has written, its connection is the writer and sees what it wrote.
LEMMA WriterSees ==
  ASSUME RowsInv, NEW t \in Threads, at[t] \in WriterPlaces
  PROVE  /\ writer = t /\ t \notin stale /\ view[t] # None /\ Seen(t) = view[t]
         /\ SoundTables(Seen(t), meta) /\ AgreesBut(Name(t), Seen(t))
<1>1. writer = t /\ writer # None /\ WriterInv /\ ViewOf(t)
  BY StoreAssumption DEF RowsInv, WriterInv
<1>2. QED
  BY <1>1 DEF WriterInv, ViewOf, Seen

LEMMA StageCommitProper ==
  ASSUME NoneIsNoData, SeparateNames, RowsInv, NEW t \in Threads, StageCommit(t)
  PROVE  Proper(t, Name(t))
<1> DEFINE n == Name(t)
           record == [meta[n] EXCEPT !.importing = TRUE]
<1>1. /\ at[t] = "stage_commit" /\ Goto(t, "stage_commit", "switch") /\ Commit(t)
      /\ UNCHANGED bundle /\ meta' = [meta EXCEPT ![n] = record]
  BY DEF StageCommit, Goto
<1>2. /\ n \in Names /\ SoundRows(n, job[t].rows, meta[n].version) /\ job[t].rows = bundle[n]
      /\ Seen(t)[Staging(n)] = job[t].rows /\ Seen(t)[Live(n)] = db[Live(n)]
  BY <1>1 DEF RowsInv, HandlerOf, StagingPlaces
<1>3. KeepsRecords(n) /\ meta'[n].version = meta[n].version
  <2>1. DOMAIN meta = Names /\ DOMAIN meta[n] = DOMAIN FreshMeta /\ meta[n].version \in Nat
    BY <1>2 DEF RowsInv, Domains
  <2>2. DOMAIN record = DOMAIN FreshMeta /\ record.version = meta[n].version
    BY <2>1
  <2>3. record.version \in Nat /\ meta[n].version <= record.version /\ meta'[n] = record
    BY <1>1, <1>2, <2>1, <2>2
  <2> HIDE DEF record
  <2>4. QED
    BY <1>1, <1>2, <2>2, <2>3, NewRecord
<1>4. /\ at'[t] = "switch" /\ job'[t] = job[t]
      /\ KeepsHandlers(t, n) /\ Sound(n, bundle'[n], meta'[n].version)
  BY <1>1, <1>3, GotoKeeps
<1>5. writer = t /\ AgreesBut(n, Seen(t)) /\ SoundTables(Seen(t), meta')
  BY <1>1, <1>2, <1>3, WriterSees, LaterTables DEF WriterPlaces, Writing
<1>6. /\ KeepsConnections(t, n) /\ SoundTables(db', meta') /\ ViewOf(t)'
      /\ db' = Seen(t) /\ view'[t] = None /\ Seen(t)' = Seen(t)
  BY <1>1, <1>2, <1>3, <1>5, Published DEF Commit
<1>7. HandlerOf(t)'
  <2>1. Name(t)' = n
    BY <1>4 DEF Name
  <2>2. SoundRows(n, job'[t].rows, meta'[n].version) /\ job'[t].rows = bundle'[n]
    BY <1>1, <1>2, <1>3, <1>4
  <2>3. QED
    BY <1>2, <1>4, <1>6, <2>1, <2>2 DEF HandlerOf
<1>8. QED
  BY <1>2, <1>4, <1>6, <1>7 DEF Proper, Leaves

LEMMA SwitchDropProper ==
  ASSUME NoneIsNoData, SeparateNames, RowsInv, NEW t \in Threads, SwitchDrop(t)
  PROVE  Proper(t, Name(t))
<1> DEFINE n == Name(t)
           d == [db EXCEPT ![Live(n)] = None]
<1>1. at[t] = "switch" /\ UNCHANGED <<meta, bundle>>
  BY DEF SwitchDrop, Goto
<1>2. /\ n \in Names /\ SoundRows(n, job[t].rows, meta[n].version) /\ job[t].rows = bundle[n]
      /\ view[t] = None /\ Seen(t) = db /\ db[Staging(n)] = job[t].rows
  BY <1>1 DEF RowsInv, HandlerOf, StagingPlaces, Seen
<1>3. writer # t /\ KeepsRecords(n) /\ Live(n) # Staging(n)
  BY <1>1, <1>2, NotWriter, SameRecords DEF RowsInv, WriterPlaces, Writing, SeparateNames
<1>4. CASE CanWrite(t) /\ Goto(t, "switch", "rename") /\ Write(t, d)
  <2>1. /\ at'[t] = "rename" /\ job'[t] = job[t]
        /\ KeepsHandlers(t, n) /\ Sound(n, bundle'[n], meta'[n].version)
    BY <1>1, <1>3, <1>4, GotoKeeps
  <2>2. SoundTables(db, meta') /\ AgreesBut(n, db) /\ Live(n) \in TablesOf(n)
    BY <1>2, <1>3, LaterTables DEF RowsInv, SoundTables, AgreesBut, TablesOf
  <2>3. Sound(n, None, meta'[n].version)
    BY DEF Sound
  <2>4. AgreesBut(n, d) /\ SoundTables(d, meta')
    BY <1>2, <2>2, <2>3, AgreesExcept, SoundExcept
  <2>5. d[Staging(n)] = db[Staging(n)]
    BY <1>2, <1>3, <2>2 DEF SoundTables, Tables
  <2> HIDE DEF d
  <2>6. job'[t].name = n
    BY <2>1 DEF Name
  <2>7. /\ KeepsConnections(t, n) /\ SoundTables(db', meta') /\ ViewOf(t)' /\ Seen(t)' = d
        /\ db' = db
    BY <1>2, <1>3, <1>4, <2>4, <2>6, Written
  <2>8. HandlerOf(t)'
    <3>1. Name(t)' = n
      BY <2>1 DEF Name
    <3>2. SoundRows(n, job'[t].rows, meta'[n].version) /\ job'[t].rows = bundle'[n]
      BY <1>1, <1>2, <2>1
    <3>3. QED
      BY <1>2, <2>1, <2>5, <2>7, <3>1, <3>2 DEF HandlerOf
  <2>9. QED
    BY <2>1, <2>7, <2>8 DEF Proper, Leaves
<1>5. CASE Goto(t, "switch", "idle") /\ Rollback(t)
  BY <1>1, <1>3, <1>5, QuietEnd
<1>6. QED
  BY <1>2, <1>4, <1>5 DEF SwitchDrop

LEMMA SwitchRenameProper ==
  ASSUME NoneIsNoData, SeparateNames, RowsInv, NEW t \in Threads, SwitchRename(t)
  PROVE  Proper(t, Name(t))
<1> DEFINE n == Name(t)
           e == [Seen(t) EXCEPT ![Live(n)] = Seen(t)[Staging(n)]]
           d == [e EXCEPT ![Staging(n)] = None]
           record == [FreshMeta EXCEPT !.version = meta[n].version + 1, !.index = meta[n].version + 1,
                        !.file = job[t].rows, !.total = Cardinality(job[t].rows),
                        !.exported = meta[n].exported]
<1>1. at[t] = "rename" /\ Goto(t, "rename", "idle") /\ UNCHANGED bundle
  BY DEF SwitchRename, Goto
<1>2. /\ n \in Names /\ meta[n].version \in Nat /\ DOMAIN meta = Names
      /\ Seen(t)[Staging(n)] = job[t].rows /\ job[t].rows # None
  BY <1>1 DEF RowsInv, Domains, HandlerOf, StagingPlaces, SoundRows, NoneIsNoData
<1>3. Publish(t, d) /\ meta' = [meta EXCEPT ![n] = record]
  BY <1>2 DEF SwitchRename
<1>4. KeepsRecords(n)
  <2>1. DOMAIN record = DOMAIN FreshMeta /\ record.version = meta[n].version + 1
    BY DEF FreshMeta
  <2>2. record.version \in Nat /\ meta[n].version <= record.version
    BY <1>2, <2>1
  <2> HIDE DEF record
  <2>3. QED
    BY <1>2, <1>3, <2>1, <2>2, NewRecord
<1>5. /\ at'[t] = "idle"
      /\ KeepsHandlers(t, n) /\ Sound(n, bundle'[n], meta'[n].version)
  BY <1>1, <1>4, GotoKeeps
<1>6. writer = t /\ AgreesBut(n, Seen(t)) /\ SoundTables(Seen(t), meta')
  BY <1>1, <1>2, <1>4, WriterSees, LaterTables DEF WriterPlaces, Writing
<1>7. Live(n) \in TablesOf(n) /\ Staging(n) \in TablesOf(n) /\ Live(n) # Staging(n)
  BY <1>2 DEF TablesOf, SeparateNames
<1>8. AgreesBut(n, d) /\ SoundTables(d, meta')
  <2>1. Sound(n, Seen(t)[Staging(n)], meta'[n].version) /\ Sound(n, None, meta'[n].version)
    BY <1>2, <1>6, <1>7 DEF SoundTables, Sound
  <2>2. AgreesBut(n, e) /\ SoundTables(e, meta')
    BY <1>2, <1>6, <1>7, <2>1, AgreesExcept, SoundExcept
  <2> HIDE DEF e
  <2>3. QED
    BY <1>2, <1>7, <2>1, <2>2, AgreesExcept, SoundExcept
<1>9. d[Live(n)] # None
  <2>1. DOMAIN Seen(t) = Tables /\ Live(n) \in Tables
    BY <1>2, <1>6 DEF SoundTables, Tables
  <2>2. QED
    BY <1>2, <1>7, <2>1
<1> HIDE DEF d
<1>10. KeepsConnections(t, n) /\ SoundTables(db', meta') /\ ViewOf(t)' /\ db' = d
  BY <1>3, <1>2, <1>4, <1>6, <1>8, Published
<1>11. QED
  BY <1>5, <1>9, <1>10, IdleHandler DEF Proper, Leaves

-----------------------------------------------------------------------------
(* The invariant and what follows from it. *)

LEMMA RestartRows ==
  ASSUME SeparateNames, RowsInv, WriterInv', Restart
  PROVE  RowsInv' /\ \A n \in Names : db[Live(n)] # None => db'[Live(n)] # None
<1>1. /\ view' = [t \in Threads |-> None] /\ at' = [t \in Threads |-> "idle"]
      /\ job' = [t \in Threads |-> None] /\ open' = {} /\ stale' = {} /\ writer' = None
      /\ UNCHANGED bundle /\ None \notin Threads
  BY StoreAssumption DEF Restart
<1>2. \A n \in Names : meta'[n].version = meta[n].version /\ DOMAIN meta'[n] = DOMAIN FreshMeta
  <2>1. "version" \in DOMAIN FreshMeta
    BY DEF FreshMeta
  <2>2. \A n \in Names : meta'[n] = [meta[n] EXCEPT !.importing = FALSE]
    BY DEF Restart
  <2>3. QED
    BY <2>1, <2>2 DEF RowsInv, Domains
<1>3. DOMAIN db' = Tables /\ \A table \in Tables : db'[table] \in {None, db[table]}
  BY DEF Restart
<1>4. SoundTables(db', meta')
  <2>1. ASSUME NEW n \in Names, NEW table \in TablesOf(n)
        PROVE  Sound(n, db'[table], meta'[n].version)
    BY <1>2, <1>3 DEF RowsInv, SoundTables, Sound, TablesOf, Tables
  <2>2. QED
    BY <1>3, <2>1 DEF SoundTables
<1>5. \A n \in Names : meta'[n].version \in Nat /\ Sound(n, bundle'[n], meta'[n].version)
  BY <1>1, <1>2 DEF RowsInv
<1>6. ASSUME NEW t \in Threads PROVE ViewOf(t)' /\ HandlerOf(t)'
  <2>1. view'[t] = None /\ at'[t] = "idle" /\ Seen(t)' = db'
    BY <1>1 DEF Seen
  <2>2. QED
    BY <1>1, <1>4, <2>1, IdleHandler DEF ViewOf
<1>7. Domains'
  BY <1>1, <1>2 DEF Restart, RowsInv, Domains
<1>8. RowsInv'
  BY <1>1, <1>4, <1>5, <1>6, <1>7 DEF RowsInv
<1>9. ASSUME NEW n \in Names PROVE db'[Live(n)] = db[Live(n)]
  BY DEF Restart, SeparateNames, Tables
<1>10. QED
  BY <1>8, <1>9

\* Only a purge drops a table.
Stay ==
  \A n \in Names :
    (db[Live(n)] # None /\ db'[Live(n)] = None) => \E t \in Threads : at[t] = "purge_rows"

LEMMA ProperStays ==
  ASSUME SeparateNames, NEW t \in Threads, NEW n \in Names, Proper(t, n) PROVE Stay
<1>1. ASSUME NEW m \in Names, m # n PROVE db'[Live(m)] = db[Live(m)]
  BY <1>1, Distinct DEF Proper, KeepsConnections, AgreesBut
<1>2. QED
  BY <1>1 DEF Proper, Leaves, Stay

LEMMA ContinuesProper ==
  ASSUME NoneIsNoData, SeparateNames, Unbindable = {}, RowsInv, NEW t \in Threads, Continues(t)
  PROVE  Name(t) \in Names /\ Proper(t, Name(t))
<1>1. at[t] # "idle"
  BY DEF Continues, InsertRows, InsertCommit, PurgeStaging, PurgeRows, Vacuum, StageTable,
         StageRows, StageCommit, Abort, SwitchDrop, SwitchRename, Drops, Goto
<1>2. Name(t) \in Names
  BY <1>1 DEF RowsInv, HandlerOf
<1>3. Live(Name(t)) # Staging(Name(t))
  BY <1>2 DEF SeparateNames
<1>4. CASE PurgeStaging(t) \/ PurgeRows(t) \/ Abort(t)
  BY <1>2, <1>3, <1>4, DropsProper DEF PurgeStaging, PurgeRows, Abort, TablesOf
<1>5. QED
  BY <1>2, <1>4, InsertRowsProper, InsertCommitProper, VacuumProper, StageTableProper,
     StageRowsProper, StageCommitProper, SwitchDropProper, SwitchRenameProper DEF Continues

LEMMA StartsProper ==
  ASSUME NoneIsNoData, SeparateNames, RowsInv, NEW t \in Threads, NEW n \in Names, Starts(t, n)
  PROVE  Proper(t, n)
BY CallInsertProper, ReadersProper, CallsProper DEF Starts

LEMMA RowsStep ==
  ASSUME NoneIsNoData, SeparateNames, Unbindable = {}, RowsInv, [Next]_vars
  PROVE  RowsInv' /\ [Stay]_vars
<1>1. WriterInv'
  BY WriterStep DEF RowsInv
<1>2. CASE UNCHANGED vars
  <2>1. \A t \in Threads : ViewOf(t)' /\ HandlerOf(t)'
    <3>1. ASSUME NEW t \in Threads PROVE ViewOf(t)'
      BY <1>2 DEF vars, connections, RowsInv, ViewOf, Seen, Name, AgreesBut
    <3>2. ASSUME NEW t \in Threads PROVE HandlerOf(t)'
      BY <1>2 DEF vars, connections, RowsInv, HandlerOf, Seen, Name
    <3>3. QED
      BY <3>1, <3>2
  <2>2. QED
    BY <1>1, <1>2, <2>1 DEF vars, connections, RowsInv, Domains, Name
<1>3. ASSUME NEW t \in Threads, Continues(t) PROVE RowsInv' /\ Stay
  BY <1>1, <1>3, ContinuesProper, ProperStep, ProperStays
<1>4. ASSUME NEW t \in Threads, NEW n \in Names, Starts(t, n) PROVE RowsInv' /\ Stay
  BY <1>1, <1>4, StartsProper, ProperStep, ProperStays
<1>5. CASE Restart
  BY <1>1, <1>5, RestartRows DEF Stay
<1>6. QED
  BY <1>2, <1>3, <1>4, <1>5 DEF Next

LEMMA RowsInit == ASSUME NoneIsNoData, Init PROVE RowsInv
<1>1. WriterInv
  BY DEF Init, WriterInv, WriterPlaces, Writing
<1>2. SoundTables(db, meta)
  BY DEF Init, SoundTables, Sound, TablesOf, Tables
<1>3. ASSUME NEW t \in Threads PROVE ViewOf(t) /\ HandlerOf(t)
  BY <1>2, StoreAssumption DEF Init, ViewOf, HandlerOf, Seen, StagingPlaces
<1>4. QED
  BY <1>1, <1>2, <1>3 DEF Init, RowsInv, Domains, FreshMeta, Sound

LEMMA RowsAlways ==
  ASSUME NoneIsNoData, SeparateNames, Unbindable = {} PROVE Spec => []RowsInv
<1>1. Init => RowsInv
  BY RowsInit
<1>2. RowsInv /\ [Next]_vars => RowsInv'
  BY RowsStep
<1>3. QED
  BY <1>1, <1>2, PTL DEF Spec

LEMMA SoundNow ==
  ASSUME RowsInv, NEW table \in Tables
  PROVE  \E n \in Names : SoundRows(n, RowsIn(db, table), meta[n].version)
<1>1. PICK n \in Names : table \in TablesOf(n)
  BY DEF Tables, TablesOf
<1>2. Sound(n, db[table], meta[n].version)
  BY <1>1 DEF RowsInv, SoundTables
<1>3. QED
  BY <1>2, EmptySound DEF Sound, RowsIn

\* The row ids of a table are 0, 1, 2 and so on, so that the labels of an index built
\* from its rows in their order are their row ids, of names that do not clash and when
\* every document can be bound: next_row_id's MAX(row_id) + 1 is read before the insert's
\* transaction begins, and is still right in it.
IdsFollow == \A table \in Tables : Dense(RowsIn(db, table))

THEOREM LabelsAreRowIds ==
  ASSUME NoneIsNoData, SeparateNames, Unbindable = {} PROVE Spec => []IdsFollow
<1>1. ASSUME RowsInv PROVE IdsFollow
  BY <1>1, SoundNow DEF SoundRows, IdsFollow
<1>2. QED
  BY <1>1, RowsAlways, PTL

\* No search finds a collection without its table while an import swaps it, nor does
\* a crash in the swap: DROP and RENAME are of one transaction, and of the store's
\* methods drop alone, called by a purge, leaves a collection without its table.  (Names
\* that clash, whose imports share a staging table, are not covered.)
THEOREM OnlyPurgeDrops ==
  ASSUME NoneIsNoData, SeparateNames, Unbindable = {} PROVE Spec => TableStays
<1>1. Init => RowsInv
  BY RowsInit
<1>2. RowsInv /\ [Next]_vars => RowsInv' /\ [Stay]_vars
  BY RowsStep
<1>3. QED
  BY <1>1, <1>2, PTL DEF Spec, TableStays, Stay

-----------------------------------------------------------------------------
(* The store keeps what StoreTables promises.                              *)
(*                                                                         *)
(* A step of a handler changes at most its own collection's table and      *)
(* bundle and its own connection's snapshot, since it is Proper; so it     *)
(* remains to say of each what becomes of these three.                     *)

\* A purge has a bundle to fall back on.
PurgePlaces == {"purge_staging", "purge_rows", "vacuum"}

ExportInv ==
  /\ \A n \in Names : meta[n].exported # None => bundle[n] # None
  /\ \A t \in Threads : at[t] \in PurgePlaces => bundle[Name(t)] # None

\* A bundle is replaced, never removed.
LEMMA BundleStays ==
  ASSUME NoneIsNoData, RowsInv, Next, NEW n \in Names, bundle[n] # None PROVE bundle'[n] # None
<1>1. CASE bundle' = bundle
  BY <1>1
<1>2. ASSUME NEW t \in Threads, NEW m \in Names, Export(t, m) PROVE bundle'[n] # None
  <2>1. bundle' = [bundle EXCEPT ![m] = RowsIn(Seen(t), Live(m))] /\ DOMAIN bundle = Names
    BY <1>2 DEF Export, RowsInv, Domains
  <2>2. RowsIn(Seen(t), Live(m)) # None
    BY DEF RowsIn, NoneIsNoData
  <2>3. QED
    BY <2>1, <2>2
<1>3. QED
  BY <1>1, <1>2 DEF Next, Starts, Continues, InsertRows, InsertCommit, PurgeStaging, PurgeRows, Drops,
     Vacuum, StageTable, StageRows, StageCommit, Abort, SwitchDrop, SwitchRename, CallInsert,
     Search, Flush, CallPurge, CallImport, Restart

\* What the record says of the last export is kept, forgotten or new.
LEMMA RecordsExports ==
  ASSUME NoneIsNoData, RowsInv, ExportInv, Next, NEW n \in Names, meta'[n].exported # None
  PROVE  bundle'[n] # None
<1>1. DOMAIN meta = Names /\ (\A m \in Names : DOMAIN meta[m] = DOMAIN FreshMeta)
      /\ DOMAIN bundle = Names /\ "exported" \in DOMAIN FreshMeta /\ FreshMeta.exported = None
  BY DEF RowsInv, Domains, FreshMeta
<1>2. CASE meta'[n].exported = meta[n].exported
  BY <1>2, BundleStays DEF ExportInv
<1>3. ASSUME NEW t \in Threads, NEW m \in Names, Export(t, m) PROVE bundle'[n] # None
  <2>1. /\ bundle' = [bundle EXCEPT ![m] = RowsIn(Seen(t), Live(m))]
        /\ meta' = [meta EXCEPT ![m].exported = meta[m].version]
    BY <1>3 DEF Export
  <2>2. RowsIn(Seen(t), Live(m)) # None
    BY DEF RowsIn, NoneIsNoData
  <2>3. CASE m = n
    BY <1>1, <2>1, <2>2, <2>3
  <2>4. CASE m # n
    BY <1>1, <1>2, <2>1, <2>4
  <2>5. QED
    BY <2>3, <2>4
<1>4. ASSUME NEW t \in Threads, NEW m \in Names,
             (\E b \in Batches : CallInsert(t, m, b))
               \/ Search(t, m) \/ Flush(t, m) \/ CallPurge(t, m) \/ CallImport(t, m)
      PROVE  meta'[n].exported = meta[n].exported
  BY <1>1, <1>4 DEF CallInsert, Search, Flush, CallPurge, CallImport
<1>5. ASSUME NEW t \in Threads, Continues(t) PROVE bundle'[n] # None
  <2>1. CASE UNCHANGED meta
    BY <1>2, <2>1
  <2>2. CASE InsertCommit(t) \/ StageCommit(t) \/ SwitchRename(t)
    <3>1. meta'[n].exported = meta[n].exported
      BY <1>1, <2>2 DEF InsertCommit, StageCommit, SwitchRename
    <3>2. QED
      BY <1>2, <3>1
  <2>3. CASE Vacuum(t)
    <3>1. meta'[n].exported \in {meta[n].exported, None}
      BY <1>1, <2>3 DEF Vacuum
    <3>2. QED
      BY <1>2, <3>1
  <2>4. QED
    BY <1>5, <2>1, <2>2, <2>3 DEF Continues, InsertRows, PurgeStaging, PurgeRows, Drops,
       StageTable, StageRows, Abort, SwitchDrop
<1>6. CASE Restart
  <2>1. meta'[n].exported = meta[n].exported
    BY <1>1, <1>6 DEF Restart
  <2>2. QED
    BY <1>2, <2>1
<1>7. QED
  BY <1>2, <1>3, <1>4, <1>5, <1>6 DEF Next, Starts

LEMMA ExportStep ==
  ASSUME NoneIsNoData, RowsInv, ExportInv, [Next]_vars PROVE ExportInv'
<1>1. CASE UNCHANGED vars
  BY <1>1 DEF vars, ExportInv, Name
<1>2. CASE Next
  <2>1. \A n \in Names : meta'[n].exported # None => bundle'[n] # None
    BY <1>2, RecordsExports
  <2>2. ASSUME NEW u \in Threads, at'[u] \in PurgePlaces PROVE bundle'[Name(u)'] # None
    <3>1. DOMAIN at = Threads /\ DOMAIN job = Threads
      BY DEF RowsInv, Domains
    <3>2. CASE at[u] \in PurgePlaces /\ job'[u] = job[u]
      <4>1. Name(u) \in Names /\ Name(u)' = Name(u) /\ bundle[Name(u)] # None
        BY <3>2 DEF RowsInv, HandlerOf, ExportInv, PurgePlaces, Name
      <4>2. QED
        BY <1>2, <4>1, BundleStays
    <3>3. ASSUME NEW t \in Threads, NEW n \in Names, CallPurge(t, n), u = t
          PROVE  bundle'[Name(u)'] # None
      <4>1. meta[n].exported = meta[n].version /\ meta[n].version \in Nat /\ bundle' = bundle
        BY <3>3 DEF CallPurge, RowsInv
      <4>2. bundle[n] # None
        BY <4>1, StoreAssumption DEF ExportInv
      <4>3. Name(u)' = n
        BY <3>1, <3>3 DEF CallPurge, Call, Name
      <4>4. QED
        BY <4>1, <4>2, <4>3
    <3>4. ASSUME NEW t \in Threads, NEW n \in Names, Starts(t, n), ~CallPurge(t, n)
          PROVE  at[u] \in PurgePlaces /\ job'[u] = job[u]
      BY <2>2, <3>1, <3>4
         DEF Starts, CallInsert, Search, Flush, Export, CallImport, Call, At, PurgePlaces
    <3>5. ASSUME NEW t \in Threads, Continues(t)
          PROVE  at[u] \in PurgePlaces /\ job'[u] = job[u]
      BY <2>2, <3>1, <3>5
         DEF Continues, InsertRows, StoreRows, InsertCommit, PurgeStaging, PurgeRows, Drops, Vacuum,
             StageTable, StageRows, StageCommit, Abort, SwitchDrop, SwitchRename, Goto, PurgePlaces
    <3>6. ASSUME NEW t \in Threads, NEW n \in Names, CallPurge(t, n), u # t
          PROVE  at[u] \in PurgePlaces /\ job'[u] = job[u]
      BY <2>2, <3>1, <3>6 DEF CallPurge, Call
    <3>7. ~Restart
      BY <2>2 DEF Restart, PurgePlaces
    <3>8. QED
      BY <1>2, <3>2, <3>3, <3>4, <3>5, <3>6, <3>7 DEF Next
  <2>3. QED
    BY <2>1, <2>2 DEF ExportInv
<1>3. QED
  BY <1>1, <1>2

Shown == [n \in Names |-> db[Live(n)]]

Snapshots == [t \in Threads |-> Snapshot(t)]

\* What a proper step leaves of the others, as StoreTables sees it.
LEMMA OthersShown ==
  ASSUME SeparateNames, RowsInv, NEW t \in Threads, NEW n \in Names, Proper(t, n)
  PROVE  /\ Shown' = [Shown EXCEPT ![n] = db'[Live(n)]]
         /\ Snapshots' = [Snapshots EXCEPT ![t] = Snapshot(t)']
<1>1. ASSUME NEW m \in Names, m # n PROVE db'[Live(m)] = db[Live(m)]
  BY <1>1, Distinct DEF Proper, KeepsConnections, AgreesBut
<1>2. Shown' = [Shown EXCEPT ![n] = db'[Live(n)]]
  BY <1>1 DEF Shown
<1>3. ASSUME NEW u \in Threads, u # t PROVE Snapshot(u)' = Snapshot(u)
  BY <1>3 DEF Proper, KeepsConnections, Snapshot
<1>4. Snapshots' = [Snapshots EXCEPT ![t] = Snapshot(t)']
  BY <1>3 DEF Snapshots
<1>5. QED
  BY <1>2, <1>4

\* A step that changes no table.
Looks(t, n) ==
  /\ db'[Live(n)] = db[Live(n)] /\ bundle' = bundle
  /\ Snapshot(t)' \in {Snapshot(t), None, Promised!Sees(t)}

\* A step that gives its collection other rows.
Puts(t, n, rows) == db'[Live(n)] = rows /\ bundle' = bundle /\ Snapshot(t)' = None

LEMMA LooksShown ==
  ASSUME SeparateNames, RowsInv, NEW t \in Threads, NEW n \in Names, Proper(t, n), Looks(t, n)
  PROVE  Promised!Look(t)
<1>1. Shown' = Shown
  BY OthersShown DEF Looks, Shown
<1>2. Snapshots' \in {Snapshots, [Snapshots EXCEPT ![t] = None],
                      [Snapshots EXCEPT ![t] = Promised!Sees(t)]}
  <2>1. Snapshots = [Snapshots EXCEPT ![t] = Snapshot(t)]
    BY DEF Snapshots
  <2>2. QED
    BY <2>1, OthersShown DEF Looks
<1>3. bundle' = bundle
  BY DEF Looks
<1>4. QED
  BY <1>1, <1>2, <1>3 DEF Promised!Look, Promised!Reads, Promised!Ends, Shown, Snapshots

LEMMA PutsShown ==
  ASSUME SeparateNames, RowsInv, NEW t \in Threads, NEW n \in Names, Proper(t, n),
         NEW rows, Puts(t, n, rows)
  PROVE  Promised!Put(t, n, rows)
<1>1. Shown' = [Shown EXCEPT ![n] = rows]
  BY OthersShown DEF Puts
<1>2. Snapshots' = [Snapshots EXCEPT ![t] = None]
  BY OthersShown DEF Puts
<1>3. bundle' = bundle
  BY DEF Puts
<1>4. QED
  BY <1>1, <1>2, <1>3 DEF Promised!Put, Promised!Ends, Shown, Snapshots

\* A transaction that ends or writes has no snapshot afterwards.
LEMMA SnapshotGone ==
  ASSUME RowsInv, NEW t \in Threads, NEW d, Publish(t, d) \/ Write(t, d)
  PROVE  Snapshot(t)' = None
<1>1. DOMAIN view = Threads
  BY DEF RowsInv, Domains
<1>2. CASE Publish(t, d)
  BY <1>1, <1>2 DEF Publish, Snapshot
<1>3. CASE Write(t, d)
  BY <1>3 DEF Write, Snapshot
<1>4. QED
  BY <1>2, <1>3

\* The first SELECT of a transaction fixes the tables as committed, later ones read on.
LEMMA SnapshotRead ==
  ASSUME RowsInv, NEW t \in Threads, writer # t,
         Reads(t) \/ LeftOpen(t) \/ UNCHANGED <<db, view, writer>>
  PROVE  db' = db /\ Snapshot(t)' \in {Snapshot(t), None, Promised!Sees(t)}
<1>1. DOMAIN view = Threads /\ (view[t] # None => t \in open)
  BY DEF RowsInv, Domains, ViewOf
<1>2. CASE LeftOpen(t) \/ UNCHANGED <<db, view, writer>>
  BY <1>2 DEF LeftOpen, Snapshot
<1>3. CASE Reads(t)
  <2>1. /\ view'[t] = (IF t \in open THEN Seen(t) ELSE None)
        /\ db' = db /\ writer' = writer
    BY <1>1, <1>3 DEF Reads
  <2>2. CASE t \notin open
    BY <2>1, <2>2 DEF Snapshot
  <2>3. CASE view[t] # None
    BY <1>1, <2>1, <2>3 DEF Snapshot, Seen
  <2>4. CASE view[t] = None /\ t \in open
    <3>1. view'[t] = db
      BY <2>1, <2>4 DEF Seen
    <3>2. Snapshot(t) = None /\ Promised!Sees(t) = Shown
      BY <2>4 DEF Snapshot, Promised!Sees, Shown
    <3>3. Snapshot(t)' \in {None, Shown}
      BY <3>1 DEF Snapshot, Shown
    <3>4. QED
      BY <2>1, <3>2, <3>3
  <2>5. QED
    BY <2>2, <2>3, <2>4
<1>4. QED
  BY <1>2, <1>3

LEMMA OtherTable ==
  ASSUME SeparateNames, RowsInv, NEW n \in Names, NEW d, DOMAIN d = Tables, NEW rows
  PROVE  /\ [d EXCEPT ![Staging(n)] = rows][Live(n)] = d[Live(n)]
         /\ [d EXCEPT ![Live(n)] = rows][Live(n)] = rows
         /\ Live(n) # Staging(n)
BY DEF SeparateNames, Tables

\* Handlers that fail or read, and what imports and purges do to staging tables.
LEMMA QuietLooks ==
  ASSUME NoneIsNoData, SeparateNames, Unbindable = {}, RowsInv, NEW t \in Threads,
         \/ InsertRows(t) \/ PurgeStaging(t) \/ Abort(t) \/ Vacuum(t)
         \/ StageTable(t) \/ StageRows(t) \/ StageCommit(t) \/ SwitchDrop(t)
  PROVE  Looks(t, Name(t))
<1> DEFINE n == Name(t)
<1>1. at[t] # "idle" /\ bundle' = bundle
  BY DEF InsertRows, PurgeStaging, Abort, Drops, Vacuum, StageTable, StageRows, StageCommit,
         SwitchDrop, Goto
<1>2. n \in Names
  BY <1>1 DEF RowsInv, HandlerOf
<1>3. DOMAIN db = Tables /\ DOMAIN Seen(t) = Tables
  BY DEF RowsInv, SoundTables, ViewOf
<1>4. ASSUME writer # t, Reads(t) \/ LeftOpen(t) \/ UNCHANGED <<db, view, writer>>
      PROVE  Looks(t, n)
  BY <1>1, <1>4, SnapshotRead DEF Looks
<1>5. ASSUME NEW d, Write(t, d) PROVE Looks(t, n)
  <2>1. Snapshot(t)' = None /\ db' = db
    BY <1>5, SnapshotGone DEF Write
  <2>2. QED
    BY <1>1, <2>1 DEF Looks
<1>6. ASSUME NEW d, Publish(t, d), d[Live(n)] = db[Live(n)] PROVE Looks(t, n)
  <2>1. Snapshot(t)' = None /\ db' = d
    BY <1>6, SnapshotGone DEF Publish
  <2>2. QED
    BY <1>1, <1>6, <2>1 DEF Looks
<1>7. ASSUME writer # t, Execute(t, Staging(n), None) PROVE Looks(t, n)
  <2> DEFINE d == [Seen(t) EXCEPT ![Staging(n)] = None]
  <2>1. CASE d = Seen(t)
    <3>1. Publish(t, db)
      BY <1>7, <2>1 DEF Execute, Commit
    <3>2. QED
      BY <1>6, <3>1
  <2>2. CASE d # Seen(t)
    <3>1. CanWrite(t) /\ Publish(t, d)
      BY <1>7, <2>2 DEF Execute
    <3>2. Seen(t) = db
      BY <1>7, <3>1, SeenFresh DEF CanWrite
    <3>3. d[Live(n)] = db[Live(n)]
      BY <1>2, <1>3, <3>2, OtherTable
    <3> HIDE DEF d
    <3>4. QED
      BY <1>6, <3>1, <3>3
  <2>3. QED
    BY <2>1, <2>2
<1>8. CASE InsertRows(t)
  <2>1. writer # t
    BY <1>8, NotWriter DEF RowsInv, WriterPlaces, Writing, InsertRows
  <2>2. \/ UNCHANGED <<db, connections>> \/ LeftOpen(t) \/ Rollback(t) \/ \E d : Write(t, d)
    BY <1>8 DEF InsertRows, StoreRows
  <2>3. QED
    BY <1>4, <1>5, <1>6, <2>1, <2>2 DEF Rollback, connections
<1>9. CASE PurgeStaging(t) \/ Abort(t)
  <2>1. writer # t
    BY <1>9, NotWriter DEF RowsInv, HandlerOf, WriterPlaces, Writing, PurgeStaging, Abort, Drops, Goto
  <2>2. Execute(t, Staging(n), None) \/ UNCHANGED <<db, connections>>
    BY <1>9 DEF PurgeStaging, Abort, Drops
  <2>3. QED
    BY <1>4, <1>7, <2>1, <2>2 DEF connections
<1>10. CASE Vacuum(t)
  <2>1. writer # t /\ UNCHANGED <<db, view, writer>>
    BY <1>10, NotWriter DEF RowsInv, WriterPlaces, Writing, Vacuum, Goto
  <2>2. QED
    BY <1>4, <2>1
<1>11. CASE StageTable(t)
  <2> DEFINE d == [Seen(t) EXCEPT ![Staging(n)] = {}]
  <2>1. writer # t
    BY <1>11, NotWriter DEF RowsInv, WriterPlaces, Writing, StageTable, Goto
  <2>2. UNCHANGED <<db, connections>> \/ Write(t, d) \/ (CanWrite(t) /\ Publish(t, d))
    BY <1>11 DEF StageTable
  <2>3. CanWrite(t) => d[Live(n)] = db[Live(n)]
    <3>1. CanWrite(t) => Seen(t) = db
      BY <2>1, SeenFresh DEF CanWrite
    <3>2. d[Live(n)] = Seen(t)[Live(n)]
      BY <1>2, <1>3, OtherTable
    <3>3. QED
      BY <3>1, <3>2
  <2> HIDE DEF d
  <2>4. QED
    BY <1>4, <1>5, <1>6, <2>1, <2>2, <2>3 DEF connections
<1>12. CASE StageRows(t)
  <2>1. (\E d : Write(t, d)) \/ (~CanWrite(t) /\ LeftOpen(t))
    <3>1. Seen(t)[Staging(n)] # None
      BY <1>12 DEF StageRows, RowsInv, HandlerOf, NoneIsNoData
    <3>2. QED
      BY <1>12, <3>1 DEF StageRows
  <2>2. ~CanWrite(t) => writer # t
    BY Refused DEF RowsInv
  <2>3. QED
    BY <1>4, <1>5, <2>1, <2>2
<1>13. CASE StageCommit(t)
  <2>1. at[t] = "stage_commit" /\ Commit(t)
    BY <1>13 DEF StageCommit, Goto
  <2>2. Seen(t)[Live(n)] = db[Live(n)]
    BY <2>1 DEF RowsInv, HandlerOf
  <2>3. QED
    BY <1>6, <2>1, <2>2 DEF Commit
<1>14. CASE SwitchDrop(t)
  <2>1. (\E d : Write(t, d)) \/ Rollback(t)
    BY <1>14 DEF SwitchDrop
  <2>2. QED
    BY <1>5, <1>6, <2>1 DEF Rollback
<1>15. QED
  BY <1>8, <1>9, <1>10, <1>11, <1>12, <1>13, <1>14

\* A step that StoreTables takes too, or that it does not see.
Shows == Promised!Next

LEMMA LooksShows ==
  ASSUME SeparateNames, RowsInv, NEW t \in Threads, NEW n \in Names, Proper(t, n), Looks(t, n)
  PROVE  Shows
BY LooksShown DEF Shows, Promised!Next

\* A purge drops the table, if its connection sees that there is one.
LEMMA PurgeShows ==
  ASSUME SeparateNames, RowsInv, ExportInv, NEW t \in Threads, PurgeRows(t), Proper(t, Name(t))
  PROVE  Shows
<1> DEFINE n == Name(t)
           d == [Seen(t) EXCEPT ![Live(n)] = None]
<1>1. at[t] = "purge_rows" /\ bundle' = bundle
  BY DEF PurgeRows, Drops, Goto
<1>2. n \in Names /\ bundle[n] # None /\ writer # t
  BY <1>1, NotWriter DEF RowsInv, HandlerOf, ExportInv, PurgePlaces, WriterPlaces, Writing
<1>3. CASE UNCHANGED <<db, connections>>
  <2>1. Looks(t, n)
    BY <1>1, <1>2, <1>3, SnapshotRead DEF connections, Looks
  <2>2. QED
    BY <1>2, <2>1, LooksShows
<1>4. CASE Execute(t, Live(n), None)
  <2>1. CASE d = Seen(t)
    <3>1. Publish(t, db)
      BY <1>2, <1>4, <2>1 DEF Execute, Commit
    <3>2. Looks(t, n)
      BY <1>1, <3>1, SnapshotGone DEF Looks, Publish
    <3>3. QED
      BY <1>2, <3>2, LooksShows
  <2>2. CASE d # Seen(t)
    <3>1. Publish(t, d)
      BY <1>4, <2>2 DEF Execute
    <3>2. d[Live(n)] = None
      BY <1>2, OtherTable DEF RowsInv, ViewOf, SoundTables
    <3>3. Puts(t, n, None)
      BY <1>1, <3>1, <3>2, SnapshotGone DEF Puts, Publish
    <3>4. Promised!Purge(t, n)
      BY <1>2, <3>3, PutsShown DEF Promised!Purge
    <3>5. QED
      BY <1>2, <3>4 DEF Shows, Promised!Next
  <2>3. QED
    BY <2>1, <2>2
<1>5. QED
  BY <1>3, <1>4 DEF PurgeRows, Drops

\* The staging table that becomes the live one holds the rows of the bundle.
LEMMA ImportShows ==
  ASSUME NoneIsNoData, SeparateNames, RowsInv, NEW t \in Threads, SwitchRename(t), Proper(t, Name(t))
  PROVE  Shows
<1> DEFINE n == Name(t)
           e == [Seen(t) EXCEPT ![Live(n)] = Seen(t)[Staging(n)]]
           d == [e EXCEPT ![Staging(n)] = None]
<1>1. at[t] = "rename" /\ bundle' = bundle
  BY DEF SwitchRename, Goto
<1>2. n \in Names /\ Seen(t)[Staging(n)] = bundle[n] /\ bundle[n] # None
  BY <1>1 DEF RowsInv, HandlerOf, StagingPlaces, SoundRows, NoneIsNoData
<1>3. Publish(t, d)
  BY <1>2 DEF SwitchRename
<1>4. d[Live(n)] = bundle[n]
  <2>1. DOMAIN Seen(t) = Tables /\ DOMAIN e = Tables
    BY DEF RowsInv, ViewOf, SoundTables
  <2>2. e[Live(n)] = bundle[n]
    BY <1>2, <2>1, OtherTable
  <2> HIDE DEF e
  <2>3. QED
    BY <1>2, <2>1, <2>2, OtherTable
<1>5. Puts(t, n, bundle[n])
  <2> HIDE DEF d
  <2>1. QED
    BY <1>1, <1>3, <1>4, SnapshotGone DEF Puts, Publish
<1>6. Promised!Import(t, n)
  BY <1>2, <1>5, PutsShown DEF Promised!Import
<1>7. QED
  BY <1>2, <1>6 DEF Shows, Promised!Next

\* StoreTables counts as the store does.
LEMMA SameCount == ASSUME NEW S PROVE Promised!Cardinality(S) = Cardinality(S)
BY DEF Promised!Cardinality, Cardinality

\* An insert commits all rows of a batch, numbered from those it finds committed.
LEMMA InsertShows ==
  ASSUME NoneIsNoData, SeparateNames, RowsInv, NEW t \in Threads, InsertCommit(t), Proper(t, Name(t))
  PROVE  Shows
<1> DEFINE n == Name(t)
           S == db[Live(n)]
           rows == job[t].rows
           v == meta[n].version
<1>1. at[t] = "commit" /\ bundle' = bundle /\ Commit(t)
  BY DEF InsertCommit, Goto
<1>2. /\ n \in Names /\ S # None /\ NewDocs(S, rows) /\ NextRows(n, S, rows, v)
      /\ view[t][Live(n)] = S \cup {rows[i] : i \in 1..Len(rows)}
  BY <1>1 DEF RowsInv, HandlerOf
<1>3. writer = t /\ Seen(t) = view[t]
  BY <1>1, WriterSees DEF WriterPlaces, Writing
<1>4. PICK batch \in Batches : rows = Labelled(n, S, batch, v)
  BY <1>2 DEF NextRows
<1>5. /\ DOMAIN batch = 1..Len(rows) /\ Len(rows) = Len(batch)
      /\ \A i \in 1..Len(rows) : rows[i].doc = batch[i]
      /\ {rows[i] : i \in 1..Len(rows)} = Promised!Numbered(n, S, batch, v)
  <2>1. batch \in Seq(Docs) /\ Len(batch) \in Nat /\ DOMAIN batch = 1..Len(batch)
    BY StoreAssumption
  <2>2. rows \in Seq(Row) /\ DOMAIN rows = 1..Len(rows) /\ Len(rows) \in Nat
    BY <1>2 DEF NextRows
  <2>3. DOMAIN rows = 1..Len(batch)
    BY <1>4, <2>1 DEF Labelled
  <2>4. Len(rows) = Len(batch)
    BY <2>1, <2>2, <2>3
  <2>5. \A i \in 1..Len(rows) :
          rows[i] = [of |-> n, id |-> Cardinality(S) + i - 1, doc |-> batch[i],
                     version |-> v, batch |-> batch]
    BY <1>4, <2>1, <2>4 DEF Labelled
  <2>6. ASSUME NEW i \in 1..Len(rows) PROVE rows[i].doc = batch[i]
    <3>1. rows[i] = [of |-> n, id |-> Cardinality(S) + i - 1, doc |-> batch[i],
                     version |-> v, batch |-> batch]
      BY <2>5
    <3>2. QED
      BY <3>1
  <2>7. {rows[i] : i \in 1..Len(rows)} = Promised!Numbered(n, S, batch, v)
    <3> HIDE DEF S, v, rows
    <3>1. QED
      BY <2>1, <2>4, <2>5, SameCount DEF Promised!Numbered
  <2>8. QED
    BY <2>1, <2>4, <2>6, <2>7
<1>6. Puts(t, n, S \cup Promised!Numbered(n, S, batch, v))
  <2>1. Publish(t, view[t])
    BY <1>1, <1>3 DEF Commit
  <2>2. Snapshot(t)' = None /\ db' = view[t]
    BY <2>1, SnapshotGone DEF Publish
  <2>3. QED
    BY <1>1, <1>2, <1>5, <2>2 DEF Puts
<1>7. Promised!Insert(t, n, batch)
  <2>1. Shown[n] = S
    BY <1>2 DEF Shown
  <2>2. Promised!Put(t, n, S \cup Promised!Numbered(n, S, batch, v))
    BY <1>2, <1>6, PutsShown
  <2>3. v \in 1..MaxVersion /\ \A r \in S : r.version < v
    BY <1>2 DEF NextRows
  <2>4. \A i \in DOMAIN batch :
          /\ \A r \in S : r.doc # batch[i]
          /\ \A j \in DOMAIN batch : batch[i] = batch[j] => i = j
    BY <1>2, <1>5 DEF NewDocs
  <2> HIDE DEF S, v
  <2>5. QED
    BY <1>2, <2>1, <2>2, <2>3, <2>4 DEF Promised!Insert, Shown
<1>8. QED
  BY <1>2, <1>4, <1>7 DEF Shows, Promised!Next

\* ensure_table creates a table where there is none, and is nothing otherwise.
LEMMA CreateShows ==
  ASSUME NoneIsNoData, SeparateNames, RowsInv, NEW t \in Threads, NEW n \in Names,
         NEW batch \in Batches, CallInsert(t, n, batch), Proper(t, n)
  PROVE  Shows
<1> DEFINE table == Seen(t)[Live(n)]
           rows  == IF table = None THEN {} ELSE table
           d     == [Seen(t) EXCEPT ![Live(n)] = rows]
<1>1. Execute(t, Live(n), rows) /\ at[t] = "idle" /\ bundle' = bundle
  BY DEF CallInsert, Call
<1>2. writer # t /\ DOMAIN Seen(t) = Tables
  BY <1>1, NotWriter DEF RowsInv, WriterPlaces, Writing, ViewOf, SoundTables
<1>3. CASE d = Seen(t)
  <2>1. Publish(t, db)
    BY <1>1, <1>2, <1>3 DEF Execute, Commit
  <2>2. Looks(t, n)
    BY <1>1, <2>1, SnapshotGone DEF Looks, Publish
  <2>3. QED
    BY <2>2, LooksShows
<1>4. CASE d # Seen(t)
  <2>1. CanWrite(t) /\ Publish(t, d)
    BY <1>1, <1>4 DEF Execute
  <2>2. Seen(t) = db
    BY <1>2, <2>1, SeenFresh DEF CanWrite
  <2>3. d[Live(n)] = rows
    <3> HIDE DEF rows
    <3>1. QED
      BY <1>2, OtherTable
  <2>4. Snapshot(t)' = None /\ db' = d
    <3> HIDE DEF d
    <3>1. QED
      BY <2>1, SnapshotGone DEF Publish
  <2>5. CASE table # None
    <3>1. Looks(t, n)
      BY <1>1, <2>2, <2>3, <2>4, <2>5 DEF Looks
    <3>2. QED
      BY <3>1, LooksShows
  <2>6. CASE table = None
    <3>1. Puts(t, n, {})
      BY <1>1, <2>3, <2>4, <2>6 DEF Puts
    <3>2. Promised!Create(t, n)
      BY <2>2, <2>6, <3>1, PutsShown DEF Promised!Create
    <3>3. QED
      BY <3>2 DEF Shows, Promised!Next
  <2>7. QED
    BY <2>5, <2>6
<1>5. QED
  BY <1>3, <1>4

\* A bundle holds what the exporting connection reads.
LEMMA ExportShows ==
  ASSUME NoneIsNoData, SeparateNames, RowsInv, NEW t \in Threads, NEW n \in Names,
         Export(t, n), Proper(t, n)
  PROVE  Shows
<1>1. /\ at[t] = "idle" /\ Reads(t)
      /\ bundle' = [bundle EXCEPT ![n] = RowsIn(Seen(t), Live(n))]
  BY DEF Export, At
<1>2. writer # t
  BY <1>1, NotWriter DEF RowsInv, WriterPlaces, Writing
<1>3. db' = db /\ Snapshot(t)' \in {Snapshot(t), Promised!Sees(t)}
  <2>1. db' = db /\ Snapshot(t)' \in {Snapshot(t), None, Promised!Sees(t)}
    BY <1>1, <1>2, SnapshotRead
  <2>2. Snapshot(t)' = None => Snapshot(t) = None
    BY <1>1, <1>2, NoneIsNoData DEF RowsInv, Domains, ViewOf, Reads, Snapshot, Seen
  <2>3. QED
    BY <2>1, <2>2
<1>4. Promised!Sees(t)[n] = Seen(t)[Live(n)]
  <2>1. CASE view[t] = None
    BY <2>1 DEF Promised!Sees, Snapshot, Seen
  <2>2. CASE view[t] # None
    <3>1. Snapshot(t) = [m \in Names |-> view[t][Live(m)]]
      BY <1>2, <2>2 DEF Snapshot
    <3>2. Snapshot(t) # None
      BY <3>1 DEF NoneIsNoData
    <3>3. QED
      BY <2>2, <3>1, <3>2 DEF Promised!Sees, Seen
  <2>3. QED
    BY <2>1, <2>2
<1>5. Shown' = Shown
  BY <1>3 DEF Shown
<1>6. Snapshots' \in {Snapshots, [Snapshots EXCEPT ![t] = Promised!Sees(t)]}
  <2>1. Snapshots = [Snapshots EXCEPT ![t] = Snapshot(t)]
    BY DEF Snapshots
  <2>2. QED
    BY <1>3, <2>1, OthersShown
<1>7. Promised!Export(t, n)
  BY <1>1, <1>4, <1>5, <1>6 DEF Promised!Export, Promised!Reads, Shown, Snapshots, RowsIn
<1>8. QED
  BY <1>7 DEF Shows, Promised!Next

LEMMA StartShows ==
  ASSUME NoneIsNoData, SeparateNames, RowsInv, NEW t \in Threads, NEW n \in Names, Starts(t, n)
  PROVE  Shows
<1>1. Proper(t, n)
  BY StartsProper
<1>2. CASE Search(t, n) \/ Flush(t, n) \/ CallPurge(t, n) \/ CallImport(t, n)
  <2>1. /\ at[t] = "idle" /\ bundle' = bundle
        /\ Reads(t) \/ UNCHANGED <<db, connections>>
    BY <1>2 DEF Search, Flush, CallPurge, CallImport, At, Call
  <2>2. writer # t
    BY <2>1, NotWriter DEF RowsInv, WriterPlaces, Writing
  <2>3. Looks(t, n)
    BY <2>1, <2>2, SnapshotRead DEF Looks, connections
  <2>4. QED
    BY <1>1, <2>3, LooksShows
<1>3. QED
  BY <1>1, <1>2, CreateShows, ExportShows DEF Starts

LEMMA ContinueShows ==
  ASSUME NoneIsNoData, SeparateNames, Unbindable = {}, RowsInv, ExportInv,
         NEW t \in Threads, Continues(t)
  PROVE  Shows
<1>1. Name(t) \in Names /\ Proper(t, Name(t))
  BY ContinuesProper
<1>2. CASE InsertCommit(t) \/ PurgeRows(t) \/ SwitchRename(t)
  BY <1>1, <1>2, InsertShows, PurgeShows, ImportShows
<1>3. CASE ~(InsertCommit(t) \/ PurgeRows(t) \/ SwitchRename(t))
  <2>1. Looks(t, Name(t))
    BY <1>3, QuietLooks DEF Continues
  <2>2. QED
    BY <1>1, <2>1, LooksShows
<1>4. QED
  BY <1>2, <1>3

LEMMA RestartShows == ASSUME SeparateNames, RowsInv, Restart PROVE Shows
<1>1. \A n \in Names : db'[Live(n)] = db[Live(n)]
  BY DEF Restart, SeparateNames, Tables
<1>2. Shown' = Shown
  BY <1>1 DEF Shown
<1>3. Snapshots' = [t \in Threads |-> None] /\ bundle' = bundle
  BY DEF Restart, Snapshots, Snapshot
<1>4. Promised!Restart
  BY <1>2, <1>3 DEF Promised!Restart, Shown, Snapshots
<1>5. QED
  BY <1>4 DEF Shows, Promised!Next

\* Statements, transactions and crashes of SQLite connections amount to steps on whole
\* tables: what handlers rely on is an implementation of StoreTables, as long as names
\* do not clash and every document can be bound.
THEOREM TablesImplemented ==
  ASSUME NoneIsNoData, SeparateNames, Unbindable = {} PROVE Spec => ImplementsTables
<1>1. Init => RowsInv /\ ExportInv
  <2>1. Init => ExportInv
    BY DEF Init, ExportInv, FreshMeta, PurgePlaces
  <2>2. QED
    BY <2>1, RowsInit
<1>2. RowsInv /\ ExportInv /\ [Next]_vars => RowsInv' /\ ExportInv'
  BY RowsStep, ExportStep
<1>3. Init => Promised!Init
  BY DEF Init, Promised!Init, Snapshot, Tables
<1>4. RowsInv /\ ExportInv /\ [Next]_vars => [Promised!Next]_(Promised!vars)
  <2>1. CASE UNCHANGED vars
    BY <2>1 DEF vars, connections, Promised!vars, Snapshot
  <2>2. ASSUME RowsInv, ExportInv, Next PROVE Shows
    BY <2>2, StartShows, ContinueShows, RestartShows DEF Next
  <2>3. QED
    BY <2>1, <2>2 DEF Shows
<1>5. QED
  BY <1>1, <1>2, <1>3, <1>4, PTL DEF Spec, ImplementsTables, Promised!Spec

=============================================================================
