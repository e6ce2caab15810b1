--------------------------- MODULE SearchThreads ---------------------------
(***************************************************************************)
(* The handlers of one collection as threads over its lock (RWLock): a     *)
(* search looks for the index outside the lock, loads it under the write   *)
(* lock when it is not in memory, lets that lock go, and takes the read    *)
(* lock for the search itself.  Every other handler works under the write  *)
(* lock, in two steps here: the files and the database, and the memory.    *)
(*                                                                         *)
(* Contents are numbers: rows = 3 and file = 3 say that the index file is  *)
(* built from the rows there are.                                          *)
(***************************************************************************)
EXTENDS RWLock

CONSTANTS
  None,      \* not in memory, no such file, nothing to do
  CacheOn,   \* _scalar_cache_max_rows > 0
  MaxMade, MaxCalls  \* bounds: contents made, requests served

ASSUME SearchAssumption ==
  None \notin Nat /\ CacheOn \in BOOLEAN /\ MaxMade \in Nat /\ MaxCalls \in Nat

VARIABLES
  disk,     \* the record, the rows and the index file
  mem,      \* _indexes and _scalar_cache
  pc, op,   \* what each thread does next, and the handler it runs
  local,    \* what a search has read
  overtaken,  \* history: searches since whose check or load the index was unloaded
  made, calls

lock == <<at, asleep, readers, writers_waiting, writer_active>>
threads == <<pc, op, local, overtaken, made, calls>>
svars == <<lock, disk, mem, threads>>

Absent == [exists |-> FALSE, rows |-> 0, total |-> 0, file |-> None, state |-> "ready"]
Empty  == [Absent EXCEPT !.exists = TRUE]
NoMem  == [index |-> None, cache |-> None]

Writers ==
  {"create", "insert", "flush", "load", "close", "upload", "export", "purge", "import", "drop"}

\* The server has just started, with no collection, with one that was flushed before, or
\* with one its recovery has marked invalid: the import a crash cut short left no index.
ThreadsInit ==
  /\ Init /\ mem = NoMem
  /\ disk \in {Absent, [Empty EXCEPT !.rows = 1, !.total = 1, !.file = 1],
                 [Empty EXCEPT !.rows = 1, !.state = "invalid"]}
  /\ pc = [t \in Threads |-> "idle"] /\ op = [t \in Threads |-> None]
  /\ local = [t \in Threads |-> None] /\ overtaken = {}
  /\ made = 1 /\ calls = 0

Goes(t, here, there) == pc[t] = here /\ pc' = [pc EXCEPT ![t] = there]

Call(t, handler, there) ==
  /\ calls < MaxCalls /\ calls' = calls + 1
  /\ Goes(t, "idle", there) /\ op' = [op EXCEPT ![t] = handler]
  /\ UNCHANGED <<lock, disk, mem, local, made>>

Ends(t, here) ==
  /\ Goes(t, here, "idle") /\ op' = [op EXCEPT ![t] = None]
  /\ local' = [local EXCEPT ![t] = None]
  /\ UNCHANGED <<overtaken, made, calls>>

\* Whoever takes the index out of memory overtakes the searches between their
\* check and their read lock.
NoteUnloading ==
  overtaken' = IF mem.index # None /\ mem'.index = None
               THEN overtaken \cup {t \in Threads : pc[t] = "read"} ELSE overtaken

-----------------------------------------------------------------------------
(* search *)

\* "collection_name not in self._indexes", without a lock.
CallSearch(t) ==
  /\ Call(t, "search", IF mem.index = None THEN "load" ELSE "read")
  /\ overtaken' = overtaken \ {t}

LockToLoad(t) == pc[t] = "load" /\ AcquireWrite(t) /\ UNCHANGED <<disk, mem, threads>>

Loaded == [index |-> disk.file, cache |-> IF CacheOn THEN disk.rows ELSE None]

\* Mutant: the write lock is kept, to be let go after the search.
LoadKeepingLock(t) ==
  /\ pc[t] = "load" /\ at[t] = "writing" /\ disk.file # None
  /\ Goes(t, "load", "read") /\ mem' = IF mem.index = None THEN Loaded ELSE mem
  /\ UNCHANGED <<lock, disk, op, local, overtaken, made, calls>>

\* Mutant: without an index file the search goes on.
LoadWithoutFile(t) ==
  /\ pc[t] = "load" /\ at[t] = "writing" /\ ReleaseWrite(t)
  /\ Goes(t, "load", "read") /\ mem' = IF mem.index = None THEN Loaded ELSE mem
  /\ overtaken' = overtaken \ {t}
  /\ UNCHANGED <<disk, op, local, made, calls>>

\* The check again, now under the lock; no collection, one that is invalid, or no index
\* file ends the search.
Load(t) ==
  /\ pc[t] = "load" /\ at[t] = "writing" /\ ReleaseWrite(t)
  /\ \/ /\ mem.index # None
        /\ Goes(t, "load", "read") /\ UNCHANGED <<mem, op, local, made, calls>>
        /\ overtaken' = overtaken \ {t}
     \/ /\ mem.index = None /\ disk.file # None /\ disk.state # "invalid"
        /\ Goes(t, "load", "read") /\ mem' = Loaded /\ UNCHANGED <<op, local, made, calls>>
        /\ overtaken' = overtaken \ {t}
     \/ /\ mem.index = None /\ (disk.file = None \/ disk.state = "invalid")
        /\ Ends(t, "load") /\ UNCHANGED mem
  /\ UNCHANGED disk

LockToRead(t) == pc[t] = "read" /\ AcquireRead(t) /\ UNCHANGED <<disk, mem, threads>>

Snapshot == [disk |-> disk, mem |-> mem]

\* Mutant: the index is taken before the read lock.
BeginEarly(t) ==
  /\ Goes(t, "read", "resolve") /\ at[t] = "out" /\ mem.index # None
  /\ local' = [local EXCEPT ![t] = Snapshot]
  /\ AcquireRead(t)
  /\ UNCHANGED <<disk, mem, op, overtaken, made, calls>>

\* The record and the index; the search of the index is on its way.
Begin(t) ==
  /\ Goes(t, "read", "resolve") /\ at[t] = "reading"
  /\ disk.exists /\ mem.index # None
  /\ local' = [local EXCEPT ![t] = Snapshot]
  /\ UNCHANGED <<lock, disk, mem, op, overtaken, made, calls>>

\* The collection is gone, or _indexes[collection_name] raises KeyError.
BeginFails(t) ==
  /\ at[t] = "reading" /\ (~disk.exists \/ mem.index = None)
  /\ Ends(t, "read") /\ ReleaseRead(t) /\ UNCHANGED <<disk, mem>>

\* Labels are resolved with the cache or the rows, and the read lock let go.
Resolve(t) ==
  /\ at[t] = "reading" /\ Ends(t, "resolve") /\ ReleaseRead(t) /\ UNCHANGED <<disk, mem>>

-----------------------------------------------------------------------------
(* The handlers that write. *)

Makes(handler) == handler \in {"insert", "import", "upload"}

CallWriter(t, handler) ==
  /\ Makes(handler) => made + Cardinality({u \in Threads : Makes(op[u])}) < MaxMade
  /\ Call(t, handler, "first") /\ UNCHANGED overtaken

LockToWrite(t) == pc[t] = "first" /\ AcquireWrite(t) /\ UNCHANGED <<disk, mem, threads>>

\* What the handler must find in the record.
Allowed(handler) ==
  CASE handler = "create" -> ~disk.exists
    [] handler = "flush"  -> disk.exists /\ disk.rows # 0
    [] handler = "load"   -> disk.file # None
    [] handler = "export" -> disk.file # None /\ disk.state = "ready"
    [] handler \in {"close", "drop"} -> TRUE
    [] OTHER -> disk.exists

\* Refused for what the request says, or for versions and counts not followed here; an
\* export refused over its counts has loaded the index all the same, and ends in Second.
Refusable(handler) == handler \in {"insert", "upload", "export", "purge", "import"}

Stored(handler) ==
  CASE handler = "create" -> Empty
    [] handler = "insert" -> [disk EXCEPT !.rows = made + 1, !.total = made + 1]
    [] handler = "flush"  -> [disk EXCEPT !.file = disk.rows, !.total = disk.rows]
    [] handler = "upload" -> [disk EXCEPT !.file = made + 1]
    [] handler = "purge"  -> [Empty EXCEPT !.state = "purged"]
    [] handler = "import" ->
         [Empty EXCEPT !.rows = made + 1, !.total = made + 1, !.file = made + 1]
    [] handler = "drop"   -> Absent
    [] OTHER -> disk

\* An upload, an import, an export that finds no index in memory and a purge leave the
\* cache as it is.
Kept(handler) ==
  CASE handler \in {"insert", "close", "drop"} -> NoMem
    [] handler \in {"flush", "load"} -> Loaded
    [] handler \in {"upload", "import"} -> [mem EXCEPT !.index = disk.file]
    [] handler = "export" -> [mem EXCEPT !.index = IF @ = None THEN disk.file ELSE @]
    [] handler = "purge" -> [mem EXCEPT !.index = None]
    [] OTHER -> mem

ChangeDisk(t) ==
  /\ disk' = Stored(op[t]) /\ made' = IF Makes(op[t]) THEN made + 1 ELSE made
  /\ UNCHANGED <<mem, overtaken>>

ChangeMem(t) == mem' = Kept(op[t]) /\ NoteUnloading /\ UNCHANGED <<disk, made>>

\* purge and drop forget the index before they delete it.
MemFirst(handler) == handler \in {"purge", "drop"}

First(t) ==
  /\ at[t] = "writing" /\ Allowed(op[t]) /\ Goes(t, "first", "second")
  /\ IF MemFirst(op[t]) THEN ChangeMem(t) ELSE ChangeDisk(t)
  /\ UNCHANGED <<lock, op, local, calls>>

Refused(t) ==
  /\ at[t] = "writing" /\ (~Allowed(op[t]) \/ Refusable(op[t]))
  /\ Ends(t, "first") /\ ReleaseWrite(t) /\ UNCHANGED <<disk, mem>>

Second(t) ==
  /\ at[t] = "writing" /\ Goes(t, "second", "idle") /\ ReleaseWrite(t)
  /\ op' = [op EXCEPT ![t] = None]
  /\ IF MemFirst(op[t]) THEN ChangeDisk(t) ELSE ChangeMem(t)
  /\ UNCHANGED <<local, calls>>

-----------------------------------------------------------------------------

Calls(t) == CallSearch(t) \/ \E handler \in Writers : CallWriter(t, handler)

Steps(t) ==
  \/ LockToLoad(t) \/ Load(t) \/ LockToRead(t) \/ Begin(t) \/ BeginFails(t) \/ Resolve(t)
  \/ LockToWrite(t) \/ First(t) \/ Refused(t) \/ Second(t)

ThreadsNext == \E t \in Threads : Calls(t) \/ Steps(t)

ThreadsSpec == ThreadsInit /\ [][ThreadsNext]_svars

\* A thread that is not asleep in wait() runs.
FairThreads == ThreadsSpec /\ \A t \in Threads : WF_svars(Steps(t))

-----------------------------------------------------------------------------
(* Properties. *)

\* A thread asks for the lock, holds it or sleeps exactly where its handler says; no
\* handler comes to the lock with the lock in its hands.
ThreadsTypeOK ==
  \A t \in Threads :
    /\ pc[t] = "idle" => at[t] = "out"
    /\ pc[t] = "load" => at[t] \in {"out", "want_write", "writing"}
    /\ pc[t] = "read" => at[t] \in {"out", "want_read", "reading"}
    /\ pc[t] = "resolve" => at[t] = "reading"
    /\ pc[t] = "first" => at[t] \in {"out", "want_write", "writing"}
    /\ pc[t] = "second" => at[t] = "writing"

\* A search answers from one instant: the record, the index, the cache and the rows
\* it started with are the collection's until it has resolved its labels.
SearchAtOneInstant == \A t \in Threads : pc[t] = "resolve" => local[t] = Snapshot

\* A search finds the index it has seen or loaded, unless another handler unloaded
\* it in between: only then _indexes[collection_name] raises KeyError.
IndexLostOnlyWhenOvertaken ==
  \A t \in Threads : pc[t] = "read" /\ mem.index = None => t \in overtaken

\* When no more requests come every request ends, searches that had to load the
\* index and waited behind writers included: no handler waits for itself or another
\* for ever.
RequestsEnd == \A t \in Threads : pc[t] # "idle" ~> pc[t] = "idle"

=============================================================================
