------------------------------- MODULE RWLock -------------------------------
(***************************************************************************)
(* src/src/python/rwlock.py: the lock each collection's handlers take.     *)
(*                                                                         *)
(* The body of every method runs under the condition's mutex, so it is one *)
(* action up to a wait(), and one more each time the waiter wakes and tests *)
(* again.  The order in which woken threads, and threads that have just    *)
(* arrived, get the mutex is left open.                                    *)
(***************************************************************************)
EXTENDS Integers, FiniteSets

CONSTANT Threads

ASSUME ThreadsAssumption == IsFiniteSet(Threads)

VARIABLES
  at,               \* where each thread is
  asleep,           \* threads in wait() that have not been notified
  readers,          \* _readers
  writers_waiting,  \* _writers_waiting
  writer_active     \* _writer_active

vars == <<at, asleep, readers, writers_waiting, writer_active>>

\* "want_read" and "want_write": in the while loop of the acquire method.
Places == {"out", "want_read", "reading", "want_write", "writing"}

In(place) == {t \in Threads : at[t] = place}

Init ==
  /\ at = [t \in Threads |-> "out"] /\ asleep = {}
  /\ readers = 0 /\ writers_waiting = 0 /\ writer_active = FALSE

Move(t, place) == at' = [at EXCEPT ![t] = place]

Wait(t, place) == Move(t, place) /\ asleep' = asleep \cup {t}

\* The thread has come to the lock, or has been woken in the loop.
Tests(t, place) == at[t] = "out" \/ (at[t] = place /\ t \notin asleep)

\* Mutant: readers pass waiting writers.
ReadableUnlessWritten == ~writer_active

Readable == ~writer_active /\ writers_waiting = 0

AcquireRead(t) ==
  /\ Tests(t, "want_read")
  /\ \/ /\ Readable
        /\ Move(t, "reading") /\ readers' = readers + 1
        /\ UNCHANGED asleep
     \/ /\ ~Readable
        /\ Wait(t, "want_read")
        /\ UNCHANGED readers
  /\ UNCHANGED <<writers_waiting, writer_active>>

\* Mutant: the last reader wakes nobody.
ReleaseReadSilently(t) ==
  /\ at[t] = "reading"
  /\ Move(t, "out") /\ readers' = readers - 1
  /\ UNCHANGED <<asleep, writers_waiting, writer_active>>

ReleaseRead(t) ==
  /\ at[t] = "reading"
  /\ Move(t, "out") /\ readers' = readers - 1
  /\ asleep' = IF readers' = 0 THEN {} ELSE asleep
  /\ UNCHANGED <<writers_waiting, writer_active>>

\* Mutant: readers are not waited for.
WritableUnlessWritten == ~writer_active

Writable == ~writer_active /\ readers = 0

\* A writer counts as waiting from its arrival until it goes in.
AcquireWrite(t) ==
  LET waiting == IF at[t] = "out" THEN writers_waiting + 1 ELSE writers_waiting
  IN  /\ Tests(t, "want_write")
      /\ \/ /\ Writable
            /\ Move(t, "writing") /\ writer_active' = TRUE
            /\ writers_waiting' = waiting - 1
            /\ UNCHANGED asleep
         \/ /\ ~Writable
            /\ Wait(t, "want_write")
            /\ writers_waiting' = waiting
            /\ UNCHANGED writer_active
      /\ UNCHANGED readers

\* Mutant: the writer wakes only waiting writers.
ReleaseWriteToWriters(t) ==
  /\ at[t] = "writing"
  /\ Move(t, "out") /\ writer_active' = FALSE
  /\ asleep' = asleep \ In("want_write")
  /\ UNCHANGED <<readers, writers_waiting>>

ReleaseWrite(t) ==
  /\ at[t] = "writing"
  /\ Move(t, "out") /\ writer_active' = FALSE
  /\ asleep' = {}
  /\ UNCHANGED <<readers, writers_waiting>>

Next ==
  \E t \in Threads :
    AcquireRead(t) \/ ReleaseRead(t) \/ AcquireWrite(t) \/ ReleaseWrite(t)

\* A handler ends and a woken thread runs again; nobody has to come to the lock.
Fairness ==
  \A t \in Threads :
    /\ WF_vars(ReleaseRead(t)) /\ WF_vars(ReleaseWrite(t))
    /\ WF_vars(at[t] = "want_read" /\ AcquireRead(t))
    /\ WF_vars(at[t] = "want_write" /\ AcquireWrite(t))

Spec == Init /\ [][Next]_vars

FairSpec == Spec /\ Fairness

-----------------------------------------------------------------------------
(* Properties. *)

\* The counters and the flag are what the threads' places say they are, and only
\* threads in a loop sleep.
TypeOK ==
  /\ at \in [Threads -> Places] /\ asleep \subseteq In("want_read") \cup In("want_write")
  /\ readers \in Nat /\ writers_waiting \in Nat /\ writer_active \in BOOLEAN

\* A handler under the write lock is alone: no second writer, and no reader,
\* whatever the order in which woken threads get the mutex.
MutualExclusion ==
  \A t, u \in Threads : at[t] = "writing" /\ u # t => at[u] \notin {"reading", "writing"}

\* No wake-up is lost: a thread sleeps only while the lock is held, or while a
\* writer that has been woken is about to take it.
NoLostWakeup ==
  asleep # {} =>
    \/ In("reading") \cup In("writing") # {}
    \/ In("want_write") \ asleep # {}

\* The lock implements the lock the handlers rely on: a reader never goes in past
\* a waiting writer, and waiting writers get in.
Abstract ==
  INSTANCE CollectionLock WITH
    reading <- In("reading"), writing <- In("writing"), asking <- In("want_write")

ImplementsLock == Abstract!Spec

\* Writers are preferred and may keep readers out; but when they stop coming no
\* reader is left waiting.
ReadersGetIn ==
  <>[](In("want_write") \cup In("writing") = {}) =>
    \A t \in Threads : at[t] = "want_read" ~> at[t] = "reading"

\* _readers, _writers_waiting and _writer_active agree with the threads' places.
CountsOK ==
  /\ readers = Cardinality(In("reading"))
  /\ writers_waiting = Cardinality(In("want_write"))
  /\ writer_active <=> In("writing") # {}

\* The counters count who reads and who waits, and while one thread writes nobody
\* else is in.
LockInv == TypeOK /\ CountsOK /\ MutualExclusion /\ (In("writing") # {} => readers = 0)

=============================================================================
