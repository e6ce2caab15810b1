----------------------------- MODULE LockProofs -----------------------------
(***************************************************************************)
(* Proofs, for any finite set of threads: that RWLock's counters count,    *)
(* that a writer is alone, that no wake-up is lost, and that every step of *)
(* RWLock is a step of CollectionLock; then, for any number of requests,   *)
(* that the handlers of SearchThreads keep the rules of their lock, and    *)
(* that a search answers from one instant.  The lock's own invariant       *)
(* carries over: every step of a handler is a step of the lock or leaves   *)
(* it alone.                                                               *)
(***************************************************************************)
EXTENDS SearchThreads, FiniteSetTheorems, TLAPS

IInv == LockInv /\ NoLostWakeup

-----------------------------------------------------------------------------
(* How one thread's move changes who is where. *)

LEMMA Moved ==
  ASSUME at \in [Threads -> Places], NEW t \in Threads, NEW q \in Places, Move(t, q), NEW p
  PROVE  /\ at' \in [Threads -> Places]
         /\ In(p)' = IF p = q THEN In(p) \cup {t} ELSE In(p) \ {t}
BY DEF Move, In

LEMMA CountMoved ==
  ASSUME at \in [Threads -> Places], NEW t \in Threads, NEW q \in Places, Move(t, q), NEW p
  PROVE  /\ Cardinality(In(p)) \in Nat
         /\ Cardinality(In(p)') = IF p = q /\ at[t] # p THEN Cardinality(In(p)) + 1
                                  ELSE IF p # q /\ at[t] = p THEN Cardinality(In(p)) - 1
                                  ELSE Cardinality(In(p))
<1>1. IsFiniteSet(In(p))
  BY ThreadsAssumption, FS_Subset DEF In
<1>2. Cardinality(In(p)) \in Nat
  BY <1>1, FS_CardinalityType
<1>3. t \in In(p) <=> at[t] = p
  BY DEF In
<1>4. CASE p = q
  BY <1>1, <1>2, <1>3, <1>4, Moved, FS_AddElement
<1>5. CASE p # q
  BY <1>1, <1>2, <1>3, <1>5, Moved, FS_RemoveElement
<1>6. QED
  BY <1>4, <1>5

\* Nobody is at a place that the counter says is empty.
LEMMA EmptyPlace ==
  ASSUME at \in [Threads -> Places], NEW p
  PROVE  Cardinality(In(p)) = 0 <=> In(p) = {}
<1>1. IsFiniteSet(In(p))
  BY ThreadsAssumption, FS_Subset DEF In
<1>2. QED
  BY <1>1, FS_EmptySet

-----------------------------------------------------------------------------
(* Every step keeps the invariant. *)

LEMMA AcquireReadStep ==
  ASSUME LockInv, NEW t \in Threads, AcquireRead(t) PROVE LockInv'
<1>1. at \in [Threads -> Places] /\ at[t] \in {"out", "want_read"}
  BY DEF LockInv, TypeOK, AcquireRead, Tests
<1>2. CASE Readable /\ Move(t, "reading") /\ readers' = readers + 1 /\ UNCHANGED asleep
  <2>1. TypeOK'
    BY <1>1, <1>2, Moved DEF LockInv, TypeOK, AcquireRead, Places, Tests, In
  <2>2. CountsOK'
    <3>1. Cardinality(In("reading")') = Cardinality(In("reading")) + 1
      BY <1>1, <1>2, CountMoved DEF Places
    <3>2. Cardinality(In("want_write")') = Cardinality(In("want_write"))
      BY <1>1, <1>2, CountMoved DEF Places
    <3>3. In("writing")' = In("writing")
      BY <1>1, <1>2, Moved DEF Places, In
    <3>4. QED
      BY <1>2, <3>1, <3>2, <3>3 DEF LockInv, CountsOK, AcquireRead
  <2>3. In("writing") = {} /\ In("writing")' = {}
    BY <1>1, <1>2, Moved DEF LockInv, CountsOK, Readable, Places
  <2>4. QED
    BY <2>1, <2>2, <2>3 DEF LockInv, MutualExclusion, In
<1>3. CASE ~Readable /\ Wait(t, "want_read") /\ UNCHANGED readers
  <2>1. Move(t, "want_read") /\ asleep' = asleep \cup {t}
    BY <1>3 DEF Wait
  <2>2. TypeOK'
    BY <1>1, <1>3, <2>1, Moved DEF LockInv, TypeOK, AcquireRead, Places, In
  <2>3. CountsOK'
    <3>1. /\ In("writing")' = In("writing") /\ In("reading")' = In("reading")
          /\ In("want_write")' = In("want_write")
      BY <1>1, <2>1, Moved DEF Places, In
    <3>2. QED
      BY <1>3, <3>1 DEF LockInv, CountsOK, AcquireRead
  <2>4. In("writing")' = In("writing") /\ In("reading")' = In("reading")
    BY <1>1, <2>1, Moved DEF Places, In
  <2>5. MutualExclusion'
    BY <2>4 DEF LockInv, MutualExclusion, In
  <2>6. QED
    BY <1>3, <2>2, <2>3, <2>4, <2>5 DEF LockInv
<1>4. QED
  BY <1>2, <1>3 DEF AcquireRead

LEMMA ReleaseReadStep ==
  ASSUME LockInv, NEW t \in Threads, ReleaseRead(t) PROVE LockInv'
<1>1. at \in [Threads -> Places] /\ at[t] = "reading" /\ Move(t, "out") /\ readers' = readers - 1
  BY DEF LockInv, TypeOK, ReleaseRead
<1>2. In("writing") = {}
  BY <1>1 DEF LockInv, MutualExclusion, In, Places
<1>3. CountsOK'
  <2>1. Cardinality(In("reading")') = Cardinality(In("reading")) - 1
    BY <1>1, CountMoved DEF Places
  <2>2. In("want_write")' = In("want_write") /\ In("writing")' = In("writing")
    BY <1>1, Moved DEF Places, In
  <2>3. QED
    BY <1>1, <2>1, <2>2 DEF LockInv, CountsOK, ReleaseRead
<1>4. TypeOK'
  <2>1. readers' \in Nat
    <3>1. In("reading") # {}
      BY <1>1 DEF In
    <3>2. readers # 0
      BY <1>1, <3>1, EmptyPlace DEF LockInv, CountsOK
    <3>3. QED
      BY <1>1, <3>2 DEF LockInv, TypeOK
  <2>2. QED
    BY <1>1, <2>1, Moved DEF LockInv, TypeOK, ReleaseRead, Places, In
<1>5. In("writing")' = {}
  BY <1>1, <1>2, Moved DEF Places
<1>6. QED
  BY <1>3, <1>4, <1>5 DEF LockInv, MutualExclusion, In

LEMMA AcquireWriteStep ==
  ASSUME LockInv, NEW t \in Threads, AcquireWrite(t) PROVE LockInv'
<1> DEFINE waiting == IF at[t] = "out" THEN writers_waiting + 1 ELSE writers_waiting
<1>1. at \in [Threads -> Places] /\ at[t] \in {"out", "want_write"}
  BY DEF LockInv, TypeOK, AcquireWrite, Tests
<1>2. CASE /\ Writable /\ Move(t, "writing") /\ writer_active' = TRUE
           /\ writers_waiting' = waiting - 1 /\ UNCHANGED <<asleep, readers>>
  <2>1. In("writing") = {} /\ In("reading") = {}
    BY <1>1, <1>2, EmptyPlace DEF LockInv, CountsOK, Writable
  <2>2. In("writing")' = {t} /\ In("reading")' = {}
    BY <1>1, <1>2, <2>1, Moved DEF Places
  <2>3. writers_waiting' = Cardinality(In("want_write")')
    <3>1. Cardinality(In("want_write")') = IF at[t] = "want_write"
                                           THEN Cardinality(In("want_write")) - 1
                                           ELSE Cardinality(In("want_write"))
      BY <1>1, <1>2, CountMoved DEF Places
    <3>2. QED
      BY <1>1, <1>2, <3>1 DEF LockInv, TypeOK, CountsOK
  <2>4. writers_waiting' \in Nat
    <3>1. IsFiniteSet(In("want_write")')
      BY ThreadsAssumption, FS_Subset DEF In
    <3>2. QED
      BY <2>3, <3>1, FS_CardinalityType
  <2>5. CountsOK'
    BY <1>1, <1>2, <2>1, <2>2, <2>3 DEF LockInv, CountsOK
  <2>6. asleep \subseteq In("want_read")' \cup In("want_write")'
    BY <1>1, <1>2, Moved DEF LockInv, TypeOK, AcquireWrite, Tests, Places, In
  <2>7. TypeOK'
    BY <1>1, <1>2, <2>4, <2>6, Moved DEF LockInv, TypeOK, Places
  <2>8. MutualExclusion'
    BY <2>2 DEF MutualExclusion, In
  <2>9. QED
    BY <1>2, <2>5, <2>7, <2>8 DEF LockInv, Writable
<1>3. CASE /\ ~Writable /\ Wait(t, "want_write") /\ writers_waiting' = waiting
           /\ UNCHANGED <<writer_active, readers>>
  <2>1. Move(t, "want_write") /\ asleep' = asleep \cup {t}
    BY <1>3 DEF Wait
  <2>2. CountsOK'
    <3>1. Cardinality(In("want_write")') = IF at[t] = "want_write"
                                           THEN Cardinality(In("want_write"))
                                           ELSE Cardinality(In("want_write")) + 1
      BY <1>1, <2>1, CountMoved DEF Places
    <3>2. In("writing")' = In("writing") /\ In("reading")' = In("reading")
      BY <1>1, <2>1, Moved DEF Places, In
    <3>3. QED
      BY <1>1, <1>3, <3>1, <3>2 DEF LockInv, CountsOK
  <2>3. asleep' \subseteq In("want_read")' \cup In("want_write")'
    BY <1>1, <2>1, Moved DEF LockInv, TypeOK, Places, In
  <2>4. TypeOK'
    BY <1>1, <1>3, <2>1, <2>3, Moved DEF LockInv, TypeOK, Places
  <2>5. In("writing")' = In("writing") /\ In("reading")' = In("reading")
    BY <1>1, <2>1, Moved DEF Places, In
  <2>6. MutualExclusion'
    BY <2>5 DEF LockInv, MutualExclusion, In
  <2>7. QED
    BY <1>3, <2>2, <2>4, <2>5, <2>6 DEF LockInv
<1>4. QED
  BY <1>2, <1>3 DEF AcquireWrite

LEMMA ReleaseWriteStep ==
  ASSUME LockInv, NEW t \in Threads, ReleaseWrite(t) PROVE LockInv'
<1>1. at \in [Threads -> Places] /\ at[t] = "writing" /\ Move(t, "out")
  BY DEF LockInv, TypeOK, ReleaseWrite
<1>2. In("writing") = {t}
  BY <1>1 DEF LockInv, MutualExclusion, In
<1>3. In("writing")' = {}
  BY <1>1, <1>2, Moved DEF Places
<1>4. CountsOK'
  BY <1>1, <1>3, Moved, CountMoved DEF LockInv, TypeOK, CountsOK, ReleaseWrite, Places
<1>5. TypeOK'
  BY <1>1, Moved DEF LockInv, TypeOK, ReleaseWrite, Places
<1>6. QED
  BY <1>3, <1>4, <1>5 DEF LockInv, MutualExclusion, In

\* Whoever falls asleep found the lock held or a writer on its way; whoever ends
\* that wakes everyone, and a woken writer that sleeps again found it held.
LEMMA WakeupStep ==
  ASSUME LockInv, LockInv', NoLostWakeup, NEW t \in Threads,
         AcquireRead(t) \/ ReleaseRead(t) \/ AcquireWrite(t) \/ ReleaseWrite(t)
  PROVE  NoLostWakeup'
<1>0. at \in [Threads -> Places]
  BY DEF LockInv, TypeOK
<1>1. CASE AcquireRead(t)
  <2>1. CASE Readable /\ Move(t, "reading") /\ readers' = readers + 1 /\ UNCHANGED asleep
    <3>1. In("reading")' = In("reading") \cup {t}
      BY <1>0, <2>1, Moved DEF Places
    <3>2. QED
      BY <3>1 DEF NoLostWakeup
  <2>2. CASE ~Readable /\ Wait(t, "want_read")
    <3>1. at[t] \in {"out", "want_read"}
      BY <1>1 DEF AcquireRead, Tests
    <3>2. /\ In("writing")' = In("writing") /\ In("want_write")' = In("want_write")
          /\ In("reading")' = In("reading") /\ t \notin In("want_write")
      BY <1>0, <2>2, <3>1, Moved DEF Places, In, Wait
    <3>3. In("writing") # {} \/ In("want_write") # {}
      BY <1>0, <2>2, EmptyPlace DEF Readable, LockInv, CountsOK
    <3>4. asleep' = asleep \cup {t}
      BY <2>2 DEF Wait
    <3>5. QED
      BY <3>2, <3>3, <3>4 DEF NoLostWakeup
  <2>3. QED
    BY <1>1, <2>1, <2>2 DEF AcquireRead
<1>2. CASE ReleaseRead(t)
  <2>1. CASE asleep' = {}
    BY <2>1 DEF NoLostWakeup
  <2>2. CASE readers' # 0
    BY <1>0, <2>2, EmptyPlace DEF LockInv, TypeOK, CountsOK, NoLostWakeup
  <2>3. QED
    BY <1>2, <2>1, <2>2 DEF ReleaseRead
<1>3. CASE AcquireWrite(t)
  <2>1. CASE Move(t, "writing")
    <3>1. In("writing")' = In("writing") \cup {t}
      BY <1>0, <2>1, Moved DEF Places
    <3>2. QED
      BY <3>1 DEF NoLostWakeup
  <2>2. CASE ~Writable /\ Wait(t, "want_write")
    <3>1. In("writing") # {} \/ In("reading") # {}
      BY <1>0, <2>2, EmptyPlace DEF Writable, LockInv, CountsOK, TypeOK
    <3>2. at[t] \in {"out", "want_write"}
      BY <1>3 DEF AcquireWrite, Tests
    <3>3. In("writing")' = In("writing") /\ In("reading")' = In("reading")
      BY <1>0, <2>2, <3>2, Moved DEF Places, In, Wait
    <3>4. QED
      BY <3>1, <3>3 DEF NoLostWakeup
  <2>3. QED
    BY <1>3, <2>1, <2>2 DEF AcquireWrite
<1>4. CASE ReleaseWrite(t)
  BY <1>4 DEF ReleaseWrite, NoLostWakeup
<1>5. QED
  BY <1>1, <1>2, <1>3, <1>4

LEMMA InitInv == Init => IInv
<1> SUFFICES ASSUME Init PROVE IInv
  OBVIOUS
<1>1. In("reading") = {} /\ In("want_write") = {} /\ In("writing") = {}
  BY DEF Init, In
<1>2. Cardinality({}) = 0
  BY FS_EmptySet
<1>3. QED
  BY <1>1, <1>2
     DEF Init, IInv, LockInv, TypeOK, CountsOK, MutualExclusion, NoLostWakeup, Places

LEMMA StepInv == ASSUME IInv, [Next]_vars PROVE IInv'
<1>1. CASE Next
  <2>1. PICK t \in Threads :
          AcquireRead(t) \/ ReleaseRead(t) \/ AcquireWrite(t) \/ ReleaseWrite(t)
    BY <1>1 DEF Next
  <2>2. LockInv'
    BY <2>1, AcquireReadStep, ReleaseReadStep, AcquireWriteStep, ReleaseWriteStep DEF IInv
  <2>3. QED
    BY <2>1, <2>2, WakeupStep DEF IInv
<1>2. CASE UNCHANGED vars
  BY <1>2 DEF vars, IInv, LockInv, TypeOK, CountsOK, MutualExclusion, NoLostWakeup, In
<1>3. QED
  BY <1>1, <1>2

-----------------------------------------------------------------------------
(* The theorems. *)

\* The counters count and a writer is alone, and a thread sleeps only while
\* someone will wake it: together an inductive invariant.
THEOREM Invariance == Spec => []IInv
<1>1. QED
  BY InitInv, StepInv, PTL DEF Spec

\* The counters agree with the threads, and a handler that holds the write lock
\* is alone, for any number of threads.
THEOREM LockSafe == Spec => []LockInv
<1>1. IInv => LockInv
  BY DEF IInv
<1>2. QED
  BY <1>1, Invariance, PTL

\* A thread sleeps in the condition only while a holder or a woken writer will
\* notify it, for any number of threads.
THEOREM WakeupsKept == Spec => []NoLostWakeup
<1>1. IInv => NoLostWakeup
  BY DEF IInv
<1>2. QED
  BY <1>1, Invariance, PTL

\* Every step of the lock is a step, or a stutter, of the lock the handlers rely
\* on: in particular no reader goes in past a waiting writer.
THEOREM StepImplements ==
  Spec => Abstract!Init /\ [][Abstract!Next]_(Abstract!vars)
<1>1. Init => Abstract!Init
  BY DEF Init, Abstract!Init, In
<1>2. ASSUME IInv, [Next]_vars PROVE [Abstract!Next]_(Abstract!vars)
  <2> USE DEF Abstract!Next, Abstract!vars
  <2>0. at \in [Threads -> Places]
    BY <1>2 DEF IInv, LockInv, TypeOK
  <2>1. CASE UNCHANGED vars
    BY <2>1 DEF vars, In
  <2>2. ASSUME NEW t \in Threads, AcquireRead(t) PROVE [Abstract!Next]_(Abstract!vars)
    <3>1. at[t] \in {"out", "want_read"}
      BY <2>2 DEF AcquireRead, Tests
    <3>2. CASE Readable /\ Move(t, "reading")
      <4>1. In("writing") = {} /\ In("want_write") = {}
        BY <1>2, <2>0, <3>2, EmptyPlace DEF IInv, LockInv, CountsOK, Readable
      <4>2. /\ In("reading")' = In("reading") \cup {t} /\ In("writing")' = In("writing")
            /\ In("want_write")' = In("want_write") /\ t \notin In("reading")
        BY <2>0, <3>1, <3>2, Moved DEF Places, In
      <4>3. Abstract!Read(t)
        BY <4>1, <4>2 DEF Abstract!Read, Abstract!Out
      <4>4. QED
        BY <4>3
    <3>3. CASE Wait(t, "want_read")
      BY <2>0, <3>1, <3>3, Moved DEF Wait, Places, In
    <3>4. QED
      BY <2>2, <3>2, <3>3 DEF AcquireRead
  <2>3. ASSUME NEW t \in Threads, AcquireWrite(t) PROVE [Abstract!Next]_(Abstract!vars)
    <3>1. at[t] \in {"out", "want_write"}
      BY <2>3 DEF AcquireWrite, Tests
    <3>2. CASE Writable /\ Move(t, "writing")
      <4>1. In("writing") = {} /\ In("reading") = {}
        BY <1>2, <2>0, <3>2, EmptyPlace DEF IInv, LockInv, CountsOK, Writable
      <4>2. /\ In("reading")' = In("reading") /\ In("writing")' = {t}
            /\ In("want_write")' = In("want_write") \ {t}
        BY <2>0, <3>1, <3>2, <4>1, Moved DEF Places, In
      <4>3. Abstract!Write(t)
        BY <4>1, <4>2 DEF Abstract!Write
      <4>4. QED
        BY <4>3
    <3>3. CASE Wait(t, "want_write")
      <4>1. /\ In("reading")' = In("reading") /\ In("writing")' = In("writing")
            /\ In("want_write")' = In("want_write") \cup {t}
            /\ t \notin In("reading") \cup In("writing")
        BY <2>0, <3>1, <3>3, Moved DEF Wait, Places, In
      <4>2. CASE t \in In("want_write")
        BY <4>1, <4>2
      <4>3. CASE t \notin In("want_write")
        BY <4>1, <4>3 DEF Abstract!Ask, Abstract!Out
      <4>4. QED
        BY <4>2, <4>3
    <3>4. QED
      BY <2>3, <3>2, <3>3 DEF AcquireWrite
  <2>4. ASSUME NEW t \in Threads, ReleaseRead(t) \/ ReleaseWrite(t)
        PROVE  [Abstract!Next]_(Abstract!vars)
    <3>1. at[t] \in {"reading", "writing"} /\ Move(t, "out")
      BY <2>4 DEF ReleaseRead, ReleaseWrite
    <3>2. Abstract!Leave(t)
      BY <2>0, <3>1, Moved DEF Abstract!Leave, Places, In
    <3>3. QED
      BY <3>2
  <2>5. QED
    BY <1>2, <2>1, <2>2, <2>3, <2>4 DEF Next
<1>3. QED
  BY <1>1, <1>2, Invariance, PTL DEF Spec

-----------------------------------------------------------------------------
(* The handlers. *)


ThreadsTypes ==
  /\ at \in [Threads -> Places] /\ pc \in [Threads -> {"idle", "load", "read", "resolve", "first", "second"}]
  /\ DOMAIN local = Threads

SInv == IInv /\ ThreadsTypes /\ ThreadsTypeOK /\ SearchAtOneInstant

-----------------------------------------------------------------------------
(* What a step of the lock does to the threads' places. *)

LEMMA AcquireReadPlace ==
  ASSUME at \in [Threads -> Places], NEW t \in Threads, AcquireRead(t)
  PROVE  at' = [at EXCEPT ![t] = "reading"] \/ at' = [at EXCEPT ![t] = "want_read"]
BY DEF AcquireRead, Move, Wait

LEMMA AcquireWritePlace ==
  ASSUME at \in [Threads -> Places], NEW t \in Threads, AcquireWrite(t)
  PROVE  at' = [at EXCEPT ![t] = "writing"] \/ at' = [at EXCEPT ![t] = "want_write"]
BY DEF AcquireWrite, Move, Wait

LEMMA ReleasePlace ==
  ASSUME at \in [Threads -> Places], NEW t \in Threads, ReleaseRead(t) \/ ReleaseWrite(t)
  PROVE  at' = [at EXCEPT ![t] = "out"]
BY DEF ReleaseRead, ReleaseWrite, Move

\* A handler does nothing to the lock but what RWLock does.
LEMMA LockStep == ASSUME ThreadsNext PROVE [Next]_vars
<1>1. PICK t \in Threads : Calls(t) \/ Steps(t)
  BY DEF ThreadsNext
<1>2. CASE UNCHANGED lock
  BY <1>2 DEF lock, vars
<1>3. CASE AcquireRead(t) \/ ReleaseRead(t) \/ AcquireWrite(t) \/ ReleaseWrite(t)
  BY <1>3 DEF Next
<1>4. QED
  BY <1>1, <1>2, <1>3
     DEF Calls, Steps, CallSearch, CallWriter, Call, LockToLoad, Load, LockToRead, Begin,
         BeginFails, Resolve, LockToWrite, First, Refused, Second

\* Only a handler that has the write lock changes what searches read.
LEMMA WhoChanges ==
  ASSUME NEW t \in Threads, Calls(t) \/ Steps(t)
  PROVE  at[t] = "writing" \/ UNCHANGED <<disk, mem>>
BY DEF Calls, Steps, CallSearch, CallWriter, Call, LockToLoad, Load, LockToRead, Begin,
       BeginFails, Resolve, LockToWrite, First, Refused, Second

\* Another thread's program counter and locals stay.
LEMMA OthersStay ==
  ASSUME ThreadsTypes, NEW t \in Threads, Calls(t) \/ Steps(t), NEW u \in Threads, u # t
  PROVE  pc'[u] = pc[u] /\ local'[u] = local[u] /\ at'[u] = at[u]
<1>1. pc'[u] = pc[u] /\ local'[u] = local[u]
  BY DEF Calls, Steps, CallSearch, CallWriter, Call, LockToLoad, Load, LockToRead, Begin,
         BeginFails, Resolve, LockToWrite, First, Refused, Second, Goes, Ends, threads,
         ThreadsTypes
<1>2. at'[u] = at[u]
  <2>1. CASE UNCHANGED lock
    BY <2>1 DEF lock
  <2>2. CASE AcquireRead(t) \/ ReleaseRead(t) \/ AcquireWrite(t) \/ ReleaseWrite(t)
    BY <2>2, AcquireReadPlace, AcquireWritePlace, ReleasePlace DEF ThreadsTypes
  <2>3. QED
    BY <2>1, <2>2
       DEF Calls, Steps, CallSearch, CallWriter, Call, LockToLoad, Load, LockToRead, Begin,
           BeginFails, Resolve, LockToWrite, First, Refused, Second
<1>3. QED
  BY <1>1, <1>2

-----------------------------------------------------------------------------
(* The invariant. *)

LEMMA ThreadsInitInv == ThreadsInit => SInv
<1> SUFFICES ASSUME ThreadsInit PROVE SInv
  OBVIOUS
<1>1. IInv
  BY InitInv DEF ThreadsInit
<1>2. ThreadsTypes /\ ThreadsTypeOK /\ SearchAtOneInstant
  BY DEF ThreadsInit, Init, ThreadsTypes, ThreadsTypeOK, SearchAtOneInstant, Places
<1>3. QED
  BY <1>1, <1>2 DEF SInv

\* The place and the program counter of the thread that moves agree again.
LEMMA MoverStep ==
  ASSUME SInv, NEW t \in Threads, Calls(t) \/ Steps(t)
  PROVE  /\ pc'[t] = "idle" => at'[t] = "out"
         /\ pc'[t] = "load" => at'[t] \in {"out", "want_write", "writing"}
         /\ pc'[t] = "read" => at'[t] \in {"out", "want_read", "reading"}
         /\ pc'[t] = "resolve" => at'[t] = "reading" /\ local'[t] = Snapshot'
         /\ pc'[t] = "first" => at'[t] \in {"out", "want_write", "writing"}
         /\ pc'[t] = "second" => at'[t] = "writing"
<1> USE DEF SInv, ThreadsTypes, ThreadsTypeOK, lock, threads
<1>1. CASE Calls(t)
  BY <1>1 DEF Calls, CallSearch, CallWriter, Call, Goes
<1>2. CASE LockToLoad(t) \/ LockToWrite(t)
  BY <1>2, AcquireWritePlace DEF LockToLoad, LockToWrite
<1>3. CASE LockToRead(t)
  BY <1>3, AcquireReadPlace DEF LockToRead
<1>4. CASE Load(t)
  BY <1>4, ReleasePlace DEF Load, Goes, Ends
<1>5. CASE Begin(t)
  BY <1>5 DEF Begin, Goes, Snapshot
<1>6. CASE BeginFails(t) \/ Resolve(t)
  BY <1>6, ReleasePlace DEF BeginFails, Resolve, Goes, Ends
<1>7. CASE First(t)
  BY <1>7 DEF First, Goes
<1>8. CASE Refused(t) \/ Second(t)
  BY <1>8, ReleasePlace DEF Refused, Second, Goes, Ends
<1>9. QED
  BY <1>1, <1>2, <1>3, <1>4, <1>5, <1>6, <1>7, <1>8 DEF Steps

LEMMA ThreadsTypesStep ==
  ASSUME SInv, IInv', NEW t \in Threads, Calls(t) \/ Steps(t) PROVE ThreadsTypes'
<1>1. at' \in [Threads -> Places]
  BY DEF IInv, LockInv, TypeOK
<1>2. pc' \in [Threads -> {"idle", "load", "read", "resolve", "first", "second"}] /\ DOMAIN local' = Threads
  BY DEF SInv, ThreadsTypes, Calls, Steps, CallSearch, CallWriter, Call, LockToLoad, Load,
         LockToRead, Begin, BeginFails, Resolve, LockToWrite, First, Refused, Second, Goes,
         Ends, threads
<1>3. QED
  BY <1>1, <1>2 DEF ThreadsTypes

LEMMA ThreadsStep == ASSUME SInv, ThreadsNext PROVE SInv'
<1>1. IInv'
  BY LockStep, StepInv DEF SInv
<1>2. PICK t \in Threads : Calls(t) \/ Steps(t)
  BY DEF ThreadsNext
<1>3. ThreadsTypes'
  BY <1>1, <1>2, ThreadsTypesStep
<1>4. ThreadsTypeOK'
  BY <1>2, MoverStep, OthersStay DEF SInv, ThreadsTypeOK
<1>5. ASSUME NEW u \in Threads, pc'[u] = "resolve" PROVE local'[u] = Snapshot'
  <2>1. CASE u = t
    BY <1>2, <1>5, <2>1, MoverStep
  <2>2. CASE u # t
    <3>1. pc[u] = "resolve" /\ local'[u] = local[u]
      BY <1>2, <1>5, <2>2, OthersStay DEF SInv
    <3>2. at[u] = "reading" /\ local[u] = Snapshot
      BY <3>1 DEF SInv, ThreadsTypeOK, SearchAtOneInstant
    <3>3. at[t] # "writing"
      BY <2>2, <3>2 DEF SInv, IInv, LockInv, MutualExclusion
    <3>4. Snapshot' = Snapshot
      BY <1>2, <3>3, WhoChanges DEF Snapshot
    <3>5. QED
      BY <3>1, <3>2, <3>4
  <2>3. QED
    BY <2>1, <2>2
<1>6. QED
  BY <1>1, <1>3, <1>4, <1>5 DEF SInv, SearchAtOneInstant

-----------------------------------------------------------------------------
(* The theorems. *)

\* Every thread stands to the lock as its handler says, and every search holds what the
\* collection is.
THEOREM ThreadsInvariance == ThreadsSpec => []SInv
<1>1. ASSUME SInv, UNCHANGED svars PROVE SInv'
  <2>1. IInv'
    BY <1>1, StepInv DEF SInv, svars, lock, vars
  <2>2. QED
    BY <1>1, <2>1 DEF SInv, svars, lock, threads, ThreadsTypes, ThreadsTypeOK,
                      SearchAtOneInstant, Snapshot
<1>2. QED
  BY <1>1, ThreadsInitInv, ThreadsStep, PTL DEF ThreadsSpec

\* The handlers as they take and leave the lock keep the lock's promise: a writer is alone,
\* and the lock's counters count them, however many there are.
THEOREM HandlersKeepLock == ThreadsSpec => [](LockInv /\ NoLostWakeup)
<1>1. SInv => LockInv /\ NoLostWakeup
  BY DEF SInv, IInv
<1>2. QED
  BY <1>1, ThreadsInvariance, PTL

\* No handler comes to the lock, or leaves, with a lock it should not have.
THEOREM HandlersBalanced == ThreadsSpec => []ThreadsTypeOK
<1>1. SInv => ThreadsTypeOK
  BY DEF SInv
<1>2. QED
  BY <1>1, ThreadsInvariance, PTL

\* search() of the engine reads its record, index, cache and rows from one state of
\* the collection, for any number of threads.
THEOREM SearchConsistent == ThreadsSpec => []SearchAtOneInstant
<1>1. SInv => SearchAtOneInstant
  BY DEF SInv
<1>2. QED
  BY <1>1, ThreadsInvariance, PTL

-----------------------------------------------------------------------------
(* Searches that lose their index. *)

\* Whoever takes the index out of memory notes it, and a search that begins or loads
\* finds the index there.
LEMMA OvertakenStep ==
  ASSUME SInv, IndexLostOnlyWhenOvertaken, ThreadsNext
  PROVE  IndexLostOnlyWhenOvertaken'
<1>1. PICK t \in Threads : Calls(t) \/ Steps(t)
  BY DEF ThreadsNext
<1> SUFFICES ASSUME NEW u \in Threads, pc'[u] = "read", mem'.index = None
             PROVE  u \in overtaken'
  BY DEF IndexLostOnlyWhenOvertaken
<1> USE DEF SInv, ThreadsTypes, threads
<1>2. CASE CallSearch(t)
  BY <1>2 DEF CallSearch, Call, Goes, IndexLostOnlyWhenOvertaken
<1>3. ASSUME NEW handler \in Writers, CallWriter(t, handler) PROVE u \in overtaken'
  BY <1>3 DEF CallWriter, Call, Goes, IndexLostOnlyWhenOvertaken
<1>4. CASE Load(t)
  BY <1>4 DEF Load, Loaded, Goes, Ends, IndexLostOnlyWhenOvertaken
<1>5. CASE LockToLoad(t) \/ LockToRead(t) \/ LockToWrite(t)
  BY <1>5 DEF LockToLoad, LockToRead, LockToWrite, IndexLostOnlyWhenOvertaken
<1>6. CASE Begin(t) \/ BeginFails(t) \/ Resolve(t) \/ Refused(t)
  BY <1>6 DEF Begin, BeginFails, Resolve, Refused, Goes, Ends, IndexLostOnlyWhenOvertaken
<1>7. CASE First(t) \/ Second(t)
  <2>1. pc[u] = "read"
    BY <1>7 DEF First, Second, Goes
  <2>2. CASE ChangeDisk(t)
    BY <2>1, <2>2 DEF ChangeDisk, IndexLostOnlyWhenOvertaken
  <2>3. CASE ChangeMem(t)
    BY <2>1, <2>3 DEF ChangeMem, NoteUnloading, IndexLostOnlyWhenOvertaken
  <2>4. QED
    BY <1>7, <2>2, <2>3 DEF First, Second
<1>8. QED
  BY <1>1, <1>2, <1>3, <1>4, <1>5, <1>6, <1>7 DEF Calls, Steps

\* _indexes[collection_name] in a search raises KeyError only when another handler has
\* unloaded the index since the search saw or loaded it, for any number of threads.
THEOREM IndexKeptUnlessOvertaken == ThreadsSpec => []IndexLostOnlyWhenOvertaken
<1>1. ThreadsInit => IndexLostOnlyWhenOvertaken
  BY DEF ThreadsInit, IndexLostOnlyWhenOvertaken
<1>2. ASSUME IndexLostOnlyWhenOvertaken, UNCHANGED svars PROVE IndexLostOnlyWhenOvertaken'
  BY <1>2 DEF IndexLostOnlyWhenOvertaken, svars, threads
<1>3. QED
  BY <1>1, <1>2, ThreadsInvariance, OvertakenStep, PTL DEF ThreadsSpec

=============================================================================
