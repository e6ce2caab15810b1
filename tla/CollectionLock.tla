--------------------------- MODULE CollectionLock ---------------------------
(***************************************************************************)
(* What the engine's handlers rely on in a collection's lock: readers share *)
(* it, a writer has it alone, and a reader does not go in while a writer is *)
(* asking.  RWLock implements it with two counters, a flag and a condition. *)
(***************************************************************************)
CONSTANT Threads

VARIABLES reading, writing, asking   \* sets of threads

vars == <<reading, writing, asking>>

Init == reading = {} /\ writing = {} /\ asking = {}

Out(t) == t \notin reading \cup writing \cup asking

Read(t) ==
  /\ Out(t) /\ writing = {} /\ asking = {}
  /\ reading' = reading \cup {t} /\ UNCHANGED <<writing, asking>>

Ask(t) ==
  /\ Out(t)
  /\ asking' = asking \cup {t} /\ UNCHANGED <<reading, writing>>

Write(t) ==
  /\ t \notin reading \cup writing /\ reading = {} /\ writing = {}
  /\ writing' = {t} /\ asking' = asking \ {t} /\ UNCHANGED reading

Leave(t) ==
  \/ t \in reading /\ reading' = reading \ {t} /\ UNCHANGED <<writing, asking>>
  \/ t \in writing /\ writing' = writing \ {t} /\ UNCHANGED <<reading, asking>>

Next == \E t \in Threads : Read(t) \/ Ask(t) \/ Write(t) \/ Leave(t)

\* Threads leave, and when writers are asking one of them gets in.
Spec ==
  /\ Init /\ [][Next]_vars
  /\ \A t \in Threads : WF_vars(Leave(t))
  /\ WF_vars(\E t \in asking : Write(t))

=============================================================================
