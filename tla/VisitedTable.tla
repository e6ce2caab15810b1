---------------------------- MODULE VisitedTable ----------------------------
(***************************************************************************)
(* The visited set that a graph search uses again and again                *)
(* (visited_table.h, visited_table.cpp): a byte for every vertex that      *)
(* holds the number of the search that marked it, or a hash set.  Numbers  *)
(* run from 1 to 254; then the bytes are cleared.                          *)
(***************************************************************************)
EXTENDS Naturals, TLAPS

CONSTANT Vertices

VARIABLES
  visno,    \* 0 when the hash set is used
  visited,  \* the bytes
  visited_set,
  marked    \* history: what has been marked since the last advance

vars == <<visno, visited, visited_set, marked>>

Init ==
  /\ visno \in {0, 1} /\ visited = [v \in Vertices |-> 0]
  /\ visited_set = {} /\ marked = {}

get(v) == IF visno = 0 THEN v \in visited_set ELSE visited[v] = visno

\* A search marks a vertex as it comes to it, whether it was marked or not.
set(v) ==
  /\ visited_set' = IF visno = 0 THEN visited_set \cup {v} ELSE visited_set
  /\ visited' = IF visno = 0 THEN visited ELSE [visited EXCEPT ![v] = visno]
  /\ marked' = marked \cup {v} /\ UNCHANGED visno

advance ==
  /\ marked' = {}
  /\ \/ visno = 0 /\ visited_set' = {} /\ UNCHANGED <<visno, visited>>
     \/ /\ visno \in 1..253 /\ visno' = visno + 1
        /\ UNCHANGED <<visited, visited_set>>
     \/ /\ visno > 253 /\ visno' = 1 /\ visited' = [v \in Vertices |-> 0]
        /\ UNCHANGED visited_set

Next == advance \/ \E v \in Vertices : set(v)

Spec == Init /\ [][Next]_vars

-----------------------------------------------------------------------------

\* A vertex is found marked exactly when this search has marked it: no mark of an
\* earlier search is taken for one of this search after the numbers start again.
FlagsExact == \A v \in Vertices : get(v) <=> v \in marked

\* No byte holds a number that is still to come, and the search's number fits a byte
\* with one to spare.
Inv ==
  /\ visno \in 0..254 /\ visited \in [Vertices -> 0..254]
  /\ \A v \in Vertices : visited[v] <= visno
  /\ FlagsExact

\* The wrap of the search number never lets an old mark show, for any number of
\* searches and vertices.
THEOREM MarksExact == Spec => []FlagsExact
<1>1. Init => Inv
  BY DEF Init, Inv, FlagsExact, get
<1>2. ASSUME Inv, [Next]_vars PROVE Inv'
  <2>1. CASE UNCHANGED vars
    BY <1>2, <2>1 DEF vars, Inv, FlagsExact, get
  <2>2. ASSUME NEW v \in Vertices, set(v) PROVE Inv'
    <3>1. CASE visno = 0
      BY <1>2, <2>2, <3>1 DEF set, Inv, FlagsExact, get
    <3>2. CASE visno # 0
      BY <1>2, <2>2, <3>2 DEF set, Inv, FlagsExact, get
    <3>3. QED
      BY <3>1, <3>2
  <2>3. CASE advance
    <3>1. CASE visno = 0
      BY <1>2, <2>3, <3>1 DEF advance, Inv, FlagsExact, get
    <3>2. CASE visno \in 1..253
      BY <1>2, <2>3, <3>2 DEF advance, Inv, FlagsExact, get
    <3>3. CASE visno > 253
      BY <1>2, <2>3, <3>3 DEF advance, Inv, FlagsExact, get
    <3>4. QED
      BY <1>2, <3>1, <3>2, <3>3 DEF Inv
  <2>4. QED
    BY <1>2, <2>1, <2>2, <2>3 DEF Next
<1>3. Inv => FlagsExact
  BY DEF Inv
<1>4. QED
  BY <1>1, <1>2, <1>3, PTL DEF Spec

=============================================================================
