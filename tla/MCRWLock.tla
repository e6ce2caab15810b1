------------------------------ MODULE MCRWLock ------------------------------
(* Four handler threads: two readers and two writers may all contend. *)
EXTENDS RWLock

CONSTANTS t1, t2, t3, t4

FourThreads == {t1, t2, t3, t4}

=============================================================================
