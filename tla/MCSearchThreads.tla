-------------------------- MODULE MCSearchThreads --------------------------
(* Three threads of one collection. *)
EXTENDS SearchThreads

CONSTANTS t1, t2, t3, none

ThreeThreads == {t1, t2, t3}

=============================================================================
