--------------------------- MODULE MCScalarStore ---------------------------
(* Two threads and two collections that compete for one file. *)
EXTENDS ScalarStore

CONSTANTS t1, t2, d1, d2, none

TwoThreads == {t1, t2}
TwoNames   == {<<"x">>, <<"x", "_">>}
TwoDocs    == {d1, d2}

\* Alone, and as a pair whose second document may be there already.
SomeBatches == {<<d1>>, <<d2, d1>>}
FewBatches  == {<<d1>>, <<d2>>}

=============================================================================
