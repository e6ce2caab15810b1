--------------------------- MODULE MCBundleFormat ---------------------------
(***************************************************************************)
(* Two rows are the least that a wrong order, a duplicate and a gap need;  *)
(* the years are one before, one after and the two ends of the range that  *)
(* a ZIP entry can hold.                                                   *)
(***************************************************************************)
EXTENDS BundleFormat, TLC

CONSTANTS d1, d2, s1, s2

MCDocs    == {d1, d2}
MCDims    == {1, 2}
MCSchemas == {s1, s2}
MCYears   == {1979, 1980, 2107, 2108}
PlainOnly == {"plain"}
Symmetry  == Permutations(MCDocs) \cup Permutations(MCSchemas)

=============================================================================
