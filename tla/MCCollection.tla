---------------------------- MODULE MCCollection ----------------------------
(***************************************************************************)
(* Instances of CollectionEngine for TLC: two rows, inserted one at a time *)
(* and in either order, so that two tables of equal length can differ; one *)
(* bundle from an earlier session; an upload as long as the full table.    *)
(***************************************************************************)
EXTENDS CollectionProperties

CONSTANTS d1, d2

MCDocs    == {d1, d2}
MCBatches == {<<d1>>, <<d2>>}
OneBatch  == {<<d1>>}
OneBundle == {[index |-> <<d2>>, rows |-> <<d2>>]}
NoBundles == {}
MCUploads == {<<d2, d1>>}
NoUploads == {}

=============================================================================
