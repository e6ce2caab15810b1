-------------------------- MODULE MCBundleTransfer --------------------------
(***************************************************************************)
(* Three requests, so that one can take away or replace the file of        *)
(* another while a third holds the lock.                                   *)
(***************************************************************************)
EXTENDS BundleTransfer, TLC

CONSTANTS r1, r2, r3

ThreeRequests == {r1, r2, r3}
TwoRequests   == {r1, r2}
Symmetry      == Permutations(ThreeRequests)

=============================================================================
