---------------------------- MODULE MCAdminAccess ----------------------------
(* Instances of AdminAccess for TLC.                                        *)
EXTENDS AdminAccess, TLC

CONSTANTS r1, r2

Symmetry == Permutations(Requests)

=============================================================================
