--------------------------- MODULE MCJobRegistry ----------------------------
(* Small instances of the registry.                                        *)
EXTENDS JobRegistry, TLC

JobSymmetry == Permutations(Job)

=============================================================================
