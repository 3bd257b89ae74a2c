-------------------------- MODULE MCProjectRuntime --------------------------
(* Small instances of the runtime.                                         *)
EXTENDS ProjectRuntime, TLC

OpSymmetry == Permutations(Op)

=============================================================================
