-------------------------- MODULE MCClientSession ---------------------------
(* Small instances of the revision cache.                                  *)
EXTENDS ClientSession, TLC

CallerSymmetry == Permutations(Caller)

=============================================================================
