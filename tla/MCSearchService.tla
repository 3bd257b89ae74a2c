---------------------------- MODULE MCSearchService ----------------------------
(* One class, which is its own source owner, and a text of each kind.      *)
(* Builds and searches may be exchanged for one another.                   *)
EXTENDS SearchService, TLC

CONSTANTS small, large, huge

MCSourceOwner == [c \in Class |-> c]
MCSize == (small :> 1) @@ (large :> 2) @@ (huge :> 3)

Symmetry == Permutations(Build) \cup Permutations(Query)

=============================================================================
