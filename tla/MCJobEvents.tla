---------------------------- MODULE MCJobEvents -----------------------------
(* A small instance of the event stream.                                   *)
EXTENDS JobEvents, TLC

CONSTANTS j1, k1

SameJob == [k \in Consumer |-> j1]

=============================================================================
