----------------------------- MODULE EngineGate -----------------------------
(***************************************************************************)
(* What OperationCoordinator promises its callers, without the per-lease   *)
(* loop that implements it: one engine, entered in one of three modes.     *)
(*                                                                         *)
(*   primary   at most one owner, alone with the engine (a class read or a *)
(*             project-exclusive operation);                               *)
(*   shared    any number of readers of one and the same published         *)
(*             version, never together with a primary owner;               *)
(*   isolated  at most one owner of a private engine.  It shares the       *)
(*             project only while it takes its snapshot, and during that   *)
(*             time there is no primary owner.                             *)
(*                                                                         *)
(* Once the gate is shut nobody enters; those inside leave in any order.   *)
(***************************************************************************)

CONSTANTS Owner,    \* operations that may enter, each at most once at a time
          Version   \* what shared readers may agree on

VARIABLES primary,       \* owners in primary mode
          readers,       \* pairs <<owner, version read>>
          isolated,      \* owners in isolated mode
          snapshotting,  \* isolated owners still taking their snapshot
          open           \* FALSE once the gate is shut

vars == <<primary, readers, isolated, snapshotting, open>>

Init == /\ primary = {}
        /\ readers = {}
        /\ isolated = {}
        /\ snapshotting = {}
        /\ open = TRUE

EnterPrimary(o) == /\ open
                   /\ primary = {} /\ readers = {} /\ snapshotting = {}
                   /\ primary' = {o}
                   /\ UNCHANGED <<readers, isolated, snapshotting, open>>

EnterShared(o, v) == /\ open
                     /\ primary = {}
                     /\ \A r \in readers : r[2] = v
                     /\ readers' = readers \cup {<<o, v>>}
                     /\ UNCHANGED <<primary, isolated, snapshotting, open>>

EnterIsolated(o) == /\ open
                    /\ primary = {} /\ isolated = {}
                    /\ isolated' = {o}
                    /\ snapshotting' = {o}
                    /\ UNCHANGED <<primary, readers, open>>

EndSnapshot(o) == /\ o \in snapshotting
                  /\ snapshotting' = snapshotting \ {o}
                  /\ UNCHANGED <<primary, readers, isolated, open>>

Leave(o) == /\ primary' = primary \ {o}
            /\ readers' = {r \in readers : r[1] # o}
            /\ isolated' = isolated \ {o}
            /\ snapshotting' = snapshotting \ {o}
            /\ UNCHANGED open

Shut == /\ open' = FALSE
        /\ UNCHANGED <<primary, readers, isolated, snapshotting>>

Next == \/ \E o \in Owner : \/ EnterPrimary(o)
                            \/ EnterIsolated(o)
                            \/ EndSnapshot(o)
                            \/ Leave(o)
                            \/ \E v \in Version : EnterShared(o, v)
        \/ Shut

Spec == Init /\ [][Next]_vars

=============================================================================
