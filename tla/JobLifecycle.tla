---------------------------- MODULE JobLifecycle ----------------------------
(***************************************************************************)
(* What a client of the job API may rely on, job by job: the life of a job *)
(* as its snapshots show it, and the cancellation intent next to it.       *)
(* Intent is recorded at most once and then decides the outcome: work that *)
(* was asked to stop may still fail, but it never starts and never         *)
(* succeeds.  Terminal jobs do not change until they are forgotten.        *)
(***************************************************************************)

CONSTANTS Job, Reason, NoReason

VARIABLES phase,   \* what GET /jobs/{id} reports, or "NEW" / "GONE"
          intent   \* the recorded cancellation reason

vars == <<phase, intent>>

Terminal == {"SUCCEEDED", "FAILED", "CANCELLED"}

Init == /\ phase = [j \in Job |-> "NEW"]
        /\ intent = [j \in Job |-> NoReason]

\* One job moves from phase p to phase q, and has intent w after the move.
Moves(p, q, w) ==
    \/ p = "NEW" /\ q = "QUEUED" /\ w = NoReason
    \/ p = "QUEUED" /\ q = "RUNNING" /\ w = NoReason
    \/ p = "RUNNING" /\ q = "SUCCEEDED" /\ w = NoReason
    \/ p = "RUNNING" /\ q = "CANCELLING" /\ w # NoReason
    \/ p \in {"QUEUED", "RUNNING", "CANCELLING"} /\ q = "CANCELLED" /\ w # NoReason
    \/ p \in {"QUEUED", "RUNNING", "CANCELLING"} /\ q = "FAILED"
    \/ p \in Terminal /\ q = "GONE"
    \* Cancelled together with others that push it out of the retained jobs.
    \/ p = "QUEUED" /\ q = "GONE"

\* Intent is set once, while the job is alive, and a running job shows it.
Intends(p, q, v, w) ==
    \/ w = v
    \/ v = NoReason /\ p \in {"QUEUED", "RUNNING"} /\ q # "RUNNING"
    \/ w = NoReason /\ q = "GONE"

JobStep(j) ==
    /\ phase'[j] = phase[j] \/ Moves(phase[j], phase'[j], intent'[j])
    /\ Intends(phase[j], phase'[j], intent[j], intent'[j])

\* One call may move several jobs: a deadline tick, a retention sweep, a
\* shutdown.
Next == /\ phase' \in [Job -> {"NEW", "QUEUED", "RUNNING", "CANCELLING", "GONE"} \cup Terminal]
        /\ intent' \in [Job -> Reason \cup {NoReason}]
        /\ \A j \in Job : JobStep(j)

Spec == Init /\ [][Next]_vars

=============================================================================
