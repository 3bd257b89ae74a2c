----------------------------- MODULE EventFeed ------------------------------
(***************************************************************************)
(* What a follower of job events may rely on, whatever happens to the      *)
(* connections in between: events reach it in the order of their sequence  *)
(* numbers and none twice.  Events are passed over only if the server no   *)
(* longer keeps them, and only to a follower that asked for what is kept:  *)
(* at its start, or after it was told that its history is lost.  One       *)
(* that was told the end of the stream has seen the last event of the job. *)
(***************************************************************************)
EXTENDS Naturals

CONSTANTS Job, Consumer,
          Followed            \* the job each consumer follows

VARIABLES emitted,            \* per job, the number of events so far
          kept,               \* per job, the oldest event still replayable
          finished,           \* jobs whose last event is terminal
          forgotten,          \* jobs the service knows nothing of any more
          cursor,             \* per consumer, the last event delivered
          fresh,              \* consumers that asked for whatever is kept
          outcome             \* per consumer, how its following ended

jobVars == <<emitted, kept, finished, forgotten>>
vars == <<jobVars, cursor, fresh, outcome>>

Init == /\ emitted = [j \in Job |-> 1] /\ kept = [j \in Job |-> 1]
        /\ finished = {} /\ forgotten = {}
        /\ cursor = [k \in Consumer |-> 0]
        /\ fresh \subseteq Consumer
        /\ outcome = [k \in Consumer |-> "following"]

\* Jobs go on: events are added behind, dropped in front, never after the end.
Jobs == /\ \A j \in Job :
              /\ emitted'[j] \in {emitted[j], emitted[j] + 1} /\ kept'[j] >= kept[j]
              /\ j \in finished \cup forgotten => emitted'[j] = emitted[j]
              /\ j \in finished' \ finished => emitted'[j] = emitted[j] + 1
        /\ finished \subseteq finished' /\ forgotten \subseteq forgotten'
        /\ UNCHANGED <<cursor, fresh, outcome>>

Deliver(k) ==
    LET j == Followed[k] IN
    \E n \in cursor[k] + 1 .. emitted[j] :
        /\ outcome[k] = "following"
        /\ \A missed \in cursor[k] + 1 .. n - 1 : k \in fresh /\ missed < kept[j]
        /\ cursor' = [cursor EXCEPT ![k] = n]
        /\ fresh' = fresh \ {k}
        /\ UNCHANGED <<jobVars, outcome>>

\* EVENT_HISTORY_EXPIRED, and the follower starts again with what is kept.
Restart(k) ==
    /\ outcome[k] = "following"
    /\ kept[Followed[k]] > cursor[k] + 1
    /\ fresh' = fresh \cup {k}
    /\ UNCHANGED <<jobVars, cursor, outcome>>

End(k, how) ==
    /\ outcome[k] = "following"
    /\ outcome' = [outcome EXCEPT ![k] = how]
    /\ UNCHANGED <<jobVars, cursor, fresh>>

\* The stream ended with its terminal event.
Complete(k) == /\ Followed[k] \in finished /\ cursor[k] = emitted[Followed[k]]
               /\ End(k, "complete")
\* Polling showed the terminal state.
Polled(k) == Followed[k] \in finished /\ End(k, "polled")
\* 404: evicted, expired, or lost with the process.
Gone(k) == Followed[k] \in forgotten /\ End(k, "gone")

Next == \/ Jobs
        \/ \E k \in Consumer : Deliver(k) \/ Restart(k) \/ Complete(k) \/ Polled(k) \/ Gone(k)

Spec == Init /\ [][Next]_vars

=============================================================================
