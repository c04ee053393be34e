------------------------------ MODULE TaskLife ------------------------------
(***************************************************************************)
(* What the rows of the task store tell about a task, whichever process    *)
(* looks: a row is written only by the process that runs its task, it goes *)
(* forward through the statuses and never back, a task is run by the       *)
(* process that took it in or by none, and once left it stays as it is.    *)
(*                                                                         *)
(* StateStore.update_task writes any status over any other, so all of this *)
(* rests on its callers.  Factory.tla (all of a run, with the store shared *)
(* by processes) and MergePipeline.tla (its last part in detail) implement *)
(* this module.                                                            *)
(***************************************************************************)
CONSTANTS
    Tasks,
    First        \* the status of every row when the story begins

VARIABLES
    row,         \* row[t]: the status of task t, or "absent"
    running      \* tasks that a process is running

vars == <<row, running>>

\* Where a row in a status may go next.  A pull request is open before it is
\* merged; a merge without one goes straight from the gates.
Onward == [
    pending     |-> {"planning"},
    planning    |-> {"coding", "blocked", "failed"},
    coding      |-> {"integrating", "blocked", "failed"},
    integrating |-> {"gating", "failed"},
    gating      |-> {"healing", "blocked", "pr_open", "merged"},
    healing     |-> {"blocked", "pr_open", "merged"},
    pr_open     |-> {"merged"}]

Init ==
    /\ row = [t \in Tasks |-> First]
    /\ running = IF First = "absent" THEN {} ELSE Tasks

\* A task is taken in, to be run at once or by nobody.
Create(t) ==
    /\ row[t] = "absent"
    /\ row' = [row EXCEPT ![t] = "pending"]
    /\ running' \in {running, running \cup {t}}

\* Its process writes the next status, and may end with that.
Advance(t) ==
    /\ t \in running
    /\ row[t] \in DOMAIN Onward
    /\ \E s \in Onward[row[t]] : row' = [row EXCEPT ![t] = s]
    /\ running' \in {running, running \ {t}}

\* Its process ends: it returns, raises or is killed.
Leave(t) ==
    /\ t \in running
    /\ running' = running \ {t}
    /\ UNCHANGED row

Next == \E t \in Tasks : Create(t) \/ Advance(t) \/ Leave(t)

Spec == Init /\ [][Next]_vars
=============================================================================
