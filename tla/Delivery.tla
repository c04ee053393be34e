------------------------------ MODULE Delivery ------------------------------
(***************************************************************************)
(* What the factory promises about the work of a task, whatever happens to *)
(* the processes that carry it out: a task is planned once into work       *)
(* units, no unit is integrated before every unit of its task is coded,    *)
(* nothing reaches a pull request or the base branch before every unit     *)
(* is integrated, and finished work is never lost again.                   *)
(*                                                                         *)
(* Factory.tla, the state machine of the code, implements this module.     *)
(***************************************************************************)
CONSTANTS Tasks, Units

VARIABLES
    plan,        \* plan[t]: the units task t was decomposed into
    coded,       \* units whose coder agent succeeded
    integrated,  \* units on the integration branch of their task
    delivered    \* tasks with a pull request held for review, or merged

vars == <<plan, coded, integrated, delivered>>

Init ==
    /\ plan = [t \in Tasks |-> {}]
    /\ coded = {}
    /\ integrated = {}
    /\ delivered = {}

Plan(t, S) ==
    /\ plan[t] = {}
    /\ S # {}
    /\ \A o \in Tasks : plan[o] \cap S = {}
    /\ plan' = [plan EXCEPT ![t] = S]
    /\ UNCHANGED <<coded, integrated, delivered>>

Code(t, u) ==
    /\ u \in plan[t]
    /\ coded' = coded \cup {u}
    /\ UNCHANGED <<plan, integrated, delivered>>

Integrate(t, u) ==
    /\ u \in plan[t]
    /\ plan[t] \subseteq coded
    /\ integrated' = integrated \cup {u}
    /\ UNCHANGED <<plan, coded, delivered>>

Deliver(t) ==
    /\ plan[t] # {}
    /\ plan[t] \subseteq integrated
    /\ delivered' = delivered \cup {t}
    /\ UNCHANGED <<plan, coded, integrated>>

Next ==
    \E t \in Tasks :
        \/ \E S \in SUBSET Units : Plan(t, S)
        \/ \E u \in Units : Code(t, u) \/ Integrate(t, u)
        \/ Deliver(t)

Spec == Init /\ [][Next]_vars
=============================================================================
