\* One process at a time, killed and started again; liveness.
CONSTANTS
    Procs = {p1}
    Tasks = {t1, t2}
    Units = {u1, u2, u3}
    NoTask = NoTask
    Costs = {1}
    MaxTokens = 3
    MaxAgents = 2
SPECIFICATION FairSpec
INVARIANTS
    OnlyInterruptedTasksStay
    CodersMatchStore
    NoOrphansAfterSweep
PROPERTIES
    RunsReturn
\* the tasks that may be taken in run out
CHECK_DEADLOCK FALSE
