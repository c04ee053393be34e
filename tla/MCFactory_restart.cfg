\* The CONTRACT.md claim about a killed and restarted orchestrator.
CONSTANTS
    Procs = {p1}
    Tasks = {t1, t2}
    Units = {u1, u2, u3}
    NoTask = NoTask
    Costs = {1}
    MaxTokens = 3
    MaxAgents = 2
SPECIFICATION Spec
INVARIANTS
    InterruptedTasksAreSettled
CHECK_DEADLOCK FALSE
