\* Two processes on one repository.
CONSTANTS
    Procs = {p1, p2}
    Tasks = {t1, t2}
    Units = {u1, u2, u3}
    NoTask = NoTask
    Costs = {1, 4}
    MaxTokens = 3
    MaxAgents = 1
SPECIFICATION Spec
SYMMETRY Symmetry
INVARIANTS
    TypeOK
    IntegratesWithinBudget
PROPERTIES
    DeliverySpec
    LifeSpec
\* the tasks that may be taken in run out
CHECK_DEADLOCK FALSE
