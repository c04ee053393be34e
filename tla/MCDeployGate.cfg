\* Two actors (CLI, dashboard, runner in any role), three requests; a history of
\* two entries is cut.
CONSTANTS
    Actors = {a1, a2}
    Requests = {r1, r2, r3}
    None = None
    Torn = Torn
    MaxHistory = 2
SPECIFICATION Spec
SYMMETRY Symmetry
INVARIANTS
    TypeOK
    DeployedWasApproved
    HistoryWasApproved
    OneDeployPerApproval
    ConcludedOnce
CHECK_DEADLOCK FALSE
