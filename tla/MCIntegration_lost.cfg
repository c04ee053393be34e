\* The comment "already completed the merge", with tools that do not comply.
CONSTANTS
    Units = {u1, u2, u3}
    None = None
    MaxAttempts = 2
SPECIFICATION Spec
INVARIANTS
    IntegratedIsMerged
CHECK_DEADLOCK FALSE
