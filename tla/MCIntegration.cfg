\* Three units, the code's two resolver attempts.
CONSTANTS
    Units = {u1, u2, u3}
    None = None
    MaxAttempts = 2
SPECIFICATION FairSpec
INVARIANTS
    TypeOK
    TrustedIntegration
    TrustedCleanTree
    FailureLeavesNoHalfMerge
PROPERTIES
    IntegratesAsPromised
    IntegrateReturns
\* integrate returns or raises
CHECK_DEADLOCK FALSE
