\* Two workers, one CI signature, one gate signature, the cap on fixes
\* reached in two attempts.
CONSTANTS
    Workers = {w1, w2}
    CISignatures = {s}
    GateSignatures = {g}
    None = None
    MaxReruns = 1
    MaxFixes = 2
SPECIFICATION Spec
INVARIANTS
    CapUnlessRaced
PROPERTIES
    BackoffUnlessRaced
    NoRunaway
