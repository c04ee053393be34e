\* Two reviewers, and as many attempts as the ledger lets one of them make
\* after the other; a race makes it one more.
CONSTANTS
    Reviewers = {r1, r2}
    MaxFixes = 2
    Strict = TRUE
SPECIFICATION FairSpec
INVARIANTS
    TypeOK
    FixerKeepsItsTree
    PullRequestIsTheFix
    WorkflowEditsAreScanned
    NoLeftovers
    FixKeepsItsBranch
PROPERTIES
    ReviewReturns
