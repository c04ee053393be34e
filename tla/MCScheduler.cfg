SPECIFICATION FairSpec
CONSTANTS
    daemon = daemon
    now = now
    None = None
    Locals <- MCLocals
    Calls <- MCCalls
    Now = now
    Providers = {"claude", "cursor"}
    MaxRounds = 2
INVARIANTS TypeOK OncePerInstant OneAgentAtATime ObservedRunsAreRecorded
PROPERTIES RowTellsResult ExecutionsEnd
