SPECIFICATION FairSpec
CONSTANTS
    daemon = daemon
    now = now
    None = None
    Locals <- MCLocals
    Calls <- MCCalls
    Now = now
    Providers = {"claude", "cursor"}
    MaxRounds = 1
PROPERTIES AgentRunsReturn
