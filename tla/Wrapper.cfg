SPECIFICATION FairWrapperSpec
CONSTANTS
    N = 2
    Users <- MCUsers
    Pids <- MCPids
    Mishaps <- MCMishaps
INVARIANTS NextUnharmed
PROPERTIES LeaksTerminated OnlyItsOwn
CHECK_DEADLOCK FALSE
