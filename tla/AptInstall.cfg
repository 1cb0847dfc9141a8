SPECIFICATION FairSpec
CONSTANTS
    a = a
    b = b
    stable = stable
    proposed = proposed
    dotted = dotted
    Never = Never
    Pkg <- MCPkg
    Release <- MCRelease
    Dotted <- MCDotted
    Requests <- MCRequests
    Retries = 3
INVARIANTS TestsAlike FallbackHelps
PROPERTIES InstallEnds
