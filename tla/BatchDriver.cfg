SPECIFICATION FairSpec
CONSTANTS
    Pkgs <- MCPkgs
    Kind <- MCKind
    Stdout <- MCStdout
    PipeSize = 2
    MaxSessions = 3
INVARIANTS TypeOK AllSorted
PROPERTIES ResultsKept BatchEnds
CHECK_DEADLOCK FALSE
