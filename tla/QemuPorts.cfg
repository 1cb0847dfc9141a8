SPECIFICATION FairPortsSpec
CONSTANTS
    Servers = {s1, s2, s3}
    LastPort = 3
    Others <- MCOthers
INVARIANTS SearchRight
PROPERTIES SearchEnds
CHECK_DEADLOCK FALSE
