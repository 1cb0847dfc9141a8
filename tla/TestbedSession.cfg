SPECIFICATION FairSpec
INVARIANTS InStep NotForgotten
PROPERTIES RunEnds
