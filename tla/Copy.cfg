SPECIFICATION FairCopySpec
CONSTANT Copies <- MCCopies
INVARIANTS AlarmIsOwn CopiedCleanly
PROPERTIES PipeEnds
