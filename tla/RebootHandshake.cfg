SPECIFICATION FairSpec
CONSTANTS
    m1 = m1
    m2 = m2
    NoMark = NoMark
    Blank = Blank
    Marks <- MCMarks
    Kinds <- MCKinds
    Perils <- MCPerils
    MaxTests = 2
INVARIANTS TypeOK Resumed
PROPERTIES KeepsSegments BackIsSeen RequestSettles
