SPECIFICATION FairSpec
CONSTANTS
    copy = copy
    check = check
    Jobs = {copy, check}
    Input <- MCInput
    Output <- MCOutput
    Ends <- MCEnds
INVARIANTS TypeOK InputWhole ConsoleFree
PROPERTIES ProgramEnds
