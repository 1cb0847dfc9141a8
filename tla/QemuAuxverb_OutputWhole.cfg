SPECIFICATION Spec
CONSTANTS
    copy = copy
    check = check
    Jobs = {copy, check}
    Input <- MCInput
    Output <- MCOutput
    Ends <- MCEnds
INVARIANT OutputWhole
