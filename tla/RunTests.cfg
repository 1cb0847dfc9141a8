SPECIFICATION Spec
CONSTANTS
  Pkg = {p1, p2}
  Restriction <- MCRestriction
  CapSet <- MCCapSet
  MaxTests = 2
  p1 = p1
  p2 = p2
SYMMETRY Symmetry
INVARIANTS Isolated Provided ExitAsDocumented AptRestored
