SPECIFICATION Spec
CONSTANTS
  NumSources = 2
  TestSources = {2}
  Texts = {v1, v2}
  MaxMoves = 3
  MayCrash = TRUE
SYMMETRY TextSymmetry
INVARIANTS EndsCurrent StagedIsComplete
PROPERTIES HandWrittenKept CheckOnlyReads
