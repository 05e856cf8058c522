SPECIFICATION FairSpec
CONSTANTS
  Writers = {w1}
  Reader = reader
  Manual = {}
  Aborting = {"client"}
  Capacity = 2
  MaxCalls = 2
INVARIANTS FramesWhole NothingAfterClose EndsClean
PROPERTY HandshakeEnds
CHECK_DEADLOCK FALSE
