SPECIFICATION Spec
CONSTANTS
  Capacity = 3
  ZeroOnRelease = TRUE
  Sizes = {1, 2}
  Alignments = {1, 2}
  WriteSizes = {2}
  Groups = {g1}
  MaxIds = 4
  MaxGeneration = 2
  MaxPoints = 1
INVARIANTS SpansDisjoint AccountsAgree NothingLeftToRead
PROPERTIES HandlesNotRevived RollbackUndoes GroupLeavesNothing
CHECK_DEADLOCK FALSE
