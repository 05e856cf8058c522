SPECIFICATION DelegateFairSpec
CONSTANTS
  Outputs = {main_gp_go, shape_gp_go}
  MaxGens = 2
  MaxQueries = 2
  MaxPipe = 1
  GoplsAsks = TRUE
INVARIANTS DelegateTypeOK FramesToGoplsWhole AnswersOnOneGeneration MapsCoverAnswers
PROPERTY QueriesAnswered
CHECK_DEADLOCK FALSE
