SPECIFICATION MatchSpec
CONSTANTS
  Signature <- ExprSignature
  Root = "int"
  Opaque = "opaque"
  RawArms <- ExprArms
  MaxArms = 4
  Budget = 30
  Depth = 2
INVARIANTS RunsFirstArm RejectsWithReason DeadArmsRejected
CHECK_DEADLOCK FALSE
