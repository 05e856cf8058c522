SPECIFICATION Spec
CONSTANTS
  Durations = {0, 1, 2}
  Steps = {0, 1, 2}
  MaxRegs = 3
  MaxNow = 2
INVARIANTS FiresInOrder DeliveredOnce NothingOverdue
PROPERTY AdvanceReturns
CHECK_DEADLOCK FALSE
