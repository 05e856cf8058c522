SPECIFICATION FairSpec
CONSTANTS
  Requests = {r1, r2}
  Own = own
  Alternatives = {alt}
  None = none
  MaxTransports = 2
INVARIANTS SentOnce KnownOrBroken ClosedLeavesNothing
PROPERTIES BackToHTTP3
CHECK_DEADLOCK FALSE
