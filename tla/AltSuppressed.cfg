SPECIFICATION FairSpec
CONSTANTS
  Requests = {r1}
  Own = own
  Alternatives = {alt}
  None = none
  MaxTransports = 2
PROPERTIES FailedIsSuppressed
CHECK_DEADLOCK FALSE
