CONSTANTS
  TopUpIds = {i1}
  Handlers = {h1}
  Monitor = monitor
  MaxFaults = 1
  NoId = NoId
SPECIFICATION FairSpec
PROPERTIES FailedCreditIsRetried
CHECK_DEADLOCK FALSE
