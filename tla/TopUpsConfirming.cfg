CONSTANTS
  TopUpIds = {i1}
  Handlers = {h1}
  Monitor = monitor
  MaxFaults = 0
  NoId = NoId
SPECIFICATION FairSpec
PROPERTIES PaymentSeenIsKept
CHECK_DEADLOCK FALSE
