CONSTANTS
  TopUpIds = {i1}
  Handlers = {h1, h2}
  Monitor = monitor
  MaxFaults = 2
  NoId = NoId
SPECIFICATION FairSpec
INVARIANTS PaidIsCredited
PROPERTIES PaymentIsKept PaymentIsCredited
CHECK_DEADLOCK FALSE
