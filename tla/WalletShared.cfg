CONSTANTS
  t1 = t1
  t2 = t2
  t3 = t3
  ann = 1
  bob = 2
  charge = charge
  charge2 = charge2
  deposit = deposit
  refund = refund
  Users = {1, 2}
  Tasks = {t1, t2, t3}
  Refs = {charge}
  Rels = {deposit, refund}
  Amounts = {1, 2}
  NoRef = NoRef
  NoRel = NoRel
  Unloaded = Unloaded
  NoCall = NoCall
  ProcOf <- TwoProcesses
  Calls <- SharedCalls
  Pinning = {t2, t3}
  Cleaners = {"bot"}
  MaxRows = 2
  MaxDrops = 1
SPECIFICATION Spec
INVARIANTS TypeOK PaymentCreditedOnce RelatedCreditedOnce LastRowIsBalance
PROPERTIES JobsAddUp ImplementsBank
