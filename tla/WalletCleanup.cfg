CONSTANTS
  t1 = t1
  t2 = t2
  t3 = t3
  ann = 1
  bob = 2
  charge = charge
  charge2 = charge2
  deposit = deposit
  refund = refund
  Users = {1, 2}
  Tasks = {t1, t2}
  Refs = {charge, charge2}
  Rels = {deposit, refund}
  Amounts = {1, 2}
  NoRef = NoRef
  NoRel = NoRel
  Unloaded = Unloaded
  NoCall = NoCall
  ProcOf <- OneProcess
  Calls <- SharedCalls
  Pinning = {t2}
  Cleaners = {"bot"}
  MaxRows = 4
  MaxDrops = 1
SPECIFICATION Spec
INVARIANTS RecordNeverRepeated
