CONSTANTS
  Users = {1, 2}
  Tasks = {t1, t2, t3}
  Locks = {l1, l2, l3}
  NoLock = NoLock
  Cleans = TRUE
SPECIFICATION FairSpec
INVARIANTS ObjectMutex NoLostWakeup SomebodyGoesOn
PROPERTIES EveryWaiterEnters
