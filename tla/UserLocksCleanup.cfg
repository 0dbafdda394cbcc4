CONSTANTS
  Users = {1, 2}
  Tasks = {t1, t2, t3}
  Locks = {l1, l2, l3, l4, l5}
  NoLock = NoLock
  Cleans = TRUE
SPECIFICATION Spec
SYMMETRY TaskLockSymmetry
INVARIANTS UserMutex
