CONSTANTS
  Products = {"p1", "p2"} Services = {x1} Syncs = {"s1", "s2"}
  Admins = {a1} Buyers = {b1} None = None
  Watchers = {w1, w2} Prices = {1, 2} NoWatch = NoWatch
  MaxStock = 1 MaxChanges = 4 MaxFaults = 1
  Codes = {"c1", "c2"} Redeemers = {"u1", "u2"} MaxUses = 2
  Attempts <- TwoUsersTwoProcesses
  Claims = {t1, t2} MaxDay = 5
  Newcomers = {n1} Updates = {t1, t2, t3} NoRow = NoRow
SPECIFICATION Spec
INVARIANTS
  ServicesTypeOK DelistedIsPaused RowsHaveTheirParents GiftHonoured
  StreakIsEarned ReferralIsEarned SeenIsTold
PROPERTIES WatcherIsTold
CHECK_DEADLOCK FALSE
