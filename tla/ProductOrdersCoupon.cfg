CONSTANTS
  o1 = o1
  o2 = o2
  u1 = u1
  u2 = u2
  Orders = {o1, o2}
  Users = {u1, u2}
  Items = {1, 2}
  a1 = a1
  a2 = a2
  Admins = {a1, a2}
  Quantity = 2
  MaxPromo = 1
  MaxFaults = 1
  Scenarios <- OneUser
  NoRow = NoRow
SPECIFICATION Spec
INVARIANTS CouponDebitRefunded
