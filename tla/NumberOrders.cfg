CONSTANTS
  user = user
  admin = admin
  Orders = {o1}
  Handlers = {user, admin}
  Actions <- UserAndAdmin
  MaxActive = 1
  MaxSms = 1
  MaxExp = 2
  NoRow = NoRow
  NoCode = NoCode
SPECIFICATION FairSpec
INVARIANTS RefundedIsPaidBack CashbackOnce NobodyIsForgotten
PROPERTIES ImplementsEscrow Settled
