CONSTANTS
  user = user
  admin = admin
  Orders = {o1}
  Handlers = {user}
  Actions <- UserAndAdmin
  MaxActive = 1
  MaxSms = 2
  MaxExp = 2
  NoRow = NoRow
  NoCode = NoCode
SPECIFICATION Spec
INVARIANTS ExtraCodeIsNew
