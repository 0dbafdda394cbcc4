CONSTANTS
  Handlers <- AllHandlers
  Asked <- AskedBefore
  Scenes <- Purchases
SPECIFICATION Spec
INVARIANTS PurchaseUsesItsOwnAnswers
CHECK_DEADLOCK FALSE
