CONSTANTS
  Handlers <- AllHandlers
  Asked <- AskedBefore
  Scenes <- PurchasesTwoInFlight
SPECIFICATION Spec
INVARIANTS AnswersOutliveUpdates
CHECK_DEADLOCK FALSE
