CONSTANTS
  Handlers <- AllHandlers
  Asked <- AskedBefore
  Scenes <- Purchases
SPECIFICATION Spec
INVARIANTS CommandsEndDialogues
CHECK_DEADLOCK FALSE
