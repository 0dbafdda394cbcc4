CONSTANTS
  Handlers <- AllHandlers
  Asked <- AskedBefore
  Scenes <- Providers
SPECIFICATION Spec
INVARIANTS WizardFindsItsAnswers
CHECK_DEADLOCK FALSE
