CONSTANTS
  Handlers <- AllHandlers
  Asked <- AskedBefore
  Scenes <- AllScenes
SPECIFICATION Spec
INVARIANTS TextsFindTheirAnswers LeftIsForgotten
CHECK_DEADLOCK FALSE
