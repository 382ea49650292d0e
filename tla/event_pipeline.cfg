SPECIFICATION FairSpec
CONSTANTS
  Messages = {1, 2, 3, 4}
  Loops = {1, 2, 3, 4, 5}
  Fragile = {1}
  Slots = 1
  PauseAbove = 1
  Loads <- SomeLoads
INVARIANTS TypeOK PausedUntilDrain ReceivesUnlessPaused HandlersHaveTasks
PROPERTIES EveryMessageHandled StopEnds
