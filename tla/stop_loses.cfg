SPECIFICATION Spec
CONSTANTS
  Messages = {1, 2, 3}
  Loops = {1, 2, 3, 4, 5, 6, 7}
  Fragile = {1}
  Slots = 1
  PauseAbove = 1
  Loads <- EventsOnly
INVARIANTS ExitLosesNothing
