\* One rig with one model, one fault.
CONSTANTS
  auto = auto
  none = none
  Rigs <- MCFreshRigs
  FreshRigs <- MCFreshRigs
  Flags = {0}
  Chunks = 2
  MaxAttempts = 2
  MaxFaults = 1
  Automatic = auto
  None = none
SPECIFICATION Spec
INVARIANT CompleteFileIsTaken
CHECK_DEADLOCK FALSE
