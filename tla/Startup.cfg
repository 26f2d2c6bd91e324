\* Rigs of one or two GPUs around every tier's floor; on two of them the models
\* are downloaded, with two faults.
CONSTANTS
  auto = auto
  none = none
  Rigs <- MCRigs
  FreshRigs <- MCFreshRigs
  Flags = {auto, 0, 1, 2, 3, 4}
  Chunks = 2
  MaxAttempts = 2
  MaxFaults = 2
  Automatic = auto
  None = none
SPECIFICATION Spec
INVARIANTS MarkedIsComplete GpusGetTheirTier
PROPERTY WeightsArrive
CHECK_DEADLOCK FALSE
