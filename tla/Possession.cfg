\* Twelve files of weights, walks of four steps with two of them opened, two
\* nonces, and numbers of four words of six bits.
CONSTANTS
  none = none
  WordBits = 6
  ByteBits = 2
  Diff1Mantissa = 3
  Diff1Exponent = 19
  Layouts <- Files
  ChunkSize = 2
  Steps = 4
  Openings = 2
  Nonces = {0, 1, 2}
  Compacts <- Bits
  Recips <- Difficulties
  Scores = {0, 1, 2}
  PomActivation = 1
  LevelActivation = 2
  HeaderHash <- HashOf
  Salt <- Salted
  SeedFold <- Seeds
  Transition <- Mixed
  PowFold <- Folded
  HeavyHash <- Heavy
  Hashes = {0, 1, 2, 3, 4, 5, 6, 7}
  States = {0, 1, 2, 3, 4, 5, 6, 7, 8, 9, 10, 11, 12, 13, 14, 15}
  None = none
SPECIFICATION Spec
INVARIANTS BlocksAreValid CandidatesAreConfirmed TargetsAreExact
CHECK_DEADLOCK FALSE
