\* Two workers, two jobs of two seeds, one batch of nonces of each, rounds for the fee.
CONSTANTS
  w1 = w1
  w2 = w2
  s1 = s1
  s2 = s2
  none = none
  closed = closed
  Workers = {w1, w2}
  Seeds = {s1, s2}
  Fee = TRUE
  MaxJob = 2
  MaxBatch = 1
  None = none
  Closed = closed
SPECIFICATION Spec
INVARIANTS CurrentSharesAreValid NoCollisions
PROPERTIES WorkersCatchUp RoundsEnd
