\* Two requests, one of them sent twice, a queue of one, and one challenge.
CONSTANTS
  t1 = t1
  t2 = t2
  t3 = t3
  none = none
  Txs <- MCTxs
  IdOf <- MCIdOf
  Rewarded = {t1, t3}
  m1 = m1
  m2 = m2
  Models = {m1, m2}
  ModelOf <- MCModelOf
  MaxQueue = 1
  MaxSeen = 2
  MaxAsked = 2
  MaxChallenges = 1
  None = none
SPECIFICATION Spec
INVARIANT NotAnsweredAgain
PROPERTIES RewardsAreEarned MiningResumes EveryRequestIsTakenUp
CHECK_DEADLOCK FALSE
