\* Two sessions of two shares each, and two AI requests, one of which may come
\* with several jobs; every second template is the fund's.
CONSTANTS
  q1 = q1
  q2 = q2
  none = none
  challenge = challenge
  Requests = {q1, q2}
  MaxJob = 3
  MaxId = 3
  MaxSession = 2
  Period = 3
  DevPercent = 1
  CacheMax = 1
  None = none
  Challenge = challenge
SPECIFICATION Spec
INVARIANTS AnswersFindTheirShare CidIsOfItsJob NoReconnectStorm
PROPERTY DeadSubmitTaskIsNoticed
CHECK_DEADLOCK FALSE
