\* One GPU that two inferences and its own worker want at one time.
CONSTANTS
  t1 = t1
  t2 = t2
  none = none
  nobody = nobody
  Devices = {0}
  Models = {1, 2}
  Tasks = {t1, t2}
  Assignments <- SingleRig
  Tight <- LargerOnFirst
  Turing = {}
  None = none
  Nobody = nobody
SPECIFICATION Spec
PROPERTIES InstallsEnd InferencesEnd
