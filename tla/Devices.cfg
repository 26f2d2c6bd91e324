\* A rig of two GPUs, two inferences at one time: the second one belongs to a
\* session that began while the first was running.
CONSTANTS
  t1 = t1
  t2 = t2
  none = none
  nobody = nobody
  Devices = {0, 1}
  Models = {1, 2}
  Tasks = {t1, t2}
  Assignments <- Rigs
  Tight <- SmallGpus
  Turing = {1}
  None = none
  Nobody = nobody
SPECIFICATION Spec
INVARIANTS IInv WalkMatchesIndex BusyIsOwned LocksAreHeld
