\* One GPU thread and one CPU thread; three commands after the initial None,
\* then Close: a job, a suspension and another job, or three jobs in a row.
CONSTANTS
  gpu = gpu
  cpu = cpu
  low = low
  full = full
  Gpus = {gpu}
  Cpus = {cpu}
  Ranges = {low}
  Full = full
  MaxVersion = 3
SPECIFICATION Spec
INVARIANTS WorksOnLastJobHanded SyncedMatchesChannel
PROPERTIES ThreadsCatchUp ThreadsEnd PauseStopsOtherSearches
CHECK_DEADLOCK FALSE
