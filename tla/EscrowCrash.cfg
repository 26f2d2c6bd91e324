CONSTANTS
  a = a
  b = b
  r = r
  none = none
  Blocks = {a}
  Requests = {r}
  NoBlock = none
  Outputs <- MCOutputs
  BlockDaa <- MCBlockDaa
  Dust <- MCDust
  Maturity = 1
  OrphanCooldown = 0
  LockCooldown = 2
  MaxRetries = 1
  CompactEvery = 1
  Elapsed = {TRUE, FALSE}
  Writes = {"saved", "truncated"}
  MaxDaa = 1
  MaxInFlight = 1
  MaxRestarts = 1
SPECIFICATION Spec
INVARIANTS IInv FileIsCurrent
PROPERTIES FileCatchesUp
