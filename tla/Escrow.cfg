CONSTANTS
  a = a
  b = b
  r = r
  none = none
  Blocks = {a, b}
  Requests = {}
  NoBlock = none
  Outputs <- MCOutputs
  BlockDaa <- MCBlockDaa
  Dust = {}
  Maturity = 1
  OrphanCooldown = 1
  LockCooldown = 1
  MaxRetries = 2
  CompactEvery = 2
  Elapsed = {TRUE}
  Writes = {"saved"}
  MaxDaa = 2
  MaxInFlight = 1
  MaxRestarts = 0
SPECIFICATION Spec
INVARIANTS ClaimedWasAccepted SlashedForAReason
PROPERTIES EveryEntrySettles
