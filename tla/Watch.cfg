\* Two receivers, the second one cloned from the first, and two values sent
\* after the initial one: enough for a send to overlap with both halves of a
\* receiver's check, with a wait, and with the drop of the sender.
CONSTANTS
  r1 = r1
  r2 = r2
  Receivers = {r1, r2}
  First = r1
  Nobody = Nobody
  MaxValue = 3
  SpuriousWakeups = TRUE
SPECIFICATION ChannelSpec
INVARIANTS NoLostUpdate NoMissedWakeup
PROPERTIES ImplementsLatestValue EveryReceiverCatchesUp EveryReceiverLearnsOfClose
CHECK_DEADLOCK FALSE
