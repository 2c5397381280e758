\* fake_work with four packets over priorities 0 and 1.
CONSTANTS
  Addrs <- MCAddrs
  MaxPkts = 4
SPECIFICATION Spec
INVARIANT PerPriorityOrder
PROPERTY EventuallyProcessed
\* genpackets stops after MaxPkts packets; the real loop never ends.
CHECK_DEADLOCK FALSE
