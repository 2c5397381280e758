\* One CPU, as main() ships (cpus_start is commented out).
CONSTANTS
  CPUs = {0}
  Cap = 3
  Pids = {1}
  UserTraps <- MCUserTraps
  Ids <- MCIds
  Irqs <- MCIrqs
SPECIFICATION Spec
INVARIANT TypeOK NoSlotRace
PROPERTY QueueRefined
