\* Two CPUs: the stub of one CPU runs concurrently with the dispatcher on
\* the other (the SMP configuration cpus_start would bring up).  Rings of
\* Cap = 3 hold two records each, so head and tail wrap past one another;
\* device interrupts only (in kernel and user context), since a user task
\* blocks in Procyield after its one syscall and could not fill a ring.
CONSTANTS
  CPUs = {0, 1}
  Cap = 3
  Pids = {1}
  UserTraps <- MCNoUserTraps
  Ids <- MCIdsSmp
  Irqs <- MCIrqs
SPECIFICATION Spec
INVARIANT NoSlotRace
PROPERTY QueueRefined EventuallyDispatched
