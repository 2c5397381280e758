\* read() with a buffer address in kernel memory (KVA, mapped without PTE_U).
CONSTANTS
  MaxProcs = 3
  Frames <- MCFrames
  UVA <- MCUVA
  Writable <- MCWritable
  KVA = 10
  RVA = 20
  KFrame = 100
  Vals = {0, 1}
SPECIFICATION Spec
INVARIANT KernelMemoryIntact
