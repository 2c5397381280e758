\* Load, fork, copy-on-write faults, user stores, kills and exits with
\* three processes: the bookkeeping of the tracking maps, the copy-on-write
\* marking of shared frames and the private-memory promise of fork.
\* read() changes no pmap, table or tracking map; what it does to memory
\* is checked by MCProcVM_read_cow.cfg and MCProcVM_kmem.cfg.
CONSTANTS
  MaxProcs = 3
  Frames <- MCFrames
  UVA <- MCUVA
  Writable <- MCWritable
  KVA = 10
  RVA = 20
  KFrame = 100
  Vals = {0, 1}
SPECIFICATION SpecNoRead
INVARIANT TypeOK SharedFramesReadOnly MappedFramesTracked
PROPERTY PrivateMemories
