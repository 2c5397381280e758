\* read() into a buffer that fork shares copy-on-write.
CONSTANTS
  MaxProcs = 3
  Frames <- MCFrames
  UVA <- MCStackOnly
  Writable <- MCStackOnly
  KVA = 10
  RVA = 20
  KFrame = 100
  Vals = {0, 1}
SPECIFICATION Spec
PROPERTY PrivateMemories
