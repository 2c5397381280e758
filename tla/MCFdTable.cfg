\* Two processes (init and one child), one descriptor each beyond the
\* sentinels, two per-open records, files of at most one byte (offsets 0..1).
CONSTANTS
  o1 = o1
  o2 = o2
  MaxProcs = 2
  MaxFd = 3
  MaxOff = 1
  Objs <- MCObjs
  FsErrs <- MCFsErrs
  Sizes <- MCSizes
SPECIFICATION Spec
INVARIANT TypeOK
\* The machine stops once every process has exited.
CHECK_DEADLOCK FALSE
