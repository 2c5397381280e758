\* Two pages of four bytes over two frames, every byte 0 or 1 (NUL or
\* not), every start address and page table.  NAME_MAX is 9, more than
\* the 8 bytes two pages hold, so no path reaches lenmax and what goes
\* wrong is the walk across the page boundary.
CONSTANTS
  PGSIZE = 4
  NVPages = 2
  NFrames = 2
  Bytes = {0, 1}
  Sizes = {1}
  LenMax = 9
SPECIFICATION Spec
INVARIANT StrCopyCorrect
