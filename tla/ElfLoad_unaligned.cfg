\* Images of one or two program headers; pages of 4 bytes.  Seven data
\* bytes, so that no segment (at most 1 + 5 bytes) reaches the end of the
\* image; vaddr 10 is not page aligned.
CONSTANTS
  PGSIZE = 4
  USERMIN = 8
  StackVA = 24
  VAddrs = {4, 8, 10}
  FileSzs = {0, 3, 5}
  BssSzs = {0, 2}
  DOffs = {0, 1}
  DataLen = 7
  MaxPhdrs = 2
SPECIFICATION Spec
INVARIANT ElfLoadCorrect
