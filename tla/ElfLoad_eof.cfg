\* Images of one or two program headers; pages of 4 bytes.  Every vaddr is
\* page aligned; a segment of 5 bytes at data offset 1 ends exactly at the
\* end of the 6 data bytes, i.e. of the image.
CONSTANTS
  PGSIZE = 4
  USERMIN = 8
  StackVA = 24
  VAddrs = {4, 8}
  FileSzs = {0, 3, 5}
  BssSzs = {0, 2}
  DOffs = {0, 1}
  DataLen = 6
  MaxPhdrs = 2
SPECIFICATION Spec
INVARIANT ElfLoadCorrect
