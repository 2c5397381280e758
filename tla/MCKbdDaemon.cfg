\* The keyboard daemon with two readers and three key presses.
CONSTANTS
  r1 = r1
  r2 = r2
  Readers <- MCReaders
  Scancodes <- MCScancodes
  km <- MCkm
  Counts = {0, 1, 2}
  MaxKeys = 3
SPECIFICATION Spec
INVARIANT TypeOK
INVARIANT DeliveredInOrder
PROPERTY ReplyWithinCount
PROPERTY ReaderServed
CHECK_DEADLOCK FALSE
