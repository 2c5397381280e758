\* Three pages of three bytes over three frames: buffers of up to five
\* bytes start at any offset and cross one or two page boundaries, under
\* every page table (absent pages, pages sharing a frame, reversed frames).
CONSTANTS
  PGSIZE = 3
  NVPages = 3
  NFrames = 3
  Bytes = {0}
  Sizes = {1, 2, 3, 4, 5}
  LenMax = 3
SPECIFICATION Spec
INVARIANT IsMappedExact ScatterCoversBuffer
