------------------------------ MODULE UserCopy ------------------------------
(***************************************************************************)
(* How the kernel reaches user memory from a syscall (biscuit/pmap.go,     *)
(* biscuit/syscall.go): is_mapped validates a buffer page by page;         *)
(* sys_read and sys_write then build a scatter list of physical slices     *)
(* (vtop, dmap8, trimmed to what is left); is_mapped_str copies a          *)
(* NUL-terminated path out of user memory, chunk by chunk through the      *)
(* direct map.  All three are pure functions of the page table and of      *)
(* physical memory, written here as operators and compared with reference  *)
(* definitions over every small input.                                     *)
(*                                                                         *)
(* Memory is scaled down: PGSIZE bytes per page, NVPages user pages from   *)
(* address 0 (higher addresses are unmapped), frames 0..NFrames-1.  A      *)
(* slice is [base, len] in physical addresses.                             *)
(***************************************************************************)
EXTENDS Naturals, Sequences, SequencesExt, FiniteSetsExt

CONSTANTS
  PGSIZE,     \* bytes per page
  NVPages,    \* virtual pages 0..NVPages-1 that a page table may map
  NFrames,    \* physical frames
  Bytes,      \* byte values (0 is NUL)
  Sizes,      \* buffer sizes passed to read/write
  LenMax      \* NAME_MAX, the lenmax of is_mapped_str

ASSUME PGSIZE >= 2 /\ 0 \in Bytes /\ 0 \notin Sizes /\ LenMax >= 1

NoFrame == NFrames               \* a PTE without PTE_P
VA == 0..(NVPages * PGSIZE - 1)  \* user addresses a pointer may hold
PA == 0..(NFrames * PGSIZE - 1)

VARIABLES
  pm,     \* pm[v]: frame mapped at virtual page v, or NoFrame
  pmem,   \* pmem[a]: byte at physical address a
  bufp,   \* the user pointer
  sz      \* the buffer size

vars == <<pm, pmem, bufp, sz>>

\* Every page table, memory and argument; nothing changes afterwards.
Init ==
  /\ pm \in [0..(NVPages - 1) -> 0..NFrames]
  /\ pmem \in [PA -> Bytes]
  /\ bufp \in VA
  /\ sz \in Sizes

Next == UNCHANGED vars

Spec == Init /\ [][Next]_vars

-----------------------------------------------------------------------------
(* The code.                                                               *)

rounddown(v, b) == v - (v % b)
roundup(v, b) == rounddown(v + b - 1, b)

\* pmap_walk(pmap, v, false, ...) followed by the PTE_P test: the frame
\* behind v, or NoFrame.
Walk(v) == IF v \div PGSIZE < NVPages THEN pm[v \div PGSIZE] ELSE NoFrame
Mapped(v) == Walk(v) /= NoFrame

\* Mutant: the loop ends at rounddown(va + size): a buffer's last partial
\* page is never walked.
is_mapped_no_roundup(va, size) ==
  LET RECURSIVE Pages(_, _)
      Pages(p, end) == p >= end \/ (Mapped(p) /\ Pages(p + PGSIZE, end))
  IN  Pages(rounddown(va, PGSIZE), rounddown(va + size, PGSIZE))

\* is_mapped: every page from rounddown(va) up to roundup(va + size) has
\* a present PTE.
is_mapped(va, size) ==
  LET RECURSIVE Pages(_, _)
      Pages(p, end) == p >= end \/ (Mapped(p) /\ Pages(p + PGSIZE, end))
  IN  Pages(rounddown(va, PGSIZE), roundup(va + size, PGSIZE))

\* vtop in sys_read/sys_write: frame address plus the page offset of va.
vtop(va) == Walk(va) * PGSIZE + (va % PGSIZE)

\* dmap8(p): the bytes from p to the end of its page.
dmap8(p) == [base |-> p, len |-> PGSIZE - (p % PGSIZE)]

\* The nil slice that make([][]uint8, 1) puts first.
NilSlice == [base |-> 0, len |-> 0]

\* Mutant: every slice is taken at the start of the buffer (vtop(bufp)).
RECURSIVE ScatterFrom_no_offset(_, _, _)
ScatterFrom_no_offset(va, size, c) ==
  IF c >= size THEN <<>>
  ELSE LET d    == dmap8(vtop(va))
           left == size - c
           s    == IF d.len > left THEN [d EXCEPT !.len = left] ELSE d
       IN  <<s>> \o ScatterFrom_no_offset(va, size, c + s.len)

\* The loop `for c < sz`: the slice of the page holding bufp + c, cut to
\* the bytes that are left.
RECURSIVE ScatterFrom(_, _, _)
ScatterFrom(va, size, c) ==
  IF c >= size THEN <<>>
  ELSE LET d    == dmap8(vtop(va + c))
           left == size - c
           s    == IF d.len > left THEN [d EXCEPT !.len = left] ELSE d
       IN  <<s>> \o ScatterFrom(va, size, c + s.len)

\* The dsts of sys_read: make([][]uint8, 1), then one append per slice.
scatter(va, size) == <<NilSlice>> \o ScatterFrom(va, size, 0)

\* The srcs of sys_write are built by the same loop.
sys_write_srcs(va, size) == scatter(va, size)

\* is_mapped_str(pmap, va, lenmax): walk the page holding va + i, take the
\* bytes of dmap8(frame + (va & PGOFFSET)), stop at a NUL, otherwise add
\* them to ret and test len(ret) >= lenmax after the whole chunk.
is_mapped_str(va, lenmax) ==
  LET RECURSIVE Loop(_, _)
      Loop(i, ret) ==
        IF ~Mapped(va + i) THEN [s |-> <<>>, ok |-> FALSE, toolong |-> FALSE]
        ELSE LET phys == Walk(va + i) * PGSIZE + (va % PGSIZE)
                 str  == [k \in 1..(PGSIZE - (phys % PGSIZE)) |-> pmem[phys + k - 1]]
                 nul  == {k \in DOMAIN str : str[k] = 0}
             IN  IF nul /= {}
                   THEN [s |-> ret \o SubSeq(str, 1, Min(nul) - 1), ok |-> TRUE, toolong |-> FALSE]
                 ELSE IF Len(ret) + Len(str) >= lenmax
                   THEN [s |-> <<>>, ok |-> TRUE, toolong |-> TRUE]
                 ELSE Loop(i + Len(str), ret \o str)
  IN  Loop(0, <<>>)

-----------------------------------------------------------------------------
(* Reference definitions.                                                  *)

\* The byte at user address v.
VByte(v) == pmem[vtop(v)]

\* The physical address of each byte of the user buffer, in order.
BufAddrs(va, size) == [i \in 1..size |-> vtop(va + i - 1)]

\* The physical addresses a scatter list covers, slice after slice.
ListAddrs(l) == FlattenSeq([k \in DOMAIN l |-> [i \in 1..l[k].len |-> l[k].base + i - 1]])

\* The C string at va: its length n, when bytes va..va+n-1 are mapped and
\* non-NUL and va+n is a mapped NUL.
IsCStrLen(va, n) ==
  /\ \A i \in 0..n : Mapped(va + i)
  /\ \A i \in 0..(n - 1) : VByte(va + i) /= 0
  /\ VByte(va + n) = 0

-----------------------------------------------------------------------------
(* Properties.                                                             *)

\* is_mapped accepts a buffer exactly when every one of its bytes lies in
\* a mapped page (read and write validate before they build the list).
IsMappedExact ==
  is_mapped(bufp, sz) <=> \A i \in 0..(sz - 1) : Mapped(bufp + i)

\* For a validated buffer, the scatter list of read/write covers the
\* physical bytes of the buffer exactly once and in order, across page
\* boundaries and whatever frames the pages map to.
ScatterCoversBuffer ==
  is_mapped(bufp, sz) => ListAddrs(scatter(bufp, sz)) = BufAddrs(bufp, sz)

\* A path is_mapped_str accepts is the NUL-terminated string stored at the
\* user pointer (open, mkdir, link and unlink resolve that path), and it is
\* shorter than lenmax: spec section 4.3 reports too_long once lenmax
\* bytes are seen without a NUL.
StrCopyCorrect ==
  LET r == is_mapped_str(bufp, LenMax)
  IN  (r.ok /\ ~r.toolong) =>
        /\ \E n \in 0..Len(r.s) : IsCStrLen(bufp, n) /\ r.s = [i \in 1..n |-> VByte(bufp + i - 1)]
        /\ Len(r.s) < LenMax

=============================================================================
