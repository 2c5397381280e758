------------------------------- MODULE ElfLoad -------------------------------
(***************************************************************************)
(* Program loading in sys_execv (syscall.go): the ELF image read from the  *)
(* file system is parsed by npheaders, header and headers, and elf_load    *)
(* maps every PT_LOAD segment at or above USERMIN with elf_segload, after  *)
(* the stack page has been mapped.  readn reads little-endian fields out   *)
(* of the byte slice; indexing or slicing past it is a Go runtime panic.   *)
(*                                                                         *)
(* The header offsets (0x18, 0x20, 0x36, 0x38 and those of a program       *)
(* header) and field widths are the code's.  PGSIZE, USERMIN and the stack *)
(* address are scaled down (a page of a few bytes), so that an image and   *)
(* the pages it fills stay small; the control of the loops is unchanged.   *)
(* A user page is a record: writable or not, and its PGSIZE bytes.         *)
(* fs_open and the fs_read loop that fills the slice are the file system's *)
(* and not modelled: the slice is the image.                               *)
(***************************************************************************)
EXTENDS Naturals, Sequences, SequencesExt, TLC

CONSTANTS
  PGSIZE,     \* bytes per page
  USERMIN,    \* lowest user address elf_load accepts (page aligned)
  StackVA,    \* stackva: the stack page is the page below it
  VAddrs,     \* p_vaddr values of the program headers
  FileSzs,    \* p_filesz values
  BssSzs,     \* p_memsz - p_filesz values
  DOffs,      \* offsets of a segment's bytes within the segment data
  DataLen,    \* bytes of segment data after the program headers
  MaxPhdrs    \* bound on e_phnum

PT_LOAD == 1
PT_NOTE == 4
PF_W == 2
EHDRSIZE == 64            \* e_phoff of every image: the headers follow
PHENTSIZE == 56           \* e_phentsize
MAGIC == <<127, 69, 76, 70>>   \* 0x7f 'E' 'L' 'F'

\* v as n little-endian bytes.
RECURSIVE LE(_, _)
LE(v, n) == IF n = 0 THEN <<>> ELSE <<v % 256>> \o LE(v \div 256, n - 1)
\* b at offset off of an n-byte zero block.
Put(blk, off, b) == [i \in DOMAIN blk |->
                       IF i > off /\ i <= off + Len(b) THEN b[i - off] ELSE blk[i]]
Zeros(n) == [i \in 1..n |-> 0]

\* A program header as the loader will read it, offsets relative to the
\* start of the segment data.
Phdr == [type : {PT_LOAD, PT_NOTE}, flags : {0, PF_W}, vaddr : VAddrs,
         filesz : FileSzs, bss : BssSzs, doff : DOffs]

DataStart(n) == EHDRSIZE + n * PHENTSIZE

PhdrBytes(h, n) ==
  LET b1 == Put(Zeros(PHENTSIZE), 0, LE(h.type, 4))
      b2 == Put(b1, 4, LE(h.flags, 4))
      b3 == Put(b2, 8, LE(DataStart(n) + h.doff, 8))
      b4 == Put(b3, 16, LE(h.vaddr, 8))
      b5 == Put(b4, 32, LE(h.filesz, 8))
  IN  Put(b5, 40, LE(h.filesz + h.bss, 8))

EhdrBytes(n, entry) ==
  LET b1 == Put(Zeros(EHDRSIZE), 0, MAGIC)
      b2 == Put(b1, 24, LE(entry, 8))
      b3 == Put(b2, 32, LE(EHDRSIZE, 8))
      b4 == Put(b3, 54, LE(PHENTSIZE, 2))
  IN  Put(b4, 56, LE(n, 2))

\* Segment data: distinct non-zero bytes, so a misplaced byte shows.
Data == [i \in 1..DataLen |-> i]

Image(hs) ==
  EhdrBytes(Len(hs), USERMIN) \o FlattenSeq([k \in DOMAIN hs |-> PhdrBytes(hs[k], Len(hs))])
                              \o Data

\* Program header tables of 1..MaxPhdrs entries.
Tables == UNION {[1..n -> Phdr] : n \in 1..MaxPhdrs}

VARIABLE hs

Init == hs \in Tables
Next == UNCHANGED hs
Spec == Init /\ [][Next]_hs

-----------------------------------------------------------------------------
(* The code.                                                               *)

rounddown(v, b) == v - (v % b)
roundup(v, b) == rounddown(v + b - 1, b)

RECURSIVE readn(_, _, _)
readn(a, n, off) == IF n = 0 THEN 0 ELSE a[off + 1] + 256 * readn(a, n - 1, off + 1)
InRange(a, n, off) == off >= 0 /\ off + n <= Len(a)

Panic == [ok |-> FALSE]

\* npheaders: the magic test (a panic), then e_phnum.
npheaders(d) ==
  IF ~InRange(d, 4, 0) \/ readn(d, 4, 0) /= readn(MAGIC, 4, 0) THEN Panic
  ELSE IF ~InRange(d, 2, 56) THEN Panic
  ELSE [ok |-> TRUE, n |-> readn(d, 2, 56)]

\* header(c): the fields of program header c at hoff + c*hsz, and sdata,
\* the slice d[off:off+filesz] after the two range tests.
header(d, c) ==
  LET hoff == readn(d, 8, 32)
      hsz  == readn(d, 2, 54)
      at(w) == hoff + c * hsz + w
      f(w, sz) == readn(d, sz, at(w))
  IN  IF ~InRange(d, 8, 32) \/ ~InRange(d, 2, 54) \/ ~InRange(d, 8, at(40)) THEN Panic
      ELSE LET off == f(8, 8)
               filesz == f(32, 8)
           IN  IF off >= Len(d) THEN Panic                  \* weird off
               ELSE IF off + filesz >= Len(d) THEN Panic    \* weird filesz
               ELSE [ok |-> TRUE, etype |-> f(0, 4), flags |-> f(4, 4),
                     vaddr |-> f(16, 8), filesz |-> filesz, memsz |-> f(40, 8),
                     sdata |-> SubSeq(d, off + 1, off + filesz)]

\* headers: header(i) for i in 0..npheaders-1; a panic in any is a panic.
RECURSIVE headers_from(_, _, _)
headers_from(d, i, num) ==
  IF i = num THEN [ok |-> TRUE, hs |-> <<>>]
  ELSE LET h == header(d, i)
           rest == headers_from(d, i + 1, num)
       IN  IF ~h.ok \/ ~rest.ok THEN Panic
           ELSE [ok |-> TRUE, hs |-> <<h>> \o rest.hs]
headers(d) ==
  LET np == npheaders(d) IN IF ~np.ok THEN Panic ELSE headers_from(d, 0, np.n)

\* entry: e_entry, the initial RIP.
entry(d) == readn(d, 8, 24)

\* page_insert with vempty = true: a present PTE panics ("pte not empty");
\* otherwise the page maps the new frame.
page_insert(pm, va, frame, w) ==
  LET pg == rounddown(va, PGSIZE)
  IN  IF pg \in DOMAIN pm THEN Panic
      ELSE [ok |-> TRUE, pm |-> (pg :> [w |-> w, bytes |-> frame]) @@ pm]

\* One iteration of elf_segload's loop at i: a fresh zeroed frame, the
\* Memmove of min(PGSIZE, rsz - i) bytes of sdata from i to the frame's
\* start when i < len(sdata), and page_insert at vaddr + i.
RECURSIVE segload_loop(_, _, _, _, _)
segload_loop(pm, hdr, w, sz, i) ==
  IF i >= sz THEN [ok |-> TRUE, pm |-> pm]
  ELSE LET len == IF PGSIZE > hdr.filesz - i THEN hdr.filesz - i ELSE PGSIZE
           frame == IF i < Len(hdr.sdata)
                      THEN Put(Zeros(PGSIZE), 0, SubSeq(hdr.sdata, i + 1, i + len))
                      ELSE Zeros(PGSIZE)
           r == page_insert(pm, hdr.vaddr + i, frame, w)
       IN  IF ~r.ok THEN Panic ELSE segload_loop(r.pm, hdr, w, sz, i + PGSIZE)

\* elf_segload: perms U, plus W for PF_W; sz covers the pages of
\* [vaddr, vaddr+memsz).
elf_segload(pm, hdr) ==
  LET sz == roundup(hdr.vaddr + hdr.memsz, PGSIZE) - rounddown(hdr.vaddr, PGSIZE)
  IN  segload_loop(pm, hdr, (hdr.flags \div PF_W) % 2 = 1, sz, 0)

\* elf_load: each PT_LOAD header with vaddr >= USERMIN, in order.
RECURSIVE elf_load_from(_, _)
elf_load_from(pm, hl) ==
  IF hl = <<>> THEN [ok |-> TRUE, pm |-> pm]
  ELSE LET h == Head(hl)
           r == IF h.etype = PT_LOAD /\ h.vaddr >= USERMIN
                  THEN elf_segload(pm, h) ELSE [ok |-> TRUE, pm |-> pm]
       IN  IF ~r.ok THEN Panic ELSE elf_load_from(r.pm, Tail(hl))

\* sys_execv from the image on: the stack page (U|W, zeroed) is inserted,
\* then elf_load runs over headers(); the trap frame's RIP is entry().
sys_execv(d) ==
  LET st == page_insert(<<>>, StackVA - PGSIZE, Zeros(PGSIZE), TRUE)
      hl == headers(d)
  IN  IF ~hl.ok THEN Panic
      ELSE LET r == elf_load_from(st.pm, hl.hs)
           IN  IF ~r.ok THEN Panic ELSE [ok |-> TRUE, pm |-> r.pm, rip |-> entry(d)]
-----------------------------------------------------------------------------
(* Properties.                                                             *)

\* The segments elf_load is meant to map (spec section 4.7): PT_LOAD at or
\* above USERMIN, by index into the table.
Loadable(t) == {k \in DOMAIN t : t[k].type = PT_LOAD /\ t[k].vaddr >= USERMIN}
PagesOf(h) == {pg \in {rounddown(h.vaddr, PGSIZE) + PGSIZE * i : i \in 0..(h.filesz + h.bss + PGSIZE)} :
                 pg < h.vaddr + h.filesz + h.bss}
StackPage == StackVA - PGSIZE

\* A well-formed image: every segment's bytes lie inside the file, and no
\* two loadable segments, nor a segment and the stack, share a page (the
\* spec maps every page fresh with vempty, so sharing is fatal by design).
WellFormed(t) ==
  /\ \A k \in DOMAIN t : t[k].doff + t[k].filesz <= DataLen
  /\ \A k \in Loadable(t) : StackPage \notin PagesOf(t[k])
  /\ \A k1, k2 \in Loadable(t) : k1 /= k2 => PagesOf(t[k1]) \cap PagesOf(t[k2]) = {}

\* The byte the spec puts at user address a: the segment's file byte for
\* a in [vaddr, vaddr + filesz), zero elsewhere (bss and the rest of a page).
InFile(h, a) == h.vaddr <= a /\ a < h.vaddr + h.filesz
ByteAt(t, a) ==
  IF \E k \in Loadable(t) : InFile(t[k], a)
    THEN LET h == t[CHOOSE k \in Loadable(t) : InFile(t[k], a)]
         IN  Data[h.doff + (a - h.vaddr) + 1]
    ELSE 0

\* execv of a well-formed image does not panic, maps the stack page and
\* exactly the pages of the loadable segments, writable exactly for PF_W,
\* with the segment's file bytes at their virtual addresses and zeros
\* after them, and starts at e_entry (spec section 4.7: elf_segload's
\* Memmove and page_insert loop, header's range tests).
ElfLoadCorrect ==
  WellFormed(hs) =>
    LET r == sys_execv(Image(hs))
        segpages == UNION {PagesOf(hs[k]) : k \in Loadable(hs)}
    IN  /\ r.ok
        /\ DOMAIN r.pm = segpages \cup {StackPage}
        /\ \A k \in Loadable(hs) : \A pg \in PagesOf(hs[k]) : r.pm[pg].w = (hs[k].flags = PF_W)
        /\ \A pg \in segpages : \A i \in 1..PGSIZE : r.pm[pg].bytes[i] = ByteAt(hs, pg + i - 1)
        /\ r.rip = USERMIN

=============================================================================
