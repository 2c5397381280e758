------------------------------- MODULE ProcVM -------------------------------
(***************************************************************************)
(* Processes and their user address spaces (biscuit/main.go proc_t,       *)
(* biscuit/pmap.go, biscuit/syscall.go): program loading (sys_execv),      *)
(* fork as a deep page-table copy that marks writable user pages           *)
(* copy-on-write (sys_fork, copy_pmap), the page-fault handler            *)
(* (trap_pgfault, sys_pgfault, page_insert), read() storing into user     *)
(* memory through physical addresses (sys_read), and exit (proc_kill).     *)
(*                                                                         *)
(* Abstractions.  A page table is a function from virtual pages to PTEs;   *)
(* the four levels are kept only as the frames they occupy: `tables[p]`    *)
(* are the root and the copy of the kernel tables made by copy_pmap and    *)
(* the user-side table made by pmap_walk(create).  Virtual pages are the   *)
(* user pages UVA, one kernel page KVA (mapped without PTE_U in every      *)
(* pmap, copied from kpmap) and one page RVA in the reserved top-level     *)
(* slots VREC..VEND.  A frame is free for pg_new when no live process      *)
(* holds it in its `pages` map: that map is the only Go reference that    *)
(* keeps a frame from the garbage collector (a PTE is a plain integer).    *)
(* pg_new returns zeroed memory.  A trap and its handler are one step      *)
(* here; TrapRing models the path between them.                            *)
(***************************************************************************)
EXTENDS Naturals, FiniteSets, Sequences

CONSTANTS
  MaxProcs,   \* bound on pid_cur
  Frames,     \* physical frames available to pg_new (1..NFrames)
  UVA,        \* user virtual pages
  Writable,   \* the user pages the loader maps PTE_W (stack, writable segment)
  KVA,        \* a kernel page, present without PTE_U
  RVA,        \* a page in the reserved slot range VREC..VEND
  KFrame,     \* the frame behind KVA, owned by the kernel
  Vals        \* page contents

ASSUME Writable \subseteq UVA /\ KFrame \notin Frames /\ 0 \notin Frames
ASSUME 0 \in Vals

Pids == 1..MaxProcs
VAs  == UVA \cup {KVA}
\* A PTE: frame 0 means not present (PTE_P clear).
PTE == [frame : Frames \cup {KFrame, 0}, w : BOOLEAN, u : BOOLEAN, cow : BOOLEAN]
NoPTE == [frame |-> 0, w |-> FALSE, u |-> FALSE, cow |-> FALSE]
KernelPTE == [frame |-> KFrame, w |-> TRUE, u |-> FALSE, cow |-> FALSE]
Present(e) == e.frame /= 0

VARIABLES
  pid_cur,    \* last pid handed out by proc_new
  ps,         \* ps[p]: "none" (no such pid yet), "run", "pgfault", "dead"
  fva,        \* fva[p]: faulting page of a process in "pgfault"
  pmap,       \* pmap[p][va]: the leaf PTE for va
  tables,     \* tables[p]: frames holding p's page tables
  pages,      \* DOMAIN of proc_t.pages
  upages,     \* proc_t.upages: frame -> user page
  mem,        \* mem[f]: contents of frame f
  kmem,       \* contents of KFrame
  panicked    \* the kernel panicked

vars == <<pid_cur, ps, fva, pmap, tables, pages, upages, mem, kmem, panicked>>

Live == {p \in Pids : ps[p] \in {"run", "pgfault"}}
\* Frames the garbage collector may hand out again.
Free == Frames \ UNION {pages[p] : p \in Live}
\* pg_new, n times: the allocator's next frames, the lowest free ones.
RECURSIVE LowestFree(_, _)
LowestFree(n, avoid) ==
  IF n = 0 THEN <<>>
  ELSE LET f == CHOOSE g \in Free \ avoid : \A h \in Free \ avoid : g <= h
       IN  <<f>> \o LowestFree(n - 1, avoid \cup {f})
pg_new(n) == LowestFree(n, {})
FreeCount == Cardinality(Free)
\* Position of a user page among UVA, to give each its own new frame.
Rank(va) == Cardinality({u \in UVA : u <= va})

Init ==
  /\ pid_cur = 0
  /\ ps = [p \in Pids |-> "none"]
  /\ fva = [p \in Pids |-> RVA]
  /\ pmap = [p \in Pids |-> [va \in VAs |-> NoPTE]]
  /\ tables = [p \in Pids |-> {}]
  /\ pages = [p \in Pids |-> {}]
  /\ upages = [p \in Pids |-> [f \in {} |-> RVA]]
  /\ mem = [f \in Frames |-> 0]
  /\ kmem = 0
  /\ panicked = FALSE

-----------------------------------------------------------------------------
(* Loading the first program: main() -> sys_execv.                        *)

\* sys_execv: proc_new; a stack page; copy_pmap(nil, kpmap()) (a root and a
\* copy of the kernel tables); page_insert of the stack, whose pmap_walk
\* creates the user-side table; elf_load, one fresh zeroed frame per page
\* of each PT_LOAD segment, PTE_U plus PTE_W for writable ones.  All
\* frames come from pg_new(proc.pages).  main() calls it once.
\* elf_load: every page of a PT_LOAD segment in user range gets its own
\* fresh frame, mapped PTE_U, plus PTE_W for a PF_W segment.
elf_load(fr) ==
  [va \in UVA |-> [frame |-> fr[va], w |-> va \in Writable, u |-> TRUE, cow |-> FALSE]]

sys_execv ==
  /\ ~panicked /\ pid_cur = 0
  /\ FreeCount >= 3 + Cardinality(UVA)
  /\ LET p   == pid_cur + 1
         fs  == pg_new(3 + Cardinality(UVA))
         tbl == {fs[1], fs[2], fs[3]}
         fr  == [va \in UVA |-> fs[3 + Rank(va)]]
     IN /\ pid_cur' = p
        /\ ps' = [ps EXCEPT ![p] = "run"]
        /\ tables' = [tables EXCEPT ![p] = tbl]
        /\ pmap' = [pmap EXCEPT ![p] =
                     [va \in VAs |-> IF va = KVA THEN KernelPTE ELSE elf_load(fr)[va]]]
        /\ pages' = [pages EXCEPT ![p] = tbl \cup {fr[va] : va \in UVA}]
        /\ upages' = [upages EXCEPT ![p] = [f \in {fr[va] : va \in UVA} |->
                                              CHOOSE va \in UVA : fr[va] = f]]
        /\ mem' = [f \in Frames |-> IF f \in {fs[i] : i \in DOMAIN fs} THEN 0 ELSE mem[f]]
  /\ UNCHANGED <<fva, kmem, panicked>>

-----------------------------------------------------------------------------
(* The user program, on the CPU (hardware, not kernel code).               *)

\* A store that the MMU allows: present, PTE_U and PTE_W.
UserStore(p, va, v) ==
  /\ ~panicked /\ ps[p] = "run"
  /\ Present(pmap[p][va]) /\ pmap[p][va].u /\ pmap[p][va].w
  /\ mem' = [mem EXCEPT ![pmap[p][va].frame] = v]
  /\ UNCHANGED <<pid_cur, ps, fva, pmap, tables, pages, upages, kmem, panicked>>

\* Any other store faults: trapstub queues a PGFAULT with CR2 and the task
\* yields until trap_pgfault is done.
UserFault(p, va) ==
  /\ ~panicked /\ ps[p] = "run"
  /\ IF va = RVA THEN TRUE ELSE ~(Present(pmap[p][va]) /\ pmap[p][va].u /\ pmap[p][va].w)
  /\ ps' = [ps EXCEPT ![p] = "pgfault"]
  /\ fva' = [fva EXCEPT ![p] = va]
  /\ UNCHANGED <<pid_cur, pmap, tables, pages, upages, mem, kmem, panicked>>

-----------------------------------------------------------------------------
(* Kernel handlers.                                                        *)

\* proc_kill: flip dead, drop from allprocs; the GC reclaims its pages.
proc_kill(p) ==
  ps' = [ps EXCEPT ![p] = "dead"]

\* sys_exit.
sys_exit(p) ==
  /\ ~panicked /\ ps[p] = "run"
  /\ proc_kill(p)
  /\ UNCHANGED <<pid_cur, fva, pmap, tables, pages, upages, mem, kmem, panicked>>

\* mk_cow: a writable user PTE loses PTE_W and gains PTE_COW, in parent and
\* child alike; kernel PTEs are left alone.
mk_cow_keeps_w(e) == IF e.u /\ e.w THEN [e EXCEPT !.cow = TRUE] ELSE e
mk_cow(e) == IF e.u /\ e.w THEN [e EXCEPT !.w = FALSE, !.cow = TRUE] ELSE e

\* copy_pmap(mk_cow, ...): every present leaf PTE is rewritten by mk_cow
\* (the same value in source and copy); absent ones stay zero.
copy_pmap(p) == [va \in VAs |-> IF Present(pmap[p][va]) THEN mk_cow(pmap[p][va]) ELSE NoPTE]

\* The user PTEs of p that mk_cow references in the child's tracking maps.
UserFrames(p) == {pmap[p][va].frame : va \in {u \in VAs : Present(pmap[p][u]) /\ pmap[p][u].u}}

\* sys_fork: proc_new for the child, then copy_pmap(mk_cow, parent.pmap,
\* child.pages), which allocates a root and the inner tables (tracked in
\* child.pages) and rewrites every present leaf PTE through mk_cow in both
\* pmaps; mk_cow also copies the parent's pages and upages entries of each
\* user frame into the child's, and panics if the parent lacks one.  The
\* child is scheduled with RAX = 0 and the parent gets the child's pid.
\* No TLB is invalidated.
sys_fork(p) ==
  /\ ~panicked /\ ps[p] = "run"
  /\ pid_cur < MaxProcs /\ FreeCount >= 3
  /\ IF \E f \in UserFrames(p) : f \notin pages[p] \/ f \notin DOMAIN upages[p]
     THEN /\ panicked' = TRUE
          /\ UNCHANGED <<pid_cur, ps, pmap, tables, pages, upages, mem>>
     ELSE LET c   == pid_cur + 1
         fs  == pg_new(3)
         tbl == {fs[1], fs[2], fs[3]}
              npm == copy_pmap(p)
          IN /\ pid_cur' = c
             /\ ps' = [ps EXCEPT ![c] = "run"]
             /\ pmap' = [pmap EXCEPT ![p] = npm, ![c] = npm]
             /\ tables' = [tables EXCEPT ![c] = tbl]
             /\ pages' = [pages EXCEPT ![c] = tbl \cup UserFrames(p)]
             /\ upages' = [upages EXCEPT ![c] = [f \in UserFrames(p) |-> upages[p][f]]]
             /\ mem' = [f \in Frames |-> IF f \in tbl THEN 0 ELSE mem[f]]
             /\ UNCHANGED panicked
  /\ UNCHANGED <<fva, kmem>>

\* trap_pgfault on a page in the reserved slots: pmap_walk panics
\* ("map in special slots") before the PTE is even looked at.
pgfault_reserved(p) ==
  /\ ~panicked /\ ps[p] = "pgfault" /\ fva[p] = RVA
  /\ panicked' = TRUE
  /\ UNCHANGED <<pid_cur, ps, fva, pmap, tables, pages, upages, mem, kmem>>

\* page_insert(va, dst, p_dst, perms, false) over a present PTE: the old
\* frame leaves pages and upages (a panic if either does not track it),
\* the PTE is set, and the new frame is recorded in both maps.
page_insert_no_upages(p, va, dst, e) ==
  LET old == pmap[p][va].frame
  IN IF old \notin pages[p] \/ old \notin DOMAIN upages[p]
     THEN panicked' = TRUE /\ UNCHANGED <<pmap, pages, upages>>
     ELSE /\ pmap' = [pmap EXCEPT ![p][va] = e]
          /\ pages' = [pages EXCEPT ![p] = (@ \ {old}) \cup {dst}]
          /\ upages' = [upages EXCEPT ![p] = [f \in DOMAIN @ \ {old} |-> @[f]]]
          /\ UNCHANGED panicked
page_insert_swapped(p, va, dst, e) ==
  LET old == pmap[p][va].frame
  IN IF old \notin pages[p] \/ old \notin DOMAIN upages[p]
     THEN panicked' = TRUE /\ UNCHANGED <<pmap, pages, upages>>
     ELSE /\ pmap' = [pmap EXCEPT ![p][va] = e]
          /\ pages' = [pages EXCEPT ![p] = (@ \ {old}) \cup {dst}]
          /\ upages' = [upages EXCEPT ![p] =
                         [f \in (DOMAIN @ \ {old}) \cup {va} |-> IF f = va THEN dst ELSE @[f]]]
          /\ UNCHANGED panicked
page_insert(p, va, dst, e) ==
  LET old == pmap[p][va].frame
  IN IF old \notin pages[p] \/ old \notin DOMAIN upages[p]
     THEN panicked' = TRUE /\ UNCHANGED <<pmap, pages, upages>>
     ELSE /\ pmap' = [pmap EXCEPT ![p][va] = e]
          /\ pages' = [pages EXCEPT ![p] = (@ \ {old}) \cup {dst}]
          /\ upages' = [upages EXCEPT ![p] =
                         [f \in (DOMAIN @ \ {old}) \cup {dst} |-> IF f = dst THEN va ELSE @[f]]]
          /\ UNCHANGED panicked

\* The copy loop of sys_pgfault: the new frame gets the old one's bytes.
copy_page_unfilled(dst, src) == [mem EXCEPT ![dst] = 0]
copy_page(dst, src) == [mem EXCEPT ![dst] = mem[src]]

\* trap_pgfault on a PTE_COW page: a COW PTE below USERMIN panics ("kernel
\* page marked COW"); otherwise sys_pgfault takes a new frame from
\* pg_new(proc.pages), copies the old frame into it, page_insert()s it at
\* the page with the old flags minus PTE_COW plus PTE_W, and calls
\* runtime.Procrunnable.
sys_pgfault(p) ==
  /\ ~panicked /\ ps[p] = "pgfault" /\ fva[p] /= RVA
  /\ pmap[p][fva[p]].cow
  /\ FreeCount >= 1
  /\ LET va  == fva[p]
         old == pmap[p][va].frame
         dst == pg_new(1)[1]
     IN IF va = KVA
        THEN panicked' = TRUE /\ UNCHANGED <<ps, pmap, pages, upages, mem>>
        ELSE /\ mem' = copy_page(dst, old)
             /\ page_insert(p, va, dst, [pmap[p][va] EXCEPT !.frame = dst, !.w = TRUE, !.cow = FALSE])
             /\ ps' = IF panicked' THEN ps ELSE [ps EXCEPT ![p] = "run"]
  /\ UNCHANGED <<pid_cur, fva, tables, kmem>>

\* trap_pgfault on anything else (no PTE, or not PTE_COW): print and
\* proc_kill the process.
pgfault_kill(p) ==
  /\ ~panicked /\ ps[p] = "pgfault" /\ fva[p] /= RVA
  /\ ~pmap[p][fva[p]].cow
  /\ proc_kill(p)
  /\ UNCHANGED <<pid_cur, fva, pmap, tables, pages, upages, mem, kmem, panicked>>

\* sys_read with sz > 0 on an open descriptor whose fs_read succeeds:
\* is_mapped walks the pmap page by page and checks PTE_P only; the
\* scatter list holds the buffer's physical pages (through the direct map)
\* and fs_read stores the file's bytes there.  The walk panics on a page in
\* the reserved slots.  (EFAULT, EBADF and fs errors change no memory.)
\* is_mapped for a buffer within page va: the walk finds a PTE with PTE_P.
is_mapped(p, va) == Present(pmap[p][va])

sys_read(p, va, v) ==
  /\ ~panicked /\ ps[p] = "run"
  /\ IF va = RVA
       THEN panicked' = TRUE /\ UNCHANGED <<mem, kmem>>
       ELSE /\ is_mapped(p, va)
            /\ IF pmap[p][va].frame = KFrame
                 THEN kmem' = v /\ UNCHANGED mem
                 ELSE mem' = [mem EXCEPT ![pmap[p][va].frame] = v] /\ UNCHANGED kmem
            /\ UNCHANGED panicked
  /\ UNCHANGED <<pid_cur, ps, fva, pmap, tables, pages, upages>>

\* With no live process left, main() goes on in fake_work(); after a panic
\* the kernel stops.  Neither changes this state.
Idle ==
  /\ (panicked \/ (pid_cur > 0 /\ Live = {}))
  /\ UNCHANGED vars

\* Everything but read().
NextNoRead ==
  \/ sys_execv
  \/ \E p \in Pids, va \in VAs, v \in Vals : UserStore(p, va, v)
  \/ \E p \in Pids, va \in VAs \cup {RVA} : UserFault(p, va)
  \/ \E p \in Pids : sys_fork(p) \/ sys_exit(p)
  \/ \E p \in Pids : pgfault_reserved(p) \/ sys_pgfault(p) \/ pgfault_kill(p)
  \/ Idle

Next ==
  \/ NextNoRead
  \/ \E p \in Pids, va \in VAs \cup {RVA}, v \in Vals : sys_read(p, va, v)

Spec == Init /\ [][Next]_vars
SpecNoRead == Init /\ [][NextNoRead]_vars

-----------------------------------------------------------------------------
(* Properties.                                                             *)

TypeOK ==
  /\ pid_cur \in 0..MaxProcs
  /\ ps \in [Pids -> {"none", "run", "pgfault", "dead"}]
  /\ fva \in [Pids -> VAs \cup {RVA}]
  /\ pmap \in [Pids -> [VAs -> PTE]]
  /\ tables \in [Pids -> SUBSET Frames] /\ pages \in [Pids -> SUBSET Frames]
  /\ \A p \in Pids : DOMAIN upages[p] \subseteq Frames /\ \A f \in DOMAIN upages[p] : upages[p][f] \in UVA
  /\ mem \in [Frames -> Vals] /\ kmem \in Vals /\ panicked \in BOOLEAN

\* Live user PTE (p, va).
Mapped(p, va) == p \in Live /\ va \in UVA /\ Present(pmap[p][va])

\* A frame that two live processes map, or one maps twice, is writable in
\* none of those mappings: sys_fork's mk_cow downgrades every shared
\* writable page in both pmaps, and sys_pgfault gives the writer a private
\* frame before it sets PTE_W again.
SharedFramesReadOnly ==
  \A p, q \in Live, va, vb \in UVA :
    (<<p, va>> /= <<q, vb>> /\ Present(pmap[p][va]) /\ Present(pmap[q][vb])
       /\ pmap[p][va].frame = pmap[q][vb].frame)
      => ~pmap[p][va].w /\ ~pmap[q][vb].w

\* Every frame mapped in a live pmap, and every page-table frame, is held
\* in that process's pages map (so the garbage collector cannot hand it out
\* again while it is mapped), and upages maps each user frame back to the
\* page it is mapped at: the bookkeeping of page_insert, mk_cow and
\* sys_pgfault that the "not tracked" panics rely on.
MappedFramesTracked ==
  \A p \in Live :
    /\ tables[p] \subseteq pages[p]
    /\ \A va \in UVA : Present(pmap[p][va]) =>
         /\ pmap[p][va].frame \in pages[p]
         /\ pmap[p][va].frame \in DOMAIN upages[p]
         /\ upages[p][pmap[p][va].frame] = va

\* The user-visible memory of each live process, through its pmap.
View == [p \in Live |-> [va \in UVA |-> mem[pmap[p][va].frame]]]
Private == INSTANCE PrivateMemory WITH Pids <- Pids, UVA <- UVA, Writable <- Writable,
                                       Vals <- Vals, live <- Live, vm <- View,
                                       stopped <- {p \in Live : ps[p] = "pgfault"}
\* Fork, copy-on-write faults, stores, kills and exits implement private
\* memories: after fork both see the same pages, and later a store by
\* either changes only its own view, and resolving a copy-on-write fault
\* changes no view at all (spec section 8, fork page equivalence and COW
\* round-trip).
PrivateMemories == Private!Spec

\* Spec section 7: a user pointer that is not validly mapped for the user
\* gives EFAULT.  So read() (is_mapped, then fs_read through the direct
\* map) never stores into kernel memory, whatever buffer address a process
\* passes after whatever execs and forks: the kernel page keeps its value.
KernelMemoryIntact == kmem = 0

=============================================================================
