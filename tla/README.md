# TLA+ models of the biscuit kernel

This directory holds TLA+ models of the kernel in `src/biscuit` (`main.go`,
`pmap.go`, `syscall.go`), and the TLC configurations that check them.
`PROJECT.json` lists:

- every component and whether it is modelled;
- every run and its expected outcome;
- the mutants that show each checked property can fail;
- the source lines behind each definition;
- the findings;
- the hazards of the code.

## The system

The kernel runs on top of a modified Go runtime. Three execution worlds meet
in it.

1. **Interrupt context.** The trap vector calls `trapstub`
   (main.go 68-123) with interrupts off, on the CPU that took the trap. It
   must not touch the Go scheduler. It does these steps in order:
   - it appends a record (trap number, pid, trap frame, CR2) to that CPU's
     ring `cpus[lid].trapstore`, which has `maxtstore = 64` slots and the
     indices `tshead` and `tstail`;
   - it publishes the record by storing `tshead`;
   - for `SYSCALL` and `PGFAULT` it calls `runtime.Procyield` to suspend the
     user task, and for the keyboard and disk IRQs it calls
     `runtime.Proccontinue`;
   - for any other trap, or when the ring is full, it spins forever.
2. **Kernel goroutines.** There are three of them:
   - `trap()` (main.go 189-219) is the only consumer of every ring. It sweeps
     CPUs `0..numcpus-1`, copies the record at `tstail`, advances `tstail`,
     and starts `go handler(&copy)`. It panics on a trap number that has no
     handler.
   - The handlers are `trap_syscall` (which goes to `syscall()` and the
     `sys_*` functions), `trap_pgfault`, `trap_kbd`, `trap_disk` and
     `trap_diex`.
   - The keyboard daemon and the IDE driver talk to handlers through
     channels.
3. **User processes.** Each process has a `proc_t`:
   - `pages` maps a physical address to a frame. It is the only Go reference
     that keeps the frame alive, because PTEs are plain integers.
   - `upages` maps a physical address to a user virtual address.
   - It also has a 4-level `pmap`, an fd table and a `dead` flag.

   A user page fault on a `PTE_COW` page is resolved by `sys_pgfault`.
   `fork` deep-copies the pmap with `copy_pmap(mk_cow, ...)`.

The shipped configuration is uniprocessor: `cpus_start()` is commented out
in `main()`. On one CPU, the stub runs atomically with respect to every
goroutine. With several CPUs, the stub on one CPU runs concurrently with the
dispatcher and the handlers on the others.

## Inventory

| Component | Source | State | Operations | Hard behaviour | Module |
|---|---|---|---|---|---|
| Trap ring and dispatcher | main.go 11-38, 68-128, 189-224, 256-282, 801-825 | `trapstore`, `tshead`, `tstail` per CPU; the dispatcher's sweep; running handlers | `trapstub`; `trap`; handlers; `tsnext` | SPSC ring without locks; full ring; stub and dispatcher on different CPUs; yield and resume order | `TrapRing` refines `TrapQueue` |
| Processes and address spaces | main.go 301-448, pmap.go 76-94 and 155-304, syscall.go 102-143 and 283-355, 454-582 | `allprocs`, `pid_cur`, `pages`, `upages`, `pmap`, `dead`, frame contents | `proc_new`, `sys_execv`/`elf_load`, `sys_fork`/`copy_pmap`/`mk_cow`, `trap_pgfault`/`sys_pgfault`/`page_insert`, `sys_read` stores, `sys_exit`/`proc_kill`, `pg_new` and GC | COW sharing; bookkeeping panics; GC reuse of frames; user pointers into kernel or reserved slots | `ProcVM` refines `PrivateMemory` |
| Fd table and syscalls | main.go 301-312, 368-377; syscall.go 64-282 | `fds`, `nextfd`, the shared `fd_stdout` record, offsets | `open`, `read`, `write`, `mkdir`, `link`, `unlink`, `getpid`, dispatcher | shared sentinel fds; offset read before and updated after a blocking fs call; error paths; the dead test of the finaliser | `FdTable` |
| User-memory helpers | pmap.go 294-331; syscall.go 115-134, 157-190 | none (pure) | `is_mapped`, `is_mapped_str`, scatter-list building | page-boundary arithmetic, `lenmax` edge | `UserCopy` |
| Keyboard daemon | main.go 125-186, 227-255 | accumulator, `reqc` enabled, channels | IRQ signal, reader request, `kbd_get` | unbuffered channels, select with a nil channel, bytes dropped | `KbdDaemon` |
| Packet demo (`fake_work`) | main.go 942-995 | `outbound` map, channels | generate, route, process | goroutine per priority, started lazily | `PacketRouter` |
| Program loading | syscall.go 376-491, 560-579; main.go 379-406 | none (pure) | `npheaders`, `header`, `headers`, `entry`, `elf_load`, `elf_segload`, `page_insert` with `vempty` | range tests at the end of the image; unaligned segments; pages shared by segments | `ElfLoad` |
| MP bring-up, PIC, direct map, IDE/fs | main.go 450-800, pmap.go 28-153 | hardware | I/O | none a model checker reaches | not modelled |
| Go toolchain files | src/src/... | | | | not modelled: not part of the kernel |

## Modules

### `TrapQueue` (abstract)

This is spec section 5 ("for a given CPU the trap ring is FIFO") stated
directly. Each CPU has a bounded FIFO `q[c]` of at most `Cap - 1` records.
`Dequeue` moves the head record into `spawned`, the set of running handlers.
`Finish` removes a record from `spawned`.

### `TrapRing`

This module models the ring and its control flow step by step. Its
variables map to the code as follows:

| Variable | Code |
|---|---|
| `trapstore` | `trapstore[c][i]`; a slot holds the id of the record written to it |
| `recOf` | the contents (trap number and pid) of the record carrying each id |
| `tshead`, `tstail` | the ring indices |
| `stub[c]` | the stub's program counter (`idle`, `fill`, `publish`, `yield`, `spin`), its record, and the head it read |
| `disp` | the dispatcher's program counter (`scan`, `copy`, `advance`), current CPU, tail and copied record |
| `handlers` | running handler goroutines |
| `blocked` | pids suspended by `Procyield` |
| `dead` | killed pids |
| `panicked` | the kernel has panicked |

Each action covers these lines:

| Action | Lines |
|---|---|
| `trapstub` | 88-96: read head and tail, full test, spin |
| `StubFill` | 97-103 |
| `StubPublish` | 105-122: store head, then the switch |
| `StubYield` | 110-112 |
| `DispScan` | 190-199 |
| `DispCopy` | 201-205 |
| `DispAdvance` | 207-218 |
| `HandlerProc` | the outcome of `trap_syscall`/`trap_pgfault`: `Procrunnable`, or `proc_kill` |
| `HandlerIrq` | `trap_kbd`/`trap_disk` |
| `HandlerDie` | `trap_diex` |

A goroutine step needs a CPU whose stub is idle (`TaskCPU`), because
interrupt context excludes every goroutine on its CPU. The kernel-fault path
(pid 0 with a trap below `IRQ_BASE`) is not generated. The kernel itself
raises only IRQs.

**Fairness.** The stub steps are weakly fair, because they run with
interrupts off and always complete. The three dispatcher steps are weakly
fair, because `trap()` never blocks and yields only through `Gosched`.
Handlers get no fairness: a handler may block on the filesystem or a channel
for ever.

**GPFAULT.** A user trap other than `SYSCALL`, `PGFAULT` or an IRQ reaches
the `default` case of the stub's switch (main.go 117-121), which spins
after publishing the record; its handler `trap_diex` panics. The
uniprocessor run raises `GPFAULT` so that both paths are taken.

### `PrivateMemory` (abstract)

This is what fork with copy-on-write promises (spec section 8: fork page
equivalence and COW round-trip):

- every live process has its own memory;
- `Fork` copies the parent's memory;
- `Store` changes one page of one process, and only a writable page;
- a process stopped in a page fault stores nothing, so resolving the fault
  changes no memory.

### `ProcVM`

This module covers processes and their address spaces. Each piece of code
is modelled this way:

| Code | Model |
|---|---|
| A pmap | a function from virtual page to PTE `[frame, w, u, cow]`; the inner tables are kept only as the frames they occupy (`tables`) |
| `pages`, `upages` | the tracking maps, as in the code |
| `mem` | the contents of each frame |
| `Free` | the frames that no live process's `pages` holds, which the GC may hand out again |
| `pg_new` | returns the lowest free frames |

The virtual pages are:

- `UVA`: user pages; the pages in `Writable` are mapped `PTE_W`;
- `KVA`: one kernel page that is present without `PTE_U` in every pmap;
- `RVA`: one page whose top-level index lies in `VREC..VEND`.

The actions are:

- `sys_execv`: `proc_new`, the stack page, `copy_pmap(nil, kpmap())`,
  `page_insert` and `elf_load`.
- `UserStore` and `UserFault`: the MMU, not kernel code.
- `sys_fork`: `proc_new`, `copy_pmap` with `mk_cow`, and the child's
  tracking maps.
- The `trap_pgfault` cases:
  - `pgfault_reserved`: `pmap_walk` panics;
  - `sys_pgfault`: copy the page, then `page_insert`;
  - `pgfault_kill`.
- `sys_read`: the memory effect of a successful read, checked by
  `is_mapped`.
- `sys_exit`: `proc_kill`.

A trap and its handler are one step here; `TrapRing` models the path
between them.

### `UserCopy`

How a syscall reaches user memory. Everything here is a pure function of a
page table `pm` (virtual page to frame, or `NoFrame`) and of physical
memory `pmem`, written as operators:

| Operator | Code |
|---|---|
| `is_mapped` | pmap.go 294-304: every page from `rounddown(va)` to `roundup(va+size)` present |
| `vtop`, `dmap8` | the `vtop` closure of `sys_read`/`sys_write` and pmap.go 142-147 |
| `scatter`, `ScatterFrom` | the loop of syscall.go 121-134 (and 180-190 for write): a nil slice, then one slice per page, the last trimmed |
| `is_mapped_str` | pmap.go 309-331: chunk by chunk to a NUL, adding `va & PGOFFSET` to each chunk's frame, `lenmax` tested after each chunk |

`Init` chooses every page table, every memory and every argument, and
nothing changes afterwards. The invariants compare the operators with
reference definitions: `BufAddrs` (the physical address of each byte of
the buffer), `ListAddrs` (the addresses a scatter list covers, flattened
with `FlattenSeq`) and `IsCStrLen` (the C string at a user address).

### `FdTable`

The syscall layer: `syscall()` with its finaliser, the descriptor tables
and every handler, over several processes whose handlers run concurrently.

| Variable | Code |
|---|---|
| `pid_cur`, `dead`, `fds`, `nextfd` | the fields and globals of the same name |
| `offset[o]` | `fd_t.offset` of a per-open record or of `fd_stdin`/`fd_stdout`/`fd_stderr`; perms and file are only passed to the file system and are left out |
| `st[p]` | the runtime's view of the pid: running user code, suspended in a handler waiting for the file system, or abandoned by `Prockill` |
| `call[p]` | the read or write waiting in `fs_read`/`fs_write`, with the offset it was given |
| `rax[p]` | `tf[TF_RAX]` |

A handler can only be suspended in the file system, so each handler is
one step (validation in code order, then the result and the finaliser
`syscall_ret`), except read and write on a file: `sys_read`/`sys_write`
pass the offset to the file system and `FsDone` later applies
`fd.offset += ret` and the finaliser. Writes to `fd_stdout`/`fd_stderr` go
to the console wrapper, which does not block. Per-open records freed with
their process may be reused (`InUse`), as the Go collector would. The
file system is outside the repository: its results (an errno, or a byte
count no larger than `sz` and the file) are inputs. So are the outcomes of
`is_mapped`/`is_mapped_str`, which `UserCopy` checks.

The model has no fairness: the file system may never answer.

### `KbdDaemon`

The keyboard path, from the 8042 controller to `kbd_get`. An unbuffered
channel operation is one step shared by the two goroutines it joins.

| Variable | Code |
|---|---|
| `port`, `full` | the 8042 data port (0x60) and bit 0 of its status port (0x64); reading the data port clears the bit |
| `kbdsend` | `trap_kbd` goroutines blocked in `cons.kbd_int <- true` |
| `inited` | `kbd_init` has done its clearing `Inb(0x60)` |
| `dpc`, `data`, `reqon` | `kbd_daemon`: in its `select` or in `cons.reader <- data`; the accumulator; `reqc` is `cons.reqc` rather than `nil` |
| `reqq` | readers blocked in `cons.reqc <- cnt`, in the runtime's FIFO send order |
| `rd[r]` | a reader: idle, sending its count, or receiving on `cons.reader` |
| `delivered` | history: every byte returned by `kbd_get`, in order |

Every key press carries a tag, so that properties can tell bytes apart.
`KeyPress` latches a scancode and starts a `trap_kbd` goroutine; the path
through the ring is `TrapRing`. `RecvKbdInt` is the `kbd_int` case: if
`kready` is false the loop continues, otherwise the scancode is read,
looked up in `km` and appended, and `reqc` is rebound. `RecvReq` is the
`reqc` case up to its send: `l` is clamped and `data` cut. `SendReply` is
the send, the reset and the rebinding. `kbd_get` is the reader's send of
its count. At boot a key may already be latched, with its handler on its
way before `kbd_init`'s clearing read (`kbd_init_clear`).

**Fairness.** The daemon's steps are weakly fair: it is a goroutine that
never blocks elsewhere. `RecvKbdInt` is strongly fair, because Go's
`select` picks uniformly among ready cases. Key presses and `kbd_get` calls
are the environment's and are not fair.

### `PacketRouter`

`fake_work`, which `main` runs last. `genpackets` makes a packet with
`rand.Intn(1000)` as its address (a choice over `Addrs`) and sends it on an
unbuffered channel. `process_packets` receives it, and `spawnsend` looks up
the channel of its priority (`ipaddr / 100`), or makes one, records it in
`outbound` and starts `ip_process` on it (`spawn`), then sends the packet
(`send_outbound`). A channel made by `spawnsend` has exactly one receiver,
so a channel is named by its worker's number. `ip_process(w)` is the work
a worker does between two receives. Every goroutine's steps are weakly
fair, since the Go scheduler runs every runnable goroutine.

### `ElfLoad`

`sys_execv` reads the whole file into a byte slice and loads it:
`npheaders`, `header` and `headers` parse the ELF image (syscall.go
391-447), `entry` reads `e_entry`, and `elf_load` maps each `PT_LOAD`
segment at or above `USERMIN` with `elf_segload` (454-491). The stack page
is inserted first (560-579). Everything is a pure function of the image,
as in `UserCopy`. `Init` chooses a table of one or two program headers
(type, `PF_W`, vaddr, filesz, bss size, file offset). `Image` lays the
table out with the code's header offsets and field widths, followed by
distinct non-zero data bytes. `PGSIZE` is 4, `USERMIN` is 8 and the stack
page is 20, so that pages stay small. A user page is a record of its `W`
bit and its bytes.

| Operator | Code |
|---|---|
| `readn` | syscall.go 376-382; an index past the slice is the runtime's panic (`InRange`) |
| `npheaders` | 391-398: the magic test, then `e_phnum` |
| `header` | 400-438: the fields at `hoff + c*hsz + w`, the `weird off` and `weird filesz` tests, `sdata` |
| `headers`, `headers_from` | 440-447 |
| `segload_loop`, `elf_segload` | 454-480: `sz` from the rounded range; per page a zeroed frame, the `Memmove` of `min(PGSIZE, rsz - i)` bytes to the frame's start when `i < len(sdata)`, and `page_insert` |
| `page_insert` | main.go 379-406 with `vempty`: a present PTE panics |
| `elf_load_from`, `sys_execv` | 483-491 and 560-579 |

The reference comes from spec section 4.7. A well-formed image
(`WellFormed`) keeps every segment inside the file and gives no two
loadable segments, nor a segment and the stack, a common page. For such an
image the pages are those of the segments plus the stack, `W` is set
exactly for `PF_W`, and the byte at `vaddr + k` is file byte `off + k` for
`k < filesz` and zero elsewhere (`ByteAt`).

## Runs

| Run | Result | What it shows |
|---|---|---|
| `trap_uni` | pass, about 99k states | On one CPU, with syscalls, `GPFAULT`s and keyboard interrupts and rings of three slots, `TrapRing` refines `TrapQueue` (`QueueRefined`), and the dispatcher never copies a slot the stub is writing (`NoSlotRace`). |
| `trap_smp` | pass, about 315k states, 2.5 minutes | On two CPUs, with rings of three slots that hold two records, `NoSlotRace` and `QueueRefined` still hold across the wrap of both indices, and every published record is eventually taken off its ring unless the kernel halted (`EventuallyDispatched`, under the fairness above). Only keyboard interrupts are raised (in kernel and user context): a user task blocks after one syscall and could not fill a ring, and with user traps the state space is out of reach. |
| `vm` | pass, about 672k states | With three processes over execv, stores, faults, fork, COW faults, kills and exit: a frame mapped twice is writable in neither mapping (`SharedFramesReadOnly`); every mapped frame and table frame is held in `pages`, and `upages` maps it back to its page (`MappedFramesTracked`), which is why the "not tracked" panics of `mk_cow` and `page_insert` cannot fire; and `ProcVM` refines `PrivateMemory` (`PrivateMemories`). read() is left out: it changes no pmap or tracking map, and its effect on memory is the next two runs. |
| `vm_read_cow` | violation of `PrivateMemories` | The trace is execv, fork, then read() into the COW-shared stack page. The child's read changes the parent's memory, because `sys_read` stores through physical addresses after checking only `PTE_P`. |
| `vm_kmem` | violation of `KernelMemoryIntact` | `KernelMemoryIntact` says read() never stores into kernel memory. TLC's trace is execv, then a read() whose buffer is the kernel page, present without `PTE_U` in every pmap: `is_mapped` accepts it because it tests only `PTE_P` (pmap.go 299). |
| `uc_scatter` | pass, 2,880 states | For every page table of three 3-byte pages and every buffer of 1 to 5 bytes, `is_mapped` accepts exactly the buffers whose bytes are all mapped (`IsMappedExact`). For those, the scatter list covers the buffer's physical bytes once and in order (`ScatterCoversBuffer`). |
| `uc_str_cross` | violation of `StrCopyCorrect` | `StrCopyCorrect` says an accepted path is the C string at the pointer and is shorter than `lenmax`. With `lenmax` 9, more than two pages hold, only the first half can fail. TLC's counterexample: `1` at the last byte of page 0 and `1 0` at the start of page 1 (on frame 1). The second chunk is read at the first page's offset (pmap.go 318), i.e. at the last byte of frame 1, which is a NUL, and one byte comes back instead of two. |
| `elf_eof` | violation of `ElfLoadCorrect` | `ElfLoadCorrect` says execv of a well-formed image does not panic and maps the segments as spec section 4.7 lays them out. With page-aligned vaddrs only, TLC's counterexample is a single header whose 5 bytes end exactly at the end of the file. `header` tests `off + filesz >= len(d)` (syscall.go 433) and panics, even though `elf_load` would skip that segment because it lies below `USERMIN`. |
| `elf_unaligned` | violation of `ElfLoadCorrect` | With seven data bytes, so that no segment reaches the end of the file, TLC's counterexample is a `PT_LOAD` of 3 bytes at vaddr 10. `elf_segload` copies them to the start of the page at 8 (syscall.go 470), so every byte lands two bytes low. With the copy placed at `vaddr % PGSIZE` and the end test made `>`, a copy of the module passes both configurations (9,312 and 20,880 images), so these two defects are the only ones in this bounded model. |
| `fd_table` | pass, about 639k states | With two processes, their handlers interleaving at the file system, every syscall path, error paths included, keeps tables, offsets, return values and process states within their types (`TypeOK`). The run is there for the model's coverage of the syscall layer; what it reaches beyond that is in the observations. |
| `kbd` | pass, about 115k states | With two readers, counts 0 to 2 and three key presses (plus one latched at boot): bytes reach readers in key order and never twice (`DeliveredInOrder`); a reply to `kbd_get(cnt)` has at most `cnt` bytes, and at least one when `cnt >= 1` (`ReplyWithinCount`); a reader first in line while bytes are buffered returns (`ReaderServed`). |
| `router` | pass, about 2.9k states | With four packets over priorities 0 and 1, each priority's packets are handled in the order they were made (`PerPriorityOrder`), and every packet is eventually handled (`EventuallyProcessed`). |

Every property of a passing run has a mutant in `PROJECT.json`. A mutant is
an operator defined just before the definition it replaces, and TLC finds
the property violated when it is swapped in. Examples: the stub without its
full test, a dispatcher that ignores an empty ring, `mk_cow` that keeps
`PTE_W`, a `page_insert` that forgets `upages`, a COW copy that leaves
the new frame zeroed, `is_mapped` rounding the end down, a scatter loop
that forgets the offset `c`, and a daemon that forgets to reset its
accumulator after a reply.

### Observations without a run

More disagreements turned up while modelling. Each is recorded here and
no run checks it; the number of runs is kept to one per question.

- `sys_read` and `sys_write` start the scatter list with
  `make([][]uint8, 1)`. A buffer inside one page reaches the file system
  as two slices, a nil one and the data (syscall.go 126 and 182). Spec
  scenario 1 says one slice.
- `trapstub` publishes the record (main.go 105) before it calls
  `runtime.Procyield` (main.go 110). With `TrapRing` on two CPUs, user
  syscalls and rings of two slots, TLC finds the dispatcher and the
  handler on CPU 1 running `Procrunnable` for the process before CPU 0's
  stub has yielded it. Spec section 5 does not say what the runtime does
  then, and the shipped single-CPU configuration cannot reach it.
- `sys_write` runs `fd.offset += ret` for the console wrapper too
  (syscall.go 198). So a `write(1, buf, 1)` advances the offset of the
  global `fd_stdout` shared by every process, whereas spec scenario 3 says
  it stays put. `FdTable` reaches it (`offset[fd_stdout]` becomes 1); the
  offset is never read back, since the wrapper ignores it.
- `kbd_get(0)` gets an empty reply and the daemon then discards the whole
  accumulator (main.go 162-167), against the comment "blocking for at
  least 1 byte". Likewise a reply cut short by `cnt` drops the rest of the
  buffered bytes. `KbdDaemon` reaches both; `ReplyWithinCount` allows them,
  because the code means them.
- A key latched before `kbd_init`'s `Inb(0x60)` (main.go 254) is read away
  by it. Its `trap_kbd` handler then finds `kready` false and the key is
  lost. `KbdDaemon` reaches this from an `Init` with a latched key.
- `cpus_find` (main.go 549) runs `idx += 20` before it reads `lapid`
  and `cpuf` at `idx+1` and `idx+3`. So it reads the fields of the next
  entry. A table whose last entry is a processor entry makes it index
  past the slice, which is a runtime panic. A pure model of the loop over
  every sorted table of up to three entries found this, with a table of
  one processor entry as the first counterexample. Reading at the entry's
  own offset made all 81 tables pass. `cpus_find` is reached only from
  `cpus_start`, which `main()` does not call, so no run of this project
  checks it.
- `pmap_walk` panics on an address whose top-level index lies in
  `VREC..VEND` (pmap.go 159-160), and `is_mapped` and `trap_pgfault`
  call it with addresses a process chooses. `ProcVM` reaches the panic
  with a read() or a fault at `RVA`; spec section 7 says faults caused by
  user input are handled locally.
- `is_mapped_str` tests `lenmax` only after a chunk without a NUL
  (pmap.go 326-328). With `NAME_MAX = 3`, `1 1 1 0` in one page is
  accepted as a 3-byte name; this is the first counterexample of
  `StrCopyCorrect` when `LenMax` is 3 instead of 9.
- The sentinel records `fd_stdin`, `fd_stdout` and `fd_stderr` are in
  every process's table. `sys_read` passes `fd.offset` to `fs_read`,
  blocks, then adds what was read (syscall.go 137-141). `FdTable` reaches
  a read of `fd_stdout` suspended with offset 0 while another process's
  write moves the same record to 1; the read's update then builds on the
  stale value. Per-open records are
  private to a process, which has one syscall at a time, so there the
  offset cannot go stale.
- `pg_new` records page-table frames in `proc.pages` (pmap.go 91), which
  never enter `upages`. Spec invariant 1 ("a frame is in `pages` exactly
  when it is in `upages`") fails from the first `execv`.

## Bounds

| Model | Bounds | Why they are enough |
|---|---|---|
| `TrapRing`, one CPU | `Cap = 3` | The ring fills after two records, so the full test and the wrap of both indices happen. |
| | three ids | Two records in the ring and a third in the stub. |
| | one pid | Two pids add nothing: a pid has at most one record in flight, and IRQ records carry pid 0. |
| | traps `SYSCALL`, `GPFAULT`, `INT_KBD` | `PGFAULT` and `INT_DISK` take the same paths. |
| `TrapRing`, two CPUs | `Cap = 3`, two ids, `INT_KBD` only | A ring holds two records, so the full test, the wrap of both indices and a stub on one CPU writing while the dispatcher reads the other's ring all happen. |
| `ProcVM` | `MaxProcs = 3` | Three processes give fork of a fork: a frame shared by three pmaps, and a COW fault while others still share. |
| | 13 frames | Enough for execv (3 tables + 2 pages) and two forks with faults. A lack of frames stops `pg_new` in the model; in the code the Go heap grows instead. |
| | two user pages (text and stack), contents `{0,1}` | |
| `UserCopy` | pages of 3 bytes, 3 pages, 3 frames, sizes 1-5 | Buffers start at every offset and cross zero, one or two boundaries; page tables include absent pages, two pages on one frame, and frames out of order. |
| | pages of 4 bytes, 2 pages, bytes `{0,1}`, `NAME_MAX = 9` | Strings start at every offset, with a NUL or not in each position, and may cross the boundary. |
| `KbdDaemon` | two readers, counts `{0,1,2}`, three key presses, scancodes 2 and 16 (mapped) and 0x82 (a key release, not mapped) | A reply cut by its count, a zero count, a second reader queued behind the first, a handler that finds no data, and an unmapped scancode all happen. A third reader only lengthens `reqq`. |
| `PacketRouter` | four packets, addresses 50, 120 and 180 | Two priorities, one of them with several packets, so a second packet reaches a busy worker while the other worker runs. |
| `FdTable` | two processes, descriptors up to 3, two records, offsets 0..1, sizes `{0,1}` | One open per process, a fork, concurrent waits on the file system, exit with the other still running, and reuse of a freed record. A third process or a second open repeats the same interleavings on more records. |
| `ElfLoad` | one or two headers; vaddr 4 (below `USERMIN`), 8 and, in `elf_unaligned`, 10; filesz 0, 3 and 5; bss 0 and 2; file offsets 0 and 1 into 6 data bytes (7 in `elf_unaligned`) | These give segments that are skipped, aligned and unaligned; empty, one page and two pages long; with bss; ending before or exactly at the end of the file; two segments sharing a page; and `PF_W` set or not. |

## Not modelled, and why

- **MP bring-up, PIC, LAPIC, direct map setup, IDE and the filesystem.**
  These are hardware and port I/O, or code outside this repository
  (`fs_*`, `ide_*`, and `mpentry.bin`, the AP trampoline that increments
  `ss[sapcnt]`). `cpus_start` is commented out in `main()`, so none of MP
  bring-up runs in the shipped kernel. For `cpus_find`, see the observations. The checksums
  of `mp_tblget` and the 48-bit address arithmetic of the direct map are
  also left out; TLC's integers are 32-bit. The filesystem is an input to the syscall models: each call
  either succeeds or returns an error.
- **TLB contents.** The comment in `sys_fork` relies on the runtime
  reloading CR3, which happens outside this repository.
- **The Go toolchain files under `src/src`.** They are not part of the
  kernel.

## Plan

Done first, because the rest depends on them:

- the trap pipeline (`TrapRing` refining `TrapQueue`);
- the VM with fork, COW and read() (`ProcVM` refining `PrivateMemory`).

Also done: `UserCopy` (buffer checks, scatter lists and path copies),
`FdTable` (the syscall layer and the descriptor tables), `KbdDaemon` (the
keyboard daemon and its readers), `PacketRouter` (`fake_work`) and
`ElfLoad` (program loading in `sys_execv`).

Next: a composed model joining `TrapRing` and `ProcVM`, in which the
handlers of `TrapRing` are the `ProcVM` actions.
