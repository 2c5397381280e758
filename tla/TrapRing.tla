------------------------------ MODULE TrapRing ------------------------------
(***************************************************************************)
(* The trap-dispatch pipeline of biscuit/main.go: one circular buffer of   *)
(* trap records per CPU (cpu_t.trapstore, tshead, tstail), filled by the   *)
(* interrupt stub trapstub running in interrupt context on that CPU and    *)
(* drained by the single dispatcher goroutine trap(), which spawns one     *)
(* handler goroutine per record.                                           *)
(*                                                                         *)
(* Interrupt context runs with interrupts off: while the stub of CPU c is  *)
(* active, no goroutine runs on c.  A goroutine step (dispatcher or        *)
(* handler) therefore needs some CPU whose stub is idle.  With one CPU     *)
(* (the shipped configuration: cpus_start is commented out) the stub is    *)
(* atomic with respect to goroutines; with several CPUs its steps          *)
(* interleave with the dispatcher's.                                       *)
(***************************************************************************)
EXTENDS Naturals, Sequences, FiniteSets

CONSTANTS
  CPUs,       \* logical CPU numbers 0..numcpus-1
  Cap,        \* maxtstore, the number of slots of each ring
  Pids,       \* user process ids (0 is the kernel)
  UserTraps,  \* trap numbers a user process may raise itself
  Irqs,       \* device interrupts, a subset of {INT_KBD, INT_DISK}; they
              \* arrive in user and kernel (pid 0) context alike
  Ids         \* tags that tell records in flight apart (bounds them too)

ASSUME Cap >= 2 /\ CPUs = 0..(Cardinality(CPUs) - 1) /\ 0 \notin Pids

\* Trap numbers of main.go.
GPFAULT == 13
PGFAULT == 14
SYSCALL == 64
IRQ_BASE == 32
INT_KBD == IRQ_BASE + 1
INT_DISK == IRQ_BASE + 14
\* Keys of the handlers map built in main().
Handled == {GPFAULT, PGFAULT, SYSCALL, INT_DISK, INT_KBD}

Rec == [trapno : UserTraps \cup Irqs, pid : Pids \cup {0}, id : Ids]
\* The zero value of trapstore_t.
Zero == [trapno |-> 0, pid |-> 0, id |-> 0]

(* Data abstraction: a ring slot holds the id of the record last written   *)
(* to it (0 for the zero value); recOf gives the contents (trapno, pid) of *)
(* the record that currently carries each id.  The faulting address and   *)
(* the trap frame travel with the record and are not modelled.             *)

VARIABLES
  trapstore,  \* trapstore[c][i]: id of the record in slot i of CPU c's ring
  recOf,      \* recOf[id]: the record that carries id
  tshead,     \* producer index, written only by the stub of c
  tstail,     \* consumer index, written only by the dispatcher
  stub,       \* interrupt-context state of each CPU
  disp,       \* the dispatcher goroutine: sweep position and locals
  handlers,   \* records whose handler goroutine is running
  blocked,    \* pids suspended by Procyield, waiting for their handler
  dead,       \* pids killed by their handler
  panicked    \* a goroutine panicked: the kernel has stopped

vars == <<trapstore, recOf, tshead, tstail, stub, disp, handlers, blocked, dead, panicked>>

\* A CPU not in interrupt context (the stub's locals are gone).
StubIdle == [pc |-> "idle", rec |-> Zero, h |-> 0]

\* Mutant: the wrap-around modulo maxtstore forgotten.
tsnext_no_wrap(x) == x + 1
tsnext(x) == (x + 1) % Cap

RecAt(id) == IF id = 0 THEN Zero ELSE recOf[id]

\* Records in the ring between tail and head, oldest first.
Published(c) ==
  LET n == (tshead[c] - tstail[c] + Cap) % Cap
  IN  [i \in 1..n |-> RecAt(trapstore[c][(tstail[c] + i - 1) % Cap])]

\* Ids carried by a record that is somewhere in the pipeline.
InFlightIds ==
  { stub[c].rec.id : c \in CPUs }
  \cup UNION { {Published(c)[i].id : i \in DOMAIN Published(c)} : c \in CPUs }
  \cup { disp.rec.id } \cup { r.id : r \in handlers }

\* Pids currently executing the stub on some CPU.
InStub == { stub[c].rec.pid : c \in {d \in CPUs : stub[d].pc /= "idle"} } \ {0}

\* A goroutine may run: the kernel is alive and some CPU is not in
\* interrupt context.
TaskCPU == ~panicked /\ \E c \in CPUs : stub[c].pc = "idle"

Init ==
  /\ trapstore = [c \in CPUs |-> [i \in 0..Cap - 1 |-> 0]]
  /\ recOf = [i \in Ids |-> Zero]
  /\ tshead = [c \in CPUs |-> 0]
  /\ tstail = [c \in CPUs |-> 0]
  /\ stub = [c \in CPUs |-> StubIdle]
  /\ disp = [pc |-> "scan", cpu |-> 0, t |-> 0, rec |-> Zero]
  /\ handlers = {}
  /\ blocked = {}
  /\ dead = {}
  /\ panicked = FALSE

-----------------------------------------------------------------------------
(* trapstub, interrupt context of CPU c.                                   *)

\* Mutant: the full test dropped, so the stub may fill the last free slot
\* and make head catch up with tail.
trapstub_no_full_check(c, trapno, pid) ==
  /\ ~panicked
  /\ stub[c].pc = "idle"
  /\ \/ pid = 0 /\ trapno \in Irqs
     \/ pid \in Pids \ (blocked \cup dead \cup InStub) /\ trapno \in UserTraps \cup Irqs
  /\ Ids \ InFlightIds /= {}
  /\ LET id == CHOOSE i \in Ids \ InFlightIds : TRUE
         r  == [trapno |-> trapno, pid |-> pid, id |-> id]
     IN /\ stub' = [stub EXCEPT ![c] =
                      [pc  |-> "fill",
                       rec |-> r, h |-> tshead[c]]]
        /\ recOf' = [recOf EXCEPT ![id] = r]
  /\ UNCHANGED <<trapstore, tshead, tstail, disp, handlers, blocked, dead, panicked>>

\* Entry: read head and tail; a full ring spins forever (0xbad).  A user
\* pid enters only while it runs, i.e. is neither suspended, dead, nor
\* already trapping on another CPU.
trapstub(c, trapno, pid) ==
  /\ ~panicked
  /\ stub[c].pc = "idle"
  /\ \/ pid = 0 /\ trapno \in Irqs
     \/ pid \in Pids \ (blocked \cup dead \cup InStub) /\ trapno \in UserTraps \cup Irqs
  /\ Ids \ InFlightIds /= {}
  /\ LET id == CHOOSE i \in Ids \ InFlightIds : TRUE
         r  == [trapno |-> trapno, pid |-> pid, id |-> id]
     IN /\ stub' = [stub EXCEPT ![c] =
                      [pc  |-> IF tsnext(tshead[c]) = tstail[c] THEN "spin" ELSE "fill",
                       rec |-> r, h |-> tshead[c]]]
        /\ recOf' = [recOf EXCEPT ![id] = r]
  /\ UNCHANGED <<trapstore, tshead, tstail, disp, handlers, blocked, dead, panicked>>

\* Copy the trap frame into trapstore[head].
StubFill(c) ==
  /\ stub[c].pc = "fill"
  /\ trapstore' = [trapstore EXCEPT ![c][stub[c].h] = stub[c].rec.id]
  /\ stub' = [stub EXCEPT ![c].pc = "publish"]
  /\ UNCHANGED <<recOf, tshead, tstail, disp, handlers, blocked, dead, panicked>>

\* Commit: advance head, then yield (syscall, page fault), continue (device
\* interrupts) or spin (any other trap, 0xbadbabe).
StubPublish(c) ==
  /\ stub[c].pc = "publish"
  /\ tshead' = [tshead EXCEPT ![c] = tsnext(stub[c].h)]
  /\ stub' = [stub EXCEPT ![c] =
               CASE stub[c].rec.trapno \in {SYSCALL, PGFAULT}  -> [@ EXCEPT !.pc = "yield"]
                 [] stub[c].rec.trapno \in {INT_DISK, INT_KBD} -> StubIdle
                 [] OTHER                                      -> [@ EXCEPT !.pc = "spin"]]
  /\ UNCHANGED <<recOf, trapstore, tstail, disp, handlers, blocked, dead, panicked>>

\* runtime.Procyield: the user task is suspended until its handler is done.
StubYield(c) ==
  /\ stub[c].pc = "yield"
  /\ blocked' = blocked \cup {stub[c].rec.pid}
  /\ stub' = [stub EXCEPT ![c] = StubIdle]
  /\ UNCHANGED <<recOf, trapstore, tshead, tstail, disp, handlers, dead, panicked>>

-----------------------------------------------------------------------------
(* trap(handlers), the dispatcher goroutine.                               *)

\* Mutant: the sweep bound stays at the boot CPU (numcpus = 1), so the
\* rings of the other CPUs are never looked at.
NextCPU_boot_only(c) == 0
\* The sweep `for cpu := 0; cpu < numcpus; cpu += 1`, restarted after
\* runtime.Gosched.
NextCPU(c) == (c + 1) % Cardinality(CPUs)

\* Mutant: the `tail == head` test dropped.
DispScan_no_empty_test ==
  /\ TaskCPU
  /\ disp.pc = "scan"
  /\ disp' = [disp EXCEPT !.pc = "copy", !.t = tstail[disp.cpu]]
  /\ UNCHANGED <<recOf, trapstore, tshead, tstail, stub, handlers, blocked, dead, panicked>>

\* Read head and tail of the current CPU; an empty ring moves the sweep on
\* (after the last CPU, runtime.Gosched, which changes nothing here).
DispScan ==
  /\ TaskCPU
  /\ disp.pc = "scan"
  /\ IF tstail[disp.cpu] = tshead[disp.cpu]
       THEN disp' = [disp EXCEPT !.cpu = NextCPU(@)]
       ELSE disp' = [disp EXCEPT !.pc = "copy", !.t = tstail[disp.cpu]]
  /\ UNCHANGED <<recOf, trapstore, tshead, tstail, stub, handlers, blocked, dead, panicked>>

\* tcur = cpus[cpu].trapstore[tail], a copy by value.
DispCopy ==
  /\ TaskCPU
  /\ disp.pc = "copy"
  /\ disp' = [disp EXCEPT !.pc = "advance", !.rec = RecAt(trapstore[disp.cpu][disp.t])]
  /\ UNCHANGED <<recOf, trapstore, tshead, tstail, stub, handlers, blocked, dead, panicked>>

\* Mutant: the new tail is computed but never stored in cpus[cpu].tstail.
DispAdvance_tail_not_stored ==
  /\ TaskCPU
  /\ disp.pc = "advance"
  /\ IF disp.rec.trapno \in Handled
       THEN handlers' = handlers \cup {disp.rec} /\ UNCHANGED panicked
       ELSE panicked' = TRUE /\ UNCHANGED handlers
  /\ disp' = [pc |-> "scan", cpu |-> NextCPU(disp.cpu), t |-> 0, rec |-> Zero]
  /\ UNCHANGED <<recOf, trapstore, tshead, tstail, stub, blocked, dead>>

\* Advance tail, then spawn the handler, or panic on an unknown trap.
DispAdvance ==
  /\ TaskCPU
  /\ disp.pc = "advance"
  /\ tstail' = [tstail EXCEPT ![disp.cpu] = tsnext(disp.t)]
  /\ IF disp.rec.trapno \in Handled
       THEN handlers' = handlers \cup {disp.rec} /\ UNCHANGED panicked
       ELSE panicked' = TRUE /\ UNCHANGED handlers
  /\ disp' = [pc |-> "scan", cpu |-> NextCPU(disp.cpu), t |-> 0, rec |-> Zero]
  /\ UNCHANGED <<recOf, trapstore, tshead, stub, blocked, dead>>

-----------------------------------------------------------------------------
(* The handler goroutines.  Their effect on the process (modelled in       *)
(* ProcVM) is abstracted to its outcome: the process is marked runnable    *)
(* (runtime.Procrunnable) or killed (proc_kill).                           *)

\* trap_syscall / trap_pgfault: resume or kill the trapping process.
HandlerProc(r) ==
  /\ TaskCPU
  /\ r \in handlers /\ r.trapno \in {SYSCALL, PGFAULT}
  /\ handlers' = handlers \ {r}
  /\ blocked' = blocked \ {r.pid}
  /\ \E killed \in BOOLEAN : dead' = IF killed THEN dead \cup {r.pid} ELSE dead
  /\ UNCHANGED <<recOf, trapstore, tshead, tstail, stub, disp, panicked>>

\* trap_kbd / trap_disk: signal the device daemon's channel.
HandlerIrq(r) ==
  /\ TaskCPU
  /\ r \in handlers /\ r.trapno \in {INT_KBD, INT_DISK}
  /\ handlers' = handlers \ {r}
  /\ UNCHANGED <<recOf, trapstore, tshead, tstail, stub, disp, blocked, dead, panicked>>

\* trap_diex(GPFAULT): panic("perished").
HandlerDie(r) ==
  /\ TaskCPU
  /\ r \in handlers /\ r.trapno = GPFAULT
  /\ panicked' = TRUE
  /\ handlers' = handlers \ {r}
  /\ UNCHANGED <<recOf, trapstore, tshead, tstail, stub, disp, blocked, dead>>

\* A CPU spinning in `for {}` (full ring, unknown trap) or a panicked
\* kernel makes no progress; the step changes nothing.
Spin ==
  /\ (panicked \/ \E c \in CPUs : stub[c].pc = "spin")
  /\ UNCHANGED vars

Next ==
  \/ \E c \in CPUs, t \in UserTraps \cup Irqs, p \in Pids \cup {0} :
       trapstub(c, t, p)
  \/ \E c \in CPUs : StubFill(c) \/ StubPublish(c) \/ StubYield(c)
  \/ DispScan \/ DispCopy \/ DispAdvance
  \/ \E r \in handlers : HandlerProc(r) \/ HandlerIrq(r) \/ HandlerDie(r)
  \/ Spin

\* The stub runs to completion with interrupts off, and the dispatcher
\* goroutine is always runnable (it only yields with Gosched).
Fairness ==
  /\ \A c \in CPUs : WF_vars(StubFill(c)) /\ WF_vars(StubPublish(c)) /\ WF_vars(StubYield(c))
  /\ WF_vars(DispScan) /\ WF_vars(DispCopy) /\ WF_vars(DispAdvance)

Spec == Init /\ [][Next]_vars /\ Fairness

-----------------------------------------------------------------------------
(* Properties.                                                             *)

TypeOK ==
  /\ trapstore \in [CPUs -> [0..Cap - 1 -> Ids \cup {0}]]
  /\ recOf \in [Ids -> Rec \cup {Zero}]
  /\ tshead \in [CPUs -> 0..Cap - 1] /\ tstail \in [CPUs -> 0..Cap - 1]
  /\ stub \in [CPUs -> [pc : {"idle", "fill", "publish", "yield", "spin"},
                         rec : Rec \cup {Zero}, h : 0..Cap - 1]]
  /\ disp \in [pc : {"scan", "copy", "advance"}, cpu : CPUs, t : 0..Cap - 1,
               rec : Rec \cup {Zero}]
  /\ handlers \subseteq Rec
  /\ blocked \subseteq Pids /\ dead \subseteq Pids /\ panicked \in BOOLEAN

\* The dispatcher never copies a slot that the stub of the same CPU is about
\* to write or has written but not yet published (trapstub lines 93-107
\* against trap() lines 193-208): the single-producer/single-consumer
\* discipline of tshead and tstail keeps the two apart.
NoSlotRace ==
  disp.pc = "copy" =>
    ~(stub[disp.cpu].pc \in {"fill", "publish"} /\ stub[disp.cpu].h = disp.t)

\* The ring with its two indices implements a bounded FIFO per CPU whose
\* records each reach exactly one handler, in the order the stub of that
\* CPU produced them (spec section 8, "Ring FIFO").
Queue == INSTANCE TrapQueue WITH q <- [c \in CPUs |-> Published(c)],
                                 spawned <- handlers, Recs <- Rec
QueueRefined == Queue!Spec

\* Every published record is eventually taken off its ring, unless every
\* CPU spins in the stub or the kernel has panicked.
Halted == panicked \/ \A c \in CPUs : stub[c].pc = "spin"
EventuallyDispatched ==
  \A c \in CPUs, i \in Ids :
    (i \in {Published(c)[k].id : k \in DOMAIN Published(c)})
      ~> (Halted \/ i \notin {Published(c)[k].id : k \in DOMAIN Published(c)})

=============================================================================
