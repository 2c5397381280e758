----------------------------- MODULE MCTrapRing -----------------------------
(* Instantiation of TrapRing for TLC.                                      *)
EXTENDS TrapRing

\* Records that may be in flight at once: enough to fill a ring of Cap = 3
\* (two records) with one more pending in a stub.
MCIds == 1..3
\* Traps a user task raises itself (PGFAULT follows the same path as
\* SYSCALL through the ring, GPFAULT the path of every other trap).
MCUserTraps == {SYSCALL, GPFAULT}
\* One device interrupt: trap_disk and trap_kbd take the same path.
MCIrqs == {INT_KBD}

\* For two CPUs, two records in flight: enough to put two records in one
\* ring of Cap = 3, or one in each.
MCIdsSmp == 1..2
\* No user traps: device interrupts alone keep the rings filling.
MCNoUserTraps == {}
=============================================================================
