---------------------------- MODULE PrivateMemory ---------------------------
(***************************************************************************)
(* What fork with copy-on-write promises (spec section 8, "Fork page       *)
(* equivalence" and "COW round-trip"): every live process has a private    *)
(* memory; right after fork the child's memory equals the parent's, and    *)
(* from then on a store by one process changes only its own memory.        *)
(* Only pages mapped writable can be stored to, and a process stopped in   *)
(* a page fault stores nothing: resolving the fault must leave every       *)
(* memory as it was.  ProcVM implements this.                              *)
(***************************************************************************)
EXTENDS Naturals

CONSTANTS
  Pids,       \* process ids
  UVA,        \* user virtual pages
  Writable,   \* the pages mapped writable by the loader
  Vals        \* page contents

VARIABLES
  live,       \* processes that exist and are not dead
  stopped,    \* live processes stopped in a page fault
  vm          \* vm[p][va]: contents of page va as process p sees it

vars == <<live, stopped, vm>>

Init == live = {} /\ stopped = {} /\ vm = [p \in {} |-> [va \in UVA |-> 0]]

\* The first program is loaded with zeroed pages.
Load(p) ==
  /\ live = {} /\ p \notin DOMAIN vm
  /\ live' = {p}
  /\ vm' = [q \in {p} |-> [va \in UVA |-> 0]]
  /\ UNCHANGED stopped

\* A process stores v at a writable page of its own.
Store(p, va, v) ==
  /\ p \in live \ stopped /\ va \in Writable
  /\ vm' = [vm EXCEPT ![p][va] = v]
  /\ UNCHANGED <<live, stopped>>

\* A process stops on a fault, or resumes; no memory changes.
Stop(p) ==
  /\ p \in live \ stopped
  /\ stopped' = stopped \cup {p}
  /\ UNCHANGED <<live, vm>>
Resume(p) ==
  /\ p \in stopped
  /\ stopped' = stopped \ {p}
  /\ UNCHANGED <<live, vm>>

\* Fork: the child starts with a copy of the parent's memory.
Fork(p, c) ==
  /\ p \in live \ stopped /\ c \notin live
  /\ live' = live \cup {c}
  /\ vm' = [q \in live' |-> IF q = c THEN vm[p] ELSE vm[q]]
  /\ UNCHANGED stopped

\* A process exits or is killed.
Exit(p) ==
  /\ p \in live
  /\ live' = live \ {p}
  /\ stopped' = stopped \ {p}
  /\ vm' = [q \in live' |-> vm[q]]

Next ==
  \/ \E p \in Pids : Load(p) \/ Exit(p) \/ Stop(p) \/ Resume(p)
  \/ \E p \in Pids, va \in UVA, v \in Vals : Store(p, va, v)
  \/ \E p, c \in Pids : Fork(p, c)

Spec == Init /\ [][Next]_vars

=============================================================================
