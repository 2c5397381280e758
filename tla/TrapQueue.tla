------------------------------ MODULE TrapQueue -----------------------------
(***************************************************************************)
(* What the trap pipeline of biscuit/main.go promises (spec section 5,     *)
(* "Ordering guarantees"): for each CPU a bounded FIFO of trap records;    *)
(* the dispatcher takes the oldest record of a CPU and hands it, exactly   *)
(* once, to a running handler.  The ring holds at most Cap - 1 records.    *)
(* TrapRing implements this specification.                                 *)
(***************************************************************************)
EXTENDS Naturals, Sequences

CONSTANTS CPUs, Cap, Recs

VARIABLES
  q,        \* q[c]: records raised on CPU c and not yet dispatched
  spawned   \* records whose handler is running

Init ==
  /\ q = [c \in CPUs |-> <<>>]
  /\ spawned = {}

\* The stub of c records a trap.
Enqueue(c, r) ==
  /\ Len(q[c]) < Cap - 1
  /\ q' = [q EXCEPT ![c] = Append(@, r)]
  /\ UNCHANGED spawned

\* The dispatcher hands the oldest record of c to a new handler.
Dequeue(c) ==
  /\ q[c] /= <<>>
  /\ q' = [q EXCEPT ![c] = Tail(@)]
  /\ spawned' = spawned \cup {Head(q[c])}

\* A handler finishes.
Finish(r) ==
  /\ r \in spawned
  /\ spawned' = spawned \ {r}
  /\ UNCHANGED q

Next ==
  \/ \E c \in CPUs, r \in Recs : Enqueue(c, r)
  \/ \E c \in CPUs : Dequeue(c)
  \/ \E r \in spawned : Finish(r)

Spec == Init /\ [][Next]_<<q, spawned>>

=============================================================================
