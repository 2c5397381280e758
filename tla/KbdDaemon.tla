------------------------------ MODULE KbdDaemon ------------------------------
(***************************************************************************)
(* The keyboard path of biscuit (biscuit/main.go): the 8042 controller's   *)
(* data port, the trap_kbd handlers that signal the daemon over the        *)
(* unbuffered channel kbd_int, kbd_daemon's select loop with its           *)
(* accumulator and its reqc variable (nil while the accumulator is         *)
(* empty), and kbd_get readers that send a count on reqc and receive the   *)
(* bytes on reader.  kbd_init's port read after irq_unmask is a step of    *)
(* its own, since the daemon and an early handler are already running.     *)
(*                                                                         *)
(* An unbuffered channel operation is a rendezvous: it is one step of      *)
(* both goroutines.  Goroutines blocked sending on a channel wait in FIFO  *)
(* order (the runtime's send queue), so the readers blocked on reqc form a *)
(* sequence.  The trap_kbd handlers all send the same value and are a      *)
(* count.  The path from the IRQ through trapstub and the dispatcher to    *)
(* `go trap_kbd` is TrapRing; here a key press spawns the handler.         *)
(*                                                                         *)
(* Each key press carries a number (a ghost tag that the code does not     *)
(* have), so that properties can tell bytes apart and see their order.     *)
(***************************************************************************)
EXTENDS Naturals, Sequences, SequencesExt

CONSTANTS
  Readers,    \* goroutines that may call kbd_get
  Counts,     \* cnt arguments of kbd_get (not negative)
  Scancodes,  \* scancodes the keyboard can produce
  km,         \* the scancode -> byte table of kbd_init (a partial map)
  MaxKeys     \* bound on the number of key presses

ASSUME \A c \in Counts : c >= 0

Bytes == {km[sc] : sc \in DOMAIN km}
KeyIds == 0..MaxKeys                   \* 0 tags a byte latched before boot
Key == [id : KeyIds, sc : Scancodes]
Elem == [id : KeyIds, c : Bytes]       \* one byte of the accumulator

VARIABLES
  port,       \* the 8042 data port: the last scancode it latched
  full,       \* status bit 0 (input buffer full): port not yet read
  typed,      \* key presses so far
  inited,     \* kbd_init has done its clearing read of port 0x60
  kbdsend,    \* trap_kbd goroutines blocked in cons.kbd_int <- true
  dpc,        \* kbd_daemon: "select", or "send" (in cons.reader <- data)
  data,       \* the accumulator
  reqon,      \* the daemon's reqc is cons.reqc (not nil)
  reqq,       \* readers blocked in cons.reqc <- cnt, oldest first
  rd,         \* rd[r]: reader state ("idle", "req", "wait") and its cnt
  delivered   \* every byte returned by kbd_get, in order (history)

vars == <<port, full, typed, inited, kbdsend, dpc, data, reqon, reqq, rd, delivered>>

\* kready: the status port says the data port holds a fresh scancode.
kready == full

\* The reqc rebinding at the bottom of the loop, for accumulator d.
\* Mutant: reqc is never set back to nil.
reqc_rebind_never_nil(d) == TRUE
reqc_rebind(d) == Len(d) > 0

\* At boot a key may already be latched; unmasking IRQ 1 then raises an
\* interrupt whose trap_kbd handler starts before kbd_init's port read.
Init ==
  /\ \E sc \in Scancodes :
       port = [id |-> 0, sc |-> sc]
  /\ full \in BOOLEAN
  /\ kbdsend = IF full THEN 1 ELSE 0
  /\ typed = 0
  /\ inited = FALSE
  /\ dpc = "select"
  /\ data = <<>>
  /\ reqon = FALSE                       \* var reqc chan int
  /\ reqq = <<>>
  /\ rd = [r \in Readers |-> [st |-> "idle", cnt |-> 0]]
  /\ delivered = <<>>

-----------------------------------------------------------------------------
(* The keyboard, kbd_init and trap_kbd.                                    *)

\* A key press latches its scancode once the port has been read; the
\* controller raises IRQ 1 and the dispatcher starts a trap_kbd handler.
KeyPress(sc) ==
  /\ typed < MaxKeys /\ ~full
  /\ typed' = typed + 1
  /\ port' = [id |-> typed + 1, sc |-> sc]
  /\ full' = TRUE
  /\ kbdsend' = kbdsend + 1
  /\ UNCHANGED <<inited, dpc, data, reqon, reqq, rd, delivered>>

\* kbd_init: runtime.Inb(0x60) "make sure kbd int is clear".
kbd_init_clear ==
  /\ ~inited
  /\ inited' = TRUE
  /\ full' = FALSE
  /\ UNCHANGED <<port, typed, kbdsend, dpc, data, reqon, reqq, rd, delivered>>

-----------------------------------------------------------------------------
(* kbd_daemon: one action per select case, each with the rebinding of reqc *)
(* that ends the loop body.                                                *)

\* Mutant: the scancode, not its byte, is appended.
kbd_append_sc(d, k) == Append(d, [id |-> k.id, c |-> k.sc])

\* c, ok := km[sc]; if ok { data = append(data, c) }
kbd_append(d, k) ==
  IF k.sc \in DOMAIN km THEN Append(d, [id |-> k.id, c |-> km[k.sc]]) ELSE d

\* Mutant: reqc is rebound only in the reqc case, not after a key.
RecvKbdInt_no_rebind ==
  /\ dpc = "select" /\ kbdsend > 0
  /\ kbdsend' = kbdsend - 1
  /\ IF ~kready
       THEN UNCHANGED <<full, data>>
       ELSE /\ full' = FALSE
            /\ data' = kbd_append(data, port)
  /\ UNCHANGED <<port, typed, inited, dpc, reqq, rd, delivered, reqon>>

\* case <- cons.kbd_int: a trap_kbd handler's send completes.  Without
\* kready the loop continues (reqc is not rebound); otherwise the daemon
\* reads port 0x60, which clears the status bit.
RecvKbdInt ==
  /\ dpc = "select" /\ kbdsend > 0
  /\ kbdsend' = kbdsend - 1
  /\ IF ~kready
       THEN UNCHANGED <<full, data, reqon>>
       ELSE /\ full' = FALSE
            /\ data' = kbd_append(data, port)
            /\ reqon' = reqc_rebind(data')
  /\ UNCHANGED <<port, typed, inited, dpc, reqq, rd, delivered>>

\* case l := <- reqc: only while reqc is not nil; the oldest blocked
\* reader's count is received and the accumulator cut to min(l, len).
RecvReq ==
  /\ dpc = "select" /\ reqon /\ reqq /= <<>>
  /\ LET r == Head(reqq)
         l == IF rd[r].cnt > Len(data) THEN Len(data) ELSE rd[r].cnt
     IN  /\ data' = SubSeq(data, 1, l)
         /\ rd' = [rd EXCEPT ![r].st = "wait"]
  /\ reqq' = Tail(reqq)
  /\ dpc' = "send"
  /\ UNCHANGED <<port, full, typed, inited, kbdsend, reqon, delivered>>

\* Mutant: the accumulator is not reset after the reply.
SendReply_no_reset(r) ==
  /\ dpc = "send" /\ rd[r].st = "wait"
  /\ rd' = [rd EXCEPT ![r].st = "idle"]
  /\ delivered' = delivered \o data
  /\ reqon' = reqc_rebind(data)
  /\ dpc' = "select"
  /\ UNCHANGED <<port, full, typed, inited, kbdsend, data, reqq>>

\* cons.reader <- data, received by the waiting reader; then
\* data = make([]byte, 0) and reqc is rebound (to nil).
SendReply(r) ==
  /\ dpc = "send" /\ rd[r].st = "wait"
  /\ rd' = [rd EXCEPT ![r].st = "idle"]
  /\ delivered' = delivered \o data
  /\ data' = <<>>
  /\ reqon' = reqc_rebind(<<>>)
  /\ dpc' = "select"
  /\ UNCHANGED <<port, full, typed, inited, kbdsend, reqq>>

-----------------------------------------------------------------------------
(* kbd_get.                                                                *)

\* cons.reqc <- cnt: the reader blocks until the daemon takes its count.
kbd_get(r, cnt) ==
  /\ rd[r].st = "idle"
  /\ rd' = [rd EXCEPT ![r] = [st |-> "req", cnt |-> cnt]]
  /\ reqq' = Append(reqq, r)
  /\ UNCHANGED <<port, full, typed, inited, kbdsend, dpc, data, reqon, delivered>>

Next ==
  \/ \E sc \in Scancodes : KeyPress(sc)
  \/ kbd_init_clear
  \/ RecvKbdInt
  \/ RecvReq
  \/ \E r \in Readers : SendReply(r)
  \/ \E r \in Readers, c \in Counts : kbd_get(r, c)

\* The daemon is a goroutine that is always runnable when a case is ready:
\* weak fairness for the reply and the request.  Go's select picks
\* uniformly among ready cases, so a kbd_int case that is ready again and
\* again is eventually taken: strong fairness.  kbd_init runs to its end.
\* Key presses and kbd_get calls are the environment's and not fair.
Fairness ==
  /\ WF_vars(kbd_init_clear)
  /\ SF_vars(RecvKbdInt)
  /\ WF_vars(RecvReq)
  /\ \A r \in Readers : WF_vars(SendReply(r))

Spec == Init /\ [][Next]_vars /\ Fairness

-----------------------------------------------------------------------------
(* Properties.                                                             *)

TypeOK ==
  /\ port \in Key /\ full \in BOOLEAN /\ inited \in BOOLEAN
  /\ typed \in 0..MaxKeys /\ kbdsend \in 0..(MaxKeys + 1)
  /\ dpc \in {"select", "send"}
  /\ data \in Seq(Elem) /\ delivered \in Seq(Elem)
  /\ reqon \in BOOLEAN
  /\ reqq \in Seq(Readers)
  /\ rd \in [Readers -> [st : {"idle", "req", "wait"}, cnt : Counts]]

\* Bytes reach kbd_get callers in the order their keys were pressed, and
\* none twice: across replies, across readers and across the accumulator
\* reset, the tags of everything delivered strictly increase.
DeliveredInOrder ==
  \A i, j \in DOMAIN delivered : i < j => delivered[i].id < delivered[j].id

\* The blocking-read contract (spec section 4.9, the comment on kbd_get):
\* a reply to kbd_get(cnt) holds at most cnt bytes, and at least one byte
\* whenever cnt is at least one, because reqc is nil while the
\* accumulator is empty.
ReplyWithinCount ==
  [][\A r \in Readers :
       (rd[r].st = "wait" /\ rd'[r].st = "idle")
         => /\ Len(data) <= rd[r].cnt
            /\ rd[r].cnt >= 1 => Len(data) >= 1]_vars

\* A reader first in line while the accumulator holds bytes returns from
\* kbd_get: the request case is enabled whenever data is non-empty and the
\* daemon keeps looping.
ReaderServed ==
  \A r \in Readers :
    (dpc = "select" /\ reqq /= <<>> /\ Head(reqq) = r /\ data /= <<>>)
      ~> rd[r].st = "idle"

=============================================================================
