---------------------------- MODULE PacketRouter ----------------------------
(***************************************************************************)
(* The "network" test that biscuit's main runs last (fake_work, main.go):  *)
(* genpackets sends packets on an unbuffered channel; process_packets      *)
(* receives each one and, through spawnsend, forwards it on the channel    *)
(* of its priority (ipaddr / 100), creating that channel and starting an   *)
(* ip_process goroutine on it the first time the priority is seen.         *)
(*                                                                         *)
(* Each channel made by spawnsend has exactly one receiver, the goroutine  *)
(* started on it, so a channel is named by the worker's number.  Packets   *)
(* carry a ghost sequence number; the payload is always 0 and is left out. *)
(***************************************************************************)
EXTENDS Naturals, Sequences, FiniteSets

CONSTANTS
  Addrs,     \* values rand.Intn(1000) may produce for ipaddr
  MaxPkts    \* bound on the packets genpackets makes

Workers == 1..MaxPkts                     \* at most one channel per packet
Packet == [id : 1..MaxPkts, ipaddr : Addrs]
NoPkt == [id |-> 0, ipaddr |-> 0]

p_priority(p) == p.ipaddr \div 100

VARIABLES
  gpc, gpkt, npkts,    \* genpackets: "gen" or "send" (ch <- n), n, count
  ppc, cur, ch,        \* process_packets: "recv", "spawnsend" or "send",
                       \* the packet p, and the channel it is sent on
  outbound,            \* the map from priority to channel (worker)
  nw,                  \* channels made so far
  wst, wpkt,           \* wst[w]: "none" (not started), "recv" or "proc"
  done                 \* packets in the order ip_process handled them

vars == <<gpc, gpkt, npkts, ppc, cur, ch, outbound, nw, wst, wpkt, done>>

Init ==
  /\ gpc = "gen" /\ gpkt = NoPkt /\ npkts = 0
  /\ ppc = "recv" /\ cur = NoPkt /\ ch = 0
  /\ outbound = <<>>                  \* make(map[int]chan packet)
  /\ nw = 0
  /\ wst = [w \in Workers |-> "none"]
  /\ wpkt = [w \in Workers |-> NoPkt]
  /\ done = <<>>

\* genpackets: n := packet{rand.Intn(1000), 0}
genpackets(a) ==
  /\ gpc = "gen" /\ npkts < MaxPkts
  /\ gpkt' = [id |-> npkts + 1, ipaddr |-> a]
  /\ npkts' = npkts + 1
  /\ gpc' = "send"
  /\ UNCHANGED <<ppc, cur, ch, outbound, nw, wst, wpkt, done>>

\* ch <- n in genpackets meets p := <- in in process_packets.
process_packets ==
  /\ gpc = "send" /\ ppc = "recv"
  /\ cur' = gpkt
  /\ gpc' = "gen" /\ ppc' = "spawnsend"
  /\ UNCHANGED <<gpkt, npkts, ch, outbound, nw, wst, wpkt, done>>

\* Mutant: the goroutine is never started on the new channel.
spawn_no_go(pri) ==
  /\ nw' = nw + 1
  /\ outbound' = [q \in DOMAIN outbound \cup {pri} |->
                    IF q = pri THEN nw + 1 ELSE outbound[q]]
  /\ UNCHANGED wst
  /\ ch' = nw + 1

\* The else branch of spawnsend: pch := make(chan packet);
\* outbound[pri] = pch; go f(pch).
spawn(pri) ==
  /\ nw' = nw + 1
  /\ outbound' = [q \in DOMAIN outbound \cup {pri} |->
                    IF q = pri THEN nw + 1 ELSE outbound[q]]
  /\ wst' = [wst EXCEPT ![nw + 1] = "recv"]
  /\ ch' = nw + 1

\* Mutant: the map is not consulted; every packet gets a new channel.
spawnsend_always_spawn ==
  /\ ppc = "spawnsend"
  /\ spawn(p_priority(cur))
  /\ ppc' = "send"
  /\ UNCHANGED <<gpc, gpkt, npkts, cur, wpkt, done>>

\* spawnsend up to its send: the channel of the packet's priority, made
\* (with its goroutine) if the map has none.
spawnsend ==
  /\ ppc = "spawnsend"
  /\ LET pri == p_priority(cur) IN
       IF pri \in DOMAIN outbound
         THEN /\ ch' = outbound[pri]
              /\ UNCHANGED <<outbound, nw, wst>>
         ELSE spawn(pri)
  /\ ppc' = "send"
  /\ UNCHANGED <<gpc, gpkt, npkts, cur, wpkt, done>>

\* ch <- p (or pch <- p) meets p := <- ipchan in the channel's goroutine.
send_outbound ==
  /\ ppc = "send" /\ wst[ch] = "recv"
  /\ wst' = [wst EXCEPT ![ch] = "proc"]
  /\ wpkt' = [wpkt EXCEPT ![ch] = cur]
  /\ ppc' = "recv"
  /\ UNCHANGED <<gpc, gpkt, npkts, cur, ch, outbound, nw, done>>

\* The body of ip_process's loop after the receive: the packet is handled
\* (its priority computed and, now and then, printed).
ip_process(w) ==
  /\ wst[w] = "proc"
  /\ done' = Append(done, wpkt[w])
  /\ wst' = [wst EXCEPT ![w] = "recv"]
  /\ UNCHANGED <<gpc, gpkt, npkts, ppc, cur, ch, outbound, nw, wpkt>>

Next ==
  \/ \E a \in Addrs : genpackets(a)
  \/ process_packets
  \/ spawnsend
  \/ send_outbound
  \/ \E w \in Workers : ip_process(w)

\* Every goroutine is runnable whenever its next step is enabled, and the
\* Go scheduler eventually runs each runnable goroutine.
Spec ==
  Init /\ [][Next]_vars
  /\ WF_vars(\E a \in Addrs : genpackets(a))
  /\ WF_vars(process_packets) /\ WF_vars(spawnsend) /\ WF_vars(send_outbound)
  /\ \A w \in Workers : WF_vars(ip_process(w))

-----------------------------------------------------------------------------
(* Properties.                                                             *)

\* Packets of one priority are handled in the order genpackets made them:
\* spawnsend keeps one channel, and so one ip_process goroutine, per
\* priority, and that goroutine handles a packet before it receives the
\* next.
PerPriorityOrder ==
  \A i, j \in DOMAIN done :
    (i < j /\ p_priority(done[i]) = p_priority(done[j])) => done[i].id < done[j].id

\* Every packet genpackets makes is eventually handled by an ip_process
\* goroutine: spawnsend's send always finds a started receiver.
EventuallyProcessed ==
  \A i \in 1..MaxPkts :
    npkts >= i ~> \E k \in DOMAIN done : done[k].id = i

=============================================================================
