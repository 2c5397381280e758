--------------------------- MODULE MCPacketRouter ---------------------------
(* Four packets over three addresses, two of them of priority 1: enough   *)
(* for a second packet of a priority to reach its channel while the       *)
(* first is still being handled, and for two workers to run at once.      *)
EXTENDS PacketRouter

MCAddrs == {50, 120, 180}
=============================================================================
