---------------------------- MODULE MCKbdDaemon ----------------------------
(* Two readers, counts 0 to 2 and three key presses: enough for a reply   *)
(* cut short by its count, an empty accumulator with a reader waiting,   *)
(* and a key latched before kbd_init.  Scancode 2 is '1' and 16 is 'q' in *)
(* kbd_init's table; 0x82 (the release of '1') is not in the table.      *)
EXTENDS KbdDaemon, TLC

CONSTANTS r1, r2

MCReaders == {r1, r2}
MCScancodes == {2, 16, 130}
MCkm == (2 :> 49) @@ (16 :> 113)
=============================================================================
