------------------------- MODULE MCPacketProcessor -------------------------
(***************************************************************************)
(* Instances of PacketProcessor for TLC: a time request with a payload and *)
(* a packet without one.                                                   *)
(***************************************************************************)
EXTENDS PacketProcessor

Bytes0to5 == 0..5
ClockPackets == {[topic |-> <<3>>, payload |-> <<4>>], [topic |-> <<3>>, payload |-> << >>]}
=============================================================================
