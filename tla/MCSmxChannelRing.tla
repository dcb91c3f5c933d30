--------------------------- MODULE MCSmxChannelRing ---------------------------
(* SmxChannelRing with the channels of MCSmxChannel.                       *)
EXTENDS SmxChannelRing, MCSmxChannel
=============================================================================
