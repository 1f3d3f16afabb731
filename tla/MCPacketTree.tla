---------------------------- MODULE MCPacketTree ----------------------------
(* Packets that share one or two bytes, one that is part of another, and one that *)
(* is only a header.                                                               *)
EXTENDS PacketTree

MCHeaders == {<<7>>, <<8>>}
MCSent    == {<<>>, <<1>>, <<1, 2, 3>>, <<1, 2, 4>>, <<1, 3>>}
MCAnswers == {<<9>>, <<9, 5>>}
=============================================================================
