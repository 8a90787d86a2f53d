---------------------------- MODULE MCUdpSession -----------------------------
(* Two pairs; NULL, which is 0, is not one. *)
EXTENDS UdpSession

const_Pairs == 1 .. 2
=============================================================================
