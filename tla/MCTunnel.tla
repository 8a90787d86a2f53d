------------------------------ MODULE MCTunnel -------------------------------
(* Tunnel with one handshake stage, one streaming stage and one payload. *)
EXTENDS Tunnel

const_Stages    == {"handshake", "streaming"}
const_Streaming == {"streaming"}
=============================================================================
