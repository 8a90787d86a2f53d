--------------------------- MODULE MCServerTunnel ----------------------------
(* ServerTunnel with its stages and payloads, for TLC. *)
EXTENDS ServerTunnel

const_Streaming == {"streaming", "udp_streaming"}
const_Payload   == Seq(Items)
const_MaxWrites == 2 * MaxData + 2
=============================================================================
