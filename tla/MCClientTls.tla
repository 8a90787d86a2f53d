----------------------------- MODULE MCClientTls -----------------------------
(* ClientTls with its stages and payloads, for TLC. *)
EXTENDS ClientTls

const_Streaming == {"streaming", "tls_streaming"}
const_Payload   == Seq(Items)
const_MaxWrites == MaxData + 2
=============================================================================
