----------------------------- MODULE MCClientSsr -----------------------------
(* ClientSsr with its stages and payloads, for TLC. *)
EXTENDS ClientSsr

const_Streaming == {"streaming"}
const_Payload   == Seq(Items)
const_MaxWrites == MaxData + 2
=============================================================================
