---------------------------- MODULE ServerCipher -----------------------------
(***************************************************************************)
(* struct tunnel_cipher_ctx as the server uses it (ssr_executive.c, the    *)
(* server halves of tls1.2_ticket_auth and of the auth_* protocols), and   *)
(* the websocket framing that takes the plugins' place over TLS.           *)
(*                                                                         *)
(* The client's stream is a sequence of items; one read brings some        *)
(* complete items and possibly the beginning of the next (cut).            *)
(*   mode    "plain", "confirm" (an auth_* protocol), "ticket" (the        *)
(*           tls1.2_ticket_auth obfuscation), "both", or "tls"             *)
(*           (over_tls_enable, plugins origin and plain)                   *)
(*   status  of the obfuscation: "fresh", "hello" (accepted), "open"       *)
(*   header  has_recv_header of the protocol                               *)
(***************************************************************************)
EXTENDS Integers, Sequences

Item(kind, n) == [kind |-> kind, n |-> n]

Modes == {"plain", "confirm", "ticket", "both", "tls"}

HasObfs(c) == c.mode \in {"ticket", "both"}
HasAuth(c) == c.mode \in {"confirm", "both"}

tunnel_cipher_create(mode) == [mode |-> mode, status |-> "fresh", header |-> FALSE]

\* What the beginning of an item is good for: a plugin keeps it until the rest
\* comes, without one it is passed on like any other bytes.
Cut(c, cut) == IF cut /\ c.mode = "plain" THEN <<Item("part", 0)>> ELSE <<>>

\* tls12_ticket_auth_server_decode for a client that waits for the receipt: an
\* incomplete hello or finish yields nothing and asks for nothing.
tls12_ticket_auth_server_decode(c, items) ==
    CASE items = <<>> \/ c.status = "open" ->
            [ctx |-> c, out |-> items, need_feedback |-> FALSE]
      [] items # <<>> /\ c.status = "fresh" ->
            [ctx |-> [c EXCEPT !.status = "hello"], out |-> <<>>, need_feedback |-> TRUE]
      [] items # <<>> /\ c.status = "hello" ->
            [ctx |-> [c EXCEPT !.status = "open"], out |-> Tail(items),
             need_feedback |-> FALSE]

\* Mutant: every record answered as the first one is.
ConfirmAlways(c, items) ==
    [ctx |-> [c EXCEPT !.header = TRUE],
     out |-> IF items = <<>> \/ c.header THEN items ELSE Tail(items),
     feedback |-> items # <<>>]

\* server_post_decrypt of the auth_* protocols: the header that the first record
\* starts with is to be answered with an empty record.
auth_chain_a_server_post_decrypt(c, items) ==
    IF items = <<>> \/ c.header
    THEN [ctx |-> c, out |-> items, feedback |-> FALSE]
    ELSE [ctx |-> [c EXCEPT !.header = TRUE], out |-> Tail(items), feedback |-> TRUE]

\* tunnel_cipher_server_decrypt on input that authenticates.
tunnel_cipher_server_decrypt(c, items, cut) ==
    LET o == IF HasObfs(c) THEN tls12_ticket_auth_server_decode(c, items)
             ELSE [ctx |-> c, out |-> items, need_feedback |-> FALSE]
        p == IF HasAuth(c) /\ ~o.need_feedback
             THEN auth_chain_a_server_post_decrypt(o.ctx, o.out)
             ELSE [ctx |-> o.ctx, out |-> o.out, feedback |-> FALSE]
    IN  [ctx |-> p.ctx, out |-> p.out \o Cut(c, cut),
         obfs_receipt |-> o.need_feedback, proto_confirm |-> p.feedback]
=============================================================================
