---------------------------- MODULE ClientCipher -----------------------------
(***************************************************************************)
(* struct tunnel_cipher_ctx as the client uses it: ssr_executive.c and the *)
(* client half of the tls1.2_ticket_auth obfuscation.  What is encrypted   *)
(* is abstracted to the sequence of items it stands for; which items are   *)
(* held back, flushed or dropped, and when the peer is owed an answer, is  *)
(* kept.                                                                   *)
(*   mode    "plain": neither plugin waits for the server; "confirm": the  *)
(*           protocol plugin does (auth_chain_*, auth_aes128_*, auth_sha1_v4);  *)
(*           "ticket": the obfuscation does (tls1.2_ticket_auth)           *)
(*   status  the bits of handshake_status: 1 hello sent, 2 finish made,    *)
(*           4 handshake sent, 8 reply of the server verified              *)
(*   queued  data_sent_buffer                                              *)
(*   reply   how much of the server's first answer recv_buffer has seen;   *)
(*           "broken" once something in it did not authenticate            *)
(***************************************************************************)
EXTENDS Integers, Sequences

Item(kind, n) == [kind |-> kind, n |-> n]
Hello   == Item("hello", 0)
Finish  == Item("finish", 0)
Address == Item("address", 0)
Junk    == Item("junk", 0)

Modes == {"plain", "confirm", "ticket"}

tunnel_cipher_create(mode) ==
    [ mode |-> mode, status |-> {}, queued |-> <<>>,
      reply |-> IF mode = "plain" THEN "all" ELSE "none" ]

tunnel_cipher_client_need_feedback(c) == c.mode \in {"confirm", "ticket"}

\* Mutant: the records queued behind the finish are sent in front of it.
FinishLast(c, buf) ==
    LET queued == c.queued \o buf
        framed == IF 2 \in c.status THEN queued ELSE Append(queued, Finish)
    IN  CASE 4 \in c.status -> [ctx |-> c, out |-> buf]
          [] c.status = {}  -> [ctx |-> [c EXCEPT !.queued = queued, !.status = {1}],
                                out |-> <<Hello>>]
          [] c.status # {} /\ 4 \notin c.status /\ buf # <<>> ->
                [ctx |-> [c EXCEPT !.queued = framed, !.status = @ \cup {2}], out |-> <<>>]
          [] c.status # {} /\ 4 \notin c.status /\ buf = <<>> ->
                [ctx |-> [c EXCEPT !.queued = <<>>, !.status = @ \cup {2, 4}], out |-> framed]

\* The first call sends the hello and keeps the data; until the handshake is
\* sent data is only queued; a call without data flushes the queue.
tls12_ticket_auth_client_encode(c, buf) ==
    LET queued == c.queued \o buf
        framed == IF 2 \in c.status THEN queued ELSE <<Finish>> \o queued
        early  == c.status \cap {1, 2} = {}
    IN  CASE 4 \in c.status ->
                [ctx |-> c, out |-> buf]
          [] 4 \notin c.status /\ early ->
                [ctx |-> [c EXCEPT !.queued = queued, !.status = @ \cup {1}],
                 out |-> <<Hello>>]
          [] 4 \notin c.status /\ ~early /\ buf # <<>> ->
                [ctx |-> [c EXCEPT !.queued = framed, !.status = @ \cup {2}],
                 out |-> <<>>]
          [] 4 \notin c.status /\ ~early /\ buf = <<>> ->
                [ctx |-> [c EXCEPT !.queued = <<>>, !.status = @ \cup {2, 4}],
                 out |-> framed]

\* tunnel_cipher_client_encrypt when ss_encrypt succeeds.
tunnel_cipher_client_encrypt(c, buf) ==
    IF c.mode = "ticket" THEN tls12_ticket_auth_client_encode(c, buf)
                         ELSE [ctx |-> c, out |-> buf]

\* What one read delivers from the server: a part of its first answer (raw:
\* more of it than the fixed header, but not all its records), the rest or
\* the whole of it, and the data that follows; valid: it authenticates.
Segment(reply, raw, data, valid) ==
    [reply |-> reply, raw |-> raw, data |-> data, valid |-> valid]

\* tls12_ticket_auth_client_decode: a short header yields nothing, incomplete
\* records are passed on as if they were data, and the complete answer asks
\* for the handshake to be sent back.
tls12_ticket_auth_client_decode(c, seg) ==
    CASE 8 \in c.status ->
            [ctx |-> c, out |-> seg.data, needsendback |-> FALSE]
      [] 8 \notin c.status /\ seg.reply = "part" ->
            [ctx |-> [c EXCEPT !.reply = "part"],
             out |-> IF seg.raw THEN <<Junk>> ELSE <<>>, needsendback |-> FALSE]
      [] 8 \notin c.status /\ seg.reply = "all" ->
            [ctx |-> [c EXCEPT !.reply = "all", !.status = @ \cup {8}],
             out |-> seg.data, needsendback |-> TRUE]

\* feedback: what the caller has to send to the server, if has_feedback.
tunnel_cipher_client_decrypt(c, seg) ==
    LET dec  == tls12_ticket_auth_client_decode(c, seg)
        back == tls12_ticket_auth_client_encode(dec.ctx, <<>>)
    IN  CASE ~seg.valid ->
               [ok |-> FALSE, ctx |-> [c EXCEPT !.reply = "broken"], out |-> <<>>,
                has_feedback |-> FALSE, feedback |-> <<>>]
          [] seg.valid /\ c.mode # "ticket" ->
               [ok |-> TRUE, ctx |-> [c EXCEPT !.reply = seg.reply],
                out |-> seg.data, has_feedback |-> FALSE, feedback |-> <<>>]
          [] seg.valid /\ c.mode = "ticket" /\ ~dec.needsendback ->
               [ok |-> TRUE, ctx |-> dec.ctx, out |-> dec.out,
                has_feedback |-> FALSE, feedback |-> <<>>]
          [] seg.valid /\ c.mode = "ticket" /\ dec.needsendback ->
               [ok |-> TRUE, ctx |-> back.ctx, out |-> dec.out,
                has_feedback |-> TRUE, feedback |-> back.out]
=============================================================================
