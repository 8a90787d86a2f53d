----------------------------- MODULE ClientSsr -------------------------------
(***************************************************************************)
(* The owner of a tunnel in the client when over_tls_enable is off:        *)
(* tunnel_ssr_dispatcher of src/shadowsocksr-native/src/client/client.c    *)
(* and the handlers of its stages, on top of tunnel.c (module Tunnel) and  *)
(* of the cipher context (module ClientCipher).                            *)
(*                                                                         *)
(* The record t has one more field, data: struct client_ctx, and what the  *)
(* properties need to know of the bytes that moved.                        *)
(*   shortcut  round_trip_saving_shortcut                                  *)
(*   first     first_client_pkg                                            *)
(*   cipher    the cipher context                                          *)
(*   app, srv  how many packets of the application and of the server have  *)
(*             been read (history)                                         *)
(*   sent      what has been written to each side (history)                *)
(*   bad       the ASSERTs of client.c that failed; the model goes on as a *)
(*             release build does                                          *)
(* The application, the server and the network are the environment.  What  *)
(* a SOCKS message parses to, whether an address is accessible, and        *)
(* whether encryption succeeds are choices.                                *)
(***************************************************************************)
EXTENDS Tunnel, ClientCipher

CONSTANTS
    CipherModes,   \* the configurations of the plugins, a subset of Modes
    MaxData        \* bound of the model on packets read from either side

ASSUME CipherModesAssumption == CipherModes \subseteq Modes
ASSUME MaxDataAssumption == MaxData \in Nat \ {0}

tunnel_stage ==
    { "handshake", "handshake_replied", "s5_request_from_client_app",
      "s5_udp_accoc", "s5_response_done", "client_first_pkg",
      "resolve_ssr_server_host_done", "connect_ssr_server_done",
      "ssr_auth_sent", "ssr_server_feedback_arrived",
      "ssr_receipt_to_server_sent", "auth_completion_done",
      "streaming", "kill" }

AppData(n) == Item("app", n)
SrvData(n) == Item("srv", n)
Reply(what) == Item(what, 0)

\* tunnel_ssr_is_in_streaming and, over TLS, tunnel_tls_is_in_streaming, each
\* name one stage, which no tunnel of the other kind enters.
ASSUME ClientStagesAssumption ==
    /\ tunnel_stage \subseteq Stages
    /\ StreamingStages \cap tunnel_stage = {"streaming"}
    /\ FirstStage = "handshake"

Other(s) == IF s = "incoming" THEN "outgoing" ELSE "incoming"

-----------------------------------------------------------------------------
(* Steps that the handlers share. *)

\* init_done_cb: a client_ctx for a new tunnel.
init_done_cb(u, mode) ==
    [ sock |-> u.sock, ref |-> u.ref, is_terminated |-> u.is_terminated,
      freed |-> u.freed, stage |-> u.stage, held |-> u.held, bad |-> u.bad,
      data |-> [ shortcut |-> FALSE, first |-> <<>>,
                 cipher |-> tunnel_cipher_create(mode), app |-> 0, srv |-> 0,
                 sent |-> [s \in Side |-> <<>>], bad |-> {} ] ]

ClientAssert(u, cond, what) ==
    IF cond THEN u ELSE [u EXCEPT !.data.bad = @ \cup {what}]

GoTo(u, stage) == [u EXCEPT !.stage = stage]

Write(u, s, buf) ==
    [tunnel_socket_ctx_write(u, s, buf) EXCEPT !.data.sent[s] = @ \o buf]

\* Mutant of AckRead: rdstate left as it is.
AckReadKeeps(u, s) == ClientAssert(u, u.sock[s].rdstate = "done", "rdstate")

\* The dispatcher acknowledges what the callback delivered.
AckRead(u, s) ==
    ClientAssert(Put(u, s, [u.sock[s] EXCEPT !.rdstate = "stop"]),
                 u.sock[s].rdstate = "done", "rdstate")
AckWrite(u, s) ==
    ClientAssert(Put(u, s, [u.sock[s] EXCEPT !.wrstate = "stop"]),
                 u.sock[s].wrstate = "done", "wrstate")

\* The assertions most handlers start with.
Idle(u, sides) ==
    ClientAssert(u, \A s \in sides : /\ u.sock[s].rdstate = "stop"
                                     /\ u.sock[s].wrstate = "stop", "idle")

-----------------------------------------------------------------------------
(* The environment: what a read can deliver. *)

\* The application's next packet.
NextApp(u) == {AppData(n) : n \in {u.data.app + 1} \cap (1 .. MaxData)}

\* The server relays data of its target once it has the address.
NextSrv(u) ==
    {SrvData(n) : n \in {m \in {u.data.srv + 1} \cap (1 .. MaxData) :
                            \E i \in DOMAIN u.data.sent["outgoing"] :
                               u.data.sent["outgoing"][i] = Address}}

\* TCP may cut the server's first answer in two, and may deliver it together
\* with the data that follows it; what the server sends may be wrong, and after
\* that nothing authenticates any more.
NextSegments(u) ==
    LET reply == u.data.cipher.reply
    IN  {Segment(reply, FALSE, <<>>, FALSE)}
        \cup {Segment("part", raw, <<>>, TRUE) : raw \in {b \in BOOLEAN : reply = "none"}}
        \cup {Segment("all", FALSE, <<>>, TRUE) : r \in {reply} \cap {"none", "part"}}
        \cup {Segment("all", FALSE, <<d>>, TRUE) :
                 d \in {e \in NextSrv(u) : reply # "broken"}}

-----------------------------------------------------------------------------
(* The handlers.  One with several outcomes yields the set of them. *)

do_socks5_reply_success(u) ==
    GoTo(Write(Idle(u, Side), "incoming", <<Reply("success")>>), "s5_response_done")

\* The greeting is malformed, incomplete or has an unusable request behind it;
\* offers no usable method; or is good, possibly with the request and the
\* first data behind it.
do_s5_handshake(u) ==
    LET a == Idle(u, {"incoming"})
        Accept(v) == GoTo(Write(v, "incoming", <<Reply("method")>>), "handshake_replied")
    IN  {tunnel_shutdown(a),
         GoTo(Write(a, "incoming", <<Reply("no_method")>>), "kill"),
         Accept(a)}
        \cup {Accept([a EXCEPT !.data.shortcut = TRUE, !.data.first = f,
                               !.data.app = Len(f)]) : f \in {<<>>, <<AppData(1)>>}}

\* Mutant: the request awaited without the idle timer.
WaitWithoutTimer(u) ==
    GoTo(Read(Idle(u, {"incoming"}), "incoming", FALSE), "s5_request_from_client_app")

do_wait_client_app_s5_request(u) ==
    GoTo(Read(Idle(u, {"incoming"}), "incoming", TRUE), "s5_request_from_client_app")

\* The request is unusable, a UDP ASSOCIATE or a CONNECT.
do_parse_s5_request_from_client_app(u) ==
    LET a == Idle(u, Side)
    IN  {tunnel_shutdown(a),
         GoTo(Write(a, "incoming", <<Reply("assoc")>>), "s5_udp_accoc"),
         do_socks5_reply_success(a)}

\* can_access refuses (release builds, loopback), uv_tcp_connect fails at once
\* or is in progress.
do_connect_ssr_server(u) ==
    LET a == Idle(u, Side)
    IN  {GoTo(Write(a, "incoming", <<Reply("not_allowed")>>), "kill"),
         tunnel_shutdown(a),
         GoTo(Connect(a, "outgoing"), "connect_ssr_server_done")}

\* remote_host is a name to look up, or an address.
do_common_connet_remote_server(u) ==
    {GoTo(Getaddrinfo(u, "outgoing"), "resolve_ssr_server_host_done")}
    \cup do_connect_ssr_server(u)

do_resolve_ssr_server_host_aftercare(u) == do_connect_ssr_server(Idle(u, Side))

do_ssr_send_auth_package_to_server(u) ==
    LET a == Idle(u, Side)
        e == tunnel_cipher_client_encrypt(a.data.cipher, <<Address>>)
    IN  {tunnel_shutdown(a),
         GoTo(Write([a EXCEPT !.data.cipher = e.ctx], "outgoing", e.out),
              "ssr_auth_sent")}

\* Mutant: first_client_pkg reset before it is used.
LaunchAfterReset(u) ==
    LET a == [Idle(u, Side) EXCEPT !.data.first = <<>>]
        e == tunnel_cipher_client_encrypt(a.data.cipher, a.data.first)
        b == Write([a EXCEPT !.data.cipher = e.ctx], "outgoing", e.out)
    IN  {tunnel_shutdown(a),
         GoTo(Read(Read(b, "incoming", FALSE), "outgoing", TRUE), "streaming")}

do_launch_streaming(u) ==
    LET a == [Idle(u, Side) EXCEPT !.data.first = <<>>]
        e == tunnel_cipher_client_encrypt(a.data.cipher, u.data.first)
        b == Write([a EXCEPT !.data.cipher = e.ctx], "outgoing", e.out)
    IN  {tunnel_shutdown(a),
         GoTo(Read(Read(b, "incoming", FALSE), "outgoing", TRUE), "streaming")}

\* Enters the dispatcher again, in its stage auth_completion_done.
do_action_after_auth_server_success(u) ==
    do_launch_streaming(Idle(GoTo(u, "auth_completion_done"), Side))

do_ssr_waiting_server_feedback(u) ==
    LET a == Idle(u, Side)
    IN  IF tunnel_cipher_client_need_feedback(a.data.cipher)
        THEN {GoTo(Read(a, "outgoing", TRUE), "ssr_server_feedback_arrived")}
        ELSE do_action_after_auth_server_success(a)

\* One read of the server's answer.  The result of the decryption is only
\* asserted: what is not feedback is dropped.
do_ssr_receipt_for_feedback(u, seg) ==
    LET a == Idle(u, Side)
        r == tunnel_cipher_client_decrypt(a.data.cipher, seg)
        b == [a EXCEPT !.data.cipher = r.ctx, !.data.srv = @ + Len(seg.data)]
        c == ClientAssert(b, r.ok, "decode")
        d == ClientAssert(c, r.out = <<>>, "feedback_data")
    IN  IF r.has_feedback
        THEN {GoTo(Write(d, "outgoing", r.feedback), "ssr_receipt_to_server_sent")}
        ELSE do_action_after_auth_server_success(d)

\* tunnel_extract_data on what was read from socket s, and the relaying of it.
\* Feedback that comes up here is asserted away and dropped.
RelayUp(u) ==
    {tunnel_shutdown([u EXCEPT !.data.app = @ + 1]) : p \in NextApp(u)}
    \cup {LET e == tunnel_cipher_client_encrypt(u.data.cipher, <<p>>)
          IN  Write([u EXCEPT !.data.cipher = e.ctx, !.data.app = @ + 1],
                    "outgoing", e.out) : p \in NextApp(u)}

\* Mutant of RelayDown: data dropped while an earlier write is in progress.
RelayDownIfWritable(u) ==
    {LET r == tunnel_cipher_client_decrypt(u.data.cipher, seg)
         a == [u EXCEPT !.data.cipher = r.ctx, !.data.srv = @ + Len(seg.data)]
     IN  IF ~r.ok THEN tunnel_shutdown(a)
         ELSE IF a.sock["incoming"].wrstate = "stop" THEN Write(a, "incoming", r.out)
         ELSE a
        : seg \in NextSegments(u)}

RelayDown(u) ==
    {LET r == tunnel_cipher_client_decrypt(u.data.cipher, seg)
         a == [u EXCEPT !.data.cipher = r.ctx, !.data.srv = @ + Len(seg.data)]
         b == ClientAssert(a, ~r.has_feedback, "late_feedback")
     IN  IF r.ok THEN Write(b, "incoming", r.out) ELSE tunnel_shutdown(b)
        : seg \in NextSegments(u)}

tunnel_ssr_client_streaming(u, s) ==
    IF u.sock[s].wrstate = "done"
    THEN {Put(u, s, [u.sock[s] EXCEPT !.wrstate = "stop"])}
    ELSE IF s = "incoming" THEN RelayUp(AckRead(u, s)) ELSE RelayDown(AckRead(u, s))

tunnel_ssr_dispatcher(u, s) ==
    CASE u.stage = "handshake" ->
            do_s5_handshake(AckRead(u, "incoming"))
      [] u.stage = "handshake_replied" ->
            LET a == AckWrite(u, "incoming")
            IN  {IF u.data.shortcut THEN do_socks5_reply_success(a)
                                    ELSE do_wait_client_app_s5_request(a)}
      [] u.stage = "s5_request_from_client_app" ->
            do_parse_s5_request_from_client_app(AckRead(u, "incoming"))
      [] u.stage = "s5_udp_accoc" ->
            {tunnel_shutdown(AckWrite(u, "incoming"))}
      [] u.stage = "s5_response_done" ->
            LET a == AckWrite(u, "incoming")
            IN  IF u.data.first # <<>>
                THEN do_common_connet_remote_server(a)
                ELSE {GoTo(Read(a, "incoming", TRUE), "client_first_pkg")}
      [] u.stage = "client_first_pkg" ->
            UNION {do_common_connet_remote_server(
                      [AckRead(u, "incoming") EXCEPT !.data.first = <<p>>,
                                                     !.data.app = @ + 1])
                   : p \in NextApp(u)}
      [] u.stage = "resolve_ssr_server_host_done" ->
            do_resolve_ssr_server_host_aftercare(u)
      [] u.stage = "connect_ssr_server_done" ->
            do_ssr_send_auth_package_to_server(u)
      [] u.stage = "ssr_auth_sent" ->
            do_ssr_waiting_server_feedback(AckWrite(u, "outgoing"))
      [] u.stage = "ssr_server_feedback_arrived" ->
            UNION {do_ssr_receipt_for_feedback(AckRead(u, "outgoing"), seg)
                   : seg \in NextSegments(u)}
      [] u.stage = "ssr_receipt_to_server_sent" ->
            do_action_after_auth_server_success(AckWrite(u, "outgoing"))
      [] u.stage = "streaming" ->
            tunnel_ssr_client_streaming(u, s)
      [] u.stage = "kill" ->
            {tunnel_shutdown(u)}

-----------------------------------------------------------------------------
(* The callbacks of tunnel.c with client.c's hooks; OnTimeout, DnsWork,      *)
(* OnTcpClosed and OnTimerClosed call no hook and are those of Tunnel.       *)

SsrOnRead(s) ==
    /\ t.sock[s].reading
    /\ \E status \in {"data", "eof", "error"} :
          t' \in tunnel_socket_ctx_on_read_cb(t, s, status,
                    LAMBDA u : tunnel_ssr_dispatcher(u, s),
                    LAMBDA u : {tunnel_shutdown(u)})

SsrOnWritten(s) ==
    /\ t.sock[s].writes # <<>>
    /\ \E status \in {"ok", "err"} :
          /\ status = "ok" => t.sock[s].tcp = "open"
          /\ t' \in tunnel_socket_ctx_on_written_cb(t, s, status,
                       LAMBDA u : tunnel_ssr_dispatcher(u, s))

SsrOnConnect(s) ==
    /\ t.sock[s].connecting
    /\ \E status \in {"ok", "err"} :
          /\ status = "ok" => t.sock[s].tcp = "open"
          /\ t' \in tunnel_socket_ctx_on_connect_cb(t, s, status,
                       LAMBDA u : tunnel_ssr_dispatcher(u, s))

SsrOnGetaddrinfo(s) ==
    /\ t.sock[s].dns = "done"
    /\ \E status \in {"ok", "err"} :
          t' \in tunnel_socket_ctx_on_getaddrinfo_cb(t, s, status,
                    LAMBDA u : tunnel_ssr_dispatcher(u, s))

\* The program quits: client_env_shutdown visits every tunnel of the set.
client_env_shutdown ==
    /\ ~t.is_terminated
    /\ t' = tunnel_shutdown(t)

SsrInit ==
    \E mode \in CipherModes : t = init_done_cb(tunnel_initialize(TRUE, TRUE), mode)

SsrNext ==
    \/ client_env_shutdown
    \/ \E s \in Side :
          \/ SsrOnRead(s) \/ SsrOnWritten(s) \/ SsrOnConnect(s)
          \/ SsrOnGetaddrinfo(s) \/ DnsWork(s) \/ OnTimeout(s)
          \/ OnTcpClosed(s) \/ OnTimerClosed(s)

SsrSpec == SsrInit /\ [][SsrNext]_vars

\* libuv delivers what it owes after uv_close, timers expire, and the replies
\* and handshake messages, a few bytes each, are taken by the kernel.  Nothing
\* is assumed of the application, the server, the resolver, or of a write
\* while streaming.
SsrFairness ==
    \A s \in Side :
       /\ WF_vars(OnTimeout(s))
       /\ WF_vars(~is_in_streaming(t) /\ SsrOnWritten(s))
       /\ WF_vars(t.is_terminated /\ (SsrOnWritten(s) \/ SsrOnConnect(s)))
       /\ WF_vars(OnTcpClosed(s)) /\ WF_vars(OnTimerClosed(s))

SsrFairSpec == SsrSpec /\ SsrFairness

-----------------------------------------------------------------------------
(* Properties. *)

Items == { Hello, Finish, Address, Junk }
         \cup {Reply(w) : w \in {"method", "no_method", "success", "assoc", "not_allowed"}}
         \cup {AppData(n) : n \in 1 .. MaxData} \cup {SrvData(n) : n \in 1 .. MaxData}

ClientCtx ==
    [ shortcut : BOOLEAN, first : Seq(Items), app : 0 .. MaxData, srv : 0 .. MaxData,
      sent : [Side -> Seq(Items)],
      cipher : [ mode : CipherModes, status : SUBSET {1, 2, 4, 8},
                 queued : Seq(Items), reply : {"none", "part", "all", "broken"} ],
      bad : SUBSET {"rdstate", "wrstate", "idle", "decode", "feedback_data",
                    "late_feedback"} ]

\* The type invariant of the client's tunnels: stages, sockets and client_ctx
\* stay inside their types, and no more is queued for a socket than was read.
SsrTypeOK ==
    /\ t.stage \in tunnel_stage
    /\ t.data \in ClientCtx
    /\ \A s \in Side : /\ t.sock[s] \in Socket(Seq(Items))
                       /\ Len(t.sock[s].writes) <= MaxData + 2

\* The assertions of the dispatcher and its handlers: a handler finds the read
\* or the write it was waiting for, and both sockets idle, in whatever order
\* the callbacks come; and no call breaks the contract of tunnel.c.  (The three
\* assertions on the server's answer are another matter, see below.)
SsrAssertsHold ==
    /\ t.bad \subseteq {"stale"}
    /\ t.data.bad \cap {"rdstate", "wrstate", "idle"} = {}

Numbered(Elem(_), n) == [i \in 1 .. n |-> Elem(i)]

\* Nothing the application sent is lost, duplicated or reordered by a live
\* tunnel, from the packet that came with the handshake to the last one: what
\* went to the server, what the obfuscation holds back and the stored first
\* packet make up the messages of the handshake and then the packets in order.
UplinkFaithful ==
    ~t.is_terminated /\ "late_feedback" \notin t.data.bad =>
       LET d == t.data
       IN  d.sent["outgoing"] \o d.cipher.queued \o d.first
              \in { h \o Numbered(AppData, d.app) :
                        h \in { <<>>, <<Address>>, <<Hello, Address>>,
                                <<Hello, Finish, Address>> } }

\* The server never sees data before the handshake: what is written to it, in
\* this order, is the obfuscation's hello and finish, the address, and data.
WireOrder ==
    "late_feedback" \notin t.data.bad =>
       LET d    == t.data
           plan == (IF d.cipher.mode = "ticket" THEN <<Hello, Finish>> ELSE <<>>)
                   \o <<Address>> \o Numbered(AppData, d.app)
       IN  /\ Len(d.sent["outgoing"]) <= Len(plan)
           /\ d.sent["outgoing"] = SubSeq(plan, 1, Len(d.sent["outgoing"]))

\* What a live tunnel read from the server reaches the application complete
\* and in order, after the two replies of the SOCKS handshake.
DownlinkFaithful ==
    ~t.is_terminated /\ is_in_streaming(t) /\ "feedback_data" \notin t.data.bad =>
       t.data.sent["incoming"] =
          <<Reply("method"), Reply("success")>> \o Numbered(SrvData, t.data.srv)

\* Every tunnel is closed and freed in the end, whatever the peers do or fail
\* to do: at every stage a timer runs or a small write is about to complete.
\* (MaxData bounds what the peers send, so that they fall silent.)
Reclaimed == <>(t.freed /\ \A s \in Side : t.sock[s].freed)

\* tunnel.c as this owner sees it: payloads and stages forgotten.
AbsTunnel ==
    [ sock |-> [s \in Side |-> [t.sock[s] EXCEPT
                                   !.writes = [i \in DOMAIN @ |-> "data"]]],
      ref |-> t.ref, is_terminated |-> t.is_terminated, freed |-> t.freed,
      stage |-> IF is_in_streaming(t) THEN "streaming" ELSE "handshake",
      held |-> t.held, bad |-> t.bad ]

AnyOwner == INSTANCE Tunnel WITH
    t <- AbsTunnel, Stages <- {"handshake", "streaming"},
    StreamingStages <- {"streaming"}, FirstStage <- "handshake",
    Payload <- {"data"}, MaxWrites <- MaxData + 2

\* client.c keeps the contract that the theorems about Tunnel assume of an
\* owner: every step of the client is a step of Tunnel or changes nothing of it.
ImplementsTunnel == AnyOwner!Spec

\* One read brings the server's answer, and nothing else: the assertions in
\* do_ssr_receipt_for_feedback (no data comes with the answer) and in
\* tunnel_extract_data (no feedback is due once streaming).
AnswerAssertsHold == t.data.bad \cap {"feedback_data", "late_feedback"} = {}
=============================================================================
