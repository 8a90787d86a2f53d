---------------------------- MODULE ServerTunnel -----------------------------
(***************************************************************************)
(* The owner of a tunnel in the server: tunnel_dispatcher of               *)
(* src/shadowsocksr-native/src/server/server.c and the handlers of its     *)
(* stages, for plain SSR (with any plugins) and over TLS (a websocket      *)
(* behind a TLS terminator), TCP and UDP, on top of tunnel.c (Tunnel), the *)
(* cipher context (ServerCipher) and the UDP relay (UdpRemote).            *)
(*                                                                         *)
(* The record t has one more field, data: struct server_ctx, and what the  *)
(* properties need to know of the bytes that moved.                        *)
(*   cipher, udp  the cipher context and the UDP relay                     *)
(*   pkg          target_address_with_data_pkg                             *)
(*   begun        ws_tls_beginning                                         *)
(*   closing      ws_close_frame_sent                                      *)
(*   got, cut     how many items of the client's stream have been read,    *)
(*                and whether the beginning of the next has (history)      *)
(*   valid        FALSE once the client sent what does not authenticate    *)
(*   srv          packets read from the target (history)                   *)
(*   sent         what has been written to each side (history)             *)
(*   bad          the ASSERTs of server.c that failed; the model goes on   *)
(*                as a release build does                                  *)
(* The client, the target and the network are the environment; whether the *)
(* name is in the IP cache, and whether encryption succeeds, are choices.  *)
(***************************************************************************)
EXTENDS Tunnel, ServerCipher, UdpRemote

CONSTANTS
    ServerModes,  \* the configurations, a subset of Modes
    Requests,     \* what clients ask for over TLS, a subset of {"tcp", "udp"}
    MaxData       \* bound of the model on packets read from either side

ASSUME ServerModesAssumption == ServerModes \subseteq Modes
ASSUME RequestsAssumption == Requests \subseteq {"tcp", "udp"}
ASSUME MaxDataAssumption == MaxData \in Nat \ {0}

tunnel_stage ==
    { "initial", "obfs_receipt_done", "client_feedback_coming",
      "protocol_confirm_done", "resolve_host", "connect_host",
      "launch_streaming", "tls_client_feedback", "normal_response",
      "streaming", "udp_streaming" }

Address    == Item("address", 0)
Datagram   == Item("datagram", 0)    \* the datagram a UDP request carries
AppData(n) == Item("app", n)
Reply(what) == Item(what, 0)

Items ==
    { Address, Datagram }
    \cup {Item(k, 0) : k \in {"hello", "finish", "auth", "request", "part", "receipt",
                              "confirm", "upgrade", "page", "close", "junk"}}
    \cup {Item(k, n) : k \in {"app", "srv", "binary", "continuation"}, n \in 1 .. MaxData}

\* The parameters of tunnel.c's module as server.c sets them:
\* tunnel_is_in_streaming names two stages, and what is written are items.
ASSUME ServerStagesAssumption ==
    /\ Stages = tunnel_stage /\ StreamingStages = {"streaming", "udp_streaming"}
    /\ FirstStage = "initial" /\ Payload = Seq(Items)

Numbered(Elem(_), n) == [i \in 1 .. n |-> Elem(i)]

-----------------------------------------------------------------------------
(* The environment. *)

\* What a client sends before any data.
Handshake(mode) ==
    CASE mode = "plain"   -> <<Address>>
      [] mode = "confirm" -> <<Item("auth", 0), Address>>
      [] mode = "ticket"  -> <<Item("hello", 0), Item("finish", 0), Address>>
      [] mode = "both"    -> <<Item("hello", 0), Item("finish", 0),
                               Item("auth", 0), Address>>
      [] mode = "tls"     -> <<Item("request", 0)>>

ClientStream(mode) == Handshake(mode) \o Numbered(AppData, MaxData)

\* How much of it the client has sent: it waits for the answers it needs.
Available(u) ==
    LET c == u.data.cipher
    IN  CASE HasObfs(c) /\ c.status = "fresh"        -> 1
          [] c.mode = "confirm" /\ ~c.header         -> 2
          [] c.mode = "tls" /\ u.stage = "initial"   -> 1
          [] OTHER -> Len(ClientStream(c.mode))

\* What one read may bring, however TCP cuts the stream: it ends after item n,
\* or inside the item after that.
NextReads(u) ==
    {rd \in [n : u.data.got .. Available(u), cut : BOOLEAN] :
        /\ u.data.valid
        /\ rd.n = u.data.got => rd.cut /\ ~u.data.cut
        /\ rd.cut => rd.n < Available(u) /\ (u.data.cipher.mode = "plain" => rd.n = 0)}

Arrived(u, rd) == SubSeq(ClientStream(u.data.cipher.mode), u.data.got + 1, rd.n)

\* The client sends something else.
Spoilt(u) == {[u EXCEPT !.data.valid = FALSE] : x \in {y \in {u} : u.data.valid}}

NextSrv(u) == {n \in {u.data.srv + 1} : n <= MaxData}

-----------------------------------------------------------------------------
(* Steps that the handlers share. *)

\* _init_done_cb: a server_ctx for a new tunnel.
_init_done_cb(u, mode) ==
    [ sock |-> u.sock, ref |-> u.ref, is_terminated |-> u.is_terminated,
      freed |-> u.freed, stage |-> u.stage, held |-> u.held, bad |-> u.bad,
      data |-> [ cipher |-> tunnel_cipher_create(mode), udp |-> NoRelay,
                 pkg |-> <<>>, begun |-> FALSE, closing |-> FALSE,
                 got |-> 0, cut |-> FALSE, valid |-> TRUE,
                 srv |-> 0, sent |-> [s \in Side |-> <<>>], bad |-> {} ] ]

ServerAssert(u, cond, what) ==
    IF cond THEN u ELSE [u EXCEPT !.data.bad = @ \cup {what}]

GoTo(u, stage) == [u EXCEPT !.stage = stage]

Write(u, s, buf) ==
    [tunnel_socket_ctx_write(u, s, buf) EXCEPT !.data.sent[s] = @ \o buf]

\* Mutant: rdstate left as it is.
AckReadKeeps(u) == ServerAssert(u, u.sock["incoming"].rdstate = "done", "rdstate")

\* The dispatcher acknowledges a read, or a write, on the incoming socket.
AckRead(u) ==
    ServerAssert(Put(u, "incoming", [u.sock["incoming"] EXCEPT !.rdstate = "stop"]),
                 /\ u.sock["incoming"].rdstate = "done"
                 /\ u.sock["incoming"].wrstate = "stop", "rdstate")
AckWrite(u) ==
    ServerAssert(Put(u, "incoming", [u.sock["incoming"] EXCEPT !.wrstate = "stop"]),
                 u.sock["incoming"].wrstate = "done", "wrstate")

Idle(u) ==
    ServerAssert(u, \A s \in Side : /\ u.sock[s].rdstate = "stop"
                                    /\ u.sock[s].wrstate = "stop", "idle")

\* The client's bytes of one read go through the cipher.
Decrypt(u, rd) == tunnel_cipher_server_decrypt(u.data.cipher, Arrived(u, rd), rd.cut)

Taken(u, rd) ==
    [u EXCEPT !.data.cipher = Decrypt(u, rd).ctx, !.data.got = rd.n,
              !.data.cut = rd.cut]

-----------------------------------------------------------------------------
(* The handlers.  One with several outcomes yields the set of them. *)

\* uv_tcp_connect fails at once, or is in progress.
do_connect_host_start(u) ==
    LET a == GoTo(Idle(u), "connect_host")
    IN  {tunnel_shutdown(a), Connect(a, "outgoing")}

\* The host is looked up, or found in the IP cache.
do_parse(u) ==
    LET a == [u EXCEPT !.data.pkg = Tail(@)]
    IN  {Getaddrinfo(GoTo(a, "resolve_host"), "outgoing")}
        \cup do_connect_host_start(a)

\* Mutant: the check that the address is complete dropped.
ParseAnything(u) == IF u.data.pkg # <<>> THEN do_parse(u) ELSE {tunnel_shutdown(u)}

\* is_legal_header and is_header_complete: the package starts with an address.
do_prepare_parse(u) ==
    IF u.data.pkg # <<>> /\ Head(u.data.pkg) = Address THEN do_parse(u)
                                                       ELSE {tunnel_shutdown(u)}

\* The obfuscation's receipt, the protocol's confirmation, or the address.
do_init_package(u) ==
    {tunnel_shutdown(v) : v \in Spoilt(u)}
    \cup UNION {
        LET r == Decrypt(u, rd)
            a == Taken(u, rd)
            b == [a EXCEPT !.data.pkg = r.out]
        IN  IF r.obfs_receipt
            THEN {GoTo(Write(a, "incoming", <<Reply("receipt")>>), "obfs_receipt_done")}
            ELSE IF r.proto_confirm
            THEN {GoTo(Write(b, "incoming", <<Reply("confirm")>>), "protocol_confirm_done")}
            ELSE do_prepare_parse(b)
        : rd \in NextReads(u)}

do_handle_client_feedback(u) ==
    {tunnel_shutdown(v) : v \in Spoilt(u)}
    \cup UNION {
        LET r == Decrypt(u, rd)
            a == ServerAssert(Taken(u, rd), ~r.obfs_receipt, "receipt")
            b == [a EXCEPT !.data.pkg = @ \o r.out]
        IN  IF r.out = <<>> THEN {tunnel_shutdown(a)}
            ELSE IF r.proto_confirm
            THEN {GoTo(Write(b, "incoming", <<Reply("confirm")>>), "protocol_confirm_done")}
            ELSE do_prepare_parse(b)
        : rd \in NextReads(u)}

do_resolve_host_done(u) ==
    do_connect_host_start(
        ServerAssert(u, \A s \in Side : /\ u.sock[s].rdstate \in {"stop", "done"}
                                        /\ u.sock[s].wrstate \in {"stop", "done"},
                     "resolve"))

do_launch_streaming(u) ==
    LET a == ServerAssert(u, /\ \A s \in Side : u.sock[s].rdstate = "stop"
                             /\ u.sock["incoming"].wrstate = "stop"
                             /\ u.sock["outgoing"].wrstate = "done", "launch")
        b == Put(a, "outgoing", [a.sock["outgoing"] EXCEPT !.wrstate = "stop"])
    IN  GoTo(Read(Read(b, "incoming", FALSE), "outgoing", TRUE), "streaming")

do_tls_client_feedback(u) ==
    GoTo(Write(u, "incoming", <<Reply("upgrade")>>), "tls_client_feedback")

\* Mutant: data that came with the address forgotten.
LaunchWithoutPackage(u) ==
    LET a == Idle(u)
    IN  {do_launch_streaming(Put(a, "outgoing",
            [a.sock["outgoing"] EXCEPT !.wrstate = "done"]))}

do_connect_host_done(u) ==
    LET a == Idle(u)
    IN  IF a.data.cipher.mode = "tls"
        THEN {do_tls_client_feedback(ServerAssert(a, a.data.pkg = <<>>, "tls_pkg"))}
        ELSE IF a.data.pkg # <<>>
        THEN {GoTo(Write(a, "outgoing", a.data.pkg), "launch_streaming")}
        ELSE {do_launch_streaming(Put(a, "outgoing",
                 [a.sock["outgoing"] EXCEPT !.wrstate = "done"]))}

do_normal_response(u) ==
    GoTo(Write(u, "incoming", <<Reply("page")>>), "normal_response")

\* The first read is no upgrade request for the configured path, is one for a
\* TCP target or carries a datagram, or is cut short.
do_tls_init_package(u) ==
    {do_normal_response(v) : v \in Spoilt(u)}
    \cup UNION {
        LET a == Taken(u, rd)
        IN  IF rd.n = 0
            THEN {do_normal_response(a)}
            ELSE (IF "tcp" \in Requests
                  THEN do_prepare_parse([a EXCEPT !.data.pkg = <<Address>>]) ELSE {})
                 \cup (IF "udp" \in Requests
                       THEN {do_tls_client_feedback(
                               [a EXCEPT !.data.pkg = <<Datagram>>,
                                         !.data.udp = udp_remote_launch_begin])}
                       ELSE {})
        : rd \in NextReads(u)}

do_tls_launch_streaming(u) ==
    GoTo(Read(Read(Idle(u), "incoming", FALSE), "outgoing", TRUE), "streaming")

\* udp_remote_send_data for a sequence of datagrams.
SendDatagrams(u, q) ==
    [u EXCEPT !.data.udp = udp_remote_send_data(@, Len(q)),
              !.data.sent["outgoing"] = @ \o q]

do_udp_launch_streaming(u) ==
    GoTo(Read(SendDatagrams(Idle(u), u.data.pkg), "incoming", TRUE), "udp_streaming")

\* tunnel_extract_data on what the client sent, and the relaying of it.  What
\* does not authenticate ends the tunnel or, from auth_aes128, is replaced by
\* filler; over TLS a frame that does not decrypt is left out.
RelayUp(u) ==
    (UNION {IF u.data.cipher.mode = "tls" THEN {Write(v, "outgoing", <<>>)}
            ELSE {tunnel_shutdown(v), Write(v, "outgoing", <<Reply("junk")>>)}
            : v \in {w \in Spoilt(u) : u.data.cipher.mode # "plain"}})
    \cup {LET r == Decrypt(u, rd)
              a == ServerAssert(Taken(u, rd), ~r.obfs_receipt /\ ~r.proto_confirm,
                                "late_feedback")
          IN  Write(a, "outgoing", r.out)
          : rd \in NextReads(u)}

\* Mutant: ws_tls_beginning never set.
FrameAlwaysFirst(u, n) == Item("binary", n)

\* build_websocket_frame_from_raw: the first frame is binary, the others continue.
Frame(u, n) == Item(IF u.data.begun THEN "continuation" ELSE "binary", n)

\* The same for what the target sent.
RelayDown(u) ==
    UNION {LET a == [u EXCEPT !.data.srv = n]
               b == [a EXCEPT !.data.begun = TRUE]
           IN  IF u.data.cipher.mode = "tls"
               THEN {Write(b, "incoming", <<Frame(u, n)>>)}
               ELSE {tunnel_shutdown(a), Write(a, "incoming", <<Item("srv", n)>>)}
           : n \in NextSrv(u)}

tunnel_server_streaming(u, s) ==
    LET k == u.sock[s]
        o == u.sock[IF s = "incoming" THEN "outgoing" ELSE "incoming"]
        a == ServerAssert(u, /\ "done" \in {k.wrstate, k.rdstate}
                             /\ "done" \notin {o.wrstate, o.rdstate}, "streaming")
        b == Put(a, s, [k EXCEPT !.rdstate = "stop"])
    IN  IF k.wrstate = "done" THEN {Put(a, s, [k EXCEPT !.wrstate = "stop"])}
        ELSE IF s = "incoming" THEN RelayUp(b) ELSE RelayDown(b)

\* The datagrams of all complete frames go out in order; what is no frame of
\* the client is skipped.
tunnel_udp_streaming(u, s) ==
    LET k == u.sock["incoming"]
        a == ServerAssert(u, /\ s = "incoming" /\ "done" \in {k.wrstate, k.rdstate}
                             /\ u.sock["outgoing"].rdstate = "stop"
                             /\ u.sock["outgoing"].wrstate = "stop", "udp_streaming")
        b == Put(a, s, [k EXCEPT !.rdstate = "stop"])
    IN  IF k.rdstate = "done"
        THEN Spoilt(b) \cup {SendDatagrams(Taken(b, rd), Decrypt(b, rd).out)
                             : rd \in NextReads(b)}
        ELSE {Put(a, s, [k EXCEPT !.wrstate = "stop"])}

tunnel_dispatcher(u, s) ==
    CASE u.stage = "initial" ->
            IF u.data.cipher.mode = "tls" THEN do_tls_init_package(AckRead(u))
                                          ELSE do_init_package(AckRead(u))
      [] u.stage = "obfs_receipt_done" ->
            {GoTo(Read(AckWrite(u), "incoming", TRUE), "client_feedback_coming")}
      [] u.stage = "client_feedback_coming" ->
            do_handle_client_feedback(AckRead(u))
      [] u.stage = "protocol_confirm_done" -> do_prepare_parse(AckWrite(u))
      [] u.stage = "resolve_host"     -> do_resolve_host_done(u)
      [] u.stage = "connect_host"     -> do_connect_host_done(u)
      [] u.stage = "launch_streaming" -> {do_launch_streaming(u)}
      [] u.stage = "tls_client_feedback" ->
            {IF u.data.udp.on THEN do_udp_launch_streaming(AckWrite(u))
                              ELSE do_tls_launch_streaming(AckWrite(u))}
      [] u.stage = "normal_response"  -> {tunnel_shutdown(u)}
      [] u.stage = "streaming"        -> tunnel_server_streaming(u, s)
      [] u.stage = "udp_streaming"    -> tunnel_udp_streaming(u, s)

\* Over TLS the end of the target's stream is passed on as a close frame.
tunnel_arrive_end_of_file(u, s) ==
    IF s = "outgoing" /\ u.data.cipher.mode = "tls"
    THEN {Write([u EXCEPT !.data.closing = TRUE], "incoming", <<Reply("close")>>)}
    ELSE {tunnel_shutdown(u)}

\* Mutant: the tunnel kept open after the close frame.
WriteDoneOnly(u, s) == tunnel_dispatcher(u, s)

tunnel_write_done(u, s) ==
    IF u.data.cipher.mode = "tls" /\ s = "incoming" /\ u.data.closing
    THEN {tunnel_shutdown(AckWrite(u))}
    ELSE tunnel_dispatcher(u, s)

\* Mutant: the relay left running.
DestroyingKeepsRelay(u) == u

\* Called when the last reference to the tunnel goes.
tunnel_destroying(u) ==
    [u EXCEPT !.data.udp = udp_remote_destroy(udp_remote_set_dying_callback(@))]

-----------------------------------------------------------------------------
(* The callbacks of tunnel.c with server.c's hooks. *)

SrvOnRead(s) ==
    /\ t.sock[s].reading
    /\ \E status \in {"data", "eof", "error"} :
          t' \in tunnel_socket_ctx_on_read_cb(t, s, status,
                    LAMBDA u : tunnel_dispatcher(u, s),
                    LAMBDA u : tunnel_arrive_end_of_file(u, s))

SrvOnWritten(s) ==
    /\ t.sock[s].writes # <<>>
    /\ \E status \in {"ok", "err"} :
          /\ status = "ok" => t.sock[s].tcp = "open"
          /\ t' \in tunnel_socket_ctx_on_written_cb(t, s, status,
                       LAMBDA u : tunnel_write_done(u, s))

SrvOnConnect(s) ==
    /\ t.sock[s].connecting
    /\ \E status \in {"ok", "err"} :
          /\ status = "ok" => t.sock[s].tcp = "open"
          /\ t' \in tunnel_socket_ctx_on_connect_cb(t, s, status,
                       LAMBDA u : tunnel_dispatcher(u, s))

SrvOnGetaddrinfo(s) ==
    /\ t.sock[s].dns = "done"
    /\ \E status \in {"ok", "err"} :
          t' \in tunnel_socket_ctx_on_getaddrinfo_cb(t, s, status,
                    LAMBDA u : tunnel_dispatcher(u, s))

\* A close callback that releases the tunnel destroys the server_ctx.
AfterClose(u, v) == IF v.freed /\ ~u.freed THEN tunnel_destroying(v) ELSE v

SrvOnTcpClosed(s) ==
    /\ t.sock[s].tcp = "closing"
    /\ ~t.sock[s].connecting /\ t.sock[s].writes = <<>>
    /\ t' = AfterClose(t, uv_socket_close_done_cb(
                             Put(t, s, [t.sock[s] EXCEPT !.tcp = "closed"]), s))

SrvOnTimerClosed(s) ==
    /\ t.sock[s].timer = "closing"
    /\ t' = AfterClose(t, uv_socket_close_done_cb(
                             Put(t, s, [t.sock[s] EXCEPT !.timer = "closed"]), s))

\* The program quits: server_shutdown visits every tunnel of the set.
server_shutdown ==
    /\ ~t.is_terminated
    /\ t' = tunnel_shutdown(t)

-----------------------------------------------------------------------------
(* The callbacks of the UDP relay. *)

\* udp_remote_shutdown; the dying callback shuts the tunnel down.
EndRelay(u) ==
    LET v == [u EXCEPT !.data.udp = udp_remote_shutdown(@)]
    IN  IF DyingOwed(u.data.udp)
        THEN [tunnel_shutdown(v) EXCEPT !.data.udp.dying_cb = FALSE]
        ELSE v

\* A datagram becomes a frame for the client.  uv_write refuses a handle that
\* is closed, and socket_ctx_write then aborts the program; before streaming
\* tunnel_socket_ctx_write asserts that no other write is in progress.
udp_remote_on_data_arrived(u, n) ==
    LET k == u.sock["incoming"]
        f == <<Frame(u, n)>>
        a == [u EXCEPT !.data.srv = n, !.data.begun = TRUE]
        b == ServerAssert(a, is_in_streaming(u) \/ k.wrstate = "stop", "early_datagram")
        w == [Put(b, "incoming", socket_ctx_write(k, f)) EXCEPT
                 !.data.sent["incoming"] = @ \o f]
    IN  IF CanWrite(k) THEN w ELSE ServerAssert(a, FALSE, "closed_write")

UdpOnRecv ==
    /\ t.data.udp.receiving
    /\ \/ t' = EndRelay(t)
       \/ \E n \in NextSrv(t) :
             t' = [udp_remote_on_data_arrived(t, n) EXCEPT
                      !.data.udp = udp_remote_reset_timer(@)]

UdpOnTimeout ==
    /\ t.data.udp.ticking
    /\ t' = EndRelay([t EXCEPT !.data.udp.ticking = FALSE])

UdpOnSent ==
    /\ t.data.udp.sends > 0
    /\ t' = [t EXCEPT !.data.udp = upd_remote_sent_cb(@)]

UdpOnClosed ==
    \/ /\ t.data.udp.udp = "closing" /\ t.data.udp.sends = 0
       /\ t' = [t EXCEPT !.data.udp = udp_remote_close_done_cb([@ EXCEPT !.udp = "closed"])]
    \/ /\ t.data.udp.timer = "closing"
       /\ t' = [t EXCEPT !.data.udp = udp_remote_close_done_cb([@ EXCEPT !.timer = "closed"])]

-----------------------------------------------------------------------------

\* legal: is_incoming_ip_legal of the peer, the result of _init_done_cb.
SrvInit ==
    \E mode \in ServerModes, legal \in BOOLEAN :
       t = _init_done_cb(tunnel_initialize(TRUE, legal), mode)

SrvNext ==
    \/ server_shutdown \/ UdpOnRecv \/ UdpOnTimeout \/ UdpOnSent \/ UdpOnClosed
    \/ \E s \in Side :
          \/ SrvOnRead(s) \/ SrvOnWritten(s) \/ SrvOnConnect(s)
          \/ SrvOnGetaddrinfo(s) \/ DnsWork(s) \/ OnTimeout(s)
          \/ SrvOnTcpClosed(s) \/ SrvOnTimerClosed(s)

SrvSpec == SrvInit /\ [][SrvNext]_vars

\* libuv delivers what it owes after uv_close, timers expire, UDP sends finish,
\* and the handshake's answers and the close frame, a few bytes each, are taken
\* by the kernel.  Nothing is assumed of the client, the target, the resolver,
\* or of other writes while streaming.
SrvFairness ==
    /\ WF_vars(UdpOnTimeout) /\ WF_vars(UdpOnSent) /\ WF_vars(UdpOnClosed)
    /\ \A s \in Side :
          /\ WF_vars(OnTimeout(s))
          /\ WF_vars((~is_in_streaming(t) \/ t.data.closing) /\ SrvOnWritten(s))
          /\ WF_vars(t.is_terminated /\ (SrvOnWritten(s) \/ SrvOnConnect(s)))
          /\ WF_vars(SrvOnTcpClosed(s)) /\ WF_vars(SrvOnTimerClosed(s))

SrvFairSpec == SrvSpec /\ SrvFairness

-----------------------------------------------------------------------------
(* Properties. *)

ServerCtx ==
    [ cipher : [ mode : ServerModes, status : {"fresh", "hello", "open"},
                 header : BOOLEAN ],
      udp : Remote, pkg : Seq(Items), begun : BOOLEAN, closing : BOOLEAN,
      got : 0 .. MaxData + 4, cut : BOOLEAN, valid : BOOLEAN,
      srv : 0 .. MaxData, sent : [Side -> Seq(Items)],
      bad : SUBSET {"rdstate", "wrstate", "idle", "receipt", "resolve", "launch",
                    "tls_pkg", "streaming", "udp_streaming", "late_feedback",
                    "early_datagram", "closed_write"} ]

\* The type invariant of the server's tunnels: stages, sockets, server_ctx and
\* relay stay inside their types, and no more is queued than was read.
SrvTypeOK ==
    /\ t.stage \in tunnel_stage
    /\ t.data \in ServerCtx
    /\ \A s \in Side : /\ t.sock[s] \in Socket(Seq(Items))
                       /\ Len(t.sock[s].writes) <= 2 * MaxData + 2

\* The assertions of the dispatcher and its handlers, and tunnel.c's contract,
\* hold in whatever order the callbacks come and however TCP cuts the client's
\* stream; in particular no plugin asks for feedback once streaming.  (The two
\* assertions on datagrams are another matter, see below.)
SrvAssertsHold ==
    /\ t.bad \subseteq {"stale"}
    /\ t.data.bad \subseteq {"early_datagram", "closed_write"}

Mode == t.data.cipher.mode

\* How many packets of data have been read from the client.
AppRead == LET h == Len(Handshake(Mode)) IN IF t.data.got > h THEN t.data.got - h ELSE 0

\* What a live tunnel read from an honest client reaches the target complete
\* and in order, whatever came together with the address, however the stream
\* was cut and whatever stage read it; nothing of the handshake leaks into it.
TargetFaithful ==
    ~t.is_terminated /\ t.data.valid =>
       LET d == t.data
           q == (IF d.udp.on THEN <<Datagram>> ELSE <<>>) \o Numbered(AppData, AppRead)
       IN  /\ t.stage \in {"resolve_host", "connect_host"} => d.pkg = q
           /\ t.stage \in {"launch_streaming", "streaming", "udp_streaming"} =>
                 d.sent["outgoing"] = q

\* What the server answers before it relays.
Answers ==
    CASE Mode = "plain"   -> <<>>
      [] Mode = "confirm" -> <<Reply("confirm")>>
      [] Mode = "ticket"  -> <<Reply("receipt")>>
      [] Mode = "both"    -> <<Reply("receipt"), Reply("confirm")>>
      [] Mode = "tls"     -> <<Reply("upgrade")>>

DownItem(n) ==
    Item(IF Mode # "tls" THEN "srv" ELSE IF n = 1 THEN "binary" ELSE "continuation", n)

\* The client gets the answers of the handshake, each once, then what a live
\* tunnel read from the target, complete and in order, as one binary message
\* over TLS, and nothing behind the close frame.
ClientFaithful ==
    ~t.is_terminated /\ is_in_streaming(t) =>
       t.data.sent["incoming"] =
          Answers \o Numbered(DownItem, t.data.srv)
          \o (IF t.data.closing THEN <<Reply("close")>> ELSE <<>>)

\* The server does nothing on the network for a client that did not complete
\* its handshake: no lookup, no connection and no datagram before the plugins
\* accepted it and a complete address arrived.
AuthBeforeDial ==
    LET k == t.sock["outgoing"]
        d == t.data
    IN  k.dns # "none" \/ k.connecting \/ k.connected \/ d.sent["outgoing"] # <<>> =>
           /\ d.got >= Len(Handshake(Mode))
           /\ HasObfs(d.cipher) => d.cipher.status = "open"
           /\ HasAuth(d.cipher) => d.cipher.header

\* The relay and its tunnel: the relay is referenced by the server_ctx and by
\* each handle still closing, and freed with the last of them; while the tunnel
\* lives so does its relay, and once the tunnel is freed no callback of the
\* relay can reach the server_ctx any more.
RelayLifetime ==
    LET r == t.data.udp
    IN  r.on => /\ r.ref = One(~t.freed) + One(r.udp = "closing") + One(r.timer = "closing")
                /\ r.freed <=> r.ref = 0
                /\ r.shutting_down => t.is_terminated
                /\ t.freed => ~r.receiving /\ ~r.dying_cb
                /\ r.receiving \/ r.ticking \/ r.sends > 0 => ~r.freed

\* Every tunnel and its relay are freed in the end, whatever the peers do or
\* fail to do.  (MaxData bounds what the peers send, so that they fall silent.)
SrvReclaimed ==
    <>(/\ t.freed /\ \A s \in Side : t.sock[s].freed
       /\ t.data.udp.on => t.data.udp.freed)

\* tunnel.c as this owner sees it: payloads and stages forgotten.
SrvTunnel ==
    [ sock |-> [s \in Side |-> [t.sock[s] EXCEPT
                                   !.writes = [i \in DOMAIN @ |-> "data"]]],
      ref |-> t.ref, is_terminated |-> t.is_terminated, freed |-> t.freed,
      stage |-> IF is_in_streaming(t) THEN "streaming" ELSE "handshake",
      held |-> t.held, bad |-> t.bad ]

AnyOwner == INSTANCE Tunnel WITH
    t <- SrvTunnel, Stages <- {"handshake", "streaming"},
    StreamingStages <- {"streaming"}, FirstStage <- "handshake",
    Payload <- {"data"}, MaxWrites <- 2 * MaxData + 2

\* server.c keeps the contract that the theorems about Tunnel assume of an
\* owner: every step of the server is a step of Tunnel or changes nothing of it,
\* unless a datagram was written while the upgrade response was in progress.
\* (A write to a closed handle is no step of the socket: see NoClosedWrite.)
ServerImplementsTunnel ==
    /\ AnyOwner!Init
    /\ [][AnyOwner!Next \/ "early_datagram" \in t'.data.bad]_(AnyOwner!vars)

\* The VERIFY in socket_ctx_write: uv_write is not called on a closed handle.
NoClosedWrite == "closed_write" \notin t.data.bad
=============================================================================
