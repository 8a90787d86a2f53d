------------------------------ MODULE ClientTls ------------------------------
(***************************************************************************)
(* The owner of a tunnel in the client when over_tls_enable is on:         *)
(* tunnel_tls_dispatcher and the tls_cli_on_* callbacks of                 *)
(* src/shadowsocksr-native/src/client/client.c, the connection object of   *)
(* client/tls_cli.c and the TLS stream under it, depends/uv-mbed.  The     *)
(* SOCKS5 front end is that of module ClientSsr.                           *)
(*                                                                         *)
(* A tunnel is made for an accepted TCP connection, or for the datagrams   *)
(* of one application with one target (udp_on_recv_data); the latter has   *)
(* unused sockets and lives on its TLS connection alone.                   *)
(*                                                                         *)
(* t.data has these fields besides those of ClientSsr:                     *)
(*   udp    udp_data_ctx is there                                          *)
(*   deque  send_deque                                                     *)
(*   half   server_delivery_cache holds the first half of a frame          *)
(*   eof    tls_is_eof                                                     *)
(*   got    half frames received so far (history)                          *)
(*   tls    the TLS connection:                                            *)
(*     ctx                client_ctx.tls_ctx is not NULL                   *)
(*     cref, cfreed       reference count of client_ctx, memory returned   *)
(*     ref, freed         the same of tls_cli_ctx                          *)
(*     mref, mfreed       the same of uv_mbed_t                            *)
(*     connect_cb         connect_cb is still to be called                 *)
(*     on_shutting_down   tls_client_shutdown has set the callback         *)
(*     dns                the lookup is in progress                        *)
(*     sock, close_cb     the TCP handle, and which callback closes it     *)
(*     connecting         the connect request is in progress               *)
(*     timer              connect_timeout                                  *)
(*     reading, writable  what libuv knows of the stream                   *)
(*     writes, shutting   writes and the shutdown request in progress      *)
(*     handshake          the state of the TLS handshake                   *)
(*     left               what the close of the connection left behind     *)
(*                        (history, see uv_mbed_close)                     *)
(* Encryption into memory, and with it mbedtls_ssl_write, does not fail.   *)
(* config_ssrot_revision leaves no protocol or obfuscation plugin here.    *)
(***************************************************************************)
EXTENDS ClientSsr, FiniteSets

tls_stage ==
    tunnel_stage \cup {"tls_connecting", "tls_websocket_upgrade", "tls_streaming"}

\* tunnel_tls_is_in_streaming, besides the stage of ClientSsr; what is written
\* to the application.
ASSUME TlsStagesAssumption ==
    /\ tls_stage \subseteq Stages
    /\ StreamingStages = {"streaming", "tls_streaming"}
    /\ Payload = Seq(Items)

Tls(u) == u.data.tls
WithTls(u, m) == [u EXCEPT !.data.tls = m]

\* No connection yet.  client_ctx is referenced by its tunnel.
NoTls ==
    [ ctx |-> FALSE, cref |-> 1, cfreed |-> FALSE,
      ref |-> 0, freed |-> FALSE, mref |-> 0, mfreed |-> FALSE,
      connect_cb |-> FALSE, on_shutting_down |-> FALSE, dns |-> FALSE,
      sock |-> "none", close_cb |-> "none", connecting |-> FALSE, timer |-> "none",
      reading |-> FALSE, writable |-> FALSE, writes |-> <<>>, shutting |-> FALSE,
      handshake |-> "none", left |-> {} ]

tls_init_done_cb(u, udp) ==
    LET v == init_done_cb(u, "plain")
        d == v.data
    IN  [ sock |-> v.sock, ref |-> v.ref, is_terminated |-> v.is_terminated,
          freed |-> v.freed, stage |-> v.stage, held |-> v.held, bad |-> v.bad,
          data |-> [ shortcut |-> d.shortcut, first |-> d.first, cipher |-> d.cipher,
                     app |-> d.app, srv |-> d.srv, sent |-> d.sent, bad |-> d.bad,
                     udp |-> udp, deque |-> <<>>, half |-> 0, eof |-> FALSE,
                     got |-> 0, tls |-> NoTls ] ]

-----------------------------------------------------------------------------
(* Reference counts.  Each object holds the next: client_ctx, tls_cli_ctx,   *)
(* uv_mbed_t.                                                                *)

uv_mbed_add_ref(m) == [m EXCEPT !.mref = @ + 1]

uv_mbed_release(m) == [m EXCEPT !.mref = @ - 1, !.mfreed = @ \/ m.mref <= 1]

tls_cli_ctx_add_ref(m) == [m EXCEPT !.ref = @ + 1]

tls_cli_ctx_release(m) ==
    LET a == [m EXCEPT !.ref = @ - 1, !.freed = @ \/ m.ref <= 1]
    IN  IF m.ref <= 1 THEN uv_mbed_release(a) ELSE a

client_ctx_release(m) ==
    LET a == [m EXCEPT !.cref = @ - 1, !.cfreed = @ \/ m.cref <= 1]
    IN  IF m.cref <= 1 /\ m.ctx THEN tls_cli_ctx_release(a) ELSE a

\* tunnel_destroying, called when a step has taken the tunnel from u to v.
Destroying(u, v) ==
    IF v.freed /\ ~u.freed THEN WithTls(v, client_ctx_release(Tls(v))) ELSE v

-----------------------------------------------------------------------------
(* Closing a connection. *)

tls_cli_on_shutting_down_callback(u) ==
    LET a == WithTls(u, client_ctx_release(Tls(u)))
    IN  Destroying(a, tunnel_ctx_release([a EXCEPT !.held = FALSE]))

mbed_close_done_cb(u) ==
    LET a == IF Tls(u).on_shutting_down THEN tls_cli_on_shutting_down_callback(u) ELSE u
    IN  WithTls(a, tls_cli_ctx_release(Tls(a)))

uv_close_socket(m, cb) ==
    [uv_mbed_add_ref(m) EXCEPT !.sock = "closing", !.close_cb = cb,
                               !.reading = FALSE, !.writable = FALSE]

\* libuv refuses to shut down a stream that is not writable any more.
close_ssl_process_cb(m) ==
    IF m.writable THEN [m EXCEPT !.shutting = TRUE, !.writable = FALSE] ELSE m

\* The branch of the build for macOS: the close_notify alert, which exists once
\* the handshake is over, is flushed first.  left records the closes after
\* which something is never given back:
\*   early      the close is reported at once and connect_cb is yet to come
\*   handshake  connect_cb will not be called any more
\*   reset      uv_shutdown fails, and uv_close is not called
uv_mbed_close(u) ==
    LET m == Tls(u)
        b == [m EXCEPT !.reading = FALSE,
                       !.left = (IF m.connect_cb THEN {"handshake"} ELSE {})
                                \cup (IF m.writable THEN {} ELSE {"reset"})]
    IN  CASE m.sock \in {"none", "closing", "closed"} ->
                mbed_close_done_cb([u EXCEPT !.data.tls.left =
                                       IF m.connect_cb THEN {"early"} ELSE {}])
          [] m.sock \in {"connecting", "failed"} ->
                WithTls(u, uv_close_socket(m, "close_done"))
          [] m.sock = "connected" ->
                WithTls(u, IF m.handshake = "over" /\ m.writable
                           THEN [b EXCEPT !.writes = Append(@, "notify")]
                           ELSE close_ssl_process_cb(b))

tls_client_shutdown(u) ==
    uv_mbed_close(WithTls(u, tls_cli_ctx_add_ref(
                                 [Tls(u) EXCEPT !.on_shutting_down = TRUE])))

\* Mutant: client_ctx is not referenced until the connection is closed.
ShutdownWithoutCtxRef(u) == IF Tls(u).ctx THEN tls_client_shutdown(u) ELSE u

client_tunnel_shutdown(u) ==
    IF Tls(u).ctx
    THEN tls_client_shutdown([u EXCEPT !.data.tls.cref = @ + 1])
    ELSE u

\* What client.c adds to a step of tunnel.c from u to v: its own
\* tunnel_shutdown, which closes the connection besides the sockets, and
\* tunnel_destroying.  A shutdown is the last thing a handler does.
Overrides(u, v) ==
    Destroying(u, IF v.is_terminated /\ ~u.is_terminated
                  THEN client_tunnel_shutdown(v) ELSE v)

Shutdown(u) == Overrides(u, tunnel_shutdown(u))

-----------------------------------------------------------------------------
(* Sending. *)

\* One call for each item.  On a stream that is not writable the call reports
\* success at once, and the data stays in the buffer.
tls_client_send_data(u, items) ==
    IF Tls(u).writable
    THEN [u EXCEPT !.data.tls.ref = @ + Len(items),
                   !.data.tls.writes = @ \o [i \in DOMAIN items |-> "data"],
                   !.data.sent["outgoing"] = @ \o items]
    ELSE u

-----------------------------------------------------------------------------
(* Connecting. *)

\* The header of the request to upgrade carries the target's address, or the
\* first datagram.
tls_cli_on_connection_established(u, status) ==
    LET a     == Idle(u, Side)
        first == IF a.data.deque # <<>> THEN <<Head(a.data.deque)>> ELSE <<Address>>
        b     == IF a.data.deque # <<>> THEN [a EXCEPT !.data.deque = Tail(@)] ELSE a
    IN  IF status = "err" THEN Shutdown(u)
        ELSE IF u.is_terminated THEN u
        ELSE GoTo(tls_client_send_data(b, first), "tls_websocket_upgrade")

\* do_uv_mbeb_connect_cb and mbed_connect_done_cb: reports once.
do_uv_mbeb_connect_cb(u, status) ==
    LET a == WithTls(u, uv_mbed_add_ref([Tls(u) EXCEPT !.connect_cb = FALSE]))
        b == tls_cli_on_connection_established(a, status)
    IN  IF Tls(u).connect_cb
        THEN WithTls(b, uv_mbed_release(tls_cli_ctx_release(Tls(b))))
        ELSE u

\* uv_tcp_connect is under way, or fails at once.
try_connect_remote_svr(u) ==
    {[u EXCEPT !.data.tls.sock = "connecting", !.data.tls.connecting = TRUE,
               !.data.tls.timer = "running"],
     do_uv_mbeb_connect_cb([u EXCEPT !.data.tls.sock = "failed"], "err")}

\* A launched connection has two references, the holder's and that of the
\* connect.
tls_client_allocate(u) ==
    WithTls(u, [Tls(u) EXCEPT !.ref = 2, !.mref = 1, !.connect_cb = TRUE])

\* tls_client_launch failed: tls_ctx is still NULL, connect_cb has been called
\* and has shut the tunnel down; what is left of the connection is closed.
LaunchFailed(u) ==
    LET a == uv_mbed_close(WithTls(u, tls_cli_ctx_add_ref(Tls(u))))
    IN  WithTls(a, tls_cli_ctx_release(Tls(a)))

\* Mutant: the connection takes no reference to the tunnel.
CreatorWithoutRef(u) ==
    LET a == tls_client_allocate(GoTo(u, "tls_connecting"))
    IN  {[a EXCEPT !.data.tls.ctx = TRUE, !.data.tls.dns = TRUE]}

\* remote_host is a name to look up, or an address.
tls_client_creator(u) ==
    LET a        == tls_client_allocate(GoTo(u, "tls_connecting"))
        Launched(v) == Hold([v EXCEPT !.data.tls.ctx = TRUE])
        tried    == try_connect_remote_svr(a)
    IN  {Launched([a EXCEPT !.data.tls.dns = TRUE]),
         LaunchFailed(do_uv_mbeb_connect_cb(a, "err"))}
        \cup {Launched(v) : v \in {w \in tried : Tls(w).connecting}}
        \cup {LaunchFailed(v) : v \in {w \in tried : ~Tls(w).connecting}}

-----------------------------------------------------------------------------
(* The stages of the tunnel. *)

\* Mutant: the first packet is not sent.
LaunchWithoutFirst(u) ==
    LET a == Idle(u, {"incoming"})
    IN  {GoTo(Read([a EXCEPT !.data.first = <<>>], "incoming", TRUE), "tls_streaming")}

\* Encryption fails, or the first packet goes out and reading begins.
tunnel_tls_do_launch_streaming(u) ==
    LET a == [Idle(u, {"incoming"}) EXCEPT !.data.first = <<>>]
        b == tls_client_send_data(a, u.data.first)
    IN  {Shutdown(a), GoTo(Read(b, "incoming", TRUE), "tls_streaming")}

tunnel_tls_client_incoming_streaming(u) ==
    LET a == [AckRead(u, "incoming") EXCEPT !.data.app = @ + 1]
    IN  IF u.sock["incoming"].wrstate = "done"
        THEN {Put(u, "incoming", [u.sock["incoming"] EXCEPT !.wrstate = "stop"])}
        ELSE UNION {{tunnel_shutdown(a), tls_client_send_data(a, <<p>>)} : p \in NextApp(u)}

\* The SOCKS stages are, case by case, those of tunnel_ssr_dispatcher; what is
\* the tunnel's own shutdown there becomes the client's in Overrides.
tunnel_tls_dispatcher(u, s) ==
    CASE u.stage \in {"handshake", "handshake_replied", "s5_request_from_client_app",
                      "s5_udp_accoc", "kill"} ->
            tunnel_ssr_dispatcher(u, s)
      [] u.stage = "s5_response_done" ->
            LET a == AckWrite(u, "incoming")
            IN  IF u.data.first # <<>>
                THEN tls_client_creator(a)
                ELSE {GoTo(Read(a, "incoming", TRUE), "client_first_pkg")}
      [] u.stage = "client_first_pkg" ->
            UNION {tls_client_creator([AckRead(u, "incoming") EXCEPT
                                          !.data.first = <<p>>, !.data.app = @ + 1])
                   : p \in NextApp(u)}
      [] u.stage = "tls_streaming" ->
            tunnel_tls_client_incoming_streaming(u)

-----------------------------------------------------------------------------
(* What the server sends. *)

\* The answer to the upgrade is expected to fill one read exactly: a part of
\* it, an answer with data behind it and a refusal all end the tunnel.
OnUpgradeAnswer(u) ==
    LET flushed == [tls_client_send_data(u, u.data.deque) EXCEPT !.data.deque = <<>>]
    IN  {Shutdown(u)}
        \cup (IF u.data.udp
              THEN {GoTo(flushed, "tls_streaming")}
              ELSE tunnel_tls_do_launch_streaming(GoTo(u, "auth_completion_done")))

\* Mutant: what does not make a whole frame is dropped.
OnFramesNoCache(u, halves, close) ==
    LET n   == (u.data.half + halves) \div 2
        out == [i \in 1 .. n |-> SrvData((u.data.got - u.data.half) \div 2 + i)]
        a   == [u EXCEPT !.data.half = 0, !.data.got = @ + halves, !.data.eof = @ \/ close]
    IN  IF out = <<>> /\ a.data.eof THEN Shutdown(a)
        ELSE IF out = <<>> THEN a
        ELSE IF u.data.udp THEN [a EXCEPT !.data.sent["incoming"] = @ \o out]
        ELSE Write(a, "incoming", out)

\* One read brings some half frames, none if not even a TLS record is complete,
\* and perhaps a close frame behind them.  Whole frames are taken from the
\* cache and passed on together; datagrams go out of the UDP listener.
OnFrames(u, halves, close) ==
    LET n   == (u.data.half + halves) \div 2
        out == [i \in 1 .. n |-> SrvData((u.data.got - u.data.half) \div 2 + i)]
        a   == [u EXCEPT !.data.half = (@ + halves) % 2, !.data.got = @ + halves,
                         !.data.eof = @ \/ close]
    IN  IF out = <<>> /\ a.data.eof THEN Shutdown(a)
        ELSE IF out = <<>> THEN a
        ELSE IF u.data.udp THEN [a EXCEPT !.data.sent["incoming"] = @ \o out]
        ELSE Write(a, "incoming", out)

\* What a read can bring: the server sends MaxData frames at most, and nothing
\* after a close frame.
Deliveries(u) ==
    {r \in [halves : 0 .. 3, close : BOOLEAN] :
        /\ u.data.got + r.halves <= 2 * MaxData
        /\ u.data.eof => r.halves = 0 /\ ~r.close
        /\ r.close => (u.data.got + r.halves) % 2 = 0}

\* status is "data", or an end of file or error.
tls_cli_on_data_received(u, status) ==
    IF u.is_terminated THEN {u}
    ELSE IF status # "data" THEN {Shutdown(u)}
    ELSE IF u.stage = "tls_websocket_upgrade" THEN OnUpgradeAnswer(u)
    ELSE {OnFrames(ClientAssert(u, u.stage = "tls_streaming", "stage"), r.halves, r.close)
             : r \in Deliveries(u)}

-----------------------------------------------------------------------------
(* Events of the loop: the tunnel's sockets. *)

TlsOnRead(s) ==
    /\ t.sock[s].reading
    /\ \E status \in {"data", "eof", "error"} :
       \E v \in tunnel_socket_ctx_on_read_cb(t, s, status,
                   LAMBDA u : tunnel_tls_dispatcher(u, s),
                   LAMBDA u : {tunnel_shutdown(u)}) :
          t' = Overrides(t, v)

TlsOnWritten(s) ==
    /\ t.sock[s].writes # <<>>
    /\ \E status \in {"ok", "err"} :
          /\ status = "ok" => t.sock[s].tcp = "open"
          /\ \E v \in tunnel_socket_ctx_on_written_cb(t, s, status,
                         LAMBDA u : tunnel_tls_dispatcher(u, s)) :
                t' = Overrides(t, v)

TlsOnTimeout(s) ==
    /\ t.sock[s].ticking
    /\ t' = Overrides(t, tunnel_socket_ctx_on_timeout_cb(t, s))

TlsOnTcpClosed(s) ==
    /\ t.sock[s].tcp = "closing" /\ t.sock[s].writes = <<>>
    /\ t' = Overrides(t, uv_socket_close_done_cb(
                            Put(t, s, [t.sock[s] EXCEPT !.tcp = "closed"]), s))

TlsOnTimerClosed(s) ==
    /\ t.sock[s].timer = "closing"
    /\ t' = Overrides(t, uv_socket_close_done_cb(
                            Put(t, s, [t.sock[s] EXCEPT !.timer = "closed"]), s))

tls_client_env_shutdown ==
    /\ ~t.is_terminated
    /\ t' = Shutdown(t)

-----------------------------------------------------------------------------
(* Events of the loop: the TLS connection. *)

\* When a close was reported before its time and client_ctx is freed, the
\* callbacks still to come work on returned memory; nothing is said of what the
\* program does then.
Defined == ~("early" \in Tls(t).left /\ Tls(t).cfreed)

uv_dns_resolve_done_cb ==
    /\ Defined /\ Tls(t).dns
    /\ LET a == [t EXCEPT !.data.tls.dns = FALSE]
       IN  t' \in {do_uv_mbeb_connect_cb(a, "err")} \cup try_connect_remote_svr(a)

\* The timer may expire when the handle is closing already: libuv's assertion.
connect_timeout_cb ==
    /\ Defined /\ Tls(t).timer = "running"
    /\ LET a == [t EXCEPT !.data.tls.timer = "expired"]
       IN  t' = IF Tls(t).sock = "connecting"
                THEN WithTls(a, uv_close_socket(Tls(a), "connect_canceled"))
                ELSE ClientAssert(a, FALSE, "uv_close")

\* The first flight of the handshake follows a successful connect.
uv_tcp_connect_established_cb ==
    /\ Defined /\ Tls(t).connecting
    /\ LET a == WithTls(t, uv_mbed_add_ref([Tls(t) EXCEPT !.connecting = FALSE,
                                                          !.timer = "closing"]))
       IN  \/ t' = do_uv_mbeb_connect_cb(
                      [a EXCEPT !.data.tls.sock = IF @ = "connecting" THEN "failed" ELSE @],
                      "err")
           \/ /\ Tls(t).sock = "connecting"
              /\ t' = WithTls(a, [Tls(a) EXCEPT
                           !.sock = "connected", !.reading = TRUE, !.writable = TRUE,
                           !.handshake = "begun", !.writes = <<"handshake">>])

connect_timeout_close_cb ==
    /\ Defined /\ Tls(t).timer = "closing"
    /\ t' = WithTls(t, uv_mbed_release([Tls(t) EXCEPT !.timer = "closed"]))

\* mbed_continue_handshake on what was read: another flight, the end of the
\* handshake, or a fatal error, which is reported to nobody.
mbed_continue_handshake ==
    /\ Defined /\ Tls(t).reading /\ Tls(t).handshake \in {"begun", "flight"}
    /\ \/ /\ Tls(t).handshake = "begun"
          /\ t' = WithTls(t, [Tls(t) EXCEPT !.handshake = "flight",
                                            !.writes = Append(@, "handshake")])
       \/ t' = do_uv_mbeb_connect_cb([t EXCEPT !.data.tls.handshake = "over"], "ok")
       \/ t' = [t EXCEPT !.data.tls.handshake = "failed"]

mbed_ssl_process_in ==
    /\ Defined /\ Tls(t).reading /\ Tls(t).handshake = "over"
    /\ t' \in tls_cli_on_data_received(t, "data")

\* libuv stops reading; after an error the stream is not writable either.
uv_tcp_read_done_cb ==
    /\ Defined /\ Tls(t).reading
    /\ \E status \in {"eof", "error"} :
          LET a == [t EXCEPT !.data.tls.reading = FALSE,
                             !.data.tls.writable = @ /\ status = "eof"]
          IN  t' \in IF Tls(t).connect_cb THEN {do_uv_mbeb_connect_cb(a, "err")}
                     ELSE tls_cli_on_data_received(a, status)

\* Mutant of WriteDone: the reference of the write is not returned.
WriteDoneKeepsRef(u, status) ==
    IF status = "err" THEN Shutdown(u) ELSE u

\* mbed_write_done_cb and tls_cli_on_write_done.
WriteDone(u, status) ==
    LET a == IF status = "err" THEN Shutdown(u) ELSE u
    IN  WithTls(a, tls_cli_ctx_release(Tls(a)))

\* The callback of a flight goes on with the handshake, which needs input.
uv_mbed_tcp_write_done_cb ==
    /\ Defined /\ Tls(t).writes # <<>>
    /\ \E status \in {"ok", "err"} :
          LET a == [t EXCEPT !.data.tls.writes = Tail(@)]
          IN  /\ status = "ok" => Tls(t).sock = "connected"
              /\ t' = CASE Head(Tls(t).writes) = "handshake" -> a
                        [] Head(Tls(t).writes) = "data"      -> WriteDone(a, status)
                        [] Head(Tls(t).writes) = "notify"    ->
                              WithTls(a, close_ssl_process_cb(Tls(a)))

\* The shutdown request completes behind the writes.
uv_tcp_shutdown_cb ==
    /\ Defined /\ Tls(t).shutting /\ Tls(t).writes = <<>>
    /\ t' = WithTls(t, uv_close_socket([Tls(t) EXCEPT !.shutting = FALSE], "close_done"))

\* libuv calls it after the callbacks of the requests.
uv_tcp_close_done_cb ==
    /\ Defined /\ Tls(t).sock = "closing" /\ ~Tls(t).connecting /\ Tls(t).writes = <<>>
    /\ LET a == [t EXCEPT !.data.tls.sock = "closed"]
           b == IF Tls(t).close_cb = "close_done" THEN mbed_close_done_cb(a) ELSE a
       IN  t' = WithTls(b, uv_mbed_release(Tls(b)))

\* A datagram for the target of this tunnel, which is found in the set of
\* tunnels until it is destroyed.  Encryption may fail.
udp_on_recv_data ==
    /\ Defined /\ t.data.udp /\ ~t.freed
    /\ \E p \in NextApp(t) :
          LET a == [t EXCEPT !.data.app = @ + 1]
          IN  IF is_in_streaming(t)
              THEN t' \in {Shutdown(a), tls_client_send_data(a, <<p>>)}
              ELSE t' = [a EXCEPT !.data.deque = Append(@, p)]

-----------------------------------------------------------------------------

\* The first datagram of an application and a target makes a tunnel without
\* a listener, and connects.
UdpTunnels ==
    {[v EXCEPT !.data.deque = Append(@, AppData(1)), !.data.app = 1] :
        v \in tls_client_creator(tls_init_done_cb(tunnel_initialize(FALSE, TRUE), TRUE))}

TlsInit ==
    t \in {tls_init_done_cb(tunnel_initialize(TRUE, TRUE), FALSE)} \cup UdpTunnels

TlsEvent ==
    \/ uv_dns_resolve_done_cb \/ connect_timeout_cb \/ uv_tcp_connect_established_cb
    \/ connect_timeout_close_cb \/ mbed_continue_handshake \/ mbed_ssl_process_in
    \/ uv_tcp_read_done_cb \/ uv_mbed_tcp_write_done_cb \/ uv_tcp_shutdown_cb
    \/ uv_tcp_close_done_cb \/ udp_on_recv_data

TlsNext ==
    \/ tls_client_env_shutdown
    \/ TlsEvent
    \/ \E s \in Side : \/ TlsOnRead(s) \/ TlsOnWritten(s) \/ TlsOnTimeout(s)
                       \/ TlsOnTcpClosed(s) \/ TlsOnTimerClosed(s)

TlsSpec == TlsInit /\ [][TlsNext]_vars

\* What the loop owes a tunnel that was shut down: the results of the lookup,
\* the connect timer and the requests, and the close callbacks.
TlsDrain ==
    /\ t.is_terminated
    /\ \/ uv_dns_resolve_done_cb \/ connect_timeout_cb \/ connect_timeout_close_cb
       \/ Tls(t).sock = "closing" /\ uv_tcp_connect_established_cb
       \/ uv_mbed_tcp_write_done_cb \/ uv_tcp_shutdown_cb \/ uv_tcp_close_done_cb
       \/ \E s \in Side : TlsOnWritten(s) \/ TlsOnTcpClosed(s) \/ TlsOnTimerClosed(s)

\* Lookups end, timers expire, and the kernel takes or refuses what is written
\* to a connection that is to be closed.  Nothing is assumed of the application
\* and the server, nor of a live tunnel.
TlsFairness == WF_vars(TlsDrain)

TlsFairSpec == TlsSpec /\ TlsFairness

-----------------------------------------------------------------------------
(* Properties. *)

Connection ==
    [ ctx : BOOLEAN, cref : Nat, cfreed : BOOLEAN, ref : Nat, freed : BOOLEAN,
      mref : Nat, mfreed : BOOLEAN, connect_cb : BOOLEAN, on_shutting_down : BOOLEAN,
      dns : BOOLEAN,
      sock : {"none", "connecting", "failed", "connected", "closing", "closed"},
      close_cb : {"none", "close_done", "connect_canceled"}, connecting : BOOLEAN,
      timer : {"none", "running", "expired", "closing", "closed"},
      reading : BOOLEAN, writable : BOOLEAN,
      writes : Seq({"handshake", "data", "notify"}), shutting : BOOLEAN,
      handshake : {"none", "begun", "flight", "over", "failed"},
      left : SUBSET {"early", "handshake", "reset"} ]

\* The type invariant of tunnels over TLS; in particular none of the four
\* reference counts becomes negative.
TlsTypeOK ==
    /\ t.stage \in tls_stage
    /\ t.ref \in Nat
    /\ Tls(t) \in Connection
    /\ t.data.app \in 0 .. MaxData /\ t.data.got \in 0 .. 2 * MaxData
    /\ t.data.half \in 0 .. 1 /\ t.data.deque \in Seq(Items)
    /\ \A s \in Side : t.sock[s] \in Socket(Seq(Items))

\* The assertions of the dispatcher, of the TLS callbacks and of tunnel.c: each
\* finds the sockets and the stage it expects, in whatever order the events of
\* the application, of the TLS connection and of the datagrams come.  (The
\* connect timer of a connection that is already closing is left out, see the
\* README.)
TlsAssertsHold ==
    /\ t.bad = {}
    /\ t.data.bad \subseteq {"uv_close"}

\* How many of the writes in progress carry data.
DataWrites(q) == Cardinality({i \in DOMAIN q : q[i] = "data"})

\* The reference counts of the four objects are exact: client_ctx is held by
\* its tunnel and by a close in progress, tls_cli_ctx by client_ctx, by the
\* connect, by each write and by the close, uv_mbed_t by tls_cli_ctx and by
\* each of its handles that is closing, the tunnel by its connection until the
\* close is reported.
TlsRefCounts ==
    Defined =>
       LET m      == Tls(t)
           closes == m.on_shutting_down /\ t.held
           opened == m.ref > 0 \/ m.freed
       IN  /\ RefCounts
           /\ m.cref = One(~t.freed) + One(closes)
           /\ m.cfreed <=> m.cref = 0
           /\ m.ctx => m.ref = One(~m.cfreed) + One(m.connect_cb) + One(closes)
                               + DataWrites(m.writes)
           /\ m.ctx => (m.freed <=> m.ref = 0)
           /\ opened => m.mref = One(~m.freed) + One(m.sock = "closing")
                                 + One(m.timer = "closing")
           /\ opened => (m.mfreed <=> m.mref = 0)

\* No callback of the TLS connection runs on returned memory: as long as the
\* lookup, the connect, a write, the shutdown, a read, a timer or a close may
\* report, the objects that its callback uses are allocated.  The exception is
\* a tunnel that was closed before its connection had a socket to close.
ContextAlive ==
    LET m       == Tls(t)
        reports == \/ m.connect_cb /\ (m.dns \/ m.connecting)
                   \/ m.reading \/ DataWrites(m.writes) > 0
        pending == m.dns \/ m.connecting \/ m.shutting \/ m.reading \/ m.writes # <<>>
    IN  "early" \notin m.left =>
           /\ reports \/ (m.on_shutting_down /\ t.held) => ~m.cfreed
           /\ reports => ~m.freed
           /\ pending \/ m.sock = "closing" \/ m.timer \in {"running", "closing"} => ~m.mfreed

\* Nothing the application sent to a live tunnel is lost, duplicated or
\* reordered: what went into the TLS connection, the queued datagrams and the
\* stored first packet make up the packets in order, behind the address if the
\* tunnel is not one for datagrams.
TlsUplink ==
    ~t.is_terminated =>
       LET d       == t.data
           header  == IF d.udp \/ d.sent["outgoing"] = <<>> THEN <<>> ELSE <<Address>>
       IN  d.sent["outgoing"] \o d.deque \o d.first = header \o Numbered(AppData, d.app)

\* Every whole frame of the server reaches the application once and in order,
\* however the TLS stream was cut into reads, and nothing stands between or
\* behind them: only the replies of the SOCKS handshake come first.
TlsDownlink ==
    ~t.is_terminated =>
       LET in == t.data.sent["incoming"]
           n  == t.data.got \div 2
           k  == Len(in) - n
       IN  /\ k >= 0
           /\ \A i \in 1 .. k : in[i].kind # "srv"
           /\ \A i \in 1 .. n : in[k + i] = SrvData(i)

TunnelFreed == t.freed /\ Tls(t).cfreed /\ \A s \in Side : t.sock[s].freed

\* A shutdown is carried through: the tunnel and client_ctx, then tls_cli_ctx
\* and uv_mbed_t, are freed, at whatever point of the lookup, the connect, the
\* handshake or the traffic it came; except what uv_mbed_close leaves behind.
TlsReleased ==
    /\ t.is_terminated /\ Tls(t).left \subseteq {"handshake"} ~> TunnelFreed
    /\ t.is_terminated /\ Tls(t).ctx /\ Tls(t).left = {} ~>
          Tls(t).freed /\ Tls(t).mfreed

\* What tls_client_shutdown is for: on_shutting_down is called, whatever ended
\* the connection, and the tunnel goes.
ConnectionEndReported ==
    t.is_terminated /\ "early" \notin Tls(t).left ~> TunnelFreed
=============================================================================
