------------------------------ MODULE SocketCtx ------------------------------
(***************************************************************************)
(* One struct socket_ctx of src/shadowsocksr-native/src/tunnel.c: a TCP    *)
(* handle, its idle timer and the libuv requests embedded in it.  Every    *)
(* operator maps the record of a socket to the record after the call, so   *)
(* that the modules of tunnel.c's owners (client.c, server.c) compose them *)
(* the way the C code calls the functions.                                 *)
(*                                                                         *)
(* Fields that are members of the C struct: rdstate, wrstate, result       *)
(* (only its sign), is_terminated, check_timeout, ref, closing_count,      *)
(* on_closed (whether the tunnel still has to be told).                    *)
(* Fields that are libuv's view of the same memory (external):             *)
(*   connected   the stream is readable and writable                       *)
(*   reading     uv_read_start is in effect                                *)
(*   writes      the payloads of the uv_write requests not yet completed   *)
(*   connecting  a uv_connect_t is in progress                             *)
(*   dns         the uv_getaddrinfo_t: waiting for a worker, on a worker,  *)
(*               finished or cancelled but not yet called back             *)
(*   ticking     the timer is running                                      *)
(*   tcp, timer  the two handles: open, close requested, closed            *)
(*   freed       the memory was returned                                   *)
(***************************************************************************)
EXTENDS Integers, Sequences

socket_state == {"stop", "busy", "done", "dead"}
HandleState  == {"open", "closing", "closed"}
DnsState     == {"none", "queued", "running", "done"}

\* socket_context_create; connected is TRUE for the socket uv_accept filled.
socket_context_create(connected) ==
    [ rdstate |-> "stop", wrstate |-> "stop", result |-> "ok",
      is_terminated |-> FALSE, check_timeout |-> FALSE, ref |-> 1,
      closing_count |-> 0, on_closed |-> FALSE,
      connected |-> connected, reading |-> FALSE, writes |-> <<>>,
      connecting |-> FALSE, dns |-> "none", ticking |-> FALSE,
      tcp |-> "open", timer |-> "open", freed |-> FALSE ]

socket_ctx_timer_start(k) == [k EXCEPT !.ticking = TRUE]
socket_ctx_timer_stop(k)  == [k EXCEPT !.ticking = FALSE]

\* What socket_ctx_read asserts, and what makes uv_read_start return 0.
CanRead(k) ==
    k.rdstate = "stop" /\ k.tcp = "open" /\ k.connected /\ ~k.reading

socket_ctx_read(k, check_timeout) ==
    [k EXCEPT !.rdstate = "busy", !.reading = TRUE,
              !.check_timeout = check_timeout,
              !.ticking = @ \/ check_timeout]

\* What makes uv_write return 0 in socket_ctx_write.
CanWrite(k) == k.tcp = "open" /\ k.connected

socket_ctx_write(k, data) ==
    [k EXCEPT !.wrstate = "busy", !.writes = Append(@, data)]

CanConnect(k) == k.tcp = "open" /\ ~k.connected /\ ~k.connecting

\* A successful uv_tcp_connect arms the timer.
socket_ctx_connect(k) == [k EXCEPT !.connecting = TRUE, !.ticking = TRUE]

CanGetaddrinfo(k) == k.tcp = "open" /\ k.dns = "none"

\* The request lives inside the socket and takes no reference to it.
socket_ctx_getaddrinfo(k) == [k EXCEPT !.dns = "queued", !.ticking = TRUE]

\* uv_cancel succeeds only while no worker has taken the request.
uv_cancel(k) == [k EXCEPT !.dns = IF @ = "queued" THEN "done" ELSE @]

\* Mutants of socket_ctx_close: the references of the close callbacks forgotten,
\* or one reference for the two of them.
CloseWithoutRefs(k) ==
    [uv_cancel(k) EXCEPT
        !.is_terminated = TRUE, !.rdstate = "dead", !.wrstate = "dead",
        !.reading = FALSE, !.ticking = FALSE,
        !.tcp = "closing", !.timer = "closing",
        !.closing_count = 2, !.on_closed = TRUE]
CloseWithOneRef(k) == [CloseWithoutRefs(k) EXCEPT !.ref = @ + 1]

\* socket_ctx_close on a socket that is not terminated yet: two references,
\* one for each handle whose close callback is to come.
socket_ctx_close(k) ==
    [uv_cancel(k) EXCEPT
        !.is_terminated = TRUE, !.rdstate = "dead", !.wrstate = "dead",
        !.reading = FALSE, !.ticking = FALSE,
        !.ref = @ + 2, !.tcp = "closing", !.timer = "closing",
        !.closing_count = 2, !.on_closed = TRUE]

socket_ctx_release(k) == [k EXCEPT !.ref = @ - 1, !.freed = @ \/ k.ref <= 1]

\* Close callbacks libuv still owes this socket.
CloseOwed(k) == (IF k.tcp = "closing" THEN 1 ELSE 0)
              + (IF k.timer = "closing" THEN 1 ELSE 0)

\* Events other than close callbacks that libuv may still deliver.
EventOwed(k) == k.reading \/ k.ticking \/ k.connecting \/ k.writes # <<>>

Socket(Payload) ==
    [ rdstate : socket_state, wrstate : socket_state, result : {"ok", "err"},
      is_terminated : BOOLEAN, check_timeout : BOOLEAN, ref : Nat,
      closing_count : Nat, on_closed : BOOLEAN,
      connected : BOOLEAN, reading : BOOLEAN, writes : Seq(Payload),
      connecting : BOOLEAN, dns : DnsState, ticking : BOOLEAN,
      tcp : HandleState, timer : HandleState, freed : BOOLEAN ]
=============================================================================
