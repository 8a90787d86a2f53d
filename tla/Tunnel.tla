------------------------------- MODULE Tunnel --------------------------------
(***************************************************************************)
(* struct tunnel_ctx of src/shadowsocksr-native/src/tunnel.c: two sockets, *)
(* their callbacks, and the shutdown that frees all three objects by       *)
(* reference counting.  The tunnel is driven by libuv's single-threaded    *)
(* loop: one action is one callback of the loop, from entry to return.     *)
(*                                                                         *)
(* tunnel.c calls its owner through the hooks of struct tunnel_ctx         *)
(* (tunnel_read_done, tunnel_write_done, ...).  Here the owner is any code *)
(* that keeps the contract of the socket_ctx_* functions: in a hook it may *)
(* start reads, writes, a connect or a name lookup on sockets that accept  *)
(* them, move to another stage, take one reference to the tunnel, and shut *)
(* the tunnel down.  client.c and server.c are checked to be such owners.  *)
(***************************************************************************)
EXTENDS SocketCtx

CONSTANTS
    Stages,          \* what ctx->stage of the owner ranges over
    StreamingStages, \* the stages where tunnel_is_in_streaming() is true
    FirstStage,      \* the stage set by init_done_cb
    Payload,         \* what may be written to a socket
    MaxWrites        \* bound of the model on writes queued on one socket

ASSUME StagesAssumption ==
    StreamingStages \subseteq Stages /\ FirstStage \in Stages \ StreamingStages
ASSUME MaxWritesAssumption == MaxWrites \in Nat

VARIABLE t      \* the tunnel, its two sockets, and the owner's stage

Side == {"incoming", "outgoing"}

is_in_streaming(u) == u.stage \in StreamingStages

-----------------------------------------------------------------------------
(* tunnel.c's functions, as maps from a tunnel to the tunnel after the call. *)

\* The tunnel that tunnel_initialize builds; the initial packet is awaited on
\* the accepted socket if reads.  A tunnel made for UDP relaying has no listener.
NewTunnel(listener, reads) ==
    [ sock |-> [s \in Side |->
          IF s = "incoming" /\ listener
          THEN IF reads THEN socket_ctx_read(socket_context_create(TRUE), TRUE)
                        ELSE socket_context_create(TRUE)
          ELSE socket_context_create(FALSE)],
      ref |-> 1, is_terminated |-> FALSE, freed |-> FALSE,
      stage |-> FirstStage, held |-> FALSE, bad |-> {} ]

\* An ASSERT or VERIFY of the code: bad collects the ones that failed.
Assert(u, cond, what) ==
    IF cond THEN u ELSE [u EXCEPT !.bad = @ \cup {what}]

\* The tunnel with socket s in state k.
Put(u, s, k) == [u EXCEPT !.sock[s] = k]

tunnel_destroy_internal(u) ==
    [u EXCEPT !.freed = TRUE,
              !.sock = [s \in Side |-> socket_ctx_release(u.sock[s])]]

tunnel_ctx_add_ref(u) == [u EXCEPT !.ref = @ + 1]

tunnel_ctx_release(u) ==
    IF u.ref <= 1 THEN tunnel_destroy_internal([u EXCEPT !.ref = @ - 1])
                  ELSE [u EXCEPT !.ref = @ - 1]

\* socket_ctx_close(socket, tunnel_socket_ctx_on_closed_cb, tunnel)
CloseSocket(u, s) ==
    IF u.sock[s].is_terminated
    THEN tunnel_ctx_release(u)
    ELSE Assert(Put(u, s, socket_ctx_close(u.sock[s])),
                u.sock[s].rdstate # "dead" /\ u.sock[s].wrstate # "dead",
                "close")

\* Mutants of tunnel_shutdown: no reference for the second close, or the
\* tunnel's own reference not returned.
ShutdownWithOneRef(u) ==
    IF u.is_terminated THEN u
    ELSE LET a == tunnel_ctx_add_ref([u EXCEPT !.is_terminated = TRUE])
         IN  tunnel_ctx_release(CloseSocket(CloseSocket(a, "incoming"), "outgoing"))
ShutdownWithoutRelease(u) ==
    IF u.is_terminated THEN u
    ELSE LET a == tunnel_ctx_add_ref([u EXCEPT !.is_terminated = TRUE])
             b == tunnel_ctx_add_ref(CloseSocket(a, "incoming"))
         IN  CloseSocket(b, "outgoing")

tunnel_shutdown(u) ==
    IF u.is_terminated THEN u
    ELSE LET a == tunnel_ctx_add_ref([u EXCEPT !.is_terminated = TRUE])
             b == tunnel_ctx_add_ref(CloseSocket(a, "incoming"))
         IN  tunnel_ctx_release(CloseSocket(b, "outgoing"))

\* success: what init_done_cb returned (server.c's refuses illegal peers).
tunnel_initialize(listener, success) ==
    IF success THEN NewTunnel(listener, TRUE)
               ELSE tunnel_shutdown(NewTunnel(listener, FALSE))

\* Mutants of uv_socket_close_done_cb: on_closed for each handle, or never.
OnClosedTwice(u, s) ==
    LET k == u.sock[s]
        b == tunnel_ctx_release(Put(u, s, [k EXCEPT !.closing_count = @ - 1]))
    IN  Put(b, s, socket_ctx_release([b.sock[s] EXCEPT
                                         !.on_closed = k.closing_count > 1]))
OnClosedNever(u, s) ==
    Put(u, s, socket_ctx_release([u.sock[s] EXCEPT !.closing_count = @ - 1]))

\* One handle of socket s reports that it is closed.
uv_socket_close_done_cb(u, s) ==
    LET k == u.sock[s]
        a == Put(u, s, [k EXCEPT !.closing_count = @ - 1])
        b == tunnel_ctx_release(a)
        c == Put(b, s, [b.sock[s] EXCEPT !.on_closed = FALSE])
        d == IF k.closing_count <= 1 /\ k.on_closed THEN c ELSE a
    IN  Put(d, s, socket_ctx_release(d.sock[s]))

\* Owner calls with what they assert; used by the owners' modules.
Read(u, s, check_timeout) ==
    Assert(Put(u, s, socket_ctx_read(u.sock[s], check_timeout)),
           CanRead(u.sock[s]), "read")

tunnel_socket_ctx_write(u, s, data) ==
    Assert(Put(u, s, socket_ctx_write(u.sock[s], data)),
           /\ CanWrite(u.sock[s])
           /\ is_in_streaming(u) \/ u.sock[s].wrstate = "stop", "write")

Connect(u, s) ==
    Assert(Put(u, s, socket_ctx_connect(u.sock[s])),
           CanConnect(u.sock[s]), "connect")

Getaddrinfo(u, s) ==
    Assert(Put(u, s, socket_ctx_getaddrinfo(u.sock[s])),
           CanGetaddrinfo(u.sock[s]), "getaddrinfo")

-----------------------------------------------------------------------------
(* The callbacks tunnel_initialize installs on both sockets.  Each yields    *)
(* the set of tunnels that may result; Hook(u) is the set of tunnels that    *)
(* the owner's hook may leave when called on u.                              *)

\* Mutant of ReadEnter: uv_read_stop forgotten.
ReadEnterNoStop(u, s, status) ==
    Assert(Put(u, s, [u.sock[s] EXCEPT
                !.result  = IF status = "data" THEN "ok" ELSE "err",
                !.ticking = FALSE,
                !.rdstate = IF status = "data" THEN "done" ELSE "stop"]),
           is_in_streaming(u) \/ u.sock[s].rdstate = "busy", "on_read")

\* What happens before tunnel_read_done or tunnel_arrive_end_of_file is
\* called.  libuv itself stops reading on end of file and on errors.
ReadEnter(u, s, status) ==
    Assert(Put(u, s, [u.sock[s] EXCEPT
                !.result  = IF status = "data" THEN "ok" ELSE "err",
                !.reading = is_in_streaming(u) /\ status = "data",
                !.ticking = FALSE,
                !.rdstate = IF status = "data" THEN "done" ELSE "stop"]),
           is_in_streaming(u) \/ u.sock[s].rdstate = "busy", "on_read")

\* Mutant of ReadLeave: the timer restarted although the hook shut down.
ReadLeaveUnchecked(v, s) ==
    IF is_in_streaming(v) /\ v.sock[s].check_timeout
    THEN Put(v, s, socket_ctx_timer_start(v.sock[s]))
    ELSE v

\* What happens after tunnel_read_done returned.
ReadLeave(v, s) ==
    IF ~v.is_terminated /\ is_in_streaming(v) /\ v.sock[s].check_timeout
    THEN Put(v, s, socket_ctx_timer_start(v.sock[s]))
    ELSE v

tunnel_socket_ctx_on_read_cb(u, s, status, Hook(_), Eof(_)) ==
    LET a == ReadEnter(u, s, status)
    IN  IF u.is_terminated THEN {u}
        ELSE CASE status = "data"  -> {ReadLeave(v, s) : v \in Hook(a)}
               [] status = "eof"   -> Eof(a)
               [] status = "error" -> {tunnel_shutdown(a)}

\* uv_socket_write_done_cb and tunnel_socket_ctx_on_written_cb.
tunnel_socket_ctx_on_written_cb(u, s, status, Hook(_)) ==
    LET k == [u.sock[s] EXCEPT !.writes = Tail(@), !.result = status]
        a == Assert(Put(u, s, [k EXCEPT !.wrstate = "done"]),
                    is_in_streaming(u) \/ k.wrstate = "busy", "on_written")
    IN  IF u.is_terminated THEN {Put(u, s, k)}
        ELSE IF status = "ok" THEN Hook(a)
        ELSE {tunnel_shutdown(Put(u, s, [k EXCEPT !.wrstate = "stop"]))}

\* uv_socket_connect_done_cb and tunnel_socket_ctx_on_connect_cb.
tunnel_socket_ctx_on_connect_cb(u, s, status, Hook(_)) ==
    LET a == Put(u, s, [u.sock[s] EXCEPT !.connecting = FALSE, !.ticking = FALSE,
                                         !.result = status,
                                         !.connected = status = "ok"])
    IN  IF u.is_terminated THEN {a}
        ELSE IF status = "ok" THEN Hook(a)
        ELSE {tunnel_shutdown(a)}

\* uv_socket_on_getaddrinfo_cb and tunnel_socket_ctx_on_getaddrinfo_cb.  Once
\* the socket is freed the callback works on returned memory: "stale" records
\* that, and nothing more is said of what the code then does.
tunnel_socket_ctx_on_getaddrinfo_cb(u, s, status, Hook(_)) ==
    LET a == Put(u, s, [u.sock[s] EXCEPT !.dns = "none", !.ticking = FALSE,
                                         !.result = status])
    IN  IF u.sock[s].freed
        THEN {Assert(Put(u, s, [u.sock[s] EXCEPT !.dns = "none"]), FALSE, "stale")}
        ELSE IF u.is_terminated THEN {a}
        ELSE IF status = "ok" THEN Hook(a)
        ELSE {tunnel_shutdown(a)}

\* uv_socket_timer_expire_cb and tunnel_socket_ctx_on_timeout_cb: the socket is
\* held during the callback.  No owner's tunnel_timeout_expire_done does more
\* than print.
tunnel_socket_ctx_on_timeout_cb(u, s) ==
    LET a == Put(u, s, [u.sock[s] EXCEPT !.ticking = FALSE, !.result = "err",
                                         !.ref = @ + 1])
        b == IF u.is_terminated THEN a ELSE tunnel_shutdown(a)
    IN  Put(b, s, socket_ctx_release(b.sock[s]))

-----------------------------------------------------------------------------
(* Any owner.  SocketCalls: what the calls of one hook may make of a socket. *)

\* Owners acknowledge what a callback delivered before they do anything else.
Acked(k) == [k EXCEPT !.rdstate = IF @ = "done" THEN "stop" ELSE @,
                      !.wrstate = IF @ = "done" THEN "stop" ELSE @]

SocketWrites(u, k) ==
    {k} \cup {socket_ctx_write(k, d) :
                 d \in {e \in Payload : /\ CanWrite(k)
                                        /\ Len(k.writes) < MaxWrites
                                        /\ is_in_streaming(u) \/ k.wrstate = "stop"}}

SocketReads(k) ==
    {k} \cup {socket_ctx_read(k, b) : b \in {c \in BOOLEAN : CanRead(k)}}

SocketDials(k) ==
    {socket_ctx_connect(k) : x \in {y \in {k} : CanConnect(y)}}
    \cup {socket_ctx_getaddrinfo(k) : x \in {y \in {k} : CanGetaddrinfo(y)}}

SocketCalls(u, s) ==
    LET k == Acked(u.sock[s])
    IN  SocketDials(k) \cup UNION {SocketReads(j) : j \in SocketWrites(u, k)}

\* A tunnel that streams never leaves streaming.
NextStages(u) == IF is_in_streaming(u) THEN StreamingStages ELSE Stages

\* The owner may take one reference to the tunnel (client.c does so for its
\* TLS connection).
Hold(u) == [tunnel_ctx_add_ref(u) EXCEPT !.held = TRUE]

AfterCalls(u, ki, ko, st) ==
    [u EXCEPT !.sock = [s \in Side |-> IF s = "incoming" THEN ki ELSE ko],
              !.stage = st]

UnheldCalls(u) ==
    {AfterCalls(u, ki, ko, st) : ki \in SocketCalls(u, "incoming"),
                                 ko \in SocketCalls(u, "outgoing"),
                                 st \in NextStages(u)}

OwnerCalls(u) ==
    UnheldCalls(u) \cup (IF u.held THEN {} ELSE {Hold(v) : v \in UnheldCalls(u)})

AnyHook(u) == OwnerCalls(u) \cup {tunnel_shutdown(v) : v \in OwnerCalls(u)}

-----------------------------------------------------------------------------
(* Events of the loop. *)

OnRead(s) ==
    /\ t.sock[s].reading
    /\ \E status \in {"data", "eof", "error"} :
          t' \in tunnel_socket_ctx_on_read_cb(t, s, status, AnyHook, AnyHook)

\* Closing the handle completes its requests with UV_ECANCELED.
OnWritten(s) ==
    /\ t.sock[s].writes # <<>>
    /\ \E status \in {"ok", "err"} :
          /\ status = "ok" => t.sock[s].tcp = "open"
          /\ t' \in tunnel_socket_ctx_on_written_cb(t, s, status, AnyHook)

OnConnect(s) ==
    /\ t.sock[s].connecting
    /\ \E status \in {"ok", "err"} :
          /\ status = "ok" => t.sock[s].tcp = "open"
          /\ t' \in tunnel_socket_ctx_on_connect_cb(t, s, status, AnyHook)

OnTimeout(s) ==
    /\ t.sock[s].ticking
    /\ t' = tunnel_socket_ctx_on_timeout_cb(t, s)

\* libuv's thread pool takes the lookup, and finishes it.
DnsWork(s) ==
    \/ /\ t.sock[s].dns = "queued"
       /\ t' = Put(t, s, [t.sock[s] EXCEPT !.dns = "running"])
    \/ /\ t.sock[s].dns = "running"
       /\ t' = Put(t, s, [t.sock[s] EXCEPT !.dns = "done"])

OnGetaddrinfo(s) ==
    /\ t.sock[s].dns = "done"
    /\ \E status \in {"ok", "err"} :
          t' \in tunnel_socket_ctx_on_getaddrinfo_cb(t, s, status, AnyHook)

\* libuv calls a stream's close callback after those of its requests.
OnTcpClosed(s) ==
    /\ t.sock[s].tcp = "closing"
    /\ ~t.sock[s].connecting /\ t.sock[s].writes = <<>>
    /\ t' = uv_socket_close_done_cb(Put(t, s, [t.sock[s] EXCEPT !.tcp = "closed"]), s)

OnTimerClosed(s) ==
    /\ t.sock[s].timer = "closing"
    /\ t' = uv_socket_close_done_cb(Put(t, s, [t.sock[s] EXCEPT !.timer = "closed"]), s)

\* The owner is called from elsewhere in the loop: the quit of the program
\* shuts every tunnel down, a datagram or a TLS record makes it use a socket.
OnOwnerEvent ==
    /\ ~t.is_terminated
    /\ t' \in AnyHook(t)

\* The owner gives its reference back once it is done with a closed tunnel.
OnOwnerRelease ==
    /\ t.held /\ t.is_terminated
    /\ t' = tunnel_ctx_release([t EXCEPT !.held = FALSE])

Init == \E listener, success \in BOOLEAN : t = tunnel_initialize(listener, success)

SocketEvent(s) ==
    \/ OnRead(s) \/ OnWritten(s) \/ OnConnect(s) \/ OnTimeout(s)
    \/ DnsWork(s) \/ OnGetaddrinfo(s) \/ OnTcpClosed(s) \/ OnTimerClosed(s)

Next == OnOwnerEvent \/ OnOwnerRelease \/ \E s \in Side : SocketEvent(s)

vars == <<t>>

Spec == Init /\ [][Next]_vars

\* What libuv owes a tunnel that was shut down.
Drain(s) ==
    /\ t.is_terminated
    /\ OnWritten(s) \/ OnConnect(s) \/ OnTcpClosed(s) \/ OnTimerClosed(s)

\* The loop delivers what libuv owes after uv_close, and the owner returns its
\* reference; nothing is assumed of a live tunnel: the peer, the resolver and
\* the owner may be as slow as they like.
Fairness == WF_vars(OnOwnerRelease) /\ \A s \in Side : WF_vars(Drain(s))

FairSpec == Spec /\ Fairness

-----------------------------------------------------------------------------
(* Properties. *)

TunnelType ==
    [ sock : [Side -> Socket(Payload)], ref : Nat, is_terminated : BOOLEAN,
      freed : BOOLEAN, stage : Stages, held : BOOLEAN,
      bad : SUBSET {"read", "write", "connect", "getaddrinfo", "close",
                    "on_read", "on_written", "stale"} ]

\* The type invariant: the tunnel and its sockets stay inside their types; in
\* particular no reference count and no closing_count becomes negative.
TypeOK == t \in TunnelType

One(b) == IF b THEN 1 ELSE 0

\* Reference counting of tunnel.c: a socket is referenced by its tunnel and
\* once by each handle still closing; the tunnel is referenced by itself until
\* the shutdown, by each socket that still has to report on_closed, and by its
\* owner; closing_count is the number of handles still closing; memory is
\* returned exactly when the last reference goes.
RefCounts ==
    /\ t.ref = One(~t.is_terminated) + One(t.sock["incoming"].on_closed)
             + One(t.sock["outgoing"].on_closed) + One(t.held)
    /\ t.freed <=> t.ref = 0
    /\ \A s \in Side :
          LET k == t.sock[s]
          IN  /\ k.ref = One(~t.freed) + CloseOwed(k)
              /\ k.freed <=> k.ref = 0
              /\ k.is_terminated = t.is_terminated
              /\ k.closing_count = CloseOwed(k)
              /\ k.on_closed <=> CloseOwed(k) > 0

\* No callback of tunnel.c runs on returned memory: as long as libuv may still
\* deliver a read, a write completion, a connect result, a timeout or a close
\* to a socket, the socket is allocated, and so is the tunnel its handlers
\* dereference.  (Name lookups are the exception: see GetaddrinfoSafe.)
NoStaleCallback ==
    /\ \A s \in Side :
          LET k == t.sock[s]
          IN  /\ EventOwed(k) \/ CloseOwed(k) > 0 => ~k.freed
              /\ EventOwed(k) \/ k.on_closed => ~t.freed
    /\ t.held => ~t.freed

\* Nothing leaks: when all handles of a shut down tunnel are closed and the
\* owner holds no reference, the tunnel and both sockets have been freed.
NoLeak ==
    ( /\ t.is_terminated /\ ~t.held
      /\ \A s \in Side : t.sock[s].tcp = "closed" /\ t.sock[s].timer = "closed" )
    => t.freed /\ \A s \in Side : t.sock[s].freed

\* The ASSERTs and VERIFYs of tunnel.c hold for every owner that keeps the
\* contract of SocketCalls: no callback finds a socket in a state its code
\* excludes, nothing is started on a closed handle.
AssertsHold == t.bad \subseteq {"stale"}

\* A freed socket is not written to again, and is never freed twice: no
\* callback but that of a late name lookup touches it.
FreedStep ==
    /\ \A s \in Side : t.sock[s].freed =>
          t'.sock[s] = [t.sock[s] EXCEPT !.dns = t'.sock[s].dns]
    /\ t.freed => t'.ref = t.ref /\ t'.freed

FreedIsFinal == [][FreedStep]_vars

\* A terminated socket starts nothing new: after socket_ctx_close the requests
\* in progress drain, no read, write, connect, lookup or timer is added.
ClosedStep ==
    \A s \in Side : t.sock[s].is_terminated =>
       LET k == t.sock[s]
           n == t'.sock[s]
       IN  /\ ~n.reading /\ ~n.ticking /\ n.is_terminated
           /\ Len(n.writes) <= Len(k.writes)
           /\ n.connecting => k.connecting
           /\ k.dns = "none" => n.dns = "none"

ClosedStaysClosed == [][ClosedStep]_vars

\* A shutdown is carried through: the tunnel and its sockets are freed in the
\* end, whatever was in progress when tunnel_shutdown was called.
ShutdownCompletes ==
    t.is_terminated ~> (t.freed /\ \A s \in Side : t.sock[s].freed)

\* libuv's rule for the memory of a request (docs/src/request.rst: "It's not
\* safe to free the memory associated with the request until the callback is
\* called"): a socket is not freed while a worker thread is executing the
\* uv_getaddrinfo_t inside it, which uv_cancel does not stop.
GetaddrinfoSafe == \A s \in Side : t.sock[s].dns = "running" => ~t.sock[s].freed
=============================================================================
