---------------------------- MODULE TunnelProofs -----------------------------
(***************************************************************************)
(* Proofs about Tunnel for every set of stages and payloads, every bound   *)
(* on queued writes and every owner that keeps the contract.               *)
(*                                                                         *)
(* RefCounts is not inductive by itself: that a handle closes only after   *)
(* the shutdown, and only once its requests are drained, is what makes the *)
(* counts and the owed callbacks agree.  SocketOK says this of one socket, *)
(* TunnelOK of the tunnel and both sockets.  They are predicates of a      *)
(* value, so that each function of tunnel.c has a lemma of its own and the *)
(* callbacks are proved by composing them.                                 *)
(***************************************************************************)
EXTENDS Tunnel, SequenceTheorems, TLAPS

\* What holds of a socket in a tunnel that is terminated / freed / streaming.
SocketOK(k, terminated, tfreed, streaming) ==
    /\ k \in Socket(Payload)
    /\ k.is_terminated = terminated
    /\ k.ref = One(~tfreed) + CloseOwed(k)
    /\ k.freed <=> k.ref = 0
    /\ k.closing_count = CloseOwed(k)
    /\ k.on_closed <=> CloseOwed(k) > 0
    /\ terminated => /\ ~k.reading /\ ~k.ticking
                     /\ k.tcp # "open" /\ k.timer # "open"
    /\ ~terminated => /\ k.tcp = "open" /\ k.timer = "open"
                      /\ k.rdstate # "dead" /\ k.wrstate # "dead"
    /\ k.tcp = "closed" => k.writes = <<>> /\ ~k.connecting
    /\ ~terminated /\ ~streaming =>
          /\ k.reading => k.rdstate = "busy"
          /\ IF k.wrstate = "busy" THEN Len(k.writes) = 1 ELSE k.writes = <<>>

TunnelOK(u) ==
    /\ u \in TunnelType
    /\ u.ref = One(~u.is_terminated) + One(u.sock["incoming"].on_closed)
             + One(u.sock["outgoing"].on_closed) + One(u.held)
    /\ u.freed <=> u.ref = 0
    /\ u.bad \subseteq {"stale"}
    /\ \A s \in Side :
          SocketOK(u.sock[s], u.is_terminated, u.freed, is_in_streaming(u))

\* The inductive invariant.
IInv == TunnelOK(t)

-----------------------------------------------------------------------------
(* One socket. *)

\* Nothing of a socket's lifetime differs between k and n.
SameLife(k, n) ==
    /\ n.is_terminated = k.is_terminated /\ n.ref = k.ref /\ n.freed = k.freed
    /\ n.closing_count = k.closing_count /\ n.on_closed = k.on_closed
    /\ n.tcp = k.tcp /\ n.timer = k.timer

\* A live socket whose I/O fields change within the rules stays a good one.
LEMMA IoOK ==
    ASSUME NEW k, NEW n \in Socket(Payload), NEW b \in BOOLEAN,
           SocketOK(k, FALSE, FALSE, b), SameLife(k, n),
           n.rdstate # "dead", n.wrstate # "dead",
           ~b => /\ n.reading => n.rdstate = "busy"
                 /\ IF n.wrstate = "busy" THEN Len(n.writes) = 1 ELSE n.writes = <<>>
    PROVE  SocketOK(n, FALSE, FALSE, b)
  BY DEF SocketOK, SameLife, CloseOwed, One

\* What SocketOK says of a live socket.
LEMMA LiveSocket ==
    ASSUME NEW k, NEW b \in BOOLEAN, SocketOK(k, FALSE, FALSE, b)
    PROVE  /\ k \in Socket(Payload)
           /\ k.is_terminated = FALSE /\ k.ref = 1 /\ k.freed = FALSE
           /\ k.closing_count = 0 /\ k.on_closed = FALSE
           /\ k.tcp = "open" /\ k.timer = "open"
           /\ k.rdstate # "dead" /\ k.wrstate # "dead"
           /\ ~b => /\ k.reading => k.rdstate = "busy"
                    /\ IF k.wrstate = "busy" THEN Len(k.writes) = 1 ELSE k.writes = <<>>
  BY DEF SocketOK, CloseOwed, One, Socket

\* A new socket is a good one, of a live tunnel.
LEMMA CreateOK ==
    ASSUME NEW c \in BOOLEAN, NEW b \in BOOLEAN
    PROVE  SocketOK(socket_context_create(c), FALSE, FALSE, b)
  BY DEF SocketOK, socket_context_create, Socket, socket_state,
         HandleState, DnsState, CloseOwed, One

\* socket_ctx_close leaves two references more, and no event but completions.
LEMMA CloseOK ==
    ASSUME NEW k, NEW b \in BOOLEAN, SocketOK(k, FALSE, FALSE, b)
    PROVE  SocketOK(socket_ctx_close(k), TRUE, FALSE, b)
  <1> DEFINE j == uv_cancel(k)
             n == socket_ctx_close(k)
  <1>1. k \in Socket(Payload) /\ k.ref = 1 /\ k.freed = FALSE
    BY LiveSocket
  <1>2. j \in Socket(Payload) /\ j.ref = 1 /\ j.freed = FALSE
    BY <1>1 DEF uv_cancel, Socket, DnsState
  <1>3. j.ref + 2 \in Nat /\ j.ref + 2 = 3
    BY <1>2
  <1> HIDE DEF j
  <1>4. n \in Socket(Payload)
    BY <1>2, <1>3, Zenon DEF socket_ctx_close, Socket, socket_state, HandleState, j
  <1>5. /\ n.is_terminated = TRUE /\ n.rdstate = "dead" /\ n.wrstate = "dead"
        /\ n.reading = FALSE /\ n.ticking = FALSE /\ n.ref = j.ref + 2
        /\ n.tcp = "closing" /\ n.timer = "closing" /\ n.closing_count = 2
        /\ n.on_closed = TRUE /\ n.freed = j.freed
    BY <1>2, Zenon DEF socket_ctx_close, Socket, j
  <1> HIDE DEF n
  <1>6. SocketOK(n, TRUE, FALSE, b)
    BY <1>2, <1>3, <1>4, <1>5 DEF SocketOK, CloseOwed, One
  <1> QED BY <1>6 DEF n

\* socket_ctx_write: what CanWrite and the one-write rule allow keeps a socket good.
LEMMA WriteOK ==
    ASSUME NEW k, NEW d \in Payload, NEW b \in BOOLEAN,
           SocketOK(k, FALSE, FALSE, b), b \/ k.wrstate = "stop"
    PROVE  SocketOK(socket_ctx_write(k, d), FALSE, FALSE, b)
  <1>0. k \in Socket(Payload)
    BY LiveSocket
  <1> DEFINE n == socket_ctx_write(k, d)
             w == Append(k.writes, d)
  <1>1. /\ w \in Seq(Payload)
        /\ k.writes = <<>> => Len(w) = 1
    BY <1>0 DEF Socket
  <1> HIDE DEF w
  <1>2. n \in Socket(Payload)
    BY <1>1, <1>0, Zenon DEF socket_ctx_write, Socket, socket_state, w
  <1>3. SameLife(k, n)
    BY <1>0, Zenon DEF socket_ctx_write, Socket, SameLife
  <1>4. /\ n.rdstate = k.rdstate /\ n.reading = k.reading
        /\ n.wrstate = "busy" /\ n.writes = w
    BY <1>0, Zenon DEF socket_ctx_write, Socket, w
  <1> HIDE DEF n
  <1>5. SocketOK(n, FALSE, FALSE, b)
    BY <1>1, <1>2, <1>3, <1>4, LiveSocket, IoOK
  <1> QED BY <1>5 DEF n

\* socket_ctx_read: a read that CanRead allows keeps a socket good.
LEMMA ReadOK ==
    ASSUME NEW k, NEW c \in BOOLEAN, NEW b \in BOOLEAN,
           SocketOK(k, FALSE, FALSE, b)
    PROVE  SocketOK(socket_ctx_read(k, c), FALSE, FALSE, b)
  <1>0. k \in Socket(Payload)
    BY LiveSocket
  <1> DEFINE n == socket_ctx_read(k, c)
  <1>1. n \in Socket(Payload)
    BY <1>0, Zenon DEF socket_ctx_read, Socket, socket_state
  <1>2. SameLife(k, n)
    BY <1>0, Zenon DEF socket_ctx_read, Socket, SameLife
  <1>3. /\ n.rdstate = "busy" /\ n.wrstate = k.wrstate /\ n.writes = k.writes
    BY <1>0, Zenon DEF socket_ctx_read, Socket
  <1> HIDE DEF n
  <1>4. SocketOK(n, FALSE, FALSE, b)
    BY <1>1, <1>2, <1>3, LiveSocket, IoOK
  <1> QED BY <1>4 DEF n

\* The operators that leave the reading and writing of a live socket alone.
LEMMA DialOK ==
    ASSUME NEW k, NEW b \in BOOLEAN, SocketOK(k, FALSE, FALSE, b)
    PROVE  /\ SocketOK(socket_ctx_connect(k), FALSE, FALSE, b)
           /\ SocketOK(socket_ctx_getaddrinfo(k), FALSE, FALSE, b)
           /\ SocketOK(socket_ctx_timer_start(k), FALSE, FALSE, b)
  <1>0. k \in Socket(Payload)
    BY LiveSocket
  <1> USE <1>0
  <1>1. SocketOK(socket_ctx_connect(k), FALSE, FALSE, b)
    <2> DEFINE n == socket_ctx_connect(k)
    <2>1. n \in Socket(Payload) /\ SameLife(k, n)
      BY Zenon DEF socket_ctx_connect, Socket, SameLife
    <2>2. /\ n.rdstate = k.rdstate /\ n.reading = k.reading
          /\ n.wrstate = k.wrstate /\ n.writes = k.writes
      BY Zenon DEF socket_ctx_connect, Socket
    <2> HIDE DEF n
    <2>3. SocketOK(n, FALSE, FALSE, b)
      BY <2>1, <2>2, LiveSocket, IoOK
    <2> QED BY <2>3 DEF n
  <1>2. SocketOK(socket_ctx_getaddrinfo(k), FALSE, FALSE, b)
    <2> DEFINE n == socket_ctx_getaddrinfo(k)
    <2>1. n \in Socket(Payload) /\ SameLife(k, n)
      BY Zenon DEF socket_ctx_getaddrinfo, Socket, DnsState, SameLife
    <2>2. /\ n.rdstate = k.rdstate /\ n.reading = k.reading
          /\ n.wrstate = k.wrstate /\ n.writes = k.writes
      BY Zenon DEF socket_ctx_getaddrinfo, Socket
    <2> HIDE DEF n
    <2>3. SocketOK(n, FALSE, FALSE, b)
      BY <2>1, <2>2, LiveSocket, IoOK
    <2> QED BY <2>3 DEF n
  <1>3. SocketOK(socket_ctx_timer_start(k), FALSE, FALSE, b)
    <2> DEFINE n == socket_ctx_timer_start(k)
    <2>1. n \in Socket(Payload) /\ SameLife(k, n)
      BY Zenon DEF socket_ctx_timer_start, Socket, SameLife
    <2>2. /\ n.rdstate = k.rdstate /\ n.reading = k.reading
          /\ n.wrstate = k.wrstate /\ n.writes = k.writes
      BY Zenon DEF socket_ctx_timer_start, Socket
    <2> HIDE DEF n
    <2>3. SocketOK(n, FALSE, FALSE, b)
      BY <2>1, <2>2, LiveSocket, IoOK
    <2> QED BY <2>3 DEF n
  <1> QED BY <1>1, <1>2, <1>3

\* An owner's acknowledgement of a read or a write keeps a socket good.
LEMMA AckedOK ==
    ASSUME NEW k, NEW b \in BOOLEAN, SocketOK(k, FALSE, FALSE, b)
    PROVE  SocketOK(Acked(k), FALSE, FALSE, b)
  <1>0. k \in Socket(Payload)
    BY LiveSocket
  <1> DEFINE n == Acked(k)
  <1>1. n \in Socket(Payload)
    BY <1>0 DEF Acked, Socket, socket_state
  <1>2. SameLife(k, n)
    BY <1>0, Zenon DEF Acked, Socket, SameLife
  <1>3. /\ n.rdstate = (IF k.rdstate = "done" THEN "stop" ELSE k.rdstate)
        /\ n.wrstate = (IF k.wrstate = "done" THEN "stop" ELSE k.wrstate)
        /\ n.reading = k.reading /\ n.writes = k.writes
    BY <1>0 DEF Acked, Socket
  <1> HIDE DEF n
  <1>4. SocketOK(n, FALSE, FALSE, b)
    BY <1>1, <1>2, <1>3, LiveSocket, IoOK
  <1> QED BY <1>4 DEF n

Closing(k) ==
    /\ k.is_terminated = TRUE /\ k.reading = FALSE /\ k.ticking = FALSE
    /\ k.tcp = "closing" /\ k.timer = "closing"

\* The requests of k are in progress in n, but a lookup may have been cancelled.
Cancelled(k, n) ==
    /\ n.writes = k.writes /\ n.connecting = k.connecting /\ n.connected = k.connected
    /\ k.dns = "none" => n.dns = "none"

\* The two socket operators of the closing sequence.
LEMMA CloseType ==
    ASSUME NEW k \in Socket(Payload)
    PROVE  /\ socket_ctx_close(k) \in Socket(Payload)
           /\ socket_ctx_close(k).ref = k.ref + 2
           /\ socket_ctx_close(k).on_closed = TRUE
           /\ socket_ctx_close(k).closing_count = 2
           /\ socket_ctx_close(k).freed = k.freed
           /\ Closing(socket_ctx_close(k)) /\ Cancelled(k, socket_ctx_close(k))
  <1> DEFINE j == uv_cancel(k)
             n == socket_ctx_close(k)
  <1>1. /\ j \in Socket(Payload) /\ j.ref = k.ref /\ j.freed = k.freed /\ Cancelled(k, j)
    BY DEF uv_cancel, Socket, DnsState, Cancelled
  <1>2. j.ref + 2 \in Nat /\ 2 \in Nat
    BY <1>1 DEF Socket
  <1>3. n = [j EXCEPT !.is_terminated = TRUE, !.rdstate = "dead", !.wrstate = "dead",
                      !.reading = FALSE, !.ticking = FALSE, !.ref = j.ref + 2,
                      !.tcp = "closing", !.timer = "closing",
                      !.closing_count = 2, !.on_closed = TRUE]
    BY DEF socket_ctx_close
  <1> HIDE DEF j, n
  <1>4. n \in Socket(Payload) /\ n.ref = j.ref + 2 /\ n.on_closed = TRUE
    BY <1>1, <1>2, <1>3, ZenonT(60) DEF Socket, socket_state, HandleState
  <1>5. n.closing_count = 2 /\ n.freed = j.freed /\ Closing(n)
    BY <1>1, <1>2, <1>3, ZenonT(60) DEF Socket, Closing
  <1>6. /\ n.writes = j.writes /\ n.connecting = j.connecting
        /\ n.connected = j.connected /\ n.dns = j.dns
    BY <1>1, <1>3, ZenonT(60) DEF Socket
  <1>7. Cancelled(k, n)
    BY <1>1, <1>6 DEF Cancelled
  <1> QED BY <1>1, <1>4, <1>5, <1>7 DEF n

\* socket_ctx_release takes one reference and stays inside the type.
LEMMA ReleaseType ==
    ASSUME NEW k \in Socket(Payload), k.ref # 0
    PROVE  LET n == socket_ctx_release(k)
           IN  /\ n \in Socket(Payload)
               /\ n.ref = k.ref - 1
               /\ n.freed <=> k.freed \/ k.ref = 1
               /\ n = [k EXCEPT !.ref = n.ref, !.freed = n.freed]
  <1> DEFINE r == k.ref - 1
             f == k.freed \/ k.ref <= 1
             n == socket_ctx_release(k)
  <1>1. r \in Nat /\ f \in BOOLEAN /\ (f <=> k.freed \/ k.ref = 1)
    BY DEF Socket
  <1>2. n = [k EXCEPT !.ref = r, !.freed = f]
    BY DEF socket_ctx_release
  <1> HIDE DEF r, f
  <1>3. n \in Socket(Payload) /\ n.ref = r /\ n.freed = f
    BY <1>1, <1>2, Zenon DEF Socket
  <1> QED BY <1>1, <1>2, <1>3 DEF r

-----------------------------------------------------------------------------
(* The tunnel. *)

\* Put changes one socket and nothing else of the tunnel.
LEMMA PutFacts ==
    ASSUME NEW u \in TunnelType, NEW s \in Side, NEW k \in Socket(Payload), NEW v,
           v = Put(u, s, k)
    PROVE  /\ v \in TunnelType
           /\ v.ref = u.ref /\ v.is_terminated = u.is_terminated
           /\ v.freed = u.freed /\ v.stage = u.stage
           /\ v.held = u.held /\ v.bad = u.bad
           /\ v.sock[s] = k
           /\ \A r \in Side : r # s => v.sock[r] = u.sock[r]
  BY DEF Put, TunnelType

\* The same, as one predicate.
PutForm(v, u, s, k) ==
    /\ v \in TunnelType
    /\ v.ref = u.ref /\ v.is_terminated = u.is_terminated
    /\ v.freed = u.freed /\ v.stage = u.stage
    /\ v.held = u.held /\ v.bad = u.bad
    /\ v.sock[s] = k
    /\ \A r \in Side : r # s => v.sock[r] = u.sock[r]

\* Put yields that predicate.
LEMMA PutFormOK ==
    ASSUME NEW u \in TunnelType, NEW s \in Side, NEW k \in Socket(Payload), NEW v,
           v = Put(u, s, k)
    PROVE  PutForm(v, u, s, k)
  BY PutFacts DEF PutForm

\* An assertion that holds leaves the tunnel as it is.
LEMMA AssertTrue ==
    ASSUME NEW u, NEW c, c, NEW what
    PROVE  Assert(u, c, what) = u
  BY DEF Assert

\* Where tunnel_shutdown finds nothing closed yet, it closes both sockets and
\* ends with one reference more: two for the sockets, its own given back.
LEMMA ShutdownForm ==
    ASSUME NEW u \in TunnelType, ~u.is_terminated, u.ref # 0,
           \A s \in Side : /\ ~u.sock[s].is_terminated
                           /\ u.sock[s].rdstate # "dead"
                           /\ u.sock[s].wrstate # "dead"
    PROVE  LET v == tunnel_shutdown(u)
           IN  /\ v \in TunnelType
               /\ v.ref = u.ref + 1 /\ v.is_terminated = TRUE
               /\ v.freed = u.freed /\ v.stage = u.stage
               /\ v.held = u.held /\ v.bad = u.bad
               /\ \A s \in Side : v.sock[s] = socket_ctx_close(u.sock[s])
  <1> DEFINE a == tunnel_ctx_add_ref([u EXCEPT !.is_terminated = TRUE])
             c == CloseSocket(a, "incoming")
             b == tunnel_ctx_add_ref(c)
             d == CloseSocket(b, "outgoing")
             v == tunnel_shutdown(u)
  <1>1. /\ a \in TunnelType /\ a.ref = u.ref + 1 /\ a.is_terminated = TRUE
        /\ a.freed = u.freed /\ a.stage = u.stage /\ a.held = u.held
        /\ a.bad = u.bad /\ a.sock = u.sock
    <2> DEFINE e == [u EXCEPT !.is_terminated = TRUE]
    <2>1. /\ e \in TunnelType /\ e.ref = u.ref /\ e.is_terminated = TRUE
          /\ e.freed = u.freed /\ e.stage = u.stage /\ e.held = u.held
          /\ e.bad = u.bad /\ e.sock = u.sock
      BY Zenon DEF TunnelType
    <2>2. e.ref + 1 \in Nat
      BY <2>1 DEF TunnelType
    <2>3. a = [e EXCEPT !.ref = e.ref + 1]
      BY DEF tunnel_ctx_add_ref
    <2> HIDE DEF e
    <2> QED BY <2>1, <2>2, <2>3, Zenon DEF TunnelType
  <1>0. /\ "incoming" \in Side /\ "outgoing" \in Side
        /\ \A s \in Side : u.sock[s] \in Socket(Payload)
        /\ \A s \in Side : socket_ctx_close(u.sock[s]) \in Socket(Payload)
    BY CloseType DEF Side, TunnelType
  <1> HIDE DEF a, b, c, d, v
  <1>2. c = Put(a, "incoming", socket_ctx_close(u.sock["incoming"]))
    BY <1>1, <1>0, AssertTrue DEF CloseSocket, c
  <1>3. /\ c \in TunnelType /\ c.ref = u.ref + 1 /\ c.is_terminated = TRUE
        /\ c.freed = u.freed /\ c.stage = u.stage /\ c.held = u.held
        /\ c.bad = u.bad
        /\ c.sock["incoming"] = socket_ctx_close(u.sock["incoming"])
        /\ c.sock["outgoing"] = u.sock["outgoing"]
    <2> DEFINE k == socket_ctx_close(u.sock["incoming"])
    <2>1. /\ a \in TunnelType /\ "incoming" \in Side /\ k \in Socket(Payload)
          /\ c = Put(a, "incoming", k)
      BY <1>0, <1>1, <1>2
    <2> HIDE DEF k
    <2>2. /\ c \in TunnelType /\ c.ref = a.ref /\ c.is_terminated = a.is_terminated
          /\ c.freed = a.freed /\ c.stage = a.stage /\ c.held = a.held
          /\ c.bad = a.bad /\ c.sock["incoming"] = k
          /\ \A r \in Side : r # "incoming" => c.sock[r] = a.sock[r]
      BY <2>1, PutFacts
    <2> QED BY <1>0, <1>1, <2>1, <2>2 DEF k
  <1>4. /\ b \in TunnelType /\ b.ref = u.ref + 2 /\ b.is_terminated = TRUE
        /\ b.freed = u.freed /\ b.stage = u.stage /\ b.held = u.held
        /\ b.bad = u.bad /\ b.sock = c.sock
    <2>1. u.ref \in Nat
      BY DEF TunnelType
    <2> QED BY <1>3, <2>1 DEF tunnel_ctx_add_ref, TunnelType, b
  <1>5. d = Put(b, "outgoing", socket_ctx_close(u.sock["outgoing"]))
    BY <1>3, <1>4, <1>0, AssertTrue DEF CloseSocket, d
  <1>6. /\ d \in TunnelType /\ d.ref = u.ref + 2 /\ d.is_terminated = TRUE
        /\ d.freed = u.freed /\ d.stage = u.stage /\ d.held = u.held
        /\ d.bad = u.bad
        /\ d.sock["incoming"] = socket_ctx_close(u.sock["incoming"])
        /\ d.sock["outgoing"] = socket_ctx_close(u.sock["outgoing"])
    <2> DEFINE k == socket_ctx_close(u.sock["outgoing"])
    <2>1. /\ b \in TunnelType /\ "outgoing" \in Side /\ k \in Socket(Payload)
          /\ d = Put(b, "outgoing", k)
      BY <1>0, <1>4, <1>5
    <2> HIDE DEF k
    <2>2. /\ d \in TunnelType /\ d.ref = b.ref /\ d.is_terminated = b.is_terminated
          /\ d.freed = b.freed /\ d.stage = b.stage /\ d.held = b.held
          /\ d.bad = b.bad /\ d.sock["outgoing"] = k
          /\ \A r \in Side : r # "outgoing" => d.sock[r] = b.sock[r]
      BY <2>1, PutFacts
    <2> QED BY <1>0, <1>3, <1>4, <2>1, <2>2 DEF k
  <1>7. v = tunnel_ctx_release(d)
    BY DEF tunnel_shutdown, a, b, c, d, v
  <1>8. /\ v \in TunnelType
        /\ v.ref = u.ref + 1 /\ v.is_terminated = TRUE
        /\ v.freed = u.freed /\ v.stage = u.stage
        /\ v.held = u.held /\ v.bad = u.bad /\ v.sock = d.sock
    <2>1. u.ref \in Nat /\ ~(d.ref <= 1) /\ d.ref - 1 = u.ref + 1
      BY <1>6 DEF TunnelType
    <2>2. v = [d EXCEPT !.ref = u.ref + 1]
      BY <1>7, <2>1 DEF tunnel_ctx_release
    <2> QED BY <1>6, <2>1, <2>2 DEF TunnelType
  <1>9. \A s \in Side : v.sock[s] = socket_ctx_close(u.sock[s])
    BY <1>6, <1>8 DEF Side
  <1> QED BY <1>8, <1>9 DEF v

\* What TunnelOK says of a tunnel that is not shut down.
LEMMA LiveTunnel ==
    ASSUME NEW u, TunnelOK(u), ~u.is_terminated
    PROVE  /\ u \in TunnelType /\ u.is_terminated = FALSE /\ u.freed = FALSE
           /\ is_in_streaming(u) \in BOOLEAN
           /\ u.ref = 1 + One(u.held) /\ u.ref # 0 /\ u.ref \in Nat
           /\ u.bad \subseteq {"stale"}
           /\ \A s \in Side : SocketOK(u.sock[s], FALSE, FALSE, is_in_streaming(u))
  <1>1. u \in TunnelType /\ u.is_terminated = FALSE
    BY DEF TunnelOK, TunnelType
  <1>2. u.ref \in Nat /\ u.freed \in BOOLEAN /\ u.held \in BOOLEAN
    BY <1>1 DEF TunnelType
  <1>3. is_in_streaming(u) \in BOOLEAN
    BY DEF is_in_streaming
  <1>4. \A s \in Side : u.sock[s].on_closed = FALSE
    BY <1>1, <1>2 DEF TunnelOK, SocketOK, CloseOwed, Socket, TunnelType
  <1>5. u.ref = 1 + One(u.held) /\ u.ref # 0 /\ u.freed = FALSE
    BY <1>1, <1>2, <1>4 DEF TunnelOK, One, Side
  <1>6. \A s \in Side : SocketOK(u.sock[s], FALSE, FALSE, is_in_streaming(u))
    BY <1>1, <1>5 DEF TunnelOK
  <1> QED BY <1>1, <1>2, <1>3, <1>5, <1>6 DEF TunnelOK

\* The converse, for a tunnel put together field by field.
LEMMA MakeLive ==
    ASSUME NEW u \in TunnelType, u.is_terminated = FALSE, u.freed = FALSE,
           u.ref = 1 + One(u.held), u.bad \subseteq {"stale"},
           \A s \in Side : SocketOK(u.sock[s], FALSE, FALSE, is_in_streaming(u))
    PROVE  TunnelOK(u)
  <1>1. u.held \in BOOLEAN /\ is_in_streaming(u) \in BOOLEAN
    BY DEF TunnelType, is_in_streaming
  <1>2. \A s \in Side : u.sock[s].on_closed = FALSE
    BY <1>1, LiveSocket
  <1>3. u.ref = One(~u.is_terminated) + One(u.sock["incoming"].on_closed)
             + One(u.sock["outgoing"].on_closed) + One(u.held)
    BY <1>1, <1>2 DEF One, Side
  <1>4. u.freed <=> u.ref = 0
    BY <1>1 DEF One
  <1> QED BY <1>3, <1>4 DEF TunnelOK

\* tunnel_shutdown leaves a good tunnel, in whatever state it finds it.
LEMMA ShutdownOK ==
    ASSUME NEW u, TunnelOK(u)
    PROVE  TunnelOK(tunnel_shutdown(u))
  <1>1. CASE u.is_terminated
    BY <1>1 DEF tunnel_shutdown
  <1>2. CASE ~u.is_terminated
    <2> DEFINE v == tunnel_shutdown(u)
    <2>1. /\ u \in TunnelType /\ u.is_terminated = FALSE /\ u.freed = FALSE
          /\ is_in_streaming(u) \in BOOLEAN
          /\ u.ref = 1 + One(u.held) /\ u.ref # 0 /\ u.bad \subseteq {"stale"}
          /\ \A s \in Side : SocketOK(u.sock[s], FALSE, FALSE, is_in_streaming(u))
      BY <1>2, LiveTunnel
    <2>2. \A s \in Side : /\ ~u.sock[s].is_terminated
                          /\ u.sock[s].rdstate # "dead"
                          /\ u.sock[s].wrstate # "dead"
      BY <2>1, LiveSocket
    <2>3. /\ v \in TunnelType
          /\ v.ref = u.ref + 1 /\ v.is_terminated = TRUE
          /\ v.freed = u.freed /\ v.stage = u.stage
          /\ v.held = u.held /\ v.bad = u.bad
          /\ \A s \in Side : v.sock[s] = socket_ctx_close(u.sock[s])
      BY <1>2, <2>1, <2>2, ShutdownForm
    <2> HIDE DEF v
    <2>4. is_in_streaming(v) = is_in_streaming(u)
      BY <2>3 DEF is_in_streaming
    <2>5. \A s \in Side : SocketOK(v.sock[s], TRUE, FALSE, is_in_streaming(v))
      BY <2>1, <2>3, <2>4, CloseOK
    <2>6. \A s \in Side : v.sock[s].on_closed = TRUE
      BY <2>1, <2>3, LiveSocket, CloseType
    <2>7. /\ v.held \in BOOLEAN /\ v.ref = 2 + One(v.held) /\ v.ref # 0
      BY <2>1, <2>3 DEF TunnelType, One
    <2>8. v.ref = One(~v.is_terminated) + One(v.sock["incoming"].on_closed)
                + One(v.sock["outgoing"].on_closed) + One(v.held)
      BY <2>3, <2>6, <2>7 DEF One, Side
    <2>9. TunnelOK(v)
      BY <2>1, <2>3, <2>5, <2>7, <2>8 DEF TunnelOK
    <2> QED BY <2>9 DEF v
  <1> QED BY <1>1, <1>2

\* Changing one socket of a live tunnel.
LEMMA PutOK ==
    ASSUME NEW u, TunnelOK(u), ~u.is_terminated, NEW s \in Side, NEW k,
           SocketOK(k, FALSE, FALSE, is_in_streaming(u))
    PROVE  TunnelOK(Put(u, s, k)) /\ ~Put(u, s, k).is_terminated
  <1> DEFINE v == Put(u, s, k)
  <1>1. /\ u \in TunnelType /\ u.is_terminated = FALSE /\ u.freed = FALSE
        /\ u.ref = 1 + One(u.held) /\ u.bad \subseteq {"stale"}
        /\ \A r \in Side : SocketOK(u.sock[r], FALSE, FALSE, is_in_streaming(u))
    BY LiveTunnel
  <1>2. k \in Socket(Payload)
    BY DEF SocketOK
  <1>3. /\ v \in TunnelType
        /\ v.ref = u.ref /\ v.is_terminated = u.is_terminated
        /\ v.freed = u.freed /\ v.stage = u.stage
        /\ v.held = u.held /\ v.bad = u.bad /\ v.sock[s] = k
        /\ \A r \in Side : r # s => v.sock[r] = u.sock[r]
    BY <1>1, <1>2, PutFacts
  <1> HIDE DEF v
  <1>4. is_in_streaming(v) = is_in_streaming(u)
    BY <1>3 DEF is_in_streaming
  <1>5. \A r \in Side : SocketOK(v.sock[r], FALSE, FALSE, is_in_streaming(v))
    BY <1>1, <1>3, <1>4
  <1>6. TunnelOK(v) /\ ~v.is_terminated
    BY <1>1, <1>3, <1>5, MakeLive
  <1> QED BY <1>6 DEF v

-----------------------------------------------------------------------------
(* The owner's hooks. *)

\* Whatever the calls of one hook make of a socket, it stays a good one.
LEMMA SocketCallsOK ==
    ASSUME NEW u, TunnelOK(u), ~u.is_terminated, NEW s \in Side,
           NEW n \in SocketCalls(u, s)
    PROVE  SocketOK(n, FALSE, FALSE, is_in_streaming(u))
  <1> DEFINE b == is_in_streaming(u)
             k == Acked(u.sock[s])
  <1>1. b \in BOOLEAN /\ SocketOK(u.sock[s], FALSE, FALSE, b)
    BY LiveTunnel
  <1>2. SocketOK(k, FALSE, FALSE, b)
    BY <1>1, AckedOK
  <1>3. n \in SocketDials(k) \/ \E j \in SocketWrites(u, k) : n \in SocketReads(j)
    BY DEF SocketCalls
  <1>4. ASSUME NEW j \in SocketWrites(u, k)
        PROVE  SocketOK(j, FALSE, FALSE, b)
    <2>1. j = k \/ \E d \in Payload : /\ j = socket_ctx_write(k, d)
                                      /\ b \/ k.wrstate = "stop"
      BY <1>4 DEF SocketWrites
    <2> HIDE DEF b, k
    <2> QED BY <1>1, <1>2, <2>1, WriteOK
  <1>5. ASSUME NEW j \in SocketWrites(u, k), n \in SocketReads(j)
        PROVE  SocketOK(n, FALSE, FALSE, b)
    <2>1. n = j \/ \E c \in BOOLEAN : n = socket_ctx_read(j, c)
      BY <1>5 DEF SocketReads
    <2>2. SocketOK(j, FALSE, FALSE, b)
      BY <1>4
    <2> HIDE DEF b, k
    <2> QED BY <1>1, <2>1, <2>2, ReadOK
  <1>6. ASSUME n \in SocketDials(k)
        PROVE  SocketOK(n, FALSE, FALSE, b)
    <2>1. n = socket_ctx_connect(k) \/ n = socket_ctx_getaddrinfo(k)
      BY <1>6 DEF SocketDials
    <2> HIDE DEF b, k
    <2> QED BY <1>1, <1>2, <2>1, DialOK
  <1> QED BY <1>3, <1>5, <1>6

\* Entering the streaming stage only gives up rules.
LEMMA StreamOK ==
    ASSUME NEW k, NEW b \in BOOLEAN, SocketOK(k, FALSE, FALSE, b)
    PROVE  SocketOK(k, FALSE, FALSE, TRUE)
  BY DEF SocketOK

\* The calls of one hook on both sockets, a new stage and a reference taken.
LEMMA OwnerCallsOK ==
    ASSUME NEW u, TunnelOK(u), ~u.is_terminated, NEW v \in OwnerCalls(u)
    PROVE  TunnelOK(v) /\ ~v.is_terminated
  <1>1. /\ u \in TunnelType /\ u.is_terminated = FALSE /\ u.freed = FALSE
        /\ is_in_streaming(u) \in BOOLEAN
        /\ u.ref = 1 + One(u.held) /\ u.ref \in Nat /\ u.bad \subseteq {"stale"}
    BY LiveTunnel
  <1>2. ASSUME NEW w \in UnheldCalls(u)
        PROVE  /\ w \in TunnelType /\ w.is_terminated = FALSE /\ w.freed = FALSE
               /\ w.ref = u.ref /\ w.held = u.held /\ w.bad \subseteq {"stale"}
               /\ \A s \in Side : SocketOK(w.sock[s], FALSE, FALSE, is_in_streaming(w))
    <2>1. PICK ki \in SocketCalls(u, "incoming"), ko \in SocketCalls(u, "outgoing"),
               st \in NextStages(u) :
            w = AfterCalls(u, ki, ko, st)
      BY <1>2 DEF UnheldCalls
    <2> DEFINE S == [s \in Side |-> IF s = "incoming" THEN ki ELSE ko]
    <2>2. \A s \in Side : SocketOK(S[s], FALSE, FALSE, is_in_streaming(u))
      BY SocketCallsOK DEF Side
    <2>3. S \in [Side -> Socket(Payload)]
      <3>1. \A s \in Side : S[s] \in Socket(Payload)
        BY <2>2 DEF SocketOK
      <3> QED BY <3>1
    <2>4. st \in Stages
      BY StagesAssumption DEF NextStages
    <2>5. w = [u EXCEPT !.sock = S, !.stage = st]
      BY <2>1 DEF AfterCalls
    <2> HIDE DEF S
    <2>6. /\ w \in TunnelType /\ w.is_terminated = u.is_terminated
          /\ w.freed = u.freed /\ w.ref = u.ref /\ w.held = u.held
          /\ w.bad = u.bad /\ w.sock = S /\ w.stage = st
      BY <1>1, <2>3, <2>4, <2>5, Zenon DEF TunnelType
    <2>7. /\ is_in_streaming(w) \in BOOLEAN
          /\ is_in_streaming(u) => is_in_streaming(w)
      <3>1. w.stage = st
        BY <2>6
      <3>2. is_in_streaming(u) => st \in StreamingStages
        BY DEF NextStages
      <3> QED BY <3>1, <3>2 DEF is_in_streaming
    <2>8. \A s \in Side : SocketOK(w.sock[s], FALSE, FALSE, is_in_streaming(w))
      BY <1>1, <2>2, <2>6, <2>7, StreamOK
    <2> QED BY <1>1, <2>6, <2>8
  <1>3. v \in UnheldCalls(u) \/ (~u.held /\ \E w \in UnheldCalls(u) : v = Hold(w))
    BY DEF OwnerCalls
  <1>4. CASE v \in UnheldCalls(u)
    BY <1>1, <1>2, <1>4, MakeLive
  <1>5. CASE ~u.held /\ \E w \in UnheldCalls(u) : v = Hold(w)
    <2>1. PICK w \in UnheldCalls(u) : v = Hold(w)
      BY <1>5
    <2>2. /\ w \in TunnelType /\ w.is_terminated = FALSE /\ w.freed = FALSE
          /\ w.ref = u.ref /\ w.held = u.held /\ w.bad \subseteq {"stale"}
          /\ \A s \in Side : SocketOK(w.sock[s], FALSE, FALSE, is_in_streaming(w))
      BY <1>2
    <2>3. w.ref + 1 \in Nat /\ w.ref = 1
      BY <1>1, <1>5, <2>2 DEF One
    <2>4. v = [w EXCEPT !.ref = w.ref + 1, !.held = TRUE]
      BY <2>1, <2>2, Zenon DEF Hold, tunnel_ctx_add_ref, TunnelType
    <2>5. /\ v \in TunnelType /\ v.is_terminated = w.is_terminated
          /\ v.freed = w.freed /\ v.ref = w.ref + 1 /\ v.held = TRUE
          /\ v.bad = w.bad /\ v.sock = w.sock /\ v.stage = w.stage
      BY <2>2, <2>3, <2>4, Zenon DEF TunnelType
    <2>6. is_in_streaming(v) = is_in_streaming(w) /\ v.ref = 1 + One(v.held)
      BY <2>3, <2>5 DEF is_in_streaming, One
    <2> QED BY <2>2, <2>5, <2>6, MakeLive
  <1> QED BY <1>3, <1>4, <1>5

\* Whatever the owner does in a hook leaves a good tunnel.
LEMMA HookOK ==
    ASSUME NEW u, TunnelOK(u), ~u.is_terminated, NEW v \in AnyHook(u)
    PROVE  TunnelOK(v)
  <1>1. v \in OwnerCalls(u) \/ \E w \in OwnerCalls(u) : v = tunnel_shutdown(w)
    BY DEF AnyHook
  <1>2. \A w \in OwnerCalls(u) : TunnelOK(w)
    BY OwnerCallsOK
  <1> QED BY <1>1, <1>2, ShutdownOK

-----------------------------------------------------------------------------
(* Callbacks that leave the reference counts alone. *)

\* Changing one socket of any tunnel, its on_closed excepted.
LEMMA PutAny ==
    ASSUME NEW u, TunnelOK(u), NEW s \in Side, NEW k,
           SocketOK(k, u.is_terminated, u.freed, is_in_streaming(u)),
           k.on_closed = u.sock[s].on_closed
    PROVE  TunnelOK(Put(u, s, k))
  <1> DEFINE v == Put(u, s, k)
  <1>1. u \in TunnelType /\ k \in Socket(Payload)
    BY DEF TunnelOK, SocketOK
  <1>2. /\ v \in TunnelType
        /\ v.ref = u.ref /\ v.is_terminated = u.is_terminated
        /\ v.freed = u.freed /\ v.stage = u.stage
        /\ v.held = u.held /\ v.bad = u.bad /\ v.sock[s] = k
        /\ \A r \in Side : r # s => v.sock[r] = u.sock[r]
    BY <1>1, PutFacts
  <1> HIDE DEF v
  <1>3. is_in_streaming(v) = is_in_streaming(u)
    BY <1>2 DEF is_in_streaming
  <1>4. \A r \in Side : /\ v.sock[r].on_closed = u.sock[r].on_closed
                        /\ SocketOK(v.sock[r], v.is_terminated, v.freed, is_in_streaming(v))
    BY <1>2, <1>3 DEF TunnelOK
  <1>5. TunnelOK(v)
    BY <1>2, <1>4 DEF TunnelOK, Side
  <1> QED BY <1>5 DEF v

\* A terminated socket whose requests only get fewer stays a good one.
LEMMA DrainOK ==
    ASSUME NEW k, NEW n \in Socket(Payload), NEW f \in BOOLEAN, NEW b \in BOOLEAN,
           SocketOK(k, TRUE, f, b), SameLife(k, n), ~n.reading, ~n.ticking,
           n.tcp = "closed" => n.writes = <<>> /\ ~n.connecting
    PROVE  SocketOK(n, TRUE, f, b)
  BY DEF SocketOK, SameLife, CloseOwed, One

\* The read callback before the hook: its assertion holds, the tunnel stays good.
LEMMA ReadEnterOK ==
    ASSUME NEW u, TunnelOK(u), ~u.is_terminated, NEW s \in Side,
           u.sock[s].reading, NEW status \in {"data", "eof", "error"}
    PROVE  TunnelOK(ReadEnter(u, s, status)) /\ ~ReadEnter(u, s, status).is_terminated
  <1> DEFINE b == is_in_streaming(u)
             k == u.sock[s]
             e == IF status = "data" THEN "ok" ELSE "err"
             g == b /\ status = "data"
             d == IF status = "data" THEN "done" ELSE "stop"
             n == [k EXCEPT !.result = e, !.reading = g, !.ticking = FALSE, !.rdstate = d]
  <1>1. b \in BOOLEAN /\ SocketOK(k, FALSE, FALSE, b)
    BY LiveTunnel
  <1>2. k \in Socket(Payload) /\ (b \/ k.rdstate = "busy")
        /\ k.wrstate # "dead"
        /\ (~b => IF k.wrstate = "busy" THEN Len(k.writes) = 1 ELSE k.writes = <<>>)
    <2> HIDE DEF b, k
    <2>1. k.reading
      BY DEF k
    <2> QED BY <1>1, <2>1, LiveSocket
  <1>3. e \in {"ok", "err"} /\ g \in BOOLEAN /\ d \in socket_state /\ d # "dead"
        /\ (~b => ~g)
    BY <1>1 DEF socket_state
  <1>4. ReadEnter(u, s, status) = Put(u, s, n)
    BY <1>2 DEF ReadEnter, Assert
  <1> HIDE DEF b, k, e, g, d
  <1>5. n \in Socket(Payload) /\ SameLife(k, n)
    BY <1>2, <1>3, Zenon DEF Socket, SameLife
  <1>6. n.reading = g /\ n.rdstate = d /\ n.wrstate = k.wrstate /\ n.writes = k.writes
    BY <1>2, Zenon DEF Socket
  <1> HIDE DEF n
  <1>7. SocketOK(n, FALSE, FALSE, b)
    BY <1>1, <1>2, <1>3, <1>5, <1>6, IoOK
  <1> QED BY <1>4, <1>7, PutOK DEF b

\* The read callback after the hook: the timer is restarted only if still open.
LEMMA ReadLeaveOK ==
    ASSUME NEW v, TunnelOK(v), NEW s \in Side
    PROVE  TunnelOK(ReadLeave(v, s))
  <1>1. CASE ~v.is_terminated /\ is_in_streaming(v) /\ v.sock[s].check_timeout
    <2>1. /\ SocketOK(v.sock[s], FALSE, FALSE, is_in_streaming(v))
          /\ is_in_streaming(v) \in BOOLEAN
      BY <1>1, LiveTunnel
    <2>2. SocketOK(socket_ctx_timer_start(v.sock[s]), FALSE, FALSE, is_in_streaming(v))
      BY <2>1, DialOK
    <2> QED BY <1>1, <2>2, PutOK DEF ReadLeave
  <1>2. CASE ~(~v.is_terminated /\ is_in_streaming(v) /\ v.sock[s].check_timeout)
    BY <1>2 DEF ReadLeave
  <1> QED BY <1>1, <1>2

\* The read callback, with any owner behind it, preserves the invariant.
LEMMA OnReadOK ==
    ASSUME NEW u, TunnelOK(u), NEW s \in Side, u.sock[s].reading,
           NEW status \in {"data", "eof", "error"},
           NEW v \in tunnel_socket_ctx_on_read_cb(u, s, status, AnyHook, AnyHook)
    PROVE  TunnelOK(v)
  <1> DEFINE a == ReadEnter(u, s, status)
  <1>1. ~u.is_terminated
    BY DEF TunnelOK, SocketOK, TunnelType
  <1>2. TunnelOK(a) /\ ~a.is_terminated
    BY <1>1, ReadEnterOK
  <1> HIDE DEF a
  <1>3. \/ \E w \in AnyHook(a) : v = ReadLeave(w, s)
        \/ v \in AnyHook(a)
        \/ v = tunnel_shutdown(a)
    BY <1>1 DEF tunnel_socket_ctx_on_read_cb, a
  <1>4. ASSUME NEW w \in AnyHook(a)
        PROVE  TunnelOK(w)
    BY <1>2, HookOK
  <1> QED BY <1>2, <1>3, <1>4, ReadLeaveOK, ShutdownOK

\* A queue without its first element is one; a queue of one becomes empty.
LEMMA TailOK ==
    ASSUME NEW S, NEW q \in Seq(S), q # <<>>
    PROVE  Tail(q) \in Seq(S) /\ (Len(q) = 1 => Tail(q) = <<>>)
  <1>1. Tail(q) \in Seq(S) /\ Len(Tail(q)) = Len(q) - 1
    BY HeadTailProperties
  <1>2. ASSUME Len(q) = 1
        PROVE  Tail(q) = <<>>
    <2>1. \A e \in Seq(S) : e # <<>> => Len(e) \in Nat \ {0}
      BY EmptySeq, Zenon
    <2>2. Tail(q) \in Seq(S) /\ ~(Len(Tail(q)) \in Nat \ {0})
      BY <1>1, <1>2
    <2> QED BY <2>1, <2>2, Zenon
  <1> QED BY <1>1, <1>2

\* The completion of a write preserves the invariant, also after a shutdown.
LEMMA OnWrittenOK ==
    ASSUME NEW u, TunnelOK(u), NEW s \in Side, u.sock[s].writes # <<>>,
           NEW status \in {"ok", "err"},
           NEW v \in tunnel_socket_ctx_on_written_cb(u, s, status, AnyHook)
    PROVE  TunnelOK(v)
  <1> DEFINE b == is_in_streaming(u)
             j == u.sock[s]
             w == Tail(j.writes)
             k == [j EXCEPT !.writes = w, !.result = status]
  <1>1. /\ b \in BOOLEAN /\ u.freed \in BOOLEAN /\ u.is_terminated \in BOOLEAN
        /\ SocketOK(j, u.is_terminated, u.freed, b)
    BY DEF TunnelOK, TunnelType, is_in_streaming
  <1>2. j \in Socket(Payload)
    BY <1>1 DEF SocketOK
  <1>3. w \in Seq(Payload) /\ (Len(j.writes) = 1 => w = <<>>)
    <2>1. j.writes \in Seq(Payload) /\ j.writes # <<>>
      BY <1>2, Zenon DEF Socket
    <2> HIDE DEF j
    <2> QED BY <2>1, TailOK
  <1> HIDE DEF b, w
  <1>4. k \in Socket(Payload) /\ SameLife(j, k)
    BY <1>2, <1>3, Zenon DEF Socket, SameLife
  <1>5. /\ k.writes = w /\ k.rdstate = j.rdstate /\ k.wrstate = j.wrstate
        /\ k.reading = j.reading /\ k.ticking = j.ticking
        /\ k.connecting = j.connecting
    BY <1>2, Zenon DEF Socket
  <1>6. j.writes # <<>>
    OBVIOUS
  <1>c. /\ u.is_terminated => v = Put(u, s, k)
        /\ ~u.is_terminated /\ status = "ok"
             => v \in AnyHook(Assert(Put(u, s, [k EXCEPT !.wrstate = "done"]),
                                     b \/ k.wrstate = "busy", "on_written"))
        /\ ~u.is_terminated /\ status = "err"
             => v = tunnel_shutdown(Put(u, s, [k EXCEPT !.wrstate = "stop"]))
    BY DEF tunnel_socket_ctx_on_written_cb, b, w
  <1> HIDE DEF k, j
  <1>7. CASE u.is_terminated
    <2>1. /\ SocketOK(j, TRUE, u.freed, b) /\ j.tcp # "closed"
          /\ ~j.reading /\ ~j.ticking
      BY <1>1, <1>6, <1>7 DEF SocketOK
    <2>t. k.tcp = j.tcp
      BY <1>4 DEF SameLife
    <2>2. SocketOK(k, TRUE, u.freed, b)
      BY <1>1, <1>4, <1>5, <2>1, <2>t, DrainOK
    <2>3. k.on_closed = j.on_closed
      BY <1>4 DEF SameLife
    <2>4. SocketOK(k, u.is_terminated, u.freed, is_in_streaming(u))
      BY <1>1, <1>7, <2>2 DEF b
    <2>5. TunnelOK(Put(u, s, k))
      BY <2>3, <2>4, PutAny DEF j
    <2> QED BY <1>7, <1>c, <2>5
  <1>8. CASE ~u.is_terminated
    <2>1. /\ SocketOK(j, FALSE, FALSE, b) /\ j.rdstate # "dead"
          /\ ~b => /\ j.reading => j.rdstate = "busy"
                   /\ j.wrstate = "busy" /\ Len(j.writes) = 1
      <3>1. SocketOK(j, FALSE, FALSE, b)
        BY <1>8, LiveTunnel DEF j, b
      <3> QED BY <1>1, <1>6, <3>1, LiveSocket
    <2>2. ASSUME NEW x \in {"done", "stop"}
          PROVE  /\ TunnelOK(Put(u, s, [k EXCEPT !.wrstate = x]))
                 /\ ~Put(u, s, [k EXCEPT !.wrstate = x]).is_terminated
      <3> DEFINE n == [k EXCEPT !.wrstate = x]
      <3>1. n \in Socket(Payload) /\ SameLife(j, n)
        BY <1>4, Zenon DEF Socket, SameLife, socket_state
      <3>2. /\ n.rdstate = k.rdstate /\ n.reading = k.reading
            /\ n.wrstate = x /\ n.writes = k.writes
        BY <1>4, Zenon DEF Socket
      <3> HIDE DEF n
      <3>3. n.wrstate # "dead" /\ n.wrstate # "busy"
        BY <3>2
      <3>4. SocketOK(n, FALSE, FALSE, b)
        BY <1>1, <1>3, <1>5, <2>1, <3>1, <3>2, <3>3, IoOK
      <3>5. TunnelOK(Put(u, s, n)) /\ ~Put(u, s, n).is_terminated
        BY <1>8, <3>4, PutOK DEF b
      <3> QED BY <3>5 DEF n
    <2>3. Assert(Put(u, s, [k EXCEPT !.wrstate = "done"]),
                 b \/ k.wrstate = "busy", "on_written")
             = Put(u, s, [k EXCEPT !.wrstate = "done"])
      <3>1. b \/ k.wrstate = "busy"
        BY <1>1, <1>5, <2>1
      <3> QED BY <3>1, AssertTrue
    <2>4. CASE status = "ok"
      <3>1. v \in AnyHook(Put(u, s, [k EXCEPT !.wrstate = "done"]))
        BY <1>8, <1>c, <2>3, <2>4
      <3> QED BY <2>2, <3>1, HookOK
    <2>5. CASE status = "err"
      <3>1. v = tunnel_shutdown(Put(u, s, [k EXCEPT !.wrstate = "stop"]))
        BY <1>8, <1>c, <2>5
      <3> QED BY <2>2, <3>1, ShutdownOK
    <2> QED BY <2>4, <2>5
  <1> QED BY <1>1, <1>7, <1>8

\* The result of a connect preserves the invariant, also after a shutdown.
LEMMA OnConnectOK ==
    ASSUME NEW u, TunnelOK(u), NEW s \in Side, u.sock[s].connecting,
           NEW status \in {"ok", "err"},
           NEW v \in tunnel_socket_ctx_on_connect_cb(u, s, status, AnyHook)
    PROVE  TunnelOK(v)
  <1> DEFINE b == is_in_streaming(u)
             j == u.sock[s]
             c == status = "ok"
             k == [j EXCEPT !.connecting = FALSE, !.ticking = FALSE,
                            !.result = status, !.connected = c]
  <1>1. /\ b \in BOOLEAN /\ u.freed \in BOOLEAN /\ u.is_terminated \in BOOLEAN
        /\ SocketOK(j, u.is_terminated, u.freed, b) /\ c \in BOOLEAN
    BY DEF TunnelOK, TunnelType, is_in_streaming
  <1>2. j \in Socket(Payload) /\ j.connecting
    BY <1>1 DEF SocketOK
  <1>c. /\ u.is_terminated => v = Put(u, s, k)
        /\ ~u.is_terminated => \/ v \in AnyHook(Put(u, s, k))
                               \/ v = tunnel_shutdown(Put(u, s, k))
    BY DEF tunnel_socket_ctx_on_connect_cb
  <1> HIDE DEF b, c
  <1>3. k \in Socket(Payload) /\ SameLife(j, k)
    BY <1>1, <1>2, Zenon DEF Socket, SameLife
  <1>4. /\ k.writes = j.writes /\ k.rdstate = j.rdstate /\ k.wrstate = j.wrstate
        /\ k.reading = j.reading /\ k.ticking = FALSE
        /\ k.connecting = FALSE
    BY <1>2, Zenon DEF Socket
  <1> HIDE DEF k, j
  <1>7. CASE u.is_terminated
    <2>1. /\ SocketOK(j, TRUE, u.freed, b) /\ j.tcp # "closed"
          /\ ~j.reading
      BY <1>1, <1>2, <1>7 DEF SocketOK
    <2>t. k.tcp = j.tcp
      BY <1>3 DEF SameLife
    <2>2. SocketOK(k, TRUE, u.freed, b)
      BY <1>1, <1>3, <1>4, <2>1, <2>t, DrainOK
    <2>3. k.on_closed = j.on_closed
      BY <1>3 DEF SameLife
    <2>4. SocketOK(k, u.is_terminated, u.freed, is_in_streaming(u))
      BY <1>1, <1>7, <2>2 DEF b
    <2>5. TunnelOK(Put(u, s, k))
      BY <2>3, <2>4, PutAny DEF j
    <2> QED BY <1>7, <1>c, <2>5
  <1>8. CASE ~u.is_terminated
    <2>1. SocketOK(j, FALSE, FALSE, b)
      BY <1>8, LiveTunnel DEF j, b
    <2>2. SocketOK(k, FALSE, FALSE, b)
      BY <1>1, <1>3, <1>4, <2>1, LiveSocket, IoOK
    <2>3. TunnelOK(Put(u, s, k)) /\ ~Put(u, s, k).is_terminated
      BY <1>8, <2>2, PutOK DEF b
    <2> QED BY <1>8, <1>c, <2>3, HookOK, ShutdownOK
  <1> QED BY <1>1, <1>7, <1>8

\* A change of the lookup's state alone is no change of the lifetime.
LEMMA DnsOK ==
    ASSUME NEW k, NEW term \in BOOLEAN, NEW f \in BOOLEAN, NEW b \in BOOLEAN,
           SocketOK(k, term, f, b), NEW d \in DnsState
    PROVE  LET n == [k EXCEPT !.dns = d]
           IN  SocketOK(n, term, f, b) /\ n.on_closed = k.on_closed
  <1> DEFINE n == [k EXCEPT !.dns = d]
  <1>1. k \in Socket(Payload)
    BY DEF SocketOK
  <1>2. n \in Socket(Payload) /\ SameLife(k, n)
    BY <1>1, Zenon DEF Socket, SameLife
  <1>3. /\ n.writes = k.writes /\ n.rdstate = k.rdstate /\ n.wrstate = k.wrstate
        /\ n.reading = k.reading /\ n.ticking = k.ticking
        /\ n.connecting = k.connecting
    BY <1>1, Zenon DEF Socket
  <1> HIDE DEF n
  <1>4. SocketOK(n, term, f, b)
    BY <1>2, <1>3 DEF SocketOK, SameLife, CloseOwed
  <1>5. n.on_closed = k.on_closed
    BY <1>2 DEF SameLife
  <1> QED BY <1>4, <1>5 DEF n

\* The thread pool's work on a lookup preserves the invariant.
LEMMA DnsWorkOK ==
    ASSUME NEW u, TunnelOK(u), NEW s \in Side, NEW d \in DnsState
    PROVE  TunnelOK(Put(u, s, [u.sock[s] EXCEPT !.dns = d]))
  <1>1. /\ is_in_streaming(u) \in BOOLEAN /\ u.freed \in BOOLEAN
        /\ u.is_terminated \in BOOLEAN
        /\ SocketOK(u.sock[s], u.is_terminated, u.freed, is_in_streaming(u))
    BY DEF TunnelOK, TunnelType, is_in_streaming
  <1>2. /\ SocketOK([u.sock[s] EXCEPT !.dns = d], u.is_terminated, u.freed,
                    is_in_streaming(u))
        /\ [u.sock[s] EXCEPT !.dns = d].on_closed = u.sock[s].on_closed
    BY <1>1, DnsOK
  <1> QED BY <1>2, PutAny

\* The lookup's callback preserves the invariant, even on a freed socket.
LEMMA OnGetaddrinfoOK ==
    ASSUME NEW u, TunnelOK(u), NEW s \in Side, NEW status \in {"ok", "err"},
           NEW v \in tunnel_socket_ctx_on_getaddrinfo_cb(u, s, status, AnyHook)
    PROVE  TunnelOK(v)
  <1> DEFINE b == is_in_streaming(u)
             j == u.sock[s]
             k == [j EXCEPT !.dns = "none", !.ticking = FALSE, !.result = status]
             m == Put(u, s, [j EXCEPT !.dns = "none"])
  <1>1. /\ b \in BOOLEAN /\ u.freed \in BOOLEAN /\ u.is_terminated \in BOOLEAN
        /\ SocketOK(j, u.is_terminated, u.freed, b)
    BY DEF TunnelOK, TunnelType, is_in_streaming
  <1>2. j \in Socket(Payload)
    BY <1>1 DEF SocketOK
  <1>c. \/ v = Assert(m, FALSE, "stale")
        \/ u.is_terminated /\ v = Put(u, s, k)
        \/ ~u.is_terminated /\ v \in AnyHook(Put(u, s, k))
        \/ ~u.is_terminated /\ v = tunnel_shutdown(Put(u, s, k))
    BY DEF tunnel_socket_ctx_on_getaddrinfo_cb
  <1>3. TunnelOK(m)
    BY DnsWorkOK DEF DnsState
  <1> HIDE DEF b, m
  <1>4. k \in Socket(Payload) /\ SameLife(j, k)
    BY <1>2, Zenon DEF Socket, SameLife, DnsState
  <1>5. /\ k.writes = j.writes /\ k.rdstate = j.rdstate /\ k.wrstate = j.wrstate
        /\ k.reading = j.reading /\ k.ticking = FALSE
        /\ k.connecting = j.connecting
    BY <1>2, Zenon DEF Socket
  <1> HIDE DEF k, j
  <1>6. CASE v = Assert(m, FALSE, "stale")
    <2> DEFINE g == m.bad \cup {"stale"}
    <2>1. v = [m EXCEPT !.bad = g]
      BY <1>6 DEF Assert
    <2>2. m \in TunnelType /\ m.bad \subseteq {"stale"}
      BY <1>3 DEF TunnelOK
    <2>3. g \subseteq {"stale"}
      BY <2>2
    <2> HIDE DEF g
    <2>4. /\ v \in TunnelType /\ v.ref = m.ref /\ v.is_terminated = m.is_terminated
          /\ v.freed = m.freed /\ v.stage = m.stage /\ v.held = m.held
          /\ v.bad = g /\ v.sock = m.sock
      BY <2>1, <2>2, <2>3 DEF TunnelType
    <2> QED BY <1>3, <2>3, <2>4 DEF TunnelOK, is_in_streaming
  <1>7. CASE u.is_terminated /\ v = Put(u, s, k)
    <2>1. /\ SocketOK(j, TRUE, u.freed, b) /\ ~j.reading
          /\ j.tcp = "closed" => j.writes = <<>> /\ ~j.connecting
      BY <1>1, <1>7 DEF SocketOK
    <2>t. k.tcp = j.tcp
      BY <1>4 DEF SameLife
    <2>2. SocketOK(k, TRUE, u.freed, b)
      BY <1>1, <1>4, <1>5, <2>1, <2>t, DrainOK
    <2>3. k.on_closed = j.on_closed
      BY <1>4 DEF SameLife
    <2>4. SocketOK(k, u.is_terminated, u.freed, is_in_streaming(u))
      BY <1>1, <1>7, <2>2 DEF b
    <2> QED BY <1>7, <2>3, <2>4, PutAny DEF j
  <1>8. CASE ~u.is_terminated
    <2>1. SocketOK(j, FALSE, FALSE, b)
      BY <1>8, LiveTunnel DEF j, b
    <2>2. SocketOK(k, FALSE, FALSE, b)
      BY <1>1, <1>4, <1>5, <2>1, LiveSocket, IoOK
    <2>3. TunnelOK(Put(u, s, k)) /\ ~Put(u, s, k).is_terminated
      BY <1>8, <2>2, PutOK DEF b
    <2> QED BY <1>6, <1>8, <1>c, <2>3, HookOK, ShutdownOK
  <1> QED BY <1>c, <1>6, <1>7, <1>8

-----------------------------------------------------------------------------
(* Callbacks that give references back. *)

\* Nothing but the reference counting differs between k and n.
SameIo(k, n) ==
    /\ n.is_terminated = k.is_terminated
    /\ n.reading = k.reading /\ n.ticking = k.ticking
    /\ n.tcp = k.tcp /\ n.timer = k.timer
    /\ n.writes = k.writes /\ n.connecting = k.connecting
    /\ n.connected = k.connected /\ n.dns = k.dns

\* What socket_ctx_release does to each field.
LEMMA ReleaseFacts ==
    ASSUME NEW k \in Socket(Payload), k.ref # 0, NEW n, n = socket_ctx_release(k)
    PROVE  /\ n \in Socket(Payload) /\ n.ref = k.ref - 1
           /\ n.freed <=> k.freed \/ k.ref = 1
           /\ n.closing_count = k.closing_count /\ n.on_closed = k.on_closed
           /\ SameIo(k, n)
  <1> DEFINE r == n.ref
             f == n.freed
  <1>1. /\ n \in Socket(Payload) /\ n.ref = k.ref - 1
        /\ n.freed <=> k.freed \/ k.ref = 1
        /\ n = [k EXCEPT !.ref = r, !.freed = f]
    BY ReleaseType
  <1> HIDE DEF r, f
  <1>2. /\ n.closing_count = k.closing_count /\ n.on_closed = k.on_closed
        /\ SameIo(k, n)
    BY <1>1, Zenon DEF Socket, SameIo
  <1> QED BY <1>1, <1>2

\* A closed socket is good whatever the stage.
LEMMA ClosedAnyway ==
    ASSUME NEW k, NEW f, NEW b, NEW e, SocketOK(k, TRUE, f, b)
    PROVE  SocketOK(k, TRUE, f, e)
  BY DEF SocketOK

\* A timeout shuts the tunnel down, and gives back the reference it held.
LEMMA TimeoutForm ==
    ASSUME NEW u \in TunnelType, u.is_terminated = FALSE, u.freed = FALSE,
           u.ref = 1 + One(u.held), u.bad \subseteq {"stale"}, NEW b \in BOOLEAN,
           \A r \in Side : SocketOK(u.sock[r], FALSE, FALSE, b), NEW s \in Side
    PROVE  LET v == tunnel_socket_ctx_on_timeout_cb(u, s)
           IN  /\ TunnelOK(v) /\ v.is_terminated = TRUE /\ v.freed = FALSE
               /\ v.held = u.held /\ v.stage = u.stage /\ v.bad = u.bad
               /\ \A r \in Side : Cancelled(u.sock[r], v.sock[r])
  <1> DEFINE j == u.sock[s]
             h == j.ref + 1
             k == [j EXCEPT !.ticking = FALSE, !.result = "err", !.ref = h]
             a == Put(u, s, k)
             c == tunnel_shutdown(a)
             n == socket_ctx_release(c.sock[s])
             v == Put(c, s, n)
  <1>1. u.is_terminated = FALSE
    OBVIOUS
  <1>2. u.ref # 0 /\ u.ref \in Nat
    BY DEF TunnelType, One
  <1>3. tunnel_socket_ctx_on_timeout_cb(u, s) = v
    BY <1>1 DEF tunnel_socket_ctx_on_timeout_cb
  <1> HIDE DEF c, n, v
  <1>4. \A r \in Side :
           /\ u.sock[r] \in Socket(Payload) /\ u.sock[r].is_terminated = FALSE
           /\ u.sock[r].ref = 1 /\ u.sock[r].freed = FALSE
           /\ u.sock[r].rdstate # "dead" /\ u.sock[r].wrstate # "dead"
    BY <1>2, LiveSocket
  <1>5. j \in Socket(Payload) /\ h \in Nat /\ h = 2
    BY <1>4
  <1> HIDE DEF h, j
  <1>6. /\ k \in Socket(Payload) /\ k.ref = h /\ k.freed = j.freed
        /\ k.is_terminated = j.is_terminated /\ k.rdstate = j.rdstate
        /\ k.wrstate = j.wrstate /\ Cancelled(j, k)
    BY <1>5, Zenon DEF Socket, Cancelled
  <1> HIDE DEF k
  <1>7. /\ a \in TunnelType
        /\ a.ref = u.ref /\ a.is_terminated = u.is_terminated
        /\ a.freed = u.freed /\ a.stage = u.stage
        /\ a.held = u.held /\ a.bad = u.bad /\ a.sock[s] = k
        /\ \A r \in Side : r # s => a.sock[r] = u.sock[r]
    BY <1>2, <1>6, PutFacts
  <1> HIDE DEF a
  <1>8. \A r \in Side : /\ ~a.sock[r].is_terminated
                        /\ a.sock[r].rdstate # "dead" /\ a.sock[r].wrstate # "dead"
    BY <1>4, <1>6, <1>7 DEF j
  <1>9. /\ c \in TunnelType /\ c.ref = a.ref + 1 /\ c.is_terminated = TRUE
        /\ c.freed = a.freed /\ c.stage = a.stage
        /\ c.held = a.held /\ c.bad = a.bad
        /\ \A r \in Side : c.sock[r] = socket_ctx_close(a.sock[r])
    BY <1>1, <1>2, <1>7, <1>8, ShutdownForm DEF c
  <1>10. /\ c.sock[s] \in Socket(Payload) /\ c.sock[s].ref = 4
         /\ c.sock[s].on_closed = TRUE /\ c.sock[s].closing_count = 2
         /\ c.sock[s].freed = FALSE /\ Closing(c.sock[s]) /\ Cancelled(k, c.sock[s])
    <2>1. c.sock[s] = socket_ctx_close(k) /\ k.ref = 2 /\ k.freed = FALSE
      BY <1>4, <1>5, <1>6, <1>7, <1>9 DEF j
    <2> DEFINE m == socket_ctx_close(k)
    <2>2. /\ m \in Socket(Payload) /\ m.ref = k.ref + 2 /\ m.on_closed = TRUE
          /\ m.closing_count = 2 /\ m.freed = k.freed /\ Closing(m)
          /\ Cancelled(k, m)
      BY <1>6, CloseType, Zenon
    <2> HIDE DEF m
    <2>3. c.sock[s] = m /\ m.ref = 4
      BY <2>1, <2>2 DEF m
    <2> QED BY <2>1, <2>2, <2>3
  <1>11. /\ n \in Socket(Payload) /\ n.ref = 3 /\ n.freed = FALSE
         /\ n.closing_count = 2 /\ n.on_closed = TRUE /\ Closing(n) /\ Cancelled(j, n)
    <2>1. /\ n \in Socket(Payload) /\ n.ref = c.sock[s].ref - 1
          /\ n.freed <=> c.sock[s].freed \/ c.sock[s].ref = 1
          /\ n.closing_count = c.sock[s].closing_count
          /\ n.on_closed = c.sock[s].on_closed
          /\ SameIo(c.sock[s], n)
      BY <1>10, ReleaseFacts DEF n
    <2>2. Closing(n)
      BY <1>10, <2>1 DEF Closing, SameIo
    <2>3. n.freed \in BOOLEAN
      BY <2>1 DEF Socket
    <2>4. Cancelled(j, n)
      BY <1>6, <1>10, <2>1 DEF Cancelled, SameIo
    <2> QED BY <1>10, <2>1, <2>2, <2>3, <2>4
  <1>12. SocketOK(n, TRUE, FALSE, b)
    BY <1>11 DEF SocketOK, CloseOwed, Closing, One
  <1>13. /\ v \in TunnelType
         /\ v.ref = c.ref /\ v.is_terminated = c.is_terminated
         /\ v.freed = c.freed /\ v.stage = c.stage
         /\ v.held = c.held /\ v.bad = c.bad /\ v.sock[s] = n
         /\ \A r \in Side : r # s => v.sock[r] = c.sock[r]
    BY <1>9, <1>11, PutFacts DEF v
  <1>15. ASSUME NEW r \in Side, r # s
         PROVE  /\ SocketOK(v.sock[r], TRUE, FALSE, b)
                /\ v.sock[r].on_closed = TRUE /\ Cancelled(u.sock[r], v.sock[r])
    <2>1. v.sock[r] = socket_ctx_close(u.sock[r])
      BY <1>7, <1>9, <1>13, <1>15
    <2>2. u.sock[r] \in Socket(Payload) /\ SocketOK(u.sock[r], FALSE, FALSE, b)
      BY <1>2, <1>4, <1>15
    <2>3. SocketOK(socket_ctx_close(u.sock[r]), TRUE, FALSE, b)
      BY <1>2, <2>2, CloseOK
    <2>4. /\ socket_ctx_close(u.sock[r]).on_closed = TRUE
          /\ Cancelled(u.sock[r], socket_ctx_close(u.sock[r]))
      BY <2>2, CloseType, Zenon
    <2> QED BY <2>1, <2>3, <2>4
  <1>14. \A r \in Side : Cancelled(u.sock[r], v.sock[r])
    BY <1>11, <1>13, <1>15 DEF j
  <1>16. \A r \in Side : /\ SocketOK(v.sock[r], TRUE, FALSE, is_in_streaming(v))
                         /\ v.sock[r].on_closed = TRUE
    BY <1>11, <1>12, <1>13, <1>15, ClosedAnyway
  <1>17. v.held \in BOOLEAN /\ v.ref = 2 + One(v.held)
    BY <1>2, <1>7, <1>9, <1>13 DEF TunnelType, One
  <1>18. /\ v.ref = One(~v.is_terminated) + One(v.sock["incoming"].on_closed)
                  + One(v.sock["outgoing"].on_closed) + One(v.held)
         /\ v.ref # 0
    BY <1>9, <1>13, <1>16, <1>17 DEF One, Side
  <1>19. v.freed = FALSE /\ v.is_terminated = TRUE /\ v.bad \subseteq {"stale"}
    BY <1>2, <1>7, <1>9, <1>13
  <1>20. TunnelOK(v)
    BY <1>13, <1>16, <1>18, <1>19 DEF TunnelOK
  <1> QED BY <1>3, <1>7, <1>9, <1>13, <1>14, <1>19, <1>20

\* The timeout preserves the invariant.
LEMMA OnTimeoutOK ==
    ASSUME NEW u, TunnelOK(u), NEW s \in Side, u.sock[s].ticking
    PROVE  TunnelOK(tunnel_socket_ctx_on_timeout_cb(u, s))
  <1>1. ~u.is_terminated
    BY DEF TunnelOK, SocketOK, TunnelType
  <1> QED BY <1>1, LiveTunnel, TimeoutForm

\* What tunnel_ctx_release does to each field, the last reference included.
LEMMA TunnelReleaseFacts ==
    ASSUME NEW a \in TunnelType, a.ref # 0,
           a.ref = 1 => \A r \in Side : a.sock[r].ref # 0,
           NEW v, v = tunnel_ctx_release(a)
    PROVE  /\ v \in TunnelType /\ v.ref = a.ref - 1
           /\ v.is_terminated = a.is_terminated /\ v.stage = a.stage
           /\ v.held = a.held /\ v.bad = a.bad
           /\ a.ref # 1 => v.freed = a.freed /\ v.sock = a.sock
           /\ a.ref = 1 => /\ v.freed = TRUE
                           /\ \A r \in Side : v.sock[r] = socket_ctx_release(a.sock[r])
  <1> DEFINE m == a.ref - 1
             e == [a EXCEPT !.ref = m]
  <1>1. m \in Nat /\ (a.ref <= 1 <=> a.ref = 1)
    BY DEF TunnelType
  <1>2. v = IF a.ref = 1 THEN tunnel_destroy_internal(e) ELSE e
    BY <1>1 DEF tunnel_ctx_release
  <1>3. /\ e \in TunnelType /\ e.ref = m /\ e.is_terminated = a.is_terminated
        /\ e.stage = a.stage /\ e.held = a.held /\ e.bad = a.bad
        /\ e.freed = a.freed /\ e.sock = a.sock
    <2> HIDE DEF m
    <2> QED BY <1>1, Zenon DEF TunnelType
  <1> HIDE DEF m, e
  <1>4. CASE a.ref # 1
    BY <1>2, <1>3, <1>4 DEF m
  <1>5. CASE a.ref = 1
    <2> DEFINE S == [r \in Side |-> socket_ctx_release(e.sock[r])]
    <2>1. v = [e EXCEPT !.freed = TRUE, !.sock = S]
      BY <1>2, <1>5 DEF tunnel_destroy_internal
    <2>2. \A r \in Side : S[r] = socket_ctx_release(a.sock[r])
      BY <1>3
    <2>3. \A r \in Side : a.sock[r] \in Socket(Payload) /\ a.sock[r].ref # 0
      BY <1>5 DEF TunnelType
    <2>4. \A r \in Side : socket_ctx_release(a.sock[r]) \in Socket(Payload)
      BY <2>3, ReleaseFacts
    <2>5. S \in [Side -> Socket(Payload)]
      BY <2>2, <2>4
    <2> HIDE DEF S
    <2>6. /\ v \in TunnelType /\ v.ref = e.ref /\ v.is_terminated = e.is_terminated
          /\ v.stage = e.stage /\ v.held = e.held /\ v.bad = e.bad
          /\ v.freed = TRUE /\ v.sock = S
      BY <1>3, <2>1, <2>5, Zenon DEF TunnelType
    <2> QED BY <1>3, <1>5, <2>2, <2>6 DEF m
  <1> QED BY <1>4, <1>5

\* A socket that is not referenced by handles is freed with its tunnel.
LEMMA FreeWithTunnel ==
    ASSUME NEW k, NEW b \in BOOLEAN, SocketOK(k, TRUE, FALSE, b), ~k.on_closed
    PROVE  /\ k.ref # 0
           /\ SocketOK(socket_ctx_release(k), TRUE, TRUE, b)
           /\ socket_ctx_release(k).on_closed = k.on_closed
  <1> DEFINE n == socket_ctx_release(k)
  <1>1. k \in Socket(Payload) /\ k.on_closed = FALSE
    BY DEF SocketOK, Socket
  <1>2. CloseOwed(k) \in Nat
    BY DEF CloseOwed
  <1>3. CloseOwed(k) = 0 /\ k.ref = 1 /\ k.closing_count = 0 /\ k.freed = FALSE
        /\ k.ref # 0
    BY <1>1, <1>2 DEF SocketOK, One, Socket
  <1>4. /\ n \in Socket(Payload) /\ n.ref = k.ref - 1
        /\ n.freed <=> k.freed \/ k.ref = 1
        /\ n.closing_count = k.closing_count /\ n.on_closed = k.on_closed
        /\ SameIo(k, n)
    BY <1>1, <1>3, ReleaseFacts
  <1> HIDE DEF n
  <1>5. CloseOwed(n) = 0 /\ n.ref = 0 /\ n.freed = TRUE
    BY <1>3, <1>4 DEF CloseOwed, SameIo, Socket
  <1>6. SocketOK(n, TRUE, TRUE, b)
    BY <1>1, <1>3, <1>4, <1>5 DEF SocketOK, SameIo, One
  <1> QED BY <1>3, <1>4, <1>6, Zenon DEF n

\* The owner's return of its reference preserves the invariant.
LEMMA OwnerReleaseOK ==
    ASSUME NEW u, TunnelOK(u), u.held, u.is_terminated
    PROVE  TunnelOK(tunnel_ctx_release([u EXCEPT !.held = FALSE]))
  <1> DEFINE a == [u EXCEPT !.held = FALSE]
             v == tunnel_ctx_release(a)
             b == is_in_streaming(u)
             x == One(u.sock["incoming"].on_closed)
             y == One(u.sock["outgoing"].on_closed)
  <1>1. /\ u \in TunnelType /\ u.is_terminated = TRUE /\ u.held = TRUE
        /\ u.bad \subseteq {"stale"} /\ b \in BOOLEAN
    BY DEF TunnelOK, TunnelType, is_in_streaming
  <1>2. x \in {0, 1} /\ y \in {0, 1}
    BY DEF One
  <1>3. u.ref = x + y + 1 /\ u.freed = FALSE
    <2>1. u.ref = One(~u.is_terminated) + x + y + One(u.held) /\ (u.freed <=> u.ref = 0)
      BY DEF TunnelOK
    <2>2. One(~u.is_terminated) = 0 /\ One(u.held) = 1
      BY <1>1 DEF One
    <2>3. u.freed \in BOOLEAN
      BY <1>1 DEF TunnelType
    <2> HIDE DEF x, y
    <2>4. u.ref = 0 + x + y + 1
      BY <2>1, <2>2, Zenon
    <2>5. u.ref = x + y + 1 /\ u.ref # 0
      BY <1>2, <2>4
    <2>6. u.freed <=> u.ref = 0
      BY <2>1
    <2> QED BY <2>3, <2>5, <2>6, Zenon
  <1>4. \A r \in Side : SocketOK(u.sock[r], TRUE, FALSE, b)
    BY <1>1, <1>3 DEF TunnelOK
  <1>5. /\ a \in TunnelType /\ a.ref = u.ref /\ a.is_terminated = u.is_terminated
        /\ a.stage = u.stage /\ a.held = FALSE /\ a.bad = u.bad
        /\ a.freed = u.freed /\ a.sock = u.sock
    BY <1>1, Zenon DEF TunnelType
  <1> HIDE DEF a, b, x, y
  <1>6. a.ref = 1 => \A r \in Side : ~a.sock[r].on_closed /\ a.sock[r].ref # 0
    <2>1. SUFFICES ASSUME a.ref = 1
                   PROVE  \A r \in Side : ~a.sock[r].on_closed /\ a.sock[r].ref # 0
      OBVIOUS
    <2>2. x = 0 /\ y = 0
      BY <1>2, <1>3, <1>5, <2>1
    <2>3. \A r \in Side : ~a.sock[r].on_closed
      BY <1>5, <2>2 DEF Side, x, y, One
    <2> QED BY <1>1, <1>4, <1>5, <2>3, FreeWithTunnel
  <1>7. /\ v \in TunnelType /\ v.ref = a.ref - 1
        /\ v.is_terminated = a.is_terminated /\ v.stage = a.stage
        /\ v.held = a.held /\ v.bad = a.bad
        /\ a.ref # 1 => v.freed = a.freed /\ v.sock = a.sock
        /\ a.ref = 1 => /\ v.freed = TRUE
                        /\ \A r \in Side : v.sock[r] = socket_ctx_release(a.sock[r])
    <2>1. a.ref # 0
      BY <1>2, <1>3, <1>5
    <2> QED BY <1>5, <1>6, <2>1, TunnelReleaseFacts
  <1> HIDE DEF v
  <1>8. \A r \in Side : /\ SocketOK(v.sock[r], TRUE, v.freed, b)
                        /\ v.sock[r].on_closed = u.sock[r].on_closed
    <2>1. CASE a.ref = 1
      BY <1>1, <1>4, <1>5, <1>6, <1>7, <2>1, FreeWithTunnel
    <2>2. CASE a.ref # 1
      BY <1>3, <1>4, <1>5, <1>7, <2>2
    <2> QED BY <2>1, <2>2
  <1>9. is_in_streaming(v) = b
    BY <1>5, <1>7 DEF is_in_streaming, b
  <1>10. v.ref = One(~v.is_terminated) + One(v.sock["incoming"].on_closed)
                + One(v.sock["outgoing"].on_closed) + One(v.held)
    <2>1. One(v.sock["incoming"].on_closed) = x /\ One(v.sock["outgoing"].on_closed) = y
      BY <1>8 DEF x, y, Side
    <2>2. One(~v.is_terminated) = 0 /\ One(v.held) = 0
      BY <1>1, <1>5, <1>7 DEF One
    <2> QED BY <1>2, <1>3, <1>5, <1>7, <2>1, <2>2
  <1>11. v.freed <=> v.ref = 0
    BY <1>2, <1>3, <1>5, <1>7
  <1>12. TunnelOK(v)
    BY <1>1, <1>5, <1>7, <1>8, <1>9, <1>10, <1>11 DEF TunnelOK
  <1> QED BY <1>12 DEF v, a

\* What one fewer closing handle and one fewer reference make of a socket.
LEMMA HandleGone ==
    ASSUME NEW k \in Socket(Payload), NEW n \in Socket(Payload), NEW b \in BOOLEAN,
           NEW f \in BOOLEAN, k.is_terminated, SameIo(k, n),
           ~k.reading, ~k.ticking, k.tcp # "open", k.timer # "open",
           k.tcp = "closed" => k.writes = <<>> /\ ~k.connecting,
           n.ref = One(~f) + CloseOwed(k), n.freed <=> n.ref = 0,
           n.closing_count = CloseOwed(k), n.on_closed <=> CloseOwed(k) > 0
    PROVE  SocketOK(n, TRUE, f, b)
  <1>1. CloseOwed(n) = CloseOwed(k)
    BY DEF CloseOwed, SameIo
  <1>2. k.is_terminated = TRUE
    BY DEF Socket
  <1> QED BY <1>1, <1>2 DEF SocketOK, SameIo

\* k is socket j after one of its handles is closed, before the callback.
OneClosed(j, k) ==
    /\ k.is_terminated /\ ~k.reading /\ ~k.ticking
    /\ k.tcp # "open" /\ k.timer # "open"
    /\ k.tcp = "closed" => k.writes = <<>> /\ ~k.connecting
    /\ CloseOwed(k) = CloseOwed(j) - 1
    /\ k.ref = j.ref /\ k.freed = j.freed
    /\ k.closing_count = j.closing_count /\ k.on_closed = j.on_closed

\* The close callback: the first handle of the socket to report, the second
\* one, and the last one of the whole tunnel, which frees all three objects.
LEMMA CloseDoneOK ==
    ASSUME NEW u, TunnelOK(u), u.is_terminated = TRUE,
           NEW s \in Side, NEW q \in Side, q # s,
           NEW k \in Socket(Payload), OneClosed(u.sock[s], k)
    PROVE  TunnelOK(uv_socket_close_done_cb(Put(u, s, k), s))
  <1> DEFINE b  == is_in_streaming(u)
             o  == CloseOwed(k)
             w  == Put(u, s, k)
             cc == k.closing_count - 1
             ka == [k EXCEPT !.closing_count = cc]
             a  == Put(w, s, ka)
             v  == uv_socket_close_done_cb(w, s)
             y  == One(u.sock[q].on_closed)
             h  == One(u.held)
  <1>1. /\ u \in TunnelType /\ u.is_terminated = TRUE /\ u.freed \in BOOLEAN
        /\ u.bad \subseteq {"stale"} /\ b \in BOOLEAN /\ u.held \in BOOLEAN
        /\ \A r \in Side : SocketOK(u.sock[r], TRUE, u.freed, b)
    <2>1. /\ u \in TunnelType /\ u.bad \subseteq {"stale"} /\ b \in BOOLEAN
          /\ \A r \in Side : SocketOK(u.sock[r], u.is_terminated, u.freed, b)
      BY DEF TunnelOK, is_in_streaming
    <2>2. u.is_terminated = TRUE /\ u.freed \in BOOLEAN /\ u.held \in BOOLEAN
      BY <2>1 DEF TunnelType
    <2> QED BY <2>1, <2>2
  <1>2. q \in Side /\ q # s /\ \A r \in Side : r = s \/ r = q
    BY DEF Side
  <1>3. o \in {0, 1} /\ y \in {0, 1} /\ h \in {0, 1}
    <2>1. CloseOwed(u.sock[s]) \in {0, 1, 2} /\ CloseOwed(k) \in {0, 1, 2}
      BY DEF CloseOwed
    <2>2. CloseOwed(k) = CloseOwed(u.sock[s]) - 1
      BY DEF OneClosed
    <2> QED BY <2>1, <2>2 DEF One
  <1>4. k.closing_count = o + 1 /\ k.on_closed = TRUE
    <2>1. /\ u.sock[s].closing_count = CloseOwed(u.sock[s])
          /\ u.sock[s].on_closed <=> CloseOwed(u.sock[s]) > 0
      BY <1>1 DEF SocketOK
    <2>2. CloseOwed(u.sock[s]) \in {0, 1, 2} /\ k.on_closed \in BOOLEAN
      BY DEF CloseOwed, Socket
    <2>3. /\ CloseOwed(k) = CloseOwed(u.sock[s]) - 1
          /\ k.closing_count = u.sock[s].closing_count
          /\ k.on_closed = u.sock[s].on_closed
      BY DEF OneClosed
    <2> QED BY <1>3, <2>1, <2>2, <2>3
  <1>5. u.ref = 1 + y + h /\ u.freed = FALSE
    <2>1. u.ref = One(~u.is_terminated) + One(u.sock["incoming"].on_closed)
                + One(u.sock["outgoing"].on_closed) + One(u.held)
      BY DEF TunnelOK
    <2>2. u.sock[s].on_closed = TRUE
      BY <1>4 DEF OneClosed
    <2>3. One(~u.is_terminated) = 0 /\ One(u.sock[s].on_closed) = 1
      BY <1>1, <2>2 DEF One
    <2>4. CASE s = "incoming"
      <3>1. q = "outgoing" /\ One(u.sock["incoming"].on_closed) = 1
        BY <1>2, <2>3, <2>4 DEF Side
      <3> HIDE DEF h, y
      <3>2. u.ref = 0 + 1 + y + h
        BY <2>1, <2>3, <3>1, Zenon DEF h, y
      <3>3. u.ref = 1 + y + h /\ u.ref # 0
        BY <1>3, <3>2
      <3> QED BY <1>1, <3>3, Zenon DEF TunnelOK
    <2>5. CASE s = "outgoing"
      <3>1. q = "incoming" /\ One(u.sock["outgoing"].on_closed) = 1
        BY <1>2, <2>3, <2>5 DEF Side
      <3> HIDE DEF h, y
      <3>2. u.ref = 0 + y + 1 + h
        BY <2>1, <2>3, <3>1, Zenon DEF h, y
      <3>3. u.ref = 1 + y + h /\ u.ref # 0
        BY <1>3, <3>2
      <3> QED BY <1>1, <3>3, Zenon DEF TunnelOK
    <2> QED BY <2>4, <2>5 DEF Side
  <1>6. k.ref = o + 2 /\ k.freed = FALSE
    <2>1. u.sock[s].ref = One(~u.freed) + CloseOwed(u.sock[s])
          /\ (u.sock[s].freed <=> u.sock[s].ref = 0)
      BY <1>1 DEF SocketOK
    <2>2. One(~u.freed) = 1 /\ CloseOwed(u.sock[s]) \in {0, 1, 2}
      BY <1>5 DEF One, CloseOwed
    <2>3. k.freed \in BOOLEAN
      BY DEF Socket
    <2>4. /\ CloseOwed(k) = CloseOwed(u.sock[s]) - 1
          /\ k.ref = u.sock[s].ref /\ k.freed = u.sock[s].freed
      BY DEF OneClosed
    <2> QED BY <1>3, <2>1, <2>2, <2>3, <2>4
  <1>7. /\ w \in TunnelType /\ w.ref = u.ref /\ w.is_terminated = u.is_terminated
        /\ w.freed = u.freed /\ w.stage = u.stage
        /\ w.held = u.held /\ w.bad = u.bad /\ w.sock[s] = k
        /\ \A r \in Side : r # s => w.sock[r] = u.sock[r]
    <2>1. u \in TunnelType /\ s \in Side /\ k \in Socket(Payload) /\ w = Put(u, s, k)
      BY <1>1
    <2> HIDE DEF w
    <2>2. PutForm(w, u, s, k)
      BY <2>1, PutFormOK
    <2> QED BY <2>2 DEF PutForm
  <1> HIDE DEF w, o, b, y, h
  <1>8. cc \in Nat /\ cc = o
    BY <1>3, <1>4
  <1>9. /\ ka \in Socket(Payload) /\ ka.closing_count = cc /\ ka.ref = k.ref
        /\ ka.freed = k.freed /\ ka.on_closed = k.on_closed /\ SameIo(k, ka)
    <2> HIDE DEF cc
    <2> QED BY <1>8, Zenon DEF Socket, SameIo
  <1>10. /\ a \in TunnelType /\ a.ref = w.ref /\ a.is_terminated = w.is_terminated
         /\ a.freed = w.freed /\ a.stage = w.stage
         /\ a.held = w.held /\ a.bad = w.bad /\ a.sock[s] = ka
         /\ \A r \in Side : r # s => a.sock[r] = w.sock[r]
    <2> HIDE DEF ka
    <2>1. w \in TunnelType /\ s \in Side /\ ka \in Socket(Payload) /\ a = Put(w, s, ka)
      BY <1>7, <1>9
    <2> HIDE DEF a
    <2>2. PutForm(a, w, s, ka)
      BY <2>1, PutFormOK
    <2> QED BY <2>2 DEF PutForm
  <1>11. v = LET c == Put(tunnel_ctx_release(a), s,
                          [tunnel_ctx_release(a).sock[s] EXCEPT !.on_closed = FALSE])
                 d == IF k.closing_count <= 1 /\ k.on_closed THEN c ELSE a
             IN  Put(d, s, socket_ctx_release(d.sock[s]))
    BY <1>7 DEF uv_socket_close_done_cb
  <1> HIDE DEF a, ka, v
  <1>12. CASE o = 1
    <2> DEFINE n == socket_ctx_release(ka)
    <2>1. v = Put(a, s, n)
      <3>1. ~(k.closing_count <= 1)
        BY <1>4, <1>12
      <3> QED BY <1>10, <1>11, <3>1
    <2>2. /\ n \in Socket(Payload) /\ n.ref = ka.ref - 1
          /\ n.freed <=> ka.freed \/ ka.ref = 1
          /\ n.closing_count = ka.closing_count /\ n.on_closed = ka.on_closed
          /\ SameIo(ka, n)
      <3>1. ka.ref # 0
        BY <1>3, <1>6, <1>9
      <3> QED BY <1>9, <3>1, ReleaseFacts
    <2> HIDE DEF n
    <2>3. n.ref = 2 /\ n.closing_count = 1 /\ n.freed = FALSE /\ n.on_closed = TRUE
      <3>1. n.freed \in BOOLEAN
        BY <2>2 DEF Socket
      <3> QED BY <1>4, <1>6, <1>8, <1>9, <1>12, <2>2, <3>1
    <2>4. SameIo(k, n)
      BY <1>9, <2>2 DEF SameIo
    <2>5. SocketOK(n, TRUE, FALSE, b)
      <3>1. /\ n.ref = One(~FALSE) + CloseOwed(k) /\ (n.freed <=> n.ref = 0)
            /\ n.closing_count = CloseOwed(k) /\ (n.on_closed <=> CloseOwed(k) > 0)
        <4>1. CloseOwed(k) = 1 /\ One(~FALSE) = 1
          BY <1>12 DEF o, One
        <4> QED BY <2>3, <4>1
      <3> QED BY <1>1, <2>2, <2>4, <3>1, HandleGone DEF OneClosed
    <2>6. /\ v \in TunnelType /\ v.ref = a.ref /\ v.is_terminated = a.is_terminated
          /\ v.freed = a.freed /\ v.stage = a.stage
          /\ v.held = a.held /\ v.bad = a.bad /\ v.sock[s] = n
          /\ \A r \in Side : r # s => v.sock[r] = a.sock[r]
      <3>1. a \in TunnelType /\ s \in Side /\ n \in Socket(Payload) /\ v = Put(a, s, n)
        BY <1>10, <2>1, <2>2
      <3>2. PutForm(v, a, s, n)
        BY <3>1, PutFormOK
      <3> QED BY <3>2 DEF PutForm
    <2>7. is_in_streaming(v) = b
      BY <1>7, <1>10, <2>6 DEF is_in_streaming, b
    <2>8. \A r \in Side : SocketOK(v.sock[r], TRUE, FALSE, b)
      BY <1>1, <1>5, <1>7, <1>10, <2>5, <2>6
    <2>9. \A r \in Side : v.sock[r].on_closed = u.sock[r].on_closed
      <3>1. u.sock[s].on_closed = TRUE
        BY <1>4 DEF OneClosed
      <3> QED BY <1>7, <1>10, <2>3, <2>6, <3>1
    <2>10. /\ v.ref = u.ref /\ v.is_terminated = TRUE /\ v.freed = FALSE
           /\ v.held = u.held /\ v.bad \subseteq {"stale"}
      BY <1>1, <1>5, <1>7, <1>10, <2>6
    <2>11. v.ref = One(~v.is_terminated) + One(v.sock["incoming"].on_closed)
                + One(v.sock["outgoing"].on_closed) + One(v.held)
      <3>1. u.ref = One(~u.is_terminated) + One(u.sock["incoming"].on_closed)
                  + One(u.sock["outgoing"].on_closed) + One(u.held)
        BY DEF TunnelOK
      <3>2. /\ v.sock["incoming"].on_closed = u.sock["incoming"].on_closed
            /\ v.sock["outgoing"].on_closed = u.sock["outgoing"].on_closed
        BY <2>9 DEF Side
      <3> QED BY <1>1, <2>10, <3>1, <3>2, Zenon
    <2>12. v.freed <=> v.ref = 0
      BY <1>3, <1>5, <2>10
    <2> QED BY <2>6, <2>7, <2>8, <2>10, <2>11, <2>12 DEF TunnelOK, v, w
  <1>13. CASE o = 0
    <2> DEFINE e  == tunnel_ctx_release(a)
               kc == [e.sock[s] EXCEPT !.on_closed = FALSE]
               c  == Put(e, s, kc)
               n  == socket_ctx_release(kc)
    <2>1. v = Put(c, s, socket_ctx_release(c.sock[s]))
      <3>1. k.closing_count <= 1 /\ k.on_closed
        BY <1>4, <1>13
      <3> QED BY <1>11, <3>1
    <2>2. a.ref = 1 + y + h /\ a.ref # 0 /\ a.ref \in Nat
      BY <1>3, <1>5, <1>7, <1>10
    <2>3. ka.ref = 2 /\ ka.freed = FALSE /\ ka.closing_count = 0 /\ ka.ref # 0
      BY <1>6, <1>8, <1>9, <1>13
    <2>4. /\ a.sock[q] = u.sock[q] /\ SocketOK(u.sock[q], TRUE, FALSE, b)
      BY <1>1, <1>2, <1>5, <1>7, <1>10
    <2>5. a.ref = 1 => ~u.sock[q].on_closed /\ y = 0 /\ h = 0
      <3>1. a.ref = 1 => y = 0 /\ h = 0
        BY <1>3, <2>2
      <3> QED BY <3>1 DEF y, One
    <2>6. a.ref = 1 => \A r \in Side : a.sock[r].ref # 0
      <3>1. a.ref = 1 => u.sock[q].ref # 0
        BY <1>1, <2>4, <2>5, FreeWithTunnel
      <3> QED BY <1>2, <1>10, <2>3, <2>4, <3>1
    <2>7. /\ e \in TunnelType /\ e.ref = a.ref - 1
          /\ e.is_terminated = a.is_terminated /\ e.stage = a.stage
          /\ e.held = a.held /\ e.bad = a.bad
          /\ a.ref # 1 => e.freed = a.freed /\ e.sock = a.sock
          /\ a.ref = 1 => /\ e.freed = TRUE
                          /\ \A r \in Side : e.sock[r] = socket_ctx_release(a.sock[r])
      <3>1. /\ a \in TunnelType /\ a.ref # 0 /\ e = tunnel_ctx_release(a)
            /\ a.ref = 1 => \A r \in Side : a.sock[r].ref # 0
        BY <1>10, <2>2, <2>6
      <3> HIDE DEF e
      <3> QED BY <3>1, TunnelReleaseFacts, Zenon
    <2> HIDE DEF e
    <2>8. /\ e.sock[s] \in Socket(Payload) /\ SameIo(k, e.sock[s])
          /\ e.sock[s].ref = 1 + One(~e.freed) /\ e.sock[s].freed = FALSE
          /\ e.sock[s].closing_count = 0
      <3>1. CASE a.ref # 1
        <4>1. e.sock[s] = ka /\ e.freed = FALSE
          BY <1>5, <1>7, <1>10, <2>7, <3>1
        <4> QED BY <1>9, <2>3, <4>1 DEF One
      <3>2. CASE a.ref = 1
        <4> DEFINE m == socket_ctx_release(ka)
        <4>1. e.sock[s] = m /\ e.freed = TRUE
          BY <1>10, <2>7, <3>2
        <4>2. /\ m \in Socket(Payload) /\ m.ref = ka.ref - 1
              /\ m.freed <=> ka.freed \/ ka.ref = 1
              /\ m.closing_count = ka.closing_count /\ SameIo(ka, m)
          BY <1>9, <2>3, ReleaseFacts
        <4> HIDE DEF m
        <4>3. m.freed = FALSE /\ m.ref = 1
          <5>1. m.freed \in BOOLEAN
            BY <4>2 DEF Socket
          <5> QED BY <2>3, <4>2, <5>1
        <4>4. SameIo(k, m)
          BY <1>9, <4>2 DEF SameIo
        <4> QED BY <2>3, <4>1, <4>2, <4>3, <4>4 DEF One
      <3> QED BY <3>1, <3>2
    <2>9. /\ kc \in Socket(Payload) /\ kc.on_closed = FALSE
          /\ kc.ref = e.sock[s].ref /\ kc.freed = e.sock[s].freed
          /\ kc.closing_count = e.sock[s].closing_count /\ SameIo(e.sock[s], kc)
      BY <2>8, Zenon DEF Socket, SameIo
    <2> HIDE DEF kc
    <2>10. e.freed \in BOOLEAN /\ One(~e.freed) \in {0, 1}
      BY <2>7 DEF TunnelType, One
    <2>11. /\ n \in Socket(Payload) /\ n.ref = kc.ref - 1
           /\ n.freed <=> kc.freed \/ kc.ref = 1
           /\ n.closing_count = kc.closing_count /\ n.on_closed = kc.on_closed
           /\ SameIo(kc, n)
      <3>1. kc.ref # 0
        BY <2>8, <2>9, <2>10
      <3> QED BY <2>9, <3>1, ReleaseFacts
    <2> HIDE DEF n
    <2>12. SocketOK(n, TRUE, e.freed, b) /\ n.on_closed = FALSE
      <3>1. SameIo(k, n)
        BY <2>8, <2>9, <2>11 DEF SameIo
      <3>2. n.ref = One(~e.freed) /\ n.closing_count = 0 /\ n.on_closed = FALSE
        BY <2>8, <2>9, <2>10, <2>11
      <3>3. n.freed <=> n.ref = 0
        BY <2>8, <2>9, <2>10, <2>11, <3>2
      <3>4. /\ n.ref = One(~e.freed) + CloseOwed(k)
            /\ n.closing_count = CloseOwed(k) /\ (n.on_closed <=> CloseOwed(k) > 0)
        <4>1. CloseOwed(k) = 0
          BY <1>13 DEF o
        <4> QED BY <2>10, <3>2, <4>1
      <3> QED BY <1>1, <2>10, <2>11, <3>1, <3>2, <3>3, <3>4, HandleGone DEF OneClosed
    <2>13. /\ c \in TunnelType /\ c.ref = e.ref /\ c.is_terminated = e.is_terminated
           /\ c.freed = e.freed /\ c.stage = e.stage
           /\ c.held = e.held /\ c.bad = e.bad /\ c.sock[s] = kc
           /\ \A r \in Side : r # s => c.sock[r] = e.sock[r]
      BY <2>7, <2>9, PutFacts
    <2> HIDE DEF c
    <2>14. v = Put(c, s, n)
      BY <2>1, <2>13 DEF n
    <2>15. /\ v \in TunnelType /\ v.ref = c.ref /\ v.is_terminated = c.is_terminated
           /\ v.freed = c.freed /\ v.stage = c.stage
           /\ v.held = c.held /\ v.bad = c.bad /\ v.sock[s] = n
           /\ \A r \in Side : r # s => v.sock[r] = c.sock[r]
      <3>1. c \in TunnelType /\ s \in Side /\ n \in Socket(Payload) /\ v = Put(c, s, n)
        BY <2>11, <2>13, <2>14
      <3>2. PutForm(v, c, s, n)
        BY <3>1, PutFormOK
      <3> QED BY <3>2 DEF PutForm
    <2>16. SocketOK(v.sock[q], TRUE, e.freed, b)
           /\ v.sock[q].on_closed = u.sock[q].on_closed
      <3>1. v.sock[q] = e.sock[q]
        BY <1>2, <2>13, <2>15
      <3>2. CASE a.ref # 1
        <4>1. v.sock[q] = u.sock[q] /\ e.freed = FALSE
          BY <1>5, <1>7, <1>10, <2>4, <2>7, <3>1, <3>2
        <4> QED BY <2>4, <4>1
      <3>3. CASE a.ref = 1
        <4>1. v.sock[q] = socket_ctx_release(u.sock[q]) /\ e.freed = TRUE
          BY <1>2, <2>4, <2>7, <3>1, <3>3
        <4>2. ~u.sock[q].on_closed
          BY <2>5, <3>3
        <4> QED BY <1>1, <2>4, <4>1, <4>2, FreeWithTunnel
      <3> QED BY <3>2, <3>3
    <2>17. is_in_streaming(v) = b
      BY <1>7, <1>10, <2>7, <2>13, <2>15 DEF is_in_streaming, b
    <2>18. v.freed = e.freed /\ v.ref = y + h /\ v.held = u.held
           /\ v.is_terminated = TRUE /\ v.bad \subseteq {"stale"}
      BY <1>1, <1>3, <1>7, <1>10, <2>2, <2>7, <2>13, <2>15
    <2>19. \A r \in Side : SocketOK(v.sock[r], v.is_terminated, v.freed, is_in_streaming(v))
      BY <1>2, <2>12, <2>15, <2>16, <2>17, <2>18
    <2>20. v.freed <=> v.ref = 0
      BY <1>3, <1>5, <1>7, <1>10, <2>2, <2>7, <2>18
    <2>21. v.ref = One(~v.is_terminated) + One(v.sock["incoming"].on_closed)
                + One(v.sock["outgoing"].on_closed) + One(v.held)
      <3>1. One(~v.is_terminated) = 0 /\ One(v.held) = h /\ One(v.sock[s].on_closed) = 0
        BY <2>12, <2>15, <2>18 DEF One, h
      <3>2. One(v.sock[q].on_closed) = y
        BY <2>16 DEF y
      <3>3. \/ s = "incoming" /\ q = "outgoing"
            \/ s = "outgoing" /\ q = "incoming"
        BY <1>2 DEF Side
      <3> QED BY <1>3, <2>18, <3>1, <3>2, <3>3
    <2> QED BY <2>15, <2>18, <2>19, <2>20, <2>21 DEF TunnelOK, v, w
  <1> QED BY <1>3, <1>12, <1>13

\* Both close callbacks preserve the invariant.
LEMMA OnClosedOK ==
    ASSUME NEW u, TunnelOK(u), NEW s \in Side, NEW k,
           \/ /\ u.sock[s].tcp = "closing" /\ ~u.sock[s].connecting
              /\ u.sock[s].writes = <<>>
              /\ k = [u.sock[s] EXCEPT !.tcp = "closed"]
           \/ /\ u.sock[s].timer = "closing"
              /\ k = [u.sock[s] EXCEPT !.timer = "closed"]
    PROVE  TunnelOK(uv_socket_close_done_cb(Put(u, s, k), s))
  <1> DEFINE j == u.sock[s]
  <1>1. /\ u \in TunnelType /\ j \in Socket(Payload)
        /\ SocketOK(j, u.is_terminated, u.freed, is_in_streaming(u))
    BY DEF TunnelOK, SocketOK
  <1>2. u.is_terminated = TRUE
    <2>1. u.is_terminated \in BOOLEAN
      BY <1>1 DEF TunnelType
    <2>2. j.tcp = "closing" \/ j.timer = "closing"
      OBVIOUS
    <2> HIDE DEF j
    <2> QED BY <1>1, <2>1, <2>2 DEF SocketOK
  <1>3. /\ j.is_terminated = TRUE /\ ~j.reading /\ ~j.ticking
        /\ j.tcp # "open" /\ j.timer # "open"
        /\ j.tcp = "closed" => j.writes = <<>> /\ ~j.connecting
    <2> HIDE DEF j
    <2> QED BY <1>1, <1>2 DEF SocketOK
  <1>4. \/ /\ j.tcp = "closing" /\ ~j.connecting /\ j.writes = <<>>
           /\ k = [j EXCEPT !.tcp = "closed"]
        \/ j.timer = "closing" /\ k = [j EXCEPT !.timer = "closed"]
    OBVIOUS
  <1> HIDE DEF j
  <1>5. /\ k \in Socket(Payload)
        /\ k.is_terminated = j.is_terminated /\ k.reading = j.reading
        /\ k.ticking = j.ticking /\ k.writes = j.writes /\ k.connecting = j.connecting
        /\ k.ref = j.ref /\ k.freed = j.freed
        /\ k.closing_count = j.closing_count /\ k.on_closed = j.on_closed
    <2>1. CASE k = [j EXCEPT !.tcp = "closed"]
      BY <1>1, <2>1, Zenon DEF Socket, HandleState
    <2>2. CASE k = [j EXCEPT !.timer = "closed"]
      BY <1>1, <2>2, Zenon DEF Socket, HandleState
    <2> QED BY <1>4, <2>1, <2>2
  <1>6. \/ /\ j.tcp = "closing" /\ ~j.connecting /\ j.writes = <<>>
           /\ k.tcp = "closed" /\ k.timer = j.timer
        \/ j.timer = "closing" /\ k.timer = "closed" /\ k.tcp = j.tcp
    BY <1>1, <1>4 DEF Socket
  <1>7. OneClosed(j, k)
    <2>1. CloseOwed(k) = CloseOwed(j) - 1
      BY <1>6 DEF CloseOwed
    <2>2. k.tcp # "open" /\ k.timer # "open"
          /\ (k.tcp = "closed" => k.writes = <<>> /\ ~k.connecting)
      BY <1>3, <1>5, <1>6
    <2> QED BY <1>3, <1>5, <2>1, <2>2 DEF OneClosed
  <1>8. PICK q \in Side : q # s
    BY DEF Side
  <1> QED BY <1>2, <1>5, <1>7, <1>8, CloseDoneOK DEF j

-----------------------------------------------------------------------------
(* The invariant. *)

\* The tunnel tunnel_initialize builds is a good one.
LEMMA NewTunnelOK ==
    ASSUME NEW l \in BOOLEAN, NEW r \in BOOLEAN
    PROVE  TunnelOK(NewTunnel(l, r))
  <1> DEFINE u == NewTunnel(l, r)
             S == [s \in Side |-> IF s = "incoming" /\ l
                       THEN IF r THEN socket_ctx_read(socket_context_create(TRUE), TRUE)
                                 ELSE socket_context_create(TRUE)
                       ELSE socket_context_create(FALSE)]
  <1>1. u = [ sock |-> S, ref |-> 1, is_terminated |-> FALSE, freed |-> FALSE,
              stage |-> FirstStage, held |-> FALSE, bad |-> {} ]
    BY DEF NewTunnel
  <1>2. ~is_in_streaming(u) /\ is_in_streaming(u) \in BOOLEAN /\ FirstStage \in Stages
    BY <1>1, StagesAssumption DEF is_in_streaming
  <1>3. \A s \in Side : SocketOK(S[s], FALSE, FALSE, is_in_streaming(u))
    BY <1>2, CreateOK, ReadOK
  <1>4. S \in [Side -> Socket(Payload)]
    <2>1. \A s \in Side : S[s] \in Socket(Payload)
      BY <1>3 DEF SocketOK
    <2> QED BY <2>1
  <1> HIDE DEF S
  <1>5. u \in TunnelType
    BY <1>1, <1>2, <1>4 DEF TunnelType
  <1>6. /\ u.is_terminated = FALSE /\ u.freed = FALSE /\ u.ref = 1
        /\ u.held = FALSE /\ u.bad = {} /\ u.sock = S
    BY <1>1
  <1>7. u.ref = 1 + One(u.held)
    BY <1>6 DEF One
  <1> HIDE DEF u
  <1>8. TunnelOK(u)
    BY <1>3, <1>5, <1>6, <1>7, MakeLive
  <1> QED BY <1>8 DEF u

\* A tunnel starts good, also when init_done_cb refuses the connection.
LEMMA InitOK == Init => IInv
  <1> SUFFICES ASSUME NEW l \in BOOLEAN, NEW b \in BOOLEAN,
                      t = tunnel_initialize(l, b)
               PROVE  TunnelOK(t)
    BY DEF Init, IInv
  <1>1. TunnelOK(NewTunnel(l, TRUE)) /\ TunnelOK(NewTunnel(l, FALSE))
    BY NewTunnelOK
  <1>2. TunnelOK(tunnel_shutdown(NewTunnel(l, FALSE)))
    BY <1>1, ShutdownOK
  <1> QED BY <1>1, <1>2 DEF tunnel_initialize

\* Every step of the tunnel preserves the inductive invariant.
LEMMA NextOK == IInv /\ [Next]_vars => IInv'
  <1> SUFFICES ASSUME TunnelOK(t), [Next]_vars
               PROVE  TunnelOK(t')
    BY DEF IInv
  <1>1. CASE OnOwnerEvent
    BY <1>1, HookOK DEF OnOwnerEvent
  <1>2. CASE OnOwnerRelease
    BY <1>2, OwnerReleaseOK DEF OnOwnerRelease
  <1>3. ASSUME NEW s \in Side, SocketEvent(s)
        PROVE  TunnelOK(t')
    <2>1. CASE OnRead(s)
      BY <2>1, OnReadOK DEF OnRead
    <2>2. CASE OnWritten(s)
      BY <2>2, OnWrittenOK DEF OnWritten
    <2>3. CASE OnConnect(s)
      BY <2>3, OnConnectOK DEF OnConnect
    <2>4. CASE OnTimeout(s)
      BY <2>4, OnTimeoutOK DEF OnTimeout
    <2>5. CASE DnsWork(s)
      BY <2>5, DnsWorkOK DEF DnsWork, DnsState
    <2>6. CASE OnGetaddrinfo(s)
      BY <2>6, OnGetaddrinfoOK DEF OnGetaddrinfo
    <2>7. CASE OnTcpClosed(s)
      BY <2>7, OnClosedOK DEF OnTcpClosed
    <2>8. CASE OnTimerClosed(s)
      BY <2>8, OnClosedOK DEF OnTimerClosed
    <2> QED BY <1>3, <2>1, <2>2, <2>3, <2>4, <2>5, <2>6, <2>7, <2>8 DEF SocketEvent
  <1>4. CASE UNCHANGED vars
    BY <1>4 DEF vars
  <1> QED BY <1>1, <1>2, <1>3, <1>4 DEF Next

\* The inductive invariant holds in every behaviour.
THEOREM Invariance == Spec => []IInv
  <1>1. Init => IInv
    BY InitOK
  <1>2. IInv /\ [Next]_vars => IInv'
    BY NextOK
  <1> QED BY <1>1, <1>2, PTL DEF Spec

\* What IInv says of a socket once its tunnel is freed: all of it is closed
\* and drained.
LEMMA FreedFacts ==
    ASSUME NEW u, TunnelOK(u), NEW s \in Side
    PROVE  /\ u.sock[s].freed => u.freed /\ CloseOwed(u.sock[s]) = 0
           /\ u.freed => /\ ~u.held /\ u.is_terminated
                         /\ ~u.sock[s].on_closed /\ ~EventOwed(u.sock[s])
  <1> DEFINE j == u.sock[s]
             x == One(u.sock["incoming"].on_closed)
             y == One(u.sock["outgoing"].on_closed)
  <1>1. /\ u \in TunnelType /\ u.freed \in BOOLEAN /\ j \in Socket(Payload)
        /\ SocketOK(j, u.is_terminated, u.freed, is_in_streaming(u))
    BY DEF TunnelOK, SocketOK, TunnelType
  <1>2. CloseOwed(j) \in {0, 1, 2} /\ One(~u.freed) \in {0, 1}
        /\ (One(~u.freed) = 0 => u.freed)
    BY <1>1 DEF CloseOwed, One
  <1>3. /\ j.ref = One(~u.freed) + CloseOwed(j) /\ (j.freed <=> j.ref = 0)
        /\ j.on_closed <=> CloseOwed(j) > 0
    <2> HIDE DEF j
    <2> QED BY <1>1 DEF SocketOK
  <1>4. u.freed => ~u.held /\ u.is_terminated /\ ~j.on_closed
    <2>1. u.ref = One(~u.is_terminated) + x + y + One(u.held)
          /\ (u.freed <=> u.ref = 0)
      BY DEF TunnelOK
    <2>2. x \in {0, 1} /\ y \in {0, 1} /\ One(u.held) \in {0, 1}
          /\ One(~u.is_terminated) \in {0, 1}
      BY DEF One
    <2> DEFINE g == One(u.held)
               h == One(~u.is_terminated)
    <2>0. u.ref = h + x + y + g
      BY <2>1
    <2>5. g \in {0, 1} /\ h \in {0, 1}
      BY <2>2
    <2>6. u.freed => u.ref = 0
      BY <2>1
    <2> HIDE DEF x, y, g, h
    <2>7. u.ref = 0 => x = 0 /\ y = 0 /\ g = 0 /\ h = 0
      BY <2>0, <2>2, <2>5
    <2>3. u.freed => x = 0 /\ y = 0 /\ One(u.held) = 0 /\ One(~u.is_terminated) = 0
      BY <2>6, <2>7 DEF g, h
    <2>4. s = "incoming" \/ s = "outgoing"
      BY DEF Side
    <2> QED BY <2>3, <2>4 DEF x, y, One
  <1> HIDE DEF j
  <1>5. u.freed => ~EventOwed(j)
    <2>1. SUFFICES ASSUME u.freed PROVE ~EventOwed(j)
      OBVIOUS
    <2>2. u.is_terminated /\ ~j.on_closed
      BY <1>4, <2>1
    <2>3. CloseOwed(j) = 0
      BY <1>2, <1>3, <2>2
    <2>4. j.tcp = "closed"
      <3>1. j.tcp # "closing"
        BY <2>3 DEF CloseOwed
      <3>2. j.tcp # "open"
        BY <1>1, <2>2 DEF SocketOK
      <3>3. j.tcp \in HandleState
        BY <1>1 DEF Socket
      <3> QED BY <3>1, <3>2, <3>3 DEF HandleState
    <2> QED BY <1>1, <2>2, <2>4 DEF SocketOK, EventOwed
  <1>6. j.freed => u.freed /\ CloseOwed(j) = 0
    BY <1>2, <1>3
  <1> QED BY <1>4, <1>5, <1>6 DEF j

\* Every state of the tunnel is inside its type.
THEOREM TypeCorrect == Spec => []TypeOK
  <1>1. IInv => TypeOK
    BY DEF IInv, TunnelOK, TypeOK
  <1> QED BY <1>1, Invariance, PTL

\* The reference counts of the tunnel and of its sockets are what RefCounts
\* says, for every owner, every stage and every number of queued writes.
THEOREM RefCountsCorrect == Spec => []RefCounts
  <1>1. IInv => RefCounts
    BY DEF IInv, TunnelOK, SocketOK, RefCounts
  <1> QED BY <1>1, Invariance, PTL

\* libuv never has a callback pending for memory that tunnel.c gave back, name
\* lookups excepted.
THEOREM NoStaleCallbackCorrect == Spec => []NoStaleCallback
  <1>1. IInv => NoStaleCallback
    <2> SUFFICES ASSUME TunnelOK(t)
                 PROVE  NoStaleCallback
      BY DEF IInv
    <2>1. \A s \in Side :
             /\ t.sock[s].freed => t.freed /\ CloseOwed(t.sock[s]) = 0
             /\ t.freed => /\ ~t.held /\ t.is_terminated
                           /\ ~t.sock[s].on_closed /\ ~EventOwed(t.sock[s])
      BY FreedFacts
    <2>2. t.held => ~t.freed
      BY <2>1 DEF Side
    <2>3. ASSUME NEW s \in Side
          PROVE  /\ EventOwed(t.sock[s]) \/ CloseOwed(t.sock[s]) > 0 => ~t.sock[s].freed
                 /\ EventOwed(t.sock[s]) \/ t.sock[s].on_closed => ~t.freed
      BY <2>1
    <2> QED BY <2>2, <2>3 DEF NoStaleCallback
  <1> QED BY <1>1, Invariance, PTL

\* A tunnel whose handles are all closed and whose owner is done with it has
\* been freed with both sockets.
THEOREM NoLeakCorrect == Spec => []NoLeak
  <1>1. IInv => NoLeak
    <2> SUFFICES ASSUME TunnelOK(t), t.is_terminated, ~t.held,
                        \A s \in Side : t.sock[s].tcp = "closed" /\ t.sock[s].timer = "closed"
                 PROVE  t.freed /\ \A s \in Side : t.sock[s].freed
      BY DEF IInv, NoLeak
    <2>1. \A s \in Side : CloseOwed(t.sock[s]) = 0
      BY DEF CloseOwed
    <2>0. \A s \in Side :
             /\ t.sock[s].on_closed <=> CloseOwed(t.sock[s]) > 0
             /\ t.sock[s].ref = One(~t.freed) + CloseOwed(t.sock[s])
      BY DEF TunnelOK, SocketOK
    <2>2. \A s \in Side : ~t.sock[s].on_closed
      BY <2>0, <2>1
    <2>3. t.ref = 0
      BY <2>2 DEF TunnelOK, One, Side
    <2>4. t.freed
      BY <2>3 DEF TunnelOK
    <2>5. \A s \in Side : t.sock[s].ref = 0
      <3>1. One(~t.freed) = 0
        BY <2>4 DEF One
      <3> QED BY <2>0, <2>1, <3>1
    <2> QED BY <2>4, <2>5 DEF TunnelOK, SocketOK
  <1> QED BY <1>1, Invariance, PTL

\* No ASSERT of tunnel.c fails under an owner that keeps the contract.
THEOREM AssertsCorrect == Spec => []AssertsHold
  <1>1. IInv => AssertsHold
    BY DEF IInv, TunnelOK, AssertsHold
  <1> QED BY <1>1, Invariance, PTL

-----------------------------------------------------------------------------
(* What a step may not do. *)

\* Sockets and tunnels whose counts may be any integers: giving a reference
\* back stays inside these types without a condition.
CountedSocket ==
    [ rdstate : socket_state, wrstate : socket_state, result : {"ok", "err"},
      is_terminated : BOOLEAN, check_timeout : BOOLEAN, ref : Int,
      closing_count : Int, on_closed : BOOLEAN,
      connected : BOOLEAN, reading : BOOLEAN, writes : Seq(Payload),
      connecting : BOOLEAN, dns : DnsState, ticking : BOOLEAN,
      tcp : HandleState, timer : HandleState, freed : BOOLEAN ]

CountedTunnel ==
    [ sock : [Side -> CountedSocket], ref : Int, is_terminated : BOOLEAN,
      freed : BOOLEAN, stage : Stages, held : BOOLEAN,
      bad : SUBSET {"read", "write", "connect", "getaddrinfo", "close",
                    "on_read", "on_written", "stale"} ]

\* The requests of a socket are those it had.
SameRequests(k, n) ==
    /\ n.writes = k.writes /\ n.connecting = k.connecting
    /\ n.connected = k.connected /\ n.dns = k.dns

\* v is u but for reference counts, closing counts and freed memory.
SameWork(u, v) ==
    /\ v \in CountedTunnel /\ v.is_terminated = u.is_terminated /\ v.held = u.held
    /\ v.stage = u.stage /\ v.bad = u.bad
    /\ \A r \in Side : SameRequests(u.sock[r], v.sock[r])

\* A tunnel inside its type is one whose counts are integers.
LEMMA CountedType ==
    ASSUME NEW u \in TunnelType
    PROVE  u \in CountedTunnel /\ \A r \in Side : u.sock[r] \in CountedSocket
  <1>1. \A k \in Socket(Payload) : k \in CountedSocket
    BY DEF Socket, CountedSocket
  <1> QED BY <1>1 DEF TunnelType, CountedTunnel

\* socket_ctx_release leaves the requests alone.
LEMMA ReleaseRequests ==
    ASSUME NEW k \in CountedSocket
    PROVE  socket_ctx_release(k) \in CountedSocket /\ SameRequests(k, socket_ctx_release(k))
  <1> DEFINE r == k.ref - 1
             f == k.freed \/ k.ref <= 1
  <1>1. r \in Int /\ f \in BOOLEAN
    BY DEF CountedSocket
  <1>2. socket_ctx_release(k) = [k EXCEPT !.ref = r, !.freed = f]
    BY DEF socket_ctx_release
  <1> HIDE DEF r, f
  <1>3. [k EXCEPT !.ref = r, !.freed = f] \in CountedSocket
    BY <1>1, Zenon DEF CountedSocket
  <1>4. SameRequests(k, [k EXCEPT !.ref = r, !.freed = f])
    BY Zenon DEF CountedSocket, SameRequests
  <1> QED BY <1>2, <1>3, <1>4

\* So does Put, for a socket with the same requests.
LEMMA PutRequests ==
    ASSUME NEW u \in CountedTunnel, NEW s \in Side, NEW k \in CountedSocket,
           SameRequests(u.sock[s], k)
    PROVE  SameWork(u, Put(u, s, k)) /\ Put(u, s, k).sock[s] = k
  BY DEF Put, CountedTunnel, SameWork, SameRequests

\* And tunnel_ctx_release, whether it frees the tunnel or not.
LEMMA TunnelReleaseRequests ==
    ASSUME NEW a \in CountedTunnel
    PROVE  SameWork(a, tunnel_ctx_release(a))
  <1> DEFINE m == a.ref - 1
             e == [a EXCEPT !.ref = m]
             S == [r \in Side |-> socket_ctx_release(e.sock[r])]
  <1>1. m \in Int
    BY DEF CountedTunnel
  <1>2. /\ e \in CountedTunnel /\ e.sock = a.sock /\ e.is_terminated = a.is_terminated
        /\ e.held = a.held /\ e.stage = a.stage /\ e.bad = a.bad
    <2> HIDE DEF m
    <2> QED BY <1>1, Zenon DEF CountedTunnel
  <1>3. tunnel_ctx_release(a) = e \/ tunnel_ctx_release(a) = [e EXCEPT !.freed = TRUE, !.sock = S]
    BY DEF tunnel_ctx_release, tunnel_destroy_internal
  <1> HIDE DEF e
  <1>4. \A r \in Side : e.sock[r] \in CountedSocket
    BY <1>2 DEF CountedTunnel
  <1>5. S \in [Side -> CountedSocket] /\ \A r \in Side : SameRequests(a.sock[r], S[r])
    BY <1>2, <1>4, ReleaseRequests
  <1> HIDE DEF S
  <1>6. [e EXCEPT !.freed = TRUE, !.sock = S] \in CountedTunnel
        /\ [e EXCEPT !.freed = TRUE, !.sock = S].sock = S
        /\ [e EXCEPT !.freed = TRUE, !.sock = S].is_terminated = e.is_terminated
        /\ [e EXCEPT !.freed = TRUE, !.sock = S].held = e.held
        /\ [e EXCEPT !.freed = TRUE, !.sock = S].stage = e.stage
        /\ [e EXCEPT !.freed = TRUE, !.sock = S].bad = e.bad
    BY <1>2, <1>5, Zenon DEF CountedTunnel
  <1>7. SameWork(a, e)
    BY <1>2 DEF SameWork, SameRequests
  <1>8. SameWork(a, [e EXCEPT !.freed = TRUE, !.sock = S])
    BY <1>2, <1>5, <1>6 DEF SameWork
  <1> QED BY <1>3, <1>7, <1>8

\* And with them the close callback.
LEMMA CloseDoneRequests ==
    ASSUME NEW u \in CountedTunnel, NEW s \in Side
    PROVE  SameWork(u, uv_socket_close_done_cb(u, s))
  <1> DEFINE k  == u.sock[s]
             cc == k.closing_count - 1
             ka == [k EXCEPT !.closing_count = cc]
             a  == Put(u, s, ka)
             b  == tunnel_ctx_release(a)
             kb == [b.sock[s] EXCEPT !.on_closed = FALSE]
             c  == Put(b, s, kb)
             d  == IF k.closing_count <= 1 /\ k.on_closed THEN c ELSE a
  <1>1. k \in CountedSocket /\ cc \in Int
    BY DEF CountedTunnel, CountedSocket
  <1>2. ka \in CountedSocket /\ SameRequests(k, ka)
    <2> HIDE DEF cc, k
    <2> QED BY <1>1, Zenon DEF CountedSocket, SameRequests
  <1>3. SameWork(u, a)
    BY <1>2, PutRequests
  <1>4. SameWork(a, b)
    BY <1>3, TunnelReleaseRequests DEF SameWork
  <1>5. b \in CountedTunnel /\ b.sock[s] \in CountedSocket
    BY <1>4 DEF SameWork, CountedTunnel
  <1>6. kb \in CountedSocket /\ SameRequests(b.sock[s], kb)
    <2> HIDE DEF b
    <2> QED BY <1>5, Zenon DEF CountedSocket, SameRequests
  <1>7. SameWork(b, c)
    BY <1>5, <1>6, PutRequests
  <1>8. uv_socket_close_done_cb(u, s) = Put(d, s, socket_ctx_release(d.sock[s]))
    BY DEF uv_socket_close_done_cb
  <1>9. d = c \/ d = a
    OBVIOUS
  <1> HIDE DEF a, b, c, d
  <1>10. SameWork(u, d)
    BY <1>3, <1>4, <1>7, <1>9 DEF SameWork, SameRequests
  <1>11. d \in CountedTunnel /\ d.sock[s] \in CountedSocket
    BY <1>10 DEF SameWork, CountedTunnel
  <1>12. SameWork(d, Put(d, s, socket_ctx_release(d.sock[s])))
    BY <1>11, ReleaseRequests, PutRequests
  <1> QED BY <1>8, <1>10, <1>12 DEF SameWork, SameRequests

\* What the callbacks do on a terminated tunnel: a request is completed, a
\* lookup makes progress or ends, in time or too late.
WriteEnds(s) ==
    \E status \in {"ok", "err"} :
       /\ t.sock[s].writes # <<>>
       /\ t' = Put(t, s, [t.sock[s] EXCEPT !.writes = Tail(@), !.result = status])
ConnectEnds(s) ==
    \E status \in {"ok", "err"}, c \in BOOLEAN :
       /\ t.sock[s].connecting
       /\ t' = Put(t, s, [t.sock[s] EXCEPT !.connecting = FALSE, !.ticking = FALSE,
                                           !.result = status, !.connected = c])
LookupMoves(s) ==
    \E d \in {"running", "done"} :
       /\ t.sock[s].dns # "none"
       /\ t' = Put(t, s, [t.sock[s] EXCEPT !.dns = d])
LookupEnds(s) ==
    \E status \in {"ok", "err"} :
       /\ ~t.sock[s].freed
       /\ t' = Put(t, s, [t.sock[s] EXCEPT !.dns = "none", !.ticking = FALSE,
                                           !.result = status])
LookupLate(s) ==
    /\ t.sock[s].freed
    /\ t' = Assert(Put(t, s, [t.sock[s] EXCEPT !.dns = "none"]), FALSE, "stale")

WindingUp(s) ==
    \/ WriteEnds(s) \/ ConnectEnds(s) \/ LookupMoves(s) \/ LookupEnds(s) \/ LookupLate(s)
    \/ OnTcpClosed(s) \/ OnTimerClosed(s)

\* A terminated tunnel takes no other step.
LEMMA TerminatedSteps ==
    ASSUME TunnelOK(t), t.is_terminated, Next
    PROVE  OnOwnerRelease \/ \E s \in Side : WindingUp(s)
  <1>1. ASSUME NEW s \in Side
        PROVE  ~t.sock[s].reading /\ ~t.sock[s].ticking
    <2>1. SocketOK(t.sock[s], t.is_terminated, t.freed, is_in_streaming(t))
      BY DEF TunnelOK
    <2> QED BY <2>1 DEF SocketOK
  <1>2. ~OnOwnerEvent
    BY DEF OnOwnerEvent
  <1>4. ASSUME NEW s \in Side, SocketEvent(s)
        PROVE  \/ OnWritten(s) \/ OnConnect(s) \/ DnsWork(s) \/ OnGetaddrinfo(s)
               \/ OnTcpClosed(s) \/ OnTimerClosed(s)
    BY <1>1, <1>4, Zenon DEF SocketEvent, OnRead, OnTimeout
  <1>5. ASSUME NEW s \in Side, OnWritten(s)
        PROVE  WriteEnds(s)
    BY <1>5 DEF OnWritten, tunnel_socket_ctx_on_written_cb, WriteEnds
  <1>6. ASSUME NEW s \in Side, OnConnect(s)
        PROVE  ConnectEnds(s)
    <2>1. PICK status \in {"ok", "err"} :
             t' \in tunnel_socket_ctx_on_connect_cb(t, s, status, AnyHook)
      BY <1>6 DEF OnConnect
    <2> DEFINE c == status = "ok"
    <2>2. t' = Put(t, s, [t.sock[s] EXCEPT
                      !.connecting = FALSE, !.ticking = FALSE, !.result = status,
                      !.connected = c])
      BY <2>1 DEF tunnel_socket_ctx_on_connect_cb
    <2>3. c \in BOOLEAN /\ t.sock[s].connecting
      BY <1>6 DEF OnConnect
    <2> HIDE DEF c
    <2> QED BY <2>2, <2>3, Zenon DEF ConnectEnds
  <1>7. ASSUME NEW s \in Side, DnsWork(s)
        PROVE  LookupMoves(s)
    BY <1>7 DEF DnsWork, LookupMoves
  <1>8. ASSUME NEW s \in Side, OnGetaddrinfo(s)
        PROVE  LookupEnds(s) \/ LookupLate(s)
    BY <1>8 DEF OnGetaddrinfo, tunnel_socket_ctx_on_getaddrinfo_cb, LookupEnds, LookupLate
  <1>9. ASSUME NEW s \in Side, SocketEvent(s)
        PROVE  WindingUp(s)
    BY <1>4, <1>5, <1>6, <1>7, <1>8, <1>9, Zenon DEF WindingUp
  <1> QED BY <1>2, <1>9, Zenon DEF Next

\* What winding up leaves of the requests of socket r.
Drained(r) ==
    LET k == t.sock[r]
        n == t'.sock[r]
    IN  /\ Len(n.writes) <= Len(k.writes)
        /\ n.connecting => k.connecting
        /\ k.dns = "none" => n.dns = "none"

\* Any step of a terminated tunnel only drains, and leaves it terminated.
LEMMA TerminatedDrains ==
    ASSUME TunnelOK(t), t.is_terminated, Next
    PROVE  t'.is_terminated /\ \A r \in Side : Drained(r)
  <1>1. /\ t \in TunnelType /\ t \in CountedTunnel /\ t.is_terminated = TRUE
        /\ \A r \in Side : t.sock[r] \in Socket(Payload)
    BY CountedType DEF TunnelOK, TunnelType
  <1>2. ASSUME t'.is_terminated = t.is_terminated,
               \A r \in Side : SameRequests(t.sock[r], t'.sock[r])
        PROVE  t'.is_terminated /\ \A r \in Side : Drained(r)
    <2>1. \A r \in Side : t.sock[r].writes \in Seq(Payload)
      BY <1>1 DEF Socket
    <2>2. \A r \in Side : Len(t.sock[r].writes) \in Nat
      BY <2>1
    <2> QED BY <1>1, <1>2, <2>2 DEF SameRequests, Drained
  <1>3. CASE OnOwnerRelease
    <2> DEFINE a == [t EXCEPT !.held = FALSE]
    <2>1. a \in CountedTunnel /\ a.sock = t.sock /\ a.is_terminated = t.is_terminated
      BY <1>1, Zenon DEF CountedTunnel
    <2>2. t' = tunnel_ctx_release(a)
      BY <1>3 DEF OnOwnerRelease
    <2> HIDE DEF a
    <2>3. SameWork(a, t')
      BY <2>1, <2>2, TunnelReleaseRequests
    <2>4. /\ t'.is_terminated = t.is_terminated
          /\ \A r \in Side : SameRequests(t.sock[r], t'.sock[r])
      BY <2>1, <2>3 DEF SameWork
    <2> QED BY <1>2, <2>4
  <1>4. ASSUME NEW s \in Side, NEW n \in Socket(Payload), PutForm(t', t, s, n),
               Len(n.writes) <= Len(t.sock[s].writes),
               n.connecting => t.sock[s].connecting,
               t.sock[s].dns = "none" => n.dns = "none"
        PROVE  t'.is_terminated /\ \A r \in Side : Drained(r)
    <2>1. \A r \in Side : t.sock[r].writes \in Seq(Payload)
      BY <1>1 DEF Socket
    <2>2. \A r \in Side : Len(t.sock[r].writes) \in Nat
      BY <2>1
    <2>3. \A r \in Side : r # s => t'.sock[r] = t.sock[r]
      BY <1>4 DEF PutForm
    <2> QED BY <1>1, <1>4, <2>2, <2>3 DEF PutForm, Drained
  <1>5. ASSUME NEW s \in Side, WriteEnds(s)
        PROVE  t'.is_terminated /\ \A r \in Side : Drained(r)
    <2> DEFINE k == t.sock[s]
               w == Tail(k.writes)
    <2>1. PICK status \in {"ok", "err"} :
             t' = Put(t, s, [k EXCEPT !.writes = w, !.result = status])
      BY <1>5 DEF WriteEnds
    <2> DEFINE n == [k EXCEPT !.writes = w, !.result = status]
    <2>2. k \in Socket(Payload) /\ k.writes \in Seq(Payload) /\ k.writes # <<>>
      BY <1>1, <1>5 DEF Socket, WriteEnds
    <2>3. w \in Seq(Payload) /\ Len(w) <= Len(k.writes)
      BY <2>2, HeadTailProperties
    <2> HIDE DEF w, k
    <2>4. n \in Socket(Payload) /\ n.writes = w /\ n.connecting = k.connecting /\ n.dns = k.dns
      BY <2>2, <2>3, Zenon DEF Socket
    <2> HIDE DEF n
    <2>5. PutForm(t', t, s, n)
      BY <1>1, <2>1, <2>4, PutFormOK DEF n
    <2> QED BY <1>4, <2>3, <2>4, <2>5 DEF k
  <1>6. ASSUME NEW s \in Side, ConnectEnds(s)
        PROVE  t'.is_terminated /\ \A r \in Side : Drained(r)
    <2> DEFINE k == t.sock[s]
    <2>1. PICK status \in {"ok", "err"}, c \in BOOLEAN :
             t' = Put(t, s, [k EXCEPT !.connecting = FALSE, !.ticking = FALSE,
                                      !.result = status, !.connected = c])
      BY <1>6 DEF ConnectEnds
    <2> DEFINE n == [k EXCEPT !.connecting = FALSE, !.ticking = FALSE,
                              !.result = status, !.connected = c]
    <2>2. k \in Socket(Payload)
      BY <1>1
    <2> HIDE DEF k
    <2>3. n \in Socket(Payload) /\ n.writes = k.writes /\ ~n.connecting /\ n.dns = k.dns
      BY <2>2, Zenon DEF Socket
    <2>4. Len(k.writes) \in Nat
      BY <2>2 DEF Socket
    <2> HIDE DEF n
    <2>5. PutForm(t', t, s, n)
      BY <1>1, <2>1, <2>3, PutFormOK DEF n
    <2> QED BY <1>4, <2>3, <2>4, <2>5 DEF k
  <1>7. ASSUME NEW s \in Side, LookupMoves(s)
        PROVE  t'.is_terminated /\ \A r \in Side : Drained(r)
    <2> DEFINE k == t.sock[s]
    <2>1. PICK d \in {"running", "done"} :
             k.dns # "none" /\ t' = Put(t, s, [k EXCEPT !.dns = d])
      BY <1>7 DEF LookupMoves
    <2> DEFINE n == [k EXCEPT !.dns = d]
    <2>2. k \in Socket(Payload)
      BY <1>1
    <2> HIDE DEF k
    <2>3. n \in Socket(Payload) /\ n.writes = k.writes /\ n.connecting = k.connecting
      BY <2>2, Zenon DEF Socket, DnsState
    <2>4. Len(k.writes) \in Nat
      BY <2>2 DEF Socket
    <2> HIDE DEF n
    <2>5. PutForm(t', t, s, n)
      BY <1>1, <2>1, <2>3, PutFormOK DEF n
    <2> QED BY <1>4, <2>1, <2>3, <2>4, <2>5 DEF k
  <1>8. ASSUME NEW s \in Side, LookupEnds(s)
        PROVE  t'.is_terminated /\ \A r \in Side : Drained(r)
    <2> DEFINE k == t.sock[s]
    <2>1. PICK status \in {"ok", "err"} :
             t' = Put(t, s, [k EXCEPT !.dns = "none", !.ticking = FALSE, !.result = status])
      BY <1>8 DEF LookupEnds
    <2> DEFINE n == [k EXCEPT !.dns = "none", !.ticking = FALSE, !.result = status]
    <2>2. k \in Socket(Payload)
      BY <1>1
    <2> HIDE DEF k
    <2>3. n \in Socket(Payload) /\ n.writes = k.writes /\ n.connecting = k.connecting
          /\ n.dns = "none"
      BY <2>2, Zenon DEF Socket, DnsState
    <2>4. Len(k.writes) \in Nat
      BY <2>2 DEF Socket
    <2> HIDE DEF n
    <2>5. PutForm(t', t, s, n)
      BY <1>1, <2>1, <2>3, PutFormOK DEF n
    <2> QED BY <1>4, <2>3, <2>4, <2>5 DEF k
  <1>9. ASSUME NEW s \in Side, LookupLate(s)
        PROVE  t'.is_terminated /\ \A r \in Side : Drained(r)
    <2> DEFINE k == t.sock[s]
               n == [k EXCEPT !.dns = "none"]
               m == Put(t, s, n)
    <2>1. t' = [m EXCEPT !.bad = @ \cup {"stale"}]
      BY <1>9 DEF LookupLate, Assert
    <2>2. k \in Socket(Payload)
      BY <1>1
    <2> HIDE DEF k
    <2>3. n \in Socket(Payload) /\ n.writes = k.writes /\ n.connecting = k.connecting
          /\ n.dns = "none"
      BY <2>2, Zenon DEF Socket, DnsState
    <2>4. Len(k.writes) \in Nat
      BY <2>2 DEF Socket
    <2> HIDE DEF n
    <2>5. PutForm(m, t, s, n)
      BY <1>1, <2>3, PutFormOK
    <2> HIDE DEF m
    <2>6. PutForm([m EXCEPT !.bad = t.bad], t, s, n) /\ t'.sock = m.sock
          /\ t'.is_terminated = m.is_terminated
      BY <2>1, <2>5 DEF PutForm, TunnelType
    <2>7. \A r \in Side : r # s => t'.sock[r] = t.sock[r]
      BY <2>5, <2>6 DEF PutForm
    <2>8. t'.sock[s] = n /\ t'.is_terminated
      BY <1>1, <2>5, <2>6 DEF PutForm
    <2>9. \A r \in Side : Len(t.sock[r].writes) \in Nat
      BY <1>1 DEF Socket
    <2> QED BY <2>3, <2>4, <2>7, <2>8, <2>9 DEF Drained, k
  <1>10. ASSUME NEW s \in Side, NEW k \in Socket(Payload),
                SameRequests(t.sock[s], k), t' = uv_socket_close_done_cb(Put(t, s, k), s)
         PROVE  t'.is_terminated /\ \A r \in Side : Drained(r)
    <2> DEFINE w == Put(t, s, k)
    <2>1. w \in TunnelType /\ w.is_terminated = t.is_terminated
          /\ \A r \in Side : SameRequests(t.sock[r], w.sock[r])
      <3>1. PutForm(w, t, s, k)
        BY <1>1, <1>10, PutFormOK
      <3> HIDE DEF w
      <3>2. w \in TunnelType /\ w.is_terminated = t.is_terminated /\ w.sock[s] = k
            /\ \A r \in Side : r # s => w.sock[r] = t.sock[r]
        BY <3>1 DEF PutForm
      <3> QED BY <1>10, <3>2 DEF SameRequests
    <2> HIDE DEF w
    <2>2. SameWork(w, t')
      BY <1>10, <2>1, CountedType, CloseDoneRequests DEF w
    <2>3. /\ t'.is_terminated = t.is_terminated
          /\ \A r \in Side : SameRequests(t.sock[r], t'.sock[r])
      BY <2>1, <2>2 DEF SameWork, SameRequests
    <2> QED BY <1>2, <2>3
  <1>11. ASSUME NEW s \in Side, OnTcpClosed(s)
         PROVE  t'.is_terminated /\ \A r \in Side : Drained(r)
    <2> DEFINE k == t.sock[s]
    <2>1. k \in Socket(Payload) /\ t' = uv_socket_close_done_cb(Put(t, s, [k EXCEPT !.tcp = "closed"]), s)
      BY <1>1, <1>11 DEF OnTcpClosed
    <2>2. [k EXCEPT !.tcp = "closed"] \in Socket(Payload)
          /\ SameRequests(k, [k EXCEPT !.tcp = "closed"])
      <3> HIDE DEF k
      <3> QED BY <2>1, Zenon DEF Socket, HandleState, SameRequests
    <2> QED BY <1>10, <2>1, <2>2
  <1>12. ASSUME NEW s \in Side, OnTimerClosed(s)
         PROVE  t'.is_terminated /\ \A r \in Side : Drained(r)
    <2> DEFINE k == t.sock[s]
    <2>1. k \in Socket(Payload) /\ t' = uv_socket_close_done_cb(Put(t, s, [k EXCEPT !.timer = "closed"]), s)
      BY <1>1, <1>12 DEF OnTimerClosed
    <2>2. [k EXCEPT !.timer = "closed"] \in Socket(Payload)
          /\ SameRequests(k, [k EXCEPT !.timer = "closed"])
      <3> HIDE DEF k
      <3> QED BY <2>1, Zenon DEF Socket, HandleState, SameRequests
    <2> QED BY <1>10, <2>1, <2>2
  <1>13. OnOwnerRelease \/ \E s \in Side : WindingUp(s)
    BY TerminatedSteps
  <1> QED BY <1>3, <1>5, <1>6, <1>7, <1>8, <1>9, <1>11, <1>12, <1>13, Zenon DEF WindingUp

\* A terminated socket starts nothing new.
THEOREM ClosedStaysClosedCorrect == Spec => ClosedStaysClosed
  <1>1. IInv /\ [Next]_vars => [ClosedStep]_vars
    <2> SUFFICES ASSUME IInv, Next, NEW s \in Side, t.sock[s].is_terminated
                 PROVE  LET k == t.sock[s]
                            n == t'.sock[s]
                        IN  /\ ~n.reading /\ ~n.ticking /\ n.is_terminated
                            /\ Len(n.writes) <= Len(k.writes)
                            /\ n.connecting => k.connecting
                            /\ k.dns = "none" => n.dns = "none"
      BY DEF ClosedStep
    <2>1. TunnelOK(t) /\ TunnelOK(t')
      BY NextOK DEF IInv
    <2>2. t.is_terminated
      BY <2>1 DEF TunnelOK, SocketOK
    <2>3. t'.is_terminated /\ Drained(s)
      BY <2>1, <2>2, TerminatedDrains
    <2>4. SocketOK(t'.sock[s], t'.is_terminated, t'.freed, is_in_streaming(t'))
      BY <2>1 DEF TunnelOK
    <2>5. ~t'.sock[s].reading /\ ~t'.sock[s].ticking /\ t'.sock[s].is_terminated
      BY <2>3, <2>4 DEF SocketOK
    <2> QED BY <2>3, <2>5 DEF Drained
  <1> QED BY <1>1, Invariance, PTL DEF Spec, ClosedStaysClosed

\* Freed memory is touched by nothing but a late name lookup.
THEOREM FreedIsFinalCorrect == Spec => FreedIsFinal
  <1>1. IInv /\ [Next]_vars => [FreedStep]_vars
    <2> SUFFICES ASSUME TunnelOK(t), Next PROVE FreedStep
      BY DEF IInv
    <2>1. CASE ~t.freed
      BY <2>1, FreedFacts DEF FreedStep
    <2>2. CASE t.freed
      <3>1. /\ t.is_terminated /\ ~t.held
            /\ \A s \in Side : ~EventOwed(t.sock[s]) /\ ~t.sock[s].on_closed
        BY <2>2, FreedFacts DEF Side
      <3>2. \A s \in Side : t.sock[s].tcp # "closing" /\ t.sock[s].timer # "closing"
        <4> TAKE s \in Side
        <4>1. t.sock[s].on_closed <=> CloseOwed(t.sock[s]) > 0
          BY DEF TunnelOK, SocketOK
        <4> QED BY <3>1, <4>1 DEF CloseOwed
      <3>3. PICK s \in Side : LookupMoves(s) \/ LookupEnds(s) \/ LookupLate(s)
        BY <3>1, <3>2, TerminatedSteps DEF WindingUp, WriteEnds, ConnectEnds, EventOwed,
           OnTcpClosed, OnTimerClosed, OnOwnerRelease
      <3>4. t.sock[s].freed /\ t \in TunnelType /\ t.sock[s] \in Socket(Payload)
        <4>1. t.sock[s].ref = One(~t.freed) + CloseOwed(t.sock[s])
              /\ (t.sock[s].freed <=> t.sock[s].ref = 0)
              /\ t \in TunnelType /\ t.sock[s] \in Socket(Payload)
          BY DEF TunnelOK, SocketOK
        <4>2. CloseOwed(t.sock[s]) = 0 /\ One(~t.freed) = 0
          BY <2>2, <3>2 DEF CloseOwed, One
        <4> QED BY <4>1, <4>2
      <3>5. \E d \in DnsState, b \in {t.bad, t.bad \cup {"stale"}} :
               t' = [Put(t, s, [t.sock[s] EXCEPT !.dns = d]) EXCEPT !.bad = b]
        <4>1. CASE LookupMoves(s)
          <5>1. PICK d \in {"running", "done"} : t' = Put(t, s, [t.sock[s] EXCEPT !.dns = d])
            BY <4>1 DEF LookupMoves
          <5> DEFINE m == Put(t, s, [t.sock[s] EXCEPT !.dns = d])
          <5>2. m = [m EXCEPT !.bad = t.bad]
            BY <3>4 DEF Put, TunnelType
          <5> QED BY <5>1, <5>2 DEF DnsState
        <4>2. CASE LookupLate(s)
          <5> DEFINE m == Put(t, s, [t.sock[s] EXCEPT !.dns = "none"])
          <5>1. t' = [m EXCEPT !.bad = m.bad \cup {"stale"}]
            BY <4>2 DEF LookupLate, Assert
          <5>2. m.bad = t.bad
            BY <3>4 DEF Put, TunnelType
          <5> QED BY <5>1, <5>2 DEF DnsState
        <4> QED BY <3>3, <3>4, <4>1, <4>2 DEF LookupEnds
      <3>6. PICK d \in DnsState, b \in {t.bad, t.bad \cup {"stale"}} :
               t' = [Put(t, s, [t.sock[s] EXCEPT !.dns = d]) EXCEPT !.bad = b]
        BY <3>5
      <3> DEFINE n == [t.sock[s] EXCEPT !.dns = d]
      <3>7. /\ t'.ref = t.ref /\ t'.freed = t.freed /\ t'.sock[s] = n
            /\ \A r \in Side : r # s => t'.sock[r] = t.sock[r]
        <4> HIDE DEF n
        <4> QED BY <3>4, <3>6 DEF Put, TunnelType, n
      <3>8. n.dns = d
        BY <3>4 DEF Socket
      <3>9. \A r \in Side : t.sock[r] = [t.sock[r] EXCEPT !.dns = t.sock[r].dns]
        <4> TAKE r \in Side
        <4>1. t.sock[r] \in Socket(Payload)
          BY DEF TunnelOK, SocketOK
        <4> QED BY <4>1 DEF Socket
      <3> HIDE DEF n
      <3>10. \A r \in Side : t'.sock[r] = [t.sock[r] EXCEPT !.dns = t'.sock[r].dns]
        BY <3>7, <3>8, <3>9 DEF n
      <3> QED BY <2>2, <3>7, <3>10 DEF FreedStep
    <2> QED BY <2>1, <2>2
  <1> QED BY <1>1, Invariance, PTL DEF Spec, FreedIsFinal
=============================================================================
