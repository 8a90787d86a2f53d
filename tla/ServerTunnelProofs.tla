-------------------------- MODULE ServerTunnelProofs -------------------------
(***************************************************************************)
(* Theorems about ServerTunnel, for every set of configurations, every     *)
(* kind of request and every bound on the packets.                         *)
(*                                                                         *)
(* What the proofs about Tunnel say of tunnel.c is used here: a tunnel of  *)
(* the server is a tunnel of that module (its core) with a server_ctx.     *)
(***************************************************************************)
EXTENDS ServerTunnel, TunnelParts

-----------------------------------------------------------------------------
(* The inductive invariant. *)

\* A live tunnel, whose sockets are i and o.
Alive(i, o, st) == Core(Pair(i, o), 1, FALSE, FALSE, st, FALSE, {})
Live(i, o, st, d) == Whole(Alive(i, o, st), d)

Apps(n) == Numbered(AppData, n)

\* What is answered before anything is relayed, and what is relayed.
AnswersTo(mode) ==
    CASE mode = "plain"   -> <<>>
      [] mode = "confirm" -> <<Reply("confirm")>>
      [] mode = "ticket"  -> <<Reply("receipt")>>
      [] mode = "both"    -> <<Reply("receipt"), Reply("confirm")>>
      [] mode = "tls"     -> <<Reply("upgrade")>>

DownTo(mode, n) ==
    Item(IF mode # "tls" THEN "srv" ELSE IF n = 1 THEN "binary" ELSE "continuation", n)
Downs(mode, n) == [i \in 1 .. n |-> DownTo(mode, i)]

HandshakeLen(d) == Len(Handshake(d.cipher.mode))

\* The plugins have accepted the client, and the address has come.
Authed(d) ==
    /\ d.got >= HandshakeLen(d) /\ d.got <= HandshakeLen(d) + MaxData
    /\ HasObfs(d.cipher) => d.cipher.status = "open"
    /\ HasAuth(d.cipher) => d.cipher.header

\* The relay of a tunnel that is terminated / freed.
RelayOK(r, term, gone) ==
    IF r.on
    THEN /\ r.ref = One(~gone) + One(r.udp = "closing") + One(r.timer = "closing")
         /\ r.freed <=> r.ref = 0
         /\ r.shutting_down => term /\ ~r.receiving /\ ~r.ticking
                               /\ r.udp # "open" /\ r.timer # "open"
         /\ ~r.shutting_down => r.dying_cb /\ r.udp = "open" /\ r.timer = "open"
         /\ r.udp = "closed" => r.sends = 0
         /\ gone => r.shutting_down /\ ~r.dying_cb
    ELSE r = NoRelay

\* server_ctx before anything is relayed.
Blank(d) ==
    /\ d \in ServerCtx /\ d.bad = {} /\ d.udp = NoRelay /\ d.valid
    /\ d.begun = FALSE /\ d.closing = FALSE /\ d.srv = 0 /\ d.sent["outgoing"] = <<>>

New(d) ==
    /\ Blank(d) /\ d.got = 0 /\ d.cut = FALSE /\ d.pkg = <<>>
    /\ d.sent["incoming"] = <<>> /\ d.cipher.status = "fresh" /\ d.cipher.header = FALSE

Greeted(d) ==
    /\ Blank(d) /\ d.got = 1 /\ d.cut = FALSE /\ d.pkg = <<>> /\ HasObfs(d.cipher)
    /\ d.sent["incoming"] = <<Reply("receipt")>>
    /\ d.cipher.status = "hello" /\ d.cipher.header = FALSE

\* The package as it was read: the address, and data behind it.
Packed(d) == Authed(d) /\ d.pkg = <<Address>> \o Apps(d.got - HandshakeLen(d))

Confirmed(d) ==
    /\ Blank(d) /\ HasAuth(d.cipher)
    /\ d.sent["incoming"] = AnswersTo(d.cipher.mode)
    /\ d.pkg = <<>> \/ Packed(d)

Dialled(d) ==
    /\ Blank(d) /\ Authed(d) /\ d.pkg = Apps(d.got - HandshakeLen(d))
    /\ d.cipher.mode = "tls" => d.got = 1
    /\ d.sent["incoming"] = IF d.cipher.mode = "tls" THEN <<>> ELSE AnswersTo(d.cipher.mode)

Launched(d) ==
    /\ d \in ServerCtx /\ d.bad = {} /\ d.udp = NoRelay /\ d.valid /\ Authed(d)
    /\ d.begun = FALSE /\ d.closing = FALSE /\ d.srv = 0
    /\ d.cipher.mode = "tls" => d.got = 1
    /\ d.sent["outgoing"] = Apps(d.got - HandshakeLen(d))
    /\ d.sent["incoming"] = AnswersTo(d.cipher.mode)

\* What a relaying tunnel has written to the client.
Down(d) ==
    /\ d.begun <=> d.cipher.mode = "tls" /\ d.srv > 0
    /\ d.closing => d.cipher.mode = "tls"
    /\ d.sent["incoming"] = AnswersTo(d.cipher.mode) \o Downs(d.cipher.mode, d.srv)
                            \o (IF d.closing THEN <<Reply("close")>> ELSE <<>>)

Relaying(d) ==
    /\ d \in ServerCtx /\ d.bad \subseteq {"early_datagram"} /\ Authed(d) /\ Down(d)
    /\ d.cipher.mode = "tls" /\ d.closing = FALSE
    /\ d.udp.on /\ RelayOK(d.udp, FALSE, FALSE)

\* The stages, what the sockets are doing in each, and what server_ctx holds.
AtInitial(st, i, o, d) == st = "initial" /\ Reading(i) /\ Unused(o) /\ New(d)
AtReceipt(st, i, o, d) ==
    st = "obfs_receipt_done" /\ Writing(i) /\ Unused(o) /\ Greeted(d)
AtFeedback(st, i, o, d) ==
    st = "client_feedback_coming" /\ Reading(i) /\ Unused(o) /\ Greeted(d)
AtConfirm(st, i, o, d) ==
    st = "protocol_confirm_done" /\ Writing(i) /\ Unused(o) /\ Confirmed(d)
AtResolve(st, i, o, d) == st = "resolve_host" /\ Quiet(i) /\ Looking(o) /\ Dialled(d)
AtConnect(st, i, o, d) == st = "connect_host" /\ Quiet(i) /\ Dialling(o) /\ Dialled(d)
AtLaunch(st, i, o, d) ==
    st = "launch_streaming" /\ Quiet(i) /\ Writing(o) /\ Launched(d)
AtUpgrade(st, i, o, d) ==
    /\ st = "tls_client_feedback" /\ Writing(i) /\ Quiet(o)
    /\ Launched(d) /\ d.cipher.mode = "tls"
AtUdpUpgrade(st, i, o, d) ==
    /\ st = "tls_client_feedback" /\ Busy(i) /\ Unused(o) /\ Relaying(d) /\ d.valid
    /\ d.got = 1 /\ d.pkg = <<Datagram>> /\ d.sent["outgoing"] = <<>>
    /\ Len(i.writes) <= d.srv + 1
AtPage(st, i, o, d) ==
    /\ st = "normal_response" /\ Writing(i) /\ Unused(o)
    /\ d \in ServerCtx /\ d.bad = {} /\ d.udp = NoRelay /\ d.sent["outgoing"] = <<>>
AtStreaming(st, i, o, d) ==
    /\ st = "streaming" /\ Flow(i) /\ Flow(o) /\ i.reading = TRUE /\ o.reading = ~d.closing
    /\ d \in ServerCtx /\ d.bad = {} /\ d.udp = NoRelay /\ Authed(d) /\ Down(d)
    /\ d.valid => d.sent["outgoing"] = Apps(d.got - HandshakeLen(d))
    /\ Len(i.writes) <= d.srv + One(d.closing)
    /\ Len(o.writes) <= 2 * (d.got - HandshakeLen(d)) + One(d.cut) + One(~d.valid)
AtUdpStreaming(st, i, o, d) ==
    /\ st = "udp_streaming" /\ Flow(i) /\ i.reading = TRUE /\ Unused(o) /\ Relaying(d)
    /\ d.valid => d.sent["outgoing"] = <<Datagram>> \o Apps(d.got - HandshakeLen(d))
    /\ Len(i.writes) <= d.srv + 1

StageOK(st, i, o, d) ==
    \/ AtInitial(st, i, o, d) \/ AtReceipt(st, i, o, d) \/ AtFeedback(st, i, o, d)
    \/ AtConfirm(st, i, o, d) \/ AtResolve(st, i, o, d) \/ AtConnect(st, i, o, d)
    \/ AtLaunch(st, i, o, d) \/ AtUpgrade(st, i, o, d) \/ AtUdpUpgrade(st, i, o, d)
    \/ AtPage(st, i, o, d) \/ AtStreaming(st, i, o, d) \/ AtUdpStreaming(st, i, o, d)

LiveOK(u) ==
    LET i == u.sock["incoming"]
        o == u.sock["outgoing"]
    IN  u = Live(i, o, u.stage, u.data) /\ StageOK(u.stage, i, o, u.data)

\* A socket that has never been used to reach anybody.
Untouched(k) == k.dns = "none" /\ ~k.connecting /\ ~k.connected

Short(k) == Len(k.writes) <= 2 * MaxData + 2

\* What is left of server_ctx after the shutdown.
Over(i, o, gone, d) ==
    /\ d \in ServerCtx /\ d.bad \subseteq {"early_datagram", "closed_write"}
    /\ RelayOK(d.udp, TRUE, gone)
    /\ (Untouched(o) /\ d.sent["outgoing"] = <<>>) \/ Authed(d)
    /\ Short(i) /\ Short(o)

DeadOK(u) ==
    /\ u = Whole(CoreOf(u), u.data)
    /\ TunnelOK(CoreOf(u)) /\ u.is_terminated = TRUE /\ u.held = FALSE
    /\ Over(u.sock["incoming"], u.sock["outgoing"], u.freed, u.data)

SrvInv == LiveOK(t) \/ DeadOK(t)

-----------------------------------------------------------------------------
(* Calls on a live tunnel. *)

\* A live tunnel without its server_ctx is a core, and what its fields are.
LEMMA AliveFacts ==
    ASSUME NEW i, NEW o, NEW st
    PROVE  /\ IsCore(Alive(i, o, st)) /\ Alive(i, o, st).sock = Pair(i, o)
           /\ ~Alive(i, o, st).is_terminated
           /\ ~Alive(i, o, st).freed /\ Alive(i, o, st).stage = st
           /\ ~Alive(i, o, st).held /\ Alive(i, o, st).bad = {}
  <1> DEFINE x == Pair(i, o)
             n == 1
             no == FALSE
             b == {}
             c == Alive(i, o, st)
  <1>1. no = FALSE /\ b = {} /\ c = Core(x, n, no, no, st, no, b)
    BY DEF Alive
  <1> HIDE DEF x, n, no, b, c
  <1>2. /\ c.sock = x /\ c.is_terminated = no /\ c.freed = no
        /\ c.stage = st /\ c.held = no /\ c.bad = b /\ IsCore(c)
    BY <1>1, CoreFields
  <1>3. c.sock = x /\ ~c.is_terminated /\ ~c.freed /\ c.stage = st /\ ~c.held
        /\ c.bad = {} /\ IsCore(c)
    BY <1>1, <1>2
  <1> QED BY <1>3 DEF x, c

\* One reference to a live tunnel: its own.
LEMMA AliveRef ==
    ASSUME NEW i, NEW o, NEW st
    PROVE  Alive(i, o, st).ref = 1
  BY DEF Alive, Core

\* The fields of a live tunnel.
LEMMA LiveFields ==
    ASSUME NEW i, NEW o, NEW st, NEW d
    PROVE  /\ Live(i, o, st, d).sock = Pair(i, o)
           /\ Live(i, o, st, d).sock["incoming"] = i
           /\ Live(i, o, st, d).sock["outgoing"] = o
           /\ ~Live(i, o, st, d).is_terminated
           /\ ~Live(i, o, st, d).freed /\ Live(i, o, st, d).stage = st
           /\ ~Live(i, o, st, d).held /\ Live(i, o, st, d).bad = {}
           /\ Live(i, o, st, d).data = d
  <1> DEFINE c == Alive(i, o, st)
             u == Live(i, o, st, d)
  <1>1. u = Whole(c, d)
    BY DEF Live
  <1>2. /\ IsCore(c) /\ c.sock = Pair(i, o) /\ ~c.is_terminated
        /\ ~c.freed /\ c.stage = st /\ ~c.held /\ c.bad = {}
    BY AliveFacts
  <1> HIDE DEF c
  <1>3. /\ u.sock = c.sock /\ u.is_terminated = c.is_terminated
        /\ u.freed = c.freed /\ u.stage = c.stage /\ u.held = c.held /\ u.bad = c.bad
        /\ u.data = d
    <2> HIDE DEF u
    <2> QED BY <1>1, WholeFields
  <1> QED BY <1>2, <1>3, PairFacts

\* Put.
LEMMA LivePut ==
    ASSUME NEW i, NEW o, NEW st, NEW d, NEW k
    PROVE  /\ Put(Live(i, o, st, d), "incoming", k) = Live(k, o, st, d)
           /\ Put(Live(i, o, st, d), "outgoing", k) = Live(i, k, st, d)
  <1> DEFINE c == Alive(i, o, st)
             n == 1
             no == FALSE
             b == {}
             x == Pair(i, o)
             in == "incoming"
             out == "outgoing"
  <1>1. IsCore(c) /\ c.sock = x /\ c = Core(x, n, no, no, st, no, b)
    <2>1. c = Core(x, n, no, no, st, no, b)
      BY DEF Alive
    <2>2. IsCore(c) /\ c.sock = x
      BY AliveFacts
    <2> QED BY <2>1, <2>2
  <1>2. Put(c, in, k) = [c EXCEPT !.sock = Pair(k, o)]
    <2>1. [x EXCEPT ![in] = k] = Pair(k, o)
      BY PairFacts
    <2> HIDE DEF c, x
    <2> QED BY <1>1, <2>1 DEF Put
  <1>3. Put(c, out, k) = [c EXCEPT !.sock = Pair(i, k)]
    <2>1. [x EXCEPT ![out] = k] = Pair(i, k)
      BY PairFacts
    <2> HIDE DEF c, x
    <2> QED BY <1>1, <2>1 DEF Put
  <1>4. /\ Alive(k, o, st) = Core(Pair(k, o), n, no, no, st, no, b)
        /\ Alive(i, k, st) = Core(Pair(i, k), n, no, no, st, no, b)
    BY DEF Alive
  <1> HIDE DEF c, n, no, b, x, in, out
  <1>5. /\ [c EXCEPT !.sock = Pair(k, o)] = Core(Pair(k, o), n, no, no, st, no, b)
        /\ [c EXCEPT !.sock = Pair(i, k)] = Core(Pair(i, k), n, no, no, st, no, b)
    BY <1>1, CoreUpdate
  <1>6. /\ Put(Whole(c, d), in, k) = Whole(Put(c, in, k), d)
        /\ Put(Whole(c, d), out, k) = Whole(Put(c, out, k), d)
    BY <1>1, WholePut
  <1>7. /\ Put(Whole(c, d), in, k) = Whole(Alive(k, o, st), d)
        /\ Put(Whole(c, d), out, k) = Whole(Alive(i, k, st), d)
    BY <1>2, <1>3, <1>4, <1>5, <1>6
  <1> QED BY <1>7 DEF Live, c, in, out

\* A change of the stage, and an assignment to server_ctx.
LEMMA LiveSet ==
    ASSUME NEW i, NEW o, NEW st, NEW d, NEW y
    PROVE  /\ GoTo(Live(i, o, st, d), y) = Live(i, o, y, d)
           /\ SetData(Live(i, o, st, d), y) = Live(i, o, st, y)
  <1> DEFINE c == Alive(i, o, st)
             n == 1
             no == FALSE
             b == {}
             x == Pair(i, o)
  <1>1. IsCore(c) /\ c = Core(x, n, no, no, st, no, b)
    BY AliveFacts DEF Alive
  <1>2. Alive(i, o, y) = Core(x, n, no, no, y, no, b)
    BY DEF Alive
  <1>3. GoTo(Live(i, o, st, d), y) = SetStage(Whole(c, d), y)
        /\ SetData(Live(i, o, st, d), y) = SetData(Whole(c, d), y)
    BY DEF GoTo, Live, SetStage
  <1> HIDE DEF c, n, no, b, x
  <1>4. SetStage(c, y) = Core(x, n, no, no, y, no, b)
    <2> DEFINE term == no
               gone == no
               held == no
    <2>0. c = Core(x, n, term, gone, st, held, b)
      BY <1>1
    <2>1. [c EXCEPT !.stage = y] = Core(x, n, term, gone, y, held, b)
      <3> HIDE DEF term, gone, held
      <3>1. [c EXCEPT !.stage = y] \in CoreSet(x, n, term, gone, y, held, b)
        BY <2>0 DEF Core, CoreSet
      <3> QED BY <3>1, CoreEq
    <2> QED BY <2>1 DEF SetStage
  <1>5. SetStage(Whole(c, d), y) = Whole(SetStage(c, y), d)
        /\ SetData(Whole(c, d), y) = Whole(c, y)
    BY <1>1, WholeUpdate
  <1>6. SetStage(Whole(c, d), y) = Whole(Alive(i, o, y), d)
    BY <1>2, <1>4, <1>5
  <1> QED BY <1>3, <1>5, <1>6 DEF Live, c

\* Which stages stream.
LEMMA LiveStreams ==
    ASSUME NEW i, NEW o, NEW st, NEW d
    PROVE  is_in_streaming(Live(i, o, st, d)) <=> st \in {"streaming", "udp_streaming"}
  <1> DEFINE u == Live(i, o, st, d)
  <1>1. u.stage = st
    BY LiveFields
  <1> HIDE DEF u
  <1> QED BY <1>1, ServerStagesAssumption DEF is_in_streaming, u

\* An assertion of server.c that holds changes nothing.
LEMMA ServerAssertTrue ==
    ASSUME NEW u, NEW p, p, NEW what
    PROVE  ServerAssert(u, p, what) = u
  BY DEF ServerAssert

\* Read.
LEMMA LiveRead ==
    ASSUME NEW i, NEW o, NEW st, NEW d, NEW b
    PROVE  /\ CanRead(i) => Read(Live(i, o, st, d), "incoming", b)
                              = Live(socket_ctx_read(i, b), o, st, d)
           /\ CanRead(o) => Read(Live(i, o, st, d), "outgoing", b)
                              = Live(i, socket_ctx_read(o, b), st, d)
  <1> DEFINE u == Live(i, o, st, d)
  <1>1. u.sock["incoming"] = i /\ u.sock["outgoing"] = o
    BY LiveFields
  <1>2. ASSUME CanRead(i)
        PROVE  Read(u, "incoming", b) = Put(u, "incoming", socket_ctx_read(i, b))
    <2> HIDE DEF u
    <2> QED BY <1>1, <1>2, AssertTrue DEF Read
  <1>3. ASSUME CanRead(o)
        PROVE  Read(u, "outgoing", b) = Put(u, "outgoing", socket_ctx_read(o, b))
    <2> HIDE DEF u
    <2> QED BY <1>1, <1>3, AssertTrue DEF Read
  <1> QED BY <1>2, <1>3, LivePut

\* A lookup and a connect are started on the outgoing socket.
LEMMA LiveDial ==
    ASSUME NEW i, NEW o, NEW st, NEW d
    PROVE  /\ CanConnect(o) => Connect(Live(i, o, st, d), "outgoing")
                                 = Live(i, socket_ctx_connect(o), st, d)
           /\ CanGetaddrinfo(o) => Getaddrinfo(Live(i, o, st, d), "outgoing")
                                     = Live(i, socket_ctx_getaddrinfo(o), st, d)
  <1> DEFINE u == Live(i, o, st, d)
  <1>1. u.sock["outgoing"] = o
    BY LiveFields
  <1>2. ASSUME CanConnect(o)
        PROVE  Connect(u, "outgoing") = Put(u, "outgoing", socket_ctx_connect(o))
    <2> HIDE DEF u
    <2> QED BY <1>1, <1>2, AssertTrue DEF Connect
  <1>3. ASSUME CanGetaddrinfo(o)
        PROVE  Getaddrinfo(u, "outgoing") = Put(u, "outgoing", socket_ctx_getaddrinfo(o))
    <2> HIDE DEF u
    <2> QED BY <1>1, <1>3, AssertTrue DEF Getaddrinfo
  <1> QED BY <1>2, <1>3, LivePut

\* What a write adds to the history of server_ctx.
SaidIn(d, buf) == [d EXCEPT !.sent["incoming"] = @ \o buf]
SaidOut(d, buf) == [d EXCEPT !.sent["outgoing"] = @ \o buf]

\* Write.
LEMMA LiveWrite ==
    ASSUME NEW i, NEW o, NEW st, NEW d, NEW buf
    PROVE  /\ CanWrite(i) /\ (st \in {"streaming", "udp_streaming"} \/ i.wrstate = "stop") =>
                 Write(Live(i, o, st, d), "incoming", buf)
                    = Live(socket_ctx_write(i, buf), o, st, SaidIn(d, buf))
           /\ CanWrite(o) /\ (st \in {"streaming", "udp_streaming"} \/ o.wrstate = "stop") =>
                 Write(Live(i, o, st, d), "outgoing", buf)
                    = Live(i, socket_ctx_write(o, buf), st, SaidOut(d, buf))
  <1> DEFINE u == Live(i, o, st, d)
  <1>1. /\ u.sock["incoming"] = i /\ u.sock["outgoing"] = o
        /\ is_in_streaming(u) <=> st \in {"streaming", "udp_streaming"}
    BY LiveFields, LiveStreams
  <1>2. ASSUME CanWrite(i), st \in {"streaming", "udp_streaming"} \/ i.wrstate = "stop"
        PROVE  Write(u, "incoming", buf)
                 = Live(socket_ctx_write(i, buf), o, st, SaidIn(d, buf))
    <2> DEFINE v == Live(socket_ctx_write(i, buf), o, st, d)
    <2>1. tunnel_socket_ctx_write(u, "incoming", buf)
            = Put(u, "incoming", socket_ctx_write(i, buf))
      <3> HIDE DEF u
      <3> QED BY <1>1, <1>2, AssertTrue DEF tunnel_socket_ctx_write
    <2>2. Put(u, "incoming", socket_ctx_write(i, buf)) = v /\ v.data = d
      BY LivePut, LiveFields
    <2>3. [v EXCEPT !.data.sent["incoming"] = @ \o buf] = SetData(v, SaidIn(d, buf))
      <3> HIDE DEF v
      <3> QED BY <2>2 DEF SetData, SaidIn
    <2>4. SetData(v, SaidIn(d, buf)) = Live(socket_ctx_write(i, buf), o, st, SaidIn(d, buf))
      BY LiveSet
    <2> HIDE DEF u, v
    <2> QED BY <2>1, <2>2, <2>3, <2>4 DEF Write
  <1>3. ASSUME CanWrite(o), st \in {"streaming", "udp_streaming"} \/ o.wrstate = "stop"
        PROVE  Write(u, "outgoing", buf)
                 = Live(i, socket_ctx_write(o, buf), st, SaidOut(d, buf))
    <2> DEFINE v == Live(i, socket_ctx_write(o, buf), st, d)
    <2>1. tunnel_socket_ctx_write(u, "outgoing", buf)
            = Put(u, "outgoing", socket_ctx_write(o, buf))
      <3> HIDE DEF u
      <3> QED BY <1>1, <1>3, AssertTrue DEF tunnel_socket_ctx_write
    <2>2. Put(u, "outgoing", socket_ctx_write(o, buf)) = v /\ v.data = d
      BY LivePut, LiveFields
    <2>3. [v EXCEPT !.data.sent["outgoing"] = @ \o buf] = SetData(v, SaidOut(d, buf))
      <3> HIDE DEF v
      <3> QED BY <2>2 DEF SetData, SaidOut
    <2>4. SetData(v, SaidOut(d, buf)) = Live(i, socket_ctx_write(o, buf), st, SaidOut(d, buf))
      BY LiveSet
    <2> HIDE DEF u, v
    <2> QED BY <2>1, <2>2, <2>3, <2>4 DEF Write
  <1> QED BY <1>2, <1>3

\* The acknowledgements of the dispatcher.
LEMMA LiveAck ==
    ASSUME NEW i, NEW o, NEW st, NEW d
    PROVE  /\ i.rdstate = "done" /\ i.wrstate = "stop" =>
                 AckRead(Live(i, o, st, d)) = Live(RdStop(i), o, st, d)
           /\ i.wrstate = "done" => AckWrite(Live(i, o, st, d)) = Live(WrStop(i), o, st, d)
  <1> DEFINE u == Live(i, o, st, d)
  <1>1. u.sock["incoming"] = i
    BY LiveFields
  <1>2. ASSUME i.rdstate = "done", i.wrstate = "stop"
        PROVE  AckRead(u) = Put(u, "incoming", RdStop(i))
    <2> HIDE DEF u
    <2> QED BY <1>1, <1>2, ServerAssertTrue DEF AckRead, RdStop
  <1>3. ASSUME i.wrstate = "done"
        PROVE  AckWrite(u) = Put(u, "incoming", WrStop(i))
    <2> HIDE DEF u
    <2>1. AckWrite(u) = ServerAssert(Put(u, "incoming", WrStop(i)), i.wrstate = "done", "wrstate")
      BY <1>1 DEF AckWrite, WrStop
    <2> QED BY <1>3, <2>1 DEF ServerAssert
  <1> QED BY <1>2, <1>3, LivePut

\* The assertion that nothing is going on.
LEMMA LiveIdle ==
    ASSUME NEW i, NEW o, NEW st, NEW d, AtRest(i), AtRest(o)
    PROVE  Idle(Live(i, o, st, d)) = Live(i, o, st, d)
  <1> DEFINE u == Live(i, o, st, d)
  <1>1. u.sock["incoming"] = i /\ u.sock["outgoing"] = o
    BY LiveFields
  <1> HIDE DEF u
  <1>2. \A s \in Side : u.sock[s].rdstate = "stop" /\ u.sock[s].wrstate = "stop"
    BY <1>1 DEF Side, AtRest
  <1>3. Idle(u) = u
    BY <1>2, ServerAssertTrue DEF Idle
  <1> QED BY <1>3 DEF u

-----------------------------------------------------------------------------
(* The shutdown. *)

\* A tunnel of tunnel.c that is terminated, with a server_ctx, is a dead one.
LEMMA DeadIntro ==
    ASSUME NEW v, NEW d, TunnelOK(v), v.is_terminated, ~v.held,
           Over(v.sock["incoming"], v.sock["outgoing"], v.freed, d)
    PROVE  DeadOK(Whole(v, d))
  <1> DEFINE u == Whole(v, d)
  <1>1. v \in TunnelType /\ IsCore(v)
    BY CoreType DEF TunnelOK
  <1>2. v.is_terminated = TRUE /\ v.held = FALSE
    BY <1>1 DEF TunnelType
  <1>3. CoreOf(v) = v
    BY <1>1 DEF IsCore
  <1>4. /\ u.sock = v.sock /\ u.is_terminated = v.is_terminated /\ u.freed = v.freed
        /\ u.held = v.held /\ u.data = d /\ CoreOf(u) = CoreOf(v)
    <2>2. /\ u.sock = v.sock /\ u.is_terminated = v.is_terminated /\ u.freed = v.freed
          /\ u.held = v.held /\ u.data = d
      BY DEF Whole
    <2>3. CoreOf(u) = CoreOf(v)
      BY DEF Whole, CoreOf, Core
    <2> QED BY <2>2, <2>3
  <1>5. u = Whole(CoreOf(u), u.data)
    <2>1. u = Whole(v, d)
      OBVIOUS
    <2> HIDE DEF u
    <2> QED BY <2>1, <1>3, <1>4, Zenon
  <1>6. TunnelOK(CoreOf(u))
    BY <1>3, <1>4, Zenon
  <1>7. Over(u.sock["incoming"], u.sock["outgoing"], u.freed, u.data)
    BY <1>4, Zenon
  <1> HIDE DEF u
  <1>8. DeadOK(u)
    BY <1>2, <1>4, <1>5, <1>6, <1>7, Zenon DEF DeadOK
  <1> QED BY <1>8 DEF u

\* And a dead tunnel is nothing else.
LEMMA DeadElim ==
    ASSUME NEW u, DeadOK(u), NEW c, c = CoreOf(u)
    PROVE  /\ u = Whole(c, u.data) /\ IsCore(c) /\ TunnelOK(c)
           /\ c.is_terminated = TRUE /\ c.held = FALSE
           /\ c.sock = u.sock /\ c.freed = u.freed
           /\ u.is_terminated = TRUE /\ u.freed \in BOOLEAN
           /\ Over(u.sock["incoming"], u.sock["outgoing"], u.freed, u.data)
  <1>1. TunnelOK(c) /\ u = Whole(c, u.data) /\ u.is_terminated = TRUE /\ u.held = FALSE
    BY Zenon DEF DeadOK
  <1>2. c \in TunnelType
    BY <1>1 DEF TunnelOK
  <1>3. IsCore(c)
    BY <1>2, CoreType
  <1>4. /\ c.sock = u.sock /\ c.freed = u.freed /\ c.is_terminated = u.is_terminated
        /\ c.held = u.held
    BY DEF CoreOf, Core
  <1>5. c.freed \in BOOLEAN
    BY <1>2 DEF TunnelType
  <1> QED BY <1>1, <1>3, <1>4, <1>5, Zenon DEF DeadOK

\* What socket_ctx_close leaves of the requests.
LEMMA CloseKeeps ==
    ASSUME NEW k \in Socket(Payload)
    PROVE  /\ socket_ctx_close(k).writes = k.writes
           /\ Untouched(k) => Untouched(socket_ctx_close(k))
           /\ Short(k) => Short(socket_ctx_close(k))
  <1> DEFINE j == uv_cancel(k)
             n == socket_ctx_close(k)
  <1>1. /\ j \in Socket(Payload) /\ j.writes = k.writes /\ j.connecting = k.connecting
        /\ j.connected = k.connected /\ (k.dns = "none" => j.dns = "none")
    BY DEF uv_cancel, Socket, DnsState
  <1>2. n = [j EXCEPT !.is_terminated = TRUE, !.rdstate = "dead", !.wrstate = "dead",
                      !.reading = FALSE, !.ticking = FALSE, !.ref = @ + 2,
                      !.tcp = "closing", !.timer = "closing",
                      !.closing_count = 2, !.on_closed = TRUE]
    BY DEF socket_ctx_close
  <1> HIDE DEF j, n
  <1>3. /\ n.writes = j.writes /\ n.connecting = j.connecting
        /\ n.connected = j.connected /\ n.dns = j.dns
    BY <1>1, <1>2, ZenonT(60) DEF Socket
  <1> QED BY <1>1, <1>3 DEF Untouched, Short, n

\* A live tunnel's core is a tunnel of tunnel.c.
LEMMA AliveType ==
    ASSUME NEW i \in OpenSocket, NEW o \in OpenSocket, NEW st \in tunnel_stage
    PROVE  Alive(i, o, st) \in TunnelType
  <1> DEFINE S == [Side -> Socket(Payload)]
             B == SUBSET {"read", "write", "connect", "getaddrinfo", "close",
                          "on_read", "on_written", "stale"}
             x == Pair(i, o)
             b == {}
  <1>1. x \in S /\ b \in B /\ 1 \in Nat /\ st \in Stages
    BY SockOf, ServerStagesAssumption DEF Pair, Side
  <1> HIDE DEF S, B, x, b
  <1>2. Core(x, 1, FALSE, FALSE, st, FALSE, b) \in
           [ sock : S, ref : Nat, is_terminated : BOOLEAN, freed : BOOLEAN,
             stage : Stages, held : BOOLEAN, bad : B ]
    BY <1>1 DEF Core
  <1> QED BY <1>2 DEF Alive, TunnelType, S, B, x, b

\* tunnel_shutdown of a live tunnel leaves a dead one.
LEMMA ShutLive ==
    ASSUME NEW i \in OpenSocket, NEW o \in OpenSocket, NEW st \in tunnel_stage, NEW d,
           Over(i, o, FALSE, d)
    PROVE  DeadOK(tunnel_shutdown(Live(i, o, st, d)))
  <1> DEFINE c == Alive(i, o, st)
             v == tunnel_shutdown(c)
             x == socket_ctx_close(i)
             y == socket_ctx_close(o)
             b == is_in_streaming(v)
  <1>1. c \in TunnelType
    BY AliveType
  <1>2. /\ IsCore(c) /\ c.sock["incoming"] = i /\ c.sock["outgoing"] = o
        /\ ~c.is_terminated /\ ~c.freed /\ ~c.held /\ c.bad = {}
    BY AliveFacts, PairFacts
  <1>3. c.ref = 1
    BY AliveRef
  <1>4. /\ ~i.is_terminated /\ i.rdstate # "dead" /\ i.wrstate # "dead"
        /\ ~o.is_terminated /\ o.rdstate # "dead" /\ o.wrstate # "dead"
    BY DEF OpenSocket
  <1>5. tunnel_shutdown(Live(i, o, st, d)) = Whole(v, d)
    <2> HIDE DEF c, v
    <2>1. tunnel_shutdown(Whole(c, d)) = Whole(tunnel_shutdown(c), d)
      BY <1>2, WholeShutdown
    <2> QED BY <2>1 DEF Live, c, v
  <1> HIDE DEF c
  <1>6. /\ v \in TunnelType /\ v.ref = c.ref + 1 /\ v.is_terminated = TRUE
        /\ v.freed = c.freed /\ v.held = c.held /\ v.bad = c.bad
        /\ \A s \in Side : v.sock[s] = socket_ctx_close(c.sock[s])
    <2>1. c.ref # 0
      BY <1>3
    <2>2. \A s \in Side : /\ ~c.sock[s].is_terminated /\ c.sock[s].rdstate # "dead"
                          /\ c.sock[s].wrstate # "dead"
      BY <1>2, <1>4 DEF Side
    <2> QED BY <1>1, <1>2, <2>1, <2>2, ShutdownForm
  <1>7. v.sock["incoming"] = x /\ v.sock["outgoing"] = y
    BY <1>2, <1>6 DEF Side
  <1>8. SocketOK(x, TRUE, FALSE, b) /\ SocketOK(y, TRUE, FALSE, b)
    BY SockOf, CloseOK, ClosedAnyway
  <1>9. x.on_closed = TRUE /\ y.on_closed = TRUE
    BY SockOf, CloseType
  <1>10. v.freed = FALSE /\ v.held = FALSE /\ v.ref = 2 /\ v.bad = {}
    BY <1>1, <1>2, <1>3, <1>6 DEF TunnelType
  <1> HIDE DEF v, x, y
  <1>11. TunnelOK(v)
    <2>1. \A s \in Side : SocketOK(v.sock[s], v.is_terminated, v.freed, is_in_streaming(v))
      BY <1>6, <1>7, <1>8, <1>10 DEF Side
    <2>2. v.ref = One(~v.is_terminated) + One(v.sock["incoming"].on_closed)
                  + One(v.sock["outgoing"].on_closed) + One(v.held)
      BY <1>6, <1>7, <1>9, <1>10 DEF One
    <2>3. v.bad \subseteq {"stale"} /\ (v.freed <=> v.ref = 0) /\ v \in TunnelType
      BY <1>6, <1>10
    <2> QED BY <2>1, <2>2, <2>3 DEF TunnelOK
  <1>12. Over(x, y, FALSE, d)
    <2>1. /\ Untouched(o) => Untouched(y)
          /\ Short(i) => Short(x)
          /\ Short(o) => Short(y)
      BY SockOf, CloseKeeps DEF x, y
    <2> QED BY <2>1 DEF Over
  <1>13. DeadOK(Whole(v, d))
    <2>1. Over(v.sock["incoming"], v.sock["outgoing"], v.freed, d)
      BY <1>7, <1>10, <1>12
    <2> QED BY <1>6, <1>10, <1>11, <2>1, DeadIntro
  <1> QED BY <1>5, <1>13

-----------------------------------------------------------------------------
(* server_ctx. *)

CipherCtx ==
    [ mode : ServerModes, status : {"fresh", "hello", "open"}, header : BOOLEAN ]

Oops == {"rdstate", "wrstate", "idle", "receipt", "resolve", "launch", "tls_pkg",
         "streaming", "udp_streaming", "late_feedback", "early_datagram", "closed_write"}

\* The fields of server_ctx.
LEMMA CtxFields ==
    ASSUME NEW d \in ServerCtx
    PROVE  /\ d.cipher \in CipherCtx /\ d.udp \in Remote /\ d.pkg \in Seq(Items)
           /\ d.begun \in BOOLEAN /\ d.closing \in BOOLEAN /\ d.got \in 0 .. MaxData + 4
           /\ d.cut \in BOOLEAN /\ d.valid \in BOOLEAN /\ d.srv \in 0 .. MaxData
           /\ d.sent \in [Side -> Seq(Items)] /\ d.bad \in SUBSET Oops
           /\ d.sent["incoming"] \in Seq(Items) /\ d.sent["outgoing"] \in Seq(Items)
           /\ d.cipher.mode \in ServerModes
           /\ d.cipher.status \in {"fresh", "hello", "open"} /\ d.cipher.header \in BOOLEAN
  BY DEF ServerCtx, CipherCtx, Oops, Side

TookTo(d, c, n, b) == [d EXCEPT !.cipher = c, !.got = n, !.cut = b]

\* The cipher context moves on by one read.
LEMMA CtxTook ==
    ASSUME NEW d \in ServerCtx, NEW c \in CipherCtx, NEW n \in 0 .. MaxData + 4, NEW b \in BOOLEAN
    PROVE  /\ TookTo(d, c, n, b) \in ServerCtx /\ TookTo(d, c, n, b).cipher = c
           /\ TookTo(d, c, n, b).udp = d.udp /\ TookTo(d, c, n, b).pkg = d.pkg
           /\ TookTo(d, c, n, b).begun = d.begun
           /\ TookTo(d, c, n, b).closing = d.closing /\ TookTo(d, c, n, b).got = n
           /\ TookTo(d, c, n, b).cut = b /\ TookTo(d, c, n, b).valid = d.valid
           /\ TookTo(d, c, n, b).srv = d.srv /\ TookTo(d, c, n, b).bad = d.bad
           /\ TookTo(d, c, n, b).sent = d.sent
  BY ZenonT(60) DEF TookTo, ServerCtx, CipherCtx, Oops

PkgTo(d, q) == [d EXCEPT !.pkg = q]

\* The package is replaced.
LEMMA CtxPkg ==
    ASSUME NEW d \in ServerCtx, NEW q \in Seq(Items)
    PROVE  /\ PkgTo(d, q) \in ServerCtx /\ PkgTo(d, q).cipher = d.cipher
           /\ PkgTo(d, q).udp = d.udp /\ PkgTo(d, q).pkg = q
           /\ PkgTo(d, q).begun = d.begun /\ PkgTo(d, q).closing = d.closing
           /\ PkgTo(d, q).got = d.got /\ PkgTo(d, q).cut = d.cut
           /\ PkgTo(d, q).valid = d.valid /\ PkgTo(d, q).srv = d.srv
           /\ PkgTo(d, q).bad = d.bad /\ PkgTo(d, q).sent = d.sent
  BY ZenonT(60) DEF PkgTo, ServerCtx, CipherCtx, Oops

AskTo(d, q, r) == [d EXCEPT !.pkg = q, !.udp = r]

\* A datagram is asked for, and its relay is launched.
LEMMA CtxAsk ==
    ASSUME NEW d \in ServerCtx, NEW q \in Seq(Items), NEW r \in Remote
    PROVE  /\ AskTo(d, q, r) \in ServerCtx /\ AskTo(d, q, r).cipher = d.cipher
           /\ AskTo(d, q, r).udp = r /\ AskTo(d, q, r).pkg = q
           /\ AskTo(d, q, r).begun = d.begun /\ AskTo(d, q, r).closing = d.closing
           /\ AskTo(d, q, r).got = d.got /\ AskTo(d, q, r).cut = d.cut
           /\ AskTo(d, q, r).valid = d.valid /\ AskTo(d, q, r).srv = d.srv
           /\ AskTo(d, q, r).bad = d.bad /\ AskTo(d, q, r).sent = d.sent
  BY ZenonT(60) DEF AskTo, ServerCtx, CipherCtx, Oops

SrvTo(d, n) == [d EXCEPT !.srv = n]

\* A packet of the target is read.
LEMMA CtxSrv ==
    ASSUME NEW d \in ServerCtx, NEW n \in 0 .. MaxData
    PROVE  /\ SrvTo(d, n) \in ServerCtx /\ SrvTo(d, n).cipher = d.cipher
           /\ SrvTo(d, n).udp = d.udp /\ SrvTo(d, n).pkg = d.pkg
           /\ SrvTo(d, n).begun = d.begun /\ SrvTo(d, n).closing = d.closing
           /\ SrvTo(d, n).got = d.got /\ SrvTo(d, n).cut = d.cut
           /\ SrvTo(d, n).valid = d.valid /\ SrvTo(d, n).srv = n
           /\ SrvTo(d, n).bad = d.bad /\ SrvTo(d, n).sent = d.sent
  BY ZenonT(60) DEF SrvTo, ServerCtx, CipherCtx, Oops

FrameTo(d, n, b) == [d EXCEPT !.srv = n, !.begun = b]

\* A packet of the target is read and framed.
LEMMA CtxFrame ==
    ASSUME NEW d \in ServerCtx, NEW n \in 0 .. MaxData, NEW b \in BOOLEAN
    PROVE  /\ FrameTo(d, n, b) \in ServerCtx /\ FrameTo(d, n, b).cipher = d.cipher
           /\ FrameTo(d, n, b).udp = d.udp /\ FrameTo(d, n, b).pkg = d.pkg
           /\ FrameTo(d, n, b).begun = b /\ FrameTo(d, n, b).closing = d.closing
           /\ FrameTo(d, n, b).got = d.got /\ FrameTo(d, n, b).cut = d.cut
           /\ FrameTo(d, n, b).valid = d.valid /\ FrameTo(d, n, b).srv = n
           /\ FrameTo(d, n, b).bad = d.bad /\ FrameTo(d, n, b).sent = d.sent
  BY ZenonT(60) DEF FrameTo, ServerCtx, CipherCtx, Oops

ValidTo(d, b) == [d EXCEPT !.valid = b]

\* The client sent something else.
LEMMA CtxValid ==
    ASSUME NEW d \in ServerCtx, NEW b \in BOOLEAN
    PROVE  /\ ValidTo(d, b) \in ServerCtx /\ ValidTo(d, b).cipher = d.cipher
           /\ ValidTo(d, b).udp = d.udp /\ ValidTo(d, b).pkg = d.pkg
           /\ ValidTo(d, b).begun = d.begun /\ ValidTo(d, b).closing = d.closing
           /\ ValidTo(d, b).got = d.got /\ ValidTo(d, b).cut = d.cut
           /\ ValidTo(d, b).valid = b /\ ValidTo(d, b).srv = d.srv
           /\ ValidTo(d, b).bad = d.bad /\ ValidTo(d, b).sent = d.sent
  BY ZenonT(60) DEF ValidTo, ServerCtx, CipherCtx, Oops

BegunTo(d, b) == [d EXCEPT !.begun = b]

\* The first frame is sent.
LEMMA CtxBegun ==
    ASSUME NEW d \in ServerCtx, NEW b \in BOOLEAN
    PROVE  /\ BegunTo(d, b) \in ServerCtx /\ BegunTo(d, b).cipher = d.cipher
           /\ BegunTo(d, b).udp = d.udp /\ BegunTo(d, b).pkg = d.pkg
           /\ BegunTo(d, b).begun = b /\ BegunTo(d, b).closing = d.closing
           /\ BegunTo(d, b).got = d.got /\ BegunTo(d, b).cut = d.cut
           /\ BegunTo(d, b).valid = d.valid /\ BegunTo(d, b).srv = d.srv
           /\ BegunTo(d, b).bad = d.bad /\ BegunTo(d, b).sent = d.sent
  BY ZenonT(60) DEF BegunTo, ServerCtx, CipherCtx, Oops

ClosingTo(d, b) == [d EXCEPT !.closing = b]

\* The close frame is sent.
LEMMA CtxClosing ==
    ASSUME NEW d \in ServerCtx, NEW b \in BOOLEAN
    PROVE  /\ ClosingTo(d, b) \in ServerCtx /\ ClosingTo(d, b).cipher = d.cipher
           /\ ClosingTo(d, b).udp = d.udp /\ ClosingTo(d, b).pkg = d.pkg
           /\ ClosingTo(d, b).begun = d.begun /\ ClosingTo(d, b).closing = b
           /\ ClosingTo(d, b).got = d.got /\ ClosingTo(d, b).cut = d.cut
           /\ ClosingTo(d, b).valid = d.valid /\ ClosingTo(d, b).srv = d.srv
           /\ ClosingTo(d, b).bad = d.bad /\ ClosingTo(d, b).sent = d.sent
  BY ZenonT(60) DEF ClosingTo, ServerCtx, CipherCtx, Oops

UdpTo(d, r) == [d EXCEPT !.udp = r]

\* The relay moves on.
LEMMA CtxUdp ==
    ASSUME NEW d \in ServerCtx, NEW r \in Remote
    PROVE  /\ UdpTo(d, r) \in ServerCtx /\ UdpTo(d, r).cipher = d.cipher
           /\ UdpTo(d, r).udp = r /\ UdpTo(d, r).pkg = d.pkg
           /\ UdpTo(d, r).begun = d.begun /\ UdpTo(d, r).closing = d.closing
           /\ UdpTo(d, r).got = d.got /\ UdpTo(d, r).cut = d.cut
           /\ UdpTo(d, r).valid = d.valid /\ UdpTo(d, r).srv = d.srv
           /\ UdpTo(d, r).bad = d.bad /\ UdpTo(d, r).sent = d.sent
  BY ZenonT(60) DEF UdpTo, ServerCtx, CipherCtx, Oops

BadTo(d, b) == [d EXCEPT !.bad = b]

\* An assertion of server.c failed.
LEMMA CtxBad ==
    ASSUME NEW d \in ServerCtx, NEW b \in SUBSET Oops
    PROVE  /\ BadTo(d, b) \in ServerCtx /\ BadTo(d, b).cipher = d.cipher
           /\ BadTo(d, b).udp = d.udp /\ BadTo(d, b).pkg = d.pkg
           /\ BadTo(d, b).begun = d.begun /\ BadTo(d, b).closing = d.closing
           /\ BadTo(d, b).got = d.got /\ BadTo(d, b).cut = d.cut
           /\ BadTo(d, b).valid = d.valid /\ BadTo(d, b).srv = d.srv
           /\ BadTo(d, b).bad = b /\ BadTo(d, b).sent = d.sent
  BY ZenonT(60) DEF BadTo, ServerCtx, CipherCtx, Oops

\* Something is written to the client.
LEMMA CtxSaidIn ==
    ASSUME NEW d \in ServerCtx, NEW q \in Seq(Items)
    PROVE  /\ SaidIn(d, q) \in ServerCtx /\ SaidIn(d, q).cipher = d.cipher
           /\ SaidIn(d, q).udp = d.udp /\ SaidIn(d, q).pkg = d.pkg
           /\ SaidIn(d, q).begun = d.begun /\ SaidIn(d, q).closing = d.closing
           /\ SaidIn(d, q).got = d.got /\ SaidIn(d, q).cut = d.cut
           /\ SaidIn(d, q).valid = d.valid /\ SaidIn(d, q).srv = d.srv
           /\ SaidIn(d, q).bad = d.bad
           /\ SaidIn(d, q).sent["incoming"] = d.sent["incoming"] \o q
           /\ SaidIn(d, q).sent["outgoing"] = d.sent["outgoing"]
  <1> DEFINE p == d.sent["incoming"] \o q
             x == [d.sent EXCEPT !["incoming"] = p]
             e == SaidIn(d, q)
  <1>1. d.sent \in [Side -> Seq(Items)] /\ p \in Seq(Items)
    BY CtxFields
  <1>2. e = [d EXCEPT !.sent = x]
    BY DEF SaidIn
  <1> HIDE DEF p
  <1>3. x \in [Side -> Seq(Items)] /\ x["incoming"] = p /\ x["outgoing"] = d.sent["outgoing"]
    BY <1>1 DEF Side
  <1> HIDE DEF x, e
  <1>4. /\ e \in ServerCtx /\ e.cipher = d.cipher /\ e.udp = d.udp /\ e.pkg = d.pkg
        /\ e.begun = d.begun /\ e.closing = d.closing /\ e.got = d.got
        /\ e.cut = d.cut /\ e.valid = d.valid /\ e.srv = d.srv /\ e.bad = d.bad /\ e.sent = x
    BY <1>2, <1>3, ZenonT(60) DEF ServerCtx
  <1> QED BY <1>3, <1>4 DEF p, e

\* Something is written to the target.
LEMMA CtxSaidOut ==
    ASSUME NEW d \in ServerCtx, NEW q \in Seq(Items)
    PROVE  /\ SaidOut(d, q) \in ServerCtx /\ SaidOut(d, q).cipher = d.cipher
           /\ SaidOut(d, q).udp = d.udp /\ SaidOut(d, q).pkg = d.pkg
           /\ SaidOut(d, q).begun = d.begun /\ SaidOut(d, q).closing = d.closing
           /\ SaidOut(d, q).got = d.got /\ SaidOut(d, q).cut = d.cut
           /\ SaidOut(d, q).valid = d.valid /\ SaidOut(d, q).srv = d.srv
           /\ SaidOut(d, q).bad = d.bad
           /\ SaidOut(d, q).sent["outgoing"] = d.sent["outgoing"] \o q
           /\ SaidOut(d, q).sent["incoming"] = d.sent["incoming"]
  <1> DEFINE p == d.sent["outgoing"] \o q
             x == [d.sent EXCEPT !["outgoing"] = p]
             e == SaidOut(d, q)
  <1>1. d.sent \in [Side -> Seq(Items)] /\ p \in Seq(Items)
    BY CtxFields
  <1>2. e = [d EXCEPT !.sent = x]
    BY DEF SaidOut
  <1> HIDE DEF p
  <1>3. x \in [Side -> Seq(Items)] /\ x["outgoing"] = p /\ x["incoming"] = d.sent["incoming"]
    BY <1>1 DEF Side
  <1> HIDE DEF x, e
  <1>4. /\ e \in ServerCtx /\ e.cipher = d.cipher /\ e.udp = d.udp /\ e.pkg = d.pkg
        /\ e.begun = d.begun /\ e.closing = d.closing /\ e.got = d.got
        /\ e.cut = d.cut /\ e.valid = d.valid /\ e.srv = d.srv /\ e.bad = d.bad /\ e.sent = x
    BY <1>2, <1>3, ZenonT(60) DEF ServerCtx
  <1> QED BY <1>3, <1>4 DEF p, e

-----------------------------------------------------------------------------
(* The client's stream, and what is made of it. *)

\* What the items are.
LEMMA ItemsFacts ==
    /\ Address \in Items /\ Datagram \in Items
    /\ \A k \in {"hello", "finish", "auth", "request", "part", "receipt", "confirm",
                 "upgrade", "page", "close", "junk"} : Item(k, 0) \in Items /\ Reply(k) \in Items
    /\ \A n \in 1 .. MaxData :
          /\ AppData(n) \in Items /\ Item("srv", n) \in Items
          /\ Item("binary", n) \in Items /\ Item("continuation", n) \in Items
  BY DEF Items, AppData, Reply

\* Which items are addresses.
LEMMA AddressOnly ==
    /\ Item("part", 0) # Address
    /\ \A q \in Seq(Items) : Head(<<Address>> \o q) = Address /\ Tail(<<Address>> \o q) = q
                             /\ <<Address>> \o q # <<>>
  <1>1. Item("part", 0) # Address
    BY DEF Item, Address
  <1>2. ASSUME NEW q \in Seq(Items)
        PROVE  Head(<<Address>> \o q) = Address /\ Tail(<<Address>> \o q) = q
               /\ <<Address>> \o q # <<>>
    <2>1. Address \in Items
      BY ItemsFacts
    <2> DEFINE a == Address
               x == <<a>> \o q
               y == Tail(x)
    <2> HIDE DEF a
    <2>2. a \in Items
      BY <2>1 DEF a
    <2>3. x \in Seq(Items) /\ Len(x) = Len(q) + 1 /\ x[1] = a /\ Len(q) \in Nat
          /\ \A j \in 1 .. Len(q) : x[j + 1] = q[j]
      BY <2>2
    <2>4. x # <<>> /\ Head(x) = a
      BY <2>3
    <2>5. y \in Seq(Items) /\ Len(y) = Len(q) /\ \A j \in 1 .. Len(q) : y[j] = x[j + 1]
      BY <2>3, <2>4
    <2> HIDE DEF x, y
    <2>6. \A j \in 1 .. Len(y) : y[j] = q[j]
      BY <2>3, <2>5
    <2>7. y = q
      BY <2>5, <2>6, SeqEqual
    <2> QED BY <2>4, <2>7 DEF x, y, a
  <1> QED BY <1>1, <1>2

\* The packets of data, and the frames.
LEMMA AppsFacts ==
    ASSUME NEW n \in Nat, n <= MaxData
    PROVE  /\ Apps(n) \in Seq(Items) /\ Len(Apps(n)) = n
           /\ \A j \in 1 .. n : Apps(n)[j] = AppData(j)
  <1>0. MaxData \in Nat
    BY MaxDataAssumption
  <1>1. \A j \in 1 .. n : AppData(j) \in Items
    BY <1>0, ItemsFacts
  <1>2. Apps(n) = [j \in 1 .. n |-> AppData(j)]
    BY DEF Apps, Numbered
  <1> HIDE DEF Apps
  <1> QED BY <1>1, <1>2

\* Likewise.
LEMMA DownsFacts ==
    ASSUME NEW m, NEW n \in Nat, n <= MaxData
    PROVE  /\ Downs(m, n) \in Seq(Items) /\ Len(Downs(m, n)) = n
           /\ \A j \in 1 .. n : Downs(m, n)[j] = DownTo(m, j) /\ DownTo(m, j) \in Items
  <1>0. MaxData \in Nat
    BY MaxDataAssumption
  <1>1. \A j \in 1 .. n : DownTo(m, j) \in Items
    BY <1>0, ItemsFacts DEF DownTo
  <1>2. Downs(m, n) = [j \in 1 .. n |-> DownTo(m, j)]
    BY DEF Downs
  <1> HIDE DEF Downs, DownTo
  <1> QED BY <1>1, <1>2

\* A sequence that has one element more.
LEMMA OneMore ==
    ASSUME NEW p \in Seq(Items), NEW q \in Seq(Items), NEW e \in Items,
           NEW n \in Nat, Len(p) = n, Len(q) = n + 1, q[n + 1] = e,
           \A j \in 1 .. n : q[j] = p[j]
    PROVE  p \o <<e>> = q
  <1> DEFINE x == p \o <<e>>
  <1>1. x \in Seq(Items) /\ Len(x) = n + 1 /\ x[n + 1] = e /\ \A j \in 1 .. n : x[j] = p[j]
    OBVIOUS
  <1> HIDE DEF x
  <1>2. \A j \in 1 .. n + 1 : j \in 1 .. n \/ j = n + 1
    OBVIOUS
  <1>3. \A j \in 1 .. n + 1 : x[j] = q[j]
    BY <1>1, <1>2
  <1>4. x = q
    BY <1>1, <1>3, SeqEqual
  <1> QED BY <1>4 DEF x

\* No packet, and one frame more.
LEMMA DownsStep ==
    /\ Apps(0) = <<>> /\ \A m : Downs(m, 0) = <<>>
    /\ \A m : \A n \in 0 .. MaxData - 1 :
          Downs(m, n) \o <<DownTo(m, n + 1)>> = Downs(m, n + 1)
  <1>0. MaxData \in Nat /\ 0 <= MaxData /\ 0 \in Nat
    BY MaxDataAssumption
  <1>1. Apps(0) = <<>>
    BY <1>0, AppsFacts, EmptySeq
  <1>2. \A m : Downs(m, 0) = <<>>
    BY <1>0, DownsFacts, EmptySeq
  <1>3. ASSUME NEW m, NEW n \in 0 .. MaxData - 1
        PROVE  Downs(m, n) \o <<DownTo(m, n + 1)>> = Downs(m, n + 1)
    <2> DEFINE p == Downs(m, n)
               q == Downs(m, n + 1)
               e == DownTo(m, n + 1)
    <2>0. n \in Nat /\ n + 1 \in Nat /\ n <= MaxData /\ n + 1 <= MaxData
          /\ n + 1 \in 1 .. n + 1
      BY <1>0
    <2>1. p \in Seq(Items) /\ Len(p) = n /\ \A j \in 1 .. n : p[j] = DownTo(m, j)
      BY <2>0, DownsFacts
    <2>2. q \in Seq(Items) /\ Len(q) = n + 1
          /\ \A j \in 1 .. n + 1 : q[j] = DownTo(m, j) /\ DownTo(m, j) \in Items
      BY <2>0, DownsFacts
    <2>3. e \in Items /\ q[n + 1] = e
      BY <2>0, <2>2
    <2>4. \A j \in 1 .. n : q[j] = p[j]
      BY <2>0, <2>1, <2>2
    <2> HIDE DEF p, q, e
    <2>5. p \o <<e>> = q
      BY <2>0, <2>1, <2>2, <2>3, <2>4, OneMore
    <2> QED BY <2>5 DEF p, q, e
  <1> QED BY <1>1, <1>2, <1>3

\* Concatenation is associative.
LEMMA Assoc ==
    ASSUME NEW p \in Seq(Items), NEW q \in Seq(Items), NEW r \in Seq(Items)
    PROVE  (p \o q) \o r = p \o (q \o r) /\ p \o <<>> = p /\ <<>> \o p = p
  <1> DEFINE x == (p \o q) \o r
             y == p \o (q \o r)
  <1>1. x \in Seq(Items) /\ y \in Seq(Items) /\ Len(x) = Len(y)
    OBVIOUS
  <1>2. \A j \in 1 .. Len(x) : x[j] = y[j]
    OBVIOUS
  <1>0. p \o <<>> = p /\ <<>> \o p = p
    BY ConcatEmptySeq
  <1> HIDE DEF x, y
  <1>3. x = y
    BY <1>1, <1>2, SeqEqual
  <1> QED BY <1>0, <1>3 DEF x, y

\* The handshakes: how long they are, and what they end with.
LEMMA HandFacts ==
    ASSUME NEW m \in Modes
    PROVE  /\ Handshake(m) \in Seq(Items) /\ Len(Handshake(m)) \in 1 .. 4
           /\ m = "plain" => Len(Handshake(m)) = 1
           /\ m = "confirm" => Len(Handshake(m)) = 2
           /\ m = "ticket" => Len(Handshake(m)) = 3
           /\ m = "both" => Len(Handshake(m)) = 4
           /\ m = "tls" => Len(Handshake(m)) = 1
           /\ m # "tls" => Handshake(m)[Len(Handshake(m))] = Address
  <1> DEFINE a == Address
             b == Item("auth", 0)
             h == Item("hello", 0)
             f == Item("finish", 0)
             r == Item("request", 0)
  <1>1. a \in Items /\ b \in Items /\ h \in Items /\ f \in Items /\ r \in Items
    BY ItemsFacts
  <1>2. /\ m = "plain" => Handshake(m) = <<a>>
        /\ m = "confirm" => Handshake(m) = <<b, a>>
        /\ m = "ticket" => Handshake(m) = <<h, f, a>>
        /\ m = "both" => Handshake(m) = <<h, f, b, a>>
        /\ m = "tls" => Handshake(m) = <<r>>
    BY DEF Handshake
  <1>3. Address = a
    OBVIOUS
  <1> HIDE DEF a, b, h, f, r
  <1>4. CASE m = "plain"
    <2> DEFINE s == <<a>>
    <2>1. s \in Seq(Items) /\ Len(s) = 1 /\ s[1] = a
      BY <1>1
    <2>2. Handshake(m) = s
      BY <1>2, <1>4
    <2> HIDE DEF s
    <2> QED BY <1>3, <1>4, <2>1, <2>2
  <1>5. CASE m = "confirm"
    <2> DEFINE s == <<b, a>>
    <2>1. s \in Seq(Items) /\ Len(s) = 2 /\ s[2] = a
      BY <1>1
    <2>2. Handshake(m) = s
      BY <1>2, <1>5
    <2> HIDE DEF s
    <2> QED BY <1>3, <1>5, <2>1, <2>2
  <1>6. CASE m = "ticket"
    <2> DEFINE s == <<h, f, a>>
    <2>1. s \in Seq(Items) /\ Len(s) = 3 /\ s[3] = a
      BY <1>1
    <2>2. Handshake(m) = s
      BY <1>2, <1>6
    <2> HIDE DEF s
    <2> QED BY <1>3, <1>6, <2>1, <2>2
  <1>7. CASE m = "both"
    <2> DEFINE s == <<h, f, b, a>>
    <2>1. s \in Seq(Items) /\ Len(s) = 4 /\ s[4] = a
      BY <1>1
    <2>2. Handshake(m) = s
      BY <1>2, <1>7
    <2> HIDE DEF s
    <2>3. Len(Handshake(m)) = 4 /\ Len(Handshake(m)) \in 1 .. 4
      BY <2>1, <2>2
    <2>4. Handshake(m)[Len(Handshake(m))] = Address /\ Handshake(m) \in Seq(Items)
      BY <1>3, <2>1, <2>2, <2>3
    <2> QED BY <1>7, <2>3, <2>4
  <1>8. CASE m = "tls"
    <2> DEFINE s == <<r>>
    <2>1. s \in Seq(Items) /\ Len(s) = 1 /\ s[1] = r
      BY <1>1
    <2>2. Handshake(m) = s
      BY <1>2, <1>8
    <2> HIDE DEF s
    <2> QED BY <1>3, <1>8, <2>1, <2>2
  <1> QED BY <1>4, <1>5, <1>6, <1>7, <1>8 DEF Modes

\* The client's stream.
LEMMA StreamFacts ==
    ASSUME NEW m \in Modes
    PROVE  LET h == Len(Handshake(m))
               S == ClientStream(m)
           IN  /\ S \in Seq(Items) /\ Len(S) = h + MaxData
               /\ m # "tls" => S[h] = Address
               /\ \A j \in h + 1 .. h + MaxData : S[j] = AppData(j - h)
  <1> DEFINE H == Handshake(m)
             A == Apps(MaxData)
             S == ClientStream(m)
             h == Len(H)
  <1>0. MaxData \in Nat /\ MaxData <= MaxData
    BY MaxDataAssumption
  <1>1. H \in Seq(Items) /\ h \in 1 .. 4 /\ (m # "tls" => H[h] = Address)
    BY HandFacts
  <1>2. A \in Seq(Items) /\ Len(A) = MaxData /\ \A j \in 1 .. MaxData : A[j] = AppData(j)
    BY <1>0, AppsFacts
  <1>3. S = H \o A
    BY DEF ClientStream, Apps
  <1> HIDE DEF H, A, S
  <1>4. S \in Seq(Items) /\ Len(S) = h + MaxData /\ S[h] = H[h]
    <2>1. h \in Nat /\ h \in 1 .. h /\ h \in 1 .. h + MaxData /\ h <= h
      BY <1>0, <1>1
    <2>2. S \in Seq(Items) /\ Len(S) = h + MaxData
      BY <1>1, <1>2, <1>3, ConcatProperties
    <2>3. S[h] = H[h]
      BY <1>1, <1>2, <1>3, <2>1, ConcatProperties
    <2> QED BY <2>2, <2>3
  <1>5. ASSUME NEW j \in h + 1 .. h + MaxData
        PROVE  S[j] = AppData(j - h)
    <2>1. j - h \in 1 .. MaxData /\ j \in 1 .. h + MaxData /\ ~(j <= h)
      BY <1>0, <1>1
    <2>2. S[j] = A[j - h]
      BY <1>0, <1>1, <1>2, <1>3, <2>1
    <2> QED BY <1>2, <2>1, <2>2
  <1>6. m # "tls" => S[h] = Address
    BY <1>1, <1>4
  <1> QED BY <1>4, <1>5, <1>6 DEF H, S

\* The part of the stream that a package starts with.
LEMMA StreamPack ==
    ASSUME NEW m \in Modes, m # "tls", NEW n \in Nat,
           Len(Handshake(m)) <= n, n <= Len(Handshake(m)) + MaxData
    PROVE  SubSeq(ClientStream(m), Len(Handshake(m)), n)
             = <<Address>> \o Apps(n - Len(Handshake(m)))
  <1> DEFINE S == ClientStream(m)
             h == Len(Handshake(m))
             A == Apps(n - h)
             a == Address
             x == SubSeq(S, h, n)
             y == <<a>> \o A
  <1>0. MaxData \in Nat /\ h \in 1 .. 4 /\ a \in Items
    BY MaxDataAssumption, HandFacts, ItemsFacts
  <1>1. /\ S \in Seq(Items) /\ Len(S) = h + MaxData /\ S[h] = a
        /\ \A j \in h + 1 .. h + MaxData : S[j] = AppData(j - h)
    BY StreamFacts
  <1>2. n - h \in Nat /\ n - h <= MaxData
    BY <1>0
  <1>3. A \in Seq(Items) /\ Len(A) = n - h /\ \A j \in 1 .. n - h : A[j] = AppData(j)
    BY <1>2, AppsFacts
  <1> HIDE DEF S, h, A, a
  <1>4. x \in Seq(Items) /\ Len(x) = n - h + 1 /\ \A j \in 1 .. n - h + 1 : x[j] = S[h + j - 1]
    BY <1>0, <1>1, <1>2
  <1>5. y \in Seq(Items) /\ Len(y) = n - h + 1 /\ y[1] = a
        /\ \A j \in 2 .. n - h + 1 : y[j] = A[j - 1]
    BY <1>0, <1>2, <1>3
  <1> HIDE DEF x, y
  <1>6. ASSUME NEW j \in 1 .. Len(x)
        PROVE  x[j] = y[j]
    <2>1. CASE j = 1
      <3>1. h + j - 1 = h /\ j \in 1 .. n - h + 1
        BY <1>0, <1>4, <2>1
      <3> QED BY <1>1, <1>4, <1>5, <2>1, <3>1
    <2>2. CASE j # 1
      <3>1. /\ j \in 2 .. n - h + 1 /\ j \in 1 .. n - h + 1 /\ j - 1 \in 1 .. n - h
            /\ h + j - 1 \in h + 1 .. h + MaxData /\ (h + j - 1) - h = j - 1
        BY <1>0, <1>2, <1>4, <2>2
      <3>2. x[j] = AppData(j - 1)
        BY <1>1, <1>4, <3>1
      <3>3. y[j] = AppData(j - 1)
        BY <1>3, <1>5, <3>1
      <3> QED BY <3>2, <3>3
    <2> QED BY <2>1, <2>2
  <1>7. x = y
    BY <1>4, <1>5, <1>6, SeqEqual
  <1> QED BY <1>7 DEF x, y, S, h, A, a

\* What is read next continues what has been read.
LEMMA StreamMore ==
    ASSUME NEW m \in Modes, NEW g \in Nat, NEW n \in Nat,
           Len(Handshake(m)) <= g, g <= n, n <= Len(Handshake(m)) + MaxData
    PROVE  /\ SubSeq(ClientStream(m), g + 1, n) \in Seq(Items)
           /\ Apps(g - Len(Handshake(m))) \o SubSeq(ClientStream(m), g + 1, n)
                = Apps(n - Len(Handshake(m)))
  <1> DEFINE S == ClientStream(m)
             h == Len(Handshake(m))
             A == Apps(g - h)
             B == SubSeq(S, g + 1, n)
             x == A \o B
             y == Apps(n - h)
  <1>0. MaxData \in Nat /\ h \in 1 .. 4
    BY MaxDataAssumption, HandFacts
  <1>1. /\ S \in Seq(Items) /\ Len(S) = h + MaxData
        /\ \A j \in h + 1 .. h + MaxData : S[j] = AppData(j - h)
    BY StreamFacts
  <1>2. n - h \in Nat /\ n - h <= MaxData /\ g - h \in Nat /\ g - h <= MaxData
    BY <1>0
  <1>3. A \in Seq(Items) /\ Len(A) = g - h /\ \A j \in 1 .. g - h : A[j] = AppData(j)
    BY <1>2, AppsFacts
  <1>4. y \in Seq(Items) /\ Len(y) = n - h /\ \A j \in 1 .. n - h : y[j] = AppData(j)
    BY <1>2, AppsFacts
  <1> HIDE DEF S, h, A, y
  <1>5. B \in Seq(Items) /\ Len(B) = n - g /\ \A j \in 1 .. n - g : B[j] = S[g + j]
    BY <1>0, <1>1, <1>2
  <1> HIDE DEF B
  <1>6. /\ x \in Seq(Items) /\ Len(x) = n - h
        /\ \A j \in 1 .. g - h : x[j] = A[j]
        /\ \A j \in g - h + 1 .. n - h : x[j] = B[j - (g - h)]
    <2>1. x \in Seq(Items) /\ Len(x) = Len(A) + Len(B)
      BY <1>3, <1>5, ConcatProperties
    <2>2. Len(x) = n - h
      BY <1>0, <1>3, <1>5, <2>1
    <2>3. \A j \in 1 .. Len(A) + Len(B) : x[j] = IF j <= Len(A) THEN A[j] ELSE B[j - Len(A)]
      BY <1>3, <1>5, ConcatProperties
    <2>4. ASSUME NEW j \in 1 .. g - h
          PROVE  x[j] = A[j]
      <3>1. j \in 1 .. Len(A) + Len(B) /\ j <= Len(A)
        BY <1>0, <1>2, <1>3, <1>5
      <3> QED BY <2>3, <3>1
    <2>5. ASSUME NEW j \in g - h + 1 .. n - h
          PROVE  x[j] = B[j - (g - h)]
      <3>1. j \in 1 .. Len(A) + Len(B) /\ ~(j <= Len(A)) /\ Len(A) = g - h
        BY <1>0, <1>2, <1>3, <1>5
      <3> QED BY <2>3, <3>1
    <2> QED BY <2>1, <2>2, <2>4, <2>5
  <1> HIDE DEF x
  <1>7. ASSUME NEW j \in 1 .. Len(x)
        PROVE  x[j] = y[j]
    <2>1. CASE j <= g - h
      <3>1. j \in 1 .. g - h /\ j \in 1 .. n - h
        BY <1>0, <1>2, <1>6, <2>1
      <3> QED BY <1>3, <1>4, <1>6, <3>1
    <2>2. CASE ~(j <= g - h)
      <3>1. /\ j \in g - h + 1 .. n - h /\ j \in 1 .. n - h /\ j - (g - h) \in 1 .. n - g
            /\ g + (j - (g - h)) = h + j /\ h + j \in h + 1 .. h + MaxData /\ (h + j) - h = j
        BY <1>0, <1>2, <1>6, <2>2
      <3>2. x[j] = S[h + j]
        BY <1>5, <1>6, <3>1
      <3>3. S[h + j] = AppData(j)
        BY <1>1, <3>1
      <3> QED BY <1>4, <3>1, <3>2, <3>3
    <2> QED BY <2>1, <2>2
  <1>8. x = y
    BY <1>4, <1>6, <1>7, SeqEqual
  <1> QED BY <1>5, <1>8 DEF x, y, S, h, A, B

\* Parts of the stream: nothing, and all but the first item.
LEMMA StreamTail ==
    ASSUME NEW S \in Seq(Items), NEW a \in Nat \ {0}, NEW n \in Nat, n <= Len(S)
    PROVE  /\ SubSeq(S, a, n) \in Seq(Items)
           /\ a > n => SubSeq(S, a, n) = <<>>
           /\ a <= n => /\ SubSeq(S, a, n) # <<>>
                        /\ Tail(SubSeq(S, a, n)) = SubSeq(S, a + 1, n)
  <1>1. CASE a > n
    BY <1>1
  <1>2. CASE a <= n
    <2> DEFINE x == SubSeq(S, a, n)
               y == SubSeq(S, a + 1, n)
               z == Tail(x)
    <2>1. /\ x \in Seq(Items) /\ Len(x) = n - a + 1 /\ n - a \in Nat
          /\ \A j \in 1 .. n - a + 1 : x[j] = S[a + j - 1]
      BY <1>2
    <2>2. y \in Seq(Items) /\ Len(y) = n - a /\ \A j \in 1 .. n - a : y[j] = S[a + j]
      BY <1>2
    <2> HIDE DEF x, y
    <2>3. x # <<>>
      BY <2>1
    <2>4. z \in Seq(Items) /\ Len(z) = n - a /\ \A j \in 1 .. n - a : z[j] = x[j + 1]
      BY <2>1, <2>3
    <2> HIDE DEF z
    <2>5. ASSUME NEW j \in 1 .. Len(z)
          PROVE  z[j] = y[j]
      <3>1. j \in 1 .. n - a /\ j + 1 \in 1 .. n - a + 1 /\ a + (j + 1) - 1 = a + j
        BY <2>1, <2>4
      <3> QED BY <2>1, <2>2, <2>4, <3>1
    <2>6. z = y
      BY <2>2, <2>4, <2>5, SeqEqual
    <2> QED BY <1>2, <2>1, <2>3, <2>6 DEF x, y, z
  <1> QED BY <1>1, <1>2

-----------------------------------------------------------------------------
(* The cipher context. *)

Accepted(c) ==
    /\ HasObfs(c) => c.status = "open"
    /\ HasAuth(c) => c.header

\* The plugins ask for nothing and pass on what comes.
Passes(r, c, out) == r.ctx = c /\ r.out = out /\ ~r.obfs_receipt /\ ~r.proto_confirm

\* What follows a cut.
LEMMA CutFacts ==
    ASSUME NEW c, NEW q \in Seq(Items), NEW cut \in BOOLEAN
    PROVE  /\ c.mode # "plain" \/ ~cut => q \o Cut(c, cut) = q
           /\ q \o Cut(c, cut) \in Seq(Items)
           /\ c.mode = "plain" /\ cut /\ q = <<>> => q \o Cut(c, cut) = <<Item("part", 0)>>
  <1>1. Item("part", 0) \in Items
    BY ItemsFacts
  <1>2. q \o <<>> = q
    BY ConcatEmptySeq
  <1> DEFINE p == Item("part", 0)
  <1> HIDE DEF p
  <1>3. <<>> \o <<p>> = <<p>> /\ q \o <<p>> \in Seq(Items)
    BY <1>1 DEF p
  <1>4. Cut(c, cut) = IF cut /\ c.mode = "plain" THEN <<p>> ELSE <<>>
    BY DEF Cut, p
  <1> QED BY <1>2, <1>3, <1>4 DEF p

\* Once the client is accepted, or when nothing complete comes.
LEMMA DecryptOpen ==
    ASSUME NEW c, NEW q, NEW cut, Accepted(c) \/ q = <<>>
    PROVE  Passes(tunnel_cipher_server_decrypt(c, q, cut), c, q \o Cut(c, cut))
  <1> DEFINE o == IF HasObfs(c) THEN tls12_ticket_auth_server_decode(c, q)
                  ELSE [ctx |-> c, out |-> q, need_feedback |-> FALSE]
             p == IF HasAuth(c) /\ ~o.need_feedback
                  THEN auth_chain_a_server_post_decrypt(o.ctx, o.out)
                  ELSE [ctx |-> o.ctx, out |-> o.out, feedback |-> FALSE]
  <1>1. o = [ctx |-> c, out |-> q, need_feedback |-> FALSE]
    BY DEF Accepted, tls12_ticket_auth_server_decode
  <1>2. o.ctx = c /\ o.out = q /\ o.need_feedback = FALSE
    BY <1>1
  <1> HIDE DEF o
  <1>3. p = [ctx |-> c, out |-> q, feedback |-> FALSE]
    BY <1>2 DEF Accepted, auth_chain_a_server_post_decrypt
  <1>4. p.ctx = c /\ p.out = q /\ p.feedback = FALSE
    BY <1>3
  <1>5. tunnel_cipher_server_decrypt(c, q, cut)
          = [ctx |-> p.ctx, out |-> p.out \o Cut(c, cut),
             obfs_receipt |-> o.need_feedback, proto_confirm |-> p.feedback]
    BY Zenon DEF tunnel_cipher_server_decrypt, o
  <1> HIDE DEF p
  <1> QED BY <1>2, <1>4, <1>5 DEF Passes

\* The hello of the obfuscation is to be answered.
LEMMA DecryptHello ==
    ASSUME NEW c \in CipherCtx, NEW q, NEW cut \in BOOLEAN,
           HasObfs(c), c.status = "fresh", q # <<>>
    PROVE  LET r == tunnel_cipher_server_decrypt(c, q, cut)
           IN  r.ctx = [c EXCEPT !.status = "hello"] /\ r.obfs_receipt
  <1> DEFINE e == [c EXCEPT !.status = "hello"]
             o == tls12_ticket_auth_server_decode(c, q)
             p == [ctx |-> e, out |-> <<>>, feedback |-> FALSE]
  <1>1. o.ctx = e /\ o.out = <<>> /\ o.need_feedback = TRUE
    BY DEF tls12_ticket_auth_server_decode
  <1> HIDE DEF o, e
  <1>2. tunnel_cipher_server_decrypt(c, q, cut)
          = [ctx |-> p.ctx, out |-> p.out \o Cut(c, cut),
             obfs_receipt |-> o.need_feedback, proto_confirm |-> p.feedback]
    BY <1>1, Zenon DEF tunnel_cipher_server_decrypt, o
  <1>3. p.ctx = e
    OBVIOUS
  <1> HIDE DEF p
  <1> QED BY <1>1, <1>2, <1>3 DEF e

\* The first record of the protocol is to be confirmed.
Confirms(r, c, q) == r.ctx = c /\ r.out = q /\ ~r.obfs_receipt /\ r.proto_confirm

\* Without obfuscation it is the first thing that comes.
LEMMA DecryptHeader ==
    ASSUME NEW c \in CipherCtx, NEW q \in Seq(Items), NEW cut \in BOOLEAN,
           c.mode = "confirm", ~c.header, q # <<>>
    PROVE  Confirms(tunnel_cipher_server_decrypt(c, q, cut),
                    [c EXCEPT !.header = TRUE], Tail(q))
  <1> DEFINE e == [c EXCEPT !.header = TRUE]
             o == [ctx |-> c, out |-> q, need_feedback |-> FALSE]
             p == auth_chain_a_server_post_decrypt(c, q)
             w == Tail(q)
  <1>1. o.ctx = c /\ o.out = q /\ o.need_feedback = FALSE
    OBVIOUS
  <1>2. p.ctx = e /\ p.out = w /\ p.feedback = TRUE
    BY DEF auth_chain_a_server_post_decrypt
  <1>3. ~HasObfs(c) /\ HasAuth(c)
    BY DEF HasObfs, HasAuth
  <1>4. w \o Cut(c, cut) = w
    BY CutFacts
  <1>5. tunnel_cipher_server_decrypt(c, q, cut)
          = [ctx |-> p.ctx, out |-> p.out \o Cut(c, cut),
             obfs_receipt |-> o.need_feedback, proto_confirm |-> p.feedback]
    <2> HIDE DEF p
    <2> QED BY <1>1, <1>3, Zenon DEF tunnel_cipher_server_decrypt, p
  <1> HIDE DEF o, p, e, w
  <1>6. Confirms(tunnel_cipher_server_decrypt(c, q, cut), e, w)
    BY <1>1, <1>2, <1>4, <1>5 DEF Confirms
  <1> QED BY <1>6 DEF e, w

\* With obfuscation it comes behind the finish.
LEMMA DecryptFinish ==
    ASSUME NEW c \in CipherCtx, NEW q \in Seq(Items), NEW cut \in BOOLEAN,
           HasObfs(c), c.status = "hello", ~c.header, q # <<>>
    PROVE  LET r == tunnel_cipher_server_decrypt(c, q, cut)
               e == [c EXCEPT !.status = "open"]
           IN  /\ c.mode = "ticket" \/ Tail(q) = <<>> => Passes(r, e, Tail(q))
               /\ c.mode = "both" /\ Tail(q) # <<>> =>
                     Confirms(r, [e EXCEPT !.header = TRUE], Tail(Tail(q)))
  <1> DEFINE e == [c EXCEPT !.status = "open"]
             f == [e EXCEPT !.header = TRUE]
             o == tls12_ticket_auth_server_decode(c, q)
             p == IF HasAuth(c) /\ ~o.need_feedback
                  THEN auth_chain_a_server_post_decrypt(o.ctx, o.out)
                  ELSE [ctx |-> o.ctx, out |-> o.out, feedback |-> FALSE]
             w == Tail(q)
             z == Tail(w)
             r == tunnel_cipher_server_decrypt(c, q, cut)
  <1>1. o.ctx = e /\ o.out = w /\ o.need_feedback = FALSE
    BY DEF tls12_ticket_auth_server_decode
  <1>2. w \in Seq(Items) /\ (w # <<>> => z \in Seq(Items))
    OBVIOUS
  <1>3. ~e.header
    BY DEF CipherCtx
  <1>4. r = [ctx |-> p.ctx, out |-> p.out \o Cut(c, cut),
             obfs_receipt |-> o.need_feedback, proto_confirm |-> p.feedback]
    <2> HIDE DEF o
    <2> QED BY Zenon DEF tunnel_cipher_server_decrypt, o
  <1>5. c.mode # "plain" /\ c.mode \in {"ticket", "both"}
    BY DEF HasObfs
  <1> HIDE DEF o
  <1>6. ASSUME c.mode = "ticket" \/ w = <<>>
        PROVE  Passes(r, e, w)
    <2>1. p.ctx = e /\ p.out = w /\ p.feedback = FALSE
      <3> HIDE DEF e, w
      <3>1. CASE w = <<>>
        BY <1>1, <3>1 DEF auth_chain_a_server_post_decrypt
      <3>2. CASE c.mode = "ticket"
        BY <1>1, <3>2 DEF HasAuth
      <3> QED BY <1>6, <3>1, <3>2
    <2>2. w \o Cut(c, cut) = w
      BY <1>2, <1>5, CutFacts
    <2> HIDE DEF p, e, w, r
    <2> QED BY <1>1, <1>4, <2>1, <2>2 DEF Passes
  <1>7. ASSUME c.mode = "both", w # <<>>
        PROVE  Confirms(r, f, z)
    <2>1. p.ctx = f /\ p.out = z /\ p.feedback = TRUE
      <3> HIDE DEF e, w
      <3> QED BY <1>1, <1>3, <1>7 DEF auth_chain_a_server_post_decrypt, HasAuth
    <2>2. z \o Cut(c, cut) = z
      BY <1>2, <1>5, <1>7, CutFacts
    <2> HIDE DEF p, f, z, r
    <2> QED BY <1>1, <1>4, <2>1, <2>2 DEF Confirms
  <1> QED BY <1>6, <1>7

\* The cipher contexts that come of it.
LEMMA CipherSteps ==
    ASSUME NEW c \in CipherCtx, NEW x \in {"fresh", "hello", "open"}
    PROVE  /\ [c EXCEPT !.status = x] \in CipherCtx
           /\ [c EXCEPT !.status = x].mode = c.mode
           /\ [c EXCEPT !.status = x].header = c.header
           /\ [c EXCEPT !.status = x].status = x
           /\ [c EXCEPT !.header = TRUE] \in CipherCtx
           /\ [c EXCEPT !.header = TRUE].mode = c.mode
           /\ [c EXCEPT !.header = TRUE].status = c.status
           /\ [c EXCEPT !.header = TRUE].header
  BY DEF CipherCtx

-----------------------------------------------------------------------------
(* Reads. *)

\* What the plugins make of a read.
Got(d, rd) ==
    tunnel_cipher_server_decrypt(d.cipher,
        SubSeq(ClientStream(d.cipher.mode), d.got + 1, rd.n), rd.cut)

Then(d, rd) == TookTo(d, Got(d, rd).ctx, rd.n, rd.cut)

\* On a live tunnel.
LEMMA LiveTaken ==
    ASSUME NEW i, NEW o, NEW st, NEW d, NEW rd
    PROVE  /\ Decrypt(Live(i, o, st, d), rd) = Got(d, rd)
           /\ Taken(Live(i, o, st, d), rd) = Live(i, o, st, Then(d, rd))
  <1> DEFINE u == Live(i, o, st, d)
  <1>1. u.data = d
    BY LiveFields
  <1>2. SetData(u, Then(d, rd)) = Live(i, o, st, Then(d, rd))
    BY LiveSet
  <1> HIDE DEF u
  <1>3. Decrypt(u, rd) = Got(d, rd)
    BY <1>1 DEF Decrypt, Arrived, Got
  <1>4. Taken(u, rd) = SetData(u, Then(d, rd))
    BY <1>1, <1>3 DEF Taken, SetData, Then, TookTo
  <1> QED BY <1>2, <1>3, <1>4 DEF u

Lost(d) == ValidTo(d, FALSE)

\* Something else than the client's stream.
LEMMA LiveSpoilt ==
    ASSUME NEW i, NEW o, NEW st, NEW d, NEW v \in Spoilt(Live(i, o, st, d))
    PROVE  d.valid /\ v = Live(i, o, st, Lost(d))
  <1> DEFINE u == Live(i, o, st, d)
  <1>1. u.data = d
    BY LiveFields
  <1>2. SetData(u, Lost(d)) = Live(i, o, st, Lost(d))
    BY LiveSet
  <1>3. v \in Spoilt(u)
    OBVIOUS
  <1> HIDE DEF u
  <1>4. u.data.valid /\ v = [u EXCEPT !.data.valid = FALSE]
    BY <1>3 DEF Spoilt
  <1>5. [u EXCEPT !.data.valid = FALSE] = SetData(u, Lost(d))
    BY <1>1 DEF SetData, Lost, ValidTo
  <1> QED BY <1>1, <1>2, <1>4, <1>5 DEF u

\* The package is set.
DataPkg(u, q) == [u EXCEPT !.data.pkg = q]

\* On a live tunnel.
LEMMA LivePkg ==
    ASSUME NEW i, NEW o, NEW st, NEW d, NEW q
    PROVE  DataPkg(Live(i, o, st, d), q) = Live(i, o, st, PkgTo(d, q))
  <1> DEFINE u == Live(i, o, st, d)
  <1>1. u.data = d
    BY LiveFields
  <1>2. SetData(u, PkgTo(d, q)) = Live(i, o, st, PkgTo(d, q))
    BY LiveSet
  <1> HIDE DEF u
  <1>3. DataPkg(u, q) = SetData(u, PkgTo(d, q))
    BY <1>1 DEF SetData, DataPkg, PkgTo
  <1> QED BY <1>2, <1>3 DEF u

\* What one read may bring.
LEMMA LiveReads ==
    ASSUME NEW i, NEW o, NEW st, NEW d \in ServerCtx, NEW rd \in NextReads(Live(i, o, st, d))
    PROVE  LET c == d.cipher
               S == ClientStream(c.mode)
           IN  /\ d.valid /\ rd.cut \in BOOLEAN /\ rd.n \in Nat /\ d.got <= rd.n
               /\ rd.n = d.got => rd.cut /\ ~d.cut
               /\ rd.n <= Len(S) /\ (rd.cut => rd.n < Len(S))
               /\ rd.cut /\ c.mode = "plain" => rd.n = 0
               /\ HasObfs(c) /\ c.status = "fresh" => rd.n <= 1 /\ (rd.cut => rd.n < 1)
               /\ c.mode = "tls" /\ st = "initial" => rd.n <= 1 /\ (rd.cut => rd.n < 1)
               /\ c.mode = "confirm" /\ ~c.header => rd.n <= 2 /\ (rd.cut => rd.n < 2)
  <1> DEFINE u == Live(i, o, st, d)
             c == d.cipher
             S == ClientStream(c.mode)
             A == Available(u)
  <1>1. u.data = d /\ u.stage = st
    BY LiveFields
  <1>2. rd \in NextReads(u)
    OBVIOUS
  <1>3. d.got \in Nat /\ c \in CipherCtx /\ c.mode \in Modes
    BY CtxFields, ServerModesAssumption, MaxDataAssumption
  <1>4. Len(S) = Len(Handshake(c.mode)) + MaxData
    BY <1>3, StreamFacts
  <1>5. /\ Len(Handshake(c.mode)) \in 1 .. 4 /\ MaxData \in Nat \ {0}
        /\ c.mode = "confirm" => Len(Handshake(c.mode)) = 2
        /\ c.mode = "ticket" => Len(Handshake(c.mode)) = 3
        /\ c.mode = "both" => Len(Handshake(c.mode)) = 4
    BY <1>3, HandFacts, MaxDataAssumption
  <1> HIDE DEF u
  <1>6. A = CASE HasObfs(c) /\ c.status = "fresh" -> 1
              [] c.mode = "confirm" /\ ~c.header -> 2
              [] c.mode = "tls" /\ st = "initial" -> 1
              [] OTHER -> Len(S)
    BY <1>1 DEF Available
  <1>7. /\ HasObfs(c) /\ c.status = "fresh" => A = 1
        /\ c.mode = "confirm" /\ ~c.header => A = 2
        /\ c.mode = "tls" /\ st = "initial" => A = 1
        /\ A <= Len(S) /\ A \in Nat
    <2>1. c.mode \in {"ticket", "both"} <=> HasObfs(c)
      BY DEF HasObfs
    <2>2. Len(S) \in Nat /\ 1 <= Len(S) /\ 2 <= Len(S)
      BY <1>4, <1>5
    <2> HIDE DEF S, A
    <2>3. CASE HasObfs(c) /\ c.status = "fresh"
      BY <1>6, <2>1, <2>2, <2>3
    <2>4. CASE ~(HasObfs(c) /\ c.status = "fresh") /\ c.mode = "confirm" /\ ~c.header
      BY <1>6, <2>1, <2>2, <2>4
    <2>5. CASE ~(HasObfs(c) /\ c.status = "fresh") /\ c.mode = "tls" /\ st = "initial"
      BY <1>6, <2>1, <2>2, <2>5
    <2>6. CASE /\ ~(HasObfs(c) /\ c.status = "fresh") /\ ~(c.mode = "confirm" /\ ~c.header)
               /\ ~(c.mode = "tls" /\ st = "initial")
      BY <1>6, <2>1, <2>2, <2>6
    <2> QED BY <2>3, <2>4, <2>5, <2>6
  <1> HIDE DEF A
  <1>8. /\ rd \in [n : d.got .. A, cut : BOOLEAN] /\ d.valid
        /\ rd.n = d.got => rd.cut /\ ~d.cut
        /\ rd.cut => rd.n < A /\ (c.mode = "plain" => rd.n = 0)
    BY <1>1, <1>2 DEF NextReads, A
  <1>9. rd.n \in d.got .. A /\ rd.cut \in BOOLEAN
    BY <1>8
  <1>10. rd.n \in Nat /\ d.got <= rd.n /\ rd.n <= A
    BY <1>3, <1>7, <1>9
  <1>11. Len(S) \in Nat
    BY <1>4, <1>5
  <1> HIDE DEF S
  <1>12. rd.n <= Len(S) /\ (rd.cut => rd.n < Len(S))
    BY <1>7, <1>8, <1>10, <1>11
  <1>13. /\ HasObfs(c) /\ c.status = "fresh" => rd.n <= 1 /\ (rd.cut => rd.n < 1)
         /\ c.mode = "tls" /\ st = "initial" => rd.n <= 1 /\ (rd.cut => rd.n < 1)
         /\ c.mode = "confirm" /\ ~c.header => rd.n <= 2 /\ (rd.cut => rd.n < 2)
    BY <1>7, <1>8, <1>10
  <1>14. rd.cut /\ c.mode = "plain" => rd.n = 0
    BY <1>8
  <1> QED BY <1>8, <1>9, <1>10, <1>12, <1>13, <1>14 DEF S

-----------------------------------------------------------------------------
(* The stages of the handshake. *)

Good(u) == LiveOK(u) \/ DeadOK(u)

\* A live tunnel that is as its stage says.
LEMMA LiveGood ==
    ASSUME NEW i, NEW o, NEW st, NEW d, StageOK(st, i, o, d)
    PROVE  Good(Live(i, o, st, d))
  <1> DEFINE u == Live(i, o, st, d)
  <1>1. u.sock["incoming"] = i /\ u.sock["outgoing"] = o /\ u.stage = st /\ u.data = d
    BY LiveFields
  <1>2. u = Live(i, o, st, d)
    OBVIOUS
  <1> HIDE DEF u
  <1>3. LiveOK(u)
    BY <1>1, <1>2, Zenon DEF LiveOK
  <1> QED BY <1>3 DEF Good, u

\* A socket that is open and not overfull.
Calm(k) == k \in OpenSocket /\ Short(k)

\* Which ones are.
LEMMA CalmFacts ==
    ASSUME NEW k
    PROVE  /\ Unused(k) => Calm(k) /\ Untouched(k) /\ AtRest(k)
           /\ Looking(k) \/ Dialling(k) \/ Reading(k) \/ Writing(k) => Calm(k)
           /\ Quiet(k) => Calm(k) /\ AtRest(k)
  <1>0. MaxData \in Nat
    BY MaxDataAssumption
  <1>1. ASSUME k.writes = <<>> \/ Len(k.writes) = 1
        PROVE  Short(k)
    <2>1. Len(k.writes) = 0 \/ Len(k.writes) = 1
      BY <1>1
    <2> DEFINE n == Len(k.writes)
    <2>2. n <= 2 * MaxData + 2
      <3> HIDE DEF n
      <3>1. n = 0 \/ n = 1
        BY <2>1 DEF n
      <3> QED BY <1>0, <3>1
    <2> QED BY <2>2 DEF Short
  <1>2. Unused(k) => Calm(k) /\ Untouched(k) /\ AtRest(k)
    BY <1>1 DEF Unused, Sock, Calm, Untouched, AtRest
  <1>3. Quiet(k) => Calm(k) /\ AtRest(k)
    BY <1>1 DEF Quiet, Sock, Calm, AtRest
  <1>4. Looking(k) \/ Dialling(k) \/ Reading(k) \/ Writing(k) => Calm(k)
    BY <1>1 DEF Looking, Dialling, Reading, Writing, Busy, Sock, Calm
  <1> QED BY <1>2, <1>3, <1>4

\* What is left when there is no relay and nothing went wrong.
Sound(o, d) ==
    /\ d \in ServerCtx /\ d.bad = {} /\ d.udp = NoRelay
    /\ (Untouched(o) /\ d.sent["outgoing"] = <<>>) \/ Authed(d)

\* The shutdown of a tunnel without a relay.
LEMMA Quit ==
    ASSUME NEW i, NEW o, NEW st \in tunnel_stage, NEW d, Calm(i), Calm(o), Sound(o, d)
    PROVE  Good(tunnel_shutdown(Live(i, o, st, d)))
  <1>1. RelayOK(d.udp, TRUE, FALSE)
    BY DEF Sound, RelayOK, NoRelay
  <1>2. Over(i, o, FALSE, d)
    BY <1>1 DEF Over, Sound, Calm
  <1>3. DeadOK(tunnel_shutdown(Live(i, o, st, d)))
    BY <1>2, ShutLive DEF Calm
  <1> QED BY <1>3 DEF Good

\* What a write of server.c to the client, one at a time, leaves.
LEMMA SayIn ==
    ASSUME NEW i, NEW o, NEW st, NEW d \in ServerCtx, NEW q \in Seq(Items), Quiet(i)
    PROVE  /\ Write(Live(i, o, st, d), "incoming", q)
                = Live(socket_ctx_write(i, q), o, st, SaidIn(d, q))
           /\ Writing(socket_ctx_write(i, q))
  <1> DEFINE n == socket_ctx_write(i, q)
             e == <<>>
             no == FALSE
             ws == Append(e, q)
  <1>1. q \in Payload
    BY ServerStagesAssumption
  <1>2. Sock(i, "stop", "stop", no, e, TRUE, no, "none")
    BY DEF Quiet
  <1>3. CanWrite(i) /\ Sock(n, "stop", "busy", no, ws, TRUE, no, "none")
    <2> HIDE DEF e, no
    <2> QED BY <1>1, <1>2, SockWrite
  <1>4. i.wrstate = "stop"
    BY <1>2 DEF Sock
  <1>5. Len(ws) = 1 /\ ws # <<>>
    BY <1>1
  <1>6. n.writes = ws
    BY <1>3 DEF Sock
  <1>7. Writing(n)
    <2> HIDE DEF n, ws, e
    <2> QED BY <1>3, <1>5, <1>6 DEF Writing, Busy
  <1> QED BY <1>3, <1>4, <1>7, LiveWrite

\* And to the target.
LEMMA SayOut ==
    ASSUME NEW i, NEW o, NEW st, NEW d \in ServerCtx, NEW q \in Seq(Items), Quiet(o)
    PROVE  /\ Write(Live(i, o, st, d), "outgoing", q)
                = Live(i, socket_ctx_write(o, q), st, SaidOut(d, q))
           /\ Writing(socket_ctx_write(o, q))
  <1>1. Writing(socket_ctx_write(o, q))
    BY SayIn
  <1>2. o.wrstate = "stop" /\ CanWrite(o)
    BY DEF Quiet, Sock, CanWrite, OpenSocket
  <1> QED BY <1>1, <1>2, LiveWrite

\* do_connect_host_start.
LEMMA ConnectStart ==
    ASSUME NEW i, NEW o, NEW st, NEW d, Quiet(i), Unused(o), Dialled(d),
           NEW v \in do_connect_host_start(Live(i, o, st, d))
    PROVE  Good(v)
  <1> DEFINE a == Live(i, o, "connect_host", d)
             k == socket_ctx_connect(o)
  <1>1. AtRest(i) /\ AtRest(o) /\ Calm(i) /\ Calm(o)
    BY CalmFacts
  <1>2. GoTo(Idle(Live(i, o, st, d)), "connect_host") = a
    BY <1>1, LiveIdle, LiveSet
  <1>3. v \in {tunnel_shutdown(a), Connect(a, "outgoing")}
    <2> HIDE DEF a
    <2> QED BY <1>2 DEF do_connect_host_start
  <1>4. Connect(a, "outgoing") = Live(i, k, "connect_host", d) /\ Dialling(k)
    BY SockConnect, LiveDial
  <1>5. Good(Live(i, k, "connect_host", d))
    <2>1. AtConnect("connect_host", i, k, d)
      BY <1>4 DEF AtConnect
    <2> QED BY <2>1, LiveGood DEF StageOK
  <1>6. Good(tunnel_shutdown(a))
    <2>1. Sound(o, d)
      BY DEF Dialled, Blank, Sound
    <2>2. "connect_host" \in tunnel_stage
      BY DEF tunnel_stage
    <2> QED BY <1>1, <2>1, <2>2, Quit
  <1> HIDE DEF a
  <1> QED BY <1>3, <1>4, <1>5, <1>6

\* A package that starts with the address, when it may be dialled.
Parsed(d) ==
    /\ Blank(d) /\ Packed(d)
    /\ d.cipher.mode = "tls" => d.got = 1
    /\ d.sent["incoming"] = IF d.cipher.mode = "tls" THEN <<>> ELSE AnswersTo(d.cipher.mode)

\* How much data has been read once the client is accepted.
LEMMA AuthedCount ==
    ASSUME NEW d \in ServerCtx, Authed(d)
    PROVE  /\ d.got - HandshakeLen(d) \in Nat /\ d.got - HandshakeLen(d) <= MaxData
           /\ Apps(d.got - HandshakeLen(d)) \in Seq(Items)
  <1>1. d.got \in Nat /\ d.cipher.mode \in Modes /\ MaxData \in Nat
    BY CtxFields, ServerModesAssumption, MaxDataAssumption
  <1>2. HandshakeLen(d) \in 1 .. 4
    BY <1>1, HandFacts DEF HandshakeLen
  <1>3. HandshakeLen(d) <= d.got /\ d.got <= HandshakeLen(d) + MaxData
    BY DEF Authed
  <1>4. d.got - HandshakeLen(d) \in Nat /\ d.got - HandshakeLen(d) <= MaxData
    BY <1>1, <1>2, <1>3
  <1> QED BY <1>4, AppsFacts

\* What the handshake has reached is a matter of the cipher and of what was read.
LEMMA AuthedSame ==
    ASSUME NEW d, NEW e, e.cipher = d.cipher, e.got = d.got
    PROVE  HandshakeLen(e) = HandshakeLen(d) /\ (Authed(e) <=> Authed(d))
  BY DEF HandshakeLen, Authed

\* The package without its address.
LEMMA ParsedDials ==
    ASSUME NEW d, Parsed(d)
    PROVE  /\ d.pkg # <<>> /\ Head(d.pkg) = Address /\ d \in ServerCtx
           /\ Dialled(PkgTo(d, Tail(d.pkg)))
  <1> DEFINE q == Apps(d.got - HandshakeLen(d))
             e == PkgTo(d, q)
  <1>1. d \in ServerCtx /\ Authed(d) /\ d.pkg = <<Address>> \o q /\ Blank(d)
    BY DEF Parsed, Packed, Blank
  <1>2. q \in Seq(Items)
    BY <1>1, AuthedCount
  <1>3. Head(d.pkg) = Address /\ Tail(d.pkg) = q /\ d.pkg # <<>>
    BY <1>1, <1>2, AddressOnly
  <1>4. /\ e \in ServerCtx /\ e.cipher = d.cipher /\ e.udp = d.udp /\ e.pkg = q
        /\ e.begun = d.begun /\ e.closing = d.closing /\ e.got = d.got
        /\ e.valid = d.valid /\ e.srv = d.srv /\ e.bad = d.bad /\ e.sent = d.sent
    BY <1>1, <1>2, CtxPkg
  <1>5. HandshakeLen(e) = HandshakeLen(d) /\ Authed(e)
    BY <1>1, <1>4, AuthedSame
  <1> HIDE DEF e
  <1>6. Blank(e)
    BY <1>1, <1>4 DEF Blank
  <1>7. Dialled(e)
    BY <1>4, <1>5, <1>6 DEF Dialled, Parsed
  <1> QED BY <1>1, <1>3, <1>7 DEF e

\* do_parse.
LEMMA DoParse ==
    ASSUME NEW i, NEW o, NEW st, NEW d, Quiet(i), Unused(o), Parsed(d),
           NEW v \in do_parse(Live(i, o, st, d))
    PROVE  Good(v)
  <1> DEFINE u == Live(i, o, st, d)
             e == PkgTo(d, Tail(d.pkg))
             a == Live(i, o, st, e)
             b == Live(i, o, "resolve_host", e)
             k == socket_ctx_getaddrinfo(o)
  <1>1. Dialled(e)
    BY ParsedDials
  <1>2. u.data = d
    BY LiveFields
  <1>3. DataPkg(u, Tail(d.pkg)) = a
    BY LivePkg
  <1>4. GoTo(a, "resolve_host") = b
    BY LiveSet
  <1>5. CanGetaddrinfo(o) /\ Looking(k)
    BY SockLookup
  <1>6. Getaddrinfo(b, "outgoing") = Live(i, k, "resolve_host", e)
    BY <1>5, LiveDial
  <1>7. v \in do_parse(u)
    OBVIOUS
  <1>8. [u EXCEPT !.data.pkg = Tail(@)] = DataPkg(u, Tail(d.pkg))
    <2> HIDE DEF u
    <2> QED BY <1>2 DEF DataPkg
  <1>9. v = Getaddrinfo(b, "outgoing") \/ v \in do_connect_host_start(a)
    <2> HIDE DEF u, a, b
    <2> QED BY <1>3, <1>4, <1>7, <1>8 DEF do_parse
  <1>10. ASSUME v \in do_connect_host_start(a) PROVE Good(v)
    BY <1>1, <1>10, ConnectStart
  <1>11. Good(Live(i, k, "resolve_host", e))
    <2>1. AtResolve("resolve_host", i, k, e)
      BY <1>1, <1>5 DEF AtResolve
    <2> QED BY <2>1, LiveGood DEF StageOK
  <1> HIDE DEF a, b
  <1> QED BY <1>6, <1>9, <1>10, <1>11

\* The package is no address, or may be parsed.
Parsable(d) == d.pkg = <<>> \/ Head(d.pkg) # Address \/ Parsed(d)

\* do_prepare_parse.
LEMMA PrepareParse ==
    ASSUME NEW i, NEW o, NEW st \in tunnel_stage, NEW d, Quiet(i), Unused(o),
           Sound(o, d), Parsable(d), NEW v \in do_prepare_parse(Live(i, o, st, d))
    PROVE  Good(v)
  <1> DEFINE u == Live(i, o, st, d)
  <1>1. u.data = d
    BY LiveFields
  <1>2. Calm(i) /\ Calm(o)
    BY CalmFacts
  <1>3. Good(tunnel_shutdown(u))
    BY <1>2, Quit
  <1>4. v \in do_prepare_parse(u)
    OBVIOUS
  <1>5. ASSUME Parsed(d), v \in do_parse(u) PROVE Good(v)
    BY <1>5, DoParse
  <1> HIDE DEF u
  <1>6. v = tunnel_shutdown(u)
        \/ (d.pkg # <<>> /\ Head(d.pkg) = Address /\ v \in do_parse(u))
    BY <1>1, <1>4 DEF do_prepare_parse
  <1> QED BY <1>3, <1>5, <1>6 DEF Parsable

\* The confirmation of the protocol is written.
LEMMA Confirming ==
    ASSUME NEW i, NEW o, NEW st, NEW d, Quiet(i), Unused(o),
           Blank(d), HasAuth(d.cipher), d.pkg = <<>> \/ Packed(d),
           d.sent["incoming"] \o <<Reply("confirm")>> = AnswersTo(d.cipher.mode)
    PROVE  Good(GoTo(Write(Live(i, o, st, d), "incoming", <<Reply("confirm")>>),
                     "protocol_confirm_done"))
  <1> DEFINE q == <<Reply("confirm")>>
             e == SaidIn(d, q)
             k == socket_ctx_write(i, q)
  <1>1. q \in Seq(Items) /\ d \in ServerCtx
    <2>1. Reply("confirm") \in Items
      BY ItemsFacts
    <2> QED BY <2>1 DEF Blank
  <1>2. /\ Write(Live(i, o, st, d), "incoming", q) = Live(k, o, st, e) /\ Writing(k)
    <2> HIDE DEF q
    <2> QED BY <1>1, SayIn
  <1>3. GoTo(Live(k, o, st, e), "protocol_confirm_done") = Live(k, o, "protocol_confirm_done", e)
    BY LiveSet
  <1>4. /\ e \in ServerCtx /\ e.cipher = d.cipher /\ e.udp = d.udp /\ e.pkg = d.pkg
        /\ e.begun = d.begun /\ e.closing = d.closing /\ e.got = d.got
        /\ e.valid = d.valid /\ e.srv = d.srv /\ e.bad = d.bad
        /\ e.sent["incoming"] = d.sent["incoming"] \o q
        /\ e.sent["outgoing"] = d.sent["outgoing"]
    <2> HIDE DEF q
    <2> QED BY <1>1, CtxSaidIn
  <1>5. HandshakeLen(e) = HandshakeLen(d) /\ (Authed(e) <=> Authed(d))
    BY <1>4, AuthedSame
  <1> HIDE DEF e, k
  <1>6. Blank(e)
    BY <1>4 DEF Blank
  <1>7. Packed(d) => Packed(e)
    BY <1>4, <1>5 DEF Packed
  <1>8. HasAuth(e.cipher) /\ e.sent["incoming"] = AnswersTo(e.cipher.mode)
    BY <1>4
  <1>9. Confirmed(e)
    BY <1>4, <1>6, <1>7, <1>8 DEF Confirmed
  <1>10. AtConfirm("protocol_confirm_done", k, o, e)
    BY <1>2, <1>9 DEF AtConfirm
  <1>11. Good(Live(k, o, "protocol_confirm_done", e))
    BY <1>10, LiveGood DEF StageOK
  <1> QED BY <1>2, <1>3, <1>11

\* The answers of each mode.
LEMMA AnswersFacts ==
    /\ AnswersTo("plain") = <<>> /\ AnswersTo("confirm") = <<Reply("confirm")>>
    /\ AnswersTo("ticket") = <<Reply("receipt")>>
    /\ AnswersTo("both") = <<Reply("receipt")>> \o <<Reply("confirm")>>
    /\ AnswersTo("tls") = <<Reply("upgrade")>>
    /\ \A m \in Modes : AnswersTo(m) \in Seq(Items)
  <1>1. /\ Reply("receipt") \in Items /\ Reply("confirm") \in Items
        /\ Reply("upgrade") \in Items
    BY ItemsFacts
  <1>2. /\ AnswersTo("plain") = <<>> /\ AnswersTo("confirm") = <<Reply("confirm")>>
        /\ AnswersTo("ticket") = <<Reply("receipt")>>
        /\ AnswersTo("both") = <<Reply("receipt"), Reply("confirm")>>
        /\ AnswersTo("tls") = <<Reply("upgrade")>>
    BY DEF AnswersTo
  <1>3. ASSUME NEW x \in Items, NEW y \in Items
        PROVE  <<x, y>> = <<x>> \o <<y>> /\ <<x, y>> \in Seq(Items) /\ <<x>> \in Seq(Items)
    <2> DEFINE p == <<x>>
               q == <<x, y>>
               n == 1
    <2>1. /\ p \in Seq(Items) /\ q \in Seq(Items) /\ Len(p) = n /\ Len(q) = n + 1
          /\ q[n + 1] = y /\ n \in Nat
      OBVIOUS
    <2>2. \A j \in 1 .. n : q[j] = p[j]
      OBVIOUS
    <2> HIDE DEF p, q, n
    <2>3. p \o <<y>> = q
      BY <2>1, <2>2, OneMore
    <2> QED BY <2>1, <2>3 DEF p, q
  <1> DEFINE rec == Reply("receipt")
             con == Reply("confirm")
             upg == Reply("upgrade")
  <1>4. /\ AnswersTo("confirm") \in Seq(Items) /\ AnswersTo("ticket") \in Seq(Items)
        /\ AnswersTo("both") \in Seq(Items) /\ AnswersTo("tls") \in Seq(Items)
        /\ AnswersTo("plain") \in Seq(Items)
        /\ AnswersTo("both") = <<Reply("receipt")>> \o <<Reply("confirm")>>
    <2>1. <<rec, con>> = <<rec>> \o <<con>> /\ <<rec, con>> \in Seq(Items)
      BY <1>1, <1>3
    <2>2. <<rec>> \in Seq(Items) /\ <<con>> \in Seq(Items) /\ <<upg>> \in Seq(Items)
      BY <1>1, <1>3
    <2>3. <<>> \in Seq(Items)
      OBVIOUS
    <2> QED BY <1>2, <2>1, <2>2, <2>3
  <1> QED BY <1>2, <1>4 DEF Modes

\* A read before anything is relayed.
LEMMA ReadBlank ==
    ASSUME NEW d, Blank(d), NEW c \in CipherCtx, NEW n \in 0 .. MaxData + 4,
           NEW b \in BOOLEAN, NEW q \in Seq(Items)
    PROVE  LET e == TookTo(d, c, n, b)
               f == PkgTo(e, q)
           IN  /\ Blank(e) /\ e.cipher = c /\ e.got = n /\ e.cut = b /\ e.pkg = d.pkg
               /\ e.sent["incoming"] = d.sent["incoming"]
               /\ Blank(f) /\ f.cipher = c /\ f.got = n /\ f.cut = b /\ f.pkg = q
               /\ f.sent["incoming"] = d.sent["incoming"]
  <1> DEFINE e == TookTo(d, c, n, b)
             f == PkgTo(e, q)
  <1>0. d \in ServerCtx
    BY DEF Blank
  <1>1. /\ e \in ServerCtx /\ e.cipher = c /\ e.udp = d.udp /\ e.pkg = d.pkg
        /\ e.begun = d.begun /\ e.closing = d.closing /\ e.got = n /\ e.cut = b
        /\ e.valid = d.valid /\ e.srv = d.srv /\ e.bad = d.bad /\ e.sent = d.sent
    BY <1>0, CtxTook
  <1> HIDE DEF e
  <1>2. /\ f \in ServerCtx /\ f.cipher = e.cipher /\ f.udp = e.udp /\ f.pkg = q
        /\ f.begun = e.begun /\ f.closing = e.closing /\ f.got = e.got /\ f.cut = e.cut
        /\ f.valid = e.valid /\ f.srv = e.srv /\ f.bad = e.bad /\ f.sent = e.sent
    BY <1>1, CtxPkg
  <1> HIDE DEF f
  <1>3. Blank(e)
    BY <1>1 DEF Blank
  <1>4. Blank(f)
    BY <1>1, <1>2 DEF Blank
  <1>5. /\ Blank(e) /\ e.cipher = c /\ e.got = n /\ e.cut = b /\ e.pkg = d.pkg
        /\ e.sent["incoming"] = d.sent["incoming"]
        /\ Blank(f) /\ f.cipher = c /\ f.got = n /\ f.cut = b /\ f.pkg = q
        /\ f.sent["incoming"] = d.sent["incoming"]
    BY <1>1, <1>2, <1>3, <1>4
  <1> QED BY <1>5 DEF e, f

\* What a read in the first stage comes to: a hello, a header, or the rest.
Hello(d) ==
    /\ Blank(d) /\ d.got = 1 /\ d.cut = FALSE /\ d.pkg = <<>> /\ HasObfs(d.cipher)
    /\ d.sent["incoming"] = <<>>
    /\ d.cipher.status = "hello" /\ d.cipher.header = FALSE

Header(d) ==
    /\ Blank(d) /\ HasAuth(d.cipher) /\ (d.pkg = <<>> \/ Packed(d))
    /\ d.sent["incoming"] \o <<Reply("confirm")>> = AnswersTo(d.cipher.mode)

First(r, e, f) ==
    \/ r.obfs_receipt /\ Hello(e)
    \/ ~r.obfs_receipt /\ r.proto_confirm /\ Header(f)
    \/ ~r.obfs_receipt /\ ~r.proto_confirm /\ Blank(f) /\ Parsable(f)

\* The bounds of a read, as server_ctx counts them.
LEMMA ReadBounds ==
    ASSUME NEW i, NEW o, NEW st, NEW d \in ServerCtx, NEW rd \in NextReads(Live(i, o, st, d))
    PROVE  LET h == HandshakeLen(d)
           IN  /\ d.cipher \in CipherCtx /\ d.cipher.mode \in Modes
               /\ h \in 1 .. 4 /\ rd.n \in 0 .. MaxData + 4 /\ rd.n <= h + MaxData
               /\ rd.n \in Nat /\ d.got \in Nat /\ d.got <= rd.n /\ rd.cut \in BOOLEAN
               /\ ClientStream(d.cipher.mode) \in Seq(Items)
               /\ Len(ClientStream(d.cipher.mode)) = h + MaxData
               /\ MaxData \in Nat
  <1>1. /\ d.cipher \in CipherCtx /\ d.cipher.mode \in Modes /\ d.got \in Nat
        /\ MaxData \in Nat \ {0}
    BY CtxFields, ServerModesAssumption, MaxDataAssumption
  <1> DEFINE h == HandshakeLen(d)
             S == ClientStream(d.cipher.mode)
  <1>2. h \in 1 .. 4
    BY <1>1, HandFacts DEF HandshakeLen
  <1>3. S \in Seq(Items) /\ Len(S) = h + MaxData
    BY <1>1, StreamFacts DEF HandshakeLen
  <1>4. rd.n \in Nat /\ d.got <= rd.n /\ rd.n <= Len(S) /\ rd.cut \in BOOLEAN
    BY LiveReads
  <1> HIDE DEF h, S
  <1>5. rd.n \in 0 .. MaxData + 4 /\ rd.n <= h + MaxData
    BY <1>1, <1>2, <1>3, <1>4
  <1> QED BY <1>1, <1>2, <1>3, <1>4, <1>5 DEF h, S

\* The part of a read that has arrived.
Came(d, rd) == SubSeq(ClientStream(d.cipher.mode), d.got + 1, rd.n)

\* The first read without plugins.
LEMMA FirstPlain ==
    ASSUME NEW i, NEW o, NEW st, NEW d, New(d), NEW rd \in NextReads(Live(i, o, st, d)),
           d.cipher.mode = "plain"
    PROVE  Got(d, rd).out \in Seq(Items)
           /\ First(Got(d, rd), Then(d, rd), PkgTo(Then(d, rd), Got(d, rd).out))
  <1> DEFINE c == d.cipher
             q == Came(d, rd)
             r == Got(d, rd)
             e == Then(d, rd)
             f == PkgTo(e, r.out)
             h == HandshakeLen(d)
             S == ClientStream(c.mode)
             n == rd.n
  <1>1. d \in ServerCtx /\ Blank(d) /\ d.got = 0
    BY DEF New, Blank
  <1>2. /\ c \in CipherCtx /\ n \in 0 .. MaxData + 4 /\ n <= h + MaxData /\ n \in Nat
        /\ rd.cut \in BOOLEAN /\ S \in Seq(Items) /\ Len(S) = h + MaxData
        /\ MaxData \in Nat /\ c.mode \in Modes
    BY <1>1, ReadBounds
  <1>3. (n = 0 => rd.cut) /\ (rd.cut => n = 0)
    BY <1>1, LiveReads
  <1>4. h = 1 /\ h = Len(Handshake(c.mode))
    BY <1>2, HandFacts DEF HandshakeLen
  <1>5. q = SubSeq(S, 1, n)
    BY <1>1 DEF Came
  <1>6. q \in Seq(Items) /\ (n = 0 => q = <<>>)
    <2> HIDE DEF S, q, n, h
    <2>1. n <= Len(S)
      BY <1>2
    <2> DEFINE a == 1
    <2>2. a \in Nat \ {0} /\ (n = 0 => a > n)
      OBVIOUS
    <2>3. q = SubSeq(S, a, n)
      BY <1>5
    <2> HIDE DEF a
    <2> QED BY <1>2, <2>1, <2>2, <2>3, StreamTail
  <1>7. n >= 1 => q = <<Address>> \o Apps(n - h)
    BY <1>2, <1>4, <1>5, StreamPack
  <1>8. Accepted(c) /\ ~HasObfs(c) /\ ~HasAuth(c)
    BY DEF Accepted, HasObfs, HasAuth
  <1>9. Passes(r, c, q \o Cut(c, rd.cut))
    BY <1>8, DecryptOpen DEF Got, Came
  <1>10. q \o Cut(c, rd.cut) \in Seq(Items)
         /\ (n >= 1 => q \o Cut(c, rd.cut) = q)
         /\ (n = 0 => q \o Cut(c, rd.cut) = <<Item("part", 0)>>)
    <2>1. n >= 1 => ~rd.cut
      BY <1>2, <1>3
    <2> HIDE DEF q
    <2> QED BY <1>2, <1>3, <1>6, <2>1, CutFacts
  <1>11. /\ r.ctx = c /\ r.out \in Seq(Items) /\ ~r.obfs_receipt /\ ~r.proto_confirm
         /\ (n >= 1 => r.out = <<Address>> \o Apps(n - h))
         /\ (n = 0 => r.out = <<Item("part", 0)>>)
    BY <1>7, <1>9, <1>10 DEF Passes
  <1>12. /\ Blank(f) /\ f.cipher = c /\ f.got = n /\ f.pkg = r.out
         /\ f.sent["incoming"] = d.sent["incoming"]
    <2> HIDE DEF r, c
    <2>1. e = TookTo(d, c, rd.n, rd.cut)
      BY <1>11 DEF Then, r
    <2> QED BY <1>1, <1>2, <1>11, <2>1, ReadBlank
  <1>13. HandshakeLen(f) = h
    BY <1>12 DEF HandshakeLen
  <1> HIDE DEF f, e, r, h
  <1>14. Parsable(f)
    <2>1. CASE n = 0
      <3>1. Head(f.pkg) = Item("part", 0)
        BY <1>11, <1>12, <2>1
      <3> QED BY <3>1, AddressOnly DEF Parsable
    <2>2. CASE n >= 1
      <3>1. Authed(f)
        BY <1>2, <1>4, <1>8, <1>12, <1>13, <2>2 DEF Authed
      <3>2. Packed(f)
        BY <1>11, <1>12, <1>13, <2>2, <3>1 DEF Packed
      <3>3. f.cipher.mode = "plain" /\ f.sent["incoming"] = <<>>
        BY <1>12 DEF New
      <3>4. Parsed(f)
        BY <1>12, <3>2, <3>3, AnswersFacts DEF Parsed
      <3> QED BY <3>4 DEF Parsable
    <2> QED BY <1>2, <2>1, <2>2
  <1>15. First(r, e, f)
    BY <1>11, <1>12, <1>14 DEF First
  <1> QED BY <1>11, <1>15 DEF r, e, f

\* Parts of the client's stream.
LEMMA CameFacts ==
    ASSUME NEW i, NEW o, NEW st, NEW d \in ServerCtx, NEW rd \in NextReads(Live(i, o, st, d))
    PROVE  /\ Came(d, rd) \in Seq(Items) /\ Got(d, rd) =
                tunnel_cipher_server_decrypt(d.cipher, Came(d, rd), rd.cut)
           /\ rd.n = d.got => Came(d, rd) = <<>>
           /\ rd.n > d.got => /\ Came(d, rd) # <<>>
                              /\ Tail(Came(d, rd)) =
                                    SubSeq(ClientStream(d.cipher.mode), d.got + 2, rd.n)
           /\ rd.n = d.got + 1 => Tail(Came(d, rd)) = <<>>
           /\ rd.n > d.got + 1 => /\ Tail(Came(d, rd)) # <<>>
                                  /\ Tail(Tail(Came(d, rd))) =
                                        SubSeq(ClientStream(d.cipher.mode), d.got + 3, rd.n)
           /\ rd.n = d.got + 2 => Tail(Tail(Came(d, rd))) = <<>>
  <1> DEFINE S == ClientStream(d.cipher.mode)
             q == Came(d, rd)
             g == d.got
             n == rd.n
             a == g + 1
             b == g + 2
             z == g + 3
  <1>1. /\ S \in Seq(Items) /\ n \in Nat /\ g \in Nat /\ n <= Len(S)
    <2>1. /\ S \in Seq(Items) /\ n \in Nat /\ g \in Nat
      BY ReadBounds
    <2>2. n <= Len(S)
      BY LiveReads
    <2> QED BY <2>1, <2>2
  <1>2. q = SubSeq(S, a, n)
    BY DEF Came
  <1>3. Got(d, rd) = tunnel_cipher_server_decrypt(d.cipher, q, rd.cut)
    BY DEF Got, Came
  <1>4. a \in Nat \ {0} /\ b \in Nat \ {0} /\ z \in Nat \ {0} /\ a + 1 = b /\ b + 1 = z
    BY <1>1
  <1> HIDE DEF S, q
  <1>5. /\ n = g => a > n
        /\ n > g => a <= n
        /\ n = g + 1 => b > n /\ a <= n
        /\ n > g + 1 => b <= n /\ a <= n
        /\ n = g + 2 => z > n /\ b <= n /\ a <= n
    BY <1>1
  <1> HIDE DEF a, b, z, g, n
  <1>6. q \in Seq(Items) /\ (a > n => q = <<>>)
        /\ (a <= n => q # <<>> /\ Tail(q) = SubSeq(S, b, n))
    BY <1>1, <1>2, <1>4, StreamTail
  <1>7. /\ (b > n => SubSeq(S, b, n) = <<>>)
        /\ (b <= n => SubSeq(S, b, n) # <<>> /\ Tail(SubSeq(S, b, n)) = SubSeq(S, z, n))
        /\ (z > n => SubSeq(S, z, n) = <<>>)
    BY <1>1, <1>4, StreamTail
  <1>8. /\ n = g => q = <<>>
        /\ n > g => q # <<>> /\ Tail(q) = SubSeq(S, b, n)
        /\ n = g + 1 => Tail(q) = <<>>
        /\ n > g + 1 => Tail(q) # <<>> /\ Tail(Tail(q)) = SubSeq(S, z, n)
        /\ n = g + 2 => Tail(Tail(q)) = <<>>
    BY <1>5, <1>6, <1>7
  <1> QED BY <1>3, <1>6, <1>8 DEF S, q, n, g, b, z

\* A read in the handshake that brings nothing complete, with a plugin.
LEMMA NothingCame ==
    ASSUME NEW i, NEW o, NEW st, NEW d, Blank(d), NEW rd \in NextReads(Live(i, o, st, d)),
           d.cipher.mode # "plain", rd.n = d.got
    PROVE  /\ Passes(Got(d, rd), d.cipher, <<>>)
           /\ Blank(PkgTo(Then(d, rd), Got(d, rd).out))
           /\ PkgTo(Then(d, rd), Got(d, rd).out).pkg = <<>>
           /\ Blank(Then(d, rd))
  <1> DEFINE c == d.cipher
             q == Came(d, rd)
             r == Got(d, rd)
             e == Then(d, rd)
             z == <<>>
  <1>1. d \in ServerCtx
    BY DEF Blank
  <1>2. /\ c \in CipherCtx /\ rd.n \in 0 .. MaxData + 4 /\ rd.cut \in BOOLEAN
    BY <1>1, ReadBounds
  <1>3. q = z /\ r = tunnel_cipher_server_decrypt(c, q, rd.cut) /\ q \in Seq(Items)
    BY <1>1, CameFacts
  <1> HIDE DEF q
  <1>4. Passes(r, c, q \o Cut(c, rd.cut))
    BY <1>3, DecryptOpen
  <1>5. q \o Cut(c, rd.cut) = q
    BY <1>2, <1>3, CutFacts
  <1>6. Passes(r, c, z) /\ r.ctx = c /\ r.out = z /\ z \in Seq(Items)
    BY <1>3, <1>4, <1>5 DEF Passes
  <1>7. e = TookTo(d, c, rd.n, rd.cut)
    BY <1>6 DEF Then
  <1> HIDE DEF z, r, c, e
  <1>8. Blank(e) /\ Blank(PkgTo(e, z)) /\ PkgTo(e, z).pkg = z
    BY <1>2, <1>6, <1>7, ReadBlank
  <1> QED BY <1>6, <1>8 DEF r, c, e, z

\* The first read with a protocol that is to be confirmed.
LEMMA FirstConfirm ==
    ASSUME NEW i, NEW o, NEW st, NEW d, New(d), NEW rd \in NextReads(Live(i, o, st, d)),
           d.cipher.mode = "confirm"
    PROVE  Got(d, rd).out \in Seq(Items)
           /\ First(Got(d, rd), Then(d, rd), PkgTo(Then(d, rd), Got(d, rd).out))
  <1> DEFINE c == d.cipher
             x == [c EXCEPT !.header = TRUE]
             q == Came(d, rd)
             p == Tail(q)
             r == Got(d, rd)
             e == Then(d, rd)
             f == PkgTo(e, r.out)
             h == HandshakeLen(d)
             S == ClientStream(c.mode)
             n == rd.n
  <1>1. d \in ServerCtx /\ Blank(d) /\ d.got = 0 /\ ~c.header
    BY DEF New, Blank
  <1>2. /\ c \in CipherCtx /\ n \in 0 .. MaxData + 4 /\ n \in Nat
        /\ rd.cut \in BOOLEAN /\ MaxData \in Nat \ {0} /\ c.mode \in Modes
    BY <1>1, ReadBounds, MaxDataAssumption
  <1>3. n <= 2
    BY <1>1, LiveReads
  <1>4. h = 2 /\ h = Len(Handshake(c.mode)) /\ ~HasObfs(c) /\ HasAuth(c)
    BY <1>2, HandFacts DEF HandshakeLen, HasObfs, HasAuth
  <1>5. CASE n = 0
    <2>1. Passes(r, c, <<>>) /\ Blank(f) /\ f.pkg = <<>>
      BY <1>1, <1>5, NothingCame
    <2>2. ~r.obfs_receipt /\ ~r.proto_confirm /\ r.out \in Seq(Items)
      BY <2>1 DEF Passes
    <2> HIDE DEF r, e, f
    <2>3. Parsable(f)
      BY <2>1 DEF Parsable
    <2>4. First(r, e, f) /\ r.out \in Seq(Items)
      BY <2>1, <2>2, <2>3 DEF First
    <2> QED BY <2>4 DEF r, e, f
  <1>6. CASE n # 0
    <2>1. /\ q \in Seq(Items) /\ q # <<>> /\ r = tunnel_cipher_server_decrypt(c, q, rd.cut)
          /\ p = SubSeq(S, 2, n) /\ (n = 1 => p = <<>>)
      <3>1. /\ q \in Seq(Items) /\ r = tunnel_cipher_server_decrypt(c, q, rd.cut)
            /\ n > d.got => q # <<>> /\ p = SubSeq(S, d.got + 2, n)
            /\ n = d.got + 1 => p = <<>>
        BY <1>1, CameFacts
      <3>2. n > d.got /\ d.got + 2 = 2 /\ d.got + 1 = 1
        BY <1>1, <1>2, <1>6
      <3> HIDE DEF q, p, r, S, c
      <3> QED BY <3>1, <3>2
    <2>2. p \in Seq(Items)
      BY <2>1
    <2>3. Confirms(r, x, p)
      BY <1>1, <1>2, <2>1, DecryptHeader
    <2>4. x \in CipherCtx /\ x.mode = c.mode /\ x.header
      BY <1>2, CipherSteps
    <2>5. n = 2 => p = <<Address>> \o Apps(n - h)
      <3>1. 2 <= h + MaxData /\ c.mode # "tls" /\ 2 \in Nat
        BY <1>2, <1>4
      <3>2. SubSeq(S, h, 2) = <<Address>> \o Apps(2 - h)
        <4> DEFINE m == c.mode
                   k == 2
                   l == Len(Handshake(m))
        <4>1. m \in Modes /\ m # "tls" /\ k \in Nat /\ h = l /\ l <= k /\ k <= l + MaxData
          <5>1. l = 2 /\ h = l
            BY <1>4
          <5>2. m \in Modes /\ m # "tls"
            BY <1>2
          <5> HIDE DEF l, h, m
          <5> QED BY <1>2, <5>1, <5>2
        <4> HIDE DEF m, k
        <4>2. SubSeq(ClientStream(m), l, k) = <<Address>> \o Apps(k - l)
          BY <4>1, StreamPack
        <4> QED BY <4>1, <4>2 DEF m, k
      <3> HIDE DEF p, h, S
      <3> QED BY <1>4, <2>1, <3>2
    <2>6. r.ctx = x /\ r.out = p /\ ~r.obfs_receipt /\ r.proto_confirm
      BY <2>3 DEF Confirms
    <2> HIDE DEF p, x, r
    <2>7. /\ Blank(f) /\ f.cipher = x /\ f.got = n /\ f.pkg = p
          /\ f.sent["incoming"] = d.sent["incoming"]
      <3>1. e = TookTo(d, x, rd.n, rd.cut)
        BY <2>6 DEF Then, r
      <3> QED BY <1>1, <1>2, <2>2, <2>4, <2>6, <3>1, ReadBlank
    <2>8. HandshakeLen(f) = h
      BY <2>4, <2>7 DEF HandshakeLen
    <2> HIDE DEF f, e, h
    <2>9. HasAuth(f.cipher) /\ ~HasObfs(f.cipher) /\ f.cipher.header /\ f.cipher.mode = "confirm"
      BY <2>4, <2>7 DEF HasAuth, HasObfs
    <2>10. f.pkg = <<>> \/ Packed(f)
      <3>1. CASE n = 1
        BY <2>1, <2>7, <3>1
      <3>2. CASE n = 2
        <4>1. Authed(f)
          <5>1. f.got >= HandshakeLen(f) /\ f.got <= HandshakeLen(f) + MaxData
            <6> DEFINE g == f.got
                       l == HandshakeLen(f)
            <6>1. g = 2 /\ l = 2
              BY <1>4, <2>7, <2>8, <3>2
            <6> HIDE DEF g, l
            <6>2. g >= l /\ g <= l + MaxData
              BY <1>2, <6>1
            <6> QED BY <6>2 DEF g, l
          <5> QED BY <2>9, <5>1 DEF Authed
        <4> QED BY <2>5, <2>7, <2>8, <3>2, <4>1 DEF Packed
      <3> QED BY <1>2, <1>3, <1>6, <3>1, <3>2
    <2>11. f.sent["incoming"] \o <<Reply("confirm")>> = AnswersTo(f.cipher.mode)
      <3> DEFINE y == <<Reply("confirm")>>
      <3>1. f.sent["incoming"] = <<>>
        BY <2>7 DEF New
      <3>2. y \in Seq(Items) /\ AnswersTo("confirm") = y
        BY AnswersFacts DEF Modes
      <3> HIDE DEF y
      <3>3. <<>> \o y = y
        BY <3>2, Assoc
      <3> QED BY <2>9, <3>1, <3>2, <3>3 DEF y
    <2>12. Header(f)
      BY <2>7, <2>9, <2>10, <2>11 DEF Header
    <2>13. First(r, e, f) /\ r.out \in Seq(Items)
      BY <2>2, <2>6, <2>12 DEF First
    <2> QED BY <2>13 DEF r, e, f
  <1> QED BY <1>5, <1>6

\* The first read with an obfuscation that is to be answered.
LEMMA FirstTicket ==
    ASSUME NEW i, NEW o, NEW st, NEW d, New(d), NEW rd \in NextReads(Live(i, o, st, d)),
           HasObfs(d.cipher)
    PROVE  First(Got(d, rd), Then(d, rd), PkgTo(Then(d, rd), Got(d, rd).out))
  <1> DEFINE c == d.cipher
             x == [c EXCEPT !.status = "hello"]
             q == Came(d, rd)
             r == Got(d, rd)
             e == Then(d, rd)
             f == PkgTo(e, r.out)
             n == rd.n
  <1>1. /\ d \in ServerCtx /\ Blank(d) /\ d.got = 0 /\ ~c.header /\ c.status = "fresh"
        /\ d.pkg = <<>> /\ d.sent["incoming"] = <<>>
    BY DEF New, Blank
  <1>2. c \in CipherCtx /\ n \in 0 .. MaxData + 4 /\ n \in Nat /\ rd.cut \in BOOLEAN
    BY <1>1, ReadBounds
  <1>3. n <= 1 /\ (rd.cut => n < 1)
    <2>1. d \in ServerCtx
      BY <1>1
    <2>2. HasObfs(d.cipher) /\ d.cipher.status = "fresh" => n <= 1 /\ (rd.cut => n < 1)
      BY <2>1, LiveReads
    <2> QED BY <1>1, <2>2
  <1>4. c.mode # "plain"
    BY DEF HasObfs
  <1>5. CASE n = 0
    <2>1. Passes(r, c, <<>>) /\ Blank(f) /\ f.pkg = <<>>
      BY <1>1, <1>4, <1>5, NothingCame
    <2>2. ~r.obfs_receipt /\ ~r.proto_confirm
      BY <2>1 DEF Passes
    <2> HIDE DEF r, e, f
    <2>3. Parsable(f)
      BY <2>1 DEF Parsable
    <2>4. First(r, e, f)
      BY <2>1, <2>2, <2>3 DEF First
    <2> QED BY <2>4 DEF r, e, f
  <1>6. CASE n = 1
    <2>1. q # <<>> /\ r = tunnel_cipher_server_decrypt(c, q, rd.cut)
      <3>1. n > d.got
        BY <1>1, <1>6
      <3> QED BY <1>1, <3>1, CameFacts
    <2>2. r.ctx = x /\ r.obfs_receipt
      BY <1>1, <1>2, <2>1, DecryptHello
    <2>3. x \in CipherCtx /\ x.mode = c.mode /\ x.header = c.header /\ x.status = "hello"
      BY <1>2, CipherSteps
    <2> DEFINE z == <<>>
    <2>4. z \in Seq(Items)
      OBVIOUS
    <2>5. rd.cut = FALSE
      BY <1>2, <1>3, <1>6
    <2> HIDE DEF x, r, z
    <2>6. /\ Blank(e) /\ e.cipher = x /\ e.got = n /\ e.cut = rd.cut /\ e.pkg = d.pkg
          /\ e.sent["incoming"] = d.sent["incoming"]
      <3>1. e = TookTo(d, x, rd.n, rd.cut)
        BY <2>2 DEF Then, r
      <3> QED BY <1>1, <1>2, <2>3, <2>4, <3>1, ReadBlank
    <2>7. HasObfs(e.cipher) /\ e.cipher.header = FALSE
      BY <2>3, <2>6 DEF HasObfs, New
    <2> HIDE DEF e, f
    <2>8. Hello(e)
      BY <1>1, <1>6, <2>3, <2>5, <2>6, <2>7 DEF Hello
    <2>9. First(r, e, f)
      BY <2>2, <2>8 DEF First
    <2> QED BY <2>9 DEF r, e, f
  <1> QED BY <1>2, <1>3, <1>5, <1>6

\* The receipt of the obfuscation is written.
LEMMA Greeting ==
    ASSUME NEW i, NEW o, NEW st, NEW d, Quiet(i), Unused(o), Hello(d)
    PROVE  Good(GoTo(Write(Live(i, o, st, d), "incoming", <<Reply("receipt")>>),
                     "obfs_receipt_done"))
  <1> DEFINE q == <<Reply("receipt")>>
             e == SaidIn(d, q)
             k == socket_ctx_write(i, q)
  <1>1. q \in Seq(Items) /\ d \in ServerCtx /\ <<>> \o q = q
    <2>1. q \in Seq(Items)
      BY AnswersFacts DEF Modes
    <2> HIDE DEF q
    <2> QED BY <2>1, Assoc DEF Hello, Blank
  <1>2. /\ Write(Live(i, o, st, d), "incoming", q) = Live(k, o, st, e) /\ Writing(k)
    <2> HIDE DEF q
    <2> QED BY <1>1, SayIn
  <1>3. GoTo(Live(k, o, st, e), "obfs_receipt_done") = Live(k, o, "obfs_receipt_done", e)
    BY LiveSet
  <1>4. /\ e \in ServerCtx /\ e.cipher = d.cipher /\ e.udp = d.udp /\ e.pkg = d.pkg
        /\ e.begun = d.begun /\ e.closing = d.closing /\ e.got = d.got /\ e.cut = d.cut
        /\ e.valid = d.valid /\ e.srv = d.srv /\ e.bad = d.bad
        /\ e.sent["incoming"] = d.sent["incoming"] \o q
        /\ e.sent["outgoing"] = d.sent["outgoing"]
    <2> HIDE DEF q
    <2> QED BY <1>1, CtxSaidIn
  <1> HIDE DEF e, k
  <1>5. Blank(e)
    BY <1>4 DEF Blank, Hello
  <1>6. e.sent["incoming"] = q
    <2> HIDE DEF q
    <2> QED BY <1>1, <1>4 DEF Hello
  <1>7. Greeted(e)
    BY <1>4, <1>5, <1>6 DEF Greeted, Hello
  <1>8. AtReceipt("obfs_receipt_done", k, o, e)
    BY <1>2, <1>7 DEF AtReceipt
  <1>9. Good(Live(k, o, "obfs_receipt_done", e))
    BY <1>8, LiveGood DEF StageOK
  <1> QED BY <1>2, <1>3, <1>9

\* What is left of server_ctx before anything is relayed, when no connection was made.
LEMMA BlankSound ==
    ASSUME NEW o, NEW d, Unused(o), Blank(d)
    PROVE  Sound(o, d) /\ Sound(o, Lost(d))
  <1>1. Untouched(o) /\ d \in ServerCtx
    BY CalmFacts DEF Blank
  <1> DEFINE no == FALSE
             e == ValidTo(d, no)
  <1>2. e \in ServerCtx /\ e.bad = d.bad /\ e.udp = d.udp /\ e.sent = d.sent
    <2>1. no \in BOOLEAN
      OBVIOUS
    <2> HIDE DEF no
    <2> QED BY <1>1, <2>1, CtxValid
  <1>3. Lost(d) = e
    BY DEF Lost
  <1> HIDE DEF e
  <1>4. Sound(o, d)
    BY <1>1 DEF Sound, Blank
  <1>5. Sound(o, e)
    BY <1>1, <1>2 DEF Sound, Blank
  <1> QED BY <1>3, <1>4, <1>5

\* do_init_package.
LEMMA InitPackage ==
    ASSUME NEW i, NEW o, NEW d, Quiet(i), Unused(o), New(d), d.cipher.mode # "tls",
           NEW v \in do_init_package(Live(i, o, "initial", d))
    PROVE  Good(v)
  <1> DEFINE st == "initial"
             u == Live(i, o, st, d)
             out(rd) == Got(d, rd).out
             a(rd) == Live(i, o, st, Then(d, rd))
             b(rd) == Live(i, o, st, PkgTo(Then(d, rd), out(rd)))
  <1>1. Calm(i) /\ Calm(o) /\ Blank(d) /\ st \in tunnel_stage
    BY CalmFacts DEF New, tunnel_stage
  <1>2. ASSUME NEW w \in Spoilt(u) PROVE Good(tunnel_shutdown(w))
    <2>1. w = Live(i, o, st, Lost(d))
      BY LiveSpoilt
    <2>2. Good(tunnel_shutdown(Live(i, o, st, Lost(d))))
      BY <1>1, BlankSound, Quit
    <2> QED BY <2>1, <2>2
  <1>3. ASSUME NEW rd \in NextReads(u)
        PROVE  /\ First(Got(d, rd), Then(d, rd), PkgTo(Then(d, rd), out(rd)))
               /\ Decrypt(u, rd) = Got(d, rd) /\ Taken(u, rd) = a(rd)
               /\ DataPkg(a(rd), out(rd)) = b(rd)
    <2>1. d.cipher.mode \in Modes
      BY <1>1, CtxFields, ServerModesAssumption DEF Blank
    <2>2. d.cipher.mode \in {"plain", "confirm"} \/ HasObfs(d.cipher)
      BY <2>1 DEF Modes, HasObfs
    <2>3. First(Got(d, rd), Then(d, rd), PkgTo(Then(d, rd), out(rd)))
      BY <2>2, FirstPlain, FirstConfirm, FirstTicket
    <2>4. Decrypt(u, rd) = Got(d, rd) /\ Taken(u, rd) = a(rd)
      BY LiveTaken
    <2>5. DataPkg(a(rd), out(rd)) = b(rd)
      BY LivePkg
    <2> QED BY <2>3, <2>4, <2>5
  <1>4. ASSUME NEW rd \in NextReads(u), Hello(Then(d, rd))
        PROVE  Good(GoTo(Write(a(rd), "incoming", <<Reply("receipt")>>), "obfs_receipt_done"))
    BY <1>4, Greeting
  <1>5. ASSUME NEW rd \in NextReads(u), Header(PkgTo(Then(d, rd), out(rd)))
        PROVE  Good(GoTo(Write(b(rd), "incoming", <<Reply("confirm")>>), "protocol_confirm_done"))
    <2> DEFINE f == PkgTo(Then(d, rd), out(rd))
    <2>1. Header(f)
      BY <1>5
    <2> HIDE DEF f
    <2>2. /\ Blank(f) /\ HasAuth(f.cipher) /\ (f.pkg = <<>> \/ Packed(f))
          /\ f.sent["incoming"] \o <<Reply("confirm")>> = AnswersTo(f.cipher.mode)
      BY <2>1 DEF Header
    <2>3. Good(GoTo(Write(Live(i, o, st, f), "incoming", <<Reply("confirm")>>), "protocol_confirm_done"))
      BY <2>2, Confirming
    <2> QED BY <2>3 DEF f
  <1>6. ASSUME NEW rd \in NextReads(u), Blank(PkgTo(Then(d, rd), out(rd))),
               Parsable(PkgTo(Then(d, rd), out(rd))), NEW w \in do_prepare_parse(b(rd))
        PROVE  Good(w)
    <2> DEFINE f == PkgTo(Then(d, rd), out(rd))
    <2>1. Blank(f) /\ Parsable(f) /\ w \in do_prepare_parse(Live(i, o, st, f))
      BY <1>6
    <2> HIDE DEF f, st
    <2> QED BY <1>1, <2>1, BlankSound, PrepareParse
  <1>7. v \in do_init_package(u)
    OBVIOUS
  <1> HIDE DEF u
  <1>8. \/ \E w \in Spoilt(u) : v = tunnel_shutdown(w)
        \/ \E rd \in NextReads(u) :
              LET r == Decrypt(u, rd)
                  y == Taken(u, rd)
                  z == DataPkg(y, r.out)
              IN  v \in IF r.obfs_receipt
                        THEN {GoTo(Write(y, "incoming", <<Reply("receipt")>>), "obfs_receipt_done")}
                        ELSE IF r.proto_confirm
                        THEN {GoTo(Write(z, "incoming", <<Reply("confirm")>>), "protocol_confirm_done")}
                        ELSE do_prepare_parse(z)
    BY <1>7, Zenon DEF do_init_package, DataPkg
  <1>9. ASSUME NEW rd \in NextReads(u),
               v \in IF Got(d, rd).obfs_receipt
                     THEN {GoTo(Write(a(rd), "incoming", <<Reply("receipt")>>), "obfs_receipt_done")}
                     ELSE IF Got(d, rd).proto_confirm
                     THEN {GoTo(Write(b(rd), "incoming", <<Reply("confirm")>>), "protocol_confirm_done")}
                     ELSE do_prepare_parse(b(rd))
        PROVE  Good(v)
    <2> DEFINE r == Got(d, rd)
               e == Then(d, rd)
               f == PkgTo(Then(d, rd), out(rd))
    <2>1. First(r, e, f)
      BY <1>3, <1>9
    <2>2. CASE r.obfs_receipt /\ Hello(e)
      BY <1>4, <1>9, <2>2
    <2>3. CASE ~r.obfs_receipt /\ r.proto_confirm /\ Header(f)
      BY <1>5, <1>9, <2>3
    <2>4. CASE ~r.obfs_receipt /\ ~r.proto_confirm /\ Blank(f) /\ Parsable(f)
      BY <1>6, <1>9, <2>4
    <2> HIDE DEF r, e, f
    <2> QED BY <2>1, <2>2, <2>3, <2>4 DEF First
  <1> HIDE DEF a, b, out
  <1>10. ASSUME NEW rd \in NextReads(u)
         PROVE  /\ Decrypt(u, rd) = Got(d, rd) /\ Taken(u, rd) = a(rd)
                /\ DataPkg(a(rd), Got(d, rd).out) = b(rd)
    BY <1>3, <1>10 DEF out
  <1> QED BY <1>2, <1>8, <1>9, <1>10

\* What a read behind the receipt comes to: nothing, a header, or the address.
Second(r, e, f) ==
    \/ r.out = <<>> /\ Blank(e)
    \/ r.out # <<>> /\ r.proto_confirm /\ Header(f)
    \/ r.out # <<>> /\ ~r.proto_confirm /\ Blank(f) /\ Parsable(f)

\* The read behind the receipt.
LEMMA SecondRead ==
    ASSUME NEW i, NEW o, NEW st, NEW d, Greeted(d), NEW rd \in NextReads(Live(i, o, st, d))
    PROVE  LET r == Got(d, rd)
               e == Then(d, rd)
           IN  /\ ~r.obfs_receipt /\ r.out \in Seq(Items) /\ e.pkg = <<>>
               /\ Second(r, e, PkgTo(e, r.out))
  <1> DEFINE c == d.cipher
             x == [c EXCEPT !.status = "open"]
             y == [x EXCEPT !.header = TRUE]
             q == Came(d, rd)
             p == Tail(q)
             z == Tail(p)
             r == Got(d, rd)
             e == Then(d, rd)
             f == PkgTo(e, r.out)
             h == HandshakeLen(d)
             S == ClientStream(c.mode)
             n == rd.n
             nil == <<>>
  <1>1. /\ d \in ServerCtx /\ Blank(d) /\ d.got = 1 /\ ~c.header /\ c.status = "hello"
        /\ d.pkg = <<>> /\ d.sent["incoming"] = <<Reply("receipt")>> /\ HasObfs(c)
    BY DEF Greeted, Blank
  <1>2. /\ c \in CipherCtx /\ n \in 0 .. MaxData + 4 /\ n \in Nat /\ rd.cut \in BOOLEAN
        /\ n >= 1 /\ n <= h + MaxData /\ MaxData \in Nat /\ c.mode \in Modes
    BY <1>1, ReadBounds
  <1>3. /\ c.mode \in {"ticket", "both"} /\ (c.mode = "ticket" => h = 3)
        /\ (c.mode = "both" => h = 4) /\ h = Len(Handshake(c.mode))
    BY <1>1, <1>2, HandFacts DEF HandshakeLen, HasObfs
  <1>4. /\ x \in CipherCtx /\ x.mode = c.mode /\ ~x.header /\ x.status = "open"
        /\ y \in CipherCtx /\ y.mode = c.mode /\ y.header /\ y.status = "open"
    <2>1. x \in CipherCtx /\ x.mode = c.mode /\ x.header = c.header /\ x.status = "open"
      BY <1>2, CipherSteps
    <2> HIDE DEF x
    <2>2. y \in CipherCtx /\ y.mode = x.mode /\ y.header /\ y.status = x.status
      BY <2>1, CipherSteps
    <2> QED BY <1>1, <2>1, <2>2
  <1>5. /\ q \in Seq(Items) /\ r = tunnel_cipher_server_decrypt(c, q, rd.cut)
        /\ n > 1 => q # nil /\ p = SubSeq(S, 3, n)
        /\ n = 2 => p = nil
        /\ n > 2 => p # nil /\ z = SubSeq(S, 4, n)
        /\ n = 3 => z = nil
    <2>1. /\ q \in Seq(Items) /\ r = tunnel_cipher_server_decrypt(c, q, rd.cut)
          /\ n > d.got => q # nil /\ p = SubSeq(S, d.got + 2, n)
          /\ n = d.got + 1 => p = nil
          /\ n > d.got + 1 => p # nil /\ z = SubSeq(S, d.got + 3, n)
          /\ n = d.got + 2 => z = nil
      BY <1>1, CameFacts
    <2>2. d.got = 1 /\ d.got + 1 = 2 /\ d.got + 2 = 3 /\ d.got + 3 = 4
      BY <1>1
    <2> HIDE DEF q, p, r, S, z, nil
    <2> QED BY <2>1, <2>2
  <1>6. nil \in Seq(Items)
    OBVIOUS
  <1>7. h <= n => SubSeq(S, h, n) = <<Address>> \o Apps(n - h)
    <2>1. c.mode # "tls"
      BY <1>3
    <2> QED BY <1>2, <1>3, <2>1, StreamPack
  <1>8. HasAuth(c) <=> c.mode = "both"
    BY <1>3 DEF HasAuth
  <1> HIDE DEF h, S, nil, q
  <1>9. CASE n = 1
    <2>1. /\ Passes(r, c, nil) /\ Blank(e)
      BY <1>1, <1>3, <1>9, NothingCame DEF nil
    <2>2. ~r.obfs_receipt /\ r.out = nil
      BY <2>1 DEF Passes
    <2>3. e.pkg = nil
      <3>1. r.ctx = c
        BY <2>1 DEF Passes
      <3>2. e = TookTo(d, c, n, rd.cut)
        BY <3>1 DEF Then
      <3>3. TookTo(d, c, n, rd.cut).pkg = d.pkg
        BY <1>1, <1>2, CtxTook
      <3> QED BY <1>1, <3>2, <3>3 DEF nil
    <2> HIDE DEF r, e, f
    <2>4. Second(r, e, f)
      BY <2>1, <2>2 DEF Second, nil
    <2>5. ~r.obfs_receipt /\ r.out \in Seq(Items) /\ e.pkg = nil /\ Second(r, e, f)
      BY <1>6, <2>2, <2>3, <2>4
    <2> QED BY <2>5 DEF r, e, f, nil
  <1>10. CASE n >= 2
    <2>0. q # nil /\ p \in Seq(Items) /\ (p # nil => z \in Seq(Items))
      <3>1. q # nil
        BY <1>2, <1>5, <1>10
      <3>2. p \in Seq(Items)
        BY <1>5, <3>1 DEF nil
      <3> HIDE DEF p
      <3> QED BY <3>1, <3>2 DEF nil
    <2>1. /\ c.mode = "ticket" \/ p = nil => Passes(r, x, p)
          /\ c.mode = "both" /\ p # nil => Confirms(r, y, z)
      BY <1>1, <1>2, <1>5, <2>0, DecryptFinish DEF nil
    <2> HIDE DEF p, z, x, y, r
    <2>2. CASE c.mode = "ticket" \/ p = nil
      <3>1. Passes(r, x, p) /\ r.ctx = x /\ r.out = p /\ ~r.obfs_receipt /\ ~r.proto_confirm
        BY <2>1, <2>2 DEF Passes
      <3>2. e = TookTo(d, x, n, rd.cut)
        BY <3>1 DEF Then, r
      <3>3. /\ Blank(e) /\ e.pkg = d.pkg
            /\ Blank(f) /\ f.cipher = x /\ f.got = n /\ f.pkg = p
            /\ f.sent["incoming"] = d.sent["incoming"]
        <4>1. f = PkgTo(e, p) /\ p \in Seq(Items)
          BY <2>0, <3>1
        <4>2. e = TookTo(d, x, n, rd.cut)
          BY <3>2
        <4> HIDE DEF e, f, n, c
        <4> QED BY <1>1, <1>2, <1>4, <4>1, <4>2, ReadBlank
      <3>4. HandshakeLen(f) = h
        BY <1>4, <3>3 DEF HandshakeLen, h
      <3> HIDE DEF e, f
      <3>5. CASE p = nil
        <4>1. Second(r, e, f)
          BY <3>1, <3>3, <3>5 DEF Second, nil
        <4>2. e.pkg = nil /\ ~r.obfs_receipt /\ r.out \in Seq(Items)
          BY <1>1, <2>0, <3>1, <3>3 DEF nil
        <4> QED BY <4>1, <4>2 DEF r, e, f, nil
      <3>6. CASE p # nil
        <4>1. c.mode = "ticket" /\ h = 3 /\ n >= 3
          BY <1>2, <1>3, <1>5, <1>10, <2>2, <3>6
        <4>2. p = <<Address>> \o Apps(n - h)
          <5>1. n > 1 /\ h <= n
            BY <1>2, <4>1
          <5> QED BY <1>5, <1>7, <4>1, <5>1
        <4>3. Authed(f)
          <5>1. ~HasAuth(f.cipher) /\ f.cipher.status = "open"
            BY <1>4, <3>3, <4>1 DEF HasAuth
          <5>2. f.got >= HandshakeLen(f) /\ f.got <= HandshakeLen(f) + MaxData
            <6>1. n >= h /\ n <= h + MaxData
              BY <1>2, <4>1
            <6> QED BY <3>3, <3>4, <6>1
          <5> QED BY <5>1, <5>2 DEF Authed
        <4>4. Packed(f)
          BY <3>3, <3>4, <4>2, <4>3 DEF Packed
        <4>5. f.cipher.mode = "ticket" /\ f.sent["incoming"] = AnswersTo("ticket")
          BY <1>1, <1>4, <3>3, <4>1, AnswersFacts
        <4>6. Parsed(f)
          BY <3>3, <4>4, <4>5 DEF Parsed
        <4>7. Second(r, e, f)
          BY <3>1, <3>3, <3>6, <4>6 DEF Second, Parsable, nil
        <4>8. e.pkg = nil /\ ~r.obfs_receipt /\ r.out \in Seq(Items)
          BY <1>1, <2>0, <3>1, <3>3 DEF nil
        <4> QED BY <4>7, <4>8 DEF r, e, f, nil
      <3> QED BY <3>5, <3>6
    <2>3. CASE c.mode = "both" /\ p # nil
      <3>1. Confirms(r, y, z) /\ r.ctx = y /\ r.out = z /\ ~r.obfs_receipt /\ r.proto_confirm
        BY <2>1, <2>3 DEF Confirms
      <3>2. e = TookTo(d, y, n, rd.cut)
        BY <3>1 DEF Then, r
      <3>3. /\ Blank(e) /\ e.pkg = d.pkg
            /\ Blank(f) /\ f.cipher = y /\ f.got = n /\ f.pkg = z
            /\ f.sent["incoming"] = d.sent["incoming"]
        <4>1. f = PkgTo(e, z) /\ z \in Seq(Items)
          BY <2>0, <2>3, <3>1
        <4>2. e = TookTo(d, y, n, rd.cut)
          BY <3>2
        <4> HIDE DEF e, f, n, c
        <4> QED BY <1>1, <1>2, <1>4, <4>1, <4>2, ReadBlank
      <3>4. HandshakeLen(f) = h
        BY <1>4, <3>3 DEF HandshakeLen, h
      <3> HIDE DEF e, f
      <3>5. e.pkg = nil /\ ~r.obfs_receipt /\ r.out \in Seq(Items)
        BY <1>1, <2>0, <2>3, <3>1, <3>3 DEF nil
      <3>6. CASE z = nil
        <4>1. Second(r, e, f)
          BY <3>1, <3>3, <3>6 DEF Second, nil
        <4> QED BY <4>1, <3>5 DEF r, e, f, nil
      <3>7. CASE z # nil
        <4>1. h = 4 /\ n >= 4 /\ n > 2
          <5>1. n # 2 /\ n # 3
            BY <1>5, <2>3, <3>7
          <5> QED BY <1>2, <1>3, <1>10, <2>3, <5>1
        <4>2. z = <<Address>> \o Apps(n - h)
          <5>1. h <= n
            BY <1>2, <4>1
          <5> QED BY <1>5, <1>7, <4>1, <5>1
        <4>3. Authed(f)
          <5>1. f.cipher.header /\ f.cipher.status = "open"
            BY <1>4, <3>3
          <5>2. f.got >= HandshakeLen(f) /\ f.got <= HandshakeLen(f) + MaxData
            <6>1. n >= h /\ n <= h + MaxData
              BY <1>2, <4>1
            <6> QED BY <3>3, <3>4, <6>1
          <5> QED BY <5>1, <5>2 DEF Authed
        <4>4. Packed(f)
          BY <3>3, <3>4, <4>2, <4>3 DEF Packed
        <4>5. HasAuth(f.cipher) /\ f.cipher.mode = "both"
          BY <1>4, <2>3, <3>3 DEF HasAuth
        <4>6. f.sent["incoming"] \o <<Reply("confirm")>> = AnswersTo(f.cipher.mode)
          BY <1>1, <3>3, <4>5, AnswersFacts
        <4>7. Header(f)
          BY <3>3, <4>4, <4>5, <4>6 DEF Header
        <4>8. Second(r, e, f)
          BY <3>1, <3>7, <4>7 DEF Second, nil
        <4> QED BY <4>8, <3>5 DEF r, e, f, nil
      <3> QED BY <3>6, <3>7
    <2> QED BY <1>3, <2>2, <2>3
  <1> QED BY <1>2, <1>9, <1>10

\* do_handle_client_feedback.
LEMMA ClientFeedback ==
    ASSUME NEW i, NEW o, NEW d, Quiet(i), Unused(o), Greeted(d),
           NEW v \in do_handle_client_feedback(Live(i, o, "client_feedback_coming", d))
    PROVE  Good(v)
  <1> DEFINE st == "client_feedback_coming"
             u == Live(i, o, st, d)
             out(rd) == Got(d, rd).out
             a(rd) == Live(i, o, st, Then(d, rd))
             b(rd) == Live(i, o, st, PkgTo(Then(d, rd), out(rd)))
  <1>1. Calm(i) /\ Calm(o) /\ Blank(d) /\ st \in tunnel_stage
    BY CalmFacts DEF Greeted, tunnel_stage
  <1>2. ASSUME NEW w \in Spoilt(u) PROVE Good(tunnel_shutdown(w))
    <2>1. w = Live(i, o, st, Lost(d))
      BY LiveSpoilt
    <2>2. Good(tunnel_shutdown(Live(i, o, st, Lost(d))))
      BY <1>1, BlankSound, Quit
    <2> QED BY <2>1, <2>2
  <1>3. ASSUME NEW rd \in NextReads(u)
        PROVE  /\ Second(Got(d, rd), Then(d, rd), PkgTo(Then(d, rd), out(rd)))
               /\ Decrypt(u, rd) = Got(d, rd)
               /\ ServerAssert(Taken(u, rd), ~Got(d, rd).obfs_receipt, "receipt") = a(rd)
               /\ DataPkg(a(rd), a(rd).data.pkg \o out(rd)) = b(rd)
    <2>1. /\ Second(Got(d, rd), Then(d, rd), PkgTo(Then(d, rd), out(rd)))
          /\ ~Got(d, rd).obfs_receipt /\ Then(d, rd).pkg = <<>> /\ out(rd) \in Seq(Items)
      BY SecondRead
    <2>2. Decrypt(u, rd) = Got(d, rd) /\ Taken(u, rd) = a(rd)
      BY LiveTaken
    <2>3. DataPkg(a(rd), out(rd)) = b(rd)
      BY LivePkg
    <2>4. a(rd).data = Then(d, rd)
      BY LiveFields
    <2> HIDE DEF a, b, out, u
    <2>5. <<>> \o out(rd) = out(rd)
      BY <2>1, Assoc
    <2>6. ServerAssert(Taken(u, rd), ~Got(d, rd).obfs_receipt, "receipt") = a(rd)
      BY <2>1, <2>2 DEF ServerAssert
    <2> QED BY <2>1, <2>2, <2>3, <2>4, <2>5, <2>6
  <1>4. ASSUME NEW rd \in NextReads(u), Blank(Then(d, rd))
        PROVE  Good(tunnel_shutdown(a(rd)))
    <2> DEFINE e == Then(d, rd)
    <2>1. Blank(e)
      BY <1>4
    <2>2. Sound(o, e)
      BY <2>1, BlankSound
    <2> HIDE DEF e, st
    <2>3. Good(tunnel_shutdown(Live(i, o, st, e)))
      BY <1>1, <2>2, Quit
    <2> QED BY <2>3 DEF e
  <1>5. ASSUME NEW rd \in NextReads(u), Header(PkgTo(Then(d, rd), out(rd)))
        PROVE  Good(GoTo(Write(b(rd), "incoming", <<Reply("confirm")>>), "protocol_confirm_done"))
    <2> DEFINE f == PkgTo(Then(d, rd), out(rd))
    <2>1. Header(f)
      BY <1>5
    <2> HIDE DEF f
    <2>2. /\ Blank(f) /\ HasAuth(f.cipher) /\ (f.pkg = <<>> \/ Packed(f))
          /\ f.sent["incoming"] \o <<Reply("confirm")>> = AnswersTo(f.cipher.mode)
      BY <2>1 DEF Header
    <2>3. Good(GoTo(Write(Live(i, o, st, f), "incoming", <<Reply("confirm")>>), "protocol_confirm_done"))
      BY <2>2, Confirming
    <2> QED BY <2>3 DEF f
  <1>6. ASSUME NEW rd \in NextReads(u), Blank(PkgTo(Then(d, rd), out(rd))),
               Parsable(PkgTo(Then(d, rd), out(rd))), NEW w \in do_prepare_parse(b(rd))
        PROVE  Good(w)
    <2> DEFINE f == PkgTo(Then(d, rd), out(rd))
    <2>1. Blank(f) /\ Parsable(f) /\ w \in do_prepare_parse(Live(i, o, st, f))
      BY <1>6
    <2> HIDE DEF f, st
    <2> QED BY <1>1, <2>1, BlankSound, PrepareParse
  <1>7. v \in do_handle_client_feedback(u)
    OBVIOUS
  <1> HIDE DEF u
  <1>8. \/ \E w \in Spoilt(u) : v = tunnel_shutdown(w)
        \/ \E rd \in NextReads(u) :
              LET r == Decrypt(u, rd)
                  y == ServerAssert(Taken(u, rd), ~r.obfs_receipt, "receipt")
                  z == [y EXCEPT !.data.pkg = @ \o r.out]
              IN  v \in IF r.out = <<>> THEN {tunnel_shutdown(y)}
                        ELSE IF r.proto_confirm
                        THEN {GoTo(Write(z, "incoming", <<Reply("confirm")>>), "protocol_confirm_done")}
                        ELSE do_prepare_parse(z)
    BY <1>7, Zenon DEF do_handle_client_feedback
  <1>9. ASSUME NEW rd \in NextReads(u),
               v \in IF Got(d, rd).out = <<>> THEN {tunnel_shutdown(a(rd))}
                     ELSE IF Got(d, rd).proto_confirm
                     THEN {GoTo(Write(b(rd), "incoming", <<Reply("confirm")>>), "protocol_confirm_done")}
                     ELSE do_prepare_parse(b(rd))
        PROVE  Good(v)
    <2> DEFINE r == Got(d, rd)
               e == Then(d, rd)
               f == PkgTo(Then(d, rd), out(rd))
    <2>1. Second(r, e, f)
      BY <1>3, <1>9
    <2>2. CASE r.out = <<>> /\ Blank(e)
      BY <1>4, <1>9, <2>2
    <2>3. CASE r.out # <<>> /\ r.proto_confirm /\ Header(f)
      BY <1>5, <1>9, <2>3
    <2>4. CASE r.out # <<>> /\ ~r.proto_confirm /\ Blank(f) /\ Parsable(f)
      BY <1>6, <1>9, <2>4
    <2> HIDE DEF r, e, f
    <2> QED BY <2>1, <2>2, <2>3, <2>4 DEF Second
  <1> HIDE DEF a, b, out
  <1>10. ASSUME NEW rd \in NextReads(u)
         PROVE  /\ Decrypt(u, rd) = Got(d, rd)
                /\ ServerAssert(Taken(u, rd), ~Got(d, rd).obfs_receipt, "receipt") = a(rd)
                /\ [a(rd) EXCEPT !.data.pkg = @ \o Got(d, rd).out] = b(rd)
    BY <1>3, <1>10 DEF out, DataPkg
  <1> QED BY <1>2, <1>8, <1>9, <1>10

\* What the client has sent is confirmed: the address is looked at.
LEMMA ConfirmDone ==
    ASSUME NEW i, NEW o, NEW d, Quiet(i), Unused(o), Confirmed(d),
           NEW v \in do_prepare_parse(Live(i, o, "protocol_confirm_done", d))
    PROVE  Good(v)
  <1> DEFINE st == "protocol_confirm_done"
  <1>1. Blank(d) /\ HasAuth(d.cipher) /\ d.sent["incoming"] = AnswersTo(d.cipher.mode)
        /\ (d.pkg = <<>> \/ Packed(d))
    BY DEF Confirmed
  <1>2. d.cipher.mode # "tls"
    BY <1>1 DEF HasAuth
  <1>3. Packed(d) => Parsed(d)
    BY <1>1, <1>2 DEF Parsed
  <1>4. Parsable(d)
    BY <1>1, <1>3 DEF Parsable
  <1>5. Sound(o, d)
    BY <1>1, BlankSound
  <1>6. st \in tunnel_stage
    BY DEF tunnel_stage
  <1>7. v \in do_prepare_parse(Live(i, o, st, d))
    OBVIOUS
  <1> HIDE DEF st
  <1> QED BY <1>4, <1>5, <1>6, <1>7, PrepareParse

\* The receipt has been written: the client's answer is awaited.
LEMMA ReceiptDone ==
    ASSUME NEW i, NEW o, NEW st, NEW d, Quiet(i), Unused(o), Greeted(d)
    PROVE  Good(GoTo(Read(Live(i, o, st, d), "incoming", TRUE), "client_feedback_coming"))
  <1> DEFINE y == TRUE
             no == FALSE
             e == <<>>
             n == "none"
             w == "stop"
             k == socket_ctx_read(i, y)
  <1>1. Sock(i, "stop", w, FALSE, e, TRUE, no, n) /\ y \in BOOLEAN
    BY DEF Quiet
  <1>2. CanRead(i) /\ Sock(k, "busy", w, TRUE, e, TRUE, no, n)
    <2> HIDE DEF no, e, n, w, y
    <2> QED BY <1>1, SockRead
  <1>3. Reading(k)
    BY <1>2 DEF Reading
  <1>4. Read(Live(i, o, st, d), "incoming", y) = Live(k, o, st, d)
    <2> HIDE DEF y
    <2> QED BY <1>2, LiveRead
  <1> HIDE DEF k
  <1>5. GoTo(Live(k, o, st, d), "client_feedback_coming") = Live(k, o, "client_feedback_coming", d)
    BY LiveSet
  <1>6. AtFeedback("client_feedback_coming", k, o, d)
    BY <1>3 DEF AtFeedback
  <1>7. Good(Live(k, o, "client_feedback_coming", d))
    BY <1>6, LiveGood DEF StageOK
  <1> QED BY <1>4, <1>5, <1>7

\* The name is resolved.
LEMMA ResolveDone ==
    ASSUME NEW i, NEW o, NEW st, NEW d, Quiet(i), Unused(o), Dialled(d),
           NEW v \in do_resolve_host_done(Live(i, o, st, d))
    PROVE  Good(v)
  <1> DEFINE u == Live(i, o, st, d)
  <1>1. u.sock["incoming"] = i /\ u.sock["outgoing"] = o
    BY LiveFields
  <1>2. AtRest(i) /\ AtRest(o)
    BY CalmFacts
  <1>3. v \in do_resolve_host_done(u)
    OBVIOUS
  <1>4. ASSUME v \in do_connect_host_start(u) PROVE Good(v)
    BY <1>4, ConnectStart
  <1> HIDE DEF u
  <1>5. \A s \in Side : /\ u.sock[s].rdstate \in {"stop", "done"}
                        /\ u.sock[s].wrstate \in {"stop", "done"}
    BY <1>1, <1>2 DEF AtRest, Side
  <1>6. do_resolve_host_done(u) = do_connect_host_start(u)
    BY <1>5 DEF do_resolve_host_done, ServerAssert
  <1> QED BY <1>3, <1>4, <1>6

-----------------------------------------------------------------------------
(* The beginning of the relaying. *)

\* A socket that reads, while the tunnel relays.
LEMMA FlowRead ==
    ASSUME NEW k, Quiet(k), NEW b \in BOOLEAN
    PROVE  LET n == socket_ctx_read(k, b)
           IN  CanRead(k) /\ Flow(n) /\ n.reading = TRUE /\ n.writes = <<>> /\ Calm(n)
  <1> DEFINE no == FALSE
             e == <<>>
             dn == "none"
             w == "stop"
             n == socket_ctx_read(k, b)
  <1>1. Sock(k, "stop", w, FALSE, e, TRUE, no, dn)
    BY DEF Quiet
  <1>2. CanRead(k) /\ Sock(n, "busy", w, TRUE, e, TRUE, no, dn)
    <2> HIDE DEF no, e, dn, w
    <2> QED BY <1>1, SockRead
  <1> HIDE DEF n
  <1>3. /\ n.rdstate = "busy" /\ n.wrstate = "stop" /\ n.reading = TRUE /\ n.writes = <<>>
    BY <1>2 DEF Sock
  <1>4. Flow(n)
    BY <1>2, <1>3 DEF Flow
  <1>5. Reading(n)
    BY <1>2 DEF Reading
  <1>6. Calm(n)
    BY <1>5, CalmFacts
  <1> QED BY <1>2, <1>3, <1>4, <1>6 DEF n

\* What a tunnel holds that starts to relay.
LEMMA LaunchedStreams ==
    ASSUME NEW i, NEW o, NEW d, Launched(d), Flow(i), Flow(o), i.reading = TRUE,
           o.reading = TRUE, i.writes = <<>>, o.writes = <<>>
    PROVE  AtStreaming("streaming", i, o, d)
  <1>1. d \in ServerCtx /\ Authed(d)
    BY DEF Launched
  <1>2. /\ d.srv = 0 /\ d.closing = FALSE /\ d.begun = FALSE /\ d.valid
        /\ d.sent["outgoing"] = Apps(d.got - HandshakeLen(d))
        /\ d.sent["incoming"] = AnswersTo(d.cipher.mode) /\ d.bad = {} /\ d.udp = NoRelay
    BY DEF Launched
  <1>3. d.cipher.mode \in Modes /\ d.cut \in BOOLEAN
    BY <1>1, CtxFields, ServerModesAssumption
  <1>4. Down(d)
    <2> DEFINE a == AnswersTo(d.cipher.mode)
    <2>1. a \in Seq(Items)
      BY <1>3, AnswersFacts
    <2>2. Downs(d.cipher.mode, d.srv) = <<>>
      BY <1>2, DownsStep
    <2>3. (a \o <<>>) \o <<>> = a
      <3> HIDE DEF a
      <3>1. a \o <<>> = a
        BY <2>1, Assoc
      <3> QED BY <3>1
    <2> HIDE DEF a
    <2>4. a \o Downs(d.cipher.mode, d.srv) \o (IF d.closing THEN <<Reply("close")>> ELSE <<>>) = a
      BY <1>2, <2>2, <2>3
    <2>5. ~(d.srv > 0)
      BY <1>2
    <2> QED BY <1>2, <2>4, <2>5 DEF Down, a
  <1>5. Len(i.writes) <= d.srv + One(d.closing)
    <2>1. Len(i.writes) = 0 /\ One(d.closing) = 0
      BY <1>2 DEF One
    <2> QED BY <1>2, <2>1
  <1>6. Len(o.writes) <= 2 * (d.got - HandshakeLen(d)) + One(d.cut) + One(~d.valid)
    <2> DEFINE n == d.got - HandshakeLen(d)
               x == One(d.cut)
    <2>1. Len(o.writes) = 0 /\ One(~d.valid) = 0
      BY <1>2 DEF One
    <2>2. n \in Nat
      BY <1>1, AuthedCount
    <2>3. x \in Nat
      BY DEF One
    <2> HIDE DEF n, x
    <2>4. 0 <= 2 * n + x + 0
      BY <2>2, <2>3
    <2> QED BY <2>1, <2>4 DEF n, x
  <1>7. o.reading = ~d.closing
    BY <1>2
  <1> QED BY <1>1, <1>2, <1>4, <1>5, <1>6, <1>7 DEF AtStreaming

\* Both sides are read from now on.
LEMMA StartStreaming ==
    ASSUME NEW i, NEW o, NEW st, NEW d, Quiet(i), Quiet(o), Launched(d)
    PROVE  Good(GoTo(Read(Read(Live(i, o, st, d), "incoming", FALSE), "outgoing", TRUE),
                     "streaming"))
  <1> DEFINE no == FALSE
             y == TRUE
             j == socket_ctx_read(i, no)
             k == socket_ctx_read(o, y)
  <1>1. no \in BOOLEAN /\ y \in BOOLEAN
    OBVIOUS
  <1> HIDE DEF no, y
  <1>2. /\ CanRead(i) /\ Flow(j) /\ j.reading = TRUE /\ j.writes = <<>>
        /\ CanRead(o) /\ Flow(k) /\ k.reading = TRUE /\ k.writes = <<>>
    BY <1>1, FlowRead
  <1>3. Read(Live(i, o, st, d), "incoming", no) = Live(j, o, st, d)
    BY <1>2, LiveRead
  <1> HIDE DEF j
  <1>4. Read(Live(j, o, st, d), "outgoing", y) = Live(j, k, st, d)
    BY <1>2, LiveRead
  <1> HIDE DEF k
  <1>5. GoTo(Live(j, k, st, d), "streaming") = Live(j, k, "streaming", d)
    BY LiveSet
  <1>6. AtStreaming("streaming", j, k, d)
    BY <1>2, LaunchedStreams
  <1>7. Good(Live(j, k, "streaming", d))
    BY <1>6, LiveGood DEF StageOK
  <1> QED BY <1>3, <1>4, <1>5, <1>7 DEF no, y

\* do_launch_streaming.
LEMMA LaunchStreaming ==
    ASSUME NEW i, NEW o, NEW st, NEW d, Quiet(i), Launched(d), o.rdstate = "stop",
           o.wrstate = "done", Quiet(WrStop(o))
    PROVE  Good(do_launch_streaming(Live(i, o, st, d)))
  <1> DEFINE u == Live(i, o, st, d)
             k == WrStop(o)
             a == Live(i, k, st, d)
  <1>1. u.sock["incoming"] = i /\ u.sock["outgoing"] = o
    BY LiveFields
  <1>2. i.rdstate = "stop" /\ i.wrstate = "stop"
    BY DEF Quiet, Sock
  <1>3. Put(u, "outgoing", k) = a
    BY LivePut
  <1>4. Good(GoTo(Read(Read(a, "incoming", FALSE), "outgoing", TRUE), "streaming"))
    <2> HIDE DEF k
    <2>1. Quiet(k)
      BY DEF k
    <2> QED BY <2>1, StartStreaming
  <1> HIDE DEF u, a
  <1>5. /\ \A s \in Side : u.sock[s].rdstate = "stop"
        /\ u.sock["incoming"].wrstate = "stop" /\ u.sock["outgoing"].wrstate = "done"
    BY <1>1, <1>2 DEF Side
  <1>6. do_launch_streaming(u)
          = GoTo(Read(Read(Put(u, "outgoing", k), "incoming", FALSE), "outgoing", TRUE),
                 "streaming")
    BY <1>1, <1>5 DEF do_launch_streaming, ServerAssert, WrStop
  <1> QED BY <1>3, <1>4, <1>6 DEF u

\* The upgrade is confirmed to the client.
LEMMA Upgrade ==
    ASSUME NEW i, NEW o, NEW st, NEW d, Quiet(i), Quiet(o), Dialled(d), d.cipher.mode = "tls"
    PROVE  Good(do_tls_client_feedback(Live(i, o, st, d)))
  <1> DEFINE q == <<Reply("upgrade")>>
             e == SaidIn(d, q)
             k == socket_ctx_write(i, q)
  <1>1. q \in Seq(Items) /\ d \in ServerCtx /\ <<>> \o q = q /\ AnswersTo("tls") = q
    <2>1. q \in Seq(Items) /\ AnswersTo("tls") = q
      BY AnswersFacts DEF Modes
    <2> HIDE DEF q
    <2> QED BY <2>1, Assoc DEF Dialled, Blank
  <1>2. /\ Write(Live(i, o, st, d), "incoming", q) = Live(k, o, st, e) /\ Writing(k)
    <2> HIDE DEF q
    <2> QED BY <1>1, SayIn
  <1>3. GoTo(Live(k, o, st, e), "tls_client_feedback") = Live(k, o, "tls_client_feedback", e)
    <2> HIDE DEF k, e
    <2> QED BY LiveSet
  <1>4. /\ e \in ServerCtx /\ e.cipher = d.cipher /\ e.udp = d.udp /\ e.pkg = d.pkg
        /\ e.begun = d.begun /\ e.closing = d.closing /\ e.got = d.got /\ e.cut = d.cut
        /\ e.valid = d.valid /\ e.srv = d.srv /\ e.bad = d.bad
        /\ e.sent["incoming"] = d.sent["incoming"] \o q
        /\ e.sent["outgoing"] = d.sent["outgoing"]
    <2> HIDE DEF q
    <2> QED BY <1>1, CtxSaidIn
  <1> HIDE DEF e, k
  <1>5. HandshakeLen(e) = HandshakeLen(d) /\ Authed(e)
    BY <1>4, AuthedSame DEF Dialled
  <1>6. /\ d.bad = {} /\ d.udp = NoRelay /\ d.valid /\ d.begun = FALSE /\ d.closing = FALSE
        /\ d.srv = 0 /\ d.got = 1 /\ d.sent["outgoing"] = <<>> /\ d.sent["incoming"] = <<>>
    BY DEF Dialled, Blank
  <1>7. e.sent["incoming"] = AnswersTo(e.cipher.mode)
    <2> HIDE DEF q
    <2> QED BY <1>1, <1>4, <1>6
  <1>8. e.sent["outgoing"] = Apps(e.got - HandshakeLen(e))
    <2>1. HandshakeLen(d) = 1
      <3>1. "tls" \in Modes
        BY DEF Modes
      <3> QED BY <3>1, HandFacts DEF HandshakeLen
    <2>2. e.got - HandshakeLen(e) = 0
      BY <1>4, <1>5, <1>6, <2>1
    <2> QED BY <1>4, <1>6, <2>2, DownsStep
  <1>9. Launched(e)
    BY <1>4, <1>5, <1>6, <1>7, <1>8 DEF Launched
  <1>10. AtUpgrade("tls_client_feedback", k, o, e)
    BY <1>2, <1>4, <1>9 DEF AtUpgrade
  <1>11. Good(Live(k, o, "tls_client_feedback", e))
    BY <1>10, LiveGood DEF StageOK
  <1> QED BY <1>2, <1>3, <1>11 DEF do_tls_client_feedback

\* The data that came with the address is written to the target.
LEMMA DialledLaunch ==
    ASSUME NEW d, Dialled(d), d.cipher.mode # "tls"
    PROVE  /\ d \in ServerCtx /\ d.pkg \in Seq(Items) /\ Launched(SaidOut(d, d.pkg))
           /\ d.pkg = <<>> => Launched(d)
  <1> DEFINE q == d.pkg
             e == SaidOut(d, q)
  <1>1. /\ d \in ServerCtx /\ d.bad = {} /\ d.udp = NoRelay /\ d.valid /\ d.begun = FALSE
        /\ d.closing = FALSE /\ d.srv = 0 /\ d.sent["outgoing"] = <<>> /\ Authed(d)
        /\ q = Apps(d.got - HandshakeLen(d))
        /\ d.sent["incoming"] = AnswersTo(d.cipher.mode)
    BY DEF Dialled, Blank
  <1>2. q \in Seq(Items) /\ <<>> \o q = q
    <2>1. q \in Seq(Items)
      BY <1>1, CtxFields
    <2> HIDE DEF q
    <2> QED BY <2>1, Assoc
  <1>3. /\ e \in ServerCtx /\ e.cipher = d.cipher /\ e.udp = d.udp
        /\ e.begun = d.begun /\ e.closing = d.closing /\ e.got = d.got
        /\ e.valid = d.valid /\ e.srv = d.srv /\ e.bad = d.bad
        /\ e.sent["incoming"] = d.sent["incoming"]
        /\ e.sent["outgoing"] = d.sent["outgoing"] \o q
    BY <1>1, <1>2, CtxSaidOut
  <1>4. HandshakeLen(e) = HandshakeLen(d) /\ Authed(e)
    BY <1>1, <1>3, AuthedSame
  <1> HIDE DEF e
  <1>5. e.sent["outgoing"] = Apps(e.got - HandshakeLen(e))
    BY <1>1, <1>2, <1>3, <1>4
  <1>6. Launched(e)
    BY <1>1, <1>3, <1>4, <1>5 DEF Launched
  <1>7. q = <<>> => Launched(d)
    BY <1>1 DEF Launched
  <1> QED BY <1>1, <1>2, <1>6, <1>7 DEF e


\* do_connect_host_done.
LEMMA ConnectDone ==
    ASSUME NEW i, NEW o, NEW st, NEW d, Quiet(i), Quiet(o), Dialled(d),
           NEW v \in do_connect_host_done(Live(i, o, st, d))
    PROVE  Good(v)
  <1> DEFINE u == Live(i, o, st, d)
             k == WrDone(o)
             w == socket_ctx_write(o, d.pkg)
  <1>1. AtRest(i) /\ AtRest(o)
    BY CalmFacts
  <1>2. Idle(u) = u
    BY <1>1, LiveIdle
  <1>3. u.data = d /\ u.sock["outgoing"] = o
    BY LiveFields
  <1>4. v \in do_connect_host_done(u)
    OBVIOUS
  <1>5. CASE d.cipher.mode = "tls"
    <2>1. d.pkg = <<>>
      <3>1. HandshakeLen(d) = 1 /\ d.got = 1 /\ d.pkg = Apps(d.got - HandshakeLen(d))
        <4>1. "tls" \in Modes
          BY DEF Modes
        <4>2. HandshakeLen(d) = 1
          BY <1>5, <4>1, HandFacts DEF HandshakeLen
        <4> QED BY <1>5, <4>2 DEF Dialled
      <3>2. d.got - HandshakeLen(d) = 0
        BY <3>1
      <3> QED BY <3>1, <3>2, DownsStep
    <2>2. Good(do_tls_client_feedback(u))
      BY <1>5, Upgrade
    <2> HIDE DEF u
    <2>3. v = do_tls_client_feedback(u)
      BY <1>2, <1>3, <1>4, <1>5, <2>1 DEF do_connect_host_done, ServerAssert
    <2> QED BY <2>2, <2>3
  <1>6. CASE d.cipher.mode # "tls" /\ d.pkg # <<>>
    <2> DEFINE e == SaidOut(d, d.pkg)
    <2>1. d \in ServerCtx /\ d.pkg \in Seq(Items) /\ Launched(e)
      BY <1>6, DialledLaunch
    <2>2. Write(u, "outgoing", d.pkg) = Live(i, w, st, e) /\ Writing(w)
      BY <2>1, SayOut
    <2> HIDE DEF w, e
    <2>3. GoTo(Live(i, w, st, e), "launch_streaming") = Live(i, w, "launch_streaming", e)
      BY LiveSet
    <2>4. AtLaunch("launch_streaming", i, w, e)
      BY <2>1, <2>2 DEF AtLaunch
    <2>5. Good(Live(i, w, "launch_streaming", e))
      BY <2>4, LiveGood DEF StageOK
    <2> HIDE DEF u
    <2>6. v = GoTo(Write(u, "outgoing", d.pkg), "launch_streaming")
      BY <1>2, <1>3, <1>4, <1>6 DEF do_connect_host_done
    <2> QED BY <2>2, <2>3, <2>5, <2>6
  <1>7. CASE d.cipher.mode # "tls" /\ d.pkg = <<>>
    <2>1. Launched(d)
      BY <1>7, DialledLaunch
    <2>2. Put(u, "outgoing", k) = Live(i, k, st, d)
      BY LivePut
    <2>3. k.rdstate = "stop" /\ k.wrstate = "done" /\ Quiet(WrStop(k))
      <3> DEFINE rd == "stop"
                 no == FALSE
                 e == <<>>
                 y == TRUE
                 dn == "none"
                 x == "done"
                 wr == "stop"
      <3>1. Sock(o, rd, wr, no, e, y, no, dn) /\ x \in {"stop", "busy", "done"}
        BY DEF Quiet
      <3>2. Sock([o EXCEPT !.wrstate = x], rd, x, no, e, y, no, dn)
        <4> HIDE DEF rd, no, e, y, dn, x, wr
        <4> QED BY <3>1, SockDone
      <3>3. Sock(k, rd, x, no, e, y, no, dn)
        BY <3>2 DEF WrDone
      <3> HIDE DEF k
      <3>4. Sock(WrStop(k), rd, "stop", no, e, y, no, dn)
        <4> HIDE DEF rd, no, e, y, dn, x
        <4> QED BY <3>3, SockStop
      <3>5. k.rdstate = "stop" /\ k.wrstate = "done"
        BY <3>3 DEF Sock
      <3> QED BY <3>4, <3>5 DEF Quiet
    <2> HIDE DEF k
    <2>4. Good(do_launch_streaming(Live(i, k, st, d)))
      BY <2>1, <2>3, LaunchStreaming
    <2> HIDE DEF u
    <2>5. v = do_launch_streaming(Put(u, "outgoing", k))
      BY <1>2, <1>3, <1>4, <1>7 DEF do_connect_host_done, WrDone, k
    <2> QED BY <2>2, <2>4, <2>5
  <1> QED BY <1>5, <1>6, <1>7

\* do_tls_launch_streaming.
LEMMA TlsLaunch ==
    ASSUME NEW i, NEW o, NEW st, NEW d, Quiet(i), Quiet(o), Launched(d)
    PROVE  Good(do_tls_launch_streaming(Live(i, o, st, d)))
  <1>1. AtRest(i) /\ AtRest(o)
    BY CalmFacts
  <1>2. Idle(Live(i, o, st, d)) = Live(i, o, st, d)
    BY <1>1, LiveIdle
  <1> QED BY <1>2, StartStreaming DEF do_tls_launch_streaming

\* do_normal_response.
LEMMA NormalResponse ==
    ASSUME NEW i, NEW o, NEW st, NEW d, Quiet(i), Unused(o), d \in ServerCtx, d.bad = {},
           d.udp = NoRelay, d.sent["outgoing"] = <<>>
    PROVE  Good(do_normal_response(Live(i, o, st, d)))
  <1> DEFINE q == <<Reply("page")>>
             e == SaidIn(d, q)
             k == socket_ctx_write(i, q)
  <1>1. q \in Seq(Items)
    <2>1. Reply("page") \in Items
      BY ItemsFacts
    <2> QED BY <2>1
  <1> HIDE DEF q
  <1>2. Write(Live(i, o, st, d), "incoming", q) = Live(k, o, st, e) /\ Writing(k)
    BY <1>1, SayIn
  <1>3. /\ e \in ServerCtx /\ e.udp = d.udp /\ e.bad = d.bad
        /\ e.sent["outgoing"] = d.sent["outgoing"]
    BY <1>1, CtxSaidIn
  <1> HIDE DEF e, k
  <1>4. GoTo(Live(k, o, st, e), "normal_response") = Live(k, o, "normal_response", e)
    BY LiveSet
  <1>5. AtPage("normal_response", k, o, e)
    BY <1>2, <1>3 DEF AtPage
  <1>6. Good(Live(k, o, "normal_response", e))
    BY <1>5, LiveGood DEF StageOK
  <1> QED BY <1>2, <1>4, <1>6 DEF do_normal_response, q

\* A datagram is asked for.
DataAsk(u, q, r) == [u EXCEPT !.data.pkg = q, !.data.udp = r]

\* On a live tunnel.
LEMMA LiveAsk ==
    ASSUME NEW i, NEW o, NEW st, NEW d, NEW q, NEW r
    PROVE  DataAsk(Live(i, o, st, d), q, r) = Live(i, o, st, AskTo(d, q, r))
  <1> DEFINE u == Live(i, o, st, d)
  <1>1. u.data = d
    BY LiveFields
  <1>2. SetData(u, AskTo(d, q, r)) = Live(i, o, st, AskTo(d, q, r))
    BY LiveSet
  <1> HIDE DEF u
  <1>3. DataAsk(u, q, r) = SetData(u, AskTo(d, q, r))
    BY <1>1 DEF SetData, DataAsk, AskTo
  <1> QED BY <1>2, <1>3 DEF u

\* A relay that is launched is as it should be.
LEMMA LaunchRelay ==
    /\ udp_remote_launch_begin \in Remote /\ udp_remote_launch_begin.on
    /\ RelayOK(udp_remote_launch_begin, FALSE, FALSE)
  BY DEF udp_remote_launch_begin, Remote, RelayOK, One

\* The upgrade with a datagram is confirmed to the client.
LEMMA UdpUpgrade ==
    ASSUME NEW i, NEW o, NEW st, NEW d, Quiet(i), Unused(o), Blank(d), d.cipher.mode = "tls",
           d.got = 1, d.sent["incoming"] = <<>>
    PROVE  Good(do_tls_client_feedback(Live(i, o, st,
                    AskTo(d, <<Datagram>>, udp_remote_launch_begin))))
  <1> DEFINE p == <<Datagram>>
             r == udp_remote_launch_begin
             f == AskTo(d, p, r)
             q == <<Reply("upgrade")>>
             e == SaidIn(f, q)
             k == socket_ctx_write(i, q)
             m == "tls"
  <1>1. q \in Seq(Items) /\ AnswersTo(m) = q /\ p \in Seq(Items) /\ m \in Modes
    <2>1. q \in Seq(Items) /\ AnswersTo("tls") = q
      BY AnswersFacts DEF Modes
    <2>2. Datagram \in Items
      BY ItemsFacts
    <2>3. m \in Modes
      BY DEF Modes
    <2> QED BY <2>1, <2>2, <2>3
  <1>2. q \o <<>> = q /\ <<>> \o q = q
    <2> HIDE DEF q
    <2> QED BY <1>1, Assoc
  <1>3. /\ d \in ServerCtx /\ d.bad = {} /\ d.valid /\ d.begun = FALSE /\ d.closing = FALSE
        /\ d.srv = 0 /\ d.sent["outgoing"] = <<>>
    BY DEF Blank
  <1>4. r \in Remote /\ r.on /\ RelayOK(r, FALSE, FALSE)
    BY LaunchRelay
  <1> HIDE DEF r
  <1>5. /\ f \in ServerCtx /\ f.cipher = d.cipher /\ f.udp = r /\ f.pkg = p
        /\ f.begun = d.begun /\ f.closing = d.closing /\ f.got = d.got
        /\ f.valid = d.valid /\ f.srv = d.srv /\ f.bad = d.bad /\ f.sent = d.sent
    <2>1. p \in Seq(Items) /\ d \in ServerCtx /\ r \in Remote
      BY <1>1, <1>3, <1>4
    <2> HIDE DEF p
    <2> QED BY <2>1, CtxAsk
  <1> HIDE DEF f
  <1>6. Write(Live(i, o, st, f), "incoming", q) = Live(k, o, st, e) /\ Writing(k)
    <2> HIDE DEF q
    <2> QED BY <1>1, <1>5, SayIn
  <1>7. /\ e \in ServerCtx /\ e.cipher = f.cipher /\ e.udp = f.udp /\ e.pkg = f.pkg
        /\ e.begun = f.begun /\ e.closing = f.closing /\ e.got = f.got /\ e.cut = f.cut
        /\ e.valid = f.valid /\ e.srv = f.srv /\ e.bad = f.bad
        /\ e.sent["incoming"] = f.sent["incoming"] \o q
        /\ e.sent["outgoing"] = f.sent["outgoing"]
    <2> HIDE DEF q
    <2> QED BY <1>1, <1>5, CtxSaidIn
  <1> HIDE DEF e, k
  <1>8. GoTo(Live(k, o, st, e), "tls_client_feedback") = Live(k, o, "tls_client_feedback", e)
    BY LiveSet
  <1>9. HandshakeLen(e) = 1
    BY <1>1, <1>5, <1>7, HandFacts DEF HandshakeLen
  <1>10. Authed(e)
    <2>1. e.got = 1 /\ MaxData \in Nat
      BY <1>5, <1>7, MaxDataAssumption
    <2>2. e.got >= HandshakeLen(e) /\ e.got <= HandshakeLen(e) + MaxData
      BY <1>9, <2>1
    <2>3. ~HasObfs(e.cipher) /\ ~HasAuth(e.cipher)
      BY <1>5, <1>7 DEF HasObfs, HasAuth
    <2> QED BY <2>2, <2>3 DEF Authed
  <1>11. Down(e)
    <2>1. e.sent["incoming"] = q /\ e.cipher.mode = m /\ e.srv = 0 /\ e.closing = FALSE
          /\ e.begun = FALSE
      <3> HIDE DEF q
      <3> QED BY <1>2, <1>3, <1>5, <1>7
    <2>2. Downs(m, 0) = <<>>
      BY DownsStep
    <2> DEFINE x == q \o <<>>
    <2>3. x \o <<>> = q /\ x = q
      <3> HIDE DEF q
      <3> QED BY <1>2
    <2> HIDE DEF q, x
    <2>4. e.sent["incoming"] = AnswersTo(e.cipher.mode) \o Downs(e.cipher.mode, e.srv)
                                \o (IF e.closing THEN <<Reply("close")>> ELSE <<>>)
      BY <1>1, <2>1, <2>2, <2>3 DEF x
    <2>5. ~(e.srv > 0)
      BY <2>1
    <2> QED BY <2>1, <2>4, <2>5 DEF Down
  <1>12. Relaying(e)
    BY <1>3, <1>4, <1>5, <1>7, <1>10, <1>11 DEF Relaying
  <1>13. AtUdpUpgrade("tls_client_feedback", k, o, e)
    <2>1. Busy(k) /\ Len(k.writes) <= e.srv + 1
      <3>1. Busy(k) /\ Len(k.writes) = 1 /\ e.srv = 0
        BY <1>3, <1>5, <1>6, <1>7 DEF Writing
      <3> QED BY <3>1
    <2>2. e.got = 1 /\ e.pkg = <<Datagram>> /\ e.sent["outgoing"] = <<>> /\ e.valid
      BY <1>3, <1>5, <1>7
    <2> QED BY <1>12, <2>1, <2>2 DEF AtUdpUpgrade
  <1>14. Good(Live(k, o, "tls_client_feedback", e))
    BY <1>13, LiveGood DEF StageOK
  <1> QED BY <1>6, <1>8, <1>14 DEF do_tls_client_feedback, f, r

\* The first read over TLS.
LEMMA FirstTls ==
    ASSUME NEW i, NEW o, NEW d, New(d), NEW rd \in NextReads(Live(i, o, "initial", d)),
           d.cipher.mode = "tls"
    PROVE  LET e == Then(d, rd)
           IN  /\ Blank(e) /\ e.cipher.mode = "tls" /\ rd.n \in {0, 1} /\ e.got = rd.n
               /\ e.sent["incoming"] = <<>>
               /\ rd.n = 1 => Blank(PkgTo(e, <<Address>>)) /\ Parsed(PkgTo(e, <<Address>>))
  <1> DEFINE st == "initial"
             c == d.cipher
             q == Came(d, rd)
             e == Then(d, rd)
             p == <<Address>>
             f == PkgTo(e, p)
             n == rd.n
  <1>1. d \in ServerCtx /\ Blank(d) /\ d.got = 0 /\ d.sent["incoming"] = <<>>
    BY DEF New, Blank
  <1>2. c \in CipherCtx /\ n \in 0 .. MaxData + 4 /\ n \in Nat /\ rd.cut \in BOOLEAN
    BY <1>1, ReadBounds
  <1>3. n \in {0, 1}
    <2>1. n <= 1
      <3>1. c.mode = "tls" /\ st = "initial" => n <= 1
        BY <1>1, LiveReads
      <3> QED BY <3>1
    <2> QED BY <1>2, <2>1
  <1>4. ~HasObfs(c) /\ ~HasAuth(c)
    BY DEF HasObfs, HasAuth
  <1>5. Got(d, rd).ctx = c
    <2>1. Got(d, rd) = tunnel_cipher_server_decrypt(c, q, rd.cut)
      BY <1>1, CameFacts
    <2>2. Accepted(c)
      BY <1>4 DEF Accepted
    <2> HIDE DEF q
    <2>3. Passes(Got(d, rd), c, q \o Cut(c, rd.cut))
      BY <2>1, <2>2, DecryptOpen
    <2> QED BY <2>3 DEF Passes
  <1>6. p \in Seq(Items)
    <2>1. Address \in Items
      BY ItemsFacts
    <2> QED BY <2>1
  <1>7. /\ Blank(e) /\ e.cipher = c /\ e.got = n /\ e.sent["incoming"] = d.sent["incoming"]
        /\ Blank(f) /\ f.cipher = c /\ f.got = n /\ f.pkg = p
        /\ f.sent["incoming"] = d.sent["incoming"]
    <2>1. e = TookTo(d, c, n, rd.cut) /\ f = PkgTo(e, p)
      BY <1>5 DEF Then
    <2> HIDE DEF e, f, n, c, p
    <2> QED BY <1>1, <1>2, <1>6, <2>1, ReadBlank
  <1> HIDE DEF e, f
  <1>8. ASSUME n = 1 PROVE Parsed(f)
    <2>1. HandshakeLen(f) = 1
      <3>1. "tls" \in Modes
        BY DEF Modes
      <3> QED BY <1>7, <3>1, HandFacts DEF HandshakeLen
    <2>2. f.got - HandshakeLen(f) = 0 /\ f.got = 1
      BY <1>7, <1>8, <2>1
    <2>3. f.got >= HandshakeLen(f) /\ f.got <= HandshakeLen(f) + MaxData
      <3>1. MaxData \in Nat
        BY MaxDataAssumption
      <3> QED BY <2>1, <2>2, <3>1
    <2>4. Authed(f)
      BY <1>4, <1>7, <2>3 DEF Authed
    <2>5. p \o <<>> = p /\ Apps(0) = <<>>
      <3> HIDE DEF p
      <3> QED BY <1>6, Assoc, DownsStep
    <2>6. Packed(f)
      BY <1>7, <2>2, <2>4, <2>5 DEF Packed
    <2> QED BY <1>1, <1>7, <2>2, <2>6 DEF Parsed
  <1> QED BY <1>1, <1>3, <1>7, <1>8 DEF e, f

\* do_tls_init_package.
LEMMA TlsInitPackage ==
    ASSUME NEW i, NEW o, NEW d, Quiet(i), Unused(o), New(d), d.cipher.mode = "tls",
           NEW v \in do_tls_init_package(Live(i, o, "initial", d))
    PROVE  Good(v)
  <1> DEFINE st == "initial"
             u == Live(i, o, st, d)
             a(rd) == Live(i, o, st, Then(d, rd))
             b(rd) == Live(i, o, st, PkgTo(Then(d, rd), <<Address>>))
             z(rd) == Live(i, o, st, AskTo(Then(d, rd), <<Datagram>>, udp_remote_launch_begin))
  <1>1. Blank(d) /\ st \in tunnel_stage
    BY DEF New, tunnel_stage
  <1>2. ASSUME NEW w \in Spoilt(u) PROVE Good(do_normal_response(w))
    <2>1. w = Live(i, o, st, Lost(d))
      BY LiveSpoilt
    <2> DEFINE e == Lost(d)
    <2>2. Sound(o, e)
      BY <1>1, BlankSound
    <2>3. e \in ServerCtx /\ e.bad = {} /\ e.udp = NoRelay
      BY <2>2 DEF Sound
    <2>4. e.sent["outgoing"] = <<>>
      <3> DEFINE no == FALSE
      <3>1. no \in BOOLEAN /\ e = ValidTo(d, no) /\ d \in ServerCtx
        BY <1>1 DEF Lost, Blank
      <3> HIDE DEF no, e
      <3>2. e.sent = d.sent
        BY <3>1, CtxValid
      <3> QED BY <1>1, <3>2 DEF Blank
    <2> HIDE DEF e
    <2>5. Good(do_normal_response(Live(i, o, st, e)))
      BY <2>3, <2>4, NormalResponse
    <2> QED BY <2>1, <2>5 DEF e
  <1>3. ASSUME NEW rd \in NextReads(u)
        PROVE  /\ Taken(u, rd) = a(rd) /\ DataPkg(a(rd), <<Address>>) = b(rd)
               /\ DataAsk(a(rd), <<Datagram>>, udp_remote_launch_begin) = z(rd)
    BY LiveTaken, LivePkg, LiveAsk
  <1>4. ASSUME NEW rd \in NextReads(u) PROVE Good(do_normal_response(a(rd)))
    <2> DEFINE e == Then(d, rd)
    <2>1. Blank(e)
      BY FirstTls
    <2> HIDE DEF e
    <2>2. /\ e \in ServerCtx /\ e.bad = {} /\ e.udp = NoRelay /\ e.sent["outgoing"] = <<>>
      BY <2>1 DEF Blank
    <2>3. Good(do_normal_response(Live(i, o, st, e)))
      BY <2>2, NormalResponse
    <2> QED BY <2>3 DEF e
  <1>5. ASSUME NEW rd \in NextReads(u), rd.n # 0, NEW w \in do_prepare_parse(b(rd))
        PROVE  Good(w)
    <2> DEFINE f == PkgTo(Then(d, rd), <<Address>>)
    <2>1. Blank(f) /\ Parsed(f)
      BY <1>5, FirstTls
    <2>2. w \in do_prepare_parse(Live(i, o, st, f))
      BY <1>5
    <2> HIDE DEF f, st
    <2> QED BY <1>1, <2>1, <2>2, BlankSound, PrepareParse DEF Parsable
  <1>6. ASSUME NEW rd \in NextReads(u), rd.n # 0
        PROVE  Good(do_tls_client_feedback(z(rd)))
    <2> DEFINE e == Then(d, rd)
    <2>1. /\ Blank(e) /\ e.cipher.mode = "tls" /\ e.got = 1 /\ e.sent["incoming"] = <<>>
      BY <1>6, FirstTls
    <2> HIDE DEF e
    <2>2. Good(do_tls_client_feedback(Live(i, o, st,
                  AskTo(e, <<Datagram>>, udp_remote_launch_begin))))
      BY <2>1, UdpUpgrade
    <2> QED BY <2>2 DEF e
  <1>7. v \in do_tls_init_package(u)
    OBVIOUS
  <1> HIDE DEF u
  <1>8. \/ \E w \in Spoilt(u) : v = do_normal_response(w)
        \/ \E rd \in NextReads(u) :
              v \in IF rd.n = 0 THEN {do_normal_response(Taken(u, rd))}
                    ELSE (IF "tcp" \in Requests
                          THEN do_prepare_parse([Taken(u, rd) EXCEPT !.data.pkg = <<Address>>])
                          ELSE {})
                         \cup (IF "udp" \in Requests
                               THEN {do_tls_client_feedback([Taken(u, rd) EXCEPT
                                       !.data.pkg = <<Datagram>>,
                                       !.data.udp = udp_remote_launch_begin])}
                               ELSE {})
    BY <1>7, Zenon DEF do_tls_init_package
  <1>9. \/ \E w \in Spoilt(u) : v = do_normal_response(w)
        \/ \E rd \in NextReads(u) :
              \/ v = do_normal_response(Taken(u, rd))
              \/ rd.n # 0 /\ v \in do_prepare_parse(DataPkg(Taken(u, rd), <<Address>>))
              \/ rd.n # 0 /\ v = do_tls_client_feedback(
                                   DataAsk(Taken(u, rd), <<Datagram>>, udp_remote_launch_begin))
    <2> DEFINE P(rd) == DataPkg(Taken(u, rd), <<Address>>)
               Q(rd) == DataAsk(Taken(u, rd), <<Datagram>>, udp_remote_launch_begin)
    <2>1. ASSUME NEW rd,
                 v \in IF rd.n = 0 THEN {do_normal_response(Taken(u, rd))}
                       ELSE (IF "tcp" \in Requests THEN do_prepare_parse(P(rd)) ELSE {})
                         \cup (IF "udp" \in Requests
                               THEN {do_tls_client_feedback(Q(rd))} ELSE {})
          PROVE  \/ v = do_normal_response(Taken(u, rd))
                 \/ rd.n # 0 /\ v \in do_prepare_parse(P(rd))
                 \/ rd.n # 0 /\ v = do_tls_client_feedback(Q(rd))
      <3> HIDE DEF P, Q
      <3> QED BY <2>1
    <2> QED BY <1>8, <2>1, Zenon DEF DataPkg, DataAsk
  <1> HIDE DEF a, b, z
  <1> QED BY <1>2, <1>3, <1>4, <1>5, <1>6, <1>9

-----------------------------------------------------------------------------
(* Events of a live tunnel. *)

\* The end of a tunnel does not matter to its relay at once.
LEMMA RelayMono ==
    ASSUME NEW r, NEW g, RelayOK(r, FALSE, g)
    PROVE  RelayOK(r, TRUE, g)
  BY DEF RelayOK

\* The bounds of the queues.
LEMMA ShortBounds ==
    ASSUME NEW d \in ServerCtx, NEW k, k.writes \in Seq(Payload)
    PROVE  /\ Len(k.writes) <= d.srv + One(d.closing) => Short(k)
           /\ Len(k.writes) <= d.srv + 1 => Short(k)
           /\ Authed(d) /\ Len(k.writes) <= 2 * (d.got - HandshakeLen(d)) + One(d.cut)
                                            + One(~d.valid) => Short(k)
  <1> DEFINE n == Len(k.writes)
             a == d.srv
             m == MaxData
             h == d.got - HandshakeLen(d)
             x == One(d.closing)
             y == One(d.cut)
             z == One(~d.valid)
  <1>1. n \in Nat /\ a \in 0 .. m /\ m \in Nat
    BY CtxFields, MaxDataAssumption
  <1>2. x \in {0, 1} /\ y \in {0, 1} /\ z \in {0, 1}
    BY DEF One
  <1>3. Authed(d) => h \in Nat /\ h <= m
    BY AuthedCount
  <1> HIDE DEF n, a, h, x, y, z
  <1>4. n <= a + x => n <= 2 * m + 2
    BY <1>1, <1>2
  <1>5. n <= a + 1 => n <= 2 * m + 2
    BY <1>1
  <1>6. ASSUME Authed(d), n <= 2 * h + y + z PROVE n <= 2 * m + 2
    <2> HIDE DEF m
    <2>1. h \in Nat /\ h <= m
      BY <1>3, <1>6
    <2> QED BY <1>1, <1>2, <1>6, <2>1
  <1> QED BY <1>4, <1>5, <1>6 DEF Short, n, a, h, x, y, z

\* A socket of a relaying tunnel is open.
LEMMA FlowFacts ==
    ASSUME NEW k
    PROVE  /\ Flow(k) => k \in OpenSocket /\ k.writes \in Seq(Payload)
           /\ Busy(k) => k \in OpenSocket /\ k.writes \in Seq(Payload)
  BY DEF Flow, Busy, Sock, OpenSocket

\* Whatever its stage, a live tunnel may be shut down.
LEMMA StageOver ==
    ASSUME NEW st, NEW i, NEW o, NEW d, StageOK(st, i, o, d)
    PROVE  /\ i \in OpenSocket /\ o \in OpenSocket /\ st \in tunnel_stage
           /\ d \in ServerCtx /\ Over(i, o, FALSE, d)
  <1>1. NoRelay.on = FALSE /\ RelayOK(NoRelay, TRUE, FALSE)
    BY DEF NoRelay, RelayOK
  <1>2. ASSUME Calm(i), Calm(o), Sound(o, d), st \in tunnel_stage
        PROVE  /\ i \in OpenSocket /\ o \in OpenSocket /\ st \in tunnel_stage
               /\ d \in ServerCtx /\ Over(i, o, FALSE, d)
    BY <1>1, <1>2 DEF Calm, Sound, Over
  <1>3. ASSUME Blank(d), Unused(o)
        PROVE  Calm(o) /\ Sound(o, d)
    BY <1>3, CalmFacts, BlankSound
  <1>4. CASE AtInitial(st, i, o, d)
    BY <1>2, <1>3, <1>4, CalmFacts DEF AtInitial, New, tunnel_stage
  <1>5. CASE AtReceipt(st, i, o, d)
    BY <1>2, <1>3, <1>5, CalmFacts DEF AtReceipt, Greeted, tunnel_stage
  <1>6. CASE AtFeedback(st, i, o, d)
    BY <1>2, <1>3, <1>6, CalmFacts DEF AtFeedback, Greeted, tunnel_stage
  <1>7. CASE AtConfirm(st, i, o, d)
    BY <1>2, <1>3, <1>7, CalmFacts DEF AtConfirm, Confirmed, tunnel_stage
  <1>8. Dialled(d) \/ Launched(d) => Sound(o, d)
    BY DEF Dialled, Blank, Launched, Sound
  <1>9. CASE AtResolve(st, i, o, d)
    BY <1>2, <1>8, <1>9, CalmFacts DEF AtResolve, tunnel_stage
  <1>10. CASE AtConnect(st, i, o, d)
    BY <1>2, <1>8, <1>10, CalmFacts DEF AtConnect, tunnel_stage
  <1>11. CASE AtLaunch(st, i, o, d)
    BY <1>2, <1>8, <1>11, CalmFacts DEF AtLaunch, tunnel_stage
  <1>12. CASE AtUpgrade(st, i, o, d)
    BY <1>2, <1>8, <1>12, CalmFacts DEF AtUpgrade, tunnel_stage
  <1>13. CASE AtPage(st, i, o, d)
    <2>1. Calm(o) /\ Untouched(o)
      BY <1>13, CalmFacts DEF AtPage
    <2>2. Sound(o, d)
      BY <1>13, <2>1 DEF AtPage, Sound
    <2> QED BY <1>2, <1>13, <2>1, <2>2, CalmFacts DEF AtPage, tunnel_stage
  <1>14. ASSUME Relaying(d), Calm(i), Unused(o), st \in tunnel_stage
         PROVE  /\ i \in OpenSocket /\ o \in OpenSocket /\ st \in tunnel_stage
                /\ d \in ServerCtx /\ Over(i, o, FALSE, d)
    <2>1. Calm(o)
      BY <1>14, CalmFacts
    <2>2. d \in ServerCtx /\ d.bad \subseteq {"early_datagram"} /\ Authed(d)
          /\ RelayOK(d.udp, FALSE, FALSE)
      BY <1>14 DEF Relaying
    <2>3. RelayOK(d.udp, TRUE, FALSE)
      BY <2>2, RelayMono
    <2> QED BY <1>14, <2>1, <2>2, <2>3 DEF Over, Calm
  <1>15. CASE AtUdpUpgrade(st, i, o, d)
    <2>1. /\ st \in tunnel_stage /\ Busy(i) /\ Unused(o) /\ Relaying(d) /\ d \in ServerCtx
          /\ Len(i.writes) <= d.srv + 1
      BY <1>15 DEF AtUdpUpgrade, Relaying, tunnel_stage
    <2>2. Calm(i)
      BY <2>1, FlowFacts, ShortBounds DEF Calm
    <2> QED BY <1>14, <2>1, <2>2
  <1>16. CASE AtUdpStreaming(st, i, o, d)
    <2>1. /\ st \in tunnel_stage /\ Flow(i) /\ Unused(o) /\ Relaying(d) /\ d \in ServerCtx
          /\ Len(i.writes) <= d.srv + 1
      BY <1>16 DEF AtUdpStreaming, Relaying, tunnel_stage
    <2>2. Calm(i)
      BY <2>1, FlowFacts, ShortBounds DEF Calm
    <2> QED BY <1>14, <2>1, <2>2
  <1>17. CASE AtStreaming(st, i, o, d)
    <2>1. /\ st \in tunnel_stage /\ Flow(i) /\ Flow(o) /\ d \in ServerCtx /\ Authed(d)
          /\ d.bad = {} /\ d.udp = NoRelay /\ Len(i.writes) <= d.srv + One(d.closing)
          /\ Len(o.writes) <= 2 * (d.got - HandshakeLen(d)) + One(d.cut) + One(~d.valid)
      BY <1>17 DEF AtStreaming, tunnel_stage
    <2>2. Calm(i) /\ Calm(o)
      BY <2>1, FlowFacts, ShortBounds DEF Calm
    <2>3. Sound(o, d)
      BY <2>1 DEF Sound
    <2> QED BY <1>2, <2>1, <2>2, <2>3
  <1> QED BY <1>4, <1>5, <1>6, <1>7, <1>9, <1>10, <1>11, <1>12, <1>13, <1>15, <1>16, <1>17
          DEF StageOK

\* No later than in any of its stages, a callback may shut it down.
LEMMA GoodShut ==
    ASSUME NEW st, NEW i, NEW o, NEW d, StageOK(st, i, o, d),
           NEW j \in OpenSocket, NEW k \in OpenSocket,
           Len(j.writes) <= Len(i.writes), Len(k.writes) <= Len(o.writes),
           Untouched(o) => Untouched(k)
    PROVE  Good(tunnel_shutdown(Live(j, k, st, d)))
  <1>1. /\ i \in OpenSocket /\ o \in OpenSocket /\ st \in tunnel_stage
        /\ Over(i, o, FALSE, d)
    BY StageOver
  <1>2. /\ i.writes \in Seq(Payload) /\ o.writes \in Seq(Payload)
        /\ j.writes \in Seq(Payload) /\ k.writes \in Seq(Payload)
    BY <1>1, SockOf
  <1>3. Short(i) /\ Short(o)
    BY <1>1 DEF Over
  <1>4. Short(j) /\ Short(k)
    <2> DEFINE a == Len(i.writes)
               b == Len(o.writes)
               x == Len(j.writes)
               y == Len(k.writes)
    <2>1. a \in Nat /\ b \in Nat /\ x \in Nat /\ y \in Nat /\ MaxData \in Nat
      BY <1>2, MaxDataAssumption
    <2>2. x <= a /\ y <= b /\ a <= 2 * MaxData + 2 /\ b <= 2 * MaxData + 2
      BY <1>3 DEF Short
    <2> HIDE DEF a, b, x, y
    <2>3. x <= 2 * MaxData + 2 /\ y <= 2 * MaxData + 2
      BY <2>1, <2>2
    <2> QED BY <2>3 DEF x, y, Short
  <1>5. Over(j, k, FALSE, d)
    BY <1>1, <1>4 DEF Over
  <1>6. DeadOK(tunnel_shutdown(Live(j, k, st, d)))
    BY <1>1, <1>5, ShutLive
  <1> QED BY <1>6 DEF Good

\* The timer of a socket is of no account to the stages.
LEMMA TimerFacts ==
    ASSUME NEW k
    PROVE  LET n == socket_ctx_timer_start(k)
           IN  /\ Unused(k) => Unused(n)
               /\ Flow(k) => Flow(n) /\ n.reading = k.reading /\ n.writes = k.writes
  <1> DEFINE n == socket_ctx_timer_start(k)
             e == <<>>
             no == FALSE
             y == TRUE
             s == "stop"
             dn == "none"
  <1>1. ASSUME Unused(k) PROVE Unused(n)
    <2>1. Sock(k, s, s, no, e, no, no, dn)
      BY <1>1 DEF Unused
    <2>2. Sock(n, s, s, no, e, no, no, dn)
      <3> HIDE DEF n, e, no, s, dn
      <3> QED BY <2>1, SockTimer DEF n
    <2> QED BY <2>2 DEF Unused
  <1>2. ASSUME Flow(k) PROVE Flow(n) /\ n.reading = k.reading /\ n.writes = k.writes
    <2>1. Sock(k, k.rdstate, k.wrstate, k.reading, k.writes, y, no, dn)
          /\ k.rdstate \in {"stop", "busy"} /\ k.wrstate \in {"stop", "busy"}
      BY <1>2 DEF Flow
    <2>2. Sock(n, k.rdstate, k.wrstate, k.reading, k.writes, y, no, dn)
      <3> HIDE DEF n, y, no, dn
      <3> QED BY <2>1, SockTimer DEF n
    <2> HIDE DEF n
    <2>3. n.rdstate = k.rdstate /\ n.wrstate = k.wrstate /\ n.reading = k.reading
          /\ n.writes = k.writes
      BY <2>2 DEF Sock
    <2> QED BY <2>1, <2>2, <2>3 DEF Flow
  <1> QED BY <1>1, <1>2

\* Only two stages stream.
LEMMA Streams ==
    ASSUME NEW st, NEW i, NEW o, NEW d, StageOK(st, i, o, d),
           st \in {"streaming", "udp_streaming"}
    PROVE  AtStreaming(st, i, o, d) \/ AtUdpStreaming(st, i, o, d)
  BY DEF StageOK, AtInitial, AtReceipt, AtFeedback, AtConfirm, AtResolve, AtConnect,
         AtLaunch, AtUpgrade, AtUdpUpgrade, AtPage

\* What a live tunnel is made of.
LEMMA LiveElim ==
    ASSUME NEW u, LiveOK(u)
    PROVE  \E i, o, st, d : u = Live(i, o, st, d) /\ StageOK(st, i, o, d)
  BY DEF LiveOK

\* The timer is started again behind a read.
LEMMA GoodLeave ==
    ASSUME NEW v, Good(v), NEW s \in Side
    PROVE  Good(ReadLeave(v, s))
  <1>1. CASE DeadOK(v)
    <2>1. v.is_terminated
      BY <1>1 DEF DeadOK
    <2>2. ReadLeave(v, s) = v
      BY <2>1 DEF ReadLeave
    <2> QED BY <2>2
  <1>2. CASE LiveOK(v)
    <2>1. PICK i, o, st, d : v = Live(i, o, st, d) /\ StageOK(st, i, o, d)
      BY <1>2, LiveElim
    <2> DEFINE j == socket_ctx_timer_start(i)
               k == socket_ctx_timer_start(o)
    <2>2. /\ v.sock["incoming"] = i /\ v.sock["outgoing"] = o
          /\ Put(v, "incoming", j) = Live(j, o, st, d)
          /\ Put(v, "outgoing", k) = Live(i, k, st, d)
          /\ is_in_streaming(v) <=> st \in {"streaming", "udp_streaming"}
      BY <2>1, LiveFields, LivePut, LiveStreams
    <2>3. \/ ReadLeave(v, s) = v
          \/ /\ is_in_streaming(v)
             /\ \/ ReadLeave(v, s) = Put(v, "incoming", j)
                \/ ReadLeave(v, s) = Put(v, "outgoing", k)
      <3>1. ReadLeave(v, s) = v \/ (is_in_streaming(v)
                    /\ ReadLeave(v, s) = Put(v, s, socket_ctx_timer_start(v.sock[s])))
        BY DEF ReadLeave
      <3>2. s = "incoming" \/ s = "outgoing"
        BY DEF Side
      <3> QED BY <2>2, <3>1, <3>2
    <2>4. /\ Unused(i) => Unused(j)
          /\ Flow(i) => Flow(j) /\ j.reading = i.reading /\ j.writes = i.writes
          /\ Unused(o) => Unused(k)
          /\ Flow(o) => Flow(k) /\ k.reading = o.reading /\ k.writes = o.writes
      BY TimerFacts
    <2> HIDE DEF j, k
    <2>5. ASSUME is_in_streaming(v)
          PROVE  Good(Live(j, o, st, d)) /\ Good(Live(i, k, st, d))
      <3>1. CASE AtStreaming(st, i, o, d)
        <4>1. AtStreaming(st, j, o, d)
          BY <2>4, <3>1 DEF AtStreaming
        <4>2. AtStreaming(st, i, k, d)
          BY <2>4, <3>1 DEF AtStreaming
        <4> QED BY <4>1, <4>2, LiveGood DEF StageOK
      <3>2. CASE AtUdpStreaming(st, i, o, d)
        <4>1. AtUdpStreaming(st, j, o, d)
          BY <2>4, <3>2 DEF AtUdpStreaming
        <4>2. AtUdpStreaming(st, i, k, d)
          BY <2>4, <3>2 DEF AtUdpStreaming
        <4> QED BY <4>1, <4>2, LiveGood DEF StageOK
      <3> QED BY <2>1, <2>2, <2>5, <3>1, <3>2, Streams
    <2> QED BY <2>2, <2>3, <2>5
  <1> QED BY <1>1, <1>2 DEF Good

\* On a live tunnel.
LEMMA LiveEnter ==
    ASSUME NEW i, NEW o, NEW st, NEW d, NEW x
    PROVE  LET b == st \in {"streaming", "udp_streaming"}
           IN  /\ b \/ i.rdstate = "busy" =>
                     ReadEnter(Live(i, o, st, d), "incoming", x) = Live(ReadIn(i, b, x), o, st, d)
               /\ b \/ o.rdstate = "busy" =>
                     ReadEnter(Live(i, o, st, d), "outgoing", x) = Live(i, ReadIn(o, b, x), st, d)
  <1> DEFINE u == Live(i, o, st, d)
             b == st \in {"streaming", "udp_streaming"}
  <1>1. u.sock["incoming"] = i /\ u.sock["outgoing"] = o /\ (is_in_streaming(u) <=> b)
    BY LiveFields, LiveStreams
  <1>2. /\ Put(u, "incoming", ReadIn(i, b, x)) = Live(ReadIn(i, b, x), o, st, d)
        /\ Put(u, "outgoing", ReadIn(o, b, x)) = Live(i, ReadIn(o, b, x), st, d)
    BY LivePut
  <1> HIDE DEF u
  <1>3. is_in_streaming(u) = b
    BY <1>1 DEF is_in_streaming
  <1> HIDE DEF b
  <1>4. ASSUME b \/ i.rdstate = "busy"
        PROVE  ReadEnter(u, "incoming", x) = Put(u, "incoming", ReadIn(i, b, x))
    BY <1>1, <1>3, <1>4 DEF ReadEnter, Assert, ReadIn
  <1>5. ASSUME b \/ o.rdstate = "busy"
        PROVE  ReadEnter(u, "outgoing", x) = Put(u, "outgoing", ReadIn(o, b, x))
    BY <1>1, <1>3, <1>5 DEF ReadEnter, Assert, ReadIn
  <1> QED BY <1>2, <1>4, <1>5 DEF u, b

\* The read callback with server.c's hooks.
ReadStep(u, s, v) ==
    \E status \in {"data", "eof", "error"} :
       v \in tunnel_socket_ctx_on_read_cb(u, s, status,
                LAMBDA w : tunnel_dispatcher(w, s),
                LAMBDA w : tunnel_arrive_end_of_file(w, s))

\* Its outcomes on a tunnel that is not shut down.
LEMMA ReadCases ==
    ASSUME NEW u, NEW s, NEW v, ~u.is_terminated, ReadStep(u, s, v)
    PROVE  \/ \E w \in tunnel_dispatcher(ReadEnter(u, s, "data"), s) : v = ReadLeave(w, s)
           \/ v \in tunnel_arrive_end_of_file(ReadEnter(u, s, "eof"), s)
           \/ v = tunnel_shutdown(ReadEnter(u, s, "error"))
  <1>1. PICK status \in {"data", "eof", "error"} :
           v \in tunnel_socket_ctx_on_read_cb(u, s, status,
                    LAMBDA w : tunnel_dispatcher(w, s),
                    LAMBDA w : tunnel_arrive_end_of_file(w, s))
    BY DEF ReadStep
  <1>2. CASE status = "data"
    BY <1>1, <1>2 DEF tunnel_socket_ctx_on_read_cb
  <1>3. CASE status = "eof"
    BY <1>1, <1>3 DEF tunnel_socket_ctx_on_read_cb
  <1>4. CASE status = "error"
    BY <1>1, <1>4 DEF tunnel_socket_ctx_on_read_cb
  <1> QED BY <1>2, <1>3, <1>4

\* A read of the handshake, as the dispatcher acknowledges it.
LEMMA HandshakeEnter ==
    ASSUME NEW i, NEW o, NEW st, NEW d, Reading(i), st \notin {"streaming", "udp_streaming"}
    PROVE  /\ \E j : /\ ReadEnter(Live(i, o, st, d), "incoming", "data") = Live(j, o, st, d)
                     /\ AckRead(Live(j, o, st, d)) = Live(RdStop(j), o, st, d)
                     /\ Quiet(RdStop(j))
           /\ \A x \in {"eof", "error"} :
                 \E j \in OpenSocket : /\ ReadEnter(Live(i, o, st, d), "incoming", x)
                                             = Live(j, o, st, d)
                                       /\ j.writes = i.writes
  <1> DEFINE b == st \in {"streaming", "udp_streaming"}
             j == ReadIn(i, b, "data")
             bu == "busy"
             sp == "stop"
             y == TRUE
             no == FALSE
             e == <<>>
             dn == "none"
  <1>1. Sock(i, bu, sp, y, e, y, no, dn) /\ i.rdstate = "busy" /\ i.writes = e
    BY DEF Reading, Sock
  <1>2. b \in BOOLEAN /\ b = FALSE
    OBVIOUS
  <1>3. ASSUME NEW x PROVE ReadEnter(Live(i, o, st, d), "incoming", x) = Live(ReadIn(i, b, x), o, st, d)
    BY <1>1, LiveEnter
  <1> HIDE DEF b
  <1>4. /\ Sock(j, "done", sp, b, e, y, no, dn)
        /\ \A x \in {"eof", "error"} : Sock(ReadIn(i, b, x), "stop", sp, FALSE, e, y, no, dn)
    <2> HIDE DEF bu, sp, y, no, e, dn
    <2> QED BY <1>1, <1>2, SockEnter
  <1> HIDE DEF j
  <1>5. Sock(RdStop(j), "stop", sp, b, e, y, no, dn)
    <2> DEFINE dd == "done"
    <2>1. Sock(j, dd, sp, b, e, y, no, dn)
      BY <1>4
    <2> HIDE DEF sp, y, no, e, dn, dd
    <2> QED BY <2>1, SockStop
  <1>6. Quiet(RdStop(j))
    BY <1>2, <1>5 DEF Quiet
  <1>7. AckRead(Live(j, o, st, d)) = Live(RdStop(j), o, st, d)
    <2>1. j.rdstate = "done" /\ j.wrstate = "stop"
      BY <1>4 DEF Sock
    <2> QED BY <2>1, LiveAck
  <1>8. ReadEnter(Live(i, o, st, d), "incoming", "data") = Live(j, o, st, d)
    BY <1>3 DEF j
  <1>9. ASSUME NEW x \in {"eof", "error"}
        PROVE  ReadIn(i, b, x) \in OpenSocket /\ ReadIn(i, b, x).writes = i.writes
    BY <1>1, <1>4, <1>9 DEF Sock
  <1> QED BY <1>3, <1>6, <1>7, <1>8, <1>9

\* A read in the first stage, and in the one behind the receipt.
LEMMA HandshakeRead ==
    ASSUME NEW i, NEW o, NEW st, NEW d, NEW v,
           AtInitial(st, i, o, d) \/ AtFeedback(st, i, o, d),
           ReadStep(Live(i, o, st, d), "incoming", v)
    PROVE  Good(v)
  <1> DEFINE u == Live(i, o, st, d)
  <1>1. /\ Reading(i) /\ Unused(o) /\ st \notin {"streaming", "udp_streaming"}
        /\ StageOK(st, i, o, d) /\ st \in {"initial", "client_feedback_coming"}
        /\ (st = "initial" => New(d)) /\ (st # "initial" => Greeted(d))
    BY DEF AtInitial, AtFeedback, StageOK
  <1>2. ~u.is_terminated
    BY LiveFields
  <1>3. /\ \E j : /\ ReadEnter(u, "incoming", "data") = Live(j, o, st, d)
                  /\ AckRead(Live(j, o, st, d)) = Live(RdStop(j), o, st, d)
                  /\ Quiet(RdStop(j))
        /\ \A x \in {"eof", "error"} :
              \E j \in OpenSocket : /\ ReadEnter(u, "incoming", x) = Live(j, o, st, d)
                                    /\ j.writes = i.writes
    BY <1>1, HandshakeEnter
  <1>4. o \in OpenSocket /\ i.writes \in Seq(Payload) /\ o.writes \in Seq(Payload)
    BY <1>1, StageOver, SockOf
  <1>5. ASSUME NEW x \in {"eof", "error"} PROVE Good(tunnel_shutdown(ReadEnter(u, "incoming", x)))
    <2>1. PICK j \in OpenSocket : ReadEnter(u, "incoming", x) = Live(j, o, st, d)
                                  /\ j.writes = i.writes
      BY <1>3, <1>5
    <2>2. Len(j.writes) <= Len(i.writes) /\ Len(o.writes) <= Len(o.writes)
      BY <1>4, <2>1
    <2>3. Good(tunnel_shutdown(Live(j, o, st, d)))
      BY <1>1, <1>4, <2>2, GoodShut
    <2> QED BY <2>1, <2>3
  <1>6. ASSUME NEW w \in tunnel_dispatcher(ReadEnter(u, "incoming", "data"), "incoming")
        PROVE  Good(w)
    <2>1. PICK j : /\ ReadEnter(u, "incoming", "data") = Live(j, o, st, d)
                   /\ AckRead(Live(j, o, st, d)) = Live(RdStop(j), o, st, d)
                   /\ Quiet(RdStop(j))
      BY <1>3
    <2> DEFINE a == Live(j, o, st, d)
               z == Live(RdStop(j), o, st, d)
               k == RdStop(j)
    <2>2. a.stage = st /\ a.data = d
      BY LiveFields
    <2>3. w \in tunnel_dispatcher(a, "incoming") /\ AckRead(a) = z
      BY <1>6, <2>1
    <2> HIDE DEF a, k
    <2>4. CASE st = "initial" /\ d.cipher.mode = "tls"
      <3>1. w \in do_tls_init_package(z)
        BY <2>2, <2>3, <2>4 DEF tunnel_dispatcher
      <3> QED BY <1>1, <2>1, <2>4, <3>1, TlsInitPackage DEF k
    <2>5. CASE st = "initial" /\ d.cipher.mode # "tls"
      <3>1. w \in do_init_package(z)
        BY <2>2, <2>3, <2>5 DEF tunnel_dispatcher
      <3> QED BY <1>1, <2>1, <2>5, <3>1, InitPackage DEF k
    <2>6. CASE st = "client_feedback_coming"
      <3>1. w \in do_handle_client_feedback(z)
        BY <2>2, <2>3, <2>6 DEF tunnel_dispatcher
      <3> QED BY <1>1, <2>1, <2>6, <3>1, ClientFeedback DEF k
    <2> QED BY <1>1, <2>4, <2>5, <2>6
  <1>7. tunnel_arrive_end_of_file(ReadEnter(u, "incoming", "eof"), "incoming")
          = {tunnel_shutdown(ReadEnter(u, "incoming", "eof"))}
    BY DEF tunnel_arrive_end_of_file
  <1>8. \/ \E w \in tunnel_dispatcher(ReadEnter(u, "incoming", "data"), "incoming") :
              v = ReadLeave(w, "incoming")
        \/ v \in tunnel_arrive_end_of_file(ReadEnter(u, "incoming", "eof"), "incoming")
        \/ v = tunnel_shutdown(ReadEnter(u, "incoming", "error"))
    BY <1>2, ReadCases
  <1> HIDE DEF u
  <1>9. "incoming" \in Side
    BY DEF Side
  <1> QED BY <1>5, <1>6, <1>7, <1>8, <1>9, GoodLeave

\* The write callback with server.c's hook.
WrittenStep(u, s, v) ==
    \E status \in {"ok", "err"} :
       v \in tunnel_socket_ctx_on_written_cb(u, s, status, LAMBDA w : tunnel_write_done(w, s))

\* The outcomes of the callback on a live tunnel.
LEMMA WrittenCases ==
    ASSUME NEW i, NEW o, NEW st, NEW d, NEW v
    PROVE  LET b == st \in {"streaming", "udp_streaming"}
               u == Live(i, o, st, d)
           IN  /\ i \in OpenSocket /\ i.writes # <<>> /\ (b \/ i.wrstate = "busy")
                  /\ WrittenStep(u, "incoming", v)
                     => \/ v \in tunnel_write_done(Live(Wrote(i), o, st, d), "incoming")
                        \/ v = tunnel_shutdown(Live(WroteNot(i), o, st, d))
               /\ o \in OpenSocket /\ o.writes # <<>> /\ (b \/ o.wrstate = "busy")
                  /\ WrittenStep(u, "outgoing", v)
                     => \/ v \in tunnel_write_done(Live(i, Wrote(o), st, d), "outgoing")
                        \/ v = tunnel_shutdown(Live(i, WroteNot(o), st, d))
  <1> DEFINE b == st \in {"streaming", "udp_streaming"}
             u == Live(i, o, st, d)
  <1>1. /\ u.sock["incoming"] = i /\ u.sock["outgoing"] = o /\ ~u.is_terminated
        /\ (is_in_streaming(u) <=> b)
    BY LiveFields, LiveStreams
  <1>2. /\ Put(u, "incoming", Wrote(i)) = Live(Wrote(i), o, st, d)
        /\ Put(u, "incoming", WroteNot(i)) = Live(WroteNot(i), o, st, d)
        /\ Put(u, "outgoing", Wrote(o)) = Live(i, Wrote(o), st, d)
        /\ Put(u, "outgoing", WroteNot(o)) = Live(i, WroteNot(o), st, d)
    BY LivePut
  <1> HIDE DEF u, b
  <1>3. ASSUME NEW s, NEW k \in OpenSocket, k = u.sock[s], k.writes # <<>>,
               b \/ k.wrstate = "busy", WrittenStep(u, s, v)
        PROVE  \/ v \in tunnel_write_done(Put(u, s, Wrote(k)), s)
               \/ v = tunnel_shutdown(Put(u, s, WroteNot(k)))
    <2>1. WroteTo(k, "ok").wrstate = k.wrstate
      <3>1. Sock(k, k.rdstate, k.wrstate, k.reading, k.writes, k.connected, k.connecting, k.dns)
        BY SockOf
      <3>2. Sock(WroteTo(k, "ok"), k.rdstate, k.wrstate, k.reading, Tail(k.writes),
                 k.connected, k.connecting, k.dns)
        BY <1>3, <3>1, SockWrote
      <3> QED BY <3>2 DEF Sock
    <2>2. PICK x \in {"ok", "err"} :
             v \in tunnel_socket_ctx_on_written_cb(u, s, x, LAMBDA w : tunnel_write_done(w, s))
      BY <1>3 DEF WrittenStep
    <2>3. CASE x = "ok"
      <3>1. v \in tunnel_write_done(Assert(Put(u, s, WrDone(WroteTo(k, "ok"))),
                     is_in_streaming(u) \/ WroteTo(k, "ok").wrstate = "busy", "on_written"), s)
        BY <1>1, <1>3, <2>2, <2>3 DEF tunnel_socket_ctx_on_written_cb, WrDone, WroteTo
      <3>2. is_in_streaming(u) \/ WroteTo(k, "ok").wrstate = "busy"
        BY <1>1, <1>3, <2>1
      <3> QED BY <3>1, <3>2 DEF Assert, Wrote
    <2>4. CASE x = "err"
      BY <1>1, <1>3, <2>2, <2>4 DEF tunnel_socket_ctx_on_written_cb, WrStop, WroteTo, WroteNot
    <2> QED BY <2>3, <2>4
  <1>4. ASSUME i \in OpenSocket, i.writes # <<>>, b \/ i.wrstate = "busy",
               WrittenStep(u, "incoming", v)
        PROVE  \/ v \in tunnel_write_done(Live(Wrote(i), o, st, d), "incoming")
               \/ v = tunnel_shutdown(Live(WroteNot(i), o, st, d))
    BY <1>1, <1>2, <1>3, <1>4
  <1>5. ASSUME o \in OpenSocket, o.writes # <<>>, b \/ o.wrstate = "busy",
               WrittenStep(u, "outgoing", v)
        PROVE  \/ v \in tunnel_write_done(Live(i, Wrote(o), st, d), "outgoing")
               \/ v = tunnel_shutdown(Live(i, WroteNot(o), st, d))
    BY <1>1, <1>2, <1>3, <1>5
  <1> QED BY <1>4, <1>5 DEF u, b

\* A write that failed ends the tunnel.
LEMMA WriteFails ==
    ASSUME NEW st, NEW i, NEW o, NEW d, StageOK(st, i, o, d)
    PROVE  /\ i.writes # <<>> => Good(tunnel_shutdown(Live(WroteNot(i), o, st, d)))
           /\ o.writes # <<>> => Good(tunnel_shutdown(Live(i, WroteNot(o), st, d)))
  <1>1. i \in OpenSocket /\ o \in OpenSocket
    BY StageOver
  <1>2. ASSUME NEW k \in OpenSocket, k.writes # <<>>
        PROVE  /\ WroteNot(k) \in OpenSocket /\ Len(WroteNot(k).writes) <= Len(k.writes)
               /\ Untouched(k) => Untouched(WroteNot(k))
    <2> DEFINE n == WroteNot(k)
    <2>1. Sock(k, k.rdstate, k.wrstate, k.reading, k.writes, k.connected, k.connecting, k.dns)
          /\ k.writes \in Seq(Payload)
      BY SockOf
    <2>2. Sock(n, k.rdstate, "stop", k.reading, Tail(k.writes), k.connected, k.connecting, k.dns)
      BY <1>2, <2>1, SockWrote
    <2> HIDE DEF n
    <2>3. n \in OpenSocket /\ n.writes = Tail(k.writes) /\ n.connected = k.connected
          /\ n.connecting = k.connecting /\ n.dns = k.dns
      BY <2>2 DEF Sock
    <2>4. Len(Tail(k.writes)) <= Len(k.writes)
      <3> DEFINE q == k.writes
      <3>1. q \in Seq(Payload) /\ q # <<>>
        BY <1>2, <2>1
      <3> HIDE DEF q
      <3>2. Len(Tail(q)) = Len(q) - 1 /\ Len(q) \in Nat
        BY <3>1
      <3>3. Len(Tail(q)) <= Len(q)
        BY <3>2
      <3> QED BY <3>3 DEF q
    <2>5. Untouched(k) => Untouched(n)
      BY <2>3 DEF Untouched
    <2> QED BY <2>3, <2>4, <2>5 DEF n
  <1>3. i.writes \in Seq(Payload) /\ o.writes \in Seq(Payload)
    BY <1>1, SockOf
  <1>4. Len(i.writes) <= Len(i.writes) /\ Len(o.writes) <= Len(o.writes)
    BY <1>3
  <1>5. i.writes # <<>> => Good(tunnel_shutdown(Live(WroteNot(i), o, st, d)))
    BY <1>1, <1>2, <1>4, GoodShut
  <1>6. o.writes # <<>> => Good(tunnel_shutdown(Live(i, WroteNot(o), st, d)))
    BY <1>1, <1>2, <1>4, GoodShut
  <1> QED BY <1>5, <1>6

\* The relay counts the datagrams it sends.
LEMMA RelaySends ==
    ASSUME NEW r \in Remote, NEW n \in Nat, r.on, RelayOK(r, FALSE, FALSE)
    PROVE  /\ udp_remote_send_data(r, n) \in Remote /\ udp_remote_send_data(r, n).on
           /\ RelayOK(udp_remote_send_data(r, n), FALSE, FALSE)
  <1> DEFINE m == r.sends + n
             x == [r EXCEPT !.sends = m]
  <1>1. r.sends \in Nat
    BY DEF Remote
  <1>2. m \in Nat
    BY <1>1
  <1>3. x = udp_remote_send_data(r, n)
    BY DEF udp_remote_send_data
  <1> HIDE DEF m
  <1>4. /\ x \in Remote /\ x.on = r.on /\ x.ref = r.ref /\ x.shutting_down = r.shutting_down
        /\ x.dying_cb = r.dying_cb /\ x.receiving = r.receiving /\ x.ticking = r.ticking
        /\ x.udp = r.udp /\ x.timer = r.timer /\ x.freed = r.freed
    BY <1>2, ZenonT(60) DEF Remote
  <1>5. r.udp = "open" /\ ~r.shutting_down
    BY DEF RelayOK
  <1> HIDE DEF x
  <1>6. RelayOK(x, FALSE, FALSE)
    BY <1>4, <1>5 DEF RelayOK
  <1> QED BY <1>3, <1>4, <1>6

\* Datagrams are passed to the relay.
SendsTo(d, q) == SaidOut(UdpTo(d, udp_remote_send_data(d.udp, Len(q))), q)

\* What server_ctx then holds.
LEMMA CtxSends ==
    ASSUME NEW d \in ServerCtx, NEW q \in Seq(Items), d.udp.on, RelayOK(d.udp, FALSE, FALSE)
    PROVE  /\ SendsTo(d, q) \in ServerCtx /\ SendsTo(d, q).cipher = d.cipher
           /\ SendsTo(d, q).udp.on /\ RelayOK(SendsTo(d, q).udp, FALSE, FALSE)
           /\ SendsTo(d, q).pkg = d.pkg /\ SendsTo(d, q).begun = d.begun
           /\ SendsTo(d, q).closing = d.closing /\ SendsTo(d, q).got = d.got
           /\ SendsTo(d, q).cut = d.cut /\ SendsTo(d, q).valid = d.valid
           /\ SendsTo(d, q).srv = d.srv /\ SendsTo(d, q).bad = d.bad
           /\ SendsTo(d, q).sent["outgoing"] = d.sent["outgoing"] \o q
           /\ SendsTo(d, q).sent["incoming"] = d.sent["incoming"]
  <1> DEFINE r == udp_remote_send_data(d.udp, Len(q))
             e == UdpTo(d, r)
             f == SaidOut(e, q)
  <1>1. d.udp \in Remote /\ Len(q) \in Nat
    BY CtxFields
  <1>2. r \in Remote /\ r.on /\ RelayOK(r, FALSE, FALSE)
    BY <1>1, RelaySends
  <1> HIDE DEF r
  <1>3. /\ e \in ServerCtx /\ e.cipher = d.cipher /\ e.udp = r /\ e.pkg = d.pkg
        /\ e.begun = d.begun /\ e.closing = d.closing /\ e.got = d.got /\ e.cut = d.cut
        /\ e.valid = d.valid /\ e.srv = d.srv /\ e.bad = d.bad /\ e.sent = d.sent
    BY <1>2, CtxUdp
  <1> HIDE DEF e
  <1>4. /\ f \in ServerCtx /\ f.cipher = e.cipher /\ f.udp = e.udp /\ f.pkg = e.pkg
        /\ f.begun = e.begun /\ f.closing = e.closing /\ f.got = e.got /\ f.cut = e.cut
        /\ f.valid = e.valid /\ f.srv = e.srv /\ f.bad = e.bad
        /\ f.sent["outgoing"] = e.sent["outgoing"] \o q
        /\ f.sent["incoming"] = e.sent["incoming"]
    BY <1>3, CtxSaidOut
  <1>5. SendsTo(d, q) = f
    BY DEF SendsTo, e, r
  <1> HIDE DEF f
  <1> QED BY <1>2, <1>3, <1>4, <1>5

\* On a live tunnel.
LEMMA LiveSends ==
    ASSUME NEW i, NEW o, NEW st, NEW d, NEW q
    PROVE  SendDatagrams(Live(i, o, st, d), q) = Live(i, o, st, SendsTo(d, q))
  <1> DEFINE u == Live(i, o, st, d)
             f == SendsTo(d, q)
             g == [d EXCEPT !.udp = udp_remote_send_data(@, Len(q)),
                            !.sent["outgoing"] = @ \o q]
  <1>1. u.data = d /\ SetData(u, f) = Live(i, o, st, f)
    BY LiveFields, LiveSet
  <1> HIDE DEF u
  <1>2. SendDatagrams(u, q) = [u EXCEPT !.data = g]
    BY <1>1 DEF SendDatagrams
  <1>3. g = f
    BY DEF SaidOut, UdpTo, SendsTo
  <1> HIDE DEF f, g
  <1>4. SendDatagrams(u, q) = SetData(u, f)
    BY <1>2, <1>3 DEF SetData
  <1> QED BY <1>1, <1>4 DEF u, f

\* Down is a matter of what is written to the client.
LEMMA DownSame ==
    ASSUME NEW d, NEW e, Down(d), e.begun = d.begun, e.cipher.mode = d.cipher.mode,
           e.srv = d.srv, e.closing = d.closing, e.sent["incoming"] = d.sent["incoming"]
    PROVE  Down(e)
  BY DEF Down

\* do_udp_launch_streaming.
LEMMA UdpLaunch ==
    ASSUME NEW i, NEW o, NEW st, NEW d, NEW ws,
           Sock(i, "stop", "stop", FALSE, ws, TRUE, FALSE, "none"), Unused(o),
           Relaying(d), d.valid, d.got = 1, d.pkg = <<Datagram>>, d.sent["outgoing"] = <<>>,
           Len(ws) <= d.srv + 1
    PROVE  Good(do_udp_launch_streaming(Live(i, o, st, d)))
  <1> DEFINE u == Live(i, o, st, d)
             q == <<Datagram>>
             e == SendsTo(d, q)
             y == TRUE
             k == socket_ctx_read(i, y)
             no == FALSE
             dn == "none"
             wr == "stop"
             str == "udp_streaming"
  <1>1. AtRest(i) /\ AtRest(o)
    BY CalmFacts DEF Sock, AtRest
  <1>2. Idle(u) = u /\ u.data = d
    BY <1>1, LiveIdle, LiveFields
  <1>3. q \in Seq(Items) /\ q \o <<>> = q /\ <<>> \o q = q
    <2>1. Datagram \in Items
      BY ItemsFacts
    <2>2. q \in Seq(Items)
      BY <2>1
    <2> HIDE DEF q
    <2> QED BY <2>2, Assoc
  <1>4. d \in ServerCtx /\ d.udp.on /\ RelayOK(d.udp, FALSE, FALSE) /\ d.cipher.mode = "tls"
        /\ Authed(d) /\ Down(d) /\ d.bad \subseteq {"early_datagram"} /\ d.closing = FALSE
    BY DEF Relaying
  <1> HIDE DEF q
  <1>5. /\ SendDatagrams(u, q) = Live(i, o, st, e)
        /\ e \in ServerCtx /\ e.cipher = d.cipher
        /\ e.udp.on /\ RelayOK(e.udp, FALSE, FALSE)
        /\ e.begun = d.begun /\ e.closing = d.closing /\ e.got = d.got
        /\ e.valid = d.valid /\ e.srv = d.srv /\ e.bad = d.bad
        /\ e.sent["outgoing"] = d.sent["outgoing"] \o q
        /\ e.sent["incoming"] = d.sent["incoming"]
    <2>1. d \in ServerCtx /\ q \in Seq(Items) /\ d.udp.on /\ RelayOK(d.udp, FALSE, FALSE)
      BY <1>3, <1>4
    <2>2. SendDatagrams(u, q) = Live(i, o, st, e)
      BY LiveSends
    <2> QED BY <2>1, <2>2, CtxSends
  <1>6. CanRead(i) /\ Sock(k, "busy", wr, TRUE, ws, TRUE, no, dn)
    <2>1. Sock(i, "stop", wr, FALSE, ws, TRUE, no, dn) /\ y \in BOOLEAN
      OBVIOUS
    <2> HIDE DEF wr, no, dn, y
    <2> QED BY <2>1, SockRead
  <1>7. Read(Live(i, o, st, e), "incoming", y) = Live(k, o, st, e)
    <2> HIDE DEF y, e
    <2> QED BY <1>6, LiveRead
  <1> HIDE DEF e, k
  <1>8. GoTo(Live(k, o, st, e), str) = Live(k, o, str, e)
    <2> HIDE DEF str
    <2> QED BY LiveSet
  <1>9. HandshakeLen(e) = HandshakeLen(d) /\ Authed(e) /\ Down(e)
    BY <1>4, <1>5, AuthedSame, DownSame
  <1>10. Relaying(e)
    BY <1>4, <1>5, <1>9 DEF Relaying
  <1>11. e.sent["outgoing"] = <<Datagram>> \o Apps(e.got - HandshakeLen(e))
    <2>1. HandshakeLen(d) = 1
      <3>1. "tls" \in Modes
        BY DEF Modes
      <3> QED BY <1>4, <3>1, HandFacts DEF HandshakeLen
    <2>2. e.got - HandshakeLen(e) = 0
      BY <1>5, <1>9, <2>1
    <2>3. Apps(0) = <<>>
      BY DownsStep
    <2> QED BY <1>3, <1>5, <2>2, <2>3 DEF q
  <1>12. Flow(k) /\ k.reading = TRUE /\ k.writes = ws
    <2>1. k.rdstate = "busy" /\ k.wrstate = "stop" /\ k.reading = TRUE /\ k.writes = ws
      BY <1>6 DEF Sock
    <2> QED BY <1>6, <2>1 DEF Flow
  <1>13. Len(k.writes) <= e.srv + 1
    BY <1>5, <1>12
  <1>14. AtUdpStreaming("udp_streaming", k, o, e)
    BY <1>10, <1>11, <1>12, <1>13 DEF AtUdpStreaming
  <1>15. Good(Live(k, o, "udp_streaming", e))
    BY <1>14, LiveGood DEF StageOK
  <1>16. do_udp_launch_streaming(u)
           = GoTo(Read(SendDatagrams(u, q), "incoming", TRUE), "udp_streaming")
    <2> HIDE DEF u
    <2> QED BY <1>2 DEF do_udp_launch_streaming, q
  <1> QED BY <1>5, <1>7, <1>8, <1>15, <1>16

\* A socket whose only write is completed is quiet again.
LEMMA WroteFacts ==
    ASSUME NEW k, Busy(k)
    PROVE  /\ Wrote(k).wrstate = "done" /\ Wrote(k).rdstate = "stop" /\ k.wrstate = "busy"
           /\ Sock(WrStop(Wrote(k)), "stop", "stop", FALSE, Tail(k.writes), TRUE, FALSE, "none")
           /\ Writing(k) => Quiet(WrStop(Wrote(k)))
           /\ k \in OpenSocket /\ k.writes # <<>> /\ k.writes \in Seq(Payload)
  <1> DEFINE sp == "stop"
             bu == "busy"
             dd == "done"
             no == FALSE
             y == TRUE
             dn == "none"
             ws == k.writes
             tl == Tail(ws)
             n == Wrote(k)
  <1>1. Sock(k, sp, bu, no, ws, y, no, dn) /\ ws # <<>> /\ k.wrstate = "busy"
        /\ k \in OpenSocket
    BY DEF Busy, Sock
  <1>2. Sock(n, sp, "done", no, tl, y, no, dn)
    <2> HIDE DEF sp, bu, no, y, dn, ws
    <2> QED BY <1>1, SockWrote
  <1>3. n.wrstate = "done" /\ n.rdstate = "stop"
    BY <1>2 DEF Sock
  <1> HIDE DEF n
  <1>4. Sock(WrStop(n), sp, "stop", no, tl, y, no, dn)
    <2>1. Sock(n, sp, dd, no, tl, y, no, dn)
      BY <1>2
    <2> HIDE DEF sp, no, y, dn, dd, tl
    <2> QED BY <2>1, SockStop
  <1>5. ws \in Seq(Payload)
    BY <1>1, SockOf
  <1>6. ASSUME Writing(k) PROVE Quiet(WrStop(n))
    <2>1. Len(ws) = 1
      BY <1>6 DEF Writing
    <2> HIDE DEF ws
    <2>2. tl = <<>>
      <3>1. Tail(ws) \in Seq(Payload) /\ Len(Tail(ws)) = 0
        BY <1>1, <1>5, <2>1
      <3>2. Tail(ws) = <<>>
        BY <3>1, EmptySeq
      <3> QED BY <3>2
    <2> QED BY <1>4, <2>2 DEF Quiet
  <1> QED BY <1>1, <1>3, <1>4, <1>5, <1>6 DEF n

\* The end of a write when the tunnel is not closing.
LEMMA WriteDone ==
    ASSUME NEW i, NEW o, NEW st, NEW d, NEW s, d.closing = FALSE \/ s # "incoming"
    PROVE  tunnel_write_done(Live(i, o, st, d), s) = tunnel_dispatcher(Live(i, o, st, d), s)
  <1> DEFINE u == Live(i, o, st, d)
  <1>1. u.data = d
    BY LiveFields
  <1> HIDE DEF u
  <1>2. tunnel_write_done(u, s) = tunnel_dispatcher(u, s)
    BY <1>1 DEF tunnel_write_done
  <1> QED BY <1>2 DEF u

\* The end of a write to the client in the handshake.
LEMMA HandshakeWritten ==
    ASSUME NEW i, NEW o, NEW st, NEW d, NEW v,
           \/ AtReceipt(st, i, o, d) \/ AtConfirm(st, i, o, d) \/ AtUpgrade(st, i, o, d)
           \/ AtUdpUpgrade(st, i, o, d),
           WrittenStep(Live(i, o, st, d), "incoming", v)
    PROVE  Good(v)
  <1> DEFINE j == Wrote(i)
             k == WrStop(j)
             u == Live(j, o, st, d)
             z == Live(k, o, st, d)
             s == "incoming"
  <1>1. StageOK(st, i, o, d) /\ Busy(i) /\ d.closing = FALSE
    BY DEF StageOK, AtReceipt, AtConfirm, AtUpgrade, AtUdpUpgrade, Greeted, Confirmed,
           Blank, Launched, Relaying, Writing
  <1>2. /\ j.wrstate = "done" /\ j.rdstate = "stop" /\ i.wrstate = "busy"
        /\ Sock(k, "stop", "stop", FALSE, Tail(i.writes), TRUE, FALSE, "none")
        /\ Writing(i) => Quiet(k)
        /\ i \in OpenSocket /\ i.writes # <<>> /\ i.writes \in Seq(Payload)
    BY <1>1, WroteFacts
  <1> HIDE DEF j, k
  <1>3. AckWrite(u) = z
    BY <1>2, LiveAck DEF k
  <1>4. u.stage = st /\ u.data = d
    BY LiveFields
  <1>5. v \in tunnel_write_done(u, s) \/ v = tunnel_shutdown(Live(WroteNot(i), o, st, d))
    BY <1>2, WrittenCases DEF j
  <1>6. Good(tunnel_shutdown(Live(WroteNot(i), o, st, d)))
    BY <1>1, <1>2, WriteFails
  <1>7. tunnel_write_done(u, s) = tunnel_dispatcher(u, s)
    BY <1>1, WriteDone
  <1>8. ASSUME v \in tunnel_dispatcher(u, s) PROVE Good(v)
    <2> HIDE DEF u
    <2>1. CASE AtReceipt(st, i, o, d)
      <3>1. st = "obfs_receipt_done" /\ Quiet(k) /\ Unused(o) /\ Greeted(d)
        BY <1>2, <2>1 DEF AtReceipt
      <3>2. v = GoTo(Read(z, "incoming", TRUE), "client_feedback_coming")
        BY <1>3, <1>4, <1>8, <3>1 DEF tunnel_dispatcher
      <3> QED BY <3>1, <3>2, ReceiptDone
    <2>2. CASE AtConfirm(st, i, o, d)
      <3>1. st = "protocol_confirm_done" /\ Quiet(k) /\ Unused(o) /\ Confirmed(d)
        BY <1>2, <2>2 DEF AtConfirm
      <3>2. v \in do_prepare_parse(z)
        BY <1>3, <1>4, <1>8, <3>1 DEF tunnel_dispatcher
      <3> QED BY <3>1, <3>2, ConfirmDone
    <2>3. CASE AtUpgrade(st, i, o, d)
      <3>1. st = "tls_client_feedback" /\ Quiet(k) /\ Quiet(o) /\ Launched(d)
        BY <1>2, <2>3 DEF AtUpgrade
      <3>2. ~d.udp.on
        BY <3>1 DEF Launched, NoRelay
      <3>3. v = do_tls_launch_streaming(z)
        BY <1>3, <1>4, <1>8, <3>1, <3>2 DEF tunnel_dispatcher
      <3> QED BY <3>1, <3>3, TlsLaunch
    <2>4. CASE AtUdpUpgrade(st, i, o, d)
      <3> DEFINE ws == Tail(i.writes)
      <3>1. /\ st = "tls_client_feedback" /\ Unused(o) /\ Relaying(d) /\ d.valid /\ d.got = 1
            /\ d.pkg = <<Datagram>> /\ d.sent["outgoing"] = <<>> /\ Len(i.writes) <= d.srv + 1
            /\ d.udp.on /\ d \in ServerCtx
        BY <2>4 DEF AtUdpUpgrade, Relaying
      <3>2. v = do_udp_launch_streaming(z)
        BY <1>3, <1>4, <1>8, <3>1 DEF tunnel_dispatcher
      <3>3. Len(ws) <= d.srv + 1
        <4> DEFINE q == i.writes
        <4>1. q \in Seq(Payload) /\ q # <<>> /\ d.srv \in 0 .. MaxData /\ Len(q) <= d.srv + 1
              /\ MaxData \in Nat
          BY <1>2, <3>1, CtxFields, MaxDataAssumption
        <4> HIDE DEF q
        <4>2. Len(Tail(q)) = Len(q) - 1 /\ Len(q) \in Nat
          BY <4>1
        <4>3. Len(Tail(q)) <= d.srv + 1
          BY <4>1, <4>2
        <4> QED BY <4>3 DEF q
      <3>4. Sock(k, "stop", "stop", FALSE, ws, TRUE, FALSE, "none")
        BY <1>2
      <3> HIDE DEF ws
      <3>5. Good(do_udp_launch_streaming(z))
        BY <3>1, <3>3, <3>4, UdpLaunch
      <3> QED BY <3>2, <3>5
    <2> QED BY <2>1, <2>2, <2>3, <2>4
  <1> QED BY <1>5, <1>6, <1>7, <1>8

\* The end of the web page that answers a request for something else.
LEMMA PageWritten ==
    ASSUME NEW i, NEW o, NEW st, NEW d, NEW v, AtPage(st, i, o, d),
           WrittenStep(Live(i, o, st, d), "incoming", v)
    PROVE  Good(v)
  <1> DEFINE j == Wrote(i)
             k == WrStop(j)
             u == Live(j, o, st, d)
             z == Live(k, o, st, d)
             s == "incoming"
  <1>1. StageOK(st, i, o, d) /\ Busy(i) /\ st = "normal_response"
    BY DEF StageOK, AtPage, Writing
  <1>2. /\ j.wrstate = "done" /\ i.wrstate = "busy"
        /\ Sock(k, "stop", "stop", FALSE, Tail(i.writes), TRUE, FALSE, "none")
        /\ i \in OpenSocket /\ i.writes # <<>> /\ i.writes \in Seq(Payload)
    BY <1>1, WroteFacts
  <1>3. j \in OpenSocket /\ j.writes = Tail(i.writes) /\ k \in OpenSocket /\ k.writes = Tail(i.writes)
    <2>1. Sock(i, i.rdstate, i.wrstate, i.reading, i.writes, i.connected, i.connecting, i.dns)
      BY <1>2, SockOf
    <2>2. Sock(j, i.rdstate, "done", i.reading, Tail(i.writes), i.connected, i.connecting, i.dns)
      BY <1>2, <2>1, SockWrote
    <2> HIDE DEF j, k
    <2> QED BY <1>2, <2>2 DEF Sock
  <1> HIDE DEF j, k
  <1>4. AckWrite(u) = z
    BY <1>2, LiveAck DEF k
  <1>5. u.stage = st
    BY LiveFields
  <1>6. v \in tunnel_write_done(u, s) \/ v = tunnel_shutdown(Live(WroteNot(i), o, st, d))
    BY <1>2, WrittenCases DEF j
  <1>7. Good(tunnel_shutdown(Live(WroteNot(i), o, st, d)))
    BY <1>1, <1>2, WriteFails
  <1>8. Good(tunnel_shutdown(u)) /\ Good(tunnel_shutdown(z))
    <2> DEFINE q == i.writes
    <2>1. o \in OpenSocket /\ o.writes \in Seq(Payload)
      BY <1>1, StageOver, SockOf
    <2>2. Len(j.writes) <= Len(i.writes) /\ Len(k.writes) <= Len(i.writes)
      <3>1. q \in Seq(Payload) /\ q # <<>> /\ j.writes = Tail(q) /\ k.writes = Tail(q)
        BY <1>2, <1>3
      <3> HIDE DEF q
      <3>2. Len(Tail(q)) = Len(q) - 1 /\ Len(q) \in Nat
        BY <3>1
      <3>3. Len(Tail(q)) <= Len(q)
        BY <3>2
      <3> QED BY <3>1, <3>3 DEF q
    <2>3. Len(o.writes) <= Len(o.writes)
      BY <2>1
    <2> QED BY <1>1, <1>3, <2>1, <2>2, <2>3, GoodShut
  <1> HIDE DEF u
  <1>9. ASSUME v \in tunnel_write_done(u, s)
        PROVE  v = tunnel_shutdown(u) \/ v = tunnel_shutdown(z)
    <2>1. tunnel_dispatcher(u, s) = {tunnel_shutdown(u)}
      BY <1>1, <1>5 DEF tunnel_dispatcher
    <2> QED BY <1>4, <1>9, <2>1 DEF tunnel_write_done
  <1> QED BY <1>6, <1>7, <1>8, <1>9

\* The end of the write that carries what came with the address.
LEMMA LaunchWritten ==
    ASSUME NEW i, NEW o, NEW st, NEW d, NEW v, AtLaunch(st, i, o, d),
           WrittenStep(Live(i, o, st, d), "outgoing", v)
    PROVE  Good(v)
  <1> DEFINE k == Wrote(o)
             u == Live(i, k, st, d)
             s == "outgoing"
  <1>1. StageOK(st, i, o, d) /\ Writing(o) /\ Busy(o) /\ st = "launch_streaming" /\ Quiet(i)
        /\ Launched(d)
    BY DEF StageOK, AtLaunch, Writing
  <1>2. /\ k.wrstate = "done" /\ k.rdstate = "stop" /\ o.wrstate = "busy" /\ Quiet(WrStop(k))
        /\ o \in OpenSocket /\ o.writes # <<>>
    BY <1>1, WroteFacts
  <1> HIDE DEF k
  <1>3. u.stage = st
    BY LiveFields
  <1>4. v \in tunnel_write_done(u, s) \/ v = tunnel_shutdown(Live(i, WroteNot(o), st, d))
    BY <1>2, WrittenCases DEF k
  <1>5. Good(tunnel_shutdown(Live(i, WroteNot(o), st, d)))
    BY <1>1, <1>2, WriteFails
  <1>6. tunnel_write_done(u, s) = tunnel_dispatcher(u, s)
    BY WriteDone
  <1>7. Good(do_launch_streaming(u))
    BY <1>1, <1>2, LaunchStreaming
  <1> HIDE DEF u
  <1>8. tunnel_dispatcher(u, s) = {do_launch_streaming(u)}
    BY <1>1, <1>3 DEF tunnel_dispatcher
  <1> QED BY <1>4, <1>5, <1>6, <1>7, <1>8

-----------------------------------------------------------------------------
(* The relaying. *)

\* A write while the tunnel relays.
LEMMA FlowWrite ==
    ASSUME NEW k, Flow(k), NEW q \in Seq(Items)
    PROVE  /\ CanWrite(k) /\ Flow(socket_ctx_write(k, q))
           /\ socket_ctx_write(k, q).reading = k.reading
           /\ Len(k.writes) \in Nat /\ Len(socket_ctx_write(k, q).writes) = Len(k.writes) + 1
  <1> DEFINE rd == k.rdstate
             wr == k.wrstate
             rg == k.reading
             ws == k.writes
             no == FALSE
             dn == "none"
             n == socket_ctx_write(k, q)
  <1>1. Sock(k, rd, wr, rg, ws, TRUE, no, dn) /\ rd \in {"stop", "busy"}
    BY DEF Flow
  <1>2. ws \in Seq(Payload) /\ q \in Payload
    BY FlowFacts, ServerStagesAssumption
  <1>3. CanWrite(k) /\ Sock(n, rd, "busy", rg, Append(ws, q), TRUE, no, dn)
    <2> HIDE DEF rd, wr, rg, ws, no, dn
    <2> QED BY <1>1, <1>2, SockWrite
  <1>4. Len(Append(ws, q)) = Len(ws) + 1 /\ Len(ws) \in Nat
    <2> HIDE DEF ws
    <2> QED BY <1>2
  <1> HIDE DEF n
  <1>5. n.rdstate = rd /\ n.wrstate = "busy" /\ n.reading = rg /\ n.writes = Append(ws, q)
    BY <1>3 DEF Sock
  <1>6. Flow(n)
    BY <1>1, <1>3, <1>5 DEF Flow
  <1> QED BY <1>3, <1>4, <1>5, <1>6 DEF n

\* On a live tunnel.
LEMMA FlowSay ==
    ASSUME NEW i, NEW o, NEW st \in {"streaming", "udp_streaming"}, NEW d, NEW q \in Seq(Items)
    PROVE  /\ Flow(i) => Write(Live(i, o, st, d), "incoming", q)
                           = Live(socket_ctx_write(i, q), o, st, SaidIn(d, q))
           /\ Flow(o) => Write(Live(i, o, st, d), "outgoing", q)
                           = Live(i, socket_ctx_write(o, q), st, SaidOut(d, q))
  <1>1. (Flow(i) => CanWrite(i)) /\ (Flow(o) => CanWrite(o))
    BY FlowWrite
  <1> QED BY <1>1, LiveWrite

\* A read callback while the tunnel relays, and the dispatcher's acknowledgement.
LEMMA FlowEnter ==
    ASSUME NEW k, Flow(k)
    PROVE  /\ LET j == ReadIn(k, TRUE, "data")
              IN  /\ j.rdstate = "done" /\ j.wrstate \in {"stop", "busy"}
                  /\ Flow(RdStop(j)) /\ RdStop(j).reading = TRUE
                  /\ RdStop(j).writes = k.writes
           /\ \A x \in {"eof", "error"} :
                 /\ Flow(ReadIn(k, TRUE, x)) /\ ReadIn(k, TRUE, x).reading = FALSE
                 /\ ReadIn(k, TRUE, x).writes = k.writes
  <1> DEFINE rd == k.rdstate
             wr == k.wrstate
             rg == k.reading
             ws == k.writes
             y == TRUE
             no == FALSE
             dn == "none"
             dd == "done"
             j == ReadIn(k, y, "data")
  <1>1. Sock(k, rd, wr, rg, ws, y, no, dn) /\ wr \in {"stop", "busy"} /\ y \in BOOLEAN
    BY DEF Flow
  <1>2. /\ Sock(j, "done", wr, y, ws, y, no, dn)
        /\ \A x \in {"eof", "error"} : Sock(ReadIn(k, y, x), "stop", wr, FALSE, ws, y, no, dn)
    <2> HIDE DEF rd, wr, rg, ws, y, no, dn
    <2> QED BY <1>1, SockEnter
  <1> HIDE DEF j
  <1>3. Sock(RdStop(j), "stop", wr, y, ws, y, no, dn)
    <2>1. Sock(j, dd, wr, y, ws, y, no, dn)
      BY <1>2
    <2> HIDE DEF wr, ws, y, no, dn, dd
    <2> QED BY <2>1, SockStop
  <1>4. j.rdstate = "done" /\ j.wrstate = wr
    BY <1>2 DEF Sock
  <1>5. ASSUME NEW n, NEW rg2, Sock(n, "stop", wr, rg2, ws, y, no, dn)
        PROVE  Flow(n) /\ n.reading = rg2 /\ n.writes = ws
    <2>1. n.rdstate = "stop" /\ n.wrstate = wr /\ n.reading = rg2 /\ n.writes = ws
      BY <1>5 DEF Sock
    <2> QED BY <1>1, <1>5, <2>1 DEF Flow
  <1>6. Flow(RdStop(j)) /\ RdStop(j).reading = y /\ RdStop(j).writes = ws
    BY <1>3, <1>5
  <1>7. ASSUME NEW x \in {"eof", "error"}
        PROVE  /\ Flow(ReadIn(k, y, x)) /\ ReadIn(k, y, x).reading = FALSE
               /\ ReadIn(k, y, x).writes = ws
    BY <1>2, <1>5, <1>7
  <1> QED BY <1>1, <1>4, <1>6, <1>7 DEF j

\* What a read brings once the client is accepted: the next packets of data.
LEMMA MoreRead ==
    ASSUME NEW i, NEW o, NEW st, NEW d \in ServerCtx, Authed(d),
           NEW rd \in NextReads(Live(i, o, st, d))
    PROVE  LET q == Came(d, rd)
               e == Then(d, rd)
               h == HandshakeLen(d)
           IN  /\ Passes(Got(d, rd), d.cipher, q) /\ q \in Seq(Items)
               /\ e \in ServerCtx /\ e.cipher = d.cipher /\ e.udp = d.udp /\ e.begun = d.begun
               /\ e.closing = d.closing /\ e.valid = d.valid /\ d.valid /\ e.srv = d.srv
               /\ e.bad = d.bad /\ e.sent = d.sent /\ Authed(e) /\ HandshakeLen(e) = h
               /\ Apps(d.got - h) \o q = Apps(e.got - h)
               /\ 2 * (d.got - h) + One(d.cut) + 1 <= 2 * (e.got - h) + One(e.cut)
  <1> DEFINE c == d.cipher
             q == Came(d, rd)
             e == Then(d, rd)
             r == Got(d, rd)
             h == HandshakeLen(d)
             n == rd.n
             g == d.got
             b == rd.cut
             m == c.mode
  <1>1. /\ c \in CipherCtx /\ m \in Modes /\ h \in 1 .. 4 /\ n \in 0 .. MaxData + 4
        /\ n <= h + MaxData /\ n \in Nat /\ g \in Nat /\ g <= n /\ b \in BOOLEAN
        /\ MaxData \in Nat
    BY ReadBounds
  <1>2. /\ d.valid /\ (n = g => b /\ ~d.cut) /\ (b /\ m = "plain" => n = 0)
    BY LiveReads
  <1>3. q \in Seq(Items) /\ r = tunnel_cipher_server_decrypt(c, q, b)
    BY CameFacts
  <1>4. g >= h /\ Accepted(c) /\ h = Len(Handshake(m)) /\ d.cut \in BOOLEAN
    BY CtxFields DEF Authed, Accepted, HandshakeLen
  <1>5. c.mode # "plain" \/ ~b
    <2> HIDE DEF n, g, h, c, b
    <2>1. n > 0
      <3>1. h \in 1 .. 4 /\ n \in Nat /\ g \in Nat /\ g <= n /\ h <= g
        BY <1>1, <1>4
      <3> QED BY <3>1
    <2> QED BY <1>1, <1>2, <2>1 DEF m
  <1>6. Passes(r, c, q)
    <2>1. Passes(r, c, q \o Cut(c, b))
      BY <1>3, <1>4, DecryptOpen
    <2>2. q \o Cut(c, b) = q
      BY <1>1, <1>3, <1>5, CutFacts
    <2> QED BY <2>1, <2>2
  <1>7. e = TookTo(d, c, n, b)
    BY <1>6 DEF Then, Passes
  <1> HIDE DEF e, r, q
  <1>8. /\ e \in ServerCtx /\ e.cipher = c /\ e.udp = d.udp /\ e.begun = d.begun
        /\ e.closing = d.closing /\ e.valid = d.valid /\ e.srv = d.srv
        /\ e.bad = d.bad /\ e.sent = d.sent /\ e.got = n /\ e.cut = b
    BY <1>1, <1>7, CtxTook
  <1>9. HandshakeLen(e) = h
    BY <1>8 DEF HandshakeLen
  <1>10. Authed(e)
    <2>1. e.got >= HandshakeLen(e) /\ e.got <= HandshakeLen(e) + MaxData
      <3> HIDE DEF h, n, g
      <3> QED BY <1>1, <1>4, <1>8, <1>9
    <2> QED BY <1>4, <1>8, <2>1 DEF Authed, Accepted
  <1>11. Apps(g - h) \o q = Apps(n - h)
    <2>1. Apps(g - Len(Handshake(m))) \o SubSeq(ClientStream(m), g + 1, n)
            = Apps(n - Len(Handshake(m)))
      <3> HIDE DEF m, g, n, h
      <3>1. Len(Handshake(m)) <= g /\ n <= Len(Handshake(m)) + MaxData
        BY <1>1, <1>4
      <3> QED BY <1>1, <3>1, StreamMore
    <2> QED BY <1>4, <2>1 DEF q, Came
  <1>12. 2 * (g - h) + One(d.cut) + 1 <= 2 * (n - h) + One(b)
    <2> DEFINE x == One(d.cut)
               z == One(b)
    <2>1. x \in {0, 1} /\ z \in {0, 1} /\ (~d.cut => x = 0) /\ (b => z = 1)
      BY <1>1, <1>4 DEF One
    <2> HIDE DEF x, z, h, n, g, b
    <2>2. h \in Nat
      BY <1>1
    <2>3. n = g => x = 0 /\ z = 1
      BY <1>2, <2>1
    <2>4. 2 * (g - h) + x + 1 <= 2 * (n - h) + z
      BY <1>1, <2>1, <2>2, <2>3
    <2> QED BY <2>4 DEF x, z
  <1> QED BY <1>2, <1>3, <1>6, <1>8, <1>9, <1>10, <1>11, <1>12 DEF e, r, q

\* What goes on while the tunnel relays is counted in these terms.
LEMMA FlowCounts ==
    ASSUME NEW d \in ServerCtx, Authed(d)
    PROVE  /\ d.got - HandshakeLen(d) \in Nat /\ One(d.cut) \in {0, 1} /\ One(~d.valid) \in {0, 1}
           /\ One(d.closing) \in {0, 1} /\ d.srv \in Nat /\ d.srv <= MaxData
           /\ (d.valid => One(~d.valid) = 0) /\ (~d.valid => One(~d.valid) = 1)
           /\ (d.closing => One(d.closing) = 1) /\ (~d.closing => One(d.closing) = 0)
  <1>1. d.got - HandshakeLen(d) \in Nat
    BY AuthedCount
  <1>2. d.cut \in BOOLEAN /\ d.valid \in BOOLEAN /\ d.closing \in BOOLEAN
        /\ d.srv \in 0 .. MaxData /\ MaxData \in Nat
    BY CtxFields, MaxDataAssumption
  <1>3. d.srv \in Nat /\ d.srv <= MaxData
    BY <1>2
  <1>4. /\ One(d.cut) \in {0, 1} /\ One(~d.valid) \in {0, 1} /\ One(d.closing) \in {0, 1}
        /\ (d.valid => One(~d.valid) = 0) /\ (~d.valid => One(~d.valid) = 1)
        /\ (d.closing => One(d.closing) = 1) /\ (~d.closing => One(d.closing) = 0)
    BY <1>2 DEF One
  <1> QED BY <1>1, <1>3, <1>4

\* A write to the target while the tunnel relays.
LEMMA StreamOut ==
    ASSUME NEW st, NEW i, NEW o, NEW d, AtStreaming(st, i, o, d), NEW e \in ServerCtx,
           NEW q \in Seq(Items), e.bad = d.bad, e.udp = d.udp, e.cipher = d.cipher,
           e.begun = d.begun, e.closing = d.closing, e.srv = d.srv, e.sent = d.sent, Authed(e),
           e.valid => d.valid /\ Apps(d.got - HandshakeLen(d)) \o q
                                   = Apps(e.got - HandshakeLen(d)),
           2 * (d.got - HandshakeLen(d)) + One(d.cut) + One(~d.valid) + 1
             <= 2 * (e.got - HandshakeLen(d)) + One(e.cut) + One(~e.valid)
    PROVE  Good(Write(Live(i, o, st, e), "outgoing", q))
  <1> DEFINE f == SaidOut(e, q)
             k == socket_ctx_write(o, q)
  <1>1. /\ st = "streaming" /\ Flow(i) /\ Flow(o) /\ i.reading = TRUE /\ o.reading = ~d.closing
        /\ d \in ServerCtx /\ d.bad = {} /\ d.udp = NoRelay /\ Authed(d) /\ Down(d)
        /\ d.valid => d.sent["outgoing"] = Apps(d.got - HandshakeLen(d))
        /\ Len(i.writes) <= d.srv + One(d.closing)
        /\ Len(o.writes) <= 2 * (d.got - HandshakeLen(d)) + One(d.cut) + One(~d.valid)
    BY DEF AtStreaming
  <1>2. /\ Write(Live(i, o, st, e), "outgoing", q) = Live(i, k, st, f)
        /\ Flow(k) /\ k.reading = o.reading /\ Len(o.writes) \in Nat
        /\ Len(k.writes) = Len(o.writes) + 1
    BY <1>1, FlowSay, FlowWrite
  <1>3. /\ f \in ServerCtx /\ f.cipher = d.cipher /\ f.udp = d.udp /\ f.begun = d.begun
        /\ f.closing = d.closing /\ f.got = e.got /\ f.cut = e.cut /\ f.valid = e.valid
        /\ f.srv = d.srv /\ f.bad = d.bad /\ f.sent["incoming"] = d.sent["incoming"]
        /\ f.sent["outgoing"] = d.sent["outgoing"] \o q
    <2>1. /\ f \in ServerCtx /\ f.cipher = e.cipher /\ f.udp = e.udp /\ f.begun = e.begun
          /\ f.closing = e.closing /\ f.got = e.got /\ f.cut = e.cut /\ f.valid = e.valid
          /\ f.srv = e.srv /\ f.bad = e.bad /\ f.sent["incoming"] = e.sent["incoming"]
          /\ f.sent["outgoing"] = e.sent["outgoing"] \o q
      BY CtxSaidOut
    <2> HIDE DEF f
    <2> QED BY <2>1
  <1> HIDE DEF f, k
  <1>4. HandshakeLen(f) = HandshakeLen(d) /\ Authed(f)
    BY <1>3, AuthedSame DEF HandshakeLen
  <1>5. Down(f)
    BY <1>1, <1>3, DownSame
  <1>6. f.valid => f.sent["outgoing"] = Apps(f.got - HandshakeLen(f))
    BY <1>1, <1>3, <1>4
  <1>7. Len(i.writes) <= f.srv + One(f.closing)
    BY <1>1, <1>3
  <1>8. Len(k.writes) <= 2 * (f.got - HandshakeLen(f)) + One(f.cut) + One(~f.valid)
    <2> DEFINE x == d.got - HandshakeLen(d)
               y == e.got - HandshakeLen(d)
               l == Len(o.writes)
               m == Len(k.writes)
               a == One(d.cut)
               b == One(~d.valid)
               v == One(e.cut)
               w == One(~e.valid)
    <2>1. x \in Nat /\ y \in Nat /\ a \in {0, 1} /\ b \in {0, 1} /\ v \in {0, 1} /\ w \in {0, 1}
      <3>1. HandshakeLen(e) = HandshakeLen(d)
        BY DEF HandshakeLen
      <3> QED BY <1>1, <3>1, FlowCounts
    <2>2. l <= 2 * x + a + b /\ m = l + 1 /\ l \in Nat /\ 2 * x + a + b + 1 <= 2 * y + v + w
      BY <1>1, <1>2
    <2> HIDE DEF x, y, l, m, a, b, v, w
    <2>3. m <= 2 * y + v + w
      BY <2>1, <2>2
    <2>4. m <= 2 * (f.got - HandshakeLen(f)) + One(f.cut) + One(~f.valid)
      BY <1>3, <1>4, <2>3 DEF y, v, w
    <2> QED BY <2>4 DEF m
  <1>9. AtStreaming(st, i, k, f)
    BY <1>1, <1>2, <1>3, <1>4, <1>5, <1>6, <1>7, <1>8 DEF AtStreaming
  <1>10. Good(Live(i, k, st, f))
    BY <1>9, LiveGood DEF StageOK
  <1> QED BY <1>2, <1>10

\* The client sent what does not authenticate.
LEMMA StreamLost ==
    ASSUME NEW st, NEW i, NEW o, NEW d, AtStreaming(st, i, o, d), d.valid, NEW q \in Seq(Items)
    PROVE  /\ Good(tunnel_shutdown(Live(i, o, st, Lost(d))))
           /\ Good(Write(Live(i, o, st, Lost(d)), "outgoing", q))
  <1> DEFINE e == Lost(d)
             no == FALSE
  <1>1. /\ st = "streaming" /\ Flow(i) /\ Flow(o) /\ i.reading = TRUE /\ o.reading = ~d.closing
        /\ d \in ServerCtx /\ d.bad = {} /\ d.udp = NoRelay /\ Authed(d) /\ Down(d)
        /\ Len(i.writes) <= d.srv + One(d.closing)
        /\ Len(o.writes) <= 2 * (d.got - HandshakeLen(d)) + One(d.cut) + One(~d.valid)
        /\ no \in BOOLEAN
    BY DEF AtStreaming
  <1>2. /\ e \in ServerCtx /\ e.cipher = d.cipher /\ e.udp = d.udp /\ e.begun = d.begun
        /\ e.closing = d.closing /\ e.got = d.got /\ e.cut = d.cut /\ e.valid = no
        /\ e.srv = d.srv /\ e.bad = d.bad /\ e.sent = d.sent
    <2>1. e = ValidTo(d, no)
      BY DEF Lost
    <2> HIDE DEF no, e
    <2> QED BY <1>1, <2>1, CtxValid
  <1> HIDE DEF e
  <1>3. HandshakeLen(e) = HandshakeLen(d) /\ Authed(e)
    BY <1>1, <1>2, AuthedSame
  <1>4. Down(e)
    BY <1>1, <1>2, DownSame
  <1>5. /\ 2 * (d.got - HandshakeLen(d)) + One(d.cut) + One(~d.valid) + 1
             <= 2 * (e.got - HandshakeLen(d)) + One(e.cut) + One(~e.valid)
        /\ Len(o.writes) <= 2 * (e.got - HandshakeLen(e)) + One(e.cut) + One(~e.valid)
    <2> DEFINE x == d.got - HandshakeLen(d)
               l == Len(o.writes)
               a == One(d.cut)
               b == One(~d.valid)
               w == One(~e.valid)
    <2>1. x \in Nat /\ a \in {0, 1} /\ b = 0
      BY <1>1, FlowCounts
    <2>2. w = 1
      BY <1>2 DEF One
    <2>3. l <= 2 * x + a + b /\ l \in Nat
      BY <1>1, FlowFacts
    <2> HIDE DEF x, l, a, b, w
    <2>4. 2 * x + a + b + 1 <= 2 * x + a + w /\ l <= 2 * x + a + w
      BY <2>1, <2>2, <2>3
    <2> QED BY <1>2, <1>3, <2>4 DEF x, l, a, b, w
  <1>6. Good(Write(Live(i, o, st, e), "outgoing", q))
    BY <1>2, <1>3, <1>5, StreamOut
  <1>7. Good(tunnel_shutdown(Live(i, o, st, e)))
    <2>1. AtStreaming(st, i, o, e)
      BY <1>1, <1>2, <1>3, <1>4, <1>5 DEF AtStreaming
    <2>2. StageOK(st, i, o, e)
      BY <2>1 DEF StageOK
    <2>3. i \in OpenSocket /\ o \in OpenSocket /\ Len(i.writes) <= Len(i.writes)
          /\ Len(o.writes) <= Len(o.writes)
      BY <1>1, FlowFacts
    <2> QED BY <2>2, <2>3, GoodShut
  <1> QED BY <1>6, <1>7 DEF e

\* One more item for the client: the next packet, or the close frame.
NextDown(d, f, x) ==
    \/ /\ f.closing = FALSE /\ f.srv = d.srv + 1 /\ f.srv <= MaxData
       /\ x = DownTo(d.cipher.mode, f.srv) /\ f.begun = (d.cipher.mode = "tls")
    \/ /\ f.closing = TRUE /\ d.cipher.mode = "tls" /\ f.srv = d.srv /\ f.begun = d.begun
       /\ x = Reply("close")

\* It is what the client is to get next.
LEMMA DownMore ==
    ASSUME NEW d \in ServerCtx, Down(d), d.closing = FALSE, NEW f, NEW x, NextDown(d, f, x),
           f.cipher = d.cipher, f.sent["incoming"] = d.sent["incoming"] \o <<x>>
    PROVE  Down(f) /\ x \in Items
  <1> DEFINE m == d.cipher.mode
             A == AnswersTo(m)
             n == d.srv
             D == Downs(m, n)
             sd == d.sent["incoming"]
             nil == <<>>
  <1>1. m \in Modes /\ n \in 0 .. MaxData /\ MaxData \in Nat /\ n \in Nat /\ n <= MaxData
    BY CtxFields, ServerModesAssumption, MaxDataAssumption
  <1>2. A \in Seq(Items)
    BY <1>1, AnswersFacts
  <1>3. D \in Seq(Items)
    <2> HIDE DEF n, m
    <2> QED BY <1>1, DownsFacts
  <1>4. A \o D \in Seq(Items)
    <2> HIDE DEF A, D
    <2> QED BY <1>2, <1>3, ConcatProperties
  <1>5. sd = A \o D
    <2>1. sd = (A \o D) \o nil
      BY DEF Down
    <2> HIDE DEF A, D, sd
    <2>2. (A \o D) \o <<>> = A \o D
      BY <1>4, Assoc
    <2> QED BY <2>1, <2>2
  <1>6. CASE f.closing = FALSE /\ f.srv = n + 1 /\ f.srv <= MaxData /\ x = DownTo(m, f.srv)
             /\ f.begun = (m = "tls")
    <2>1. n \in 0 .. MaxData - 1 /\ n + 1 \in Nat /\ n + 1 <= MaxData /\ n + 1 \in 1 .. n + 1
      <3> HIDE DEF n
      <3> QED BY <1>1, <1>6
    <2> DEFINE E == Downs(m, n + 1)
               k == n + 1
    <2>2. D \o <<x>> = E
      <3> HIDE DEF m, n
      <3> QED BY <1>6, <2>1, DownsStep
    <2>3. E \in Seq(Items) /\ x \in Items
      <3>1. k \in Nat /\ k <= MaxData /\ k \in 1 .. k /\ x = DownTo(m, k)
        BY <1>6, <2>1
      <3> HIDE DEF m, k
      <3>2. Downs(m, k) \in Seq(Items) /\ DownTo(m, k) \in Items
        BY <3>1, DownsFacts
      <3> QED BY <3>1, <3>2 DEF k
    <2>4. <<x>> \in Seq(Items)
      BY <2>3
    <2>5. sd \o <<x>> = A \o E
      <3>1. (A \o D) \o <<x>> = A \o (D \o <<x>>)
        <4> DEFINE r == <<x>>
        <4> HIDE DEF A, D, r
        <4> QED BY <1>2, <1>3, <2>4, Assoc DEF r
      <3> QED BY <1>5, <2>2, <3>1
    <2>6. (A \o E) \o <<>> = A \o E
      <3> HIDE DEF A, E
      <3>1. A \o E \in Seq(Items)
        BY <1>2, <2>3, ConcatProperties
      <3> QED BY <3>1, Assoc
    <2>7. f.sent["incoming"] = AnswersTo(f.cipher.mode) \o Downs(f.cipher.mode, f.srv)
                               \o (IF f.closing THEN <<Reply("close")>> ELSE <<>>)
      BY <1>6, <2>5, <2>6
    <2>8. f.srv > 0
      <3> HIDE DEF n
      <3> QED BY <1>1, <1>6
    <2> QED BY <1>6, <2>3, <2>7, <2>8 DEF Down
  <1>7. CASE f.closing = TRUE /\ m = "tls" /\ f.srv = n /\ f.begun = d.begun
             /\ x = Reply("close")
    <2>1. x \in Items
      BY <1>7, ItemsFacts
    <2>2. f.sent["incoming"] = AnswersTo(f.cipher.mode) \o Downs(f.cipher.mode, f.srv)
                               \o (IF f.closing THEN <<Reply("close")>> ELSE <<>>)
      BY <1>5, <1>7
    <2> QED BY <1>7, <2>1, <2>2 DEF Down
  <1> QED BY <1>6, <1>7 DEF NextDown

\* server_ctx after a read from the target that could not be relayed.
LEMMA OverKeep ==
    ASSUME NEW i, NEW o, NEW g, NEW d, NEW e \in ServerCtx, Over(i, o, g, d), e.bad = d.bad,
           e.udp = d.udp, e.cipher = d.cipher, e.got = d.got,
           e.sent["outgoing"] = d.sent["outgoing"]
    PROVE  Over(i, o, g, e)
  <1>1. Authed(e) <=> Authed(d)
    BY AuthedSame
  <1> QED BY <1>1 DEF Over

\* A write to the client while the tunnel relays.
LEMMA StreamIn ==
    ASSUME NEW st, NEW i, NEW o, NEW d, AtStreaming(st, i, o, d), d.closing = FALSE,
           NEW e \in ServerCtx, NEW x, NextDown(d, e, x),
           e.bad = d.bad, e.udp = d.udp, e.cipher = d.cipher, e.got = d.got, e.cut = d.cut,
           e.valid = d.valid, e.sent = d.sent,
           NEW k, Flow(k), k.reading = ~e.closing, k.writes = o.writes
    PROVE  Good(Write(Live(i, k, st, e), "incoming", <<x>>))
  <1> DEFINE q == <<x>>
             f == SaidIn(e, q)
             j == socket_ctx_write(i, q)
  <1>1. /\ st = "streaming" /\ Flow(i) /\ i.reading = TRUE
        /\ d \in ServerCtx /\ d.bad = {} /\ d.udp = NoRelay /\ Authed(d) /\ Down(d)
        /\ d.valid => d.sent["outgoing"] = Apps(d.got - HandshakeLen(d))
        /\ Len(i.writes) <= d.srv + One(d.closing)
        /\ Len(o.writes) <= 2 * (d.got - HandshakeLen(d)) + One(d.cut) + One(~d.valid)
    BY DEF AtStreaming
  <1>2. x \in Items
    <2> DEFINE g == [sent |-> [s \in Side |-> d.sent["incoming"] \o <<x>>], cipher |-> d.cipher,
                     closing |-> e.closing, srv |-> e.srv, begun |-> e.begun]
    <2>1. NextDown(d, g, x) /\ g.cipher = d.cipher
          /\ g.sent["incoming"] = d.sent["incoming"] \o <<x>>
      BY DEF NextDown, Side
    <2> HIDE DEF g
    <2> QED BY <1>1, <2>1, DownMore
  <1>3. q \in Seq(Items)
    BY <1>2
  <1>4. /\ Write(Live(i, k, st, e), "incoming", q) = Live(j, k, st, f)
        /\ Flow(j) /\ j.reading = i.reading /\ Len(i.writes) \in Nat
        /\ Len(j.writes) = Len(i.writes) + 1
    <2> HIDE DEF q
    <2> QED BY <1>1, <1>3, FlowSay, FlowWrite
  <1>5. /\ f \in ServerCtx /\ f.cipher = d.cipher /\ f.udp = d.udp /\ f.begun = e.begun
        /\ f.closing = e.closing /\ f.got = d.got /\ f.cut = d.cut /\ f.valid = d.valid
        /\ f.srv = e.srv /\ f.bad = d.bad /\ f.sent["outgoing"] = d.sent["outgoing"]
        /\ f.sent["incoming"] = d.sent["incoming"] \o <<x>>
    <2>1. /\ f \in ServerCtx /\ f.cipher = e.cipher /\ f.udp = e.udp /\ f.begun = e.begun
          /\ f.closing = e.closing /\ f.got = e.got /\ f.cut = e.cut /\ f.valid = e.valid
          /\ f.srv = e.srv /\ f.bad = e.bad /\ f.sent["outgoing"] = e.sent["outgoing"]
          /\ f.sent["incoming"] = e.sent["incoming"] \o q
      <3>1. f = SaidIn(e, q)
        OBVIOUS
      <3> HIDE DEF q, f
      <3> QED BY <1>3, <3>1, CtxSaidIn
    <2> HIDE DEF f
    <2> QED BY <2>1
  <1> HIDE DEF f, j
  <1>6. NextDown(d, f, x)
    BY <1>5 DEF NextDown
  <1>7. Down(f)
    BY <1>1, <1>5, <1>6, DownMore
  <1>8. HandshakeLen(f) = HandshakeLen(d) /\ Authed(f)
    BY <1>1, <1>5, AuthedSame
  <1>9. Len(j.writes) <= f.srv + One(f.closing)
    <2> DEFINE l == Len(i.writes)
               m == Len(j.writes)
               a == One(d.closing)
               b == One(f.closing)
               y == d.srv
               z == f.srv
    <2>1. l \in Nat /\ m = l + 1 /\ l <= y + a /\ a = 0 /\ y \in Nat
      BY <1>1, <1>4, FlowCounts
    <2>2. (z = y + 1 /\ b = 0) \/ (z = y /\ b = 1)
      BY <1>6 DEF NextDown, One
    <2> HIDE DEF l, m, a, b, y, z
    <2>3. m <= z + b
      BY <2>1, <2>2
    <2> QED BY <2>3 DEF m, z, b
  <1>10. AtStreaming(st, j, k, f)
    BY <1>1, <1>4, <1>5, <1>7, <1>8, <1>9 DEF AtStreaming
  <1>11. Good(Live(j, k, st, f))
    BY <1>10, LiveGood DEF StageOK
  <1> QED BY <1>4, <1>11 DEF q

\* tunnel_server_streaming on what the client sent.
LEMMA UpOK ==
    ASSUME NEW st, NEW i, NEW o, NEW d, AtStreaming(st, i, o, d),
           NEW v \in RelayUp(Live(i, o, st, d))
    PROVE  Good(v)
  <1> DEFINE u == Live(i, o, st, d)
             late(r) == ~r.obfs_receipt /\ ~r.proto_confirm
             nil == <<>>
             junk == <<Reply("junk")>>
  <1>1. d \in ServerCtx /\ Authed(d)
    BY DEF AtStreaming
  <1>2. nil \in Seq(Items) /\ junk \in Seq(Items)
    <2>1. Reply("junk") \in Items
      BY ItemsFacts
    <2> QED BY <2>1
  <1>3. \/ \E w \in Spoilt(u) : \/ v = Write(w, "outgoing", nil) \/ v = tunnel_shutdown(w)
                                \/ v = Write(w, "outgoing", junk)
        \/ \E rd \in NextReads(u) :
              v = Write(ServerAssert(Taken(u, rd), late(Decrypt(u, rd)), "late_feedback"),
                        "outgoing", Decrypt(u, rd).out)
    <2>1. \/ \E w \in {x \in Spoilt(u) : u.data.cipher.mode # "plain"} :
                v \in IF u.data.cipher.mode = "tls" THEN {Write(w, "outgoing", <<>>)}
                      ELSE {tunnel_shutdown(w), Write(w, "outgoing", <<Reply("junk")>>)}
          \/ \E rd \in NextReads(u) :
                v = Write(ServerAssert(Taken(u, rd), late(Decrypt(u, rd)), "late_feedback"),
                          "outgoing", Decrypt(u, rd).out)
      <3> HIDE DEF u
      <3>1. v \in RelayUp(u)
        BY DEF u
      <3> DEFINE G(w) == IF u.data.cipher.mode = "tls" THEN {Write(w, "outgoing", <<>>)}
                         ELSE {tunnel_shutdown(w), Write(w, "outgoing", <<Reply("junk")>>)}
                 H(rd) == Write(ServerAssert(Taken(u, rd), late(Decrypt(u, rd)), "late_feedback"),
                                "outgoing", Decrypt(u, rd).out)
                 S == {x \in Spoilt(u) : u.data.cipher.mode # "plain"}
                 A == UNION {G(w) : w \in S}
                 B == {H(rd) : rd \in NextReads(u)}
      <3>2. RelayUp(u) = A \cup B
        BY DEF RelayUp
      <3>3. v \in A \/ v \in B
        <4> HIDE DEF A, B
        <4> QED BY <3>1, <3>2
      <3> HIDE DEF G, H, S
      <3>4. ASSUME v \in A PROVE \E w \in S : v \in G(w)
        BY <3>4, Zenon
      <3>5. ASSUME v \in B PROVE \E rd \in NextReads(u) : v = H(rd)
        BY <3>5, Zenon
      <3> HIDE DEF A, B
      <3>6. (\E w \in S : v \in G(w)) \/ (\E rd \in NextReads(u) : v = H(rd))
        BY <3>3, <3>4, <3>5
      <3> QED BY <3>6 DEF G, H, S
    <2> HIDE DEF u, nil, junk, late
    <2>2. ASSUME NEW w, v \in IF u.data.cipher.mode = "tls" THEN {Write(w, "outgoing", <<>>)}
                              ELSE {tunnel_shutdown(w), Write(w, "outgoing", <<Reply("junk")>>)}
          PROVE  \/ v = Write(w, "outgoing", nil) \/ v = tunnel_shutdown(w)
                 \/ v = Write(w, "outgoing", junk)
      BY <2>2 DEF nil, junk
    <2> QED BY <2>1, <2>2
  <1>4. ASSUME NEW w \in Spoilt(u), \/ v = Write(w, "outgoing", nil) \/ v = tunnel_shutdown(w)
                                    \/ v = Write(w, "outgoing", junk)
        PROVE  Good(v)
    <2>1. d.valid /\ w = Live(i, o, st, Lost(d))
      BY <1>4, LiveSpoilt
    <2> DEFINE z == Live(i, o, st, Lost(d))
    <2> HIDE DEF nil, junk
    <2>2. Good(tunnel_shutdown(z)) /\ Good(Write(z, "outgoing", nil))
          /\ Good(Write(z, "outgoing", junk))
      BY <1>2, <2>1, StreamLost
    <2> HIDE DEF z
    <2> QED BY <1>4, <2>1, <2>2 DEF z
  <1>5. ASSUME NEW rd \in NextReads(u),
               v = Write(ServerAssert(Taken(u, rd), late(Decrypt(u, rd)), "late_feedback"),
                         "outgoing", Decrypt(u, rd).out)
        PROVE  Good(v)
    <2> DEFINE q == Came(d, rd)
               e == Then(d, rd)
               r == Got(d, rd)
               h == HandshakeLen(d)
    <2>1. /\ Passes(r, d.cipher, q) /\ q \in Seq(Items)
          /\ e \in ServerCtx /\ e.cipher = d.cipher /\ e.udp = d.udp /\ e.begun = d.begun
          /\ e.closing = d.closing /\ e.valid = d.valid /\ d.valid /\ e.srv = d.srv
          /\ e.bad = d.bad /\ e.sent = d.sent /\ Authed(e)
          /\ Apps(d.got - h) \o q = Apps(e.got - h)
          /\ 2 * (d.got - h) + One(d.cut) + 1 <= 2 * (e.got - h) + One(e.cut)
      BY <1>1, <1>5, MoreRead
    <2>2. Decrypt(u, rd) = r /\ Taken(u, rd) = Live(i, o, st, e)
      BY LiveTaken
    <2> HIDE DEF u, q, e, r
    <2>3. r.out = q /\ late(r)
      BY <2>1 DEF Passes
    <2>4. ServerAssert(Taken(u, rd), late(Decrypt(u, rd)), "late_feedback") = Live(i, o, st, e)
      BY <2>2, <2>3 DEF ServerAssert
    <2>5. v = Write(Live(i, o, st, e), "outgoing", q)
      BY <1>5, <2>2, <2>3, <2>4
    <2>6. 2 * (d.got - h) + One(d.cut) + One(~d.valid) + 1
             <= 2 * (e.got - h) + One(e.cut) + One(~e.valid)
      <3> DEFINE x == 2 * (d.got - h)
                 y == 2 * (e.got - h)
                 a == One(d.cut)
                 b == One(e.cut)
      <3>1. x \in Nat /\ y \in Nat /\ a \in {0, 1} /\ b \in {0, 1}
        <4>1. HandshakeLen(e) = h
          BY <2>1 DEF HandshakeLen
        <4>2. d.got - h \in Nat /\ e.got - h \in Nat /\ a \in {0, 1} /\ b \in {0, 1}
          BY <1>1, <2>1, <4>1, FlowCounts
        <4> QED BY <4>2
      <3>2. One(~d.valid) = 0 /\ One(~e.valid) = 0 /\ x + a + 1 <= y + b
        BY <1>1, <2>1, FlowCounts
      <3> HIDE DEF x, y, a, b
      <3>3. x + a + 0 + 1 <= y + b + 0
        BY <3>1, <3>2
      <3> QED BY <3>2, <3>3 DEF x, y, a, b
    <2> HIDE DEF h
    <2>7. Good(Write(Live(i, o, st, e), "outgoing", q))
      BY <2>1, <2>6, StreamOut DEF h
    <2> QED BY <2>5, <2>7
  <1> QED BY <1>3, <1>4, <1>5

DataSrv(u, n) == [u EXCEPT !.data.srv = n]
DataBegun(u, b) == [u EXCEPT !.data.begun = b]

\* server_ctx notes a packet of the target.
LEMMA LiveSrv ==
    ASSUME NEW i, NEW o, NEW st, NEW d, NEW n
    PROVE  /\ DataSrv(Live(i, o, st, d), n) = Live(i, o, st, SrvTo(d, n))
           /\ DataBegun(Live(i, o, st, d), n) = Live(i, o, st, BegunTo(d, n))
  <1> DEFINE u == Live(i, o, st, d)
  <1>1. u.data = d
    BY LiveFields
  <1>2. SetData(u, SrvTo(d, n)) = Live(i, o, st, SrvTo(d, n))
        /\ SetData(u, BegunTo(d, n)) = Live(i, o, st, BegunTo(d, n))
    BY LiveSet
  <1> HIDE DEF u
  <1>3. DataSrv(u, n) = SetData(u, SrvTo(d, n))
    BY <1>1 DEF DataSrv, SetData, SrvTo
  <1>4. DataBegun(u, n) = SetData(u, BegunTo(d, n))
    BY <1>1 DEF DataBegun, SetData, BegunTo
  <1> QED BY <1>2, <1>3, <1>4 DEF u

\* tunnel_server_streaming on what the target sent.
LEMMA DownOK ==
    ASSUME NEW st, NEW i, NEW o, NEW d, AtStreaming(st, i, o, d), d.closing = FALSE,
           NEW v \in RelayDown(Live(i, o, st, d))
    PROVE  Good(v)
  <1> DEFINE u == Live(i, o, st, d)
  <1>1. /\ d \in ServerCtx /\ Authed(d) /\ Down(d) /\ Flow(i) /\ Flow(o) /\ st = "streaming"
        /\ o.reading = TRUE
    BY DEF AtStreaming
  <1>2. u.data = d
    BY LiveFields
  <1> HIDE DEF u
  <1>3. PICK n \in NextSrv(u) :
           IF d.cipher.mode = "tls"
           THEN v = Write(DataBegun(DataSrv(u, n), TRUE), "incoming", <<Frame(u, n)>>)
           ELSE \/ v = tunnel_shutdown(DataSrv(u, n))
                \/ v = Write(DataSrv(u, n), "incoming", <<Item("srv", n)>>)
    <2>1. \E n \in NextSrv(u) :
             v \in IF u.data.cipher.mode = "tls"
                   THEN {Write(DataBegun(DataSrv(u, n), TRUE), "incoming", <<Frame(u, n)>>)}
                   ELSE {tunnel_shutdown(DataSrv(u, n)),
                         Write(DataSrv(u, n), "incoming", <<Item("srv", n)>>)}
      BY Zenon DEF RelayDown, DataSrv, DataBegun, u
    <2> QED BY <1>2, <2>1
  <1>4. n = d.srv + 1 /\ n <= MaxData /\ n \in 0 .. MaxData
    <2>1. n = d.srv + 1 /\ n <= MaxData
      BY <1>2 DEF NextSrv
    <2>2. d.srv \in 0 .. MaxData /\ MaxData \in Nat
      BY <1>1, CtxFields, MaxDataAssumption
    <2> QED BY <2>1, <2>2
  <1> DEFINE e == SrvTo(d, n)
             yes == TRUE
             g == BegunTo(e, yes)
  <1>5. /\ e \in ServerCtx /\ e.bad = d.bad /\ e.udp = d.udp /\ e.cipher = d.cipher
        /\ e.got = d.got /\ e.cut = d.cut /\ e.valid = d.valid /\ e.sent = d.sent
        /\ e.srv = n /\ e.begun = d.begun /\ e.closing = FALSE
    BY <1>1, <1>4, CtxSrv
  <1>6. DataSrv(u, n) = Live(i, o, st, e)
    <2>1. DataSrv(Live(i, o, st, d), n) = Live(i, o, st, SrvTo(d, n))
      BY LiveSrv
    <2> QED BY <2>1 DEF u
  <1> HIDE DEF e
  <1>7. DataBegun(DataSrv(u, n), TRUE) = Live(i, o, st, g)
    <2> HIDE DEF yes
    <2>1. DataBegun(Live(i, o, st, e), yes) = Live(i, o, st, BegunTo(e, yes))
      BY LiveSrv
    <2> QED BY <1>6, <2>1 DEF yes
  <1>8. /\ g \in ServerCtx /\ g.bad = d.bad /\ g.udp = d.udp /\ g.cipher = d.cipher
        /\ g.got = d.got /\ g.cut = d.cut /\ g.valid = d.valid /\ g.sent = d.sent
        /\ g.srv = n /\ g.begun = yes /\ g.closing = FALSE
    <2>1. yes \in BOOLEAN
      OBVIOUS
    <2>2. /\ g \in ServerCtx /\ g.bad = e.bad /\ g.udp = e.udp /\ g.cipher = e.cipher
          /\ g.got = e.got /\ g.cut = e.cut /\ g.valid = e.valid /\ g.sent = e.sent
          /\ g.srv = e.srv /\ g.begun = yes /\ g.closing = e.closing
      <3> HIDE DEF yes
      <3> QED BY <1>5, <2>1, CtxBegun
    <2> HIDE DEF g
    <2> QED BY <1>5, <2>2
  <1> HIDE DEF g
  <1>9. CASE d.cipher.mode = "tls"
    <2> DEFINE x == Frame(u, n)
    <2>1. x = DownTo(d.cipher.mode, n)
      <3>1. d.begun <=> n # 1
        <4>1. d.srv \in Nat
          BY <1>1, FlowCounts
        <4>2. d.begun <=> d.srv > 0
          BY <1>1, <1>9 DEF Down
        <4>3. d.srv > 0 <=> n # 1
          BY <1>4, <4>1
        <4> QED BY <4>2, <4>3
      <3> QED BY <1>2, <1>9, <3>1 DEF Frame, DownTo
    <2>2. v = Write(Live(i, o, st, g), "incoming", <<x>>)
      BY <1>3, <1>7, <1>9
    <2> HIDE DEF x
    <2>3. NextDown(d, g, x)
      BY <1>4, <1>8, <1>9, <2>1 DEF NextDown
    <2>4. Good(Write(Live(i, o, st, g), "incoming", <<x>>))
      BY <1>1, <1>8, <2>3, StreamIn
    <2> QED BY <2>2, <2>4
  <1>10. CASE d.cipher.mode # "tls"
    <2> DEFINE x == Item("srv", n)
    <2>1. v = tunnel_shutdown(Live(i, o, st, e)) \/ v = Write(Live(i, o, st, e), "incoming", <<x>>)
      BY <1>3, <1>6, <1>10
    <2>2. NextDown(d, e, x)
      <3>1. d.begun = FALSE
        BY <1>1, <1>10, CtxFields DEF Down
      <3> QED BY <1>4, <1>5, <1>10, <3>1 DEF NextDown, DownTo
    <2> HIDE DEF x
    <2>3. Good(Write(Live(i, o, st, e), "incoming", <<x>>))
      BY <1>1, <1>5, <2>2, StreamIn
    <2>4. Good(tunnel_shutdown(Live(i, o, st, e)))
      <3>1. /\ i \in OpenSocket /\ o \in OpenSocket /\ st \in tunnel_stage
            /\ Over(i, o, FALSE, d)
        <4>1. StageOK(st, i, o, d)
          BY DEF StageOK
        <4> QED BY <4>1, StageOver
      <3> DEFINE no == FALSE
      <3>2. Over(i, o, no, d)
        BY <3>1
      <3> HIDE DEF no
      <3>3. Over(i, o, no, e)
        BY <1>5, <3>2, OverKeep
      <3>4. Over(i, o, FALSE, e)
        BY <3>3 DEF no
      <3>5. DeadOK(tunnel_shutdown(Live(i, o, st, e)))
        BY <3>1, <3>4, ShutLive
      <3> QED BY <3>5 DEF Good
    <2> QED BY <2>1, <2>3, <2>4
  <1> QED BY <1>9, <1>10

\* The read callback of a tunnel that relays.
RelayIn(k, x) == ReadIn(k, TRUE, x)

\* On a live tunnel.
LEMMA StreamEnter ==
    ASSUME NEW i, NEW o, NEW st \in {"streaming", "udp_streaming"}, NEW d, NEW x
    PROVE  /\ ReadEnter(Live(i, o, st, d), "incoming", x) = Live(RelayIn(i, x), o, st, d)
           /\ ReadEnter(Live(i, o, st, d), "outgoing", x) = Live(i, RelayIn(o, x), st, d)
  <1> DEFINE b == st \in {"streaming", "udp_streaming"}
             y == TRUE
  <1>1. b = y /\ b
    OBVIOUS
  <1>2. /\ ReadEnter(Live(i, o, st, d), "incoming", x) = Live(ReadIn(i, b, x), o, st, d)
        /\ ReadEnter(Live(i, o, st, d), "outgoing", x) = Live(i, ReadIn(o, b, x), st, d)
    <2>1. b \/ i.rdstate = "busy"
      BY <1>1
    <2>2. b \/ o.rdstate = "busy"
      BY <1>1
    <2> QED BY <2>1, <2>2, LiveEnter
  <1> HIDE DEF b, y
  <1>3. /\ ReadEnter(Live(i, o, st, d), "incoming", x) = Live(ReadIn(i, y, x), o, st, d)
        /\ ReadEnter(Live(i, o, st, d), "outgoing", x) = Live(i, ReadIn(o, y, x), st, d)
    BY <1>1, <1>2
  <1> QED BY <1>3 DEF y, RelayIn

\* On its outgoing side.
LEMMA StreamEnterOut ==
    ASSUME NEW i, NEW o, NEW st, st = "streaming", NEW d, NEW x
    PROVE  ReadEnter(Live(i, o, st, d), "outgoing", x) = Live(i, RelayIn(o, x), st, d)
  <1>1. st \in {"streaming", "udp_streaming"}
    OBVIOUS
  <1> QED BY <1>1, StreamEnter

\* A read that ends a tunnel which relays.
LEMMA StreamEnds ==
    ASSUME NEW st, NEW i, NEW o, NEW d, NEW x \in {"eof", "error"}
    PROVE  /\ AtStreaming(st, i, o, d) \/ AtUdpStreaming(st, i, o, d) =>
                 Good(tunnel_shutdown(ReadEnter(Live(i, o, st, d), "incoming", x)))
           /\ AtStreaming(st, i, o, d) =>
                 Good(tunnel_shutdown(ReadEnter(Live(i, o, st, d), "outgoing", x)))
  <1> DEFINE j == RelayIn(i, x)
             k == RelayIn(o, x)
  <1>1. ASSUME AtStreaming(st, i, o, d) \/ AtUdpStreaming(st, i, o, d)
        PROVE  Good(tunnel_shutdown(ReadEnter(Live(i, o, st, d), "incoming", x)))
    <2>1. st \in {"streaming", "udp_streaming"} /\ Flow(i) /\ StageOK(st, i, o, d)
      BY <1>1 DEF AtStreaming, AtUdpStreaming, StageOK
    <2>2. ReadEnter(Live(i, o, st, d), "incoming", x) = Live(j, o, st, d)
      BY <2>1, StreamEnter
    <2>3. Flow(j) /\ j.writes = i.writes
      BY <2>1, FlowEnter DEF RelayIn
    <2> HIDE DEF j
    <2>4. j \in OpenSocket /\ i.writes \in Seq(Payload)
      BY <2>1, <2>3, FlowFacts
    <2>5. o \in OpenSocket /\ o.writes \in Seq(Payload)
      BY <2>1, StageOver, SockOf
    <2>6. Len(j.writes) <= Len(i.writes) /\ Len(o.writes) <= Len(o.writes)
      BY <2>3, <2>4, <2>5
    <2>7. Good(tunnel_shutdown(Live(j, o, st, d)))
      BY <2>1, <2>4, <2>5, <2>6, GoodShut
    <2> QED BY <2>2, <2>7
  <1>2. ASSUME AtStreaming(st, i, o, d)
        PROVE  Good(tunnel_shutdown(ReadEnter(Live(i, o, st, d), "outgoing", x)))
    <2>1. st \in {"streaming", "udp_streaming"} /\ Flow(i) /\ Flow(o) /\ StageOK(st, i, o, d)
      BY <1>2 DEF AtStreaming, StageOK
    <2>2. ReadEnter(Live(i, o, st, d), "outgoing", x) = Live(i, k, st, d)
      BY <2>1, StreamEnter
    <2>3. Flow(k) /\ k.writes = o.writes
      BY <2>1, FlowEnter DEF RelayIn
    <2> HIDE DEF k
    <2>4. k \in OpenSocket /\ o.writes \in Seq(Payload) /\ i \in OpenSocket /\ i.writes \in Seq(Payload)
      BY <2>1, <2>3, FlowFacts
    <2>5. Len(i.writes) <= Len(i.writes) /\ Len(k.writes) <= Len(o.writes)
      BY <2>3, <2>4
    <2>6. Untouched(o) => Untouched(k)
      BY <2>1, <2>3 DEF Flow, Sock, Untouched
    <2>7. Good(tunnel_shutdown(Live(i, k, st, d)))
      BY <2>1, <2>4, <2>5, <2>6, GoodShut
    <2> QED BY <2>2, <2>7
  <1> QED BY <1>1, <1>2

\* tunnel_server_streaming on a read.
LEMMA StreamDispatch ==
    ASSUME NEW i, NEW o, NEW d
    PROVE  /\ /\ i.rdstate = "done" /\ i.wrstate \in {"stop", "busy"}
              /\ o.rdstate \in {"stop", "busy"} /\ o.wrstate \in {"stop", "busy"}
              => tunnel_dispatcher(Live(i, o, "streaming", d), "incoming")
                   = RelayUp(Live(RdStop(i), o, "streaming", d))
           /\ /\ o.rdstate = "done" /\ o.wrstate \in {"stop", "busy"}
              /\ i.rdstate \in {"stop", "busy"} /\ i.wrstate \in {"stop", "busy"}
              => tunnel_dispatcher(Live(i, o, "streaming", d), "outgoing")
                   = RelayDown(Live(i, RdStop(o), "streaming", d))
  <1> DEFINE st == "streaming"
             u == Live(i, o, st, d)
  <1>1. u.stage = st /\ u.sock["incoming"] = i /\ u.sock["outgoing"] = o
    BY LiveFields
  <1>2. Put(u, "incoming", RdStop(i)) = Live(RdStop(i), o, st, d)
        /\ Put(u, "outgoing", RdStop(o)) = Live(i, RdStop(o), st, d)
    <2> HIDE DEF st
    <2> QED BY LivePut
  <1> HIDE DEF u
  <1>3. \A s : tunnel_dispatcher(u, s) = tunnel_server_streaming(u, s)
    BY <1>1 DEF tunnel_dispatcher
  <1>4. ASSUME i.rdstate = "done", i.wrstate \in {"stop", "busy"},
               o.rdstate \in {"stop", "busy"}, o.wrstate \in {"stop", "busy"}
        PROVE  tunnel_server_streaming(u, "incoming") = RelayUp(Put(u, "incoming", RdStop(i)))
    BY <1>1, <1>4 DEF tunnel_server_streaming, ServerAssert, RdStop
  <1>5. ASSUME o.rdstate = "done", o.wrstate \in {"stop", "busy"},
               i.rdstate \in {"stop", "busy"}, i.wrstate \in {"stop", "busy"}
        PROVE  tunnel_server_streaming(u, "outgoing") = RelayDown(Put(u, "outgoing", RdStop(o)))
    BY <1>1, <1>5 DEF tunnel_server_streaming, ServerAssert, RdStop
  <1> QED BY <1>2, <1>3, <1>4, <1>5 DEF u

\* A read from the client while the tunnel relays.
LEMMA StreamReadIn ==
    ASSUME NEW i, NEW o, NEW st, NEW d, NEW v, AtStreaming(st, i, o, d),
           ReadStep(Live(i, o, st, d), "incoming", v)
    PROVE  Good(v)
  <1> DEFINE u == Live(i, o, st, d)
             s == "incoming"
             j == RelayIn(i, "data")
             k == RdStop(j)
  <1>1. st = "streaming" /\ Flow(i) /\ Flow(o)
    BY DEF AtStreaming
  <1>2. ~u.is_terminated
    BY LiveFields
  <1>3. /\ j.rdstate = "done" /\ j.wrstate \in {"stop", "busy"} /\ Flow(k) /\ k.reading = TRUE
        /\ k.writes = i.writes
    BY <1>1, FlowEnter DEF RelayIn
  <1>4. ReadEnter(u, s, "data") = Live(j, o, st, d)
    BY <1>1, StreamEnter
  <1> HIDE DEF j, k
  <1>5. tunnel_dispatcher(Live(j, o, st, d), s) = RelayUp(Live(k, o, st, d))
    <2>1. o.rdstate \in {"stop", "busy"} /\ o.wrstate \in {"stop", "busy"}
      BY <1>1 DEF Flow
    <2> QED BY <1>1, <1>3, <2>1, StreamDispatch DEF k
  <1>6. AtStreaming(st, k, o, d)
    BY <1>3 DEF AtStreaming
  <1>7. ASSUME NEW w \in RelayUp(Live(k, o, st, d)) PROVE Good(ReadLeave(w, s))
    <2>1. Good(w)
      BY <1>6, <1>7, UpOK
    <2> QED BY <2>1, GoodLeave DEF Side
  <1>8. ASSUME NEW x \in {"eof", "error"} PROVE Good(tunnel_shutdown(ReadEnter(u, s, x)))
    BY <1>8, StreamEnds
  <1>9. \/ \E w \in tunnel_dispatcher(ReadEnter(u, s, "data"), s) : v = ReadLeave(w, s)
        \/ v \in tunnel_arrive_end_of_file(ReadEnter(u, s, "eof"), s)
        \/ v = tunnel_shutdown(ReadEnter(u, s, "error"))
    BY <1>2, ReadCases
  <1>10. tunnel_arrive_end_of_file(ReadEnter(u, s, "eof"), s) = {tunnel_shutdown(ReadEnter(u, s, "eof"))}
    BY DEF tunnel_arrive_end_of_file
  <1> HIDE DEF u
  <1> QED BY <1>4, <1>5, <1>7, <1>8, <1>9, <1>10

DataClosing(u, b) == [u EXCEPT !.data.closing = b]

\* server_ctx notes that the close frame is written.
LEMMA LiveClosing ==
    ASSUME NEW i, NEW o, NEW st, NEW d, NEW b
    PROVE  DataClosing(Live(i, o, st, d), b) = Live(i, o, st, ClosingTo(d, b))
  <1> DEFINE u == Live(i, o, st, d)
  <1>1. u.data = d
    BY LiveFields
  <1>2. SetData(u, ClosingTo(d, b)) = Live(i, o, st, ClosingTo(d, b))
    BY LiveSet
  <1> HIDE DEF u
  <1>3. DataClosing(u, b) = SetData(u, ClosingTo(d, b))
    BY <1>1 DEF DataClosing, SetData, ClosingTo
  <1> QED BY <1>2, <1>3 DEF u

\* A read from the target.
LEMMA StreamReadOut ==
    ASSUME NEW i, NEW o, NEW st, NEW d, NEW v, AtStreaming(st, i, o, d), o.reading = TRUE,
           ReadStep(Live(i, o, st, d), "outgoing", v)
    PROVE  Good(v)
  <1> DEFINE u == Live(i, o, st, d)
             s == "outgoing"
             j == RelayIn(o, "data")
             k == RdStop(j)
             n == RelayIn(o, "eof")
             y == TRUE
  <1>1. st = "streaming" /\ Flow(i) /\ Flow(o) /\ d \in ServerCtx /\ d.closing = FALSE
    <2>1. st = "streaming" /\ Flow(i) /\ Flow(o) /\ d \in ServerCtx /\ o.reading = ~d.closing
      BY DEF AtStreaming
    <2>2. d.closing \in BOOLEAN
      BY <2>1, CtxFields
    <2> QED BY <2>1, <2>2
  <1>2. ~u.is_terminated
    BY LiveFields
  <1>3. /\ j.rdstate = "done" /\ j.wrstate \in {"stop", "busy"} /\ Flow(k) /\ k.reading = TRUE
        /\ k.writes = o.writes
        /\ Flow(n) /\ n.reading = FALSE /\ n.writes = o.writes
    BY <1>1, FlowEnter DEF RelayIn
  <1>4. ReadEnter(u, s, "data") = Live(i, j, st, d) /\ ReadEnter(u, s, "eof") = Live(i, n, st, d)
    <2>2. ASSUME NEW x PROVE ReadEnter(u, s, x) = Live(i, RelayIn(o, x), st, d)
      BY <1>1, StreamEnterOut
    <2> HIDE DEF u, s
    <2> QED BY <2>2
  <1> HIDE DEF j, k, n
  <1>5. tunnel_dispatcher(Live(i, j, st, d), s) = RelayDown(Live(i, k, st, d))
    <2>1. i.rdstate \in {"stop", "busy"} /\ i.wrstate \in {"stop", "busy"}
      BY <1>1 DEF Flow
    <2> QED BY <1>1, <1>3, <2>1, StreamDispatch DEF k
  <1>6. AtStreaming(st, i, k, d)
    BY <1>1, <1>3 DEF AtStreaming
  <1>7. ASSUME NEW w \in RelayDown(Live(i, k, st, d)) PROVE Good(ReadLeave(w, s))
    <2>1. Good(w)
      BY <1>1, <1>6, <1>7, DownOK
    <2> QED BY <2>1, GoodLeave DEF Side
  <1>8. ASSUME NEW x \in {"eof", "error"} PROVE Good(tunnel_shutdown(ReadEnter(u, s, x)))
    BY <1>8, StreamEnds
  <1>9. \/ \E w \in tunnel_dispatcher(ReadEnter(u, s, "data"), s) : v = ReadLeave(w, s)
        \/ v \in tunnel_arrive_end_of_file(ReadEnter(u, s, "eof"), s)
        \/ v = tunnel_shutdown(ReadEnter(u, s, "error"))
    BY <1>2, ReadCases
  <1>10. ASSUME NEW w \in tunnel_arrive_end_of_file(ReadEnter(u, s, "eof"), s) PROVE Good(w)
    <2> DEFINE z == Live(i, n, st, d)
               e == ClosingTo(d, y)
    <2>1. z.data = d
      BY LiveFields
    <2>2. DataClosing(z, y) = Live(i, n, st, e)
      <3> HIDE DEF y
      <3> QED BY LiveClosing
    <2> HIDE DEF z
    <2>3. w \in tunnel_arrive_end_of_file(z, s)
      BY <1>4, <1>10 DEF z
    <2>4. w = tunnel_shutdown(z) \/ (d.cipher.mode = "tls"
              /\ w = Write(DataClosing(z, y), "incoming", <<Reply("close")>>))
      BY <2>1, <2>3 DEF tunnel_arrive_end_of_file, DataClosing
    <2>5. Good(tunnel_shutdown(z))
      BY <1>4, <1>8 DEF z
    <2>6. ASSUME d.cipher.mode = "tls" PROVE Good(Write(Live(i, n, st, e), "incoming", <<Reply("close")>>))
      <3> DEFINE x == Reply("close")
      <3>1. /\ e \in ServerCtx /\ e.bad = d.bad /\ e.udp = d.udp /\ e.cipher = d.cipher
            /\ e.got = d.got /\ e.cut = d.cut /\ e.valid = d.valid /\ e.sent = d.sent
            /\ e.srv = d.srv /\ e.begun = d.begun /\ e.closing = y
        <4>1. y \in BOOLEAN
          OBVIOUS
        <4> HIDE DEF y
        <4> QED BY <1>1, <4>1, CtxClosing
      <3> HIDE DEF e
      <3>2. NextDown(d, e, x)
        BY <2>6, <3>1 DEF NextDown
      <3> HIDE DEF x
      <3>3. n.reading = ~e.closing
        BY <1>3, <3>1
      <3>4. Good(Write(Live(i, n, st, e), "incoming", <<x>>))
        BY <1>1, <1>3, <3>1, <3>2, <3>3, StreamIn
      <3> QED BY <3>4 DEF x
    <2> HIDE DEF e
    <2> QED BY <2>2, <2>4, <2>5, <2>6
  <1> HIDE DEF u
  <1> QED BY <1>4, <1>5, <1>7, <1>8, <1>9, <1>10

\* The end of a write while the tunnel relays.
LEMMA FlowWrote ==
    ASSUME NEW k, Flow(k), k.writes # <<>>
    PROVE  /\ Wrote(k).wrstate = "done" /\ Wrote(k).rdstate \in {"stop", "busy"}
           /\ Flow(WrStop(Wrote(k))) /\ WrStop(Wrote(k)).reading = k.reading
           /\ Len(WrStop(Wrote(k)).writes) <= Len(k.writes)
           /\ Len(WrStop(Wrote(k)).writes) \in Nat /\ Len(k.writes) \in Nat
           /\ k \in OpenSocket /\ WrStop(Wrote(k)) \in OpenSocket
  <1> DEFINE rd == k.rdstate
             wr == k.wrstate
             rg == k.reading
             ws == k.writes
             y == TRUE
             no == FALSE
             dn == "none"
             dd == "done"
             tl == Tail(ws)
             n == Wrote(k)
             m == WrStop(n)
  <1>1. Sock(k, rd, wr, rg, ws, y, no, dn) /\ rd \in {"stop", "busy"} /\ ws # <<>>
    BY DEF Flow
  <1>2. Sock(n, rd, "done", rg, tl, y, no, dn)
    <2> HIDE DEF rd, wr, rg, ws, y, no, dn
    <2> QED BY <1>1, SockWrote
  <1> HIDE DEF n
  <1>3. n.wrstate = "done" /\ n.rdstate = rd
    BY <1>2 DEF Sock
  <1>4. Sock(m, rd, "stop", rg, tl, y, no, dn)
    <2>1. Sock(n, rd, dd, rg, tl, y, no, dn)
      BY <1>2
    <2> HIDE DEF rd, rg, tl, y, no, dn, dd
    <2> QED BY <2>1, SockStop
  <1> HIDE DEF m
  <1>5. m.rdstate = rd /\ m.wrstate = "stop" /\ m.reading = rg /\ m.writes = tl /\ m \in OpenSocket
    BY <1>4 DEF Sock
  <1>6. Flow(m)
    BY <1>1, <1>4, <1>5 DEF Flow
  <1>7. ws \in Seq(Payload) /\ k \in OpenSocket
    BY FlowFacts
  <1>8. Len(tl) <= Len(ws) /\ Len(tl) \in Nat /\ Len(ws) \in Nat
    <2> HIDE DEF ws
    <2>1. Len(Tail(ws)) = Len(ws) - 1 /\ Len(ws) \in Nat /\ Len(Tail(ws)) \in Nat
      BY <1>1, <1>7
    <2> QED BY <2>1
  <1> QED BY <1>1, <1>3, <1>5, <1>6, <1>7, <1>8 DEF n, m

\* server_ctx does not change, and the sockets only get less busy.
LEMMA StreamEases ==
    ASSUME NEW st, NEW i, NEW o, NEW d, NEW j, Flow(j), Len(j.writes) \in Nat,
           Len(i.writes) \in Nat, Len(o.writes) \in Nat
    PROVE  /\ AtStreaming(st, i, o, d) /\ j.reading = i.reading /\ Len(j.writes) <= Len(i.writes)
              => AtStreaming(st, j, o, d)
           /\ AtStreaming(st, i, o, d) /\ j.reading = o.reading /\ Len(j.writes) <= Len(o.writes)
              => AtStreaming(st, i, j, d)
           /\ AtUdpStreaming(st, i, o, d) /\ j.reading = i.reading
              /\ Len(j.writes) <= Len(i.writes) => AtUdpStreaming(st, j, o, d)
  <1> DEFINE x == Len(i.writes)
             y == Len(o.writes)
             z == Len(j.writes)
             a == d.srv + One(d.closing)
             b == 2 * (d.got - HandshakeLen(d)) + One(d.cut) + One(~d.valid)
             e == d.srv + 1
  <1>1. ASSUME d \in ServerCtx, Authed(d) PROVE a \in Nat /\ b \in Nat /\ e \in Nat
    <2> DEFINE n == d.got - HandshakeLen(d)
               p == One(d.cut)
               q == One(~d.valid)
               r == One(d.closing)
               w == d.srv
    <2>1. n \in Nat /\ p \in {0, 1} /\ q \in {0, 1} /\ r \in {0, 1} /\ w \in Nat
      BY <1>1, FlowCounts
    <2> HIDE DEF n, p, q, r, w
    <2>2. w + r \in Nat /\ 2 * n + p + q \in Nat /\ w + 1 \in Nat
      BY <2>1
    <2> QED BY <2>2 DEF n, p, q, r, w
  <1>2. ASSUME NEW f \in Nat PROVE (z <= x /\ x <= f => z <= f) /\ (z <= y /\ y <= f => z <= f)
    <2> HIDE DEF x, y, z
    <2>1. x \in Nat /\ y \in Nat /\ z \in Nat
      BY DEF x, y, z
    <2> QED BY <2>1
  <1>3. ASSUME AtStreaming(st, i, o, d), j.reading = i.reading, z <= x
        PROVE  AtStreaming(st, j, o, d)
    <2>1. x <= a /\ d \in ServerCtx /\ Authed(d)
      BY <1>3 DEF AtStreaming
    <2>2. z <= a
      <3> HIDE DEF a, x, z
      <3> QED BY <1>1, <1>2, <1>3, <2>1
    <2> QED BY <1>3, <2>2 DEF AtStreaming
  <1>4. ASSUME AtStreaming(st, i, o, d), j.reading = o.reading, z <= y
        PROVE  AtStreaming(st, i, j, d)
    <2>1. y <= b /\ d \in ServerCtx /\ Authed(d)
      BY <1>4 DEF AtStreaming
    <2>2. z <= b
      <3> HIDE DEF b, y, z
      <3> QED BY <1>1, <1>2, <1>4, <2>1
    <2> QED BY <1>4, <2>2 DEF AtStreaming
  <1>5. ASSUME AtUdpStreaming(st, i, o, d), j.reading = i.reading, z <= x
        PROVE  AtUdpStreaming(st, j, o, d)
    <2>1. x <= e /\ d \in ServerCtx /\ Authed(d)
      BY <1>5 DEF AtUdpStreaming, Relaying
    <2>2. z <= e
      <3> HIDE DEF e, x, z
      <3> QED BY <1>1, <1>2, <1>5, <2>1
    <2> QED BY <1>5, <2>2 DEF AtUdpStreaming
  <1> HIDE DEF x, y, z
  <1> QED BY <1>3, <1>4, <1>5 DEF x, y, z

\* The dispatcher at the end of a write.
LEMMA StreamWroteDispatch ==
    ASSUME NEW i, NEW o, NEW d
    PROVE  /\ /\ i.wrstate = "done" /\ o.rdstate \in {"stop", "busy"}
              /\ o.wrstate \in {"stop", "busy"}
              => tunnel_dispatcher(Live(i, o, "streaming", d), "incoming")
                   = {Live(WrStop(i), o, "streaming", d)}
           /\ /\ o.wrstate = "done" /\ i.rdstate \in {"stop", "busy"}
              /\ i.wrstate \in {"stop", "busy"}
              => tunnel_dispatcher(Live(i, o, "streaming", d), "outgoing")
                   = {Live(i, WrStop(o), "streaming", d)}
           /\ /\ i.wrstate = "done" /\ i.rdstate \in {"stop", "busy"}
              /\ o.rdstate = "stop" /\ o.wrstate = "stop"
              => tunnel_dispatcher(Live(i, o, "udp_streaming", d), "incoming")
                   = {Live(WrStop(i), o, "udp_streaming", d)}
  <1> DEFINE u(st) == Live(i, o, st, d)
  <1>1. ASSUME NEW st
        PROVE  /\ u(st).stage = st /\ u(st).sock["incoming"] = i /\ u(st).sock["outgoing"] = o
               /\ Put(u(st), "incoming", WrStop(i)) = Live(WrStop(i), o, st, d)
               /\ Put(u(st), "outgoing", WrStop(o)) = Live(i, WrStop(o), st, d)
    BY LiveFields, LivePut
  <1> HIDE DEF u
  <1>2. \A s : tunnel_dispatcher(u("streaming"), s) = tunnel_server_streaming(u("streaming"), s)
    <2> DEFINE a == u("streaming")
    <2>1. a.stage = "streaming"
      BY <1>1
    <2> HIDE DEF a
    <2>2. \A s : tunnel_dispatcher(a, s) = tunnel_server_streaming(a, s)
      BY <2>1 DEF tunnel_dispatcher
    <2> QED BY <2>2 DEF a
  <1>3. \A s : tunnel_dispatcher(u("udp_streaming"), s) = tunnel_udp_streaming(u("udp_streaming"), s)
    <2> DEFINE a == u("udp_streaming")
    <2>1. a.stage = "udp_streaming"
      BY <1>1
    <2> HIDE DEF a
    <2>2. \A s : tunnel_dispatcher(a, s) = tunnel_udp_streaming(a, s)
      BY <2>1 DEF tunnel_dispatcher
    <2> QED BY <2>2 DEF a
  <1>4. ASSUME i.wrstate = "done", o.rdstate \in {"stop", "busy"}, o.wrstate \in {"stop", "busy"}
        PROVE  tunnel_server_streaming(u("streaming"), "incoming")
                 = {Put(u("streaming"), "incoming", WrStop(i))}
    BY <1>1, <1>4 DEF tunnel_server_streaming, ServerAssert, WrStop
  <1>5. ASSUME o.wrstate = "done", i.rdstate \in {"stop", "busy"}, i.wrstate \in {"stop", "busy"}
        PROVE  tunnel_server_streaming(u("streaming"), "outgoing")
                 = {Put(u("streaming"), "outgoing", WrStop(o))}
    BY <1>1, <1>5 DEF tunnel_server_streaming, ServerAssert, WrStop
  <1>6. ASSUME i.wrstate = "done", i.rdstate \in {"stop", "busy"}, o.rdstate = "stop",
               o.wrstate = "stop"
        PROVE  tunnel_udp_streaming(u("udp_streaming"), "incoming")
                 = {Put(u("udp_streaming"), "incoming", WrStop(i))}
    BY <1>1, <1>6 DEF tunnel_udp_streaming, ServerAssert, WrStop
  <1> QED BY <1>1, <1>2, <1>3, <1>4, <1>5, <1>6 DEF u

\* The end of a write to the client.
LEMMA StreamWrittenIn ==
    ASSUME NEW i, NEW o, NEW st, NEW d, NEW v, i.writes # <<>>,
           AtStreaming(st, i, o, d) \/ AtUdpStreaming(st, i, o, d),
           WrittenStep(Live(i, o, st, d), "incoming", v)
    PROVE  Good(v)
  <1> DEFINE s == "incoming"
             j == Wrote(i)
             k == WrStop(j)
             u == Live(j, o, st, d)
             z == Live(k, o, st, d)
  <1>1. StageOK(st, i, o, d) /\ Flow(i) /\ st \in {"streaming", "udp_streaming"}
    BY DEF StageOK, AtStreaming, AtUdpStreaming
  <1>2. /\ j.wrstate = "done" /\ j.rdstate \in {"stop", "busy"} /\ Flow(k) /\ k.reading = i.reading
        /\ Len(k.writes) <= Len(i.writes) /\ Len(k.writes) \in Nat /\ Len(i.writes) \in Nat
        /\ i \in OpenSocket /\ k \in OpenSocket
    BY <1>1, FlowWrote
  <1>3. o \in OpenSocket /\ Len(o.writes) \in Nat
    <2>1. o \in OpenSocket /\ o.writes \in Seq(Payload)
      BY <1>1, StageOver, SockOf
    <2> QED BY <2>1
  <1>4. v \in tunnel_write_done(u, s) \/ v = tunnel_shutdown(Live(WroteNot(i), o, st, d))
    BY <1>1, <1>2, WrittenCases
  <1>5. Good(tunnel_shutdown(Live(WroteNot(i), o, st, d)))
    BY <1>1, WriteFails
  <1> HIDE DEF j, k
  <1>6. AckWrite(u) = z
    BY <1>2, LiveAck DEF k
  <1>7. Good(tunnel_shutdown(z))
    <2>1. Len(o.writes) <= Len(o.writes)
      BY <1>3
    <2> QED BY <1>1, <1>2, <1>3, <2>1, GoodShut
  <1>8. Good(z)
    <2>1. AtStreaming(st, k, o, d) \/ AtUdpStreaming(st, k, o, d)
      BY <1>2, <1>3, StreamEases
    <2>2. StageOK(st, k, o, d)
      BY <2>1 DEF StageOK
    <2> QED BY <2>2, LiveGood
  <1>9. tunnel_dispatcher(u, s) = {z}
    <2>1. CASE AtStreaming(st, i, o, d)
      <3>1. st = "streaming" /\ o.rdstate \in {"stop", "busy"} /\ o.wrstate \in {"stop", "busy"}
        BY <2>1 DEF AtStreaming, Flow
      <3> QED BY <1>2, <3>1, StreamWroteDispatch DEF k
    <2>2. CASE AtUdpStreaming(st, i, o, d)
      <3>1. st = "udp_streaming" /\ o.rdstate = "stop" /\ o.wrstate = "stop"
        BY <2>2 DEF AtUdpStreaming, Unused, Sock
      <3> QED BY <1>2, <3>1, StreamWroteDispatch DEF k
    <2> QED BY <2>1, <2>2
  <1> HIDE DEF u, z
  <1>10. tunnel_write_done(u, s) = {tunnel_shutdown(z)} \/ tunnel_write_done(u, s) = {z}
    BY <1>6, <1>9 DEF tunnel_write_done
  <1> QED BY <1>4, <1>5, <1>7, <1>8, <1>10

\* The end of a write to the target.
LEMMA StreamWrittenOut ==
    ASSUME NEW i, NEW o, NEW st, NEW d, NEW v, o.writes # <<>>, AtStreaming(st, i, o, d),
           WrittenStep(Live(i, o, st, d), "outgoing", v)
    PROVE  Good(v)
  <1> DEFINE s == "outgoing"
             j == Wrote(o)
             k == WrStop(j)
             u == Live(i, j, st, d)
             z == Live(i, k, st, d)
  <1>1. StageOK(st, i, o, d) /\ Flow(i) /\ Flow(o) /\ st = "streaming"
    BY DEF StageOK, AtStreaming
  <1>2. /\ j.wrstate = "done" /\ j.rdstate \in {"stop", "busy"} /\ Flow(k) /\ k.reading = o.reading
        /\ Len(k.writes) <= Len(o.writes) /\ Len(k.writes) \in Nat /\ Len(o.writes) \in Nat
        /\ o \in OpenSocket
    BY <1>1, FlowWrote
  <1>3. Len(i.writes) \in Nat
    <2>1. i.writes \in Seq(Payload)
      BY <1>1, FlowFacts
    <2> QED BY <2>1
  <1>4. v \in tunnel_write_done(u, s) \/ v = tunnel_shutdown(Live(i, WroteNot(o), st, d))
    BY <1>1, <1>2, WrittenCases
  <1>5. Good(tunnel_shutdown(Live(i, WroteNot(o), st, d)))
    BY <1>1, WriteFails
  <1> HIDE DEF j, k
  <1>6. Good(z)
    <2>1. AtStreaming(st, i, k, d)
      BY <1>2, <1>3, StreamEases
    <2>2. StageOK(st, i, k, d)
      BY <2>1 DEF StageOK
    <2> QED BY <2>2, LiveGood
  <1>7. tunnel_dispatcher(u, s) = {z}
    <2>1. i.rdstate \in {"stop", "busy"} /\ i.wrstate \in {"stop", "busy"}
      BY <1>1 DEF Flow
    <2> QED BY <1>1, <1>2, <2>1, StreamWroteDispatch DEF k
  <1>8. tunnel_write_done(u, s) = tunnel_dispatcher(u, s)
    BY WriteDone
  <1> HIDE DEF u, z
  <1> QED BY <1>4, <1>5, <1>6, <1>7, <1>8

\* What the relay needs of server_ctx does not change with the client's stream.
LEMMA RelayingKeep ==
    ASSUME NEW d, Relaying(d), NEW e \in ServerCtx, e.bad = d.bad, e.cipher = d.cipher,
           e.begun = d.begun, e.closing = d.closing, e.srv = d.srv, Authed(e),
           e.sent["incoming"] = d.sent["incoming"], e.udp.on, RelayOK(e.udp, FALSE, FALSE)
    PROVE  Relaying(e)
  <1>1. Down(d) /\ d.bad \subseteq {"early_datagram"} /\ d.cipher.mode = "tls" /\ d.closing = FALSE
    BY DEF Relaying
  <1>2. Down(e)
    BY <1>1, DownSame
  <1> QED BY <1>1, <1>2 DEF Relaying

\* The client sent no frame.
LEMMA UdpLost ==
    ASSUME NEW st, NEW i, NEW o, NEW d, AtUdpStreaming(st, i, o, d)
    PROVE  AtUdpStreaming(st, i, o, Lost(d))
  <1> DEFINE e == Lost(d)
             no == FALSE
  <1>1. /\ st = "udp_streaming" /\ Flow(i) /\ i.reading = TRUE /\ Unused(o) /\ Relaying(d)
        /\ Len(i.writes) <= d.srv + 1 /\ no \in BOOLEAN
    BY DEF AtUdpStreaming
  <1>2. d \in ServerCtx /\ Authed(d) /\ d.udp.on /\ RelayOK(d.udp, FALSE, FALSE)
    BY <1>1 DEF Relaying
  <1>3. /\ e \in ServerCtx /\ e.cipher = d.cipher /\ e.udp = d.udp /\ e.begun = d.begun
        /\ e.closing = d.closing /\ e.got = d.got /\ e.valid = no
        /\ e.srv = d.srv /\ e.bad = d.bad /\ e.sent = d.sent
    <2>1. e = ValidTo(d, no)
      BY DEF Lost
    <2> HIDE DEF no, e
    <2> QED BY <1>1, <1>2, <2>1, CtxValid
  <1> HIDE DEF e
  <1>4. Authed(e)
    BY <1>2, <1>3, AuthedSame
  <1>5. Relaying(e)
    <2>1. e.sent["incoming"] = d.sent["incoming"] /\ e.udp.on /\ RelayOK(e.udp, FALSE, FALSE)
      BY <1>2, <1>3
    <2> QED BY <1>1, <1>3, <1>4, <2>1, RelayingKeep
  <1>6. AtUdpStreaming(st, i, o, e)
    BY <1>1, <1>3, <1>5 DEF AtUdpStreaming
  <1> QED BY <1>6 DEF e

\* The client sent frames.
LEMMA UdpMore ==
    ASSUME NEW st, NEW i, NEW o, NEW d, AtUdpStreaming(st, i, o, d),
           NEW rd \in NextReads(Live(i, o, st, d))
    PROVE  AtUdpStreaming(st, i, o, SendsTo(Then(d, rd), Came(d, rd)))
           /\ Got(d, rd).out = Came(d, rd)
  <1> DEFINE q == Came(d, rd)
             e == Then(d, rd)
             r == Got(d, rd)
             h == HandshakeLen(d)
             f == SendsTo(e, q)
             g == <<Datagram>>
  <1>1. /\ st = "udp_streaming" /\ Flow(i) /\ i.reading = TRUE /\ Unused(o) /\ Relaying(d)
        /\ Len(i.writes) <= d.srv + 1
        /\ d.valid => d.sent["outgoing"] = g \o Apps(d.got - h)
    BY DEF AtUdpStreaming
  <1>2. d \in ServerCtx /\ Authed(d) /\ d.udp.on /\ RelayOK(d.udp, FALSE, FALSE)
    BY <1>1 DEF Relaying
  <1>3. /\ Passes(r, d.cipher, q) /\ q \in Seq(Items)
        /\ e \in ServerCtx /\ e.cipher = d.cipher /\ e.udp = d.udp /\ e.begun = d.begun
        /\ e.closing = d.closing /\ e.valid = d.valid /\ d.valid /\ e.srv = d.srv
        /\ e.bad = d.bad /\ e.sent = d.sent /\ Authed(e) /\ HandshakeLen(e) = h
        /\ Apps(d.got - h) \o q = Apps(e.got - h)
    BY <1>2, MoreRead
  <1>4. r.out = q
    BY <1>3 DEF Passes
  <1> HIDE DEF q, e, r, h
  <1>5. /\ f \in ServerCtx /\ f.cipher = e.cipher /\ f.udp.on /\ RelayOK(f.udp, FALSE, FALSE)
        /\ f.begun = e.begun /\ f.closing = e.closing /\ f.got = e.got /\ f.valid = e.valid
        /\ f.srv = e.srv /\ f.bad = e.bad
        /\ f.sent["outgoing"] = e.sent["outgoing"] \o q
        /\ f.sent["incoming"] = e.sent["incoming"]
    <2>1. e.udp.on /\ RelayOK(e.udp, FALSE, FALSE)
      BY <1>2, <1>3
    <2> QED BY <1>3, <2>1, CtxSends
  <1> HIDE DEF f
  <1>6. Authed(f) /\ HandshakeLen(f) = h
    BY <1>3, <1>5, AuthedSame
  <1>7. Relaying(f)
    <2>1. /\ f.cipher = d.cipher /\ f.begun = d.begun /\ f.closing = d.closing /\ f.srv = d.srv
          /\ f.bad = d.bad /\ f.sent["incoming"] = d.sent["incoming"]
      BY <1>3, <1>5
    <2> QED BY <1>1, <1>5, <1>6, <2>1, RelayingKeep
  <1>8. f.sent["outgoing"] = g \o Apps(f.got - HandshakeLen(f))
    <2> DEFINE p == Apps(d.got - h)
    <2>1. f.sent["outgoing"] = (g \o p) \o q
      BY <1>1, <1>3, <1>5
    <2>2. g \in Seq(Items) /\ p \in Seq(Items)
      <3>1. Datagram \in Items
        BY ItemsFacts
      <3>2. p \in Seq(Items)
        BY <1>2, AuthedCount DEF h
      <3> QED BY <3>1, <3>2
    <2>3. (g \o p) \o q = g \o (p \o q)
      <3> HIDE DEF g, p
      <3> QED BY <1>3, <2>2, Assoc
    <2> HIDE DEF p, g
    <2>4. p \o q = Apps(f.got - HandshakeLen(f))
      BY <1>3, <1>5, <1>6 DEF p
    <2> QED BY <2>1, <2>3, <2>4
  <1>9. Len(i.writes) <= f.srv + 1
    BY <1>1, <1>3, <1>5
  <1>10. AtUdpStreaming(st, i, o, f)
    BY <1>1, <1>7, <1>8, <1>9 DEF AtUdpStreaming
  <1> QED BY <1>4, <1>10 DEF f, q, e, r

\* The dispatcher on what the client of a UDP tunnel sent.
LEMMA UdpDispatch ==
    ASSUME NEW i, NEW o, NEW d, NEW w, i.rdstate = "done", o.rdstate = "stop", o.wrstate = "stop",
           w \in tunnel_dispatcher(Live(i, o, "udp_streaming", d), "incoming")
    PROVE  LET b == Live(RdStop(i), o, "udp_streaming", d)
           IN  \/ w \in Spoilt(b)
               \/ \E rd \in NextReads(b) : w = SendDatagrams(Taken(b, rd), Decrypt(b, rd).out)
  <1> DEFINE u == Live(i, o, "udp_streaming", d)
             b == Live(RdStop(i), o, "udp_streaming", d)
             st == "udp_streaming"
  <1>1. u.stage = "udp_streaming" /\ u.sock["incoming"] = i /\ u.sock["outgoing"] = o
    BY LiveFields
  <1>2. Put(u, "incoming", RdStop(i)) = b
    <2>1. Put(Live(i, o, st, d), "incoming", RdStop(i)) = Live(RdStop(i), o, st, d)
      <3> HIDE DEF st
      <3> QED BY LivePut
    <2> QED BY <2>1
  <1> HIDE DEF u
  <1>3. tunnel_dispatcher(u, "incoming") = tunnel_udp_streaming(u, "incoming")
    BY <1>1 DEF tunnel_dispatcher
  <1> HIDE DEF b
  <1>4. tunnel_udp_streaming(u, "incoming")
          = Spoilt(b) \cup {SendDatagrams(Taken(b, rd), Decrypt(b, rd).out) : rd \in NextReads(b)}
    BY <1>1, <1>2 DEF tunnel_udp_streaming, ServerAssert, RdStop
  <1>5. w \in Spoilt(b) \/ \E rd \in NextReads(b) : w = SendDatagrams(Taken(b, rd), Decrypt(b, rd).out)
    BY <1>3, <1>4, Zenon DEF u
  <1> QED BY <1>5 DEF b

\* A read from the client of a UDP tunnel.
LEMMA UdpRead ==
    ASSUME NEW i, NEW o, NEW st, NEW d, NEW v, AtUdpStreaming(st, i, o, d),
           ReadStep(Live(i, o, st, d), "incoming", v)
    PROVE  Good(v)
  <1> DEFINE u == Live(i, o, st, d)
             s == "incoming"
             j == RelayIn(i, "data")
             k == RdStop(j)
             b == Live(k, o, st, d)
  <1>1. st = "udp_streaming" /\ Flow(i) /\ Unused(o) /\ o.rdstate = "stop" /\ o.wrstate = "stop"
    BY DEF AtUdpStreaming, Unused, Sock
  <1>2. ~u.is_terminated
    BY LiveFields
  <1>3. /\ j.rdstate = "done" /\ j.wrstate \in {"stop", "busy"} /\ Flow(k) /\ k.reading = TRUE
        /\ k.writes = i.writes
    BY <1>1, FlowEnter DEF RelayIn
  <1>4. ReadEnter(u, s, "data") = Live(j, o, st, d)
    BY <1>1, StreamEnter
  <1> HIDE DEF j, k
  <1>5. AtUdpStreaming(st, k, o, d)
    BY <1>3 DEF AtUdpStreaming
  <1>6. ASSUME NEW w \in tunnel_dispatcher(Live(j, o, st, d), s) PROVE Good(w)
    <2>1. w \in Spoilt(b)
          \/ \E rd \in NextReads(b) : w = SendDatagrams(Taken(b, rd), Decrypt(b, rd).out)
      BY <1>1, <1>3, <1>6, UdpDispatch DEF k
    <2>2. ASSUME w \in Spoilt(b) PROVE Good(w)
      <3>1. w = Live(k, o, st, Lost(d))
        BY <2>2, LiveSpoilt
      <3>2. StageOK(st, k, o, Lost(d))
        BY <1>5, UdpLost DEF StageOK
      <3> QED BY <3>1, <3>2, LiveGood
    <2>3. ASSUME NEW rd \in NextReads(b), w = SendDatagrams(Taken(b, rd), Decrypt(b, rd).out)
          PROVE  Good(w)
      <3> DEFINE e == Then(d, rd)
                 q == Came(d, rd)
                 f == SendsTo(e, q)
      <3>1. AtUdpStreaming(st, k, o, f) /\ Got(d, rd).out = q
        BY <1>5, <2>3, UdpMore
      <3>2. Decrypt(b, rd) = Got(d, rd) /\ Taken(b, rd) = Live(k, o, st, e)
        BY LiveTaken
      <3>3. SendDatagrams(Live(k, o, st, e), q) = Live(k, o, st, f)
        <4> HIDE DEF e, q
        <4> QED BY LiveSends
      <3> HIDE DEF b, e, q, f
      <3>4. w = Live(k, o, st, f)
        BY <2>3, <3>1, <3>2, <3>3
      <3>5. StageOK(st, k, o, f)
        BY <3>1 DEF StageOK
      <3> QED BY <3>4, <3>5, LiveGood
    <2> QED BY <2>1, <2>2, <2>3
  <1>7. ASSUME NEW w \in tunnel_dispatcher(Live(j, o, st, d), s) PROVE Good(ReadLeave(w, s))
    <2>1. Good(w)
      BY <1>6, <1>7
    <2> QED BY <2>1, GoodLeave DEF Side
  <1>8. ASSUME NEW x \in {"eof", "error"} PROVE Good(tunnel_shutdown(ReadEnter(u, s, x)))
    BY <1>8, StreamEnds
  <1>9. \/ \E w \in tunnel_dispatcher(ReadEnter(u, s, "data"), s) : v = ReadLeave(w, s)
        \/ v \in tunnel_arrive_end_of_file(ReadEnter(u, s, "eof"), s)
        \/ v = tunnel_shutdown(ReadEnter(u, s, "error"))
    BY <1>2, ReadCases
  <1>10. tunnel_arrive_end_of_file(ReadEnter(u, s, "eof"), s) = {tunnel_shutdown(ReadEnter(u, s, "eof"))}
    BY DEF tunnel_arrive_end_of_file
  <1> HIDE DEF u
  <1> QED BY <1>4, <1>7, <1>8, <1>9, <1>10

\* The connect callback and the lookup callback with server.c's hook.
ConnectStep(u, s, v) ==
    \E status \in {"ok", "err"} :
       v \in tunnel_socket_ctx_on_connect_cb(u, s, status, LAMBDA w : tunnel_dispatcher(w, s))
LookupStep(u, s, v) ==
    \E status \in {"ok", "err"} :
       v \in tunnel_socket_ctx_on_getaddrinfo_cb(u, s, status,
                LAMBDA w : tunnel_dispatcher(w, s))

\* A socket whose connection, or whose lookup, is over.
Reached(k, x, b) == [k EXCEPT !.connecting = FALSE, !.ticking = FALSE, !.result = x,
                              !.connected = b]
Found(k, x) == [k EXCEPT !.dns = "none", !.ticking = FALSE, !.result = x]

\* On an open socket.
LEMMA SockReached ==
    ASSUME NEW k, Dialling(k), NEW x \in {"ok", "err"}, NEW b \in BOOLEAN
    PROVE  Sock(Reached(k, x, b), "stop", "stop", FALSE, <<>>, b, FALSE, "none")
  BY DEF Dialling, Sock, OpenSocket, Reached, DnsState

\* On an open socket.
LEMMA SockFound ==
    ASSUME NEW k, Looking(k), NEW x \in {"ok", "err"}
    PROVE  Unused(Found(k, x))
  BY DEF Looking, Unused, Sock, OpenSocket, Found, DnsState

\* The outcomes of the connect callback on a tunnel that is not shut down.
LEMMA ConnectCases ==
    ASSUME NEW u, NEW s, NEW k, k = u.sock[s], NEW v, ~u.is_terminated, ConnectStep(u, s, v)
    PROVE  \/ \E b \in {TRUE} : v \in tunnel_dispatcher(Put(u, s, Reached(k, "ok", b)), s)
           \/ \E b \in {FALSE} : v = tunnel_shutdown(Put(u, s, Reached(k, "err", b)))
  <1>1. PICK x \in {"ok", "err"} :
           v \in tunnel_socket_ctx_on_connect_cb(u, s, x, LAMBDA w : tunnel_dispatcher(w, s))
    BY DEF ConnectStep
  <1> DEFINE b == x = "ok"
             a == Put(u, s, Reached(k, x, b))
  <1>2. x = "ok" => v \in tunnel_dispatcher(a, s)
    BY <1>1 DEF tunnel_socket_ctx_on_connect_cb, Reached
  <1>3. x = "err" => v = tunnel_shutdown(a)
    BY <1>1 DEF tunnel_socket_ctx_on_connect_cb, Reached
  <1>4. CASE x = "ok"
    <2>1. b \in {TRUE}
      BY <1>4
    <2>2. v \in tunnel_dispatcher(Put(u, s, Reached(k, "ok", b)), s)
      BY <1>2, <1>4
    <2> QED BY <2>1, <2>2
  <1>5. CASE x = "err"
    <2>1. b \in {FALSE}
      BY <1>5
    <2>2. v = tunnel_shutdown(Put(u, s, Reached(k, "err", b)))
      BY <1>3, <1>5
    <2> QED BY <2>1, <2>2
  <1> QED BY <1>4, <1>5

\* The outcomes of the lookup callback on a tunnel that is not shut down.
LEMMA LookupCases ==
    ASSUME NEW u, NEW s, NEW k, k = u.sock[s], ~k.freed, NEW v, ~u.is_terminated,
           LookupStep(u, s, v)
    PROVE  \/ v \in tunnel_dispatcher(Put(u, s, Found(k, "ok")), s)
           \/ v = tunnel_shutdown(Put(u, s, Found(k, "err")))
  <1>1. PICK x \in {"ok", "err"} :
           v \in tunnel_socket_ctx_on_getaddrinfo_cb(u, s, x,
                    LAMBDA w : tunnel_dispatcher(w, s))
    BY DEF LookupStep
  <1>2. CASE x = "ok"
    BY <1>1, <1>2 DEF tunnel_socket_ctx_on_getaddrinfo_cb, Found
  <1>3. CASE x = "err"
    BY <1>1, <1>3 DEF tunnel_socket_ctx_on_getaddrinfo_cb, Found
  <1> QED BY <1>2, <1>3

\* What the dispatcher does with a host that is resolved, or connected.
LEMMA DialDispatch ==
    ASSUME NEW i, NEW o, NEW d, NEW s
    PROVE  /\ tunnel_dispatcher(Live(i, o, "resolve_host", d), s)
                = do_resolve_host_done(Live(i, o, "resolve_host", d))
           /\ tunnel_dispatcher(Live(i, o, "connect_host", d), s)
                = do_connect_host_done(Live(i, o, "connect_host", d))
  <1> DEFINE a == Live(i, o, "resolve_host", d)
             b == Live(i, o, "connect_host", d)
  <1>1. a.stage = "resolve_host" /\ b.stage = "connect_host"
    BY LiveFields
  <1> HIDE DEF a, b
  <1>2. tunnel_dispatcher(a, s) = do_resolve_host_done(a)
    BY <1>1 DEF tunnel_dispatcher
  <1>3. tunnel_dispatcher(b, s) = do_connect_host_done(b)
    BY <1>1 DEF tunnel_dispatcher
  <1> QED BY <1>2, <1>3 DEF a, b

\* The target's connection is made, or fails.
LEMMA Connecting ==
    ASSUME NEW i, NEW o, NEW st, NEW d, NEW v, AtConnect(st, i, o, d),
           ConnectStep(Live(i, o, st, d), "outgoing", v)
    PROVE  Good(v)
  <1> DEFINE u == Live(i, o, st, d)
  <1>1. u.sock["outgoing"] = o /\ ~u.is_terminated
    BY LiveFields
  <1>2. Quiet(i) /\ Dialling(o) /\ Dialled(d) /\ st = "connect_host"
    BY DEF AtConnect
  <1>3. StageOK(st, i, o, d)
    BY DEF StageOK
  <1>4. ASSUME NEW k PROVE Put(u, "outgoing", k) = Live(i, k, st, d)
    BY LivePut
  <1> HIDE DEF u
  <1>5. \/ \E b \in {TRUE} : v \in tunnel_dispatcher(Put(u, "outgoing", Reached(o, "ok", b)), "outgoing")
        \/ \E b \in {FALSE} : v = tunnel_shutdown(Put(u, "outgoing", Reached(o, "err", b)))
    <2>1. ConnectStep(u, "outgoing", v)
      BY DEF u
    <2> QED BY <1>1, <2>1, ConnectCases
  <1>6. ASSUME NEW b \in {TRUE}, v \in tunnel_dispatcher(Put(u, "outgoing", Reached(o, "ok", b)), "outgoing")
        PROVE  Good(v)
    <2> DEFINE k == Reached(o, "ok", b)
    <2>1. Quiet(k)
      <3>1. Sock(k, "stop", "stop", FALSE, <<>>, b, FALSE, "none")
        BY <1>2, SockReached
      <3> QED BY <3>1 DEF Quiet
    <2>2. v \in tunnel_dispatcher(Live(i, k, "connect_host", d), "outgoing")
      BY <1>2, <1>4, <1>6
    <2> HIDE DEF k
    <2>3. v \in do_connect_host_done(Live(i, k, "connect_host", d))
      BY <2>2, DialDispatch
    <2> QED BY <1>2, <2>1, <2>3, ConnectDone
  <1>7. ASSUME NEW b \in {FALSE}, v = tunnel_shutdown(Put(u, "outgoing", Reached(o, "err", b)))
        PROVE  Good(v)
    <2> DEFINE k == Reached(o, "err", b)
    <2>1. k \in OpenSocket /\ k.writes = <<>>
      <3>1. Sock(k, "stop", "stop", FALSE, <<>>, b, FALSE, "none")
        BY <1>2, SockReached
      <3> QED BY <3>1 DEF Sock
    <2>2. v = tunnel_shutdown(Live(i, k, st, d))
      BY <1>4, <1>7
    <2> HIDE DEF k
    <2>3. ~Untouched(o) /\ o.writes = <<>> /\ i \in OpenSocket /\ i.writes = <<>>
      BY <1>2 DEF Dialling, Quiet, Sock, Untouched
    <2>4. Len(i.writes) <= Len(i.writes) /\ Len(k.writes) <= Len(o.writes)
      BY <2>1, <2>3
    <2> QED BY <1>3, <2>1, <2>2, <2>3, <2>4, GoodShut
  <1> QED BY <1>5, <1>6, <1>7

\* The target's name is resolved, or not.
LEMMA Resolving ==
    ASSUME NEW i, NEW o, NEW st, NEW d, NEW v, AtResolve(st, i, o, d),
           LookupStep(Live(i, o, st, d), "outgoing", v)
    PROVE  Good(v)
  <1> DEFINE u == Live(i, o, st, d)
  <1>1. u.sock["outgoing"] = o /\ ~u.is_terminated
    BY LiveFields
  <1>2. Quiet(i) /\ Looking(o) /\ Dialled(d) /\ st = "resolve_host"
    BY DEF AtResolve
  <1>3. StageOK(st, i, o, d)
    BY DEF StageOK
  <1>4. ASSUME NEW k PROVE Put(u, "outgoing", k) = Live(i, k, st, d)
    BY LivePut
  <1>5. ~o.freed
    BY <1>2 DEF Looking, Sock, OpenSocket
  <1> HIDE DEF u
  <1>6. \/ v \in tunnel_dispatcher(Put(u, "outgoing", Found(o, "ok")), "outgoing")
        \/ v = tunnel_shutdown(Put(u, "outgoing", Found(o, "err")))
    <2>1. LookupStep(u, "outgoing", v)
      BY DEF u
    <2> QED BY <1>1, <1>5, <2>1, LookupCases
  <1>7. ASSUME v \in tunnel_dispatcher(Put(u, "outgoing", Found(o, "ok")), "outgoing")
        PROVE  Good(v)
    <2> DEFINE k == Found(o, "ok")
    <2>1. Unused(k)
      BY <1>2, SockFound
    <2>2. v \in tunnel_dispatcher(Live(i, k, "resolve_host", d), "outgoing")
      BY <1>2, <1>4, <1>7
    <2> HIDE DEF k
    <2>3. v \in do_resolve_host_done(Live(i, k, "resolve_host", d))
      BY <2>2, DialDispatch
    <2> QED BY <1>2, <2>1, <2>3, ResolveDone
  <1>8. ASSUME v = tunnel_shutdown(Put(u, "outgoing", Found(o, "err")))
        PROVE  Good(v)
    <2> DEFINE k == Found(o, "err")
    <2>1. Unused(k)
      BY <1>2, SockFound
    <2>2. v = tunnel_shutdown(Live(i, k, st, d))
      BY <1>4, <1>8
    <2> HIDE DEF k
    <2>3. o.writes = <<>> /\ i \in OpenSocket /\ i.writes = <<>>
      BY <1>2 DEF Looking, Quiet, Sock
    <2>4. k \in OpenSocket /\ k.writes = <<>> /\ Untouched(k)
      BY <2>1 DEF Unused, Sock, Untouched
    <2>5. Len(i.writes) <= Len(i.writes) /\ Len(k.writes) <= Len(o.writes)
      BY <2>3, <2>4
    <2> QED BY <1>3, <2>2, <2>3, <2>4, <2>5, GoodShut
  <1> QED BY <1>6, <1>7, <1>8

\* libuv's thread pool works on the lookup.
LEMMA Working ==
    ASSUME NEW i, NEW o, NEW st, NEW d, AtResolve(st, i, o, d), NEW x \in {"running", "done"}
    PROVE  Good(Put(Live(i, o, st, d), "outgoing", [o EXCEPT !.dns = x]))
  <1> DEFINE k == [o EXCEPT !.dns = x]
  <1>1. Looking(k)
    <2>1. Sock(o, "stop", "stop", FALSE, <<>>, FALSE, FALSE, o.dns)
      BY DEF AtResolve, Looking
    <2>2. Sock(k, "stop", "stop", FALSE, <<>>, FALSE, FALSE, x)
      BY <2>1, SockDns DEF DnsState
    <2>3. k.dns = x
      BY <2>2 DEF Sock
    <2> QED BY <2>2, <2>3 DEF Looking
  <1> HIDE DEF k
  <1>2. Put(Live(i, o, st, d), "outgoing", k) = Live(i, k, st, d)
    BY LivePut
  <1>3. StageOK(st, i, k, d)
    BY <1>1 DEF AtResolve, StageOK
  <1>4. Good(Put(Live(i, o, st, d), "outgoing", k))
    BY <1>2, <1>3, LiveGood
  <1> QED BY <1>4 DEF k

\* The requests in progress in n are among those of k, at most.
Ebbs(k, n) ==
    /\ n.writes \in Seq(Payload) /\ Len(n.writes) <= Len(k.writes)
    /\ Untouched(k) => Untouched(n)

\* What an operation that only ends requests leaves of server_ctx's invariant.
LEMMA OverEbbs ==
    ASSUME NEW i, NEW o, NEW j, NEW k, NEW g, NEW d, Over(i, o, g, d), Ebbs(i, j), Ebbs(o, k),
           i.writes \in Seq(Payload), o.writes \in Seq(Payload)
    PROVE  Over(j, k, g, d)
  <1>1. Short(i) /\ Short(o)
    BY DEF Over
  <1>2. Short(j) /\ Short(k)
    <2> DEFINE a == Len(i.writes)
               b == Len(o.writes)
               x == Len(j.writes)
               y == Len(k.writes)
    <2>1. a \in Nat /\ b \in Nat /\ x \in Nat /\ y \in Nat /\ MaxData \in Nat
      BY MaxDataAssumption DEF Ebbs
    <2>2. x <= a /\ y <= b /\ a <= 2 * MaxData + 2 /\ b <= 2 * MaxData + 2
      BY <1>1 DEF Short, Ebbs
    <2> HIDE DEF a, b, x, y
    <2>3. x <= 2 * MaxData + 2 /\ y <= 2 * MaxData + 2
      BY <2>1, <2>2
    <2> QED BY <2>3 DEF x, y, Short
  <1> QED BY <1>2 DEF Over, Ebbs

\* The idle timer of a socket expires in a live tunnel.
LEMMA TimesOut ==
    ASSUME NEW st, NEW i, NEW o, NEW d, StageOK(st, i, o, d), NEW s \in Side
    PROVE  Good(tunnel_socket_ctx_on_timeout_cb(Live(i, o, st, d), s))
  <1> DEFINE c == Alive(i, o, st)
             v == tunnel_socket_ctx_on_timeout_cb(c, s)
             j == v.sock["incoming"]
             k == v.sock["outgoing"]
             yes == TRUE
  <1>1. i \in OpenSocket /\ o \in OpenSocket /\ st \in tunnel_stage /\ Over(i, o, FALSE, d)
    BY StageOver
  <1>2. c \in TunnelType
    BY <1>1, AliveType
  <1>3. /\ IsCore(c) /\ c.sock["incoming"] = i /\ c.sock["outgoing"] = o
        /\ ~c.is_terminated /\ ~c.freed /\ ~c.held /\ c.bad = {}
    BY AliveFacts, PairFacts
  <1>4. c.ref = 1
    BY AliveRef
  <1>5. tunnel_socket_ctx_on_timeout_cb(Live(i, o, st, d), s) = Whole(v, d)
    <2> HIDE DEF c, v
    <2>1. tunnel_socket_ctx_on_timeout_cb(Whole(c, d), s)
             = Whole(tunnel_socket_ctx_on_timeout_cb(c, s), d)
      BY <1>3, WholeTimeout
    <2> QED BY <2>1 DEF Live, c, v
  <1>6. /\ i \in Socket(Payload) /\ o \in Socket(Payload)
        /\ i.writes \in Seq(Payload) /\ o.writes \in Seq(Payload)
        /\ SocketOK(i, FALSE, FALSE, yes) /\ SocketOK(o, FALSE, FALSE, yes)
    BY <1>1, SockOf
  <1> HIDE DEF c, v
  <1>7. /\ TunnelOK(v) /\ v.is_terminated = TRUE /\ v.freed = FALSE /\ v.held = c.held
        /\ \A r \in Side : Cancelled(c.sock[r], v.sock[r])
    <2>1. c.is_terminated = FALSE /\ c.freed = FALSE /\ c.held = FALSE
      BY <1>2, <1>3 DEF TunnelType
    <2>2. c.ref = 1 + One(c.held) /\ c.bad \subseteq {"stale"} /\ yes \in BOOLEAN
      BY <1>3, <1>4, <2>1 DEF One
    <2>3. \A r \in Side : SocketOK(c.sock[r], FALSE, FALSE, yes)
      BY <1>3, <1>6 DEF Side
    <2> HIDE DEF yes
    <2> QED BY <1>2, <2>1, <2>2, <2>3, TimeoutForm DEF v
  <1>8. Cancelled(i, j) /\ Cancelled(o, k)
    BY <1>3, <1>7 DEF Side
  <1> HIDE DEF j, k
  <1>9. Ebbs(i, j) /\ Ebbs(o, k)
    <2>1. Untouched(i) => Untouched(j)
      BY <1>8 DEF Cancelled, Untouched
    <2>2. Untouched(o) => Untouched(k)
      BY <1>8 DEF Cancelled, Untouched
    <2>3. j.writes = i.writes /\ k.writes = o.writes
      BY <1>8 DEF Cancelled
    <2>4. Len(i.writes) \in Nat /\ Len(o.writes) \in Nat
      BY <1>6
    <2> QED BY <1>6, <2>1, <2>2, <2>3, <2>4 DEF Ebbs
  <1>10. Over(j, k, FALSE, d)
    BY <1>1, <1>6, <1>9, OverEbbs
  <1>11. DeadOK(Whole(v, d))
    <2>1. Over(v.sock["incoming"], v.sock["outgoing"], v.freed, d) /\ ~v.held
      BY <1>3, <1>7, <1>10 DEF j, k
    <2> QED BY <1>7, <2>1, DeadIntro
  <1> QED BY <1>5, <1>11 DEF Good

\* server_shutdown ends a live tunnel.
LEMMA ShutsDown ==
    ASSUME NEW st, NEW i, NEW o, NEW d, StageOK(st, i, o, d)
    PROVE  Good(tunnel_shutdown(Live(i, o, st, d)))
  <1>1. i \in OpenSocket /\ o \in OpenSocket /\ st \in tunnel_stage /\ Over(i, o, FALSE, d)
    BY StageOver
  <1> QED BY <1>1, ShutLive DEF Good

\* Which events a live tunnel can get, and at which stages.
LEMMA StageEvents ==
    ASSUME NEW st, NEW i, NEW o, NEW d, StageOK(st, i, o, d)
    PROVE  /\ i.dns = "none" /\ ~i.connecting
           /\ o.dns # "none" => AtResolve(st, i, o, d)
           /\ o.connecting => AtConnect(st, i, o, d)
           /\ i.reading => \/ AtInitial(st, i, o, d) \/ AtFeedback(st, i, o, d)
                           \/ AtStreaming(st, i, o, d) \/ AtUdpStreaming(st, i, o, d)
           /\ o.reading => AtStreaming(st, i, o, d)
           /\ i.writes # <<>> =>
                 \/ AtReceipt(st, i, o, d) \/ AtConfirm(st, i, o, d) \/ AtUpgrade(st, i, o, d)
                 \/ AtUdpUpgrade(st, i, o, d) \/ AtPage(st, i, o, d)
                 \/ AtStreaming(st, i, o, d) \/ AtUdpStreaming(st, i, o, d)
           /\ o.writes # <<>> => AtLaunch(st, i, o, d) \/ AtStreaming(st, i, o, d)
  <1>1. CASE AtInitial(st, i, o, d)
    BY <1>1 DEF AtInitial, Reading, Unused, Sock
  <1>2. CASE AtReceipt(st, i, o, d)
    BY <1>2 DEF AtReceipt, Writing, Busy, Unused, Sock
  <1>3. CASE AtFeedback(st, i, o, d)
    BY <1>3 DEF AtFeedback, Reading, Unused, Sock
  <1>4. CASE AtConfirm(st, i, o, d)
    BY <1>4 DEF AtConfirm, Writing, Busy, Unused, Sock
  <1>5. CASE AtResolve(st, i, o, d)
    BY <1>5 DEF AtResolve, Quiet, Looking, Sock
  <1>6. CASE AtConnect(st, i, o, d)
    BY <1>6 DEF AtConnect, Quiet, Dialling, Sock
  <1>7. CASE AtLaunch(st, i, o, d)
    BY <1>7 DEF AtLaunch, Quiet, Writing, Busy, Sock
  <1>8. CASE AtUpgrade(st, i, o, d)
    BY <1>8 DEF AtUpgrade, Writing, Busy, Quiet, Sock
  <1>9. CASE AtUdpUpgrade(st, i, o, d)
    BY <1>9 DEF AtUdpUpgrade, Busy, Unused, Sock
  <1>10. CASE AtPage(st, i, o, d)
    BY <1>10 DEF AtPage, Writing, Busy, Unused, Sock
  <1>11. CASE AtStreaming(st, i, o, d)
    BY <1>11 DEF AtStreaming, Flow, Sock
  <1>12. CASE AtUdpStreaming(st, i, o, d)
    BY <1>12 DEF AtUdpStreaming, Flow, Unused, Sock
  <1> QED BY <1>1, <1>2, <1>3, <1>4, <1>5, <1>6, <1>7, <1>8, <1>9, <1>10, <1>11, <1>12
          DEF StageOK

\* A handle of a socket is closed.
TcpClosed(u, s, v) ==
    /\ u.sock[s].tcp = "closing" /\ ~u.sock[s].connecting /\ u.sock[s].writes = <<>>
    /\ v = AfterClose(u, uv_socket_close_done_cb(
                            Put(u, s, [u.sock[s] EXCEPT !.tcp = "closed"]), s))
TimerClosed(u, s, v) ==
    /\ u.sock[s].timer = "closing"
    /\ v = AfterClose(u, uv_socket_close_done_cb(
                            Put(u, s, [u.sock[s] EXCEPT !.timer = "closed"]), s))

\* The lookup makes progress.
WorkStep(u, s, v) ==
    \E x \in {"running", "done"} :
       u.sock[s].dns # "none" /\ v = Put(u, s, [u.sock[s] EXCEPT !.dns = x])

\* The events of socket s lead from u to v.
SockStep(u, s, v) ==
    \/ u.sock[s].reading /\ ReadStep(u, s, v)
    \/ u.sock[s].writes # <<>> /\ WrittenStep(u, s, v)
    \/ u.sock[s].connecting /\ ConnectStep(u, s, v)
    \/ u.sock[s].dns # "none" /\ LookupStep(u, s, v)
    \/ WorkStep(u, s, v)
    \/ u.sock[s].ticking /\ v = tunnel_socket_ctx_on_timeout_cb(u, s)
    \/ TcpClosed(u, s, v) \/ TimerClosed(u, s, v)

\* The events of the incoming socket preserve the invariant while the tunnel lives.
LEMMA IncomingStep ==
    ASSUME NEW st, NEW i, NEW o, NEW d, StageOK(st, i, o, d), NEW v,
           SockStep(Live(i, o, st, d), "incoming", v)
    PROVE  Good(v)
  <1> DEFINE u == Live(i, o, st, d)
  <1>1. u.sock["incoming"] = i
    BY LiveFields
  <1>2. i \in OpenSocket
    BY StageOver
  <1>3. i.dns = "none" /\ ~i.connecting /\ i.tcp = "open" /\ i.timer = "open"
    BY <1>2, StageEvents DEF OpenSocket
  <1> HIDE DEF u
  <1>4. \/ i.reading /\ ReadStep(u, "incoming", v)
        \/ i.writes # <<>> /\ WrittenStep(u, "incoming", v)
        \/ v = tunnel_socket_ctx_on_timeout_cb(u, "incoming")
    <2>1. SockStep(u, "incoming", v)
      BY DEF u
    <2> QED BY <1>1, <1>3, <2>1 DEF SockStep, WorkStep, TcpClosed, TimerClosed
  <1>5. CASE i.reading /\ ReadStep(u, "incoming", v)
    <2>1. ReadStep(Live(i, o, st, d), "incoming", v)
      BY <1>5 DEF u
    <2>2. \/ AtInitial(st, i, o, d) \/ AtFeedback(st, i, o, d)
          \/ AtStreaming(st, i, o, d) \/ AtUdpStreaming(st, i, o, d)
      BY <1>5, StageEvents
    <2>3. CASE AtInitial(st, i, o, d) \/ AtFeedback(st, i, o, d)
      BY <2>1, <2>3, HandshakeRead
    <2>4. CASE AtStreaming(st, i, o, d)
      BY <2>1, <2>4, StreamReadIn
    <2>5. CASE AtUdpStreaming(st, i, o, d)
      BY <2>1, <2>5, UdpRead
    <2> QED BY <2>2, <2>3, <2>4, <2>5
  <1>6. CASE i.writes # <<>> /\ WrittenStep(u, "incoming", v)
    <2>1. WrittenStep(Live(i, o, st, d), "incoming", v) /\ i.writes # <<>>
      BY <1>6 DEF u
    <2>2. \/ AtReceipt(st, i, o, d) \/ AtConfirm(st, i, o, d) \/ AtUpgrade(st, i, o, d)
          \/ AtUdpUpgrade(st, i, o, d) \/ AtPage(st, i, o, d)
          \/ AtStreaming(st, i, o, d) \/ AtUdpStreaming(st, i, o, d)
      BY <2>1, StageEvents
    <2>3. CASE AtReceipt(st, i, o, d) \/ AtConfirm(st, i, o, d)
               \/ AtUpgrade(st, i, o, d) \/ AtUdpUpgrade(st, i, o, d)
      BY <2>1, <2>3, HandshakeWritten
    <2>4. CASE AtPage(st, i, o, d)
      BY <2>1, <2>4, PageWritten
    <2>5. CASE AtStreaming(st, i, o, d) \/ AtUdpStreaming(st, i, o, d)
      BY <2>1, <2>5, StreamWrittenIn
    <2> QED BY <2>2, <2>3, <2>4, <2>5
  <1>7. CASE v = tunnel_socket_ctx_on_timeout_cb(u, "incoming")
    <2>1. Good(tunnel_socket_ctx_on_timeout_cb(Live(i, o, st, d), "incoming"))
      BY TimesOut DEF Side
    <2> QED BY <1>7, <2>1 DEF u
  <1> QED BY <1>4, <1>5, <1>6, <1>7

\* And those of the outgoing one.
LEMMA OutgoingStep ==
    ASSUME NEW st, NEW i, NEW o, NEW d, StageOK(st, i, o, d), NEW v,
           SockStep(Live(i, o, st, d), "outgoing", v)
    PROVE  Good(v)
  <1> DEFINE u == Live(i, o, st, d)
  <1>1. u.sock["outgoing"] = o
    BY LiveFields
  <1>2. o \in OpenSocket
    BY StageOver
  <1>3. o.tcp = "open" /\ o.timer = "open" /\ o.reading \in BOOLEAN
    BY <1>2 DEF OpenSocket
  <1> HIDE DEF u
  <1>4. \/ o.reading /\ ReadStep(u, "outgoing", v)
        \/ o.writes # <<>> /\ WrittenStep(u, "outgoing", v)
        \/ o.connecting /\ ConnectStep(u, "outgoing", v)
        \/ o.dns # "none" /\ LookupStep(u, "outgoing", v)
        \/ WorkStep(u, "outgoing", v)
        \/ v = tunnel_socket_ctx_on_timeout_cb(u, "outgoing")
    <2>1. SockStep(u, "outgoing", v)
      BY DEF u
    <2> QED BY <1>1, <1>3, <2>1 DEF SockStep, TcpClosed, TimerClosed
  <1>5. CASE o.reading /\ ReadStep(u, "outgoing", v)
    <2>1. ReadStep(Live(i, o, st, d), "outgoing", v) /\ o.reading = TRUE
      BY <1>3, <1>5 DEF u
    <2>2. AtStreaming(st, i, o, d)
      BY <1>5, StageEvents
    <2> QED BY <2>1, <2>2, StreamReadOut
  <1>6. CASE o.writes # <<>> /\ WrittenStep(u, "outgoing", v)
    <2>1. WrittenStep(Live(i, o, st, d), "outgoing", v) /\ o.writes # <<>>
      BY <1>6 DEF u
    <2>2. AtLaunch(st, i, o, d) \/ AtStreaming(st, i, o, d)
      BY <2>1, StageEvents
    <2>3. CASE AtLaunch(st, i, o, d)
      BY <2>1, <2>3, LaunchWritten
    <2>4. CASE AtStreaming(st, i, o, d)
      BY <2>1, <2>4, StreamWrittenOut
    <2> QED BY <2>2, <2>3, <2>4
  <1>7. CASE o.connecting /\ ConnectStep(u, "outgoing", v)
    <2>1. ConnectStep(Live(i, o, st, d), "outgoing", v) /\ AtConnect(st, i, o, d)
      BY <1>7, StageEvents DEF u
    <2> QED BY <2>1, Connecting
  <1>8. CASE o.dns # "none" /\ LookupStep(u, "outgoing", v)
    <2>1. LookupStep(Live(i, o, st, d), "outgoing", v) /\ AtResolve(st, i, o, d)
      BY <1>8, StageEvents DEF u
    <2> QED BY <2>1, Resolving
  <1>9. CASE WorkStep(u, "outgoing", v)
    <2>1. PICK x \in {"running", "done"} :
             o.dns # "none" /\ v = Put(u, "outgoing", [o EXCEPT !.dns = x])
      BY <1>1, <1>9 DEF WorkStep
    <2>2. AtResolve(st, i, o, d)
      BY <2>1, StageEvents
    <2>3. Good(Put(Live(i, o, st, d), "outgoing", [o EXCEPT !.dns = x]))
      BY <2>2, Working
    <2> QED BY <2>1, <2>3 DEF u
  <1>10. CASE v = tunnel_socket_ctx_on_timeout_cb(u, "outgoing")
    <2>1. Good(tunnel_socket_ctx_on_timeout_cb(Live(i, o, st, d), "outgoing"))
      BY TimesOut DEF Side
    <2> QED BY <1>10, <2>1 DEF u
  <1> QED BY <1>4, <1>5, <1>6, <1>7, <1>8, <1>9, <1>10

-----------------------------------------------------------------------------
(* Socket events of a tunnel that was shut down. *)

\* A request ends on socket s.
LEMMA DeadPut ==
    ASSUME NEW u, DeadOK(u), NEW s \in Side, NEW n \in Socket(Payload), Ebbs(u.sock[s], n),
           NEW c, c = CoreOf(u), TunnelOK(Put(c, s, n))
    PROVE  DeadOK(Put(u, s, n))
  <1> DEFINE d == u.data
             w == Put(c, s, n)
  <1>1. /\ u = Whole(c, d) /\ IsCore(c) /\ TunnelOK(c) /\ c.is_terminated = TRUE
        /\ c.held = FALSE /\ c.sock = u.sock /\ c.freed = u.freed
        /\ Over(u.sock["incoming"], u.sock["outgoing"], u.freed, d)
    BY DeadElim
  <1>2. c \in TunnelType
    BY <1>1 DEF TunnelOK
  <1>3. /\ w.is_terminated = c.is_terminated /\ w.freed = c.freed /\ w.held = c.held
        /\ w.sock[s] = n /\ \A r \in Side : r # s => w.sock[r] = c.sock[r]
    BY <1>2, PutFacts
  <1>4. \A r \in Side : u.sock[r] \in Socket(Payload) /\ u.sock[r].writes \in Seq(Payload)
    BY <1>1, <1>2 DEF TunnelType, Socket
  <1>5. Put(u, s, n) = Whole(w, d)
    BY <1>1, WholePut
  <1>6. \A r \in Side : Ebbs(u.sock[r], w.sock[r])
    <2>1. \A r \in Side : Ebbs(u.sock[r], u.sock[r])
      <3>1. ASSUME NEW r \in Side PROVE Len(u.sock[r].writes) \in Nat
        BY <1>4, <3>1
      <3> QED BY <1>4, <3>1 DEF Ebbs
    <2> QED BY <1>1, <1>3, <2>1
  <1> HIDE DEF w, d
  <1>7. Over(w.sock["incoming"], w.sock["outgoing"], u.freed, d)
    <2>1. "incoming" \in Side /\ "outgoing" \in Side
      BY DEF Side
    <2> QED BY <1>1, <1>4, <1>6, <2>1, OverEbbs
  <1>8. DeadOK(Whole(w, d))
    <2>1. TunnelOK(w) /\ w.is_terminated /\ ~w.held
          /\ Over(w.sock["incoming"], w.sock["outgoing"], w.freed, d)
      BY <1>1, <1>3, <1>7 DEF w
    <2> QED BY <2>1, DeadIntro
  <1> QED BY <1>5, <1>8

\* What the invariant says of a socket of it.
LEMMA DeadSocket ==
    ASSUME NEW u, DeadOK(u), NEW s \in Side
    PROVE  /\ u.sock[s] \in Socket(Payload) /\ u.sock[s].writes \in Seq(Payload)
           /\ ~u.sock[s].reading /\ ~u.sock[s].ticking /\ CoreOf(u).sock[s] = u.sock[s]
           /\ u.sock[s].tcp = "closed" => u.sock[s].writes = <<>> /\ ~u.sock[s].connecting
  <1> DEFINE c == CoreOf(u)
  <1>1. TunnelOK(c) /\ c.is_terminated = TRUE /\ c.sock = u.sock
    BY DeadElim
  <1> HIDE DEF c
  <1>2. SocketOK(c.sock[s], TRUE, c.freed, is_in_streaming(c))
    BY <1>1 DEF TunnelOK
  <1>3. u.sock[s] \in Socket(Payload) /\ ~u.sock[s].reading /\ ~u.sock[s].ticking
        /\ (u.sock[s].tcp = "closed" => u.sock[s].writes = <<>> /\ ~u.sock[s].connecting)
    BY <1>1, <1>2 DEF SocketOK
  <1>4. u.sock[s].writes \in Seq(Payload)
    BY <1>3 DEF Socket
  <1> QED BY <1>1, <1>3, <1>4 DEF c

\* A write is over.
LEMMA DeadWritten ==
    ASSUME NEW u, DeadOK(u), NEW s \in Side, NEW v, u.sock[s].writes # <<>>, WrittenStep(u, s, v)
    PROVE  DeadOK(v)
  <1> DEFINE k == u.sock[s]
             c == CoreOf(u)
  <1>1. /\ TunnelOK(c) /\ c.is_terminated = TRUE /\ u.is_terminated = TRUE /\ c.sock[s] = k
    BY DeadElim, DeadSocket
  <1>2. PICK x \in {"ok", "err"} :
           v \in tunnel_socket_ctx_on_written_cb(u, s, x, LAMBDA w : tunnel_write_done(w, s))
    BY DEF WrittenStep
  <1>3. v = Put(u, s, WroteTo(k, x))
    BY <1>1, <1>2 DEF tunnel_socket_ctx_on_written_cb, WroteTo
  <1> HIDE DEF c
  <1>4. Put(c, s, WroteTo(k, x)) \in tunnel_socket_ctx_on_written_cb(c, s, x, AnyHook)
    BY <1>1 DEF tunnel_socket_ctx_on_written_cb, WroteTo
  <1>5. TunnelOK(Put(c, s, WroteTo(k, x)))
    <2>1. c.sock[s].writes # <<>>
      BY <1>1
    <2> QED BY <1>1, <1>4, <2>1, OnWrittenOK
  <1>6. k \in Socket(Payload) /\ k.writes \in Seq(Payload) /\ k.writes # <<>>
    BY DeadSocket
  <1> HIDE DEF k
  <1>7. Tail(k.writes) \in Seq(Payload) /\ Len(Tail(k.writes)) <= Len(k.writes)
    <2> DEFINE q == k.writes
    <2>1. q \in Seq(Payload) /\ q # <<>>
      BY <1>6
    <2> HIDE DEF q
    <2>2. Tail(q) \in Seq(Payload) /\ Len(Tail(q)) = Len(q) - 1 /\ Len(q) \in Nat
      BY <2>1
    <2>3. Len(Tail(q)) <= Len(q)
      BY <2>2
    <2> QED BY <2>2, <2>3 DEF q
  <1>8. WroteTo(k, x) \in Socket(Payload) /\ Ebbs(k, WroteTo(k, x))
    <2> DEFINE q == Tail(k.writes)
               n == WroteTo(k, x)
    <2>1. n = [k EXCEPT !.writes = q, !.result = x]
      BY DEF WroteTo
    <2> HIDE DEF q, n
    <2>2. /\ n \in Socket(Payload) /\ n.writes = q /\ n.dns = k.dns
          /\ n.connecting = k.connecting /\ n.connected = k.connected
      <3>1. q \in Seq(Payload)
        BY <1>7 DEF q
      <3> QED BY <1>6, <2>1, <3>1, ZenonT(60) DEF Socket
    <2> QED BY <1>7, <2>2 DEF Ebbs, Untouched, q, n
  <1>9. DeadOK(Put(u, s, WroteTo(k, x)))
    <2> DEFINE n == WroteTo(k, x)
    <2> HIDE DEF n
    <2>1. n \in Socket(Payload) /\ Ebbs(u.sock[s], n) /\ TunnelOK(Put(c, s, n)) /\ c = CoreOf(u)
      BY <1>5, <1>8 DEF n, k, c
    <2>2. DeadOK(Put(u, s, n))
      BY <2>1, DeadPut
    <2> QED BY <2>2 DEF n
  <1> QED BY <1>3, <1>9

\* A connection is made, or was cancelled.
LEMMA DeadConnect ==
    ASSUME NEW u, DeadOK(u), NEW s \in Side, NEW v, u.sock[s].connecting, ConnectStep(u, s, v)
    PROVE  DeadOK(v)
  <1> DEFINE k == u.sock[s]
             c == CoreOf(u)
  <1>1. /\ TunnelOK(c) /\ c.is_terminated = TRUE /\ u.is_terminated = TRUE /\ c.sock[s] = k
    BY DeadElim, DeadSocket
  <1>2. PICK x \in {"ok", "err"} :
           v \in tunnel_socket_ctx_on_connect_cb(u, s, x, LAMBDA w : tunnel_dispatcher(w, s))
    BY DEF ConnectStep
  <1> DEFINE b == x = "ok"
             n == Reached(k, x, b)
  <1>3. v = Put(u, s, n)
    BY <1>1, <1>2 DEF tunnel_socket_ctx_on_connect_cb, Reached
  <1> HIDE DEF c
  <1>4. Put(c, s, n) \in tunnel_socket_ctx_on_connect_cb(c, s, x, AnyHook)
    BY <1>1 DEF tunnel_socket_ctx_on_connect_cb, Reached
  <1>5. k \in Socket(Payload) /\ k.writes \in Seq(Payload) /\ k.connecting
    BY DeadSocket
  <1>6. b \in BOOLEAN
    OBVIOUS
  <1> HIDE DEF k, b, n
  <1>7. TunnelOK(Put(c, s, n))
    <2>1. c.sock[s].connecting
      BY <1>1, <1>5
    <2> QED BY <1>1, <1>4, <2>1, OnConnectOK
  <1>8. n \in Socket(Payload) /\ Ebbs(k, n)
    <2>1. n = [k EXCEPT !.connecting = FALSE, !.ticking = FALSE, !.result = x, !.connected = b]
      BY DEF Reached, n
    <2>2. n \in Socket(Payload) /\ n.writes = k.writes
      BY <1>5, <1>6, <2>1, ZenonT(60) DEF Socket
    <2>3. Len(k.writes) \in Nat /\ ~Untouched(k)
      BY <1>5 DEF Untouched
    <2> QED BY <1>5, <2>2, <2>3 DEF Ebbs
  <1>9. DeadOK(Put(u, s, n))
    <2>1. Ebbs(u.sock[s], n) /\ c = CoreOf(u)
      BY <1>8 DEF k, c
    <2> QED BY <1>7, <1>8, <2>1, DeadPut
  <1> QED BY <1>3, <1>9

\* Requests end on either socket, and server_ctx becomes d.
LEMMA DeadMove ==
    ASSUME NEW u, DeadOK(u), NEW w, TunnelOK(w), w.is_terminated = TRUE, w.held = FALSE,
           \A r \in Side : Ebbs(u.sock[r], w.sock[r]), NEW d,
           Over(u.sock["incoming"], u.sock["outgoing"], w.freed, d)
    PROVE  DeadOK(Whole(w, d))
  <1>1. "incoming" \in Side /\ "outgoing" \in Side
    BY DEF Side
  <1>2. \A r \in Side : u.sock[r].writes \in Seq(Payload)
    BY DeadSocket
  <1>3. Over(w.sock["incoming"], w.sock["outgoing"], w.freed, d)
    BY <1>1, <1>2, OverEbbs
  <1> QED BY <1>3, DeadIntro

\* The name lookup ends, in time or too late.
LEMMA DeadLookup ==
    ASSUME NEW u, DeadOK(u), NEW s \in Side, NEW v, LookupStep(u, s, v)
    PROVE  DeadOK(v)
  <1> DEFINE k == u.sock[s]
             c == CoreOf(u)
             d == u.data
  <1>1. /\ u = Whole(c, d) /\ IsCore(c) /\ TunnelOK(c) /\ c.is_terminated = TRUE
        /\ u.is_terminated = TRUE /\ c.held = FALSE /\ c.freed = u.freed
        /\ c.sock = u.sock /\ c.sock[s] = k
        /\ Over(u.sock["incoming"], u.sock["outgoing"], u.freed, d)
    BY DeadElim, DeadSocket
  <1>2. k \in Socket(Payload) /\ k.writes \in Seq(Payload) /\ Len(k.writes) \in Nat
    <2>1. k \in Socket(Payload) /\ k.writes \in Seq(Payload)
      BY DeadSocket
    <2> QED BY <2>1
  <1>3. PICK x \in {"ok", "err"} :
           v \in tunnel_socket_ctx_on_getaddrinfo_cb(u, s, x,
                    LAMBDA w : tunnel_dispatcher(w, s))
    BY DEF LookupStep
  <1>4. CASE ~k.freed
    <2> DEFINE n == Found(k, x)
    <2>1. v = Put(u, s, n)
      BY <1>1, <1>3, <1>4 DEF tunnel_socket_ctx_on_getaddrinfo_cb, Found
    <2> HIDE DEF c
    <2>2. Put(c, s, n) \in tunnel_socket_ctx_on_getaddrinfo_cb(c, s, x, AnyHook)
      BY <1>1, <1>4 DEF tunnel_socket_ctx_on_getaddrinfo_cb, Found
    <2>3. n \in Socket(Payload) /\ Ebbs(k, n)
      <3> HIDE DEF k
      <3>1. n = [k EXCEPT !.dns = "none", !.ticking = FALSE, !.result = x]
        BY DEF Found
      <3> HIDE DEF n
      <3>2. /\ n \in Socket(Payload) /\ n.writes = k.writes /\ n.dns = "none"
            /\ n.connecting = k.connecting /\ n.connected = k.connected
        BY <1>2, <3>1, ZenonT(60) DEF Socket, DnsState
      <3> QED BY <1>2, <3>2 DEF Ebbs, Untouched
    <2> HIDE DEF n
    <2>4. TunnelOK(Put(c, s, n))
      BY <1>1, <2>2, OnGetaddrinfoOK
    <2>5. DeadOK(Put(u, s, n))
      <3>1. Ebbs(u.sock[s], n) /\ c = CoreOf(u)
        BY <2>3 DEF c
      <3> QED BY <2>3, <2>4, <3>1, DeadPut
    <2> QED BY <2>1, <2>5
  <1>5. CASE k.freed
    <2> DEFINE n == [k EXCEPT !.dns = "none"]
               a == Put(c, s, n)
               no == FALSE
               w == Assert(a, no, "stale")
    <2>1. v = Assert(Put(u, s, n), no, "stale")
      BY <1>1, <1>3, <1>5 DEF tunnel_socket_ctx_on_getaddrinfo_cb
    <2>2. /\ n \in Socket(Payload) /\ n.writes = k.writes /\ n.dns = "none"
          /\ n.connecting = k.connecting /\ n.connected = k.connected
      <3> HIDE DEF k
      <3> QED BY <1>2, ZenonT(60) DEF Socket, DnsState
    <2> HIDE DEF c
    <2>3. w \in tunnel_socket_ctx_on_getaddrinfo_cb(c, s, x, AnyHook)
      BY <1>1, <1>5 DEF tunnel_socket_ctx_on_getaddrinfo_cb
    <2> HIDE DEF n, no
    <2>4. Ebbs(k, n)
      BY <1>2, <2>2 DEF Ebbs, Untouched
    <2>5. v = Whole(w, d)
      <3>1. Put(u, s, n) = Whole(a, d) /\ IsCore(a)
        BY <1>1, WholePut
      <3> HIDE DEF a
      <3>2. Assert(Whole(a, d), no, "stale") = Whole(Assert(a, no, "stale"), d)
        BY <3>1, WholeAssert
      <3> QED BY <2>1, <3>1, <3>2
    <2>6. TunnelOK(w)
      BY <1>1, <2>3, OnGetaddrinfoOK
    <2>7. /\ a \in TunnelType /\ a.is_terminated = c.is_terminated /\ a.freed = c.freed
          /\ a.held = c.held /\ a.sock[s] = n
          /\ \A r \in Side : r # s => a.sock[r] = c.sock[r]
      <3>1. c \in TunnelType
        BY <1>1 DEF TunnelOK
      <3> QED BY <2>2, <3>1, PutFacts
    <2> HIDE DEF a
    <2>8. /\ w.is_terminated = a.is_terminated /\ w.freed = a.freed /\ w.held = a.held
          /\ w.sock = a.sock
      <3> DEFINE q == a.bad \cup {"stale"}
      <3>1. w = [a EXCEPT !.bad = q]
        BY DEF Assert, no
      <3> HIDE DEF w, q
      <3> QED BY <2>7, <3>1, Zenon DEF TunnelType
    <2> HIDE DEF w
    <2>9. \A r \in Side : Ebbs(u.sock[r], w.sock[r])
      <3>1. ASSUME NEW r \in Side PROVE Ebbs(u.sock[r], u.sock[r])
        <4>1. u.sock[r].writes \in Seq(Payload)
          BY <3>1, DeadSocket
        <4>2. Len(u.sock[r].writes) \in Nat
          BY <4>1
        <4> QED BY <4>1, <4>2 DEF Ebbs
      <3> QED BY <1>1, <2>4, <2>7, <2>8, <3>1
    <2>10. DeadOK(Whole(w, d))
      <3>1. /\ w.is_terminated = TRUE /\ w.held = FALSE
            /\ Over(u.sock["incoming"], u.sock["outgoing"], w.freed, d)
        BY <1>1, <2>7, <2>8
      <3> HIDE DEF d
      <3> QED BY <2>6, <2>9, <3>1, DeadMove
    <2> QED BY <2>5, <2>10
  <1> QED BY <1>4, <1>5

\* The lookup makes progress.
LEMMA DeadWork ==
    ASSUME NEW u, DeadOK(u), NEW s \in Side, NEW v, WorkStep(u, s, v)
    PROVE  DeadOK(v)
  <1> DEFINE k == u.sock[s]
             c == CoreOf(u)
  <1>1. TunnelOK(c) /\ c.sock[s] = k
    BY DeadElim, DeadSocket
  <1>2. k \in Socket(Payload) /\ k.writes \in Seq(Payload) /\ Len(k.writes) \in Nat
    <2>1. k \in Socket(Payload) /\ k.writes \in Seq(Payload)
      BY DeadSocket
    <2> QED BY <2>1
  <1>3. PICK x \in {"running", "done"} : k.dns # "none" /\ v = Put(u, s, [k EXCEPT !.dns = x])
    BY DEF WorkStep
  <1> DEFINE n == [k EXCEPT !.dns = x]
  <1>4. x \in DnsState
    BY DEF DnsState
  <1>5. TunnelOK(Put(c, s, n))
    <2> HIDE DEF c
    <2>1. TunnelOK(Put(c, s, [c.sock[s] EXCEPT !.dns = x]))
      BY <1>1, <1>4, DnsWorkOK
    <2> QED BY <1>1, <2>1
  <1>6. n \in Socket(Payload) /\ Ebbs(k, n)
    <2> HIDE DEF k
    <2>1. n \in Socket(Payload) /\ n.writes = k.writes
      BY <1>2, <1>4, ZenonT(60) DEF Socket
    <2>2. ~Untouched(k)
      BY <1>3 DEF Untouched
    <2> HIDE DEF n
    <2> QED BY <1>2, <2>1, <2>2 DEF Ebbs
  <1> HIDE DEF n, c
  <1>7. DeadOK(Put(u, s, n))
    <2>1. Ebbs(u.sock[s], n) /\ c = CoreOf(u)
      BY <1>6 DEF c
    <2> QED BY <1>5, <1>6, <2>1, DeadPut
  <1> QED BY <1>3, <1>7 DEF n

-----------------------------------------------------------------------------
(* The relay. *)

\* The relay gives back a reference, the last one included.
LEMMA RelayRelease ==
    ASSUME NEW r \in Remote, r.ref # 0, NEW q, q = udp_remote_ctx_t_release(r)
    PROVE  /\ q \in Remote /\ q.on = r.on /\ q.ref = r.ref - 1
           /\ q.shutting_down = r.shutting_down /\ q.dying_cb = r.dying_cb
           /\ q.receiving = r.receiving /\ q.ticking = r.ticking /\ q.udp = r.udp
           /\ q.timer = r.timer /\ q.sends = r.sends /\ (q.freed <=> r.freed \/ r.ref = 1)
  <1> DEFINE n == r.ref - 1
             f == r.freed \/ r.ref <= 1
  <1>1. n \in 0 .. 3 /\ f \in BOOLEAN /\ (f <=> r.freed \/ r.ref = 1)
    BY DEF Remote
  <1>2. q = [r EXCEPT !.ref = n, !.freed = f]
    BY DEF udp_remote_ctx_t_release
  <1> HIDE DEF n, f
  <1>3. /\ q \in Remote /\ q.on = r.on /\ q.ref = n
        /\ q.shutting_down = r.shutting_down /\ q.dying_cb = r.dying_cb
        /\ q.receiving = r.receiving /\ q.ticking = r.ticking /\ q.udp = r.udp
        /\ q.timer = r.timer /\ q.sends = r.sends /\ q.freed = f
    BY <1>1, <1>2, ZenonT(60) DEF Remote
  <1> QED BY <1>1, <1>3 DEF n

\* It starts to close its two handles.
LEMMA RelayShutdown ==
    ASSUME NEW r \in Remote, r.on, ~r.shutting_down, r.ref = 1, NEW q,
           q = udp_remote_shutdown(r)
    PROVE  /\ q \in Remote /\ q.on = r.on /\ q.ref = 3 /\ q.shutting_down = TRUE
           /\ q.dying_cb = r.dying_cb /\ q.receiving = FALSE /\ q.ticking = FALSE
           /\ q.udp = "closing" /\ q.timer = "closing" /\ q.sends = r.sends
           /\ q.freed = r.freed
  <1> DEFINE n == r.ref + 2
  <1>1. n \in 0 .. 3 /\ n = 3
    OBVIOUS
  <1>2. q = [r EXCEPT !.shutting_down = TRUE, !.receiving = FALSE, !.ticking = FALSE,
                      !.udp = "closing", !.timer = "closing", !.ref = n]
    BY DEF udp_remote_shutdown
  <1> HIDE DEF n
  <1>3. /\ q \in Remote /\ q.on = r.on /\ q.ref = n /\ q.shutting_down = TRUE
        /\ q.dying_cb = r.dying_cb /\ q.receiving = FALSE /\ q.ticking = FALSE
        /\ q.udp = "closing" /\ q.timer = "closing" /\ q.sends = r.sends
        /\ q.freed = r.freed
    BY <1>1, <1>2, ZenonT(60) DEF Remote
  <1> QED BY <1>1, <1>3

\* It forgets the callback to its owner.
LEMMA RelayForgets ==
    ASSUME NEW r \in Remote, NEW q, q = udp_remote_set_dying_callback(r)
    PROVE  /\ q \in Remote /\ q.on = r.on /\ q.ref = r.ref
           /\ q.shutting_down = r.shutting_down /\ q.dying_cb = FALSE
           /\ q.receiving = r.receiving /\ q.ticking = r.ticking /\ q.udp = r.udp
           /\ q.timer = r.timer /\ q.sends = r.sends /\ q.freed = r.freed
  <1>1. q = [r EXCEPT !.dying_cb = FALSE]
    BY DEF udp_remote_set_dying_callback
  <1> QED BY <1>1, ZenonT(60) DEF Remote

\* There is no relay.
LEMMA NoRelayFacts ==
    /\ NoRelay \in Remote /\ ~NoRelay.on /\ NoRelay.udp = "closed" /\ NoRelay.timer = "closed"
    /\ ~NoRelay.receiving /\ ~NoRelay.ticking /\ NoRelay.sends = 0
    /\ udp_remote_set_dying_callback(NoRelay) = NoRelay
    /\ udp_remote_destroy(NoRelay) = NoRelay /\ udp_remote_shutdown(NoRelay) = NoRelay
  <1>1. NoRelay \in Remote /\ ~NoRelay.on /\ NoRelay.udp = "closed" /\ NoRelay.timer = "closed"
        /\ ~NoRelay.receiving /\ ~NoRelay.ticking /\ NoRelay.sends = 0
    BY DEF NoRelay, Remote
  <1>2. udp_remote_set_dying_callback(NoRelay) = NoRelay
    <2> DEFINE p == udp_remote_set_dying_callback(NoRelay)
    <2>1. p \in [ on : {FALSE}, ref : {0}, shutting_down : {FALSE}, dying_cb : {FALSE},
                  receiving : {FALSE}, ticking : {FALSE}, udp : {"closed"},
                  timer : {"closed"}, sends : {0}, freed : {FALSE} ]
      BY DEF udp_remote_set_dying_callback, NoRelay
    <2> QED BY <2>1 DEF NoRelay
  <1>3. udp_remote_destroy(NoRelay) = NoRelay /\ udp_remote_shutdown(NoRelay) = NoRelay
    BY <1>1 DEF udp_remote_destroy, udp_remote_shutdown
  <1> QED BY <1>1, <1>2, <1>3

\* The counts of a relay whose tunnel is not freed.
LEMMA RelayHeld ==
    ASSUME NEW r \in Remote, NEW term \in BOOLEAN, RelayOK(r, term, FALSE), r.on
    PROVE  /\ r.ref = 1 + (IF r.udp = "closing" THEN 1 ELSE 0)
                        + (IF r.timer = "closing" THEN 1 ELSE 0)
           /\ r.ref # 0 /\ ~r.freed /\ r.ref \in Nat
           /\ r.shutting_down => term /\ ~r.receiving /\ ~r.ticking
                                 /\ r.udp # "open" /\ r.timer # "open"
           /\ ~r.shutting_down => r.dying_cb /\ r.udp = "open" /\ r.timer = "open"
           /\ r.udp = "closed" => r.sends = 0
  <1>1. r.ref = 1 + (IF r.udp = "closing" THEN 1 ELSE 0) + (IF r.timer = "closing" THEN 1 ELSE 0)
        /\ (r.freed <=> r.ref = 0)
    BY DEF RelayOK, One
  <1> QED BY <1>1 DEF RelayOK, Remote

\* A server_ctx that is destroyed ends its relay.
LEMMA RelayDestroyed ==
    ASSUME NEW r \in Remote, RelayOK(r, TRUE, FALSE), NEW q,
           q = udp_remote_destroy(udp_remote_set_dying_callback(r))
    PROVE  q \in Remote /\ RelayOK(q, TRUE, TRUE)
  <1> DEFINE p == udp_remote_set_dying_callback(r)
  <1>1. /\ p \in Remote /\ p.on = r.on /\ p.ref = r.ref /\ p.shutting_down = r.shutting_down
        /\ p.dying_cb = FALSE /\ p.receiving = r.receiving /\ p.ticking = r.ticking
        /\ p.udp = r.udp /\ p.timer = r.timer /\ p.sends = r.sends /\ p.freed = r.freed
    BY RelayForgets
  <1>2. CASE ~r.on
    <2>1. r = NoRelay
      BY <1>2 DEF RelayOK
    <2>2. q = NoRelay
      BY <2>1, NoRelayFacts
    <2>3. RelayOK(NoRelay, TRUE, TRUE)
      BY NoRelayFacts DEF RelayOK
    <2> QED BY <2>2, <2>3, NoRelayFacts
  <1>3. CASE r.on /\ r.shutting_down
    <2>1. /\ r.ref = 1 + (IF r.udp = "closing" THEN 1 ELSE 0)
                       + (IF r.timer = "closing" THEN 1 ELSE 0)
          /\ r.ref # 0 /\ ~r.freed /\ r.ref \in Nat
          /\ ~r.receiving /\ ~r.ticking /\ r.udp # "open" /\ r.timer # "open"
          /\ r.udp = "closed" => r.sends = 0
      BY <1>3, RelayHeld
    <2> HIDE DEF p
    <2>2. q = udp_remote_ctx_t_release(p)
      BY <1>1, <1>3 DEF udp_remote_destroy, udp_remote_shutdown, p
    <2>3. /\ q \in Remote /\ q.on = p.on /\ q.ref = p.ref - 1
          /\ q.shutting_down = p.shutting_down /\ q.dying_cb = p.dying_cb
          /\ q.receiving = p.receiving /\ q.ticking = p.ticking /\ q.udp = p.udp
          /\ q.timer = p.timer /\ q.sends = p.sends /\ (q.freed <=> p.freed \/ p.ref = 1)
      BY <1>1, <2>1, <2>2, RelayRelease
    <2>4. q.ref = One(~TRUE) + One(q.udp = "closing") + One(q.timer = "closing")
      BY <1>1, <2>1, <2>3 DEF One
    <2>5. q.freed <=> q.ref = 0
      BY <1>1, <2>1, <2>3
    <2>6. q.on /\ q.shutting_down /\ ~q.dying_cb /\ ~q.receiving /\ ~q.ticking
          /\ q.udp # "open" /\ q.timer # "open" /\ (q.udp = "closed" => q.sends = 0)
      BY <1>1, <1>3, <2>1, <2>3
    <2>7. RelayOK(q, TRUE, TRUE)
      BY <2>4, <2>5, <2>6 DEF RelayOK
    <2> QED BY <2>3, <2>7
  <1>4. CASE r.on /\ ~r.shutting_down
    <2>a. /\ r.ref = 1 + (IF r.udp = "closing" THEN 1 ELSE 0)
                       + (IF r.timer = "closing" THEN 1 ELSE 0)
          /\ ~r.freed /\ r.udp = "open" /\ r.timer = "open"
      BY <1>4, RelayHeld
    <2>1. /\ r.ref = 1 /\ ~r.freed
      BY <2>a
    <2> HIDE DEF p
    <2> DEFINE a == udp_remote_shutdown(p)
    <2>2. /\ a \in Remote /\ a.on = p.on /\ a.ref = 3 /\ a.shutting_down = TRUE
          /\ a.dying_cb = p.dying_cb /\ a.receiving = FALSE /\ a.ticking = FALSE
          /\ a.udp = "closing" /\ a.timer = "closing" /\ a.sends = p.sends /\ a.freed = p.freed
      BY <1>1, <1>4, <2>1, RelayShutdown
    <2>3. q = udp_remote_ctx_t_release(a)
      BY <1>1, <1>4 DEF udp_remote_destroy, p
    <2> HIDE DEF a
    <2>4. /\ q \in Remote /\ q.on = a.on /\ q.ref = a.ref - 1
          /\ q.shutting_down = a.shutting_down /\ q.dying_cb = a.dying_cb
          /\ q.receiving = a.receiving /\ q.ticking = a.ticking /\ q.udp = a.udp
          /\ q.timer = a.timer /\ q.sends = a.sends /\ (q.freed <=> a.freed \/ a.ref = 1)
      BY <2>2, <2>3, RelayRelease
    <2>5. /\ q.on /\ q.ref = 2 /\ q.shutting_down /\ ~q.dying_cb /\ ~q.receiving
          /\ ~q.ticking /\ q.udp = "closing" /\ q.timer = "closing" /\ ~q.freed
      BY <1>1, <1>4, <2>1, <2>2, <2>4
    <2>6. RelayOK(q, TRUE, TRUE)
      BY <2>5 DEF RelayOK, One
    <2> QED BY <2>4, <2>6
  <1> QED BY <1>2, <1>3, <1>4

\* tunnel_destroying on a tunnel put together from its parts.
LEMMA WholeDestroying ==
    ASSUME NEW c, NEW d
    PROVE  tunnel_destroying(Whole(c, d))
              = Whole(c, UdpTo(d, udp_remote_destroy(udp_remote_set_dying_callback(d.udp))))
  <1> DEFINE u == Whole(c, d)
             r == udp_remote_destroy(udp_remote_set_dying_callback(d.udp))
  <1>1. u.data = d
    BY DEF Whole
  <1>2. tunnel_destroying(u)
           = [u EXCEPT !.data.udp = udp_remote_destroy(udp_remote_set_dying_callback(u.data.udp))]
    BY DEF tunnel_destroying
  <1> HIDE DEF r
  <1>3. tunnel_destroying(u) = [u EXCEPT !.data.udp = r]
    BY <1>1, <1>2 DEF r
  <1>4. [u EXCEPT !.data.udp = r] = [u EXCEPT !.data = UdpTo(d, r)]
    BY <1>1 DEF UdpTo, Whole
  <1>5. [u EXCEPT !.data = UdpTo(d, r)] = Whole(c, UdpTo(d, r))
    <2> DEFINE e == UdpTo(d, r)
               w == [u EXCEPT !.data = e]
    <2> HIDE DEF e
    <2>1. w \in WholeSet(c, e)
      BY DEF Whole, WholeSet
    <2> HIDE DEF w
    <2>2. w = Whole(c, e)
      BY <2>1, WholeEq
    <2> QED BY <2>2 DEF w, e
  <1> QED BY <1>3, <1>4, <1>5 DEF r, u

\* A handle of socket s reports its close; with the last one server_ctx goes.
LEMMA DeadClosed ==
    ASSUME NEW u, DeadOK(u), NEW s \in Side, NEW k,
           \/ /\ u.sock[s].tcp = "closing" /\ ~u.sock[s].connecting
              /\ u.sock[s].writes = <<>>
              /\ k = [u.sock[s] EXCEPT !.tcp = "closed"]
           \/ /\ u.sock[s].timer = "closing"
              /\ k = [u.sock[s] EXCEPT !.timer = "closed"]
    PROVE  DeadOK(AfterClose(u, uv_socket_close_done_cb(Put(u, s, k), s)))
  <1> DEFINE j == u.sock[s]
             c == CoreOf(u)
             d == u.data
             a == Put(c, s, k)
             w == uv_socket_close_done_cb(a, s)
             v == uv_socket_close_done_cb(Put(u, s, k), s)
             e == UdpTo(d, udp_remote_destroy(udp_remote_set_dying_callback(d.udp)))
  <1>1. /\ u = Whole(c, d) /\ IsCore(c) /\ TunnelOK(c) /\ c.is_terminated = TRUE
        /\ u.is_terminated = TRUE /\ c.held = FALSE /\ c.freed = u.freed /\ c.sock = u.sock
        /\ u.freed \in BOOLEAN
        /\ Over(u.sock["incoming"], u.sock["outgoing"], u.freed, d)
    BY DeadElim
  <1>2. j \in Socket(Payload)
    BY DeadSocket
  <1>3. k \in Socket(Payload) /\ SameRequests(j, k)
    <2>1. CASE k = [j EXCEPT !.tcp = "closed"]
      <3> HIDE DEF j
      <3> QED BY <1>2, <2>1, ZenonT(60) DEF Socket, HandleState, SameRequests
    <2>2. CASE k = [j EXCEPT !.timer = "closed"]
      <3> HIDE DEF j
      <3> QED BY <1>2, <2>2, ZenonT(60) DEF Socket, HandleState, SameRequests
    <2> QED BY <2>1, <2>2
  <1>4. v = Whole(w, d) /\ IsCore(w)
    <2> HIDE DEF c, d
    <2>1. Put(u, s, k) = Whole(a, d) /\ IsCore(a)
      BY <1>1, WholePut
    <2> HIDE DEF a
    <2> QED BY <2>1, WholeCloseDone
  <1>5. TunnelOK(w)
    <2> HIDE DEF c
    <2>1. \/ /\ c.sock[s].tcp = "closing" /\ ~c.sock[s].connecting
             /\ c.sock[s].writes = <<>>
             /\ k = [c.sock[s] EXCEPT !.tcp = "closed"]
          \/ /\ c.sock[s].timer = "closing"
             /\ k = [c.sock[s] EXCEPT !.timer = "closed"]
      BY <1>1
    <2> QED BY <1>1, <2>1, OnClosedOK
  <1>6. u.freed = FALSE
    <2>1. j.tcp = "closing" \/ j.timer = "closing"
      OBVIOUS
    <2> HIDE DEF c, d, j
    <2>2. SocketOK(c.sock[s], TRUE, c.freed, is_in_streaming(c)) /\ c.sock[s] = j
      BY <1>1 DEF TunnelOK, j
    <2>3. CloseOwed(j) > 0
      BY <2>1 DEF CloseOwed
    <2>4. j.on_closed
      BY <2>2, <2>3 DEF SocketOK
    <2>5. c.ref # 0
      <3>1. c.sock["incoming"].on_closed \/ c.sock["outgoing"].on_closed
        BY <2>2, <2>4 DEF Side
      <3>2. c.ref = One(~c.is_terminated) + One(c.sock["incoming"].on_closed)
             + One(c.sock["outgoing"].on_closed) + One(c.held)
        BY <1>1 DEF TunnelOK
      <3> QED BY <3>1, <3>2 DEF One
    <2>6. ~c.freed
      BY <1>1, <2>5 DEF TunnelOK
    <2> QED BY <1>1, <2>6
  <1> HIDE DEF c
  <1>7. /\ a \in TunnelType /\ a.is_terminated = c.is_terminated /\ a.held = c.held
        /\ a.sock[s] = k /\ \A r \in Side : r # s => a.sock[r] = c.sock[r]
    <2>1. c \in TunnelType
      BY <1>1 DEF TunnelOK
    <2> QED BY <1>3, <2>1, PutFacts
  <1>8. SameWork(a, w)
    BY <1>7, CountedType, CloseDoneRequests
  <1> HIDE DEF a, w
  <1>9. w.is_terminated = TRUE /\ w.held = FALSE
    BY <1>1, <1>7, <1>8 DEF SameWork
  <1>10. \A r \in Side : Ebbs(u.sock[r], w.sock[r])
    <2>1. \A r \in Side : SameRequests(u.sock[r], a.sock[r])
      BY <1>1, <1>3, <1>7 DEF SameRequests
    <2>2. \A r \in Side : SameRequests(u.sock[r], w.sock[r])
      BY <1>8, <2>1 DEF SameWork, SameRequests
    <2>3. ASSUME NEW r \in Side
          PROVE  u.sock[r].writes \in Seq(Payload) /\ Len(u.sock[r].writes) \in Nat
      <3>1. u.sock[r].writes \in Seq(Payload)
        BY <2>3, DeadSocket
      <3> QED BY <3>1
    <2> QED BY <2>2, <2>3 DEF SameRequests, Ebbs, Untouched
  <1>11. AfterClose(u, v) = IF w.freed THEN Whole(w, e) ELSE Whole(w, d)
    <2> HIDE DEF d, e, v
    <2>1. v.freed = w.freed
      BY <1>4 DEF Whole
    <2>2. tunnel_destroying(Whole(w, d)) = Whole(w, e)
      BY WholeDestroying DEF e
    <2> QED BY <1>4, <1>6, <2>1, <2>2 DEF AfterClose
  <1> HIDE DEF v
  <1>12. CASE ~w.freed
    <2>1. w.freed = FALSE
      <3>1. w.freed \in BOOLEAN
        BY <1>5 DEF TunnelOK, TunnelType
      <3> QED BY <1>12, <3>1
    <2>2. Over(u.sock["incoming"], u.sock["outgoing"], w.freed, d)
      BY <1>1, <1>6, <2>1
    <2> HIDE DEF d
    <2>3. DeadOK(Whole(w, d))
      BY <1>5, <1>9, <1>10, <2>2, DeadMove
    <2> QED BY <1>11, <1>12, <2>3 DEF v
  <1>13. CASE w.freed
    <2>1. w.freed = TRUE
      <3>1. w.freed \in BOOLEAN
        BY <1>5 DEF TunnelOK, TunnelType
      <3> QED BY <1>13, <3>1
    <2>2. d \in ServerCtx /\ RelayOK(d.udp, TRUE, FALSE)
      BY <1>1, <1>6 DEF Over
    <2> DEFINE q == udp_remote_destroy(udp_remote_set_dying_callback(d.udp))
    <2>3. q \in Remote /\ RelayOK(q, TRUE, TRUE)
      <3>1. d.udp \in Remote
        BY <2>2, CtxFields
      <3> HIDE DEF d
      <3> QED BY <2>2, <3>1, RelayDestroyed
    <2>4. e = UdpTo(d, q)
      OBVIOUS
    <2> HIDE DEF d, q, e
    <2>5. /\ e \in ServerCtx /\ e.udp = q /\ e.bad = d.bad /\ e.sent = d.sent
          /\ e.cipher = d.cipher /\ e.got = d.got
      BY <2>2, <2>3, <2>4, CtxUdp
    <2>6. Authed(d) => Authed(e)
      BY <2>5, AuthedSame
    <2>7. Over(u.sock["incoming"], u.sock["outgoing"], TRUE, e)
      BY <1>1, <2>3, <2>5, <2>6 DEF Over
    <2>8. DeadOK(Whole(w, e))
      <3>1. Over(u.sock["incoming"], u.sock["outgoing"], w.freed, e)
        BY <2>1, <2>7
      <3> QED BY <1>5, <1>9, <1>10, <3>1, DeadMove
    <2> QED BY <1>11, <1>13, <2>8 DEF v
  <1> QED BY <1>12, <1>13

\* The events of a socket preserve the invariant after the shutdown.
LEMMA DeadStep ==
    ASSUME NEW u, DeadOK(u), NEW s \in Side, NEW v, SockStep(u, s, v)
    PROVE  DeadOK(v)
  <1>1. ~u.sock[s].reading /\ ~u.sock[s].ticking
    BY DeadSocket
  <1>2. CASE u.sock[s].writes # <<>> /\ WrittenStep(u, s, v)
    BY <1>2, DeadWritten
  <1>3. CASE u.sock[s].connecting /\ ConnectStep(u, s, v)
    BY <1>3, DeadConnect
  <1>4. CASE LookupStep(u, s, v)
    BY <1>4, DeadLookup
  <1>5. CASE WorkStep(u, s, v)
    BY <1>5, DeadWork
  <1>6. CASE TcpClosed(u, s, v)
    <2> DEFINE k == [u.sock[s] EXCEPT !.tcp = "closed"]
    <2>1. /\ u.sock[s].tcp = "closing" /\ ~u.sock[s].connecting /\ u.sock[s].writes = <<>>
          /\ v = AfterClose(u, uv_socket_close_done_cb(Put(u, s, k), s))
      BY <1>6 DEF TcpClosed
    <2> QED BY <2>1, DeadClosed
  <1>7. CASE TimerClosed(u, s, v)
    <2> DEFINE k == [u.sock[s] EXCEPT !.timer = "closed"]
    <2>1. /\ u.sock[s].timer = "closing"
          /\ v = AfterClose(u, uv_socket_close_done_cb(Put(u, s, k), s))
      BY <1>7 DEF TimerClosed
    <2> QED BY <2>1, DeadClosed
  <1> QED BY <1>1, <1>2, <1>3, <1>4, <1>5, <1>6, <1>7 DEF SockStep

\* The relay's timer is reset, or stopped; a send is over.
Ticks(r, b) == [r EXCEPT !.ticking = b]
Sends(r, n) == [r EXCEPT !.sends = n]

\* What each leaves of the relay.
LEMMA TicksFacts ==
    ASSUME NEW r \in Remote, NEW b \in BOOLEAN
    PROVE  /\ Ticks(r, b) \in Remote /\ Ticks(r, b).on = r.on /\ Ticks(r, b).ref = r.ref
           /\ Ticks(r, b).shutting_down = r.shutting_down
           /\ Ticks(r, b).dying_cb = r.dying_cb /\ Ticks(r, b).receiving = r.receiving
           /\ Ticks(r, b).ticking = b /\ Ticks(r, b).udp = r.udp
           /\ Ticks(r, b).timer = r.timer /\ Ticks(r, b).sends = r.sends
           /\ Ticks(r, b).freed = r.freed
  BY ZenonT(60) DEF Ticks, Remote

\* The same for the sends in progress.
LEMMA SendsFacts ==
    ASSUME NEW r \in Remote, NEW n \in Nat
    PROVE  /\ Sends(r, n) \in Remote /\ Sends(r, n).on = r.on /\ Sends(r, n).ref = r.ref
           /\ Sends(r, n).shutting_down = r.shutting_down
           /\ Sends(r, n).dying_cb = r.dying_cb /\ Sends(r, n).receiving = r.receiving
           /\ Sends(r, n).ticking = r.ticking /\ Sends(r, n).udp = r.udp
           /\ Sends(r, n).timer = r.timer /\ Sends(r, n).sends = n
           /\ Sends(r, n).freed = r.freed
  BY ZenonT(60) DEF Sends, Remote

\* The timer of the relay is its own affair.
LEMMA RelayTicks ==
    ASSUME NEW r \in Remote, r.on, NEW term, NEW gone, RelayOK(r, term, gone),
           NEW b \in BOOLEAN, b => ~r.shutting_down
    PROVE  RelayOK(Ticks(r, b), term, gone)
  <1> DEFINE q == Ticks(r, b)
  <1>1. /\ q.on = r.on /\ q.ref = r.ref /\ q.shutting_down = r.shutting_down
        /\ q.dying_cb = r.dying_cb /\ q.receiving = r.receiving
        /\ q.ticking = b /\ q.udp = r.udp /\ q.timer = r.timer /\ q.sends = r.sends
        /\ q.freed = r.freed
    BY TicksFacts
  <1> HIDE DEF q
  <1>2. RelayOK(q, term, gone)
    BY <1>1 DEF RelayOK
  <1> QED BY <1>2 DEF q

\* udp_remote_reset_timer keeps the relay's invariant.
LEMMA RelayReset ==
    ASSUME NEW r \in Remote, r.on, NEW term, NEW gone, RelayOK(r, term, gone), NEW q,
           q = udp_remote_reset_timer(r)
    PROVE  q \in Remote /\ q.on /\ RelayOK(q, term, gone)
  <1> DEFINE b == r.timer = "open"
  <1>1. q = Ticks(r, b)
    BY DEF udp_remote_reset_timer, Ticks
  <1>2. b \in BOOLEAN /\ (b => ~r.shutting_down)
    BY DEF RelayOK
  <1> HIDE DEF b
  <1>3. Ticks(r, b) \in Remote /\ Ticks(r, b).on = r.on
    BY <1>2, TicksFacts
  <1>4. RelayOK(Ticks(r, b), term, gone)
    BY <1>2, RelayTicks
  <1> QED BY <1>1, <1>3, <1>4

\* upd_remote_sent_cb keeps it.
LEMMA RelaySent ==
    ASSUME NEW r \in Remote, r.sends > 0, NEW term, NEW gone, RelayOK(r, term, gone), NEW q,
           q = upd_remote_sent_cb(r)
    PROVE  r.on /\ q \in Remote /\ q.on /\ RelayOK(q, term, gone)
  <1> DEFINE n == r.sends - 1
             p == Sends(r, n)
  <1>1. r.on
    BY NoRelayFacts DEF RelayOK
  <1>2. n \in Nat
    BY DEF Remote
  <1>3. q = udp_remote_reset_timer(p)
    BY DEF upd_remote_sent_cb, Sends
  <1> HIDE DEF n
  <1>4. /\ p \in Remote /\ p.on = r.on /\ p.ref = r.ref /\ p.shutting_down = r.shutting_down
        /\ p.dying_cb = r.dying_cb /\ p.receiving = r.receiving
        /\ p.ticking = r.ticking /\ p.udp = r.udp /\ p.timer = r.timer
        /\ p.freed = r.freed
    BY <1>2, SendsFacts
  <1>5. r.udp # "closed"
    BY <1>1 DEF RelayOK
  <1> HIDE DEF p
  <1>6. RelayOK(p, term, gone)
    BY <1>1, <1>4, <1>5 DEF RelayOK
  <1> QED BY <1>1, <1>3, <1>4, <1>6, RelayReset

\* A handle of the relay is closed.
UdpGone(r) == [r EXCEPT !.udp = "closed"]
TimerGone(r) == [r EXCEPT !.timer = "closed"]

\* What each leaves of the relay.
LEMMA GoneFacts ==
    ASSUME NEW r \in Remote, NEW q, q = UdpGone(r) \/ q = TimerGone(r)
    PROVE  /\ q \in Remote /\ q.on = r.on /\ q.ref = r.ref
           /\ q.shutting_down = r.shutting_down /\ q.dying_cb = r.dying_cb
           /\ q.receiving = r.receiving /\ q.ticking = r.ticking
           /\ q.sends = r.sends /\ q.freed = r.freed
  <1>1. CASE q = UdpGone(r)
    BY <1>1, ZenonT(60) DEF UdpGone, Remote
  <1>2. CASE q = TimerGone(r)
    BY <1>2, ZenonT(60) DEF TimerGone, Remote
  <1> QED BY <1>1, <1>2

\* The handles of the relay after it.
LEMMA GoneHandles ==
    ASSUME NEW r \in Remote
    PROVE  /\ UdpGone(r).udp = "closed" /\ UdpGone(r).timer = r.timer
           /\ TimerGone(r).timer = "closed" /\ TimerGone(r).udp = r.udp
  BY ZenonT(60) DEF UdpGone, TimerGone, Remote

\* udp_remote_close_done_cb keeps the relay's invariant.
LEMMA RelayClosed ==
    ASSUME NEW r \in Remote, NEW term \in BOOLEAN, NEW gone \in BOOLEAN, RelayOK(r, term, gone),
           NEW p, NEW q, q = udp_remote_close_done_cb(p),
           \/ r.udp = "closing" /\ r.sends = 0 /\ p = UdpGone(r)
           \/ r.timer = "closing" /\ p = TimerGone(r)
    PROVE  r.on /\ r.shutting_down /\ q \in Remote /\ RelayOK(q, term, gone)
  <1>1. r.on
    BY NoRelayFacts DEF RelayOK
  <1>2. r.shutting_down
    BY <1>1 DEF RelayOK
  <1>3. /\ r.ref = (IF gone THEN 0 ELSE 1) + (IF r.udp = "closing" THEN 1 ELSE 0)
                    + (IF r.timer = "closing" THEN 1 ELSE 0)
        /\ r.freed <=> r.ref = 0
    BY <1>1 DEF RelayOK, One
  <1>4. /\ p \in Remote /\ p.on = r.on /\ p.ref = r.ref
        /\ p.shutting_down = r.shutting_down /\ p.dying_cb = r.dying_cb
        /\ p.receiving = r.receiving /\ p.ticking = r.ticking
        /\ p.sends = r.sends /\ p.freed = r.freed
    BY GoneFacts
  <1>5. /\ p.udp # "open" /\ p.timer # "open"
        /\ p.udp = "closed" => p.sends = 0
        /\ r.ref # 0 /\ r.ref \in Nat
        /\ p.ref - 1 = (IF gone THEN 0 ELSE 1) + (IF p.udp = "closing" THEN 1 ELSE 0)
                       + (IF p.timer = "closing" THEN 1 ELSE 0)
    <2>0. r.udp # "open" /\ r.timer # "open" /\ (r.udp = "closed" => r.sends = 0)
      BY <1>1, <1>2 DEF RelayOK
    <2>1. CASE r.udp = "closing" /\ r.sends = 0 /\ p = UdpGone(r)
      <3>1. p.udp = "closed" /\ p.timer = r.timer
        BY <2>1, GoneHandles
      <3> QED BY <1>3, <1>4, <2>0, <2>1, <3>1
    <2>2. CASE r.timer = "closing" /\ p = TimerGone(r)
      <3>1. p.timer = "closed" /\ p.udp = r.udp
        BY <2>2, GoneHandles
      <3> QED BY <1>3, <1>4, <2>0, <2>2, <3>1
    <2> QED BY <2>1, <2>2
  <1>6. /\ q \in Remote /\ q.on = p.on /\ q.ref = p.ref - 1
        /\ q.shutting_down = p.shutting_down /\ q.dying_cb = p.dying_cb
        /\ q.receiving = p.receiving /\ q.ticking = p.ticking /\ q.udp = p.udp
        /\ q.timer = p.timer /\ q.sends = p.sends /\ (q.freed <=> p.freed \/ p.ref = 1)
    <2>1. q = udp_remote_ctx_t_release(p) /\ p.ref # 0
      BY <1>4, <1>5 DEF udp_remote_close_done_cb
    <2> QED BY <1>4, <2>1, RelayRelease
  <1>7. q.ref = One(~gone) + One(q.udp = "closing") + One(q.timer = "closing")
    BY <1>5, <1>6 DEF One
  <1>8. q.freed <=> q.ref = 0
    BY <1>3, <1>4, <1>5, <1>6
  <1>9. /\ term /\ ~q.receiving /\ ~q.ticking /\ q.udp # "open" /\ q.timer # "open"
        /\ q.on /\ q.shutting_down /\ (q.udp = "closed" => q.sends = 0)
        /\ gone => ~q.dying_cb
    BY <1>1, <1>2, <1>4, <1>5, <1>6 DEF RelayOK
  <1>10. RelayOK(q, term, gone)
    BY <1>7, <1>8, <1>9 DEF RelayOK
  <1> QED BY <1>1, <1>2, <1>6, <1>10

\* udp_remote_shutdown, after which the owner is told once.
Ended(r) == udp_remote_set_dying_callback(udp_remote_shutdown(r))

\* A relay that has not begun to shut down belongs to a tunnel that is not freed.
LEMMA RelayEnded ==
    ASSUME NEW r \in Remote, r.on, ~r.shutting_down, NEW term \in BOOLEAN, NEW gone \in BOOLEAN,
           RelayOK(r, term, gone)
    PROVE  /\ gone = FALSE /\ DyingOwed(r) /\ Ended(r) \in Remote
           /\ RelayOK(Ended(r), TRUE, FALSE) /\ udp_remote_shutdown(r) \in Remote
  <1>1. gone = FALSE /\ r.dying_cb /\ r.udp = "open" /\ r.timer = "open"
    BY DEF RelayOK
  <1>2. r.ref = 1 /\ ~r.freed
    BY <1>1 DEF RelayOK, One
  <1> DEFINE a == udp_remote_shutdown(r)
             q == udp_remote_set_dying_callback(a)
  <1>3. /\ a \in Remote /\ a.on = r.on /\ a.ref = 3 /\ a.shutting_down = TRUE
        /\ a.receiving = FALSE /\ a.ticking = FALSE
        /\ a.udp = "closing" /\ a.timer = "closing" /\ a.freed = r.freed
    BY <1>2, RelayShutdown
  <1> HIDE DEF a
  <1>4. /\ q \in Remote /\ q.on = a.on /\ q.ref = a.ref
        /\ q.shutting_down = a.shutting_down /\ q.dying_cb = FALSE
        /\ q.receiving = a.receiving /\ q.ticking = a.ticking /\ q.udp = a.udp
        /\ q.timer = a.timer /\ q.freed = a.freed
    BY <1>3, RelayForgets
  <1> HIDE DEF q
  <1>5. /\ q.on /\ q.ref = 3 /\ q.shutting_down /\ ~q.receiving /\ ~q.ticking
        /\ q.udp = "closing" /\ q.timer = "closing" /\ ~q.freed
    BY <1>2, <1>3, <1>4
  <1>6. RelayOK(q, TRUE, FALSE)
    BY <1>5 DEF RelayOK, One
  <1>7. DyingOwed(r)
    BY <1>1 DEF DyingOwed
  <1> QED BY <1>1, <1>3, <1>4, <1>6, <1>7 DEF Ended, q, a

-----------------------------------------------------------------------------
(* The relay and its tunnel. *)

\* The relay of a tunnel replaced, or its callback to the tunnel forgotten.
DataUdp(u, r) == [u EXCEPT !.data.udp = r]
DataHush(u) == [u EXCEPT !.data.udp.dying_cb = FALSE]

\* On a tunnel put together from its parts.
LEMMA WholeUdp ==
    ASSUME NEW c, NEW d, NEW r
    PROVE  DataUdp(Whole(c, d), r) = Whole(c, UdpTo(d, r))
  <1> DEFINE u == Whole(c, d)
             e == UdpTo(d, r)
             w == SetData(u, e)
  <1>1. u.data = d
    BY DEF Whole
  <1>2. DataUdp(u, r) = w
    <2> HIDE DEF u
    <2> QED BY <1>1 DEF DataUdp, SetData, UdpTo
  <1>3. w \in WholeSet(c, e)
    <2> HIDE DEF e
    <2> QED BY DEF Whole, WholeSet, SetData
  <1> HIDE DEF w
  <1>4. w = Whole(c, e)
    BY <1>3, WholeEq
  <1> QED BY <1>2, <1>4

\* The same.
LEMMA WholeHush ==
    ASSUME NEW c, NEW d
    PROVE  DataHush(Whole(c, d)) = Whole(c, UdpTo(d, udp_remote_set_dying_callback(d.udp)))
  <1> DEFINE u == Whole(c, d)
             r == udp_remote_set_dying_callback(d.udp)
  <1>1. u.data = d
    BY DEF Whole
  <1>2. DataHush(u) = DataUdp(u, r)
    <2> HIDE DEF u
    <2> QED BY <1>1 DEF DataUdp, DataHush, udp_remote_set_dying_callback
  <1> QED BY <1>2, WholeUdp

\* The relay replaced twice.
LEMMA UdpTwice ==
    ASSUME NEW d \in ServerCtx, NEW r, NEW q
    PROVE  UdpTo(UdpTo(d, r), q) = UdpTo(d, q) /\ UdpTo(d, r).udp = r
  BY DEF UdpTo, ServerCtx

\* A server_ctx with another relay.
LEMMA OverRelay ==
    ASSUME NEW i, NEW o, NEW g, NEW h, NEW d, Over(i, o, g, d), NEW r \in Remote,
           RelayOK(r, TRUE, h)
    PROVE  Over(i, o, h, UdpTo(d, r))
  <1> DEFINE e == UdpTo(d, r)
  <1>1. d \in ServerCtx
    BY DEF Over
  <1>2. /\ e \in ServerCtx /\ e.udp = r /\ e.bad = d.bad /\ e.sent = d.sent
        /\ e.cipher = d.cipher /\ e.got = d.got
    BY <1>1, CtxUdp
  <1> HIDE DEF e
  <1>3. Authed(d) => Authed(e)
    BY <1>2, AuthedSame
  <1>4. Over(i, o, h, e)
    BY <1>2, <1>3 DEF Over
  <1> QED BY <1>4 DEF e

\* The end of the relay is the end of its tunnel.
LEMMA EndRelayForm ==
    ASSUME NEW c, IsCore(c), NEW d \in ServerCtx, DyingOwed(d.udp)
    PROVE  EndRelay(Whole(c, d)) = Whole(tunnel_shutdown(c), UdpTo(d, Ended(d.udp)))
  <1> DEFINE u == Whole(c, d)
             r == d.udp
             a == udp_remote_shutdown(r)
             e == UdpTo(d, a)
             x == tunnel_shutdown(c)
  <1>1. u.data = d
    BY DEF Whole
  <1>2. EndRelay(u) = DataHush(tunnel_shutdown(DataUdp(u, a)))
    <2> HIDE DEF u
    <2> QED BY <1>1 DEF EndRelay, DataHush, DataUdp
  <1>3. DataUdp(u, a) = Whole(c, e)
    BY WholeUdp
  <1> HIDE DEF u, r, a
  <1>4. tunnel_shutdown(Whole(c, e)) = Whole(x, e)
    BY WholeShutdown
  <1>5. DataHush(Whole(x, e)) = Whole(x, UdpTo(e, udp_remote_set_dying_callback(e.udp)))
    BY WholeHush
  <1>6. e.udp = a /\ UdpTo(e, udp_remote_set_dying_callback(a))
                       = UdpTo(d, udp_remote_set_dying_callback(a))
    BY UdpTwice
  <1>7. udp_remote_set_dying_callback(a) = Ended(r)
    BY DEF Ended, a
  <1> HIDE DEF e, x
  <1>8. EndRelay(u) = Whole(x, UdpTo(d, Ended(r)))
    BY <1>2, <1>3, <1>4, <1>5, <1>6, <1>7
  <1> QED BY <1>8 DEF u, r, x

\* A tunnel that was shut down, with another server_ctx.
LEMMA DeadData ==
    ASSUME NEW u, DeadOK(u), NEW d, Over(u.sock["incoming"], u.sock["outgoing"], u.freed, d)
    PROVE  DeadOK(Whole(CoreOf(u), d))
  <1> DEFINE c == CoreOf(u)
  <1>1. TunnelOK(c) /\ c.is_terminated = TRUE /\ c.held = FALSE /\ c.sock = u.sock
        /\ c.freed = u.freed
    BY DeadElim
  <1> HIDE DEF c
  <1>2. DeadOK(Whole(c, d))
    <2>1. Over(c.sock["incoming"], c.sock["outgoing"], c.freed, d) /\ ~c.held /\ c.is_terminated
      BY <1>1
    <2> QED BY <1>1, <2>1, DeadIntro
  <1> QED BY <1>2 DEF c

\* What the invariant says of the relay of a live tunnel.
LEMMA StageRelay ==
    ASSUME NEW st, NEW i, NEW o, NEW d, StageOK(st, i, o, d)
    PROVE  /\ d \in ServerCtx /\ d.udp \in Remote /\ RelayOK(d.udp, FALSE, FALSE)
           /\ d.udp.on => AtUdpUpgrade(st, i, o, d) \/ AtUdpStreaming(st, i, o, d)
  <1>1. d \in ServerCtx
    BY StageOver
  <1>2. d.udp \in Remote
    BY <1>1, CtxFields
  <1>3. RelayOK(NoRelay, FALSE, FALSE) /\ ~NoRelay.on
    BY NoRelayFacts DEF RelayOK
  <1>4. \/ d.udp = NoRelay
        \/ AtUdpUpgrade(st, i, o, d) /\ Relaying(d)
        \/ AtUdpStreaming(st, i, o, d) /\ Relaying(d)
    <2>1. CASE AtUdpUpgrade(st, i, o, d)
      BY <2>1 DEF AtUdpUpgrade
    <2>2. CASE AtUdpStreaming(st, i, o, d)
      BY <2>2 DEF AtUdpStreaming
    <2>3. CASE AtInitial(st, i, o, d) \/ AtReceipt(st, i, o, d) \/ AtFeedback(st, i, o, d)
               \/ AtConfirm(st, i, o, d) \/ AtResolve(st, i, o, d) \/ AtConnect(st, i, o, d)
      BY <2>3 DEF AtInitial, AtReceipt, AtFeedback, AtConfirm, AtResolve, AtConnect,
                  New, Greeted, Confirmed, Dialled, Blank
    <2>4. CASE AtLaunch(st, i, o, d) \/ AtUpgrade(st, i, o, d) \/ AtPage(st, i, o, d)
               \/ AtStreaming(st, i, o, d)
      BY <2>4 DEF AtLaunch, AtUpgrade, AtPage, AtStreaming, Launched
    <2> QED BY <2>1, <2>2, <2>3, <2>4 DEF StageOK
  <1>5. Relaying(d) => RelayOK(d.udp, FALSE, FALSE)
    BY DEF Relaying
  <1> QED BY <1>1, <1>2, <1>3, <1>4, <1>5

\* And of any tunnel's.
LEMMA GoodUdp ==
    ASSUME NEW u, Good(u)
    PROVE  /\ u.data \in ServerCtx /\ u.data.udp \in Remote
           /\ u.is_terminated \in BOOLEAN /\ u.freed \in BOOLEAN
           /\ RelayOK(u.data.udp, u.is_terminated, u.freed)
  <1>1. CASE LiveOK(u)
    <2>1. PICK i, o, st, d : u = Live(i, o, st, d) /\ StageOK(st, i, o, d)
      BY <1>1, LiveElim
    <2>2. u.data = d /\ u.is_terminated = FALSE /\ u.freed = FALSE
      BY <2>1 DEF Live, Whole, Alive, Core
    <2>3. d \in ServerCtx /\ d.udp \in Remote /\ RelayOK(d.udp, FALSE, FALSE)
      BY <2>1, StageRelay
    <2> QED BY <2>2, <2>3
  <1>2. CASE DeadOK(u)
    <2>1. u.is_terminated = TRUE /\ u.freed \in BOOLEAN
          /\ Over(u.sock["incoming"], u.sock["outgoing"], u.freed, u.data)
      BY <1>2, DeadElim
    <2>2. u.data \in ServerCtx /\ RelayOK(u.data.udp, TRUE, u.freed)
      BY <2>1 DEF Over
    <2> QED BY <2>1, <2>2, CtxFields
  <1> QED BY <1>1, <1>2 DEF Good


\* A live tunnel keeps its stage when its relay moves on.
LEMMA StageUdp ==
    ASSUME NEW st, NEW i, NEW o, NEW d, StageOK(st, i, o, d), d.udp.on,
           NEW r \in Remote, r.on, RelayOK(r, FALSE, FALSE)
    PROVE  StageOK(st, i, o, UdpTo(d, r))
  <1> DEFINE e == UdpTo(d, r)
  <1>1. d \in ServerCtx /\ (AtUdpUpgrade(st, i, o, d) \/ AtUdpStreaming(st, i, o, d))
    BY StageRelay
  <1>2. /\ e \in ServerCtx /\ e.cipher = d.cipher /\ e.udp = r /\ e.pkg = d.pkg
        /\ e.begun = d.begun /\ e.closing = d.closing /\ e.got = d.got
        /\ e.valid = d.valid /\ e.srv = d.srv /\ e.bad = d.bad /\ e.sent = d.sent
    BY <1>1, CtxUdp
  <1>3. Relaying(d)
    BY <1>1 DEF AtUdpUpgrade, AtUdpStreaming
  <1> HIDE DEF e
  <1>4. Authed(e) /\ HandshakeLen(e) = HandshakeLen(d)
    <2>1. Authed(d)
      BY <1>3 DEF Relaying
    <2> QED BY <1>2, <2>1, AuthedSame
  <1>5. Relaying(e)
    <2>1. e.sent["incoming"] = d.sent["incoming"] /\ e.udp.on /\ RelayOK(e.udp, FALSE, FALSE)
      BY <1>2
    <2> QED BY <1>2, <1>3, <1>4, <2>1, RelayingKeep
  <1>6. CASE AtUdpUpgrade(st, i, o, d)
    <2>1. AtUdpUpgrade(st, i, o, e)
      BY <1>2, <1>5, <1>6 DEF AtUdpUpgrade
    <2> QED BY <2>1 DEF StageOK, e
  <1>7. CASE AtUdpStreaming(st, i, o, d)
    <2>1. AtUdpStreaming(st, i, o, e)
      BY <1>2, <1>4, <1>5, <1>7 DEF AtUdpStreaming
    <2> QED BY <2>1 DEF StageOK, e
  <1> QED BY <1>1, <1>6, <1>7

\* A tunnel that was shut down, and its relay moves on.
LEMMA DeadUdp ==
    ASSUME NEW u, DeadOK(u), NEW r \in Remote, RelayOK(r, TRUE, u.freed)
    PROVE  DeadOK(DataUdp(u, r))
  <1> DEFINE c == CoreOf(u)
             d == u.data
             e == UdpTo(d, r)
  <1>1. u = Whole(c, d) /\ Over(u.sock["incoming"], u.sock["outgoing"], u.freed, d)
    BY DeadElim
  <1>2. Over(u.sock["incoming"], u.sock["outgoing"], u.freed, e)
    BY <1>1, OverRelay
  <1>3. DeadOK(Whole(c, e))
    <2> HIDE DEF e
    <2> QED BY <1>2, DeadData
  <1>4. DataUdp(Whole(c, d), r) = Whole(c, e)
    BY WholeUdp
  <1> HIDE DEF c, d, e
  <1> QED BY <1>1, <1>3, <1>4

\* The relay moves on, whatever its tunnel is.
LEMMA GoodRelay ==
    ASSUME NEW u, Good(u), u.data.udp.on, NEW r \in Remote, r.on,
           RelayOK(r, u.is_terminated, u.freed)
    PROVE  Good(DataUdp(u, r))
  <1>1. CASE LiveOK(u)
    <2>1. PICK i, o, st, d : u = Live(i, o, st, d) /\ StageOK(st, i, o, d)
      BY <1>1, LiveElim
    <2>2. u.data = d /\ u.is_terminated = FALSE /\ u.freed = FALSE
      BY <2>1 DEF Live, Whole, Alive, Core
    <2>3. StageOK(st, i, o, UdpTo(d, r))
      BY <2>1, <2>2, StageUdp
    <2>4. DataUdp(Live(i, o, st, d), r) = Live(i, o, st, UdpTo(d, r))
      BY WholeUdp DEF Live
    <2> QED BY <2>1, <2>3, <2>4, LiveGood
  <1>2. CASE DeadOK(u)
    <2>1. u.is_terminated = TRUE
      BY <1>2, DeadElim
    <2>2. RelayOK(r, TRUE, u.freed)
      BY <2>1
    <2> QED BY <1>2, <2>2, DeadUdp DEF Good
  <1> QED BY <1>1, <1>2 DEF Good

\* The relay ends of itself, and with it its tunnel.
LEMMA EndsRelay ==
    ASSUME NEW u, Good(u), u.data.udp.on, ~u.data.udp.shutting_down
    PROVE  Good(EndRelay(u))
  <1> DEFINE r == u.data.udp
             q == Ended(r)
  <1>1. u.data \in ServerCtx /\ r \in Remote /\ RelayOK(r, u.is_terminated, u.freed)
        /\ u.is_terminated \in BOOLEAN /\ u.freed \in BOOLEAN
    BY GoodUdp
  <1>2. u.freed = FALSE /\ DyingOwed(r) /\ q \in Remote /\ RelayOK(q, TRUE, FALSE)
    BY <1>1, RelayEnded
  <1>3. CASE LiveOK(u)
    <2>1. PICK i, o, st, d : u = Live(i, o, st, d) /\ StageOK(st, i, o, d)
      BY <1>3, LiveElim
    <2> DEFINE c == Alive(i, o, st)
               e == UdpTo(d, q)
    <2>2. u = Whole(c, d) /\ u.data = d /\ r = d.udp
      BY <2>1 DEF Live, Whole
    <2>3. IsCore(c)
      BY AliveFacts
    <2>4. i \in OpenSocket /\ o \in OpenSocket /\ st \in tunnel_stage /\ Over(i, o, FALSE, d)
      BY <2>1, StageOver
    <2> HIDE DEF c, r, q
    <2>5. EndRelay(Whole(c, d)) = Whole(tunnel_shutdown(c), UdpTo(d, Ended(d.udp)))
      BY <1>1, <1>2, <2>2, <2>3, EndRelayForm
    <2>6. Ended(d.udp) = q
      BY <2>2 DEF q
    <2>7. Over(i, o, FALSE, e)
      BY <1>2, <2>4, OverRelay
    <2> HIDE DEF e
    <2>8. tunnel_shutdown(Whole(c, e)) = Whole(tunnel_shutdown(c), e)
      BY <2>3, WholeShutdown
    <2>9. DeadOK(tunnel_shutdown(Live(i, o, st, e)))
      BY <2>4, <2>7, ShutLive
    <2>10. EndRelay(u) = tunnel_shutdown(Live(i, o, st, e))
      BY <2>2, <2>5, <2>6, <2>8 DEF Live, c, e
    <2> QED BY <2>9, <2>10 DEF Good
  <1>4. CASE DeadOK(u)
    <2> DEFINE c == CoreOf(u)
               d == u.data
               e == UdpTo(d, q)
    <2>1. u = Whole(c, d) /\ IsCore(c) /\ c.is_terminated = TRUE
          /\ Over(u.sock["incoming"], u.sock["outgoing"], u.freed, d)
      BY <1>4, DeadElim
    <2>2. tunnel_shutdown(c) = c
      <3> HIDE DEF c
      <3> QED BY <2>1 DEF tunnel_shutdown
    <2>3. d.udp = r
      OBVIOUS
    <2> HIDE DEF r, q
    <2>4. Over(u.sock["incoming"], u.sock["outgoing"], u.freed, e)
      BY <1>2, <2>1, OverRelay
    <2> HIDE DEF e
    <2>5. DeadOK(Whole(c, e))
      BY <1>4, <2>4, DeadData
    <2> HIDE DEF c, d
    <2>6. EndRelay(Whole(c, d)) = Whole(tunnel_shutdown(c), UdpTo(d, Ended(d.udp)))
      <3>1. d \in ServerCtx /\ DyingOwed(d.udp)
        BY <1>1, <1>2, <2>3 DEF d
      <3> QED BY <2>1, <3>1, EndRelayForm
    <2>7. EndRelay(u) = Whole(c, e)
      BY <2>1, <2>2, <2>3, <2>6 DEF q, e
    <2> QED BY <2>5, <2>7 DEF Good
  <1> QED BY <1>3, <1>4 DEF Good

\* The steps of the relay that do not concern the client.
RelayStep(u, v) ==
    \/ u.data.udp.receiving /\ v = EndRelay(u)
    \/ u.data.udp.ticking /\ v = EndRelay([u EXCEPT !.data.udp.ticking = FALSE])
    \/ u.data.udp.sends > 0 /\ v = [u EXCEPT !.data.udp = upd_remote_sent_cb(@)]
    \/ /\ u.data.udp.udp = "closing" /\ u.data.udp.sends = 0
       /\ v = [u EXCEPT !.data.udp = udp_remote_close_done_cb([@ EXCEPT !.udp = "closed"])]
    \/ /\ u.data.udp.timer = "closing"
       /\ v = [u EXCEPT !.data.udp = udp_remote_close_done_cb([@ EXCEPT !.timer = "closed"])]

\* A relay that receives, or whose timer runs, has not begun to shut down.
LEMMA RelayRuns ==
    ASSUME NEW r, NEW term, NEW gone, RelayOK(r, term, gone), r.receiving \/ r.ticking
    PROVE  r.on /\ ~r.shutting_down
  <1>1. r.on
    BY NoRelayFacts DEF RelayOK, NoRelay
  <1> QED BY <1>1 DEF RelayOK

\* The tunnel's relay is what it was replaced by.
LEMMA DataUdpFacts ==
    ASSUME NEW u, Good(u), NEW r
    PROVE  DataUdp(u, r).data.udp = r /\ u = Whole(CoreOf(u), u.data)
  <1>1. u = Whole(CoreOf(u), u.data)
    <2>1. CASE LiveOK(u)
      <3>1. PICK i, o, st, d : u = Live(i, o, st, d)
        BY <2>1, LiveElim
      <3>2. u.data = d /\ CoreOf(u) = CoreOf(Alive(i, o, st))
        BY <3>1 DEF Live, Whole, CoreOf, Core, Alive
      <3>3. CoreOf(Alive(i, o, st)) = Alive(i, o, st)
        BY DEF Alive, Core, CoreOf
      <3> QED BY <3>1, <3>2, <3>3 DEF Live
    <2>2. CASE DeadOK(u)
      BY <2>2, DeadElim
    <2> QED BY <2>1, <2>2 DEF Good
  <1> DEFINE c == CoreOf(u)
             d == u.data
             e == UdpTo(d, r)
  <1>2. DataUdp(Whole(c, d), r) = Whole(c, e)
    BY WholeUdp
  <1>3. Whole(c, e).data = e
    BY DEF Whole
  <1>4. e.udp = r
    <2>1. d \in ServerCtx
      BY GoodUdp
    <2> HIDE DEF d
    <2> QED BY <2>1, UdpTwice
  <1> HIDE DEF c, d, e
  <1>5. DataUdp(u, r).data.udp = r
    BY <1>1, <1>2, <1>3, <1>4 DEF c, d
  <1> QED BY <1>1, <1>5

\* They keep the invariant.
LEMMA RelayGood ==
    ASSUME NEW u, Good(u), NEW v, RelayStep(u, v)
    PROVE  Good(v)
  <1> DEFINE r == u.data.udp
             term == u.is_terminated
             gone == u.freed
  <1>1. r \in Remote /\ RelayOK(r, term, gone) /\ term \in BOOLEAN /\ gone \in BOOLEAN
    BY GoodUdp
  <1>2. CASE r.receiving /\ v = EndRelay(u)
    BY <1>1, <1>2, RelayRuns, EndsRelay
  <1>3. CASE r.ticking /\ v = EndRelay([u EXCEPT !.data.udp.ticking = FALSE])
    <2> DEFINE no == FALSE
               q == Ticks(r, no)
               w == DataUdp(u, q)
    <2>1. v = EndRelay(w)
      BY <1>3 DEF DataUdp, Ticks
    <2>2. r.on /\ ~r.shutting_down /\ no \in BOOLEAN /\ ~no
      BY <1>1, <1>3, RelayRuns
    <2> HIDE DEF no, r, term, gone
    <2>3. q \in Remote /\ q.on = r.on /\ q.shutting_down = r.shutting_down
      BY <1>1, <2>2, TicksFacts
    <2>4. RelayOK(q, term, gone)
      BY <1>1, <2>2, RelayTicks
    <2> HIDE DEF q
    <2>5. Good(w)
      BY <2>2, <2>3, <2>4, GoodRelay DEF r, term, gone
    <2>6. w.data.udp = q
      BY DataUdpFacts
    <2> HIDE DEF w
    <2>7. Good(EndRelay(w))
      BY <2>2, <2>3, <2>5, <2>6, EndsRelay
    <2> QED BY <2>1, <2>7
  <1>4. CASE r.sends > 0 /\ v = [u EXCEPT !.data.udp = upd_remote_sent_cb(@)]
    <2> DEFINE q == upd_remote_sent_cb(r)
    <2>1. v = DataUdp(u, q)
      BY <1>4 DEF DataUdp
    <2> HIDE DEF r, term, gone
    <2>2. r.on /\ q \in Remote /\ q.on /\ RelayOK(q, term, gone)
      BY <1>1, <1>4, RelaySent
    <2> HIDE DEF q
    <2>3. Good(DataUdp(u, q))
      BY <2>2, GoodRelay DEF r, term, gone
    <2> QED BY <2>1, <2>3
  <1>5. ASSUME NEW p, v = DataUdp(u, udp_remote_close_done_cb(p)),
               \/ r.udp = "closing" /\ r.sends = 0 /\ p = UdpGone(r)
               \/ r.timer = "closing" /\ p = TimerGone(r)
        PROVE  Good(v)
    <2> DEFINE q == udp_remote_close_done_cb(p)
    <2> HIDE DEF r, term, gone
    <2>1. r.on /\ r.shutting_down /\ q \in Remote /\ RelayOK(q, term, gone)
      BY <1>1, <1>5, RelayClosed
    <2> HIDE DEF q
    <2>2. term = TRUE
      BY <1>1, <2>1 DEF RelayOK
    <2>3. DeadOK(u)
      <3>1. LiveOK(u) => u.is_terminated = FALSE
        BY LiveElim DEF Live, Whole, Alive, Core
      <3> QED BY <2>2, <3>1 DEF Good, term
    <2>4. DeadOK(DataUdp(u, q))
      BY <2>1, <2>2, <2>3, DeadUdp DEF gone
    <2> QED BY <1>5, <2>4 DEF Good, q
  <1>6. CASE /\ r.udp = "closing" /\ r.sends = 0
             /\ v = [u EXCEPT !.data.udp = udp_remote_close_done_cb([@ EXCEPT !.udp = "closed"])]
    <2>1. v = DataUdp(u, udp_remote_close_done_cb(UdpGone(r)))
      BY <1>6 DEF DataUdp, UdpGone
    <2> QED BY <1>5, <1>6, <2>1
  <1>7. CASE /\ r.timer = "closing"
             /\ v = [u EXCEPT !.data.udp = udp_remote_close_done_cb([@ EXCEPT !.timer = "closed"])]
    <2>1. v = DataUdp(u, udp_remote_close_done_cb(TimerGone(r)))
      BY <1>7 DEF DataUdp, TimerGone
    <2> QED BY <1>5, <1>7, <2>1
  <1> QED BY <1>2, <1>3, <1>4, <1>6, <1>7 DEF RelayStep

\* server_ctx as a datagram finds it, and the assertion on the write in progress.
Marked(d, n, ok) ==
    LET e == FrameTo(d, n, TRUE)
    IN  IF ok THEN e ELSE BadTo(e, e.bad \cup {"early_datagram"})

\* A datagram arrives, and a live tunnel writes it to the client.
LEMMA ArrivedForm ==
    ASSUME NEW i, NEW o, NEW st, NEW d, NEW n, CanWrite(i)
    PROVE  LET q == <<Frame(Live(i, o, st, d), n)>>
               ok == st \in {"streaming", "udp_streaming"} \/ i.wrstate = "stop"
           IN  udp_remote_on_data_arrived(Live(i, o, st, d), n)
                 = Live(socket_ctx_write(i, q), o, st, SaidIn(Marked(d, n, ok), q))
  <1> DEFINE u == Live(i, o, st, d)
             q == <<Frame(u, n)>>
             ok == st \in {"streaming", "udp_streaming"} \/ i.wrstate = "stop"
             e == FrameTo(d, n, TRUE)
             g == Marked(d, n, ok)
             a == [u EXCEPT !.data.srv = n, !.data.begun = TRUE]
             b == ServerAssert(a, is_in_streaming(u) \/ i.wrstate = "stop", "early_datagram")
             j == socket_ctx_write(i, q)
             w == Put(b, "incoming", j)
  <1>1. u.sock["incoming"] = i /\ u.data = d /\ (is_in_streaming(u) <=> st \in {"streaming", "udp_streaming"})
    BY LiveFields, LiveStreams
  <1>2. a = Live(i, o, st, e)
    <2>1. a = SetData(u, e)
      <3> HIDE DEF u
      <3> QED BY <1>1 DEF SetData, FrameTo
    <2> HIDE DEF e, a
    <2> QED BY <2>1, LiveSet
  <1>3. a.data = e
    <2> HIDE DEF a, e
    <2> QED BY <1>2, LiveFields
  <1>4. b = Live(i, o, st, g)
    <2>1. CASE ok
      <3>1. g = e
        BY <2>1 DEF Marked
      <3>2. b = a
        BY <1>1, <2>1 DEF ServerAssert
      <3> HIDE DEF a, b, g, e
      <3> QED BY <1>2, <3>1, <3>2
    <2>2. CASE ~ok
      <3> DEFINE f == BadTo(e, e.bad \cup {"early_datagram"})
      <3>1. g = f
        BY <2>2 DEF Marked
      <3>2. b = [a EXCEPT !.data.bad = @ \cup {"early_datagram"}]
        BY <1>1, <2>2 DEF ServerAssert
      <3>3. b = SetData(a, f)
        <4> HIDE DEF a, b, e
        <4> QED BY <1>3, <3>2 DEF SetData, BadTo
      <3> HIDE DEF a, b, e, f
      <3>4. SetData(Live(i, o, st, e), f) = Live(i, o, st, f)
        BY LiveSet
      <3> QED BY <1>2, <3>1, <3>3, <3>4
    <2> QED BY <2>1, <2>2
  <1>5. w = Live(j, o, st, g) /\ w.data = g
    <2>1. Put(Live(i, o, st, g), "incoming", j) = Live(j, o, st, g)
      <3> HIDE DEF g, j
      <3> QED BY LivePut
    <2>2. Live(j, o, st, g).data = g
      <3> HIDE DEF g, j
      <3> QED BY LiveFields
    <2> HIDE DEF b, g, j
    <2> QED BY <1>4, <2>1, <2>2
  <1>6. udp_remote_on_data_arrived(u, n) = [w EXCEPT !.data.sent["incoming"] = @ \o q]
    <2> HIDE DEF u, q
    <2> QED BY <1>1 DEF udp_remote_on_data_arrived, u, q
  <1>7. [w EXCEPT !.data.sent["incoming"] = @ \o q] = SetData(w, SaidIn(g, q))
    <2> HIDE DEF w, g, q
    <2> QED BY <1>5 DEF SetData, SaidIn
  <1>8. SetData(Live(j, o, st, g), SaidIn(g, q)) = Live(j, o, st, SaidIn(g, q))
    <2> HIDE DEF g, q, j
    <2> QED BY LiveSet
  <1>9. udp_remote_on_data_arrived(u, n) = Live(j, o, st, SaidIn(g, q))
    <2> HIDE DEF w, g, q, j, u
    <2> QED BY <1>5, <1>6, <1>7, <1>8
  <1> QED BY <1>9

\* What it leaves of server_ctx.
LEMMA MarkedFacts ==
    ASSUME NEW d \in ServerCtx, NEW n \in 0 .. MaxData, NEW ok \in BOOLEAN, NEW g,
           g = Marked(d, n, ok)
    PROVE  /\ g \in ServerCtx /\ g.cipher = d.cipher /\ g.udp = d.udp /\ g.pkg = d.pkg
           /\ g.begun /\ g.closing = d.closing /\ g.got = d.got
           /\ g.valid = d.valid /\ g.srv = n /\ g.sent = d.sent
           /\ g.bad \subseteq d.bad \cup {"early_datagram"}
  <1> DEFINE yes == TRUE
             e == FrameTo(d, n, yes)
             b == e.bad \cup {"early_datagram"}
             f == BadTo(e, b)
  <1>1. yes \in BOOLEAN
    OBVIOUS
  <1>2. g = IF ok THEN e ELSE f
    BY DEF Marked
  <1>3. /\ e \in ServerCtx /\ e.cipher = d.cipher /\ e.udp = d.udp /\ e.pkg = d.pkg
        /\ e.begun = yes /\ e.closing = d.closing /\ e.got = d.got
        /\ e.valid = d.valid /\ e.srv = n /\ e.sent = d.sent /\ e.bad = d.bad
    <2> HIDE DEF yes
    <2> QED BY <1>1, CtxFrame
  <1> HIDE DEF e
  <1>4. b \in SUBSET Oops /\ b = d.bad \cup {"early_datagram"}
    <2>1. e.bad \in SUBSET Oops
      BY <1>3, CtxFields
    <2> QED BY <1>3, <2>1 DEF Oops
  <1> HIDE DEF b
  <1>5. /\ f \in ServerCtx /\ f.cipher = e.cipher /\ f.udp = e.udp /\ f.pkg = e.pkg
        /\ f.begun = e.begun /\ f.closing = e.closing /\ f.got = e.got
        /\ f.valid = e.valid /\ f.srv = e.srv /\ f.sent = e.sent /\ f.bad = b
    BY <1>3, <1>4, CtxBad
  <1> HIDE DEF f
  <1>6. CASE ok
    <2>1. g = e
      BY <1>2, <1>6
    <2> QED BY <1>3, <1>6, <2>1
  <1>7. CASE ~ok
    <2>1. g = f
      BY <1>2, <1>7
    <2> QED BY <1>3, <1>4, <1>5, <1>7, <2>1
  <1> QED BY <1>6, <1>7

\* The frame of a datagram is the next one of the message.
LEMMA FrameNext ==
    ASSUME NEW i, NEW o, NEW st, NEW d, Relaying(d), NEW n \in NextSrv(Live(i, o, st, d))
    PROVE  /\ Frame(Live(i, o, st, d), n) = DownTo("tls", n)
           /\ n = d.srv + 1 /\ n \in 0 .. MaxData /\ n <= MaxData
  <1> DEFINE u == Live(i, o, st, d)
             m == d.srv
  <1>1. u.data = d
    BY LiveFields
  <1>2. d \in ServerCtx /\ Down(d) /\ d.cipher.mode = "tls"
    BY DEF Relaying
  <1>3. m \in Nat /\ m \in 0 .. MaxData /\ MaxData \in Nat
    BY <1>2, CtxFields, MaxDataAssumption
  <1> HIDE DEF u
  <1>4. n = m + 1 /\ n <= MaxData
    BY <1>1 DEF NextSrv, u
  <1>5. d.begun <=> m > 0
    BY <1>2 DEF Down
  <1> HIDE DEF m
  <1>6. n \in 0 .. MaxData /\ (n = 1 <=> ~(m > 0))
    BY <1>3, <1>4
  <1>7. Frame(u, n) = DownTo("tls", n)
    <2>1. Frame(u, n) = Item(IF d.begun THEN "continuation" ELSE "binary", n)
      BY <1>1 DEF Frame
    <2>2. DownTo("tls", n) = Item(IF n = 1 THEN "binary" ELSE "continuation", n)
      BY DEF DownTo
    <2> QED BY <1>5, <1>6, <2>1, <2>2
  <1> QED BY <1>4, <1>6, <1>7 DEF u, m

\* server_ctx behind it.
LEMMA RelayingMore ==
    ASSUME NEW i, NEW o, NEW st, NEW d, Relaying(d), NEW n \in NextSrv(Live(i, o, st, d)),
           NEW ok \in BOOLEAN
    PROVE  LET x == Frame(Live(i, o, st, d), n)
               f == SaidIn(Marked(d, n, ok), <<x>>)
           IN  /\ Relaying(f) /\ x \in Items /\ f.udp = d.udp /\ f.srv = d.srv + 1
               /\ f.valid = d.valid /\ f.got = d.got /\ f.pkg = d.pkg
               /\ f.cipher = d.cipher /\ f.sent["outgoing"] = d.sent["outgoing"]
  <1> DEFINE x == Frame(Live(i, o, st, d), n)
             q == <<x>>
             g == Marked(d, n, ok)
             f == SaidIn(g, q)
  <1>1. x = DownTo("tls", n) /\ n = d.srv + 1 /\ n \in 0 .. MaxData /\ n <= MaxData
    BY FrameNext
  <1>2. /\ d \in ServerCtx /\ d.bad \subseteq {"early_datagram"} /\ Authed(d) /\ Down(d)
        /\ d.cipher.mode = "tls" /\ d.closing = FALSE
        /\ d.udp.on /\ RelayOK(d.udp, FALSE, FALSE)
    BY DEF Relaying
  <1>3. /\ g \in ServerCtx /\ g.cipher = d.cipher /\ g.udp = d.udp /\ g.pkg = d.pkg
        /\ g.begun /\ g.closing = d.closing /\ g.got = d.got
        /\ g.valid = d.valid /\ g.srv = n /\ g.sent = d.sent
        /\ g.bad \subseteq d.bad \cup {"early_datagram"}
    <2>1. g = Marked(d, n, ok)
      OBVIOUS
    <2>2. d \in ServerCtx /\ n \in 0 .. MaxData
      BY <1>1, <1>2
    <2> HIDE DEF g, x
    <2> QED BY <2>1, <2>2, MarkedFacts
  <1> HIDE DEF x, g
  <1>4. x \in Items
    <2> DEFINE h == [sent |-> [s \in Side |-> d.sent["incoming"] \o <<x>>], cipher |-> d.cipher,
                     closing |-> FALSE, srv |-> n, begun |-> TRUE]
    <2>1. NextDown(d, h, x) /\ h.cipher = d.cipher
          /\ h.sent["incoming"] = d.sent["incoming"] \o <<x>>
      BY <1>1, <1>2 DEF NextDown, Side
    <2> HIDE DEF h
    <2> QED BY <1>2, <2>1, DownMore
  <1>5. q \in Seq(Items)
    BY <1>4
  <1>6. /\ f \in ServerCtx /\ f.cipher = g.cipher /\ f.udp = g.udp /\ f.pkg = g.pkg
        /\ f.begun = g.begun /\ f.closing = g.closing /\ f.got = g.got /\ f.valid = g.valid
        /\ f.srv = g.srv /\ f.bad = g.bad /\ f.sent["outgoing"] = g.sent["outgoing"]
        /\ f.sent["incoming"] = g.sent["incoming"] \o q
    <2>1. f = SaidIn(g, q)
      OBVIOUS
    <2> HIDE DEF q, f
    <2> QED BY <1>3, <1>5, <2>1, CtxSaidIn
  <1> HIDE DEF f
  <1>7. NextDown(d, f, x)
    <2>1. f.begun = TRUE
      BY <1>3, <1>6, CtxFields
    <2> QED BY <1>1, <1>2, <1>3, <1>6, <2>1 DEF NextDown
  <1>8. Down(f)
    <2>1. f.cipher = d.cipher /\ f.sent["incoming"] = d.sent["incoming"] \o <<x>>
      BY <1>3, <1>6
    <2> QED BY <1>2, <1>7, <2>1, DownMore
  <1>9. Authed(f)
    <2>1. f.cipher = d.cipher /\ f.got = d.got
      BY <1>3, <1>6
    <2> QED BY <1>2, <2>1, AuthedSame
  <1>10. Relaying(f)
    <2>1. f.bad \subseteq {"early_datagram"}
      BY <1>2, <1>3, <1>6
    <2>2. f.cipher.mode = "tls" /\ f.closing = FALSE /\ f.udp.on /\ RelayOK(f.udp, FALSE, FALSE)
      BY <1>2, <1>3, <1>6
    <2> QED BY <1>6, <1>8, <1>9, <2>1, <2>2 DEF Relaying
  <1>11. /\ f.udp = d.udp /\ f.srv = d.srv + 1 /\ f.valid = d.valid /\ f.got = d.got
         /\ f.pkg = d.pkg /\ f.cipher = d.cipher /\ f.sent["outgoing"] = d.sent["outgoing"]
    BY <1>1, <1>3, <1>6
  <1> QED BY <1>4, <1>10, <1>11 DEF f, g, x

\* A datagram for a live tunnel.
LEMMA LiveDatagram ==
    ASSUME NEW i, NEW o, NEW st, NEW d, StageOK(st, i, o, d), d.udp.on,
           NEW n \in NextSrv(Live(i, o, st, d)), NEW w,
           w = udp_remote_on_data_arrived(Live(i, o, st, d), n)
    PROVE  Good(w) /\ w.data.udp = d.udp
  <1> DEFINE ok == st \in {"streaming", "udp_streaming"} \/ i.wrstate = "stop"
             x == Frame(Live(i, o, st, d), n)
             q == <<x>>
             f == SaidIn(Marked(d, n, ok), q)
             j == socket_ctx_write(i, q)
             l == Len(i.writes)
             m == Len(j.writes)
             y == d.srv
  <1>1. AtUdpUpgrade(st, i, o, d) \/ AtUdpStreaming(st, i, o, d)
    BY StageRelay
  <1>2. Relaying(d) /\ Len(i.writes) <= d.srv + 1
    BY <1>1 DEF AtUdpUpgrade, AtUdpStreaming
  <1>3. d \in ServerCtx /\ y \in Nat
    <2>1. d \in ServerCtx
      BY <1>2 DEF Relaying
    <2> QED BY <2>1, CtxFields
  <1>4. /\ Relaying(f) /\ x \in Items /\ f.udp = d.udp /\ f.srv = d.srv + 1
        /\ f.valid = d.valid /\ f.got = d.got /\ f.pkg = d.pkg
        /\ f.cipher = d.cipher /\ f.sent["outgoing"] = d.sent["outgoing"]
    <2>1. ok \in BOOLEAN
      OBVIOUS
    <2> HIDE DEF ok
    <2> QED BY <1>2, <2>1, RelayingMore
  <1>5. q \in Seq(Items) /\ q \in Payload
    BY <1>4, ServerStagesAssumption
  <1>6. HandshakeLen(f) = HandshakeLen(d)
    <2> HIDE DEF f
    <2> QED BY <1>4, AuthedSame
  <1>7. CanWrite(i) => w = Live(j, o, st, f)
    BY ArrivedForm
  <1> HIDE DEF ok, x, q, f, j
  <1>8. CASE AtUdpStreaming(st, i, o, d)
    <2>1. Flow(i) /\ i.reading = TRUE
      BY <1>8 DEF AtUdpStreaming
    <2>2. CanWrite(i) /\ Flow(j) /\ j.reading = i.reading /\ l \in Nat /\ m = l + 1
      BY <1>5, <2>1, FlowWrite DEF j
    <2>3. m <= f.srv + 1
      <3>1. l <= y + 1 /\ f.srv = y + 1
        BY <1>2, <1>4
      <3> HIDE DEF l, m, y
      <3> QED BY <1>3, <2>2, <3>1
    <2>4. AtUdpStreaming(st, j, o, f)
      BY <1>4, <1>6, <1>8, <2>1, <2>2, <2>3 DEF AtUdpStreaming
    <2>5. w = Live(j, o, st, f)
      BY <1>7, <2>2
    <2>6. w.data = f
      BY <2>5, LiveFields
    <2> QED BY <1>4, <2>4, <2>5, <2>6, LiveGood DEF StageOK
  <1>9. CASE AtUdpUpgrade(st, i, o, d)
    <2> DEFINE ws == i.writes
               no == FALSE
               dn == "none"
               s == "stop"
               b == "busy"
    <2>1. Sock(i, s, b, no, ws, TRUE, no, dn)
      BY <1>9 DEF AtUdpUpgrade, Busy
    <2>2. ws \in Seq(Payload)
      BY <1>9, FlowFacts DEF AtUdpUpgrade
    <2>3. CanWrite(i) /\ Sock(j, s, "busy", no, Append(ws, q), TRUE, no, dn)
      <3> HIDE DEF ws, no, dn, s, b, q
      <3> QED BY <1>5, <2>1, SockWrite DEF j
    <2>4. Len(Append(ws, q)) = l + 1 /\ l \in Nat /\ Append(ws, q) # <<>>
      <3>1. l = Len(ws)
        OBVIOUS
      <3> HIDE DEF ws, l
      <3> QED BY <1>5, <2>2, <3>1
    <2>5. j.writes = Append(ws, q)
      BY <2>3 DEF Sock
    <2>6. Busy(j) /\ m = l + 1
      BY <2>3, <2>4, <2>5 DEF Busy
    <2>7. m <= f.srv + 1
      <3>1. l <= y + 1 /\ f.srv = y + 1
        BY <1>2, <1>4
      <3> HIDE DEF l, m, y, ws
      <3> QED BY <1>3, <2>4, <2>6, <3>1
    <2>8. AtUdpUpgrade(st, j, o, f)
      BY <1>4, <1>9, <2>6, <2>7 DEF AtUdpUpgrade
    <2>9. w = Live(j, o, st, f)
      BY <1>7, <2>3
    <2>10. w.data = f
      BY <2>9, LiveFields
    <2> QED BY <1>4, <2>8, <2>9, <2>10, LiveGood DEF StageOK
  <1> QED BY <1>1, <1>8, <1>9

\* A datagram for a tunnel that was shut down.
LEMMA DeadDatagram ==
    ASSUME NEW u, DeadOK(u), NEW n \in NextSrv(u), NEW w, w = udp_remote_on_data_arrived(u, n)
    PROVE  DeadOK(w) /\ w.data.udp = u.data.udp
  <1> DEFINE c == CoreOf(u)
             d == u.data
             k == u.sock["incoming"]
             yes == TRUE
             e == FrameTo(d, n, yes)
             b == e.bad \cup {"closed_write"}
             f == BadTo(e, b)
             a == [u EXCEPT !.data.srv = n, !.data.begun = TRUE]
  <1>1. /\ u = Whole(c, d) /\ IsCore(c) /\ TunnelOK(c) /\ c.is_terminated = TRUE
        /\ c.sock = u.sock /\ Over(k, u.sock["outgoing"], u.freed, d)
    BY DeadElim
  <1>2. d \in ServerCtx /\ d.bad \subseteq {"early_datagram", "closed_write"}
    BY <1>1 DEF Over
  <1>3. n \in 0 .. MaxData /\ yes \in BOOLEAN
    <2> DEFINE m == d.srv
    <2>1. m \in Nat /\ MaxData \in Nat
      BY <1>2, CtxFields, MaxDataAssumption
    <2>2. n = m + 1 /\ n <= MaxData
      BY DEF NextSrv
    <2> HIDE DEF m
    <2> QED BY <2>1, <2>2
  <1>4. k.tcp # "open"
    <2>1. SocketOK(c.sock["incoming"], c.is_terminated, c.freed, is_in_streaming(c))
      BY <1>1 DEF TunnelOK, Side
    <2> HIDE DEF c
    <2>2. SocketOK(c.sock["incoming"], TRUE, c.freed, is_in_streaming(c))
      BY <1>1, <2>1
    <2>3. c.sock["incoming"].tcp # "open"
      BY <2>2 DEF SocketOK
    <2> QED BY <1>1, <2>3
  <1>5. /\ e \in ServerCtx /\ e.cipher = d.cipher /\ e.udp = d.udp /\ e.got = d.got
        /\ e.sent = d.sent /\ e.bad = d.bad
    <2> HIDE DEF d, yes
    <2> QED BY <1>2, <1>3, CtxFrame
  <1>6. a = SetData(u, e) /\ a.data = e
    <2>1. a = SetData(u, e)
      BY DEF SetData, FrameTo
    <2>2. SetData(Whole(c, d), e) = Whole(c, e)
      <3> HIDE DEF c, d, e
      <3> QED BY <1>1, WholeUpdate
    <2>3. Whole(c, e).data = e
      BY DEF Whole
    <2> HIDE DEF a, c, d, e
    <2> QED BY <1>1, <2>1, <2>2, <2>3
  <1>7. w = [a EXCEPT !.data.bad = @ \cup {"closed_write"}]
    BY <1>4 DEF udp_remote_on_data_arrived, CanWrite, ServerAssert
  <1> HIDE DEF e
  <1>8. b \in SUBSET Oops /\ b \subseteq {"early_datagram", "closed_write"}
    BY <1>2, <1>5 DEF Oops
  <1>9. w = Whole(c, f)
    <2> DEFINE z == Whole(c, e)
    <2>1. a = z
      <3>1. SetData(Whole(c, d), e) = Whole(c, e)
        <4> HIDE DEF c, d
        <4> QED BY <1>1, WholeUpdate
      <3> HIDE DEF a, c, d
      <3> QED BY <1>1, <1>6, <3>1
    <2>2. z.data = e
      BY DEF Whole
    <2> HIDE DEF a, z, c
    <2>3. w = SetData(z, f)
      BY <1>7, <2>1, <2>2 DEF SetData, BadTo
    <2>4. SetData(Whole(c, e), f) = Whole(c, f)
      <3> HIDE DEF f
      <3> QED BY <1>1, WholeUpdate
    <2> QED BY <2>3, <2>4 DEF z
  <1> HIDE DEF b
  <1>10. /\ f \in ServerCtx /\ f.cipher = e.cipher /\ f.udp = e.udp /\ f.got = e.got
         /\ f.sent = e.sent /\ f.bad = b
    BY <1>5, <1>8, CtxBad
  <1> HIDE DEF f
  <1>11. Over(k, u.sock["outgoing"], u.freed, f)
    <2>1. f.cipher = d.cipher /\ f.udp = d.udp /\ f.got = d.got /\ f.sent = d.sent
      BY <1>5, <1>10
    <2>2. Authed(f) <=> Authed(d)
      <3> HIDE DEF d
      <3> QED BY <2>1, AuthedSame
    <2> QED BY <1>1, <1>8, <1>10, <2>1, <2>2 DEF Over
  <1>12. DeadOK(Whole(c, f))
    BY <1>11, DeadData
  <1>13. Whole(c, f).data = f
    BY DEF Whole
  <1> HIDE DEF c, d
  <1>14. w.data.udp = d.udp
    BY <1>5, <1>9, <1>10, <1>13
  <1> QED BY <1>9, <1>12, <1>14 DEF d

\* A datagram arrives, and the relay's timer is set again.
LEMMA DatagramGood ==
    ASSUME NEW u, Good(u), u.data.udp.receiving, NEW n \in NextSrv(u), NEW v,
           v = [udp_remote_on_data_arrived(u, n) EXCEPT !.data.udp = udp_remote_reset_timer(@)]
    PROVE  Good(v)
  <1> DEFINE w == udp_remote_on_data_arrived(u, n)
             r == u.data.udp
             q == udp_remote_reset_timer(r)
  <1>1. r \in Remote /\ RelayOK(r, u.is_terminated, u.freed)
    BY GoodUdp
  <1>2. r.on
    BY <1>1, RelayRuns
  <1>3. Good(w) /\ w.data.udp = r
    <2>1. CASE LiveOK(u)
      <3>1. PICK i, o, st, d : u = Live(i, o, st, d) /\ StageOK(st, i, o, d)
        BY <2>1, LiveElim
      <3>2. u.data = d
        BY <3>1, LiveFields
      <3>3. n \in NextSrv(Live(i, o, st, d)) /\ d.udp.on /\ r = d.udp
        BY <1>2, <3>1, <3>2
      <3>4. w = udp_remote_on_data_arrived(Live(i, o, st, d), n)
        BY <3>1
      <3> HIDE DEF w, r
      <3> QED BY <3>1, <3>3, <3>4, LiveDatagram
    <2>2. CASE DeadOK(u)
      <3> HIDE DEF w
      <3> QED BY <2>2, DeadDatagram DEF Good, w
    <2> QED BY <2>1, <2>2 DEF Good
  <1>4. v = DataUdp(w, q)
    <2>1. v = [w EXCEPT !.data.udp = udp_remote_reset_timer(@)]
      OBVIOUS
    <2> HIDE DEF w
    <2> QED BY <1>3, <2>1 DEF DataUdp
  <1> HIDE DEF w, r
  <1>5. r \in Remote /\ RelayOK(r, w.is_terminated, w.freed)
    BY <1>1, <1>3, GoodUdp
  <1>6. q \in Remote /\ q.on /\ RelayOK(q, w.is_terminated, w.freed)
    BY <1>2, <1>5, RelayReset
  <1> HIDE DEF q
  <1> QED BY <1>2, <1>3, <1>4, <1>6, GoodRelay
-----------------------------------------------------------------------------
(* The invariant holds at the beginning. *)

\* The server_ctx of a new tunnel.
Fresh(mode) == _init_done_cb(NewTunnel(TRUE, TRUE), mode).data

\* It is one that nothing has happened to.
LEMMA FreshNew ==
    ASSUME NEW mode \in ServerModes
    PROVE  New(Fresh(mode))
  <1> DEFINE d == Fresh(mode)
             c == tunnel_cipher_create(mode)
             e == <<>>
             y == [s \in Side |-> e]
             no == FALSE
             yes == TRUE
             b == {}
             z == 0
  <1>1. d = [ cipher |-> c, udp |-> NoRelay, pkg |-> e, begun |-> no, closing |-> no,
              got |-> z, cut |-> no, valid |-> yes, srv |-> z, sent |-> y, bad |-> b ]
    BY DEF Fresh, _init_done_cb
  <1>2. /\ c \in CipherCtx /\ e \in Seq(Items) /\ NoRelay \in Remote /\ no \in BOOLEAN
        /\ yes \in BOOLEAN /\ z \in 0 .. MaxData + 4 /\ z \in 0 .. MaxData
        /\ b \in SUBSET Oops
    BY NoRelayFacts, MaxDataAssumption DEF CipherCtx, tunnel_cipher_create
  <1>3. c.status = "fresh" /\ c.header = FALSE
    BY DEF tunnel_cipher_create
  <1>4. y \in [Side -> Seq(Items)] /\ y["incoming"] = e /\ y["outgoing"] = e
    <2> HIDE DEF e
    <2> QED BY <1>2 DEF Side
  <1> HIDE DEF c, e, y, no, yes, b, z, d
  <1>5. d \in ServerCtx
    BY <1>1, <1>2, <1>4 DEF ServerCtx, CipherCtx, Oops
  <1>6. /\ d.cipher = c /\ d.udp = NoRelay /\ d.pkg = e /\ d.begun = no /\ d.closing = no
        /\ d.got = z /\ d.cut = no /\ d.valid = yes /\ d.srv = z /\ d.sent = y /\ d.bad = b
    BY <1>1
  <1>7. New(d)
    BY <1>3, <1>4, <1>5, <1>6 DEF New, Blank, e, no, yes, b, z
  <1> QED BY <1>7 DEF d

\* A new tunnel is its core and this server_ctx.
LEMMA InitForm ==
    ASSUME NEW c, NEW mode
    PROVE  _init_done_cb(c, mode) = Whole(c, Fresh(mode))
  BY DEF _init_done_cb, Whole, Fresh

\* NewTunnel, put together from its sockets.
LEMMA NewAlive ==
    ASSUME NEW b \in BOOLEAN
    PROVE  NewTunnel(TRUE, b)
             = Alive(IF b THEN socket_ctx_read(socket_context_create(TRUE), TRUE)
                          ELSE socket_context_create(TRUE), socket_context_create(FALSE), "initial")
  <1> DEFINE k == socket_ctx_read(socket_context_create(TRUE), TRUE)
             j == socket_context_create(TRUE)
             o == socket_context_create(FALSE)
             i == IF b THEN k ELSE j
             x == [s \in Side |-> IF s = "incoming" /\ TRUE THEN IF b THEN k ELSE j ELSE o]
  <1>1. x = Pair(i, o)
    <2> HIDE DEF k, j, o
    <2> QED BY DEF Pair, Side
  <1>2. NewTunnel(TRUE, b) = [ sock |-> x, ref |-> 1, is_terminated |-> FALSE, freed |-> FALSE,
                               stage |-> FirstStage, held |-> FALSE, bad |-> {} ]
    <2> HIDE DEF k, j, o
    <2> QED BY DEF NewTunnel, k, j, o
  <1> HIDE DEF x, i, o
  <1>3. NewTunnel(TRUE, b) = Alive(i, o, "initial")
    BY <1>1, <1>2, ServerStagesAssumption DEF Alive, Core
  <1> QED BY <1>3 DEF i, o

\* The initial states: the client's first packet is awaited, or the peer was refused.
LEMMA InitGood == SrvInit => SrvInv
  <1> SUFFICES ASSUME NEW mode \in ServerModes, NEW legal \in BOOLEAN,
                      t = _init_done_cb(tunnel_initialize(TRUE, legal), mode)
               PROVE  Good(t)
    BY DEF SrvInit, SrvInv, Good
  <1> DEFINE d == Fresh(mode)
             a == socket_context_create(TRUE)
             k == socket_ctx_read(a, TRUE)
             o == socket_context_create(FALSE)
             st == "initial"
  <1>1. New(d)
    BY FreshNew
  <1>2. Quiet(a) /\ Unused(o) /\ Reading(k)
    BY NewSockets
  <1>3. /\ legal => NewTunnel(TRUE, TRUE) = Alive(k, o, st)
        /\ ~legal => NewTunnel(TRUE, FALSE) = Alive(a, o, st)
    <2>1. NewTunnel(TRUE, TRUE) = Alive(IF TRUE THEN k ELSE a, o, st)
      BY NewAlive
    <2>2. NewTunnel(TRUE, FALSE) = Alive(IF FALSE THEN k ELSE a, o, st)
      BY NewAlive
    <2> HIDE DEF k, a, o
    <2> QED BY <2>1, <2>2
  <1>4. t = Whole(tunnel_initialize(TRUE, legal), d)
    BY InitForm
  <1> HIDE DEF d, a, k, o
  <1>5. AtInitial(st, k, o, d)
    BY <1>1, <1>2 DEF AtInitial
  <1>6. CASE legal
    <2>1. t = Live(k, o, st, d)
      BY <1>3, <1>4, <1>6 DEF tunnel_initialize, Live
    <2> QED BY <1>5, <2>1, LiveGood DEF StageOK
  <1>7. CASE ~legal
    <2> DEFINE c == Alive(a, o, st)
    <2>1. IsCore(c)
      BY AliveFacts
    <2>2. t = Whole(tunnel_shutdown(c), d)
      BY <1>3, <1>4, <1>7 DEF tunnel_initialize
    <2>3. tunnel_shutdown(Live(a, o, st, d)) = Whole(tunnel_shutdown(c), d)
      <3> HIDE DEF c
      <3>1. tunnel_shutdown(Whole(c, d)) = Whole(tunnel_shutdown(c), d)
        BY <2>1, WholeShutdown
      <3> QED BY <3>1 DEF Live, c
    <2>4. a \in OpenSocket /\ a.writes = <<>>
      BY <1>2 DEF Quiet, Sock
    <2>5. StageOK(st, k, o, d)
      BY <1>5 DEF StageOK
    <2>6. o \in OpenSocket /\ st \in tunnel_stage /\ Over(k, o, FALSE, d)
      <3> HIDE DEF st
      <3> QED BY <2>5, StageOver
    <2>7. Over(a, o, FALSE, d)
      <3>1. Short(a)
        <4>1. Len(a.writes) = 0
          BY <2>4
        <4> QED BY <4>1, MaxDataAssumption DEF Short
      <3> QED BY <2>6, <3>1 DEF Over
    <2>8. DeadOK(tunnel_shutdown(Live(a, o, st, d)))
      <3> HIDE DEF st
      <3> QED BY <2>4, <2>6, <2>7, ShutLive
    <2> HIDE DEF c
    <2> QED BY <2>2, <2>3, <2>8 DEF Good
  <1> QED BY <1>6, <1>7

-----------------------------------------------------------------------------
(* Every step preserves it. *)

\* An event of a socket, whatever the tunnel is.
LEMMA SockGood ==
    ASSUME NEW u, Good(u), NEW s \in Side, NEW v, SockStep(u, s, v)
    PROVE  Good(v)
  <1>1. CASE LiveOK(u)
    <2>1. PICK i, o, st, d : u = Live(i, o, st, d) /\ StageOK(st, i, o, d)
      BY <1>1, LiveElim
    <2>2. CASE s = "incoming"
      <3>1. SockStep(Live(i, o, st, d), "incoming", v)
        BY <2>1, <2>2
      <3> QED BY <2>1, <3>1, IncomingStep
    <2>3. CASE s = "outgoing"
      <3>1. SockStep(Live(i, o, st, d), "outgoing", v)
        BY <2>1, <2>3
      <3> QED BY <2>1, <3>1, OutgoingStep
    <2> QED BY <2>2, <2>3 DEF Side
  <1>2. CASE DeadOK(u)
    BY <1>2, DeadStep DEF Good
  <1> QED BY <1>1, <1>2 DEF Good

\* The steps of the server.
LEMMA StepGood == SrvInv /\ [SrvNext]_vars => SrvInv'
  <1> SUFFICES ASSUME Good(t), [SrvNext]_vars
               PROVE  Good(t')
    BY DEF SrvInv, Good, LiveOK, DeadOK, StageOK
  <1>1. CASE server_shutdown
    <2>1. ~t.is_terminated /\ t' = tunnel_shutdown(t)
      BY <1>1 DEF server_shutdown
    <2>2. ~DeadOK(t)
      BY <2>1, DeadElim
    <2>3. PICK i, o, st, d : t = Live(i, o, st, d) /\ StageOK(st, i, o, d)
      BY <2>2, LiveElim DEF Good
    <2>4. Good(tunnel_shutdown(Live(i, o, st, d)))
      BY <2>3, ShutsDown
    <2> QED BY <2>1, <2>3, <2>4
  <1>2. CASE UdpOnRecv
    <2>1. CASE t.data.udp.receiving /\ t' = EndRelay(t)
      <3>1. RelayStep(t, t')
        BY <2>1 DEF RelayStep
      <3> QED BY <3>1, RelayGood
    <2>2. ASSUME t.data.udp.receiving, NEW n \in NextSrv(t),
                 t' = [udp_remote_on_data_arrived(t, n) EXCEPT
                          !.data.udp = udp_remote_reset_timer(@)]
          PROVE  Good(t')
      BY <2>2, DatagramGood
    <2> QED BY <1>2, <2>1, <2>2 DEF UdpOnRecv
  <1>3. CASE UdpOnTimeout \/ UdpOnSent \/ UdpOnClosed
    <2>1. RelayStep(t, t')
      BY <1>3 DEF RelayStep, UdpOnTimeout, UdpOnSent, UdpOnClosed
    <2> QED BY <2>1, RelayGood
  <1>4. ASSUME NEW s \in Side,
               \/ SrvOnRead(s) \/ SrvOnWritten(s) \/ SrvOnConnect(s)
               \/ SrvOnGetaddrinfo(s) \/ DnsWork(s) \/ OnTimeout(s)
               \/ SrvOnTcpClosed(s) \/ SrvOnTimerClosed(s)
        PROVE  Good(t')
    <2>1. CASE SrvOnRead(s)
      <3>1. t.sock[s].reading /\ ReadStep(t, s, t')
        BY <2>1 DEF SrvOnRead, ReadStep
      <3>2. SockStep(t, s, t')
        BY <3>1 DEF SockStep
      <3> QED BY <3>2, SockGood
    <2>2. CASE SrvOnWritten(s)
      <3>1. t.sock[s].writes # <<>> /\ WrittenStep(t, s, t')
        BY <2>2 DEF SrvOnWritten, WrittenStep
      <3>2. SockStep(t, s, t')
        BY <3>1 DEF SockStep
      <3> QED BY <3>2, SockGood
    <2>3. CASE SrvOnConnect(s)
      <3>1. t.sock[s].connecting /\ ConnectStep(t, s, t')
        BY <2>3 DEF SrvOnConnect, ConnectStep
      <3>2. SockStep(t, s, t')
        BY <3>1 DEF SockStep
      <3> QED BY <3>2, SockGood
    <2>4. CASE SrvOnGetaddrinfo(s)
      <3>1. t.sock[s].dns # "none" /\ LookupStep(t, s, t')
        BY <2>4 DEF SrvOnGetaddrinfo, LookupStep
      <3>2. SockStep(t, s, t')
        BY <3>1 DEF SockStep
      <3> QED BY <3>2, SockGood
    <2>5. CASE DnsWork(s)
      <3>1. WorkStep(t, s, t')
        BY <2>5 DEF DnsWork, WorkStep
      <3>2. SockStep(t, s, t')
        BY <3>1 DEF SockStep
      <3> QED BY <3>2, SockGood
    <2>6. CASE OnTimeout(s)
      <3>1. SockStep(t, s, t')
        BY <2>6 DEF SockStep, OnTimeout
      <3> QED BY <3>1, SockGood
    <2>7. CASE SrvOnTcpClosed(s) \/ SrvOnTimerClosed(s)
      <3>1. TcpClosed(t, s, t') \/ TimerClosed(t, s, t')
        BY <2>7 DEF SrvOnTcpClosed, SrvOnTimerClosed, TcpClosed, TimerClosed
      <3>2. SockStep(t, s, t')
        BY <3>1 DEF SockStep
      <3> QED BY <3>2, SockGood
    <2> QED BY <1>4, <2>1, <2>2, <2>3, <2>4, <2>5, <2>6, <2>7
  <1>5. CASE UNCHANGED vars
    <2>1. t' = t
      BY <1>5 DEF vars
    <2> QED BY <2>1
  <1> QED BY <1>1, <1>2, <1>3, <1>4, <1>5 DEF SrvNext

\* The inductive invariant holds in every behaviour of the server.
THEOREM SrvInvariance == SrvSpec => []SrvInv
  <1>1. SrvInit => SrvInv
    BY InitGood
  <1>2. SrvInv /\ [SrvNext]_vars => SrvInv'
    BY StepGood
  <1> QED BY <1>1, <1>2, PTL DEF SrvSpec

-----------------------------------------------------------------------------
(* What follows. *)

\* A live tunnel, as the invariant describes it.
LEMMA LiveState ==
    ASSUME SrvInv, ~t.is_terminated
    PROVE  /\ StageOK(t.stage, t.sock["incoming"], t.sock["outgoing"], t.data)
           /\ t.bad = {}
  <1>1. LiveOK(t)
    BY DeadElim DEF SrvInv
  <1>2. t = Live(t.sock["incoming"], t.sock["outgoing"], t.stage, t.data)
        /\ StageOK(t.stage, t.sock["incoming"], t.sock["outgoing"], t.data)
    BY <1>1 DEF LiveOK
  <1>3. t.bad = {}
    BY <1>2, LiveFields
  <1> QED BY <1>2, <1>3

\* The sockets, the assertions and the bounds, whatever the tunnel is.
LEMMA AnyState ==
    ASSUME SrvInv
    PROVE  /\ t.stage \in tunnel_stage /\ t.bad \subseteq {"stale"}
           /\ t.data \in ServerCtx /\ t.data.bad \subseteq {"early_datagram", "closed_write"}
           /\ \A s \in Side : t.sock[s] \in Socket(Payload) /\ Short(t.sock[s])
           /\ \/ Untouched(t.sock["outgoing"]) /\ t.data.sent["outgoing"] = <<>>
              \/ Authed(t.data)
  <1> DEFINE i == t.sock["incoming"]
             o == t.sock["outgoing"]
             d == t.data
  <1>1. CASE ~t.is_terminated
    <2>1. StageOK(t.stage, i, o, d) /\ t.bad = {}
      BY <1>1, LiveState
    <2>2. i \in OpenSocket /\ o \in OpenSocket /\ t.stage \in tunnel_stage /\ Over(i, o, FALSE, d)
      BY <2>1, StageOver
    <2>3. i \in Socket(Payload) /\ o \in Socket(Payload)
      BY <2>2, SockOf
    <2> QED BY <2>1, <2>2, <2>3 DEF Over, Side
  <1>2. CASE t.is_terminated
    <2>1. ~LiveOK(t)
      <3>1. ASSUME LiveOK(t) PROVE ~t.is_terminated
        BY <3>1, LiveElim, LiveFields
      <3> QED BY <1>2, <3>1
    <2>2. DeadOK(t)
      BY <2>1 DEF SrvInv
    <2>3. TunnelOK(CoreOf(t)) /\ Over(i, o, t.freed, d)
      BY <2>2 DEF DeadOK
    <2>4. CoreOf(t).stage = t.stage /\ CoreOf(t).bad = t.bad /\ CoreOf(t).sock = t.sock
      BY DEF CoreOf, Core
    <2>5. CoreOf(t).stage \in Stages /\ CoreOf(t).bad \subseteq {"stale"}
          /\ CoreOf(t).sock \in [Side -> Socket(Payload)]
      BY <2>3 DEF TunnelOK, TunnelType
    <2>6. t.stage \in tunnel_stage /\ t.bad \subseteq {"stale"} /\ t.sock \in [Side -> Socket(Payload)]
      BY <2>4, <2>5, ServerStagesAssumption
    <2> QED BY <2>3, <2>6 DEF Over, Side
  <1> QED BY <1>1, <1>2

\* Stages, sockets, server_ctx and relay stay inside their types, and no more is
\* queued for a side than was read from the other and what server.c adds.
THEOREM SrvTypeCorrect == SrvSpec => []SrvTypeOK
  <1>1. SrvInv => SrvTypeOK
    BY AnyState, ServerStagesAssumption DEF SrvTypeOK, Short
  <1> QED BY <1>1, SrvInvariance, PTL

\* No assertion of server.c's dispatcher and handlers fails, and server.c keeps
\* tunnel.c's contract: the two assertions on datagrams apart.
THEOREM SrvAssertsCorrect == SrvSpec => []SrvAssertsHold
  <1>1. SrvInv => SrvAssertsHold
    BY AnyState DEF SrvAssertsHold
  <1> QED BY <1>1, SrvInvariance, PTL

\* No lookup, no connection and no datagram for a client that did not complete
\* its handshake.
THEOREM AuthBeforeDialCorrect == SrvSpec => []AuthBeforeDial
  <1>1. SrvInv => AuthBeforeDial
    BY AnyState DEF AuthBeforeDial, Untouched, Authed, HandshakeLen, Mode
  <1> QED BY <1>1, SrvInvariance, PTL

\* The relay's references, and that neither the relay nor its tunnel is reached
\* by a callback once it is freed.
THEOREM RelayLifetimeCorrect == SrvSpec => []RelayLifetime
  <1>1. ASSUME SrvInv PROVE RelayLifetime
    <2> DEFINE r == t.data.udp
               gone == t.freed
               term == t.is_terminated
    <2>1. /\ r \in Remote /\ RelayOK(r, term, gone)
          /\ term \in BOOLEAN /\ gone \in BOOLEAN
      BY <1>1, GoodUdp DEF SrvInv, Good
    <2> HIDE DEF r, gone, term
    <2>2. ASSUME r.on
          PROVE  /\ r.ref = One(~gone) + One(r.udp = "closing") + One(r.timer = "closing")
                 /\ r.freed <=> r.ref = 0
                 /\ r.shutting_down => term
                 /\ gone => ~r.receiving /\ ~r.dying_cb
                 /\ r.receiving \/ r.ticking \/ r.sends > 0 => ~r.freed
      <3>1. /\ r.ref = One(~gone) + One(r.udp = "closing") + One(r.timer = "closing")
            /\ r.freed <=> r.ref = 0
            /\ r.shutting_down => term
            /\ gone => ~r.receiving /\ ~r.dying_cb
        BY <2>1, <2>2 DEF RelayOK
      <3>2. ASSUME r.freed PROVE ~r.receiving /\ ~r.ticking /\ r.sends = 0
        <4>1. gone /\ r.udp # "closing"
          <5>1. One(~gone) + One(r.udp = "closing") + One(r.timer = "closing") = 0
            BY <3>1, <3>2
          <5> QED BY <2>1, <5>1 DEF One
        <4>2. r.shutting_down
          BY <2>1, <2>2, <4>1 DEF RelayOK
        <4>3. ~r.receiving /\ ~r.ticking /\ r.udp # "open" /\ (r.udp = "closed" => r.sends = 0)
          BY <2>1, <2>2, <4>2 DEF RelayOK
        <4>4. r.udp \in {"open", "closing", "closed"}
          BY <2>1 DEF Remote
        <4> QED BY <4>1, <4>3, <4>4
      <3> QED BY <3>1, <3>2
    <2> QED BY <2>2 DEF RelayLifetime, r, gone, term
  <1>2. SrvInv => RelayLifetime
    BY <1>1
  <1> QED BY <1>2, SrvInvariance, PTL

\* What was read of the client's data, behind its handshake.
LEMMA AppReadFacts ==
    ASSUME Authed(t.data), t.data \in ServerCtx
    PROVE  /\ AppRead = t.data.got - HandshakeLen(t.data)
           /\ Apps(AppRead) \in Seq(Items)
  <1> DEFINE g == t.data.got
             h == HandshakeLen(t.data)
  <1>1. g >= h /\ g - h \in Nat /\ Apps(g - h) \in Seq(Items)
    BY AuthedCount DEF Authed
  <1>2. g \in Nat /\ h \in Nat
    <2>1. h = Len(Handshake(t.data.cipher.mode)) /\ t.data.cipher.mode \in Modes
      BY CtxFields, ServerModesAssumption DEF HandshakeLen
    <2>2. g \in 0 .. MaxData + 4
      BY CtxFields
    <2>3. h \in 1 .. 4
      BY <2>1, HandFacts
    <2> HIDE DEF g, h
    <2> QED BY <2>2, <2>3, MaxDataAssumption
  <1>3. AppRead = IF g > h THEN g - h ELSE 0
    BY DEF AppRead, HandshakeLen, Mode
  <1> HIDE DEF g, h
  <1>4. AppRead = g - h
    BY <1>1, <1>2, <1>3
  <1> QED BY <1>1, <1>4 DEF g, h

\* The client's data reaches the target complete and in order, nothing of the
\* handshake with it.
THEOREM TargetCorrect == SrvSpec => []TargetFaithful
  <1>1. ASSUME SrvInv PROVE TargetFaithful
    <2> SUFFICES ASSUME ~t.is_terminated, t.data.valid
                 PROVE  LET d == t.data
                            q == (IF d.udp.on THEN <<Datagram>> ELSE <<>>)
                                 \o Numbered(AppData, AppRead)
                        IN  /\ t.stage \in {"resolve_host", "connect_host"} => d.pkg = q
                            /\ t.stage \in {"launch_streaming", "streaming", "udp_streaming"} =>
                                  d.sent["outgoing"] = q
      BY DEF TargetFaithful
    <2> DEFINE i == t.sock["incoming"]
               o == t.sock["outgoing"]
               st == t.stage
               d == t.data
               p == Apps(AppRead)
               q == (IF d.udp.on THEN <<Datagram>> ELSE <<>>) \o p
    <2>1. StageOK(st, i, o, d)
      BY <1>1, LiveState
    <2>2. Authed(d) => /\ p = Apps(d.got - HandshakeLen(d)) /\ p \in Seq(Items)
                       /\ <<>> \o p = p
      <3>1. d \in ServerCtx
        BY <1>1, AnyState
      <3>2. Authed(d) => p = Apps(d.got - HandshakeLen(d)) /\ p \in Seq(Items)
        BY <3>1, AppReadFacts
      <3> HIDE DEF p
      <3> QED BY <3>2, Assoc
    <2>3. ~NoRelay.on
      BY NoRelayFacts
    <2> HIDE DEF i, o, d, st, p
    <2>4. CASE st \in {"resolve_host", "connect_host"}
      <3>1. AtResolve(st, i, o, d) \/ AtConnect(st, i, o, d)
        BY <2>1, <2>4 DEF StageOK, AtInitial, AtReceipt, AtFeedback, AtConfirm, AtLaunch,
                          AtUpgrade, AtUdpUpgrade, AtPage, AtStreaming, AtUdpStreaming
      <3>2. Authed(d) /\ d.udp = NoRelay /\ d.pkg = Apps(d.got - HandshakeLen(d))
        BY <3>1 DEF AtResolve, AtConnect, Dialled, Blank
      <3>3. d.pkg = q
        BY <2>2, <2>3, <3>2
      <3> QED BY <2>4, <3>3 DEF d, p, st, Apps
    <2>5. CASE st \in {"launch_streaming", "streaming"}
      <3>1. AtLaunch(st, i, o, d) \/ AtStreaming(st, i, o, d)
        BY <2>1, <2>5 DEF StageOK, AtInitial, AtReceipt, AtFeedback, AtConfirm, AtResolve,
                          AtConnect, AtUpgrade, AtUdpUpgrade, AtPage, AtUdpStreaming
      <3>2. Authed(d) /\ d.udp = NoRelay
            /\ (d.valid => d.sent["outgoing"] = Apps(d.got - HandshakeLen(d)))
        BY <3>1 DEF AtLaunch, AtStreaming, Launched
      <3>3. d.valid
        BY DEF d
      <3>4. d.sent["outgoing"] = q
        BY <2>2, <2>3, <3>2, <3>3
      <3> QED BY <2>5, <3>4 DEF d, p, st, Apps
    <2>6. CASE st = "udp_streaming"
      <3>1. AtUdpStreaming(st, i, o, d)
        BY <2>1, <2>6 DEF StageOK, AtInitial, AtReceipt, AtFeedback, AtConfirm, AtResolve,
                          AtConnect, AtLaunch, AtUpgrade, AtUdpUpgrade, AtPage, AtStreaming
      <3>2. Relaying(d) /\ (d.valid => d.sent["outgoing"]
                                         = <<Datagram>> \o Apps(d.got - HandshakeLen(d)))
        BY <3>1 DEF AtUdpStreaming
      <3>3. Authed(d) /\ d.udp.on /\ d.valid
        BY <3>2 DEF Relaying, d
      <3>4. d.sent["outgoing"] = q
        BY <2>2, <3>2, <3>3
      <3> QED BY <2>6, <3>4 DEF d, p, st, Apps
    <2> QED BY <2>4, <2>5, <2>6 DEF st
  <1>2. SrvInv => TargetFaithful
    BY <1>1
  <1> QED BY <1>2, SrvInvariance, PTL

\* The client gets each answer of the handshake once, then the target's data
\* complete and in order, and nothing behind the close frame.
THEOREM ClientCorrect == SrvSpec => []ClientFaithful
  <1>1. ASSUME SrvInv PROVE ClientFaithful
    <2> SUFFICES ASSUME ~t.is_terminated, is_in_streaming(t)
                 PROVE  t.data.sent["incoming"] =
                           Answers \o Numbered(DownItem, t.data.srv)
                           \o (IF t.data.closing THEN <<Reply("close")>> ELSE <<>>)
      BY DEF ClientFaithful
    <2> DEFINE i == t.sock["incoming"]
               o == t.sock["outgoing"]
    <2>1. StageOK(t.stage, i, o, t.data)
      BY <1>1, LiveState
    <2>2. t.stage \in {"streaming", "udp_streaming"}
      BY ServerStagesAssumption DEF is_in_streaming
    <2>3. AtStreaming(t.stage, i, o, t.data) \/ AtUdpStreaming(t.stage, i, o, t.data)
      BY <2>1, <2>2, Streams
    <2>4. Down(t.data)
      BY <2>3 DEF AtStreaming, AtUdpStreaming, Relaying
    <2>5. Answers = AnswersTo(t.data.cipher.mode)
      BY DEF Answers, AnswersTo, Mode
    <2>6. Numbered(DownItem, t.data.srv) = Downs(t.data.cipher.mode, t.data.srv)
      BY DEF Numbered, DownItem, Downs, DownTo, Mode
    <2> QED BY <2>4, <2>5, <2>6 DEF Down
  <1>2. SrvInv => ClientFaithful
    BY <1>1
  <1> QED BY <1>2, SrvInvariance, PTL
=============================================================================
