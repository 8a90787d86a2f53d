--------------------------- MODULE ClientSsrProofs ---------------------------
(***************************************************************************)
(* Theorems about ClientSsr, for every set of cipher modes and every bound *)
(* on the packets.                                                         *)
(***************************************************************************)
EXTENDS ClientSsr, SequenceTheorems, TLAPS

-----------------------------------------------------------------------------
(* The inductive invariant. *)

\* A socket of a live tunnel, and one that was closed.
OpenSocket ==
    [ rdstate : {"stop", "busy", "done"}, wrstate : {"stop", "busy", "done"},
      result : {"ok", "err"}, is_terminated : {FALSE}, check_timeout : BOOLEAN,
      ref : {1}, closing_count : {0}, on_closed : {FALSE},
      connected : BOOLEAN, reading : BOOLEAN, writes : Seq(Seq(Items)),
      connecting : BOOLEAN, dns : DnsState, ticking : BOOLEAN,
      tcp : {"open"}, timer : {"open"}, freed : {FALSE} ]

DeadSocket ==
    [ rdstate : {"dead"}, wrstate : {"dead"}, result : {"ok", "err"},
      is_terminated : {TRUE}, check_timeout : BOOLEAN, ref : Nat,
      closing_count : Nat, on_closed : BOOLEAN,
      connected : BOOLEAN, reading : {FALSE}, writes : Seq(Seq(Items)),
      connecting : BOOLEAN, dns : DnsState, ticking : {FALSE},
      tcp : {"closing", "closed"}, timer : {"closing", "closed"}, freed : BOOLEAN ]

LiveTunnel ==
    [ sock : [Side -> OpenSocket], ref : {1}, is_terminated : {FALSE}, freed : {FALSE},
      stage : tunnel_stage, held : {FALSE}, bad : {{}}, data : ClientCtx ]

DeadTunnel ==
    [ sock : [Side -> DeadSocket], ref : Nat, is_terminated : {TRUE}, freed : BOOLEAN,
      stage : tunnel_stage, held : {FALSE}, bad : SUBSET {"stale"}, data : ClientCtx ]

\* What a socket of a live tunnel is doing.
Sock(k, rd, wr, rg, ws, co, cg, dn) ==
    /\ k \in OpenSocket /\ k.rdstate = rd /\ k.wrstate = wr /\ k.reading = rg
    /\ k.writes = ws /\ k.connected = co /\ k.connecting = cg /\ k.dns = dn

Unused(k)   == Sock(k, "stop", "stop", FALSE, <<>>, FALSE, FALSE, "none")
Looking(k)  == Sock(k, "stop", "stop", FALSE, <<>>, FALSE, FALSE, k.dns) /\ k.dns # "none"
Dialling(k) == Sock(k, "stop", "stop", FALSE, <<>>, FALSE, TRUE, "none")
Quiet(k)    == Sock(k, "stop", "stop", FALSE, <<>>, TRUE, FALSE, "none")
Reading(k)  == Sock(k, "busy", "stop", TRUE, <<>>, TRUE, FALSE, "none")
Writing(k)  == Sock(k, "stop", "busy", FALSE, k.writes, TRUE, FALSE, "none")
               /\ Len(k.writes) = 1
Flow(k)     == /\ Sock(k, k.rdstate, k.wrstate, TRUE, k.writes, TRUE, FALSE, "none")
               /\ k.rdstate \in {"stop", "busy"} /\ k.wrstate \in {"stop", "busy"}

Apps(n) == Numbered(AppData, n)
Srvs(n) == Numbered(SrvData, n)

Greeted  == << Reply("method") >>
Answered == << Reply("method"), Reply("success") >>

\* client_ctx until the address is encrypted: n packets of the application, at
\* most one, are stored.
Early(d, n) ==
    /\ d \in ClientCtx /\ d.srv = 0 /\ d.sent["outgoing"] = <<>> /\ d.bad = {}
    /\ d.cipher.status = {} /\ d.cipher.queued = <<>>
    /\ d.cipher.reply = (IF d.cipher.mode = "plain" THEN "all" ELSE "none")
    /\ (n = 0 /\ d.first = <<>>) \/ (n = 1 /\ d.first = <<AppData(1)>>)
    /\ d.app = n

\* client_ctx while the handshake with the server is in progress.
Packed(d) ==
    /\ d \in ClientCtx /\ d.first = <<AppData(1)>> /\ d.app = 1
    /\ d.sent["incoming"] = Answered

Opened(d) ==
    /\ Packed(d) /\ d.srv = 0 /\ d.bad = {}
    /\ d.cipher.reply = (IF d.cipher.mode = "plain" THEN "all" ELSE "none")
    /\ \/ /\ d.cipher.mode = "ticket" /\ d.cipher.status = {1}
          /\ d.cipher.queued = <<Address>> /\ d.sent["outgoing"] = <<Hello>>
       \/ /\ d.cipher.mode # "ticket" /\ d.cipher.status = {}
          /\ d.cipher.queued = <<>> /\ d.sent["outgoing"] = <<Address>>

\* client_ctx when the server's answer has been read or is not awaited.
Verdict(d) ==
    /\ d.cipher.reply # "none"
    /\ 8 \in d.cipher.status => d.cipher.reply \in {"all", "broken"}
    /\ d.bad \subseteq {"decode", "feedback_data", "late_feedback"}

Down(d) == "feedback_data" \notin d.bad => d.sent["incoming"] = Answered \o Srvs(d.srv)

\* The handshake of the obfuscation: being sent, held back, or not there.
Direct(c, out, h) ==
    c.mode # "ticket" /\ c.queued = <<>> /\ out = <<Address>> \o h
Held(c, out, h) ==
    /\ c.mode = "ticket" /\ c.status \in {{1}, {1, 2}} /\ out = <<Hello>>
    /\ c.queued = (IF 2 \in c.status THEN <<Finish, Address>> ELSE <<Address>>) \o h
Flushed(c, out, h) ==
    /\ c.mode = "ticket" /\ c.status = {1, 2, 4, 8} /\ c.queued = <<>>
    /\ out = <<Hello, Finish, Address>> \o h

Up(d, h) ==
    \/ Direct(d.cipher, d.sent["outgoing"], h)
    \/ Held(d.cipher, d.sent["outgoing"], h)
    \/ Flushed(d.cipher, d.sent["outgoing"], h)

\* client_ctx when streaming is about to be launched.
Judged(d) ==
    /\ Packed(d) /\ Verdict(d) /\ (d.srv > 0 => "feedback_data" \in d.bad)
    /\ "late_feedback" \notin d.bad /\ Up(d, <<>>)

Streaming(i, o, d) ==
    /\ d \in ClientCtx /\ d.first = <<>>
    /\ "late_feedback" \notin d.bad => Up(d, Apps(d.app))
    /\ Verdict(d) /\ Down(d)
    /\ Len(o.writes) <= d.app
    /\ Len(i.writes) <= d.srv + One(d.cipher.reply # "part")

\* The stages, what the sockets are doing in each, and what client_ctx holds.
AtHandshake(st, i, o, d) ==
    /\ st = "handshake" /\ Reading(i) /\ Unused(o)
    /\ Early(d, 0) /\ d.sent["incoming"] = <<>> /\ ~d.shortcut
AtReplied(st, i, o, d) ==
    /\ st = "handshake_replied" /\ Writing(i) /\ Unused(o)
    /\ Early(d, d.app) /\ d.sent["incoming"] = Greeted /\ (~d.shortcut => d.app = 0)
AtRequest(st, i, o, d) ==
    /\ st = "s5_request_from_client_app" /\ Reading(i) /\ Unused(o)
    /\ Early(d, 0) /\ d.sent["incoming"] = Greeted
AtAssoc(st, i, o, d) ==
    /\ st = "s5_udp_accoc" /\ Writing(i) /\ Unused(o) /\ Early(d, d.app)
AtResponse(st, i, o, d) ==
    /\ st = "s5_response_done" /\ Writing(i) /\ Unused(o)
    /\ Early(d, d.app) /\ d.sent["incoming"] = Answered
AtFirst(st, i, o, d) ==
    /\ st = "client_first_pkg" /\ Reading(i) /\ Unused(o)
    /\ Early(d, 0) /\ d.sent["incoming"] = Answered
AtResolve(st, i, o, d) ==
    /\ st = "resolve_ssr_server_host_done" /\ Quiet(i) /\ Looking(o)
    /\ Early(d, 1) /\ d.sent["incoming"] = Answered
AtConnect(st, i, o, d) ==
    /\ st = "connect_ssr_server_done" /\ Quiet(i) /\ Dialling(o)
    /\ Early(d, 1) /\ d.sent["incoming"] = Answered
AtAuth(st, i, o, d) ==
    st = "ssr_auth_sent" /\ Quiet(i) /\ Writing(o) /\ Opened(d)
AtFeedback(st, i, o, d) ==
    /\ st = "ssr_server_feedback_arrived" /\ Quiet(i) /\ Reading(o)
    /\ Opened(d) /\ d.cipher.mode # "plain"
AtReceipt(st, i, o, d) ==
    /\ st = "ssr_receipt_to_server_sent" /\ Quiet(i) /\ Writing(o) /\ Judged(d)
    /\ Flushed(d.cipher, d.sent["outgoing"], <<>>)
AtStreaming(st, i, o, d) ==
    st = "streaming" /\ Flow(i) /\ Flow(o) /\ Streaming(i, o, d)
AtKill(st, i, o, d) ==
    st = "kill" /\ Writing(i) /\ Unused(o) /\ Early(d, d.app)

StageOK(st, i, o, d) ==
    \/ AtHandshake(st, i, o, d) \/ AtReplied(st, i, o, d) \/ AtRequest(st, i, o, d)
    \/ AtAssoc(st, i, o, d) \/ AtResponse(st, i, o, d) \/ AtFirst(st, i, o, d)
    \/ AtResolve(st, i, o, d) \/ AtConnect(st, i, o, d) \/ AtAuth(st, i, o, d)
    \/ AtFeedback(st, i, o, d) \/ AtReceipt(st, i, o, d) \/ AtStreaming(st, i, o, d)
    \/ AtKill(st, i, o, d)

LiveOK(u) ==
    /\ u \in LiveTunnel
    /\ StageOK(u.stage, u.sock["incoming"], u.sock["outgoing"], u.data)

\* WireOrder of client_ctx d.
WireOK(d) ==
    "late_feedback" \notin d.bad =>
       LET plan == (IF d.cipher.mode = "ticket" THEN <<Hello, Finish>> ELSE <<>>)
                   \o <<Address>> \o Numbered(AppData, d.app)
       IN  /\ Len(d.sent["outgoing"]) <= Len(plan)
           /\ d.sent["outgoing"] = SubSeq(plan, 1, Len(d.sent["outgoing"]))

\* The references of a closed socket of a tunnel that is freed or not.
Counted(k, gone) ==
    /\ k.ref = One(~gone) + CloseOwed(k)
    /\ k.freed <=> k.ref = 0
    /\ k.closing_count = CloseOwed(k)
    /\ k.on_closed <=> CloseOwed(k) > 0
    /\ Len(k.writes) <= MaxData + 2

DeadOK(u) ==
    /\ u \in DeadTunnel
    /\ u.ref = One(u.sock["incoming"].on_closed) + One(u.sock["outgoing"].on_closed)
    /\ u.freed <=> u.ref = 0
    /\ Counted(u.sock["incoming"], u.freed) /\ Counted(u.sock["outgoing"], u.freed)
    /\ WireOK(u.data) /\ u.data.bad \cap {"rdstate", "wrstate", "idle"} = {}

SsrInv == LiveOK(t) \/ DeadOK(t)

-----------------------------------------------------------------------------
(* Sockets of a live tunnel. *)

\* socket_ctx_read.
LEMMA SockRead ==
    ASSUME NEW k, NEW wr, NEW ws, NEW cg, NEW dn,
           Sock(k, "stop", wr, FALSE, ws, TRUE, cg, dn), NEW b \in BOOLEAN
    PROVE  /\ CanRead(k)
           /\ Sock(socket_ctx_read(k, b), "busy", wr, TRUE, ws, TRUE, cg, dn)
  <1> DEFINE x == k.ticking \/ b
             r == "busy"
  <1>1. x \in BOOLEAN /\ r \in {"stop", "busy", "done"} /\ TRUE \in BOOLEAN
    BY DEF Sock, OpenSocket
  <1>2. socket_ctx_read(k, b) = [k EXCEPT !.rdstate = r, !.reading = TRUE,
                                          !.check_timeout = b, !.ticking = x]
    BY DEF socket_ctx_read
  <1>3. CanRead(k)
    BY DEF CanRead, Sock, OpenSocket
  <1> HIDE DEF x, r
  <1>4. Sock(socket_ctx_read(k, b), r, wr, TRUE, ws, TRUE, cg, dn)
    BY <1>1, <1>2, ZenonT(60) DEF Sock, OpenSocket
  <1> QED BY <1>3, <1>4 DEF r

\* socket_ctx_write.
LEMMA SockWrite ==
    ASSUME NEW k, NEW rd, NEW wr, NEW rg, NEW ws, NEW cg, NEW dn,
           Sock(k, rd, wr, rg, ws, TRUE, cg, dn), NEW w \in Seq(Items)
    PROVE  /\ CanWrite(k)
           /\ Sock(socket_ctx_write(k, w), rd, "busy", rg, Append(ws, w), TRUE, cg, dn)
  <1> DEFINE x == Append(ws, w)
             r == "busy"
  <1>1. x \in Seq(Seq(Items)) /\ r \in {"stop", "busy", "done"}
    BY DEF Sock, OpenSocket
  <1>2. socket_ctx_write(k, w) = [k EXCEPT !.wrstate = r, !.writes = x]
    BY DEF socket_ctx_write, Sock
  <1>3. CanWrite(k)
    BY DEF CanWrite, Sock, OpenSocket
  <1> HIDE DEF x, r
  <1>4. Sock(socket_ctx_write(k, w), rd, r, rg, x, TRUE, cg, dn)
    BY <1>1, <1>2, ZenonT(60) DEF Sock, OpenSocket
  <1> QED BY <1>3, <1>4 DEF r, x

\* socket_ctx_connect.
LEMMA SockConnect ==
    ASSUME NEW k, Unused(k)
    PROVE  CanConnect(k) /\ Dialling(socket_ctx_connect(k))
  <1>1. CanConnect(k)
    BY DEF CanConnect, Unused, Sock, OpenSocket
  <1>2. Dialling(socket_ctx_connect(k))
    BY ZenonT(60) DEF Dialling, Unused, Sock, OpenSocket, socket_ctx_connect
  <1> QED BY <1>1, <1>2

\* socket_ctx_getaddrinfo.
LEMMA SockLookup ==
    ASSUME NEW k, Unused(k)
    PROVE  CanGetaddrinfo(k) /\ Looking(socket_ctx_getaddrinfo(k))
  <1>1. CanGetaddrinfo(k)
    BY DEF CanGetaddrinfo, Unused, Sock, OpenSocket
  <1> DEFINE q == "queued"
             n == [k EXCEPT !.dns = q, !.ticking = TRUE]
  <1>2. q \in DnsState /\ q # "none"
    BY DEF DnsState
  <1> HIDE DEF q
  <1>3. Sock(n, "stop", "stop", FALSE, <<>>, FALSE, FALSE, q)
    BY <1>2, ZenonT(60) DEF Unused, Sock, OpenSocket
  <1>4. n = socket_ctx_getaddrinfo(k)
    BY DEF socket_ctx_getaddrinfo, q
  <1> HIDE DEF n
  <1>5. n.dns = q
    BY <1>3 DEF Sock
  <1>6. Looking(n)
    BY <1>2, <1>3, <1>5 DEF Looking
  <1> QED BY <1>1, <1>4, <1>6

\* What a completed write makes of a socket.
LEMMA SockWritten ==
    ASSUME NEW k, NEW rd, NEW wr, NEW rg, NEW ws, NEW co, NEW cg, NEW dn,
           Sock(k, rd, wr, rg, ws, co, cg, dn), ws # <<>>, NEW res \in {"ok", "err"}
    PROVE  Sock([k EXCEPT !.writes = Tail(@), !.result = res],
                rd, wr, rg, Tail(ws), co, cg, dn)
  <1> DEFINE x == Tail(ws)
  <1>1. x \in Seq(Seq(Items))
    BY DEF Sock, OpenSocket
  <1>2. [k EXCEPT !.writes = Tail(@), !.result = res] = [k EXCEPT !.writes = x, !.result = res]
    BY DEF Sock
  <1> HIDE DEF x
  <1>3. Sock([k EXCEPT !.writes = x, !.result = res], rd, wr, rg, x, co, cg, dn)
    BY <1>1, ZenonT(60) DEF Sock, OpenSocket
  <1> QED BY <1>2, <1>3 DEF x

\* The thread pool.
LEMMA SockDns ==
    ASSUME NEW k, NEW rd, NEW wr, NEW rg, NEW ws, NEW co, NEW cg, NEW dn,
           Sock(k, rd, wr, rg, ws, co, cg, dn), NEW x \in DnsState
    PROVE  Sock([k EXCEPT !.dns = x], rd, wr, rg, ws, co, cg, x)
  BY ZenonT(60) DEF Sock, OpenSocket

\* The timer.
LEMMA SockTimer ==
    ASSUME NEW k, NEW rd, NEW wr, NEW rg, NEW ws, NEW co, NEW cg, NEW dn,
           Sock(k, rd, wr, rg, ws, co, cg, dn)
    PROVE  Sock(socket_ctx_timer_start(k), rd, wr, rg, ws, co, cg, dn)
  BY ZenonT(60) DEF Sock, OpenSocket, socket_ctx_timer_start

-----------------------------------------------------------------------------
(* client_ctx. *)

CipherCtx ==
    [ mode : CipherModes, status : SUBSET {1, 2, 4, 8}, queued : Seq(Items),
      reply : {"none", "part", "all", "broken"} ]

Oops == {"rdstate", "wrstate", "idle", "decode", "feedback_data", "late_feedback"}

\* The fields of client_ctx d.
Ctx(d, sc, f, c, a, r, si, so, b) ==
    /\ d \in ClientCtx /\ d.shortcut = sc /\ d.first = f /\ d.cipher = c
    /\ d.app = a /\ d.srv = r /\ d.bad = b
    /\ d.sent["incoming"] = si /\ d.sent["outgoing"] = so

\* Every client_ctx has them, and their types.
LEMMA CtxOf ==
    ASSUME NEW d \in ClientCtx
    PROVE  /\ Ctx(d, d.shortcut, d.first, d.cipher, d.app, d.srv,
                  d.sent["incoming"], d.sent["outgoing"], d.bad)
           /\ d.shortcut \in BOOLEAN /\ d.first \in Seq(Items) /\ d.cipher \in CipherCtx
           /\ d.app \in 0 .. MaxData /\ d.srv \in 0 .. MaxData /\ d.bad \in SUBSET Oops
           /\ d.sent["incoming"] \in Seq(Items) /\ d.sent["outgoing"] \in Seq(Items)
  BY DEF Ctx, ClientCtx, CipherCtx, Oops, Side

\* What is written to the application.
LEMMA CtxSayIn ==
    ASSUME NEW d, NEW sc, NEW f, NEW c, NEW a, NEW r, NEW si, NEW so, NEW b,
           Ctx(d, sc, f, c, a, r, si, so, b), NEW buf \in Seq(Items)
    PROVE  Ctx([d EXCEPT !.sent["incoming"] = @ \o buf], sc, f, c, a, r, si \o buf, so, b)
  <1> DEFINE q == si \o buf
             x == [d.sent EXCEPT !["incoming"] = q]
  <1>1. si \in Seq(Items)
    BY CtxOf DEF Ctx
  <1>2. q \in Seq(Items)
    BY <1>1
  <1>3. [d EXCEPT !.sent["incoming"] = @ \o buf] = [d EXCEPT !.sent = x]
    BY DEF Ctx
  <1> HIDE DEF q
  <1>4. d.sent \in [Side -> Seq(Items)]
    BY DEF Ctx, ClientCtx
  <1>5. x \in [Side -> Seq(Items)] /\ x["incoming"] = q /\ x["outgoing"] = so
    BY <1>2, <1>4 DEF Side, Ctx
  <1> HIDE DEF x
  <1>6. Ctx([d EXCEPT !.sent = x], sc, f, c, a, r, q, so, b)
    BY <1>5, ZenonT(60) DEF Ctx, ClientCtx
  <1> QED BY <1>3, <1>6 DEF q

\* What is written to the server.
LEMMA CtxSayOut ==
    ASSUME NEW d, NEW sc, NEW f, NEW c, NEW a, NEW r, NEW si, NEW so, NEW b,
           Ctx(d, sc, f, c, a, r, si, so, b), NEW buf \in Seq(Items)
    PROVE  Ctx([d EXCEPT !.sent["outgoing"] = @ \o buf], sc, f, c, a, r, si, so \o buf, b)
  <1> DEFINE q == so \o buf
             x == [d.sent EXCEPT !["outgoing"] = q]
  <1>1. so \in Seq(Items)
    BY CtxOf DEF Ctx
  <1>2. q \in Seq(Items)
    BY <1>1
  <1>3. [d EXCEPT !.sent["outgoing"] = @ \o buf] = [d EXCEPT !.sent = x]
    BY DEF Ctx
  <1> HIDE DEF q
  <1>4. d.sent \in [Side -> Seq(Items)]
    BY DEF Ctx, ClientCtx
  <1>5. x \in [Side -> Seq(Items)] /\ x["outgoing"] = q /\ x["incoming"] = si
    BY <1>2, <1>4 DEF Side, Ctx
  <1> HIDE DEF x
  <1>6. Ctx([d EXCEPT !.sent = x], sc, f, c, a, r, si, q, b)
    BY <1>5, ZenonT(60) DEF Ctx, ClientCtx
  <1> QED BY <1>3, <1>6 DEF q

\* The client_ctx after the greeting brought more than itself.
LEMMA CtxGreet ==
    ASSUME NEW d, NEW sc, NEW f, NEW c, NEW a, NEW r, NEW si, NEW so, NEW b,
           Ctx(d, sc, f, c, a, r, si, so, b), NEW x \in Seq(Items), NEW y \in 0 .. MaxData
    PROVE  Ctx([d EXCEPT !.shortcut = TRUE, !.first = x, !.app = y],
               TRUE, x, c, y, r, si, so, b)
  BY ZenonT(60) DEF Ctx, ClientCtx

\* An assignment to the cipher context.
LEMMA CtxCipher ==
    ASSUME NEW d, NEW sc, NEW f, NEW c, NEW a, NEW r, NEW si, NEW so, NEW b,
           Ctx(d, sc, f, c, a, r, si, so, b), NEW x \in CipherCtx
    PROVE  Ctx([d EXCEPT !.cipher = x], sc, f, x, a, r, si, so, b)
  BY ZenonT(60) DEF Ctx, ClientCtx, CipherCtx

\* An assignment to the stored packet.
LEMMA CtxFirst ==
    ASSUME NEW d, NEW sc, NEW f, NEW c, NEW a, NEW r, NEW si, NEW so, NEW b,
           Ctx(d, sc, f, c, a, r, si, so, b), NEW x \in Seq(Items)
    PROVE  Ctx([d EXCEPT !.first = x], sc, x, c, a, r, si, so, b)
  BY ZenonT(60) DEF Ctx, ClientCtx

\* A packet of the application was read.
LEMMA CtxApp ==
    ASSUME NEW d, NEW sc, NEW f, NEW c, NEW a, NEW r, NEW si, NEW so, NEW b,
           Ctx(d, sc, f, c, a, r, si, so, b), NEW y \in 0 .. MaxData
    PROVE  Ctx([d EXCEPT !.app = y], sc, f, c, y, r, si, so, b)
  BY ZenonT(60) DEF Ctx, ClientCtx

\* A packet of the server was read.
LEMMA CtxSrv ==
    ASSUME NEW d, NEW sc, NEW f, NEW c, NEW a, NEW r, NEW si, NEW so, NEW b,
           Ctx(d, sc, f, c, a, r, si, so, b), NEW y \in 0 .. MaxData
    PROVE  Ctx([d EXCEPT !.srv = y], sc, f, c, a, y, si, so, b)
  BY ZenonT(60) DEF Ctx, ClientCtx

\* An assertion of client.c failed.
LEMMA CtxBad ==
    ASSUME NEW d, NEW sc, NEW f, NEW c, NEW a, NEW r, NEW si, NEW so, NEW b,
           Ctx(d, sc, f, c, a, r, si, so, b), NEW x \in SUBSET Oops
    PROVE  Ctx([d EXCEPT !.bad = x], sc, f, c, a, r, si, so, x)
  BY ZenonT(60) DEF Ctx, ClientCtx, Oops

-----------------------------------------------------------------------------
(* Calls on a live tunnel. *)

\* The fields of the live tunnel u.
Is(u, i, o, st, d) ==
    /\ u \in LiveTunnel /\ u.sock["incoming"] = i /\ u.sock["outgoing"] = o
    /\ u.stage = st /\ u.data = d

\* Every live tunnel has them, and their types.
LEMMA IsOf ==
    ASSUME NEW u \in LiveTunnel
    PROVE  /\ Is(u, u.sock["incoming"], u.sock["outgoing"], u.stage, u.data)
           /\ u.sock["incoming"] \in OpenSocket /\ u.sock["outgoing"] \in OpenSocket
           /\ u.stage \in tunnel_stage /\ u.data \in ClientCtx
  BY DEF Is, LiveTunnel, Side

\* An assertion that holds leaves the tunnel as it is.
LEMMA AssertTrue ==
    ASSUME NEW u, NEW c, c, NEW what
    PROVE  Assert(u, c, what) = u /\ ClientAssert(u, c, what) = u
  BY DEF Assert, ClientAssert

\* Put on the incoming socket.
LEMMA PutIn ==
    ASSUME NEW u, NEW i, NEW o, NEW st, NEW d, Is(u, i, o, st, d), NEW k \in OpenSocket
    PROVE  Is(Put(u, "incoming", k), k, o, st, d)
  <1> DEFINE x == [u.sock EXCEPT !["incoming"] = k]
  <1>1. u.sock \in [Side -> OpenSocket]
    BY DEF Is, LiveTunnel
  <1>2. x \in [Side -> OpenSocket] /\ x["incoming"] = k /\ x["outgoing"] = o
    BY <1>1 DEF Side, Is
  <1>3. Put(u, "incoming", k) = [u EXCEPT !.sock = x]
    BY DEF Put
  <1> HIDE DEF x
  <1>4. Is([u EXCEPT !.sock = x], k, o, st, d)
    BY <1>2, ZenonT(60) DEF Is, LiveTunnel
  <1> QED BY <1>3, <1>4

\* Put on the outgoing socket.
LEMMA PutOut ==
    ASSUME NEW u, NEW i, NEW o, NEW st, NEW d, Is(u, i, o, st, d), NEW k \in OpenSocket
    PROVE  Is(Put(u, "outgoing", k), i, k, st, d)
  <1> DEFINE x == [u.sock EXCEPT !["outgoing"] = k]
  <1>1. u.sock \in [Side -> OpenSocket]
    BY DEF Is, LiveTunnel
  <1>2. x \in [Side -> OpenSocket] /\ x["outgoing"] = k /\ x["incoming"] = i
    BY <1>1 DEF Side, Is
  <1>3. Put(u, "outgoing", k) = [u EXCEPT !.sock = x]
    BY DEF Put
  <1> HIDE DEF x
  <1>4. Is([u EXCEPT !.sock = x], i, k, st, d)
    BY <1>2, ZenonT(60) DEF Is, LiveTunnel
  <1> QED BY <1>3, <1>4

\* A change of the stage.
LEMMA GoToIs ==
    ASSUME NEW u, NEW i, NEW o, NEW st, NEW d, Is(u, i, o, st, d), NEW x \in tunnel_stage
    PROVE  Is(GoTo(u, x), i, o, x, d)
  BY ZenonT(60) DEF Is, LiveTunnel, GoTo

\* An assignment to client_ctx.
LEMMA SetData ==
    ASSUME NEW u, NEW i, NEW o, NEW st, NEW d, Is(u, i, o, st, d), NEW x \in ClientCtx
    PROVE  Is([u EXCEPT !.data = x], i, o, st, x)
  BY ZenonT(60) DEF Is, LiveTunnel

\* Which stages stream.
LEMMA StreamingStage ==
    ASSUME NEW u, NEW i, NEW o, NEW st, NEW d, Is(u, i, o, st, d)
    PROVE  is_in_streaming(u) <=> st = "streaming"
  BY ClientStagesAssumption DEF Is, LiveTunnel, is_in_streaming

\* Read on the incoming socket.
LEMMA ReadIn ==
    ASSUME NEW u, NEW i, NEW o, NEW st, NEW d, Is(u, i, o, st, d),
           NEW b \in BOOLEAN, CanRead(i), NEW k \in OpenSocket, k = socket_ctx_read(i, b)
    PROVE  Is(Read(u, "incoming", b), k, o, st, d)
  <1>1. u.sock["incoming"] = i
    BY DEF Is
  <1>2. Read(u, "incoming", b) = Put(u, "incoming", k)
    BY <1>1, AssertTrue DEF Read
  <1> QED BY <1>2, PutIn

\* Write on the incoming socket.
LEMMA WriteIn ==
    ASSUME NEW u, NEW i, NEW o, NEW st, NEW d, Is(u, i, o, st, d),
           NEW buf \in Seq(Items), CanWrite(i), i.wrstate = "stop" \/ st = "streaming",
           NEW k \in OpenSocket, k = socket_ctx_write(i, buf),
           NEW e \in ClientCtx, e = [d EXCEPT !.sent["incoming"] = @ \o buf]
    PROVE  Is(Write(u, "incoming", buf), k, o, st, e)
  <1> DEFINE v == Put(u, "incoming", k)
  <1>1. u.sock["incoming"] = i
    BY DEF Is
  <1>2. is_in_streaming(u) \/ u.sock["incoming"].wrstate = "stop"
    BY <1>1, StreamingStage
  <1>3. tunnel_socket_ctx_write(u, "incoming", buf) = v
    BY <1>1, <1>2, AssertTrue DEF tunnel_socket_ctx_write
  <1>4. Is(v, k, o, st, d)
    BY PutIn
  <1> HIDE DEF v
  <1>5. [v EXCEPT !.data.sent["incoming"] = @ \o buf] = [v EXCEPT !.data = e]
    BY <1>4 DEF Is
  <1>6. Is([v EXCEPT !.data = e], k, o, st, e)
    BY <1>4, SetData
  <1> QED BY <1>3, <1>5, <1>6 DEF Write

\* A read of the incoming socket is acknowledged.
LEMMA AckReadIn ==
    ASSUME NEW u, NEW i, NEW o, NEW st, NEW d, Is(u, i, o, st, d), i.rdstate = "done",
           NEW k \in OpenSocket, k = [i EXCEPT !.rdstate = "stop"]
    PROVE  Is(AckRead(u, "incoming"), k, o, st, d)
  <1>1. u.sock["incoming"] = i
    BY DEF Is
  <1>2. AckRead(u, "incoming") = Put(u, "incoming", k)
    BY <1>1, Zenon DEF AckRead, ClientAssert
  <1> QED BY <1>2, PutIn

\* A write to the incoming socket is acknowledged.
LEMMA AckWriteIn ==
    ASSUME NEW u, NEW i, NEW o, NEW st, NEW d, Is(u, i, o, st, d), i.wrstate = "done",
           NEW k \in OpenSocket, k = [i EXCEPT !.wrstate = "stop"]
    PROVE  Is(AckWrite(u, "incoming"), k, o, st, d)
  <1>1. u.sock["incoming"] = i
    BY DEF Is
  <1>2. AckWrite(u, "incoming") = Put(u, "incoming", k)
    BY <1>1, Zenon DEF AckWrite, ClientAssert
  <1> QED BY <1>2, PutIn

\* Read on the outgoing socket.
LEMMA ReadOut ==
    ASSUME NEW u, NEW i, NEW o, NEW st, NEW d, Is(u, i, o, st, d),
           NEW b \in BOOLEAN, CanRead(o), NEW k \in OpenSocket, k = socket_ctx_read(o, b)
    PROVE  Is(Read(u, "outgoing", b), i, k, st, d)
  <1>1. u.sock["outgoing"] = o
    BY DEF Is
  <1>2. Read(u, "outgoing", b) = Put(u, "outgoing", k)
    BY <1>1, AssertTrue DEF Read
  <1> QED BY <1>2, PutOut

\* Write on the outgoing socket.
LEMMA WriteOut ==
    ASSUME NEW u, NEW i, NEW o, NEW st, NEW d, Is(u, i, o, st, d),
           NEW buf \in Seq(Items), CanWrite(o), o.wrstate = "stop" \/ st = "streaming",
           NEW k \in OpenSocket, k = socket_ctx_write(o, buf),
           NEW e \in ClientCtx, e = [d EXCEPT !.sent["outgoing"] = @ \o buf]
    PROVE  Is(Write(u, "outgoing", buf), i, k, st, e)
  <1> DEFINE v == Put(u, "outgoing", k)
  <1>1. u.sock["outgoing"] = o
    BY DEF Is
  <1>2. is_in_streaming(u) \/ u.sock["outgoing"].wrstate = "stop"
    BY <1>1, StreamingStage
  <1>3. tunnel_socket_ctx_write(u, "outgoing", buf) = v
    BY <1>1, <1>2, AssertTrue DEF tunnel_socket_ctx_write
  <1>4. Is(v, i, k, st, d)
    BY PutOut
  <1> HIDE DEF v
  <1>5. [v EXCEPT !.data.sent["outgoing"] = @ \o buf] = [v EXCEPT !.data = e]
    BY <1>4 DEF Is
  <1>6. Is([v EXCEPT !.data = e], i, k, st, e)
    BY <1>4, SetData
  <1> QED BY <1>3, <1>5, <1>6 DEF Write

\* A read of the outgoing socket is acknowledged.
LEMMA AckReadOut ==
    ASSUME NEW u, NEW i, NEW o, NEW st, NEW d, Is(u, i, o, st, d), o.rdstate = "done",
           NEW k \in OpenSocket, k = [o EXCEPT !.rdstate = "stop"]
    PROVE  Is(AckRead(u, "outgoing"), i, k, st, d)
  <1>1. u.sock["outgoing"] = o
    BY DEF Is
  <1>2. AckRead(u, "outgoing") = Put(u, "outgoing", k)
    BY <1>1, Zenon DEF AckRead, ClientAssert
  <1> QED BY <1>2, PutOut

\* A write to the outgoing socket is acknowledged.
LEMMA AckWriteOut ==
    ASSUME NEW u, NEW i, NEW o, NEW st, NEW d, Is(u, i, o, st, d), o.wrstate = "done",
           NEW k \in OpenSocket, k = [o EXCEPT !.wrstate = "stop"]
    PROVE  Is(AckWrite(u, "outgoing"), i, k, st, d)
  <1>1. u.sock["outgoing"] = o
    BY DEF Is
  <1>2. AckWrite(u, "outgoing") = Put(u, "outgoing", k)
    BY <1>1, Zenon DEF AckWrite, ClientAssert
  <1> QED BY <1>2, PutOut

\* A connect to the server.
LEMMA ConnectOut ==
    ASSUME NEW u, NEW i, NEW o, NEW st, NEW d, Is(u, i, o, st, d), CanConnect(o),
           NEW k \in OpenSocket, k = socket_ctx_connect(o)
    PROVE  Is(Connect(u, "outgoing"), i, k, st, d)
  <1>1. u.sock["outgoing"] = o
    BY DEF Is
  <1>2. Connect(u, "outgoing") = Put(u, "outgoing", k)
    BY <1>1, AssertTrue DEF Connect
  <1> QED BY <1>2, PutOut

\* A lookup of the server's name.
LEMMA LookupOut ==
    ASSUME NEW u, NEW i, NEW o, NEW st, NEW d, Is(u, i, o, st, d), CanGetaddrinfo(o),
           NEW k \in OpenSocket, k = socket_ctx_getaddrinfo(o)
    PROVE  Is(Getaddrinfo(u, "outgoing"), i, k, st, d)
  <1>1. u.sock["outgoing"] = o
    BY DEF Is
  <1>2. Getaddrinfo(u, "outgoing") = Put(u, "outgoing", k)
    BY <1>1, AssertTrue DEF Getaddrinfo
  <1> QED BY <1>2, PutOut

AtRest(k) == k.rdstate = "stop" /\ k.wrstate = "stop"

\* The assertion that both sockets are idle.
LEMMA IdleBoth ==
    ASSUME NEW u, NEW i, NEW o, NEW st, NEW d, Is(u, i, o, st, d), AtRest(i), AtRest(o)
    PROVE  Idle(u, Side) = u
  <1>1. \A s \in Side : u.sock[s].rdstate = "stop" /\ u.sock[s].wrstate = "stop"
    BY DEF Is, AtRest, Side
  <1> QED BY <1>1, AssertTrue DEF Idle

\* The assertion that the incoming socket is idle.
LEMMA IdleIn ==
    ASSUME NEW u, NEW i, NEW o, NEW st, NEW d, Is(u, i, o, st, d), AtRest(i)
    PROVE  Idle(u, {"incoming"}) = u
  <1>1. \A s \in {"incoming"} : u.sock[s].rdstate = "stop" /\ u.sock[s].wrstate = "stop"
    BY DEF Is, AtRest
  <1> QED BY <1>1, AssertTrue DEF Idle

\* What do_s5_handshake keeps.
GreetIs(d, x, y) == [d EXCEPT !.shortcut = TRUE, !.first = x, !.app = y]
Greet(u, x, y) == [u EXCEPT !.data.shortcut = TRUE, !.data.first = x, !.data.app = y]

\* It is kept in client_ctx.
LEMMA SetGreet ==
    ASSUME NEW u, NEW i, NEW o, NEW st, NEW d, Is(u, i, o, st, d),
           NEW x, NEW y, GreetIs(d, x, y) \in ClientCtx
    PROVE  Is(Greet(u, x, y), i, o, st, GreetIs(d, x, y))
  <1> DEFINE e == GreetIs(d, x, y)
  <1>1. Greet(u, x, y) = [u EXCEPT !.data = e]
    BY DEF Is, Greet, GreetIs
  <1> QED BY <1>1, SetData

\* The cipher context moves on.
CipherIs(d, x) == [d EXCEPT !.cipher = x]
CipherTo(u, x) == [u EXCEPT !.data.cipher = x]

\* That is an assignment to client_ctx.
LEMMA SetCipher ==
    ASSUME NEW u, NEW i, NEW o, NEW st, NEW d, Is(u, i, o, st, d), NEW x,
           CipherIs(d, x) \in ClientCtx
    PROVE  Is(CipherTo(u, x), i, o, st, CipherIs(d, x))
  <1> DEFINE e == CipherIs(d, x)
  <1>1. CipherTo(u, x) = [u EXCEPT !.data = e]
    BY DEF Is, CipherTo, CipherIs
  <1> QED BY <1>1, SetData

\* The stored packet is replaced.
FirstIs(d, x) == [d EXCEPT !.first = x]
FirstTo(u, x) == [u EXCEPT !.data.first = x]

\* That is an assignment to client_ctx.
LEMMA SetFirst ==
    ASSUME NEW u, NEW i, NEW o, NEW st, NEW d, Is(u, i, o, st, d), NEW x,
           FirstIs(d, x) \in ClientCtx
    PROVE  Is(FirstTo(u, x), i, o, st, FirstIs(d, x))
  <1> DEFINE e == FirstIs(d, x)
  <1>1. FirstTo(u, x) = [u EXCEPT !.data = e]
    BY DEF Is, FirstTo, FirstIs
  <1> QED BY <1>1, SetData

\* The first packet is stored.
StoreIs(d, x) == [d EXCEPT !.first = x, !.app = @ + 1]
StoreTo(u, x) == [u EXCEPT !.data.first = x, !.data.app = @ + 1]

\* That is an assignment to client_ctx.
LEMMA SetStore ==
    ASSUME NEW u, NEW i, NEW o, NEW st, NEW d, Is(u, i, o, st, d), NEW x,
           StoreIs(d, x) \in ClientCtx
    PROVE  Is(StoreTo(u, x), i, o, st, StoreIs(d, x))
  <1> DEFINE e == StoreIs(d, x)
  <1>1. StoreTo(u, x) = [u EXCEPT !.data = e]
    BY DEF Is, StoreTo, StoreIs
  <1> QED BY <1>1, SetData

\* A packet is counted.
CountIs(d) == [d EXCEPT !.app = @ + 1]
CountTo(u) == [u EXCEPT !.data.app = @ + 1]

\* That is an assignment to client_ctx.
LEMMA SetCount ==
    ASSUME NEW u, NEW i, NEW o, NEW st, NEW d, Is(u, i, o, st, d),
           CountIs(d) \in ClientCtx
    PROVE  Is(CountTo(u), i, o, st, CountIs(d))
  <1> DEFINE e == CountIs(d)
  <1>1. CountTo(u) = [u EXCEPT !.data = e]
    BY DEF Is, CountTo, CountIs
  <1> QED BY <1>1, SetData

\* A packet is encrypted.
UpIs(d, x) == [d EXCEPT !.cipher = x, !.app = @ + 1]
UpTo(u, x) == [u EXCEPT !.data.cipher = x, !.data.app = @ + 1]

\* That is an assignment to client_ctx.
LEMMA SetUp ==
    ASSUME NEW u, NEW i, NEW o, NEW st, NEW d, Is(u, i, o, st, d), NEW x,
           UpIs(d, x) \in ClientCtx
    PROVE  Is(UpTo(u, x), i, o, st, UpIs(d, x))
  <1> DEFINE e == UpIs(d, x)
  <1>1. UpTo(u, x) = [u EXCEPT !.data = e]
    BY DEF Is, UpTo, UpIs
  <1> QED BY <1>1, SetData

\* A segment is decrypted.
DownIs(d, x, n) == [d EXCEPT !.cipher = x, !.srv = @ + n]
DownTo(u, x, n) == [u EXCEPT !.data.cipher = x, !.data.srv = @ + n]

\* That is an assignment to client_ctx.
LEMMA SetDown ==
    ASSUME NEW u, NEW i, NEW o, NEW st, NEW d, Is(u, i, o, st, d), NEW x, NEW n,
           DownIs(d, x, n) \in ClientCtx
    PROVE  Is(DownTo(u, x, n), i, o, st, DownIs(d, x, n))
  <1> DEFINE e == DownIs(d, x, n)
  <1>1. DownTo(u, x, n) = [u EXCEPT !.data = e]
    BY DEF Is, DownTo, DownIs
  <1> QED BY <1>1, SetData

\* An assertion of client.c failed.
BadIs(d, x) == [d EXCEPT !.bad = @ \cup {x}]
BadTo(u, x) == [u EXCEPT !.data.bad = @ \cup {x}]

\* That is an assignment to client_ctx.
LEMMA SetBad ==
    ASSUME NEW u, NEW i, NEW o, NEW st, NEW d, Is(u, i, o, st, d), NEW x,
           BadIs(d, x) \in ClientCtx
    PROVE  Is(BadTo(u, x), i, o, st, BadIs(d, x))
  <1> DEFINE e == BadIs(d, x)
  <1>1. BadTo(u, x) = [u EXCEPT !.data = e]
    BY DEF Is, BadTo, BadIs
  <1> QED BY <1>1, SetData
-----------------------------------------------------------------------------
(* The shutdown. *)

\* A socket, and a tunnel, in the middle of it.
AnySocket ==
    [ rdstate : socket_state, wrstate : socket_state, result : {"ok", "err"},
      is_terminated : BOOLEAN, check_timeout : BOOLEAN, ref : Int,
      closing_count : Int, on_closed : BOOLEAN,
      connected : BOOLEAN, reading : BOOLEAN, writes : Seq(Seq(Items)),
      connecting : BOOLEAN, dns : DnsState, ticking : BOOLEAN,
      tcp : HandleState, timer : HandleState, freed : BOOLEAN ]

AnyTunnel ==
    [ sock : [Side -> AnySocket], ref : Int, is_terminated : BOOLEAN, freed : BOOLEAN,
      stage : tunnel_stage, held : {FALSE}, bad : SUBSET {"stale"}, data : ClientCtx ]

Mid(u, i, o, n, term, gone, st, b, d) ==
    /\ u \in AnyTunnel /\ u.sock["incoming"] = i /\ u.sock["outgoing"] = o /\ u.ref = n
    /\ u.is_terminated = term /\ u.freed = gone /\ u.stage = st /\ u.bad = b /\ u.data = d

Closed(k, n) ==
    /\ n \in AnySocket /\ n.is_terminated = TRUE /\ n.rdstate = "dead" /\ n.wrstate = "dead"
    /\ n.reading = FALSE /\ n.ticking = FALSE /\ n.tcp = "closing" /\ n.timer = "closing"
    /\ n.writes = k.writes /\ n.ref = k.ref + 2 /\ n.freed = k.freed
    /\ n.closing_count = 2 /\ n.on_closed = TRUE

\* What socket_ctx_close leaves.
LEMMA CloseFacts ==
    ASSUME NEW k \in AnySocket
    PROVE  Closed(k, socket_ctx_close(k))
  <1> DEFINE j == uv_cancel(k)
             n == socket_ctx_close(k)
             x == IF k.dns = "queued" THEN "done" ELSE k.dns
             r == k.ref + 2
             two == 2
  <1>0. x \in DnsState
    BY DEF AnySocket, DnsState
  <1>1. j = [k EXCEPT !.dns = x]
    BY DEF uv_cancel, AnySocket
  <1> HIDE DEF x, j
  <1>2. j \in AnySocket /\ j.ref = k.ref /\ j.freed = k.freed /\ j.writes = k.writes
    BY <1>0, <1>1 DEF AnySocket
  <1>3. r \in Int /\ two \in Int
    BY DEF AnySocket
  <1>4. n = [j EXCEPT !.is_terminated = TRUE, !.rdstate = "dead", !.wrstate = "dead",
                      !.reading = FALSE, !.ticking = FALSE, !.ref = r,
                      !.tcp = "closing", !.timer = "closing",
                      !.closing_count = two, !.on_closed = TRUE]
    BY <1>2 DEF socket_ctx_close, j
  <1> HIDE DEF n, r, two
  <1>5. n \in AnySocket
    BY <1>2, <1>3, <1>4, ZenonT(60) DEF AnySocket, socket_state, HandleState
  <1>6. /\ n.is_terminated = TRUE /\ n.rdstate = "dead" /\ n.wrstate = "dead"
        /\ n.reading = FALSE /\ n.ticking = FALSE /\ n.tcp = "closing" /\ n.timer = "closing"
        /\ n.ref = r /\ n.closing_count = two /\ n.on_closed = TRUE
        /\ n.writes = j.writes /\ n.freed = j.freed
    BY <1>2, <1>4, ZenonT(60) DEF AnySocket
  <1> QED BY <1>2, <1>5, <1>6 DEF n, r, two, Closed

\* Put, in the middle of the shutdown.
LEMMA MidPut ==
    ASSUME NEW u, NEW i, NEW o, NEW n, NEW term, NEW gone, NEW st, NEW b, NEW d,
           Mid(u, i, o, n, term, gone, st, b, d), NEW k \in AnySocket
    PROVE  /\ Mid(Put(u, "incoming", k), k, o, n, term, gone, st, b, d)
           /\ Mid(Put(u, "outgoing", k), i, k, n, term, gone, st, b, d)
  <1> DEFINE x == [u.sock EXCEPT !["incoming"] = k]
             y == [u.sock EXCEPT !["outgoing"] = k]
  <1>1. u.sock \in [Side -> AnySocket]
    BY DEF Mid, AnyTunnel
  <1>2. x \in [Side -> AnySocket] /\ x["incoming"] = k /\ x["outgoing"] = o
    BY <1>1 DEF Side, Mid
  <1>3. y \in [Side -> AnySocket] /\ y["outgoing"] = k /\ y["incoming"] = i
    BY <1>1 DEF Side, Mid
  <1>4. Put(u, "incoming", k) = [u EXCEPT !.sock = x] /\ Put(u, "outgoing", k) = [u EXCEPT !.sock = y]
    BY DEF Put
  <1> HIDE DEF x, y
  <1>5. Mid([u EXCEPT !.sock = x], k, o, n, term, gone, st, b, d)
    BY <1>2, ZenonT(60) DEF Mid, AnyTunnel
  <1>6. Mid([u EXCEPT !.sock = y], i, k, n, term, gone, st, b, d)
    BY <1>3, ZenonT(60) DEF Mid, AnyTunnel
  <1> QED BY <1>4, <1>5, <1>6

\* An assignment to the reference count.
LEMMA MidRef ==
    ASSUME NEW u, NEW i, NEW o, NEW n, NEW term, NEW gone, NEW st, NEW b, NEW d,
           Mid(u, i, o, n, term, gone, st, b, d), NEW m \in Int
    PROVE  Mid([u EXCEPT !.ref = m], i, o, m, term, gone, st, b, d)
  BY ZenonT(60) DEF Mid, AnyTunnel

\* tunnel_ctx_add_ref.
LEMMA MidAddRef ==
    ASSUME NEW u, NEW i, NEW o, NEW n \in Int, NEW term, NEW gone, NEW st, NEW b, NEW d,
           Mid(u, i, o, n, term, gone, st, b, d), NEW m, m = n + 1
    PROVE  Mid(tunnel_ctx_add_ref(u), i, o, m, term, gone, st, b, d)
  <1>1. m \in Int
    OBVIOUS
  <1>2. tunnel_ctx_add_ref(u) = [u EXCEPT !.ref = m]
    BY DEF tunnel_ctx_add_ref, Mid
  <1> QED BY <1>1, <1>2, MidRef

\* tunnel_ctx_release, when it is not the last reference.
LEMMA MidRelease ==
    ASSUME NEW u, NEW i, NEW o, NEW n \in Int, NEW term, NEW gone, NEW st, NEW b, NEW d,
           Mid(u, i, o, n, term, gone, st, b, d), NEW m, m = n - 1, n > 1
    PROVE  Mid(tunnel_ctx_release(u), i, o, m, term, gone, st, b, d)
  <1>1. m \in Int
    OBVIOUS
  <1>2. tunnel_ctx_release(u) = [u EXCEPT !.ref = m]
    BY DEF tunnel_ctx_release, Mid
  <1> QED BY <1>1, <1>2, MidRef

\* CloseSocket on a socket that is open.
LEMMA MidClose ==
    ASSUME NEW u, NEW i, NEW o, NEW n, NEW term, NEW gone, NEW st, NEW b, NEW d,
           Mid(u, i, o, n, term, gone, st, b, d)
    PROVE  /\ (~i.is_terminated /\ i.rdstate # "dead" /\ i.wrstate # "dead") =>
                 Mid(CloseSocket(u, "incoming"), socket_ctx_close(i), o, n, term, gone, st, b, d)
           /\ (~o.is_terminated /\ o.rdstate # "dead" /\ o.wrstate # "dead") =>
                 Mid(CloseSocket(u, "outgoing"), i, socket_ctx_close(o), n, term, gone, st, b, d)
  <1>1. i \in AnySocket /\ o \in AnySocket
    BY DEF Mid, AnyTunnel, Side
  <1>2. socket_ctx_close(i) \in AnySocket /\ socket_ctx_close(o) \in AnySocket
    BY <1>1, CloseFacts DEF Closed
  <1>3. u.sock["incoming"] = i /\ u.sock["outgoing"] = o
    BY DEF Mid
  <1>4. ASSUME ~i.is_terminated, i.rdstate # "dead", i.wrstate # "dead"
        PROVE  Mid(CloseSocket(u, "incoming"), socket_ctx_close(i), o, n, term, gone, st, b, d)
    <2>1. CloseSocket(u, "incoming") = Put(u, "incoming", socket_ctx_close(i))
      BY <1>3, <1>4 DEF CloseSocket, Assert
    <2> QED BY <1>2, <2>1, MidPut
  <1>5. ASSUME ~o.is_terminated, o.rdstate # "dead", o.wrstate # "dead"
        PROVE  Mid(CloseSocket(u, "outgoing"), i, socket_ctx_close(o), n, term, gone, st, b, d)
    <2>1. CloseSocket(u, "outgoing") = Put(u, "outgoing", socket_ctx_close(o))
      BY <1>3, <1>5 DEF CloseSocket, Assert
    <2> QED BY <1>2, <2>1, MidPut
  <1> QED BY <1>4, <1>5

Closable(k) ==
    /\ k \in AnySocket /\ ~k.is_terminated /\ k.rdstate # "dead" /\ k.wrstate # "dead"

\* tunnel_shutdown closes both sockets and ends with two references, one for
\* each of them.
LEMMA ShutdownForm ==
    ASSUME NEW u, NEW i, NEW o, NEW st, NEW d,
           Mid(u, i, o, 1, FALSE, FALSE, st, {}, d), Closable(i), Closable(o)
    PROVE  Mid(tunnel_shutdown(u), socket_ctx_close(i), socket_ctx_close(o),
               2, TRUE, FALSE, st, {}, d)
  <1> DEFINE a0 == [u EXCEPT !.is_terminated = TRUE]
             a  == tunnel_ctx_add_ref(a0)
             a1 == CloseSocket(a, "incoming")
             b  == tunnel_ctx_add_ref(a1)
             c  == CloseSocket(b, "outgoing")
             e  == tunnel_ctx_release(c)
             x  == socket_ctx_close(i)
             y  == socket_ctx_close(o)
             one == 1
             two == 2
             three == 3
  <1>0. /\ one \in Int /\ two \in Int /\ three \in Int /\ two = one + 1
        /\ three = two + 1 /\ two = three - 1 /\ three > 1
    OBVIOUS
  <1>1. Mid(a0, i, o, one, TRUE, FALSE, st, {}, d)
    BY ZenonT(60) DEF Mid, AnyTunnel
  <1> HIDE DEF a0, one, two, three
  <1>2. Mid(a, i, o, two, TRUE, FALSE, st, {}, d)
    BY <1>0, <1>1, MidAddRef
  <1> HIDE DEF a
  <1>3. Mid(a1, x, o, two, TRUE, FALSE, st, {}, d)
    BY <1>2, MidClose DEF Closable
  <1> HIDE DEF a1
  <1>4. Mid(b, x, o, three, TRUE, FALSE, st, {}, d)
    BY <1>0, <1>3, MidAddRef
  <1> HIDE DEF b
  <1>5. Mid(c, x, y, three, TRUE, FALSE, st, {}, d)
    BY <1>4, MidClose DEF Closable
  <1> HIDE DEF c
  <1>6. Mid(e, x, y, two, TRUE, FALSE, st, {}, d)
    BY <1>0, <1>5, MidRelease
  <1>7. u.is_terminated = FALSE
    BY DEF Mid
  <1>8. tunnel_shutdown(u) = e
    BY <1>7 DEF tunnel_shutdown, a0, a, a1, b, c
  <1> QED BY <1>6, <1>8 DEF two

\* The parts of DeadOK.
Quittable(d) == WireOK(d) /\ d.bad \cap {"rdstate", "wrstate", "idle"} = {}

Shut(u, i, o, n, gone, st, b, d) ==
    /\ Mid(u, i, o, n, TRUE, gone, st, b, d) /\ i \in DeadSocket /\ o \in DeadSocket
    /\ n = One(i.on_closed) + One(o.on_closed)
    /\ gone <=> n = 0
    /\ Counted(i, gone) /\ Counted(o, gone) /\ Quittable(d)

\* They make a tunnel that was shut down.
LEMMA ShutDead ==
    ASSUME NEW u, NEW i, NEW o, NEW n, NEW gone, NEW st, NEW b, NEW d,
           Shut(u, i, o, n, gone, st, b, d)
    PROVE  DeadOK(u)
  <1>0. Mid(u, i, o, n, TRUE, gone, st, b, d)
    BY DEF Shut
  <1>1. u.sock \in [Side -> DeadSocket]
    BY DEF Shut, Mid, AnyTunnel, Side
  <1>2. n \in Nat
    BY DEF Shut, One
  <1>3. u \in DeadTunnel
    <2> DEFINE S == [Side -> DeadSocket]
    <2>1. u \in AnyTunnel /\ u.sock \in S /\ u.ref \in Nat /\ u.is_terminated = TRUE
      BY <1>0, <1>1, <1>2 DEF Mid
    <2> HIDE DEF S
    <2>2. u \in [ sock : S, ref : Nat, is_terminated : {TRUE}, freed : BOOLEAN,
                  stage : tunnel_stage, held : {FALSE}, bad : SUBSET {"stale"}, data : ClientCtx ]
      BY <2>1, ZenonT(60) DEF AnyTunnel
    <2> QED BY <2>2 DEF DeadTunnel, S
  <1>4. /\ u.sock["incoming"] = i /\ u.sock["outgoing"] = o /\ u.ref = n /\ u.freed = gone
        /\ u.data = d
    BY <1>0 DEF Mid
  <1> QED BY <1>3, <1>4 DEF DeadOK, Shut, Quittable

-----------------------------------------------------------------------------
(* Packets in order. *)

\* The packets are items.
LEMMA ItemsFacts ==
    /\ Hello \in Items /\ Finish \in Items /\ Address \in Items /\ Junk \in Items
    /\ \A w \in {"method", "no_method", "success", "assoc", "not_allowed"} : Reply(w) \in Items
    /\ \A n \in 1 .. MaxData : AppData(n) \in Items /\ SrvData(n) \in Items
  BY DEF Items

\* What Numbered makes.
LEMMA AppsFacts ==
    ASSUME NEW n \in Nat, n <= MaxData
    PROVE  /\ Apps(n) \in Seq(Items) /\ Len(Apps(n)) = n
           /\ \A j \in 1 .. n : Apps(n)[j] = AppData(j)
  <1>0. MaxData \in Nat
    BY MaxDataAssumption
  <1>1. \A j \in 1 .. n : AppData(j) \in Items
    BY <1>0, ItemsFacts
  <1>2. Apps(n) = [j \in 1 .. n |-> AppData(j)]
    BY DEF Apps, Numbered
  <1> HIDE DEF Apps
  <1> QED BY <1>1, <1>2

\* Likewise.
LEMMA SrvsFacts ==
    ASSUME NEW n \in Nat, n <= MaxData
    PROVE  /\ Srvs(n) \in Seq(Items) /\ Len(Srvs(n)) = n
           /\ \A j \in 1 .. n : Srvs(n)[j] = SrvData(j)
  <1>0. MaxData \in Nat
    BY MaxDataAssumption
  <1>1. \A j \in 1 .. n : SrvData(j) \in Items
    BY <1>0, ItemsFacts
  <1>2. Srvs(n) = [j \in 1 .. n |-> SrvData(j)]
    BY DEF Srvs, Numbered
  <1> HIDE DEF Srvs
  <1> QED BY <1>1, <1>2

\* A sequence that has one element more.
LEMMA OneMore ==
    ASSUME NEW p \in Seq(Items), NEW q \in Seq(Items), NEW e \in Items,
           NEW n \in Nat, Len(p) = n, Len(q) = n + 1, q[n + 1] = e,
           \A j \in 1 .. n : q[j] = p[j]
    PROVE  p \o <<e>> = q
  <1> DEFINE x == p \o <<e>>
  <1>1. x \in Seq(Items) /\ Len(x) = n + 1 /\ x[n + 1] = e /\ \A j \in 1 .. n : x[j] = p[j]
    OBVIOUS
  <1> HIDE DEF x
  <1>2. \A j \in 1 .. n + 1 : j \in 1 .. n \/ j = n + 1
    OBVIOUS
  <1>3. \A j \in 1 .. n + 1 : x[j] = q[j]
    BY <1>1, <1>2
  <1>4. x = q
    BY <1>1, <1>3, SeqEqual
  <1> QED BY <1>4 DEF x

\* No packet, and one packet more.
LEMMA AppsStep ==
    /\ Apps(0) = <<>> /\ Srvs(0) = <<>>
    /\ Apps(1) = << AppData(1) >>
    /\ \A n \in Nat : n < MaxData =>
          /\ Apps(n) \o << AppData(n + 1) >> = Apps(n + 1)
          /\ Srvs(n) \o << SrvData(n + 1) >> = Srvs(n + 1)
  <1>0. MaxData \in Nat /\ 1 <= MaxData /\ 0 <= MaxData
    BY MaxDataAssumption
  <1>1. Apps(0) = <<>> /\ Srvs(0) = <<>>
    BY <1>0, AppsFacts, SrvsFacts, EmptySeq
  <1>2. Apps(1) = << AppData(1) >>
    <2>0. 1 \in Nat /\ 1 \in 1 .. 1
      OBVIOUS
    <2>1. Apps(1) \in Seq(Items) /\ Len(Apps(1)) = 1 /\ Apps(1)[1] = AppData(1)
      BY <1>0, <2>0, AppsFacts, Zenon
    <2> QED BY <2>1
  <1>3. ASSUME NEW n \in Nat, n < MaxData
        PROVE  Apps(n) \o << AppData(n + 1) >> = Apps(n + 1)
    <2> DEFINE p == Apps(n)
               q == Apps(n + 1)
               e == AppData(n + 1)
    <2>1. p \in Seq(Items) /\ Len(p) = n /\ \A j \in 1 .. n : p[j] = AppData(j)
      BY <1>0, <1>3, AppsFacts
    <2>2. q \in Seq(Items) /\ Len(q) = n + 1 /\ \A j \in 1 .. n + 1 : q[j] = AppData(j)
      BY <1>0, <1>3, AppsFacts
    <2>3. e \in Items /\ q[n + 1] = e
      BY <1>0, <1>3, <2>2, ItemsFacts
    <2>4. \A j \in 1 .. n : q[j] = p[j]
      BY <2>1, <2>2
    <2> HIDE DEF p, q, e
    <2>5. p \o <<e>> = q
      BY <2>1, <2>2, <2>3, <2>4, OneMore
    <2> QED BY <2>5 DEF p, q, e
  <1>4. ASSUME NEW n \in Nat, n < MaxData
        PROVE  Srvs(n) \o << SrvData(n + 1) >> = Srvs(n + 1)
    <2> DEFINE p == Srvs(n)
               q == Srvs(n + 1)
               e == SrvData(n + 1)
    <2>1. p \in Seq(Items) /\ Len(p) = n /\ \A j \in 1 .. n : p[j] = SrvData(j)
      BY <1>0, <1>4, SrvsFacts
    <2>2. q \in Seq(Items) /\ Len(q) = n + 1 /\ \A j \in 1 .. n + 1 : q[j] = SrvData(j)
      BY <1>0, <1>4, SrvsFacts
    <2>3. e \in Items /\ q[n + 1] = e
      BY <1>0, <1>4, <2>2, ItemsFacts
    <2>4. \A j \in 1 .. n : q[j] = p[j]
      BY <2>1, <2>2
    <2> HIDE DEF p, q, e
    <2>5. p \o <<e>> = q
      BY <2>1, <2>2, <2>3, <2>4, OneMore
    <2> QED BY <2>5 DEF p, q, e
  <1> QED BY <1>1, <1>2, <1>3, <1>4

\* A sequence that agrees with the start of another one is its start.
LEMMA StartOf ==
    ASSUME NEW p \in Seq(Items), NEW q \in Seq(Items), Len(p) <= Len(q),
           \A j \in 1 .. Len(p) : p[j] = q[j]
    PROVE  p = SubSeq(q, 1, Len(p))
  OBVIOUS

\* Concatenation is associative.
LEMMA Assoc ==
    ASSUME NEW p \in Seq(Items), NEW q \in Seq(Items), NEW r \in Seq(Items)
    PROVE  (p \o q) \o r = p \o (q \o r)
  <1> DEFINE x == (p \o q) \o r
             y == p \o (q \o r)
  <1>1. x \in Seq(Items) /\ y \in Seq(Items) /\ Len(x) = Len(y)
    OBVIOUS
  <1>2. \A j \in 1 .. Len(x) : x[j] = y[j]
    OBVIOUS
  <1> HIDE DEF x, y
  <1>3. x = y
    BY <1>1, <1>2, SeqEqual
  <1> QED BY <1>3 DEF x, y

Plan(ticket, n) ==
    (IF ticket THEN <<Hello, Finish>> ELSE <<>>) \o <<Address>> \o Numbered(AppData, n)

\* The messages of the handshake and the packets behind them.
LEMMA PlanFacts ==
    ASSUME NEW n \in Nat, n <= MaxData
    PROVE  /\ Plan(TRUE, n) \in Seq(Items) /\ Plan(FALSE, n) \in Seq(Items)
           /\ Len(Plan(TRUE, n)) = n + 3 /\ Len(Plan(FALSE, n)) = n + 1
           /\ Plan(TRUE, n)[1] = Hello /\ Plan(TRUE, n)[2] = Finish /\ Plan(TRUE, n)[3] = Address
           /\ Plan(FALSE, n)[1] = Address
           /\ \A j \in 1 .. n : /\ Plan(TRUE, n)[j + 3] = AppData(j)
                                /\ Plan(FALSE, n)[j + 1] = AppData(j)
  <1> DEFINE q == Apps(n)
  <1>1. q \in Seq(Items) /\ Len(q) = n /\ \A j \in 1 .. n : q[j] = AppData(j)
    BY AppsFacts
  <1>2. Hello \in Items /\ Finish \in Items /\ Address \in Items
    BY ItemsFacts
  <1>3. Plan(TRUE, n) = <<Hello, Finish>> \o <<Address>> \o q
        /\ Plan(FALSE, n) = <<>> \o <<Address>> \o q
    BY DEF Plan, Apps
  <1> HIDE DEF q
  <1> DEFINE x == <<Hello, Finish>> \o <<Address>> \o q
             y == <<>> \o <<Address>> \o q
  <1>4. /\ x \in Seq(Items) /\ Len(x) = n + 3 /\ x[1] = Hello /\ x[2] = Finish /\ x[3] = Address
        /\ \A j \in 1 .. n : x[j + 3] = q[j]
    BY <1>1, <1>2
  <1>5. /\ y \in Seq(Items) /\ Len(y) = n + 1 /\ y[1] = Address
        /\ \A j \in 1 .. n : y[j + 1] = q[j]
    BY <1>1, <1>2
  <1> HIDE DEF x, y
  <1> QED BY <1>1, <1>3, <1>4, <1>5 DEF x, y

\* A way to show WireOK.
LEMMA WireOf ==
    ASSUME NEW d \in ClientCtx, NEW out, out = d.sent["outgoing"],
           NEW q \in Seq(Items), q = Plan(d.cipher.mode = "ticket", d.app),
           Len(out) <= Len(q), \A j \in 1 .. Len(out) : out[j] = q[j]
    PROVE  WireOK(d)
  <1>1. out \in Seq(Items)
    BY CtxOf
  <1>2. out = SubSeq(q, 1, Len(out))
    BY <1>1, StartOf
  <1>3. WireOK(d) <=> ("late_feedback" \notin d.bad =>
                          /\ Len(out) <= Len(q) /\ out = SubSeq(q, 1, Len(out)))
    BY DEF WireOK, Plan
  <1> QED BY <1>2, <1>3

\* Nothing was written to the server.
LEMMA EarlyWire ==
    ASSUME NEW d \in ClientCtx, d.sent["outgoing"] = <<>>
    PROVE  WireOK(d)
  <1> DEFINE q == Plan(d.cipher.mode = "ticket", d.app)
  <1>1. d.app \in Nat /\ d.app <= MaxData
    BY CtxOf, MaxDataAssumption
  <1>2. q \in Seq(Items)
    <2>1. CASE d.cipher.mode = "ticket"
      BY <1>1, <2>1, PlanFacts
    <2>2. CASE d.cipher.mode # "ticket"
      BY <1>1, <2>2, PlanFacts
    <2> QED BY <2>1, <2>2
  <1> HIDE DEF q
  <1> DEFINE out == d.sent["outgoing"]
  <1>3. Len(out) = 0 /\ Len(q) >= 0
    BY <1>2
  <1>4. Len(out) <= Len(q) /\ \A j \in 1 .. Len(out) : out[j] = q[j]
    BY <1>2, <1>3
  <1> HIDE DEF out
  <1> QED BY <1>2, <1>4, WireOf DEF q, out

\* The messages of the handshake were, and the first packets, all of them or
\* none, behind them or held back.
LEMMA UpWire ==
    ASSUME NEW d \in ClientCtx, NEW k \in Nat, k <= d.app, Up(d, Apps(k))
    PROVE  WireOK(d)
  <1> DEFINE n == d.app
             p == Apps(k)
             out == d.sent["outgoing"]
  <1>1. n \in Nat /\ n <= MaxData /\ k <= MaxData /\ k <= n
    BY CtxOf, MaxDataAssumption
  <1>2. p \in Seq(Items) /\ Len(p) = k /\ \A j \in 1 .. k : p[j] = AppData(j)
    BY <1>1, AppsFacts
  <1>3. Hello \in Items /\ Finish \in Items /\ Address \in Items
    BY ItemsFacts
  <1>4. out \in Seq(Items)
    BY CtxOf
  <1>5. CASE Direct(d.cipher, out, p)
    <2> DEFINE q == Plan(FALSE, n)
    <2>1. d.cipher.mode # "ticket" /\ out = <<Address>> \o p
      BY <1>5 DEF Direct
    <2>2. /\ q \in Seq(Items) /\ Len(q) = n + 1 /\ q[1] = Address
          /\ \A j \in 1 .. n : q[j + 1] = AppData(j)
      BY <1>1, PlanFacts
    <2> HIDE DEF q, p
    <2>3. Len(out) = k + 1 /\ out[1] = Address /\ \A j \in 2 .. k + 1 : out[j] = p[j - 1]
      BY <1>2, <1>3, <2>1
    <2>4. \A j \in 2 .. k + 1 : j - 1 \in 1 .. k /\ j - 1 \in 1 .. n /\ (j - 1) + 1 = j
      BY <1>1
    <2>5. \A j \in 2 .. k + 1 : out[j] = q[j]
      BY <1>2, <2>2, <2>3, <2>4
    <2>6. \A j \in 1 .. Len(out) : j = 1 \/ j \in 2 .. k + 1
      BY <2>3
    <2>7. Len(out) <= Len(q) /\ \A j \in 1 .. Len(out) : out[j] = q[j]
      <3> HIDE DEF out
      <3>1. Len(out) <= Len(q)
        BY <1>1, <2>2, <2>3
      <3>2. \A j \in 1 .. Len(out) : out[j] = q[j]
        BY <2>2, <2>3, <2>5, <2>6, Zenon
      <3> QED BY <3>1, <3>2
    <2>8. (d.cipher.mode = "ticket") = FALSE
      BY <2>1
    <2> HIDE DEF out
    <2> QED BY <2>2, <2>7, <2>8, WireOf DEF q, out
  <1>6. CASE Held(d.cipher, out, p)
    <2> DEFINE q == Plan(TRUE, n)
    <2>1. d.cipher.mode = "ticket" /\ out = <<Hello>>
      BY <1>6 DEF Held
    <2>2. q \in Seq(Items) /\ Len(q) = n + 3 /\ q[1] = Hello
      BY <1>1, PlanFacts
    <2> HIDE DEF q
    <2>3. Len(out) = 1 /\ out[1] = Hello
      BY <1>3, <2>1
    <2>7. Len(out) <= Len(q) /\ \A j \in 1 .. Len(out) : out[j] = q[j]
      BY <1>1, <2>2, <2>3
    <2>8. (d.cipher.mode = "ticket") = TRUE
      BY <2>1
    <2> HIDE DEF out
    <2> QED BY <2>2, <2>7, <2>8, WireOf DEF q, out
  <1>7. CASE Flushed(d.cipher, out, p)
    <2> DEFINE q == Plan(TRUE, n)
    <2>1. d.cipher.mode = "ticket" /\ out = <<Hello, Finish, Address>> \o p
      BY <1>7 DEF Flushed
    <2>2. /\ q \in Seq(Items) /\ Len(q) = n + 3 /\ q[1] = Hello /\ q[2] = Finish /\ q[3] = Address
          /\ \A j \in 1 .. n : q[j + 3] = AppData(j)
      BY <1>1, PlanFacts
    <2> HIDE DEF q, p
    <2>3. /\ Len(out) = k + 3 /\ out[1] = Hello /\ out[2] = Finish /\ out[3] = Address
          /\ \A j \in 4 .. k + 3 : out[j] = p[j - 3]
      BY <1>2, <1>3, <2>1
    <2>4. \A j \in 4 .. k + 3 : j - 3 \in 1 .. k /\ j - 3 \in 1 .. n /\ (j - 3) + 3 = j
      BY <1>1
    <2>5. \A j \in 4 .. k + 3 : out[j] = q[j]
      BY <1>2, <2>2, <2>3, <2>4
    <2>6. \A j \in 1 .. Len(out) : j = 1 \/ j = 2 \/ j = 3 \/ j \in 4 .. k + 3
      BY <2>3
    <2>7. Len(out) <= Len(q) /\ \A j \in 1 .. Len(out) : out[j] = q[j]
      <3> HIDE DEF out
      <3>1. Len(out) <= Len(q)
        BY <1>1, <2>2, <2>3
      <3>2. \A j \in 1 .. Len(out) : out[j] = q[j]
        BY <2>2, <2>3, <2>5, <2>6, Zenon
      <3> QED BY <3>1, <3>2
    <2>8. (d.cipher.mode = "ticket") = TRUE
      BY <2>1
    <2> HIDE DEF out
    <2> QED BY <2>2, <2>7, <2>8, WireOf DEF q, out
  <1> HIDE DEF out, p
  <1> QED BY <1>5, <1>6, <1>7 DEF Up, out, p

-----------------------------------------------------------------------------
(* A live tunnel is shut down. *)

Short(k) == Len(k.writes) <= MaxData + 2

\* A socket of a live tunnel, and what socket_ctx_close makes of it.
LEMMA ClosedOpen ==
    ASSUME NEW k \in AnySocket, ~k.is_terminated, k.rdstate # "dead", k.wrstate # "dead",
           k.freed = FALSE, Short(k), NEW n, n = socket_ctx_close(k), k.ref = 1
    PROVE  n \in DeadSocket /\ Counted(n, FALSE) /\ n.on_closed = TRUE
  <1>1. Closed(k, n)
    BY CloseFacts
  <1>2. n.ref = 3 /\ n.ref \in Nat /\ n.closing_count = 2 /\ n.closing_count \in Nat
    BY <1>1 DEF Closed
  <1>3. n \in DeadSocket
    <2>1. /\ n \in AnySocket /\ n.is_terminated = TRUE /\ n.rdstate = "dead" /\ n.wrstate = "dead"
          /\ n.reading = FALSE /\ n.ticking = FALSE /\ n.tcp = "closing" /\ n.timer = "closing"
          /\ n.ref \in Nat /\ n.closing_count \in Nat
      BY <1>1, <1>2 DEF Closed
    <2> QED BY <2>1, ZenonT(60) DEF AnySocket, DeadSocket
  <1>4. CloseOwed(n) = 2 /\ One(~FALSE) = 1
    BY <1>1 DEF Closed, CloseOwed, One
  <1> QED BY <1>1, <1>2, <1>3, <1>4 DEF Closed, Counted, Short

\* Every open socket is one in the sense of the shutdown.
LEMMA OpenIsAny ==
    ASSUME NEW k \in OpenSocket
    PROVE  /\ k \in AnySocket /\ ~k.is_terminated /\ k.rdstate # "dead" /\ k.wrstate # "dead"
           /\ k.freed = FALSE /\ k.ref = 1 /\ k.closing_count = 0 /\ k.on_closed = FALSE
  <1>1. k \in AnySocket
    <2>1. 1 \in Int /\ 0 \in Int
      OBVIOUS
    <2> QED BY <2>1, ZenonT(60) DEF OpenSocket, AnySocket, socket_state, HandleState
  <1>2. k.rdstate # "dead" /\ k.wrstate # "dead"
    BY DEF OpenSocket
  <1> QED BY <1>1, <1>2 DEF OpenSocket

\* Every live tunnel, likewise.
LEMMA LiveIsMid ==
    ASSUME NEW u, NEW i, NEW o, NEW st, NEW d, Is(u, i, o, st, d)
    PROVE  Mid(u, i, o, 1, FALSE, FALSE, st, {}, d)
  <1>1. u.sock \in [Side -> AnySocket]
    <2>1. u.sock \in [Side -> OpenSocket]
      BY DEF Is, LiveTunnel
    <2> QED BY <2>1, OpenIsAny
  <1> DEFINE S == [Side -> AnySocket]
             N == {}
             B == SUBSET {"stale"}
  <1>2. u.sock \in S /\ 1 \in Int /\ N \in B
    BY <1>1
  <1>3. u \in LiveTunnel /\ u.ref = 1 /\ u.is_terminated = FALSE /\ u.freed = FALSE /\ u.bad = N
    BY DEF Is, LiveTunnel
  <1> HIDE DEF S, N, B
  <1>4. u \in [ sock : S, ref : Int, is_terminated : BOOLEAN, freed : BOOLEAN,
                stage : tunnel_stage, held : {FALSE}, bad : B, data : ClientCtx ]
    BY <1>2, <1>3, ZenonT(60) DEF LiveTunnel
  <1>5. u \in AnyTunnel
    BY <1>4 DEF AnyTunnel, S, B
  <1> QED BY <1>3, <1>5 DEF Is, Mid, N

\* tunnel_shutdown leaves a tunnel that has been shut down properly.
LEMMA ShutLive ==
    ASSUME NEW u, NEW i, NEW o, NEW st, NEW d, Is(u, i, o, st, d),
           Quittable(d), Short(i), Short(o)
    PROVE  DeadOK(tunnel_shutdown(u))
  <1> DEFINE v == tunnel_shutdown(u)
             x == socket_ctx_close(i)
             y == socket_ctx_close(o)
  <1>1. i \in OpenSocket /\ o \in OpenSocket
    BY DEF Is, LiveTunnel, Side
  <1>2. Closable(i) /\ Closable(o)
    BY <1>1, OpenIsAny DEF Closable
  <1>3. Mid(v, x, y, 2, TRUE, FALSE, st, {}, d)
    BY <1>2, LiveIsMid, ShutdownForm
  <1>4. x \in DeadSocket /\ Counted(x, FALSE) /\ x.on_closed = TRUE
    BY <1>1, OpenIsAny, ClosedOpen
  <1>5. y \in DeadSocket /\ Counted(y, FALSE) /\ y.on_closed = TRUE
    BY <1>1, OpenIsAny, ClosedOpen
  <1>6. 2 = One(x.on_closed) + One(y.on_closed) /\ (FALSE <=> 2 = 0)
    BY <1>4, <1>5 DEF One
  <1> HIDE DEF v, x, y
  <1> DEFINE two == 2
             none == {}
             no == FALSE
  <1>7. Shut(v, x, y, two, no, st, none, d)
    BY <1>3, <1>4, <1>5, <1>6 DEF Shut
  <1> HIDE DEF two, none, no
  <1>8. DeadOK(v)
    BY <1>7, ShutDead
  <1> QED BY <1>8 DEF v

-----------------------------------------------------------------------------
(* The environment. *)

\* The application's next packet.
LEMMA AppNext ==
    ASSUME NEW u, NEW i, NEW o, NEW st, NEW d, Is(u, i, o, st, d), NEW p \in NextApp(u)
    PROVE  p = AppData(d.app + 1) /\ d.app + 1 \in 1 .. MaxData /\ p \in Items
  <1>1. u.data = d /\ d \in ClientCtx
    BY DEF Is, LiveTunnel
  <1>2. d.app \in 0 .. MaxData
    BY <1>1, CtxOf
  <1>3. PICK n \in {d.app + 1} \cap (1 .. MaxData) : p = AppData(n)
    BY <1>1 DEF NextApp
  <1> QED BY <1>2, <1>3, ItemsFacts

SegBad(g, d)  == g.valid = FALSE /\ g.data = <<>>
SegPart(g, d) == g.valid = TRUE /\ g.reply = "part" /\ g.data = <<>> /\ d.cipher.reply = "none"
SegRest(g, d) == /\ g.valid = TRUE /\ g.reply = "all" /\ g.data = <<>>
                 /\ d.cipher.reply \in {"none", "part"}
SegData(g, d) == /\ g.valid = TRUE /\ g.reply = "all" /\ d.cipher.reply # "broken"
                 /\ d.srv + 1 \in 1 .. MaxData /\ g.data = << SrvData(d.srv + 1) >>

\* What a read from the server can deliver.
LEMMA SegNext ==
    ASSUME NEW u, NEW i, NEW o, NEW st, NEW d, Is(u, i, o, st, d), NEW g \in NextSegments(u)
    PROVE  /\ SegBad(g, d) \/ SegPart(g, d) \/ SegRest(g, d) \/ SegData(g, d)
           /\ g.data \in Seq(Items)
  <1>1. u.data = d /\ d \in ClientCtx
    BY DEF Is, LiveTunnel
  <1> DEFINE c == d.cipher.reply
  <1>2. \/ g = Segment(c, FALSE, <<>>, FALSE)
        \/ \E raw \in {b \in BOOLEAN : c = "none"} : g = Segment("part", raw, <<>>, TRUE)
        \/ \E r \in {c} \cap {"none", "part"} : g = Segment("all", FALSE, <<>>, TRUE)
        \/ \E e \in {x \in NextSrv(u) : c # "broken"} : g = Segment("all", FALSE, <<e>>, TRUE)
    BY <1>1 DEF NextSegments
  <1>3. CASE g = Segment(c, FALSE, <<>>, FALSE)
    BY <1>3 DEF Segment, SegBad
  <1>4. CASE \E raw \in {b \in BOOLEAN : c = "none"} : g = Segment("part", raw, <<>>, TRUE)
    BY <1>4 DEF Segment, SegPart
  <1>5. CASE \E r \in {c} \cap {"none", "part"} : g = Segment("all", FALSE, <<>>, TRUE)
    BY <1>5 DEF Segment, SegRest
  <1>6. CASE \E e \in {x \in NextSrv(u) : c # "broken"} : g = Segment("all", FALSE, <<e>>, TRUE)
    <2>1. PICK e \in NextSrv(u) : c # "broken" /\ g = Segment("all", FALSE, <<e>>, TRUE)
      BY <1>6
    <2>2. \E n \in {d.srv + 1} \cap (1 .. MaxData) : e = SrvData(n)
      BY <1>1 DEF NextSrv
    <2>3. e = SrvData(d.srv + 1) /\ d.srv + 1 \in 1 .. MaxData /\ e \in Items
      BY <2>2, ItemsFacts
    <2> HIDE DEF c
    <2>4. g.valid = TRUE /\ g.reply = "all" /\ g.data = <<e>>
      BY <2>1 DEF Segment
    <2>5. <<e>> \in Seq(Items)
      BY <2>3
    <2> QED BY <2>1, <2>3, <2>4, <2>5 DEF SegData, c
  <1> QED BY <1>2, <1>3, <1>4, <1>5, <1>6

-----------------------------------------------------------------------------
(* The cipher context. *)

Encoded(e, m, x, q, s, out) ==
    /\ e.ctx \in CipherCtx /\ e.ctx.mode = m /\ e.ctx.reply = x
    /\ e.ctx.queued = q /\ e.ctx.status = s /\ e.out = out

Framed(c, buf) ==
    IF 2 \in c.status THEN c.queued \o buf ELSE <<Finish>> \o (c.queued \o buf)

\* The encoder of the obfuscation: after its handshake, before it, and while
\* data is queued or flushed.
LEMMA EncodeFacts ==
    ASSUME NEW c \in CipherCtx, NEW buf \in Seq(Items),
           NEW e, e = tls12_ticket_auth_client_encode(c, buf)
    PROVE  /\ 4 \in c.status => Encoded(e, c.mode, c.reply, c.queued, c.status, buf)
           /\ 4 \notin c.status /\ c.status \cap {1, 2} = {} =>
                Encoded(e, c.mode, c.reply, c.queued \o buf, c.status \cup {1}, <<Hello>>)
           /\ 4 \notin c.status /\ c.status \cap {1, 2} # {} /\ buf # <<>> =>
                Encoded(e, c.mode, c.reply, Framed(c, buf), c.status \cup {2}, <<>>)
           /\ 4 \notin c.status /\ c.status \cap {1, 2} # {} /\ buf = <<>> =>
                Encoded(e, c.mode, c.reply, <<>>, c.status \cup {2, 4}, Framed(c, buf))
  <1> DEFINE q == c.queued \o buf
             fr == Framed(c, buf)
  <1>1. c.queued \in Seq(Items) /\ c.status \in SUBSET {1, 2, 4, 8}
    BY DEF CipherCtx
  <1>2. q \in Seq(Items) /\ fr \in Seq(Items) /\ <<>> \in Seq(Items)
    BY <1>1, ItemsFacts DEF Framed
  <1>3. /\ c.status \cup {1} \in SUBSET {1, 2, 4, 8} /\ c.status \cup {2} \in SUBSET {1, 2, 4, 8}
        /\ c.status \cup {2, 4} \in SUBSET {1, 2, 4, 8}
    BY <1>1
  <1>4. ASSUME 4 \in c.status
        PROVE  Encoded(e, c.mode, c.reply, c.queued, c.status, buf)
    <2>1. e = [ctx |-> c, out |-> buf]
      BY <1>4 DEF tls12_ticket_auth_client_encode
    <2> QED BY <2>1 DEF Encoded
  <1>5. ASSUME 4 \notin c.status, c.status \cap {1, 2} = {}
        PROVE  Encoded(e, c.mode, c.reply, q, c.status \cup {1}, <<Hello>>)
    <2> DEFINE n == [c EXCEPT !.queued = q, !.status = c.status \cup {1}]
    <2>1. e = [ctx |-> n, out |-> <<Hello>>]
      BY <1>5 DEF tls12_ticket_auth_client_encode
    <2>0. n = [c EXCEPT !.queued = q, !.status = c.status \cup {1}]
      OBVIOUS
    <2> HIDE DEF n, q, fr
    <2>2. /\ n \in CipherCtx /\ n.mode = c.mode /\ n.reply = c.reply
          /\ n.queued = q /\ n.status = c.status \cup {1}
      BY <1>2, <1>3, <2>0, ZenonT(30) DEF CipherCtx
    <2> QED BY <2>1, <2>2 DEF Encoded
  <1>6. ASSUME 4 \notin c.status, c.status \cap {1, 2} # {}, buf # <<>>
        PROVE  Encoded(e, c.mode, c.reply, fr, c.status \cup {2}, <<>>)
    <2> DEFINE n == [c EXCEPT !.queued = fr, !.status = c.status \cup {2}]
    <2>1. e = [ctx |-> n, out |-> <<>>]
      BY <1>6 DEF tls12_ticket_auth_client_encode, Framed
    <2>0. n = [c EXCEPT !.queued = fr, !.status = c.status \cup {2}]
      OBVIOUS
    <2> HIDE DEF n, q, fr
    <2>2. /\ n \in CipherCtx /\ n.mode = c.mode /\ n.reply = c.reply
          /\ n.queued = fr /\ n.status = c.status \cup {2}
      BY <1>2, <1>3, <2>0, ZenonT(30) DEF CipherCtx
    <2> QED BY <2>1, <2>2 DEF Encoded
  <1>7. ASSUME 4 \notin c.status, c.status \cap {1, 2} # {}, buf = <<>>
        PROVE  Encoded(e, c.mode, c.reply, <<>>, c.status \cup {2, 4}, fr)
    <2> DEFINE n == [c EXCEPT !.queued = <<>>, !.status = c.status \cup {2, 4}]
    <2>1. e = [ctx |-> n, out |-> fr]
      BY <1>7 DEF tls12_ticket_auth_client_encode, Framed
    <2>0. n = [c EXCEPT !.queued = <<>>, !.status = c.status \cup {2, 4}]
      OBVIOUS
    <2> HIDE DEF n, q, fr
    <2>2. /\ n \in CipherCtx /\ n.mode = c.mode /\ n.reply = c.reply
          /\ n.queued = <<>> /\ n.status = c.status \cup {2, 4}
      BY <1>2, <1>3, <2>0, ZenonT(30) DEF CipherCtx
    <2> QED BY <2>1, <2>2 DEF Encoded
  <1> QED BY <1>4, <1>5, <1>6, <1>7

\* Short sequences.
LEMMA Short2 ==
    ASSUME NEW a \in Items, NEW b \in Items
    PROVE  <<a>> \o <<b>> = <<a, b>>
  <1> DEFINE x == <<a>> \o <<b>>
             y == <<a, b>>
  <1>1. x \in Seq(Items) /\ y \in Seq(Items) /\ Len(x) = 2 /\ Len(y) = 2
    OBVIOUS
  <1>2. x[1] = a /\ x[2] = b /\ y[1] = a /\ y[2] = b
    OBVIOUS
  <1> HIDE DEF x, y
  <1>3. \A j \in 1 .. 2 : j = 1 \/ j = 2
    OBVIOUS
  <1>4. \A j \in 1 .. 2 : x[j] = y[j]
    BY <1>2, <1>3
  <1>5. x = y
    BY <1>1, <1>4, SeqEqual
  <1> QED BY <1>5 DEF x, y

\* Likewise.
LEMMA Short3 ==
    ASSUME NEW a \in Items, NEW b \in Items, NEW c \in Items
    PROVE  <<a>> \o <<b, c>> = <<a, b, c>>
  <1> DEFINE x == <<a>> \o <<b, c>>
             y == <<a, b, c>>
  <1>1. x \in Seq(Items) /\ y \in Seq(Items) /\ Len(x) = 3 /\ Len(y) = 3
    OBVIOUS
  <1>2. x[1] = a /\ x[2] = b /\ x[3] = c
    OBVIOUS
  <1>3. y[1] = a /\ y[2] = b /\ y[3] = c
    OBVIOUS
  <1> HIDE DEF x, y
  <1>4. \A j \in 1 .. 3 : j = 1 \/ j = 2 \/ j = 3
    OBVIOUS
  <1>5. \A j \in 1 .. 3 : x[j] = y[j]
    BY <1>2, <1>3, <1>4
  <1>6. x = y
    BY <1>1, <1>5, SeqEqual
  <1> QED BY <1>6 DEF x, y

\* Some sequences.
LEMMA Joins ==
    ASSUME NEW p \in Seq(Items)
    PROVE  /\ p \o <<>> = p /\ <<>> \o p = p
           /\ <<Finish>> \o (<<Address>> \o p) = <<Finish, Address>> \o p
           /\ <<Hello>> \o (<<Finish, Address>> \o p) = <<Hello, Finish, Address>> \o p
           /\ <<Hello>> \o (<<Address>> \o p) = <<Hello, Address>> \o p
  <1>1. Hello \in Items /\ Finish \in Items /\ Address \in Items
    BY ItemsFacts
  <1>2. p \o <<>> = p /\ <<>> \o p = p
    BY ConcatEmptySeq
  <1>3. <<Finish>> \o <<Address>> = <<Finish, Address>>
        /\ <<Hello>> \o <<Finish, Address>> = <<Hello, Finish, Address>>
        /\ <<Hello>> \o <<Address>> = <<Hello, Address>>
    BY <1>1, Short2, Short3
  <1>4. /\ <<Finish>> \in Seq(Items) /\ <<Address>> \in Seq(Items) /\ <<Hello>> \in Seq(Items)
        /\ <<Finish, Address>> \in Seq(Items)
    BY <1>1
  <1>5. /\ (<<Finish>> \o <<Address>>) \o p = <<Finish>> \o (<<Address>> \o p)
        /\ (<<Hello>> \o <<Finish, Address>>) \o p = <<Hello>> \o (<<Finish, Address>> \o p)
        /\ (<<Hello>> \o <<Address>>) \o p = <<Hello>> \o (<<Address>> \o p)
    BY <1>4, Assoc
  <1> QED BY <1>2, <1>3, <1>5

\* Encryption keeps the types, the mode and what is known of the answer.
LEMMA EncryptType ==
    ASSUME NEW c \in CipherCtx, NEW buf \in Seq(Items),
           NEW e, e = tunnel_cipher_client_encrypt(c, buf)
    PROVE  /\ e.ctx \in CipherCtx /\ e.out \in Seq(Items)
           /\ e.ctx.mode = c.mode /\ e.ctx.reply = c.reply
           /\ 8 \in e.ctx.status <=> 8 \in c.status
  <1>0. c.queued \in Seq(Items) /\ <<Hello>> \in Seq(Items)
    BY ItemsFacts DEF CipherCtx
  <1>1. CASE c.mode # "ticket"
    <2>1. e = [ctx |-> c, out |-> buf]
      BY <1>1 DEF tunnel_cipher_client_encrypt
    <2> QED BY <2>1
  <1>2. CASE c.mode = "ticket"
    <2>1. e = tls12_ticket_auth_client_encode(c, buf)
      BY <1>2 DEF tunnel_cipher_client_encrypt
    <2>2. CASE 4 \in c.status
      <3>1. Encoded(e, c.mode, c.reply, c.queued, c.status, buf)
        BY <2>1, <2>2, EncodeFacts
      <3> QED BY <3>1 DEF Encoded
    <2>3. CASE 4 \notin c.status /\ c.status \cap {1, 2} = {}
      <3>1. Encoded(e, c.mode, c.reply, c.queued \o buf, c.status \cup {1}, <<Hello>>)
        BY <2>1, <2>3, EncodeFacts
      <3> QED BY <1>0, <3>1 DEF Encoded
    <2>4. CASE 4 \notin c.status /\ c.status \cap {1, 2} # {} /\ buf # <<>>
      <3>1. Encoded(e, c.mode, c.reply, Framed(c, buf), c.status \cup {2}, <<>>)
        BY <2>1, <2>4, EncodeFacts
      <3> QED BY <3>1 DEF Encoded
    <2>5. CASE 4 \notin c.status /\ c.status \cap {1, 2} # {} /\ buf = <<>>
      <3>1. Encoded(e, c.mode, c.reply, <<>>, c.status \cup {2, 4}, Framed(c, buf))
        BY <2>1, <2>5, EncodeFacts
      <3>2. Framed(c, buf) \in Seq(Items)
        BY <1>0, ItemsFacts DEF Framed
      <3> QED BY <3>1, <3>2 DEF Encoded
    <2> QED BY <2>2, <2>3, <2>4, <2>5
  <1> QED BY <1>1, <1>2

\* Encryption of data keeps the order of what was sent and of what is held back.
LEMMA EncryptUp ==
    ASSUME NEW c \in CipherCtx, NEW buf \in Seq(Items), buf # <<>>,
           NEW e, e = tunnel_cipher_client_encrypt(c, buf),
           NEW out \in Seq(Items), NEW h \in Seq(Items)
    PROVE  /\ Direct(c, out, h) => Direct(e.ctx, out \o e.out, h \o buf)
           /\ Held(c, out, h) => Held(e.ctx, out \o e.out, h \o buf)
           /\ Flushed(c, out, h) => Flushed(e.ctx, out \o e.out, h \o buf)
  <1>0. /\ Hello \in Items /\ Finish \in Items /\ Address \in Items
        /\ <<Address>> \in Seq(Items) /\ <<Finish, Address>> \in Seq(Items)
        /\ <<Finish>> \in Seq(Items) /\ <<Hello, Finish, Address>> \in Seq(Items)
    BY ItemsFacts
  <1>1. ASSUME Direct(c, out, h)
        PROVE  Direct(e.ctx, out \o e.out, h \o buf)
    <2>1. e = [ctx |-> c, out |-> buf]
      BY <1>1 DEF tunnel_cipher_client_encrypt, Direct
    <2>2. (<<Address>> \o h) \o buf = <<Address>> \o (h \o buf)
      BY <1>0, Assoc
    <2> QED BY <1>1, <2>1, <2>2 DEF Direct
  <1>2. ASSUME Held(c, out, h)
        PROVE  Held(e.ctx, out \o e.out, h \o buf)
    <2>1. c.mode = "ticket" /\ out = <<Hello>> /\ (c.status = {1} \/ c.status = {1, 2})
      BY <1>2 DEF Held
    <2>2. 4 \notin c.status /\ c.status \cap {1, 2} # {} /\ c.status \cup {2} = {1, 2}
      <3>1. CASE c.status = {1}
        <4>1. 4 \notin c.status /\ 1 \in c.status \cap {1, 2}
          BY <3>1
        <4>2. c.status \cup {2} = {1, 2}
          BY <3>1
        <4> QED BY <4>1, <4>2
      <3>2. CASE c.status = {1, 2}
        <4>1. 4 \notin c.status /\ 1 \in c.status \cap {1, 2}
          BY <3>2
        <4>2. c.status \cup {2} = {1, 2}
          BY <3>2
        <4> QED BY <4>1, <4>2
      <3> QED BY <2>1, <3>1, <3>2
    <2>3. e = tls12_ticket_auth_client_encode(c, buf)
      BY <2>1 DEF tunnel_cipher_client_encrypt
    <2>4. Encoded(e, c.mode, c.reply, Framed(c, buf), c.status \cup {2}, <<>>)
      BY <2>2, <2>3, EncodeFacts
    <2>5. out \o e.out = <<Hello>>
      BY <2>1, <2>4, Joins DEF Encoded
    <2>6. Framed(c, buf) = <<Finish, Address>> \o (h \o buf)
      <3>1. CASE 2 \in c.status
        <4>1. c.queued = <<Finish, Address>> \o h
          BY <1>2, <3>1 DEF Held
        <4>2. (<<Finish, Address>> \o h) \o buf = <<Finish, Address>> \o (h \o buf)
          BY <1>0, Assoc
        <4> QED BY <3>1, <4>1, <4>2 DEF Framed
      <3>2. CASE 2 \notin c.status
        <4>1. c.queued = <<Address>> \o h
          BY <1>2, <3>2 DEF Held
        <4>2. (<<Address>> \o h) \o buf = <<Address>> \o (h \o buf)
          BY <1>0, Assoc
        <4>3. h \o buf \in Seq(Items)
          OBVIOUS
        <4>4. <<Finish>> \o (<<Address>> \o (h \o buf)) = <<Finish, Address>> \o (h \o buf)
          BY <4>3, Joins
        <4> QED BY <3>2, <4>1, <4>2, <4>4 DEF Framed
      <3> QED BY <3>1, <3>2
    <2>7. 2 \in {1, 2}
      OBVIOUS
    <2> QED BY <2>1, <2>2, <2>4, <2>5, <2>6, <2>7 DEF Encoded, Held
  <1>3. ASSUME Flushed(c, out, h)
        PROVE  Flushed(e.ctx, out \o e.out, h \o buf)
    <2>1. c.mode = "ticket" /\ 4 \in c.status
      BY <1>3 DEF Flushed
    <2>2. e = tls12_ticket_auth_client_encode(c, buf)
      BY <2>1 DEF tunnel_cipher_client_encrypt
    <2>3. Encoded(e, c.mode, c.reply, c.queued, c.status, buf)
      BY <2>1, <2>2, EncodeFacts
    <2>4. (<<Hello, Finish, Address>> \o h) \o buf = <<Hello, Finish, Address>> \o (h \o buf)
      BY <1>0, Assoc
    <2> QED BY <1>3, <2>3, <2>4 DEF Encoded, Flushed
  <1> QED BY <1>1, <1>2, <1>3

\* The first encryption, of the address.
LEMMA EncryptFirst ==
    ASSUME NEW c \in CipherCtx, c.status = {}, c.queued = <<>>,
           NEW e, e = tunnel_cipher_client_encrypt(c, <<Address>>)
    PROVE  \/ /\ e.ctx.mode = "ticket" /\ e.ctx.status = {1}
              /\ e.ctx.queued = <<Address>> /\ e.out = <<Hello>>
           \/ /\ e.ctx.mode # "ticket" /\ e.ctx.status = {}
              /\ e.ctx.queued = <<>> /\ e.out = <<Address>>
  <1>0. <<Address>> \in Seq(Items)
    BY ItemsFacts
  <1>1. CASE c.mode # "ticket"
    <2>1. e = [ctx |-> c, out |-> <<Address>>]
      BY <1>1 DEF tunnel_cipher_client_encrypt
    <2> QED BY <1>1, <2>1
  <1>2. CASE c.mode = "ticket"
    <2>1. e = tls12_ticket_auth_client_encode(c, <<Address>>)
      BY <1>2 DEF tunnel_cipher_client_encrypt
    <2>2. 4 \notin c.status /\ c.status \cap {1, 2} = {} /\ c.status \cup {1} = {1}
      OBVIOUS
    <2>3. Encoded(e, c.mode, c.reply, c.queued \o <<Address>>, c.status \cup {1}, <<Hello>>)
      BY <1>0, <2>1, <2>2, EncodeFacts
    <2>4. c.queued \o <<Address>> = <<Address>>
      BY <1>0, Joins
    <2> QED BY <1>2, <2>2, <2>3, <2>4 DEF Encoded
  <1> QED BY <1>1, <1>2

Decoded(r, ok, fb, out, m, x, q, s) ==
    /\ r.ok = ok /\ r.has_feedback = fb /\ r.out = out
    /\ r.ctx \in CipherCtx /\ r.ctx.mode = m /\ r.ctx.reply = x
    /\ r.ctx.queued = q /\ r.ctx.status = s

\* What does not authenticate.
LEMMA DecryptBad ==
    ASSUME NEW c \in CipherCtx, NEW g, g.valid = FALSE,
           NEW r, r = tunnel_cipher_client_decrypt(c, g)
    PROVE  Decoded(r, FALSE, FALSE, <<>>, c.mode, "broken", c.queued, c.status)
  <1> DEFINE n == [c EXCEPT !.reply = "broken"]
  <1>1. r = [ok |-> FALSE, ctx |-> n, out |-> <<>>, has_feedback |-> FALSE, feedback |-> <<>>]
    BY DEF tunnel_cipher_client_decrypt
  <1>2. /\ n \in CipherCtx /\ n.mode = c.mode /\ n.reply = "broken"
        /\ n.queued = c.queued /\ n.status = c.status
    BY ZenonT(30) DEF CipherCtx
  <1> HIDE DEF n
  <1> QED BY <1>1, <1>2 DEF Decoded

\* Without the obfuscation.
LEMMA DecryptPlain ==
    ASSUME NEW c \in CipherCtx, c.mode # "ticket", NEW g, g.valid = TRUE,
           g.reply \in {"part", "all"}, NEW r, r = tunnel_cipher_client_decrypt(c, g)
    PROVE  Decoded(r, TRUE, FALSE, g.data, c.mode, g.reply, c.queued, c.status)
  <1> DEFINE x == g.reply
             n == [c EXCEPT !.reply = x]
  <1>1. r = [ok |-> TRUE, ctx |-> n, out |-> g.data, has_feedback |-> FALSE, feedback |-> <<>>]
    BY DEF tunnel_cipher_client_decrypt
  <1>2. x \in {"none", "part", "all", "broken"}
    OBVIOUS
  <1> HIDE DEF x
  <1>3. /\ n \in CipherCtx /\ n.mode = c.mode /\ n.reply = x
        /\ n.queued = c.queued /\ n.status = c.status
    BY <1>2, ZenonT(30) DEF CipherCtx
  <1> HIDE DEF n
  <1> QED BY <1>1, <1>3 DEF Decoded, x

\* With it, when its handshake is over.
LEMMA DecryptDone ==
    ASSUME NEW c \in CipherCtx, c.mode = "ticket", 8 \in c.status, NEW g, g.valid = TRUE,
           NEW r, r = tunnel_cipher_client_decrypt(c, g)
    PROVE  Decoded(r, TRUE, FALSE, g.data, c.mode, c.reply, c.queued, c.status)
  <1> DEFINE k == tls12_ticket_auth_client_decode(c, g)
  <1>1. k = [ctx |-> c, out |-> g.data, needsendback |-> FALSE]
    BY DEF tls12_ticket_auth_client_decode
  <1>2. k.ctx = c /\ k.out = g.data /\ k.needsendback = FALSE
    BY <1>1
  <1> HIDE DEF k
  <1>3. r = [ok |-> TRUE, ctx |-> k.ctx, out |-> k.out, has_feedback |-> FALSE, feedback |-> <<>>]
    BY <1>2 DEF tunnel_cipher_client_decrypt, k
  <1> QED BY <1>2, <1>3 DEF Decoded

\* With it, a part of its answer.
LEMMA DecryptPart ==
    ASSUME NEW c \in CipherCtx, c.mode = "ticket", 8 \notin c.status, NEW g, g.valid = TRUE,
           g.reply = "part", NEW r, r = tunnel_cipher_client_decrypt(c, g)
    PROVE  Decoded(r, TRUE, FALSE, IF g.raw THEN <<Junk>> ELSE <<>>,
                   c.mode, "part", c.queued, c.status)
  <1> DEFINE k == tls12_ticket_auth_client_decode(c, g)
             n == [c EXCEPT !.reply = "part"]
             w == IF g.raw THEN <<Junk>> ELSE <<>>
  <1>1. k = [ctx |-> n, out |-> w, needsendback |-> FALSE]
    BY DEF tls12_ticket_auth_client_decode
  <1>4. /\ n \in CipherCtx /\ n.mode = c.mode /\ n.reply = "part"
        /\ n.queued = c.queued /\ n.status = c.status
    BY ZenonT(30) DEF CipherCtx
  <1> HIDE DEF n, w
  <1>2. k.ctx = n /\ k.out = w /\ k.needsendback = FALSE
    BY <1>1
  <1> HIDE DEF k
  <1>3. r = [ok |-> TRUE, ctx |-> k.ctx, out |-> k.out, has_feedback |-> FALSE, feedback |-> <<>>]
    BY <1>2 DEF tunnel_cipher_client_decrypt, k
  <1>5. Decoded(r, TRUE, FALSE, w, c.mode, "part", c.queued, c.status)
    BY <1>2, <1>3, <1>4 DEF Decoded
  <1> QED BY <1>5 DEF w

\* The complete answer asks for the handshake to be sent back.
SendBack(c, g, r) ==
    /\ r.ok = TRUE /\ r.has_feedback = TRUE /\ r.out = g.data
    /\ r.ctx \in CipherCtx /\ r.ctx.mode = "ticket" /\ r.ctx.reply = "all"
    /\ 8 \in r.ctx.status /\ r.feedback \in Seq(Items)
    /\ (c.status = {1} /\ c.queued = <<Address>>) =>
          /\ r.ctx.status = {1, 2, 4, 8} /\ r.ctx.queued = <<>>
          /\ r.feedback = <<Finish, Address>>

\* With it, the rest of its answer.
LEMMA DecryptAll ==
    ASSUME NEW c \in CipherCtx, c.mode = "ticket", 8 \notin c.status, NEW g, g.valid = TRUE,
           g.reply = "all", NEW r, r = tunnel_cipher_client_decrypt(c, g)
    PROVE  SendBack(c, g, r)
  <1> DEFINE k == tls12_ticket_auth_client_decode(c, g)
             s == c.status \cup {8}
             n == [c EXCEPT !.reply = "all", !.status = s]
             e == tls12_ticket_auth_client_encode(k.ctx, <<>>)
  <1>1. k = [ctx |-> n, out |-> g.data, needsendback |-> TRUE]
    BY DEF tls12_ticket_auth_client_decode
  <1>2. s \in SUBSET {1, 2, 4, 8} /\ 8 \in s
    BY DEF CipherCtx
  <1> HIDE DEF s
  <1>3. /\ n \in CipherCtx /\ n.mode = c.mode /\ n.reply = "all"
        /\ n.queued = c.queued /\ n.status = s
    BY <1>2, ZenonT(30) DEF CipherCtx
  <1> HIDE DEF n
  <1>4. k.ctx = n /\ k.out = g.data /\ k.needsendback = TRUE
    BY <1>1
  <1> HIDE DEF k, e
  <1>5. r = [ok |-> TRUE, ctx |-> e.ctx, out |-> k.out, has_feedback |-> TRUE, feedback |-> e.out]
    BY <1>4 DEF tunnel_cipher_client_decrypt, k, e
  <1>6. <<>> \in Seq(Items)
    OBVIOUS
  <1>7. e = tunnel_cipher_client_encrypt(n, <<>>)
    BY <1>3, <1>4 DEF e, tunnel_cipher_client_encrypt
  <1>8. /\ e.ctx \in CipherCtx /\ e.out \in Seq(Items)
        /\ e.ctx.mode = n.mode /\ e.ctx.reply = n.reply
        /\ 8 \in e.ctx.status <=> 8 \in n.status
    <2> DEFINE z == <<>>
    <2>1. z \in Seq(Items) /\ e = tunnel_cipher_client_encrypt(n, z) /\ n \in CipherCtx
      BY <1>3, <1>6, <1>7
    <2> HIDE DEF z
    <2> QED BY <2>1, EncryptType
  <1>9. ASSUME c.status = {1}, c.queued = <<Address>>
        PROVE  e.ctx.status = {1, 2, 4, 8} /\ e.ctx.queued = <<>> /\ e.out = <<Finish, Address>>
    <2>1. s = {1, 8} /\ s \cup {2, 4} = {1, 2, 4, 8} /\ 4 \notin s /\ s \cap {1, 2} # {} /\ 2 \notin s
      BY <1>9 DEF s
    <2>2. e = tls12_ticket_auth_client_encode(n, <<>>)
      BY <1>4 DEF e
    <2>3. Encoded(e, n.mode, n.reply, <<>>, n.status \cup {2, 4}, Framed(n, <<>>))
      BY <1>3, <1>6, <2>1, <2>2, EncodeFacts
    <2>4. Framed(n, <<>>) = <<Finish>> \o (<<Address>> \o <<>>)
      BY <1>3, <1>9, <2>1 DEF Framed
    <2>5. <<Address>> \in Seq(Items) /\ Finish \in Items /\ Address \in Items
      BY ItemsFacts
    <2>6. Framed(n, <<>>) = <<Finish, Address>>
      BY <2>4, <2>5, Joins, Short2
    <2> QED BY <1>3, <2>1, <2>3, <2>6 DEF Encoded
  <1> QED BY <1>3, <1>4, <1>5, <1>8, <1>9, <1>2 DEF SendBack

-----------------------------------------------------------------------------
(* Steps of the handlers. *)

\* What every handler leaves.
Good(v) == LiveOK(v) \/ DeadOK(v)

\* A live tunnel in order.
LEMMA GoodLive ==
    ASSUME NEW u, NEW i, NEW o, NEW st, NEW d, Is(u, i, o, st, d), StageOK(st, i, o, d)
    PROVE  Good(u)
  BY DEF Is, LiveOK, Good

\* A live tunnel that is shut down.
LEMMA GoodShut ==
    ASSUME NEW u, NEW i, NEW o, NEW st, NEW d, Is(u, i, o, st, d),
           Quittable(d), Short(i), Short(o)
    PROVE  Good(tunnel_shutdown(u))
  BY ShutLive DEF Good

\* A socket that has no writes, or one, has few.
LEMMA ShortFacts ==
    ASSUME NEW k
    PROVE  /\ Unused(k) \/ Looking(k) \/ Dialling(k) \/ Quiet(k) \/ Reading(k) => Short(k)
           /\ Writing(k) => Short(k)
  <1>1. MaxData \in Nat
    BY MaxDataAssumption
  <1>2. ASSUME k.writes = <<>>
        PROVE  Short(k)
    BY <1>1, <1>2 DEF Short
  <1>3. Unused(k) \/ Looking(k) \/ Dialling(k) \/ Quiet(k) \/ Reading(k) => k.writes = <<>>
    BY DEF Unused, Looking, Dialling, Quiet, Reading, Sock
  <1>4. Writing(k) => Short(k)
    BY <1>1 DEF Writing, Short
  <1> QED BY <1>2, <1>3, <1>4

\* Sockets at rest.
LEMMA RestFacts ==
    ASSUME NEW k
    PROVE  Unused(k) \/ Quiet(k) => AtRest(k)
  BY DEF Unused, Quiet, Sock, AtRest

\* A reply to the application.
LEMMA SayIn ==
    ASSUME NEW u, NEW i, NEW o, NEW st, NEW d, Is(u, i, o, st, d), Quiet(i),
           NEW buf \in Seq(Items), NEW x \in tunnel_stage
    PROVE  \E k, e : /\ Is(GoTo(Write(u, "incoming", buf), x), k, o, x, e) /\ Writing(k)
                     /\ Ctx(e, d.shortcut, d.first, d.cipher, d.app, d.srv,
                            d.sent["incoming"] \o buf, d.sent["outgoing"], d.bad)
  <1> DEFINE k == socket_ctx_write(i, buf)
             e == [d EXCEPT !.sent["incoming"] = @ \o buf]
             ws == <<>>
             nw == Append(ws, buf)
             none == "none"
  <1>0. d \in ClientCtx
    BY IsOf DEF Is
  <1>1. Sock(i, "stop", "stop", FALSE, ws, TRUE, FALSE, none)
    BY DEF Quiet
  <1>2. Len(nw) = 1
    OBVIOUS
  <1>3. Ctx(d, d.shortcut, d.first, d.cipher, d.app, d.srv,
            d.sent["incoming"], d.sent["outgoing"], d.bad)
    BY <1>0, CtxOf
  <1>4. Ctx(e, d.shortcut, d.first, d.cipher, d.app, d.srv,
            d.sent["incoming"] \o buf, d.sent["outgoing"], d.bad)
    BY <1>3, CtxSayIn
  <1> HIDE DEF ws, none
  <1>5. CanWrite(i) /\ Sock(k, "stop", "busy", FALSE, nw, TRUE, FALSE, none)
    BY <1>1, SockWrite
  <1> DEFINE v == Write(u, "incoming", buf)
  <1>6. i.wrstate = "stop" /\ k \in OpenSocket /\ k.writes = nw /\ e \in ClientCtx
    BY <1>1, <1>4, <1>5 DEF Sock, Ctx
  <1>7. Writing(k)
    <2> HIDE DEF k, nw
    <2> QED BY <1>2, <1>5, <1>6 DEF Writing, none
  <1>8. k = socket_ctx_write(i, buf) /\ e = [d EXCEPT !.sent["incoming"] = @ \o buf]
    OBVIOUS
  <1> HIDE DEF k, e
  <1>9. Is(v, k, o, st, e)
    BY <1>5, <1>6, <1>8, WriteIn
  <1> HIDE DEF v
  <1>10. Is(GoTo(v, x), k, o, x, e)
    BY <1>9, GoToIs
  <1> QED BY <1>4, <1>7, <1>10 DEF v

\* A message to the server.
LEMMA SayOut ==
    ASSUME NEW u, NEW i, NEW o, NEW st, NEW d, Is(u, i, o, st, d), Quiet(o),
           NEW buf \in Seq(Items)
    PROVE  \E k, e : /\ Is(Write(u, "outgoing", buf), i, k, st, e) /\ Writing(k)
                     /\ Ctx(e, d.shortcut, d.first, d.cipher, d.app, d.srv,
                            d.sent["incoming"], d.sent["outgoing"] \o buf, d.bad)
  <1> DEFINE k == socket_ctx_write(o, buf)
             e == [d EXCEPT !.sent["outgoing"] = @ \o buf]
             ws == <<>>
             nw == Append(ws, buf)
             none == "none"
  <1>0. d \in ClientCtx
    BY IsOf DEF Is
  <1>1. Sock(o, "stop", "stop", FALSE, ws, TRUE, FALSE, none)
    BY DEF Quiet
  <1>2. Len(nw) = 1
    OBVIOUS
  <1>3. Ctx(d, d.shortcut, d.first, d.cipher, d.app, d.srv,
            d.sent["incoming"], d.sent["outgoing"], d.bad)
    BY <1>0, CtxOf
  <1>4. Ctx(e, d.shortcut, d.first, d.cipher, d.app, d.srv,
            d.sent["incoming"], d.sent["outgoing"] \o buf, d.bad)
    BY <1>3, CtxSayOut
  <1> HIDE DEF ws, none
  <1>5. CanWrite(o) /\ Sock(k, "stop", "busy", FALSE, nw, TRUE, FALSE, none)
    BY <1>1, SockWrite
  <1> DEFINE v == Write(u, "outgoing", buf)
  <1>6. o.wrstate = "stop" /\ k \in OpenSocket /\ k.writes = nw /\ e \in ClientCtx
    BY <1>1, <1>4, <1>5 DEF Sock, Ctx
  <1>7. Writing(k)
    <2> HIDE DEF k, nw
    <2> QED BY <1>2, <1>5, <1>6 DEF Writing, none
  <1>8. k = socket_ctx_write(o, buf) /\ e = [d EXCEPT !.sent["outgoing"] = @ \o buf]
    OBVIOUS
  <1> HIDE DEF k, e
  <1>9. Is(v, i, k, st, e)
    BY <1>5, <1>6, <1>8, WriteOut
  <1> QED BY <1>4, <1>7, <1>9 DEF v

\* A read from the application.
LEMMA AskIn ==
    ASSUME NEW u, NEW i, NEW o, NEW st, NEW d, Is(u, i, o, st, d), Quiet(i),
           NEW x \in tunnel_stage
    PROVE  \E k : Is(GoTo(Read(u, "incoming", TRUE), x), k, o, x, d) /\ Reading(k)
  <1> DEFINE k == socket_ctx_read(i, TRUE)
             ws == <<>>
             none == "none"
             stop == "stop"
             tm == TRUE
             v == Read(u, "incoming", tm)
  <1>0. tm \in BOOLEAN
    OBVIOUS
  <1>1. Sock(i, stop, stop, FALSE, ws, TRUE, FALSE, none)
    BY DEF Quiet
  <1> HIDE DEF ws, none, tm
  <1>2. CanRead(i) /\ Sock(k, "busy", stop, TRUE, ws, TRUE, FALSE, none)
    BY <1>0, <1>1, SockRead DEF tm
  <1>3. Reading(k)
    BY <1>2 DEF Reading, ws, none
  <1>4. k \in OpenSocket /\ k = socket_ctx_read(i, tm)
    BY <1>2 DEF Sock, tm
  <1> HIDE DEF k
  <1>5. Is(v, k, o, st, d)
    BY <1>0, <1>2, <1>4, ReadIn
  <1> HIDE DEF v
  <1>6. Is(GoTo(v, x), k, o, x, d)
    BY <1>5, GoToIs
  <1> QED BY <1>3, <1>6 DEF v, tm

\* A read from the server.
LEMMA AskOut ==
    ASSUME NEW u, NEW i, NEW o, NEW st, NEW d, Is(u, i, o, st, d), Quiet(o),
           NEW x \in tunnel_stage
    PROVE  \E k : Is(GoTo(Read(u, "outgoing", TRUE), x), i, k, x, d) /\ Reading(k)
  <1> DEFINE k == socket_ctx_read(o, TRUE)
             ws == <<>>
             none == "none"
             stop == "stop"
             tm == TRUE
             v == Read(u, "outgoing", tm)
  <1>0. tm \in BOOLEAN
    OBVIOUS
  <1>1. Sock(o, stop, stop, FALSE, ws, TRUE, FALSE, none)
    BY DEF Quiet
  <1> HIDE DEF ws, none, tm
  <1>2. CanRead(o) /\ Sock(k, "busy", stop, TRUE, ws, TRUE, FALSE, none)
    BY <1>0, <1>1, SockRead DEF tm
  <1>3. Reading(k)
    BY <1>2 DEF Reading, ws, none
  <1>4. k \in OpenSocket /\ k = socket_ctx_read(o, tm)
    BY <1>2 DEF Sock, tm
  <1> HIDE DEF k
  <1>5. Is(v, i, k, st, d)
    BY <1>0, <1>2, <1>4, ReadOut
  <1> HIDE DEF v
  <1>6. Is(GoTo(v, x), i, k, x, d)
    BY <1>5, GoToIs
  <1> QED BY <1>3, <1>6 DEF v, tm

-----------------------------------------------------------------------------
(* The handlers of the SOCKS handshake. *)

\* Until the address is encrypted nothing was written to the server.
LEMMA EarlyQuit ==
    ASSUME NEW d, NEW n, Early(d, n)
    PROVE  Quittable(d)
  BY EarlyWire DEF Early, Quittable

\* A reply to the application does not change that.
LEMMA EarlySay ==
    ASSUME NEW d, NEW n, Early(d, n), NEW e, NEW sc, NEW si,
           Ctx(e, sc, d.first, d.cipher, d.app, d.srv, si, d.sent["outgoing"], d.bad)
    PROVE  Early(e, n)
  BY DEF Early, Ctx

\* The reply kinds are items.
LEMMA ReplySeq ==
    ASSUME NEW w \in {"method", "no_method", "success", "assoc", "not_allowed"}
    PROVE  << Reply(w) >> \in Seq(Items)
  BY ItemsFacts

\* do_socks5_reply_success: the application is told that it is connected.
LEMMA ReplySuccess ==
    ASSUME NEW u, NEW i, NEW o, NEW st, NEW d, Is(u, i, o, st, d), Quiet(i), Unused(o),
           Early(d, d.app), d.sent["incoming"] = Greeted
    PROVE  Good(do_socks5_reply_success(u))
  <1> DEFINE buf == << Reply("success") >>
             x == "s5_response_done"
             v == GoTo(Write(u, "incoming", buf), x)
  <1>1. do_socks5_reply_success(u) = v
    BY IdleBoth, RestFacts DEF do_socks5_reply_success
  <1>2. buf \in Seq(Items) /\ x \in tunnel_stage
    BY ReplySeq DEF tunnel_stage
  <1>3. Greeted \o buf = Answered
    BY ItemsFacts, Short2 DEF Greeted, Answered
  <1> HIDE DEF buf, x
  <1>4. PICK k, e : /\ Is(v, k, o, x, e) /\ Writing(k)
                    /\ Ctx(e, d.shortcut, d.first, d.cipher, d.app, d.srv,
                           d.sent["incoming"] \o buf, d.sent["outgoing"], d.bad)
    BY <1>2, SayIn
  <1> HIDE DEF v
  <1>5. e.sent["incoming"] = Answered /\ e.app = d.app
    BY <1>3, <1>4 DEF Ctx
  <1>6. Early(e, d.app)
    BY <1>4, EarlySay
  <1>7. AtResponse(x, k, o, e)
    BY <1>4, <1>5, <1>6 DEF AtResponse, x
  <1> QED BY <1>1, <1>4, <1>7, GoodLive DEF StageOK

\* Any reply after which the tunnel is closed.
LEMMA ReplyKill ==
    ASSUME NEW u, NEW i, NEW o, NEW st, NEW d, Is(u, i, o, st, d), Quiet(i), Unused(o),
           Early(d, d.app), NEW w \in {"no_method", "not_allowed"}
    PROVE  Good(GoTo(Write(u, "incoming", << Reply(w) >>), "kill"))
  <1> DEFINE buf == << Reply(w) >>
             x == "kill"
             v == GoTo(Write(u, "incoming", buf), x)
  <1>2. buf \in Seq(Items) /\ x \in tunnel_stage
    BY ReplySeq DEF tunnel_stage
  <1> HIDE DEF buf, x
  <1>4. PICK k, e : /\ Is(v, k, o, x, e) /\ Writing(k)
                    /\ Ctx(e, d.shortcut, d.first, d.cipher, d.app, d.srv,
                           d.sent["incoming"] \o buf, d.sent["outgoing"], d.bad)
    BY <1>2, SayIn
  <1> HIDE DEF v
  <1>5. e.app = d.app
    BY <1>4 DEF Ctx
  <1>6. Early(e, e.app)
    BY <1>4, <1>5, EarlySay
  <1>7. AtKill(x, k, o, e)
    BY <1>4, <1>6 DEF AtKill, x
  <1>8. Good(v)
    BY <1>4, <1>7, GoodLive DEF StageOK
  <1> QED BY <1>8 DEF v, x, buf

\* do_s5_handshake accepts the greeting.
LEMMA AcceptGreeting ==
    ASSUME NEW u, NEW i, NEW o, NEW st, NEW d, Is(u, i, o, st, d), Quiet(i), Unused(o),
           Early(d, d.app), d.sent["incoming"] = <<>>, ~d.shortcut => d.app = 0
    PROVE  Good(GoTo(Write(u, "incoming", << Reply("method") >>), "handshake_replied"))
  <1> DEFINE buf == << Reply("method") >>
             x == "handshake_replied"
             v == GoTo(Write(u, "incoming", buf), x)
  <1>2. buf \in Seq(Items) /\ x \in tunnel_stage
    BY ReplySeq DEF tunnel_stage
  <1>3. <<>> \o buf = Greeted
    BY <1>2, Joins DEF Greeted
  <1> HIDE DEF buf, x
  <1>4. PICK k, e : /\ Is(v, k, o, x, e) /\ Writing(k)
                    /\ Ctx(e, d.shortcut, d.first, d.cipher, d.app, d.srv,
                           d.sent["incoming"] \o buf, d.sent["outgoing"], d.bad)
    BY <1>2, SayIn
  <1> HIDE DEF v
  <1>5. e.sent["incoming"] = Greeted /\ e.app = d.app /\ e.shortcut = d.shortcut
    BY <1>3, <1>4 DEF Ctx
  <1>6. Early(e, e.app)
    BY <1>4, <1>5, EarlySay
  <1>7. AtReplied(x, k, o, e)
    BY <1>4, <1>5, <1>6 DEF AtReplied, x
  <1>8. Good(v)
    BY <1>4, <1>7, GoodLive DEF StageOK
  <1> QED BY <1>8 DEF v, x, buf

\* do_s5_handshake.
LEMMA S5Handshake ==
    ASSUME NEW u, NEW i, NEW o, NEW st, NEW d, Is(u, i, o, st, d), Quiet(i), Unused(o),
           Early(d, 0), d.sent["incoming"] = <<>>, ~d.shortcut,
           NEW v \in do_s5_handshake(u)
    PROVE  Good(v)
  <1> DEFINE acc(w) == GoTo(Write(w, "incoming", << Reply("method") >>), "handshake_replied")
             greet(f) == Greet(u, f, Len(f))
  <1>0. d.app = 0 /\ Early(d, d.app)
    BY DEF Early
  <1>1. Idle(u, {"incoming"}) = u
    BY IdleIn, RestFacts
  <1>2. \/ v = tunnel_shutdown(u)
        \/ v = GoTo(Write(u, "incoming", << Reply("no_method") >>), "kill")
        \/ v = acc(u)
        \/ \E f \in {<<>>, <<AppData(1)>>} : v = acc(greet(f))
    BY <1>1 DEF do_s5_handshake, Greet
  <1>3. CASE v = tunnel_shutdown(u)
    BY <1>0, <1>3, GoodShut, EarlyQuit, ShortFacts
  <1>4. CASE v = GoTo(Write(u, "incoming", << Reply("no_method") >>), "kill")
    BY <1>0, <1>4, ReplyKill
  <1>5. CASE v = acc(u)
    BY <1>0, <1>5, AcceptGreeting
  <1>6. ASSUME NEW f \in {<<>>, <<AppData(1)>>}, v = acc(greet(f))
        PROVE  Good(v)
    <2> DEFINE n == Len(f)
               w == Greet(u, f, n)
               e == GreetIs(d, f, n)
    <2>1. /\ f \in Seq(Items) /\ n \in 0 .. MaxData
          /\ (n = 0 /\ f = <<>>) \/ (n = 1 /\ f = <<AppData(1)>>)
      <3>1. 0 \in 0 .. MaxData /\ 1 \in 0 .. MaxData /\ AppData(1) \in Items
        BY ItemsFacts, MaxDataAssumption
      <3>2. CASE f = <<>>
        BY <3>1, <3>2
      <3>3. CASE f = <<AppData(1)>>
        BY <3>1, <3>3
      <3> QED BY <3>2, <3>3
    <2>2. Ctx(d, d.shortcut, d.first, d.cipher, d.app, d.srv,
              d.sent["incoming"], d.sent["outgoing"], d.bad)
      BY CtxOf DEF Early
    <2>3. v = acc(w)
      BY <1>6
    <2> HIDE DEF n
    <2>4. Ctx(e, TRUE, f, d.cipher, n, d.srv, d.sent["incoming"], d.sent["outgoing"], d.bad)
      BY <2>1, <2>2, CtxGreet DEF GreetIs
    <2>5. e \in ClientCtx
      BY <2>4 DEF Ctx
    <2>6. Is(w, i, o, st, e)
      BY <2>5, SetGreet
    <2> HIDE DEF e, w
    <2>7. Early(e, e.app) /\ e.sent["incoming"] = <<>> /\ e.shortcut
      BY <2>1, <2>4 DEF Early, Ctx
    <2> QED BY <2>3, <2>6, <2>7, AcceptGreeting
  <1> HIDE DEF acc, greet
  <1> QED BY <1>2, <1>3, <1>4, <1>5, <1>6

\* do_wait_client_app_s5_request.
LEMMA WaitRequest ==
    ASSUME NEW u, NEW i, NEW o, NEW st, NEW d, Is(u, i, o, st, d), Quiet(i), Unused(o),
           Early(d, 0), d.sent["incoming"] = Greeted
    PROVE  Good(do_wait_client_app_s5_request(u))
  <1> DEFINE x == "s5_request_from_client_app"
             v == GoTo(Read(u, "incoming", TRUE), x)
  <1>1. do_wait_client_app_s5_request(u) = v
    BY IdleIn, RestFacts DEF do_wait_client_app_s5_request
  <1>2. x \in tunnel_stage
    BY DEF tunnel_stage
  <1> HIDE DEF x
  <1>3. PICK k : Is(v, k, o, x, d) /\ Reading(k)
    BY <1>2, AskIn
  <1> HIDE DEF v
  <1>4. AtRequest(x, k, o, d)
    BY <1>3 DEF AtRequest, x
  <1> QED BY <1>1, <1>3, <1>4, GoodLive DEF StageOK

\* do_parse_s5_request_from_client_app.
LEMMA ParseRequest ==
    ASSUME NEW u, NEW i, NEW o, NEW st, NEW d, Is(u, i, o, st, d), Quiet(i), Unused(o),
           Early(d, 0), d.sent["incoming"] = Greeted,
           NEW v \in do_parse_s5_request_from_client_app(u)
    PROVE  Good(v)
  <1> DEFINE buf == << Reply("assoc") >>
             x == "s5_udp_accoc"
             w == GoTo(Write(u, "incoming", buf), x)
  <1>0. d.app = 0 /\ Early(d, d.app)
    BY DEF Early
  <1>1. Idle(u, Side) = u
    BY IdleBoth, RestFacts
  <1>2. v = tunnel_shutdown(u) \/ v = w \/ v = do_socks5_reply_success(u)
    BY <1>1 DEF do_parse_s5_request_from_client_app
  <1>3. buf \in Seq(Items) /\ x \in tunnel_stage
    BY ReplySeq DEF tunnel_stage
  <1> HIDE DEF buf, x
  <1>4. CASE v = w
    <2>1. PICK k, e : /\ Is(w, k, o, x, e) /\ Writing(k)
                      /\ Ctx(e, d.shortcut, d.first, d.cipher, d.app, d.srv,
                             d.sent["incoming"] \o buf, d.sent["outgoing"], d.bad)
      BY <1>3, SayIn
    <2>2. Early(e, e.app)
      BY <1>0, <2>1, EarlySay DEF Ctx
    <2> HIDE DEF w
    <2>3. AtAssoc(x, k, o, e)
      BY <2>1, <2>2 DEF AtAssoc, x
    <2> QED BY <1>4, <2>1, <2>3, GoodLive DEF StageOK
  <1>5. CASE v = tunnel_shutdown(u)
    BY <1>0, <1>5, GoodShut, EarlyQuit, ShortFacts
  <1>6. CASE v = do_socks5_reply_success(u)
    BY <1>0, <1>6, ReplySuccess
  <1> QED BY <1>2, <1>4, <1>5, <1>6

\* do_connect_ssr_server.
LEMMA ConnectServer ==
    ASSUME NEW u, NEW i, NEW o, NEW st, NEW d, Is(u, i, o, st, d), Quiet(i), Unused(o),
           Early(d, 1), d.sent["incoming"] = Answered,
           NEW v \in do_connect_ssr_server(u)
    PROVE  Good(v)
  <1> DEFINE x == "connect_ssr_server_done"
             a == Connect(u, "outgoing")
             k == socket_ctx_connect(o)
  <1>0. d.app = 1 /\ Early(d, d.app)
    BY DEF Early
  <1>1. Idle(u, Side) = u
    BY IdleBoth, RestFacts
  <1>2. \/ v = GoTo(Write(u, "incoming", << Reply("not_allowed") >>), "kill")
        \/ v = tunnel_shutdown(u) \/ v = GoTo(a, x)
    BY <1>1 DEF do_connect_ssr_server
  <1>3. CASE v = GoTo(Write(u, "incoming", << Reply("not_allowed") >>), "kill")
    BY <1>0, <1>3, ReplyKill
  <1>4. CASE v = tunnel_shutdown(u)
    BY <1>0, <1>4, GoodShut, EarlyQuit, ShortFacts
  <1>5. CASE v = GoTo(a, x)
    <2>1. CanConnect(o) /\ Dialling(k) /\ k = socket_ctx_connect(o)
      BY SockConnect
    <2>2. k \in OpenSocket
      BY <2>1 DEF Dialling, Sock
    <2> HIDE DEF k
    <2>3. Is(a, i, k, st, d)
      BY <2>1, <2>2, ConnectOut
    <2>4. x \in tunnel_stage
      BY DEF tunnel_stage
    <2> HIDE DEF a, x
    <2>5. Is(v, i, k, x, d)
      BY <1>5, <2>3, <2>4, GoToIs
    <2>6. AtConnect(x, i, k, d)
      BY <2>1 DEF AtConnect, x
    <2> QED BY <2>5, <2>6, GoodLive DEF StageOK
  <1> QED BY <1>2, <1>3, <1>4, <1>5

\* do_common_connet_remote_server.
LEMMA ConnectRemote ==
    ASSUME NEW u, NEW i, NEW o, NEW st, NEW d, Is(u, i, o, st, d), Quiet(i), Unused(o),
           Early(d, 1), d.sent["incoming"] = Answered,
           NEW v \in do_common_connet_remote_server(u)
    PROVE  Good(v)
  <1> DEFINE x == "resolve_ssr_server_host_done"
             a == Getaddrinfo(u, "outgoing")
             k == socket_ctx_getaddrinfo(o)
  <1>1. v = GoTo(a, x) \/ v \in do_connect_ssr_server(u)
    BY DEF do_common_connet_remote_server
  <1>2. CASE v \in do_connect_ssr_server(u)
    BY <1>2, ConnectServer
  <1>3. CASE v = GoTo(a, x)
    <2>1. CanGetaddrinfo(o) /\ Looking(k) /\ k = socket_ctx_getaddrinfo(o)
      BY SockLookup
    <2>2. k \in OpenSocket
      BY <2>1 DEF Looking, Sock
    <2> HIDE DEF k
    <2>3. Is(a, i, k, st, d)
      BY <2>1, <2>2, LookupOut
    <2>4. x \in tunnel_stage
      BY DEF tunnel_stage
    <2> HIDE DEF a, x
    <2>5. Is(v, i, k, x, d)
      BY <1>3, <2>3, <2>4, GoToIs
    <2>6. AtResolve(x, i, k, d)
      BY <2>1 DEF AtResolve, x
    <2> QED BY <2>5, <2>6, GoodLive DEF StageOK
  <1> QED BY <1>1, <1>2, <1>3

\* do_resolve_ssr_server_host_aftercare.
LEMMA ResolveAftercare ==
    ASSUME NEW u, NEW i, NEW o, NEW st, NEW d, Is(u, i, o, st, d), Quiet(i), Unused(o),
           Early(d, 1), d.sent["incoming"] = Answered,
           NEW v \in do_resolve_ssr_server_host_aftercare(u)
    PROVE  Good(v)
  <1>1. Idle(u, Side) = u
    BY IdleBoth, RestFacts
  <1> QED BY <1>1, ConnectServer DEF do_resolve_ssr_server_host_aftercare

-----------------------------------------------------------------------------
(* The handlers of the handshake with the server. *)

\* do_ssr_send_auth_package_to_server.
LEMMA SendAuth ==
    ASSUME NEW u, NEW i, NEW o, NEW st, NEW d, Is(u, i, o, st, d), Quiet(i), Quiet(o),
           Early(d, 1), d.sent["incoming"] = Answered,
           NEW v \in do_ssr_send_auth_package_to_server(u)
    PROVE  Good(v)
  <1> DEFINE c == d.cipher
             e == tunnel_cipher_client_encrypt(c, <<Address>>)
             a == CipherTo(u, e.ctx)
             n == CipherIs(d, e.ctx)
             x == "ssr_auth_sent"
             w == Write(a, "outgoing", e.out)
  <1>0. d \in ClientCtx /\ c \in CipherCtx /\ x \in tunnel_stage
    BY CtxOf DEF Early, tunnel_stage
  <1>1. Idle(u, Side) = u /\ u.data = d
    BY IdleBoth, RestFacts DEF Is
  <1>2. v = tunnel_shutdown(u) \/ v = GoTo(w, x)
    BY <1>1 DEF do_ssr_send_auth_package_to_server, CipherTo
  <1>3. CASE v = tunnel_shutdown(u)
    BY <1>3, GoodShut, EarlyQuit, ShortFacts
  <1>4. CASE v = GoTo(w, x)
    <2>1. <<Address>> \in Seq(Items)
      BY ItemsFacts
    <2>2. /\ e.ctx \in CipherCtx /\ e.out \in Seq(Items)
          /\ e.ctx.mode = c.mode /\ e.ctx.reply = c.reply
      BY <1>0, <2>1, EncryptType
    <2>3. \/ /\ e.ctx.mode = "ticket" /\ e.ctx.status = {1}
             /\ e.ctx.queued = <<Address>> /\ e.out = <<Hello>>
          \/ /\ e.ctx.mode # "ticket" /\ e.ctx.status = {}
             /\ e.ctx.queued = <<>> /\ e.out = <<Address>>
      BY <1>0, EncryptFirst DEF Early
    <2> HIDE DEF e, w
    <2>4. Ctx(n, d.shortcut, d.first, e.ctx, d.app, d.srv,
              d.sent["incoming"], d.sent["outgoing"], d.bad)
      BY <1>0, <2>2, CtxOf, CtxCipher DEF CipherIs
    <2>5. n \in ClientCtx
      BY <2>4 DEF Ctx
    <2>6. Is(a, i, o, st, n)
      BY <2>5, SetCipher
    <2> HIDE DEF a, n
    <2>7. PICK k, m : /\ Is(w, i, k, st, m) /\ Writing(k)
                      /\ Ctx(m, n.shortcut, n.first, n.cipher, n.app, n.srv,
                             n.sent["incoming"], n.sent["outgoing"] \o e.out, n.bad)
      BY <2>2, <2>6, SayOut DEF w
    <2>8. Is(v, i, k, x, m)
      BY <1>0, <1>4, <2>7, GoToIs
    <2>9. m \in ClientCtx /\ m.first = d.first /\ m.cipher = e.ctx /\ m.app = d.app /\ m.srv = d.srv
          /\ m.sent["incoming"] = d.sent["incoming"] /\ m.bad = d.bad
          /\ m.sent["outgoing"] = <<>> \o e.out
      BY <2>4, <2>7 DEF Ctx, Early
    <2>10. m.sent["outgoing"] = e.out
      BY <2>2, <2>9, Joins
    <2>11. Opened(m)
      <3>1. Packed(m) /\ m.srv = 0 /\ m.bad = {}
        BY <2>9 DEF Packed, Early
      <3>2. m.cipher.reply = (IF m.cipher.mode = "plain" THEN "all" ELSE "none")
        BY <2>2, <2>9 DEF Early
      <3> QED BY <2>3, <2>9, <2>10, <3>1, <3>2 DEF Opened
    <2>12. AtAuth(x, i, k, m)
      BY <2>7, <2>11 DEF AtAuth
    <2> QED BY <2>8, <2>12, GoodLive DEF StageOK
  <1> QED BY <1>2, <1>3, <1>4

\* client_ctx d stands in the handshake of the obfuscation where another one does.
LEMMA UpSame ==
    ASSUME NEW d, NEW e, NEW h, Up(d, h), e.cipher = d.cipher,
           e.sent["outgoing"] = d.sent["outgoing"]
    PROVE  Up(e, h)
  BY DEF Up

\* What is held back while the answer is awaited.
LEMMA OpenedUp ==
    ASSUME NEW d, Opened(d), NEW e, e.cipher.mode = d.cipher.mode,
           e.cipher.status = d.cipher.status, e.cipher.queued = d.cipher.queued,
           e.sent["outgoing"] = d.sent["outgoing"]
    PROVE  Up(e, <<>>)
  <1>0. <<Address>> \in Seq(Items) /\ <<Address>> \o <<>> = <<Address>>
    BY ItemsFacts, Joins
  <1>1. CASE d.cipher.mode = "ticket"
    <2>1. e.cipher.status = {1} /\ 2 \notin e.cipher.status
      BY <1>1 DEF Opened
    <2>2. Held(e.cipher, e.sent["outgoing"], <<>>)
      BY <1>0, <1>1, <2>1 DEF Opened, Held
    <2> QED BY <2>2 DEF Up
  <1>2. CASE d.cipher.mode # "ticket"
    <2>1. Direct(e.cipher, e.sent["outgoing"], <<>>)
      BY <1>0, <1>2 DEF Opened, Direct
    <2> QED BY <2>1 DEF Up
  <1> QED BY <1>1, <1>2

\* Such a tunnel can be shut down.
LEMMA UpQuit ==
    ASSUME NEW d \in ClientCtx, NEW k \in Nat, k <= d.app,
           "late_feedback" \notin d.bad => Up(d, Apps(k)),
           d.bad \subseteq {"decode", "feedback_data", "late_feedback"}
    PROVE  Quittable(d)
  <1>1. d.bad \cap {"rdstate", "wrstate", "idle"} = {}
    OBVIOUS
  <1>2. CASE "late_feedback" \in d.bad
    BY <1>1, <1>2 DEF WireOK, Quittable
  <1>3. CASE "late_feedback" \notin d.bad
    BY <1>1, <1>3, UpWire DEF Quittable
  <1> QED BY <1>2, <1>3

\* While the handshake with the server is in progress, likewise.
LEMMA OpenQuit ==
    ASSUME NEW d, Packed(d), Up(d, <<>>),
           d.bad \subseteq {"decode", "feedback_data", "late_feedback"}
    PROVE  Quittable(d)
  <1>1. d \in ClientCtx /\ d.app = 1
    BY DEF Packed
  <1> DEFINE z == 0
  <1>2. z \in Nat /\ z <= d.app
    BY <1>1
  <1>3. Up(d, Apps(z))
    BY AppsStep
  <1> HIDE DEF z
  <1> QED BY <1>1, <1>2, <1>3, UpQuit

\* The writes of the launch and its reads: both sockets are in use from now on.
LEMMA LaunchSockets ==
    ASSUME NEW u, NEW i, NEW o, NEW st, NEW d, Is(u, i, o, st, d), Quiet(i), Writing(o),
           NEW w, w = GoTo(Read(Read(u, "incoming", FALSE), "outgoing", TRUE), "streaming")
    PROVE  \E j, k : /\ Is(w, j, k, "streaming", d) /\ Flow(j) /\ Flow(k)
                     /\ j.writes = <<>> /\ Len(k.writes) = 1
  <1> DEFINE no == FALSE
             tm == TRUE
             ws == <<>>
             none == "none"
             stop == "stop"
             busy == "busy"
             str == "streaming"
             j == socket_ctx_read(i, no)
             k == socket_ctx_read(o, tm)
             a == Read(u, "incoming", no)
             b == Read(a, "outgoing", tm)
  <1>0. no \in BOOLEAN /\ tm \in BOOLEAN /\ str \in tunnel_stage
    BY DEF tunnel_stage
  <1>1. /\ Sock(i, "stop", stop, FALSE, ws, TRUE, FALSE, none)
        /\ Sock(o, "stop", busy, FALSE, o.writes, TRUE, FALSE, none) /\ Len(o.writes) = 1
    BY DEF Quiet, Writing
  <1> HIDE DEF no, tm, ws, none, stop, busy, str
  <1>2. CanRead(i) /\ Sock(j, "busy", stop, TRUE, ws, TRUE, FALSE, none)
    BY <1>0, <1>1, SockRead
  <1>3. CanRead(o) /\ Sock(k, "busy", busy, TRUE, o.writes, TRUE, FALSE, none)
    BY <1>0, <1>1, SockRead
  <1>4. j = socket_ctx_read(i, no) /\ k = socket_ctx_read(o, tm) /\ j \in OpenSocket /\ k \in OpenSocket
    BY <1>2, <1>3 DEF Sock
  <1> HIDE DEF j, k
  <1>5. Is(a, j, o, st, d)
    BY <1>0, <1>2, <1>4, ReadIn
  <1> HIDE DEF a
  <1>6. Is(b, j, k, st, d)
    BY <1>0, <1>3, <1>4, <1>5, ReadOut
  <1> HIDE DEF b
  <1>7. Is(GoTo(b, str), j, k, str, d)
    BY <1>0, <1>6, GoToIs
  <1>8. w = GoTo(b, str)
    BY DEF a, b, no, tm, str
  <1>9. Flow(j) /\ j.writes = <<>>
    BY <1>2 DEF Flow, Sock, stop, ws, none
  <1>10. Flow(k) /\ Len(k.writes) = 1
    BY <1>1, <1>3 DEF Flow, Sock, busy, none
  <1>11. Is(w, j, k, "streaming", d)
    BY <1>7, <1>8 DEF str
  <1> QED BY <1>9, <1>10, <1>11

\* Encryption of data, in terms of client_ctx.
LEMMA UpEncrypt ==
    ASSUME NEW d \in ClientCtx, NEW h \in Seq(Items), NEW buf \in Seq(Items), buf # <<>>,
           Up(d, h), NEW e, e = tunnel_cipher_client_encrypt(d.cipher, buf), NEW m,
           m.cipher = e.ctx, m.sent["outgoing"] = d.sent["outgoing"] \o e.out
    PROVE  Up(m, h \o buf)
  <1>1. d.cipher \in CipherCtx /\ d.sent["outgoing"] \in Seq(Items)
    BY CtxOf
  <1> DEFINE c == d.cipher
             out == d.sent["outgoing"]
  <1>2. /\ Direct(c, out, h) => Direct(e.ctx, out \o e.out, h \o buf)
        /\ Held(c, out, h) => Held(e.ctx, out \o e.out, h \o buf)
        /\ Flushed(c, out, h) => Flushed(e.ctx, out \o e.out, h \o buf)
    <2> HIDE DEF c, out
    <2> QED BY <1>1, EncryptUp DEF c, out
  <1> QED BY <1>2 DEF Up

\* do_launch_streaming.
LEMMA LaunchStreaming ==
    ASSUME NEW u, NEW i, NEW o, NEW st, NEW d, Is(u, i, o, st, d), Quiet(i), Quiet(o),
           Judged(d), NEW v \in do_launch_streaming(u)
    PROVE  Good(v)
  <1> DEFINE z == <<>>
             buf == <<AppData(1)>>
             a == FirstTo(u, z)
             n == FirstIs(d, z)
             e == tunnel_cipher_client_encrypt(d.cipher, buf)
             b == CipherTo(a, e.ctx)
             p == CipherIs(n, e.ctx)
             w == Write(b, "outgoing", e.out)
             y == GoTo(Read(Read(w, "incoming", FALSE), "outgoing", TRUE), "streaming")
  <1>0. d \in ClientCtx /\ d.first = buf /\ d.app = 1 /\ d.sent["incoming"] = Answered
    BY DEF Judged, Packed
  <1>1. z \in Seq(Items) /\ buf \in Seq(Items) /\ buf # <<>>
    BY ItemsFacts, MaxDataAssumption
  <1>2. Idle(u, Side) = u /\ u.data = d
    BY IdleBoth, RestFacts DEF Is
  <1> HIDE DEF buf
  <1>3. a.data.cipher = d.cipher
    BY <1>2 DEF FirstTo, Is, LiveTunnel, ClientCtx
  <1>4. v = tunnel_shutdown(a) \/ v = y
    BY <1>0, <1>2, <1>3 DEF do_launch_streaming, FirstTo, CipherTo
  <1> HIDE DEF z
  <1>5. Ctx(n, d.shortcut, z, d.cipher, d.app, d.srv,
            d.sent["incoming"], d.sent["outgoing"], d.bad)
    BY <1>0, <1>1, CtxOf, CtxFirst DEF FirstIs
  <1>6. n \in ClientCtx
    BY <1>5 DEF Ctx
  <1>7. Is(a, i, o, st, n)
    BY <1>6, SetFirst
  <1> HIDE DEF a, n
  <1>8. CASE v = tunnel_shutdown(a)
    <2> DEFINE k == 0
    <2>1. k \in Nat /\ k <= n.app
      BY <1>0, <1>5 DEF Ctx
    <2>2. Up(n, Apps(k))
      BY <1>5, UpSame, AppsStep DEF Ctx, Judged
    <2>3. n.bad \subseteq {"decode", "feedback_data", "late_feedback"}
      BY <1>5 DEF Ctx, Judged, Verdict
    <2> HIDE DEF k
    <2>4. Quittable(n)
      BY <1>6, <2>1, <2>2, <2>3, UpQuit
    <2> QED BY <1>7, <1>8, <2>4, GoodShut, ShortFacts
  <1>9. CASE v = y
    <2>0. d.cipher \in CipherCtx
      BY <1>0, CtxOf
    <2>1. /\ e.ctx \in CipherCtx /\ e.out \in Seq(Items)
          /\ e.ctx.mode = d.cipher.mode /\ e.ctx.reply = d.cipher.reply
          /\ 8 \in e.ctx.status <=> 8 \in d.cipher.status
      BY <1>1, <2>0, EncryptType
    <2>2. Ctx(p, d.shortcut, z, e.ctx, d.app, d.srv, d.sent["incoming"], d.sent["outgoing"], d.bad)
      BY <1>5, <2>1, CtxCipher DEF CipherIs
    <2>3. p \in ClientCtx
      BY <2>2 DEF Ctx
    <2>4. e = tunnel_cipher_client_encrypt(d.cipher, buf)
      OBVIOUS
    <2> HIDE DEF e
    <2>5. Is(b, i, o, st, p)
      BY <1>7, <2>3, SetCipher
    <2> HIDE DEF b, p
    <2>6. PICK k, m : /\ Is(w, i, k, st, m) /\ Writing(k)
                      /\ Ctx(m, p.shortcut, p.first, p.cipher, p.app, p.srv,
                             p.sent["incoming"], p.sent["outgoing"] \o e.out, p.bad)
      BY <2>1, <2>5, SayOut
    <2> HIDE DEF w
    <2>7. PICK j, l : /\ Is(y, j, l, "streaming", m) /\ Flow(j) /\ Flow(l)
                      /\ j.writes = <<>> /\ Len(l.writes) = 1
      <3> DEFINE x == y
      <3>1. x = GoTo(Read(Read(w, "incoming", FALSE), "outgoing", TRUE), "streaming")
        OBVIOUS
      <3> HIDE DEF x
      <3>2. \E j, l : /\ Is(x, j, l, "streaming", m) /\ Flow(j) /\ Flow(l)
                      /\ j.writes = <<>> /\ Len(l.writes) = 1
        BY <2>6, <3>1, LaunchSockets
      <3> QED BY <3>2 DEF x
    <2> HIDE DEF y
    <2>8. /\ m \in ClientCtx /\ m.first = <<>> /\ m.cipher = e.ctx /\ m.app = 1 /\ m.srv = d.srv
          /\ m.sent["incoming"] = Answered /\ m.bad = d.bad
          /\ m.sent["outgoing"] = d.sent["outgoing"] \o e.out
      BY <1>0, <2>2, <2>6 DEF Ctx, z
    <2>9. Up(m, Apps(m.app))
      <3>1. Up(d, z)
        BY DEF Judged, z
      <3>2. Up(m, z \o buf)
        BY <1>0, <1>1, <2>4, <2>8, <3>1, UpEncrypt
      <3>3. z \o buf = Apps(m.app)
        BY <1>1, <2>8, Joins, AppsStep DEF z, buf
      <3> QED BY <3>2, <3>3
    <2>10. Verdict(m)
      BY <2>1, <2>8 DEF Judged, Verdict
    <2>11. Down(m)
      <3>1. ASSUME "feedback_data" \notin m.bad
            PROVE  m.sent["incoming"] = Answered \o Srvs(m.srv)
        <4>1. d.srv = 0
          BY <1>0, <2>8, <3>1, CtxOf, MaxDataAssumption DEF Judged
        <4>2. Answered \in Seq(Items) /\ Srvs(0) = <<>>
          BY ItemsFacts, AppsStep DEF Answered
        <4> QED BY <2>8, <4>1, <4>2, Joins
      <3> QED BY <3>1 DEF Down
    <2>12. Streaming(j, l, m)
      <3>1. m.srv \in Nat /\ One(m.cipher.reply # "part") \in {0, 1}
        BY <2>8, CtxOf DEF One
      <3>2. Len(j.writes) = 0
        BY <2>7
      <3>3. Len(l.writes) <= m.app /\ Len(j.writes) <= m.srv + One(m.cipher.reply # "part")
        BY <2>7, <2>8, <3>1, <3>2
      <3> QED BY <2>8, <2>9, <2>10, <2>11, <3>3 DEF Streaming
    <2>13. AtStreaming("streaming", j, l, m)
      BY <2>7, <2>12 DEF AtStreaming
    <2> QED BY <1>9, <2>7, <2>13, GoodLive DEF StageOK
  <1> QED BY <1>4, <1>8, <1>9

\* do_action_after_auth_server_success.
LEMMA AfterAuth ==
    ASSUME NEW u, NEW i, NEW o, NEW st, NEW d, Is(u, i, o, st, d), Quiet(i), Quiet(o),
           Judged(d), NEW v \in do_action_after_auth_server_success(u)
    PROVE  Good(v)
  <1> DEFINE x == "auth_completion_done"
             w == GoTo(u, x)
  <1>1. x \in tunnel_stage
    BY DEF tunnel_stage
  <1>2. v \in do_launch_streaming(Idle(w, Side))
    BY DEF do_action_after_auth_server_success
  <1> HIDE DEF x
  <1>3. Is(w, i, o, x, d)
    BY <1>1, GoToIs
  <1> HIDE DEF w
  <1>4. Idle(w, Side) = w
    BY <1>3, IdleBoth, RestFacts
  <1> QED BY <1>2, <1>3, <1>4, LaunchStreaming

\* do_ssr_waiting_server_feedback.
LEMMA WaitFeedback ==
    ASSUME NEW u, NEW i, NEW o, NEW st, NEW d, Is(u, i, o, st, d), Quiet(i), Quiet(o),
           Opened(d), NEW v \in do_ssr_waiting_server_feedback(u)
    PROVE  Good(v)
  <1> DEFINE x == "ssr_server_feedback_arrived"
             w == GoTo(Read(u, "outgoing", TRUE), x)
  <1>0. d \in ClientCtx /\ x \in tunnel_stage
    BY DEF Opened, Packed, tunnel_stage
  <1>1. Idle(u, Side) = u /\ u.data = d
    BY IdleBoth, RestFacts DEF Is
  <1>2. CASE d.cipher.mode \in {"confirm", "ticket"}
    <2>1. v = w
      BY <1>1, <1>2 DEF do_ssr_waiting_server_feedback, tunnel_cipher_client_need_feedback
    <2> HIDE DEF x
    <2>2. PICK k : Is(w, i, k, x, d) /\ Reading(k)
      BY <1>0, AskOut
    <2>3. AtFeedback(x, i, k, d)
      BY <1>2, <2>2 DEF AtFeedback, x
    <2> HIDE DEF w
    <2> QED BY <2>1, <2>2, <2>3, GoodLive DEF StageOK
  <1>3. CASE d.cipher.mode \notin {"confirm", "ticket"}
    <2>1. v \in do_action_after_auth_server_success(u)
      BY <1>1, <1>3 DEF do_ssr_waiting_server_feedback, tunnel_cipher_client_need_feedback
    <2>2. d.cipher.mode = "plain"
      BY <1>0, <1>3, CtxOf, CipherModesAssumption DEF CipherCtx, Modes
    <2>3. d.cipher.reply = "all" /\ d.cipher.status = {} /\ d.bad = {} /\ d.srv = 0 /\ Packed(d)
      BY <2>2 DEF Opened
    <2>4. Up(d, <<>>)
      BY OpenedUp
    <2>5. Verdict(d)
      BY <2>3 DEF Verdict
    <2>6. Judged(d)
      BY <2>3, <2>4, <2>5 DEF Judged
    <2> QED BY <2>1, <2>6, AfterAuth
  <1> QED BY <1>2, <1>3

\* An assertion of client.c, which may fail: the tunnel goes on.
LEMMA AssertMay ==
    ASSUME NEW u, NEW i, NEW o, NEW st, NEW d, Is(u, i, o, st, d), NEW cond \in BOOLEAN,
           NEW x \in Oops
    PROVE  \E e : /\ Is(ClientAssert(u, cond, x), i, o, st, e)
                  /\ Ctx(e, d.shortcut, d.first, d.cipher, d.app, d.srv,
                         d.sent["incoming"], d.sent["outgoing"],
                         IF cond THEN d.bad ELSE d.bad \cup {x})
  <1>0. d \in ClientCtx
    BY IsOf DEF Is
  <1>1. Ctx(d, d.shortcut, d.first, d.cipher, d.app, d.srv,
            d.sent["incoming"], d.sent["outgoing"], d.bad) /\ d.bad \in SUBSET Oops
    BY <1>0, CtxOf
  <1>2. CASE cond
    <2>1. ClientAssert(u, cond, x) = u
      BY <1>2 DEF ClientAssert
    <2> QED BY <1>1, <1>2, <2>1
  <1>3. CASE ~cond
    <2> DEFINE e == BadIs(d, x)
               b == d.bad \cup {x}
    <2>1. ClientAssert(u, cond, x) = BadTo(u, x)
      BY <1>3 DEF ClientAssert, BadTo
    <2>2. b \in SUBSET Oops
      BY <1>1
    <2>3. e = [d EXCEPT !.bad = b]
      BY DEF BadIs
    <2> HIDE DEF b
    <2>4. Ctx(e, d.shortcut, d.first, d.cipher, d.app, d.srv,
              d.sent["incoming"], d.sent["outgoing"], b)
      BY <1>1, <2>2, <2>3, CtxBad
    <2>5. Is(BadTo(u, x), i, o, st, e)
      BY <2>4, SetBad DEF Ctx
    <2> HIDE DEF e
    <2> QED BY <1>3, <2>1, <2>4, <2>5 DEF b
  <1> QED BY <1>2, <1>3

\* What a segment adds to the packets of the server that were read.
LEMMA SegCount ==
    ASSUME NEW d \in ClientCtx, NEW g,
           SegBad(g, d) \/ SegPart(g, d) \/ SegRest(g, d) \/ SegData(g, d)
    PROVE  /\ Len(g.data) \in {0, 1} /\ d.srv + Len(g.data) \in 0 .. MaxData
           /\ (Len(g.data) = 0 <=> g.data = <<>>)
           /\ Len(g.data) = 1 => SegData(g, d)
  <1>1. d.srv \in 0 .. MaxData /\ MaxData \in Nat
    BY CtxOf, MaxDataAssumption
  <1>2. CASE g.data = <<>>
    BY <1>1, <1>2
  <1>3. CASE SegData(g, d)
    <2>1. Len(g.data) = 1
      BY <1>3 DEF SegData
    <2> QED BY <1>1, <1>3, <2>1 DEF SegData
  <1>4. g.data = <<>> \/ SegData(g, d)
    BY DEF SegBad, SegPart, SegRest
  <1> QED BY <1>2, <1>3, <1>4

\* Decryption of a segment, in terms of the tunnel.
LEMMA DownTaken ==
    ASSUME NEW u, NEW i, NEW o, NEW st, NEW d, Is(u, i, o, st, d), NEW c \in CipherCtx,
           NEW n, d.srv + n \in 0 .. MaxData
    PROVE  \E e : /\ Is(DownTo(u, c, n), i, o, st, e)
                  /\ Ctx(e, d.shortcut, d.first, c, d.app, d.srv + n,
                         d.sent["incoming"], d.sent["outgoing"], d.bad)
  <1> DEFINE y == d.srv + n
             f == [d EXCEPT !.cipher = c]
             e == DownIs(d, c, n)
  <1>0. d \in ClientCtx /\ y \in 0 .. MaxData
    BY IsOf DEF Is
  <1>1. Ctx(d, d.shortcut, d.first, d.cipher, d.app, d.srv,
            d.sent["incoming"], d.sent["outgoing"], d.bad)
    BY <1>0, CtxOf
  <1>2. Ctx(f, d.shortcut, d.first, c, d.app, d.srv,
            d.sent["incoming"], d.sent["outgoing"], d.bad)
    BY <1>1, CtxCipher
  <1>3. e = [f EXCEPT !.srv = y]
    BY <1>0 DEF DownIs, ClientCtx
  <1> HIDE DEF f, e, y
  <1>4. Ctx(e, d.shortcut, d.first, c, d.app, y,
            d.sent["incoming"], d.sent["outgoing"], d.bad)
    BY <1>0, <1>2, <1>3, CtxSrv
  <1>5. e \in ClientCtx
    BY <1>4 DEF Ctx
  <1>6. Is(DownTo(u, c, n), i, o, st, e)
    BY <1>5, SetDown DEF e
  <1> QED BY <1>4, <1>6 DEF y

\* What the answer of the server, segment g, makes of the cipher context.
Answer(d, g, r) ==
    /\ r.ctx \in CipherCtx /\ r.ctx.reply # "none"
    /\ r.ok \in BOOLEAN /\ (r.out = <<>>) \in BOOLEAN /\ r.has_feedback \in BOOLEAN
    /\ 8 \in r.ctx.status => r.ctx.reply \in {"all", "broken"}
    /\ g.data # <<>> => r.out # <<>>
    /\ ~r.has_feedback => /\ r.ctx.mode = d.cipher.mode
                          /\ r.ctx.status = d.cipher.status
                          /\ r.ctx.queued = d.cipher.queued
    /\ r.has_feedback => /\ r.ctx.mode = "ticket" /\ r.ctx.status = {1, 2, 4, 8}
                         /\ r.ctx.queued = <<>> /\ r.feedback = <<Finish, Address>>
                         /\ d.sent["outgoing"] = <<Hello>>

\* That is so while the answer is awaited.
LEMMA AnswerRead ==
    ASSUME NEW d, Opened(d), d.cipher.mode # "plain", NEW g,
           SegBad(g, d) \/ SegPart(g, d) \/ SegRest(g, d) \/ SegData(g, d),
           NEW r, r = tunnel_cipher_client_decrypt(d.cipher, g)
    PROVE  Answer(d, g, r)
  <1> DEFINE c == d.cipher
  <1>0. c \in CipherCtx /\ c.reply = "none"
    BY CtxOf DEF Opened, Packed
  <1>1. /\ c.mode = "ticket" => c.status = {1} /\ c.queued = <<Address>> /\ d.sent["outgoing"] = <<Hello>>
        /\ c.mode # "ticket" => c.status = {}
        /\ 8 \notin c.status
    BY DEF Opened
  <1>2. r = tunnel_cipher_client_decrypt(c, g)
    OBVIOUS
  <1> HIDE DEF c
  <1>3. CASE SegBad(g, d)
    <2>1. g.valid = FALSE /\ g.data = <<>>
      BY <1>3 DEF SegBad
    <2>2. Decoded(r, FALSE, FALSE, <<>>, c.mode, "broken", c.queued, c.status)
      BY <1>0, <1>2, <2>1, DecryptBad
    <2> QED BY <1>1, <2>1, <2>2 DEF Decoded, c, Answer
  <1>4. CASE SegPart(g, d) /\ c.mode = "ticket"
    <2>1. g.valid = TRUE /\ g.reply = "part" /\ g.data = <<>>
      BY <1>4 DEF SegPart
    <2> DEFINE x == IF g.raw THEN <<Junk>> ELSE <<>>
    <2>2. Decoded(r, TRUE, FALSE, x, c.mode, "part", c.queued, c.status)
      BY <1>0, <1>1, <1>2, <1>4, <2>1, DecryptPart
    <2> HIDE DEF x
    <2> QED BY <1>1, <2>1, <2>2 DEF Decoded, c, Answer
  <1>5. CASE (SegRest(g, d) \/ SegData(g, d)) /\ c.mode = "ticket"
    <2>1. g.valid = TRUE /\ g.reply = "all"
      BY <1>5 DEF SegRest, SegData
    <2>0. c.mode = "ticket" /\ c.status = {1} /\ c.queued = <<Address>> /\ 8 \notin c.status
      BY <1>1, <1>5
    <2>2. /\ r.ok = TRUE /\ r.has_feedback = TRUE /\ r.out = g.data
          /\ r.ctx \in CipherCtx /\ r.ctx.mode = "ticket" /\ r.ctx.reply = "all"
          /\ r.ctx.status = {1, 2, 4, 8} /\ r.ctx.queued = <<>>
          /\ r.feedback = <<Finish, Address>>
      <3>1. SendBack(c, g, r)
        BY <1>0, <1>2, <2>0, <2>1, DecryptAll
      <3> QED BY <2>0, <3>1 DEF SendBack
    <2> QED BY <1>1, <1>5, <2>0, <2>2 DEF c, Answer
  <1>6. CASE ~SegBad(g, d) /\ c.mode # "ticket"
    <2>1. g.valid = TRUE /\ g.reply \in {"part", "all"}
      BY <1>6 DEF SegPart, SegRest, SegData
    <2>2. Decoded(r, TRUE, FALSE, g.data, c.mode, g.reply, c.queued, c.status)
      BY <1>0, <1>2, <1>6, <2>1, DecryptPlain
    <2> QED BY <1>1, <2>1, <2>2 DEF Decoded, c, Answer
  <1> QED BY <1>3, <1>4, <1>5, <1>6

\* do_ssr_receipt_for_feedback.
LEMMA ReceiptForFeedback ==
    ASSUME NEW u, NEW i, NEW o, NEW st, NEW d, Is(u, i, o, st, d), Quiet(i), Quiet(o),
           Opened(d), d.cipher.mode # "plain", NEW g,
           SegBad(g, d) \/ SegPart(g, d) \/ SegRest(g, d) \/ SegData(g, d),
           NEW v \in do_ssr_receipt_for_feedback(u, g)
    PROVE  Good(v)
  <1> DEFINE r == tunnel_cipher_client_decrypt(d.cipher, g)
             n == Len(g.data)
             ok == r.ok
             nil == r.out = <<>>
             b == DownTo(u, r.ctx, n)
             c == ClientAssert(b, ok, "decode")
             w == ClientAssert(c, nil, "feedback_data")
             x == "ssr_receipt_to_server_sent"
             y == GoTo(Write(w, "outgoing", r.feedback), x)
  <1>0. d \in ClientCtx /\ Packed(d) /\ d.srv = 0 /\ d.bad = {} /\ x \in tunnel_stage
    BY DEF Opened, Packed, tunnel_stage
  <1>1. Idle(u, Side) = u /\ u.data = d
    BY IdleBoth, RestFacts DEF Is
  <1>2. /\ r.has_feedback => v = y
        /\ ~r.has_feedback => v \in do_action_after_auth_server_success(w)
    BY <1>1 DEF do_ssr_receipt_for_feedback, DownTo
  <1>3. /\ n \in {0, 1} /\ d.srv + n \in 0 .. MaxData
        /\ (n = 0 <=> g.data = <<>>)
    BY <1>0, SegCount
  <1>4. r = tunnel_cipher_client_decrypt(d.cipher, g)
    OBVIOUS
  <1> HIDE DEF r, n
  <1>5. Answer(d, g, r)
    BY <1>4, AnswerRead
  <1>6. PICK e1 : /\ Is(b, i, o, st, e1)
                  /\ Ctx(e1, d.shortcut, d.first, r.ctx, d.app, d.srv + n,
                         d.sent["incoming"], d.sent["outgoing"], d.bad)
    <2>1. r.ctx \in CipherCtx
      BY <1>5 DEF Answer
    <2> QED BY <1>3, <2>1, DownTaken
  <1> DEFINE q1 == "decode"
             q2 == "feedback_data"
  <1>7. q1 \in Oops /\ q2 \in Oops
    BY DEF Oops
  <1>8. c = ClientAssert(b, ok, q1) /\ w = ClientAssert(c, nil, q2) /\ ok \in BOOLEAN /\ nil \in BOOLEAN
    BY <1>5 DEF Answer
  <1> HIDE DEF b, c, w, ok, nil, q1, q2
  <1>9. PICK e2 : /\ Is(c, i, o, st, e2)
                  /\ Ctx(e2, e1.shortcut, e1.first, e1.cipher, e1.app, e1.srv,
                         e1.sent["incoming"], e1.sent["outgoing"],
                         IF ok THEN e1.bad ELSE e1.bad \cup {q1})
    BY <1>6, <1>7, <1>8, AssertMay
  <1>10. PICK e : /\ Is(w, i, o, st, e)
                  /\ Ctx(e, e2.shortcut, e2.first, e2.cipher, e2.app, e2.srv,
                         e2.sent["incoming"], e2.sent["outgoing"],
                         IF nil THEN e2.bad ELSE e2.bad \cup {q2})
    BY <1>7, <1>8, <1>9, AssertMay
  <1>11. /\ e \in ClientCtx /\ e.first = d.first /\ e.cipher = r.ctx /\ e.app = d.app
         /\ e.srv = d.srv + n /\ e.sent["incoming"] = d.sent["incoming"]
         /\ e.sent["outgoing"] = d.sent["outgoing"]
    BY <1>6, <1>9, <1>10 DEF Ctx
  <1>12. e.bad \subseteq {q1, q2} /\ (~nil => q2 \in e.bad)
    BY <1>0, <1>6, <1>9, <1>10 DEF Ctx
  <1>13. Packed(e)
    BY <1>0, <1>11 DEF Packed
  <1>14. Verdict(e) /\ "late_feedback" \notin e.bad
    BY <1>5, <1>11, <1>12 DEF Verdict, q1, q2, Answer
  <1>15. e.srv > 0 => "feedback_data" \in e.bad
    BY <1>0, <1>3, <1>5, <1>11, <1>12 DEF nil, q2, Answer
  <1>16. CASE ~r.has_feedback
    <2>1. Up(e, <<>>)
      BY <1>5, <1>11, <1>16, OpenedUp DEF Answer
    <2>2. Judged(e)
      BY <1>13, <1>14, <1>15, <2>1 DEF Judged
    <2> QED BY <1>2, <1>10, <1>16, <2>2, AfterAuth
  <1>17. CASE r.has_feedback
    <2> DEFINE buf == r.feedback
    <2>0. /\ Hello \in Items /\ Finish \in Items /\ Address \in Items
          /\ <<Hello, Finish, Address>> \in Seq(Items) /\ <<Finish, Address>> \in Seq(Items)
      BY ItemsFacts
    <2>1. buf = <<Finish, Address>> /\ buf \in Seq(Items)
      BY <1>5, <1>17, <2>0 DEF Answer
    <2> HIDE DEF buf
    <2>2. PICK k, m : /\ Is(Write(w, "outgoing", buf), i, k, st, m) /\ Writing(k)
                      /\ Ctx(m, e.shortcut, e.first, e.cipher, e.app, e.srv,
                             e.sent["incoming"], e.sent["outgoing"] \o buf, e.bad)
      BY <1>10, <2>1, SayOut
    <2>3. v = GoTo(Write(w, "outgoing", buf), x)
      BY <1>2, <1>17 DEF buf
    <2> HIDE DEF x
    <2>4. Is(v, i, k, x, m)
      BY <1>0, <2>2, <2>3, GoToIs
    <2>5. /\ m \in ClientCtx /\ m.first = e.first /\ m.cipher = e.cipher /\ m.app = e.app
          /\ m.srv = e.srv /\ m.sent["incoming"] = e.sent["incoming"] /\ m.bad = e.bad
          /\ m.sent["outgoing"] = <<Hello>> \o <<Finish, Address>>
      BY <1>5, <1>11, <1>17, <2>1, <2>2 DEF Ctx, Answer
    <2>6. m.sent["outgoing"] = <<Hello, Finish, Address>> \o <<>>
      BY <2>0, <2>5, Short3, Joins
    <2>7. Flushed(m.cipher, m.sent["outgoing"], <<>>)
      BY <1>5, <1>11, <1>17, <2>5, <2>6 DEF Flushed, Answer
    <2>8. Judged(m)
      <3>1. Packed(m) /\ Verdict(m) /\ "late_feedback" \notin m.bad
        BY <1>13, <1>14, <2>5 DEF Packed, Verdict
      <3>2. m.srv > 0 => "feedback_data" \in m.bad
        BY <1>15, <2>5
      <3> QED BY <2>7, <3>1, <3>2 DEF Judged, Up
    <2>9. AtReceipt(x, i, k, m)
      BY <2>2, <2>7, <2>8 DEF AtReceipt, x
    <2> QED BY <2>4, <2>9, GoodLive DEF StageOK
  <1> QED BY <1>5, <1>16, <1>17 DEF Answer

-----------------------------------------------------------------------------
(* Streaming. *)

\* A write to a socket that streams.
LEMMA FlowWrite ==
    ASSUME NEW k, Flow(k), NEW w \in Seq(Items)
    PROVE  /\ CanWrite(k) /\ Flow(socket_ctx_write(k, w))
           /\ Len(socket_ctx_write(k, w).writes) = Len(k.writes) + 1
  <1> DEFINE rd == k.rdstate
             wr == k.wrstate
             ws == k.writes
             none == "none"
             n == socket_ctx_write(k, w)
             nw == Append(ws, w)
  <1>1. /\ Sock(k, rd, wr, TRUE, ws, TRUE, FALSE, none)
        /\ rd \in {"stop", "busy"} /\ wr \in {"stop", "busy"}
    BY DEF Flow
  <1>2. ws \in Seq(Seq(Items))
    BY DEF Flow, Sock, OpenSocket
  <1>3. Len(nw) = Len(ws) + 1
    BY <1>2
  <1> HIDE DEF rd, wr, ws, none
  <1>4. CanWrite(k) /\ Sock(n, rd, "busy", TRUE, nw, TRUE, FALSE, none)
    BY <1>1, SockWrite
  <1> HIDE DEF n, nw
  <1>5. Flow(n) /\ n.writes = nw
    BY <1>1, <1>4 DEF Flow, Sock, none
  <1> QED BY <1>3, <1>4, <1>5 DEF n, ws

\* Data to the application.
LEMMA FlowIn ==
    ASSUME NEW u, NEW i, NEW o, NEW d, Is(u, i, o, "streaming", d), Flow(i),
           NEW buf \in Seq(Items)
    PROVE  \E k, e : /\ Is(Write(u, "incoming", buf), k, o, "streaming", e)
                     /\ Flow(k) /\ Len(k.writes) = Len(i.writes) + 1
                     /\ Ctx(e, d.shortcut, d.first, d.cipher, d.app, d.srv,
                            d.sent["incoming"] \o buf, d.sent["outgoing"], d.bad)
  <1> DEFINE k == socket_ctx_write(i, buf)
             e == [d EXCEPT !.sent["incoming"] = @ \o buf]
             st == "streaming"
             v == Write(u, "incoming", buf)
  <1>0. d \in ClientCtx
    BY IsOf DEF Is
  <1>1. CanWrite(i) /\ Flow(k) /\ Len(k.writes) = Len(i.writes) + 1
    BY FlowWrite
  <1>2. k = socket_ctx_write(i, buf) /\ k \in OpenSocket
    BY <1>1 DEF Flow, Sock
  <1>3. Ctx(e, d.shortcut, d.first, d.cipher, d.app, d.srv,
            d.sent["incoming"] \o buf, d.sent["outgoing"], d.bad)
    BY <1>0, CtxOf, CtxSayIn
  <1>4. e = [d EXCEPT !.sent["incoming"] = @ \o buf] /\ e \in ClientCtx
    BY <1>3 DEF Ctx
  <1>5. Is(u, i, o, st, d) /\ (i.wrstate = "stop" \/ st = "streaming")
    OBVIOUS
  <1> HIDE DEF k, e, st
  <1>6. Is(v, k, o, st, e)
    BY <1>1, <1>2, <1>4, <1>5, WriteIn
  <1> QED BY <1>1, <1>3, <1>6 DEF st

\* Data to the server.
LEMMA FlowOut ==
    ASSUME NEW u, NEW i, NEW o, NEW d, Is(u, i, o, "streaming", d), Flow(o),
           NEW buf \in Seq(Items)
    PROVE  \E k, e : /\ Is(Write(u, "outgoing", buf), i, k, "streaming", e)
                     /\ Flow(k) /\ Len(k.writes) = Len(o.writes) + 1
                     /\ Ctx(e, d.shortcut, d.first, d.cipher, d.app, d.srv,
                            d.sent["incoming"], d.sent["outgoing"] \o buf, d.bad)
  <1> DEFINE k == socket_ctx_write(o, buf)
             e == [d EXCEPT !.sent["outgoing"] = @ \o buf]
             st == "streaming"
             v == Write(u, "outgoing", buf)
  <1>0. d \in ClientCtx
    BY IsOf DEF Is
  <1>1. CanWrite(o) /\ Flow(k) /\ Len(k.writes) = Len(o.writes) + 1
    BY FlowWrite
  <1>2. k = socket_ctx_write(o, buf) /\ k \in OpenSocket
    BY <1>1 DEF Flow, Sock
  <1>3. Ctx(e, d.shortcut, d.first, d.cipher, d.app, d.srv,
            d.sent["incoming"], d.sent["outgoing"] \o buf, d.bad)
    BY <1>0, CtxOf, CtxSayOut
  <1>4. e = [d EXCEPT !.sent["outgoing"] = @ \o buf] /\ e \in ClientCtx
    BY <1>3 DEF Ctx
  <1>5. Is(u, i, o, st, d) /\ (o.wrstate = "stop" \/ st = "streaming")
    OBVIOUS
  <1> HIDE DEF k, e, st
  <1>6. Is(v, i, k, st, e)
    BY <1>1, <1>2, <1>4, <1>5, WriteOut
  <1> QED BY <1>1, <1>3, <1>6 DEF st

\* While streaming no more is queued than was read.
LEMMA StreamShort ==
    ASSUME NEW i \in OpenSocket, NEW o \in OpenSocket, NEW d, Streaming(i, o, d)
    PROVE  Short(i) /\ Short(o)
  <1>1. d.app \in 0 .. MaxData /\ d.srv \in 0 .. MaxData /\ MaxData \in Nat
    BY CtxOf, MaxDataAssumption DEF Streaming
  <1>2. One(d.cipher.reply # "part") \in {0, 1}
    BY DEF One
  <1>3. Len(i.writes) \in Nat /\ Len(o.writes) \in Nat
    BY DEF OpenSocket
  <1>4. Len(o.writes) <= d.app /\ Len(i.writes) <= d.srv + One(d.cipher.reply # "part")
    BY DEF Streaming
  <1> QED BY <1>1, <1>2, <1>3, <1>4 DEF Short

\* While streaming a tunnel can be shut down.
LEMMA StreamQuit ==
    ASSUME NEW i, NEW o, NEW d, Streaming(i, o, d)
    PROVE  Quittable(d)
  <1> DEFINE n == d.app
  <1>1. d \in ClientCtx /\ n \in Nat /\ n <= d.app
    BY CtxOf DEF Streaming
  <1>2. "late_feedback" \notin d.bad => Up(d, Apps(n))
    BY DEF Streaming
  <1>3. d.bad \subseteq {"decode", "feedback_data", "late_feedback"}
    BY DEF Streaming, Verdict
  <1> HIDE DEF n
  <1> QED BY <1>1, <1>2, <1>3, UpQuit

\* What the application sends is relayed, or the tunnel is shut down.
LEMMA RelayUpGood ==
    ASSUME NEW u, NEW i, NEW o, NEW d, Is(u, i, o, "streaming", d), Flow(i), Flow(o),
           Streaming(i, o, d), NEW v \in RelayUp(u)
    PROVE  Good(v)
  <1> DEFINE st == "streaming"
  <1>0. d \in ClientCtx /\ u.data = d /\ Is(u, i, o, st, d) /\ i \in OpenSocket /\ o \in OpenSocket
    BY DEF Streaming, Is, Flow, Sock
  <1>1. PICK p \in NextApp(u) :
           \/ v = tunnel_shutdown(CountTo(u))
           \/ v = Write(UpTo(u, tunnel_cipher_client_encrypt(d.cipher, <<p>>).ctx), "outgoing",
                        tunnel_cipher_client_encrypt(d.cipher, <<p>>).out)
    BY <1>0 DEF RelayUp, CountTo, UpTo
  <1> DEFINE m == d.app + 1
             buf == <<p>>
             c == d.cipher
             e == tunnel_cipher_client_encrypt(c, buf)
             a == CountTo(u)
             b == UpTo(u, e.ctx)
  <1> HIDE DEF st
  <1>2. p = AppData(m) /\ m \in 1 .. MaxData /\ p \in Items
    BY <1>0, AppNext
  <1>3. buf \in Seq(Items) /\ buf # <<>> /\ c \in CipherCtx /\ m \in 0 .. MaxData
    BY <1>0, <1>2, CtxOf
  <1>4. Ctx(d, d.shortcut, d.first, d.cipher, d.app, d.srv,
            d.sent["incoming"], d.sent["outgoing"], d.bad) /\ d.app \in 0 .. MaxData
    BY <1>0, CtxOf
  <1>5. CASE v = tunnel_shutdown(a)
    <2> DEFINE f == CountIs(d)
    <2>1. f = [d EXCEPT !.app = m]
      BY <1>0 DEF CountIs
    <2> HIDE DEF m, f
    <2>2. Ctx(f, d.shortcut, d.first, d.cipher, m, d.srv,
              d.sent["incoming"], d.sent["outgoing"], d.bad)
      BY <1>3, <1>4, <2>1, CtxApp
    <2>3. f \in ClientCtx /\ f.bad = d.bad /\ f.app = m
      BY <2>2 DEF Ctx
    <2>4. Is(a, i, o, st, f)
      BY <1>0, <2>3, SetCount DEF f
    <2> DEFINE n == d.app
    <2>5. n \in Nat /\ n <= f.app
      BY <1>4, <2>3 DEF m
    <2>6. "late_feedback" \notin f.bad => Up(f, Apps(n))
      BY <2>2, UpSame DEF Streaming, Ctx
    <2>7. f.bad \subseteq {"decode", "feedback_data", "late_feedback"}
      BY <2>3 DEF Streaming, Verdict
    <2> HIDE DEF n
    <2>8. Quittable(f)
      BY <2>3, <2>5, <2>6, <2>7, UpQuit
    <2> HIDE DEF a
    <2> QED BY <1>0, <1>5, <2>4, <2>8, GoodShut, StreamShort
  <1>6. CASE v = Write(b, "outgoing", e.out)
    <2> DEFINE f0 == [d EXCEPT !.cipher = e.ctx]
               f == UpIs(d, e.ctx)
    <2>1. /\ e.ctx \in CipherCtx /\ e.out \in Seq(Items)
          /\ e.ctx.mode = c.mode /\ e.ctx.reply = c.reply
          /\ 8 \in e.ctx.status <=> 8 \in c.status
      <3> HIDE DEF buf, c
      <3> QED BY <1>3, EncryptType
    <2>2. e = tunnel_cipher_client_encrypt(d.cipher, buf)
      OBVIOUS
    <2> HIDE DEF e
    <2>3. f = [f0 EXCEPT !.app = m]
      BY <1>0 DEF UpIs, ClientCtx
    <2>4. Ctx(f0, d.shortcut, d.first, e.ctx, d.app, d.srv,
              d.sent["incoming"], d.sent["outgoing"], d.bad)
      BY <1>4, <2>1, CtxCipher
    <2> HIDE DEF f0, f, m
    <2>5. Ctx(f, d.shortcut, d.first, e.ctx, m, d.srv,
              d.sent["incoming"], d.sent["outgoing"], d.bad)
      BY <1>3, <2>3, <2>4, CtxApp
    <2>6. f \in ClientCtx
      BY <2>5 DEF Ctx
    <2>7. Is(b, i, o, "streaming", f)
      BY <1>0, <2>6, SetUp DEF f, st
    <2> HIDE DEF b
    <2>8. PICK k, g : /\ Is(Write(b, "outgoing", e.out), i, k, "streaming", g)
                      /\ Flow(k) /\ Len(k.writes) = Len(o.writes) + 1
                      /\ Ctx(g, f.shortcut, f.first, f.cipher, f.app, f.srv,
                             f.sent["incoming"], f.sent["outgoing"] \o e.out, f.bad)
      BY <2>1, <2>7, FlowOut
    <2>9. /\ g \in ClientCtx /\ g.first = d.first /\ g.cipher = e.ctx /\ g.app = m /\ g.srv = d.srv
          /\ g.sent["incoming"] = d.sent["incoming"] /\ g.bad = d.bad
          /\ g.sent["outgoing"] = d.sent["outgoing"] \o e.out
      BY <2>5, <2>8 DEF Ctx
    <2>10. ASSUME "late_feedback" \notin g.bad
           PROVE  Up(g, Apps(g.app))
      <3> DEFINE h == Apps(d.app)
      <3>1. Up(d, h)
        BY <2>9, <2>10 DEF Streaming
      <3>2. h \in Seq(Items)
        BY <1>4, AppsFacts, MaxDataAssumption
      <3>3. h \o buf = Apps(m)
        <4>1. d.app \in Nat /\ d.app < MaxData
          BY <1>2, <1>4, MaxDataAssumption DEF m
        <4>2. Apps(d.app) \o << AppData(d.app + 1) >> = Apps(d.app + 1)
          BY <4>1, AppsStep
        <4> QED BY <1>2, <4>2 DEF m
      <3> HIDE DEF h, buf
      <3>4. Up(g, h \o buf)
        BY <1>0, <1>3, <2>2, <2>9, <3>1, <3>2, UpEncrypt
      <3> QED BY <2>9, <3>3, <3>4
    <2>11. Verdict(g) /\ Down(g)
      BY <2>1, <2>9 DEF Streaming, Verdict, Down, c
    <2>12. Len(k.writes) <= g.app
      <3>1. Len(o.writes) <= d.app /\ Len(o.writes) \in Nat /\ d.app \in Nat
        BY <1>0, <1>4 DEF Streaming, OpenSocket
      <3> QED BY <2>8, <2>9, <3>1 DEF m
    <2>13. Len(i.writes) <= g.srv + One(g.cipher.reply # "part")
      BY <2>1, <2>9 DEF Streaming, c
    <2>14. Streaming(i, k, g)
      BY <2>9, <2>10, <2>11, <2>12, <2>13 DEF Streaming
    <2>15. AtStreaming("streaming", i, k, g)
      BY <2>8, <2>14 DEF AtStreaming
    <2> QED BY <1>6, <2>8, <2>15, GoodLive DEF StageOK
  <1> QED BY <1>1, <1>5, <1>6

\* What a segment makes of the cipher context while streaming.
Passed(d, g, r) ==
    /\ r.ctx \in CipherCtx /\ r.ok \in BOOLEAN /\ r.has_feedback \in BOOLEAN
    /\ r.ctx.reply # "none"
    /\ 8 \in r.ctx.status => r.ctx.reply \in {"all", "broken"}
    /\ ~r.has_feedback => /\ r.ctx.mode = d.cipher.mode
                          /\ r.ctx.status = d.cipher.status
                          /\ r.ctx.queued = d.cipher.queued
    /\ r.ok => /\ r.out = g.data /\ r.ctx.reply = "all"
               /\ d.cipher.reply = "part" \/ SegData(g, d)

\* That is so whatever the server sends.
LEMMA SegmentRead ==
    ASSUME NEW d \in ClientCtx, Verdict(d), NEW g,
           SegBad(g, d) \/ SegPart(g, d) \/ SegRest(g, d) \/ SegData(g, d),
           NEW r, r = tunnel_cipher_client_decrypt(d.cipher, g)
    PROVE  Passed(d, g, r)
  <1> DEFINE c == d.cipher
  <1>0. /\ c \in CipherCtx /\ c.reply \in {"part", "all", "broken"}
        /\ 8 \in c.status => c.reply \in {"all", "broken"}
    BY CtxOf DEF Verdict, CipherCtx
  <1>1. r = tunnel_cipher_client_decrypt(c, g)
    OBVIOUS
  <1> HIDE DEF c
  <1>2. CASE SegBad(g, d)
    <2>1. g.valid = FALSE
      BY <1>2 DEF SegBad
    <2>2. Decoded(r, FALSE, FALSE, <<>>, c.mode, "broken", c.queued, c.status)
      BY <1>0, <1>1, <2>1, DecryptBad
    <2> QED BY <2>2 DEF Decoded, c, Passed
  <1>3. ~SegPart(g, d)
    BY <1>0 DEF SegPart, c
  <1>4. ASSUME SegRest(g, d) \/ SegData(g, d)
        PROVE  Passed(d, g, r)
    <2>1. /\ g.valid = TRUE /\ g.reply = "all" /\ g.reply \in {"part", "all"}
          /\ c.reply = "part" \/ SegData(g, d)
      BY <1>0, <1>4 DEF SegRest, SegData, c
    <2>2. CASE c.mode # "ticket"
      <3>1. Decoded(r, TRUE, FALSE, g.data, c.mode, g.reply, c.queued, c.status)
        BY <1>0, <1>1, <2>1, <2>2, DecryptPlain
      <3> QED BY <2>1, <3>1 DEF Decoded, c, Passed
    <2>3. CASE c.mode = "ticket" /\ 8 \in c.status
      <3>1. Decoded(r, TRUE, FALSE, g.data, c.mode, c.reply, c.queued, c.status)
        BY <1>0, <1>1, <2>1, <2>3, DecryptDone
      <3>2. c.reply = "all"
        BY <1>0, <1>4, <2>3 DEF SegRest, SegData, c
      <3> QED BY <2>1, <3>1, <3>2 DEF Decoded, c, Passed
    <2>4. CASE c.mode = "ticket" /\ 8 \notin c.status
      <3>1. SendBack(c, g, r)
        BY <1>0, <1>1, <2>1, <2>4, DecryptAll
      <3>2. /\ r.ok = TRUE /\ r.has_feedback = TRUE /\ r.out = g.data
            /\ r.ctx \in CipherCtx /\ r.ctx.reply = "all"
        BY <3>1 DEF SendBack
      <3> QED BY <2>1, <3>2 DEF Passed, c
    <2> QED BY <2>2, <2>3, <2>4
  <1> QED BY <1>2, <1>3, <1>4

\* What the server sends is relayed, or the tunnel is shut down.
LEMMA RelayDownGood ==
    ASSUME NEW u, NEW i, NEW o, NEW d, Is(u, i, o, "streaming", d), Flow(i), Flow(o),
           Streaming(i, o, d), NEW v \in RelayDown(u)
    PROVE  Good(v)
  <1> DEFINE st == "streaming"
  <1>0. d \in ClientCtx /\ u.data = d /\ Is(u, i, o, st, d) /\ i \in OpenSocket /\ o \in OpenSocket
    BY DEF Streaming, Is, Flow, Sock
  <1>1. PICK g \in NextSegments(u) :
           LET r == tunnel_cipher_client_decrypt(d.cipher, g)
               b == ClientAssert(DownTo(u, r.ctx, Len(g.data)), ~r.has_feedback, "late_feedback")
           IN  v = IF r.ok THEN Write(b, "incoming", r.out) ELSE tunnel_shutdown(b)
    BY <1>0 DEF RelayDown, DownTo
  <1> DEFINE r == tunnel_cipher_client_decrypt(d.cipher, g)
             n == Len(g.data)
             a == DownTo(u, r.ctx, n)
             q == "late_feedback"
             fine == ~r.has_feedback
             b == ClientAssert(a, fine, q)
  <1>2. (r.ok => v = Write(b, "incoming", r.out)) /\ (~r.ok => v = tunnel_shutdown(b))
    BY <1>1
  <1>3. r = tunnel_cipher_client_decrypt(d.cipher, g) /\ b = ClientAssert(a, fine, q)
    OBVIOUS
  <1> HIDE DEF r, st
  <1>4. (SegBad(g, d) \/ SegPart(g, d) \/ SegRest(g, d) \/ SegData(g, d)) /\ g.data \in Seq(Items)
    BY <1>0, SegNext
  <1>5. /\ n \in {0, 1} /\ d.srv + n \in 0 .. MaxData /\ (n = 0 <=> g.data = <<>>)
        /\ n = 1 => SegData(g, d)
    BY <1>0, <1>4, SegCount
  <1>6. Passed(d, g, r)
    BY <1>0, <1>3, <1>4, SegmentRead DEF Streaming
  <1>7. r.ctx \in CipherCtx /\ fine \in BOOLEAN
    BY <1>6 DEF Passed
  <1>8. q \in Oops
    BY DEF Oops
  <1> HIDE DEF n
  <1>9. PICK e1 : /\ Is(a, i, o, st, e1)
                  /\ Ctx(e1, d.shortcut, d.first, r.ctx, d.app, d.srv + n,
                         d.sent["incoming"], d.sent["outgoing"], d.bad)
    BY <1>0, <1>5, <1>7, DownTaken
  <1> HIDE DEF a, b, q, fine
  <1>10. PICK e : /\ Is(b, i, o, st, e)
                  /\ Ctx(e, e1.shortcut, e1.first, e1.cipher, e1.app, e1.srv,
                         e1.sent["incoming"], e1.sent["outgoing"],
                         IF fine THEN e1.bad ELSE e1.bad \cup {q})
    BY <1>3, <1>7, <1>8, <1>9, AssertMay
  <1>11. /\ e \in ClientCtx /\ e.first = d.first /\ e.cipher = r.ctx /\ e.app = d.app
         /\ e.srv = d.srv + n /\ e.sent["incoming"] = d.sent["incoming"]
         /\ e.sent["outgoing"] = d.sent["outgoing"]
         /\ e.bad = IF fine THEN d.bad ELSE d.bad \cup {q}
    BY <1>9, <1>10 DEF Ctx
  <1>12. ASSUME "late_feedback" \notin e.bad
         PROVE  Up(e, Apps(d.app))
    <2>1. fine /\ "late_feedback" \notin d.bad
      BY <1>11, <1>12 DEF q
    <2>2. Up(d, Apps(d.app))
      BY <2>1 DEF Streaming
    <2>3. r.ctx.mode = d.cipher.mode /\ r.ctx.status = d.cipher.status /\ r.ctx.queued = d.cipher.queued
      BY <1>6, <2>1 DEF Passed, fine
    <2> QED BY <1>11, <2>2, <2>3 DEF Up, Direct, Held, Flushed
  <1>13. Verdict(e)
    <2>1. d.bad \subseteq {"decode", "feedback_data", "late_feedback"}
      BY DEF Streaming, Verdict
    <2>2. e.bad \subseteq {"decode", "feedback_data", "late_feedback"}
      BY <1>11, <2>1 DEF q
    <2>3. r.ctx.reply # "none" /\ (8 \in r.ctx.status => r.ctx.reply \in {"all", "broken"})
      BY <1>6 DEF Passed
    <2> QED BY <1>11, <2>2, <2>3 DEF Verdict
  <1>14. CASE ~r.ok
    <2> DEFINE x == d.app
    <2>1. x \in Nat /\ x <= e.app
      BY <1>0, <1>11, CtxOf
    <2>2. "late_feedback" \notin e.bad => Up(e, Apps(x))
      BY <1>12
    <2>3. e.bad \subseteq {"decode", "feedback_data", "late_feedback"}
      BY <1>13 DEF Verdict
    <2> HIDE DEF x
    <2>4. Quittable(e)
      BY <1>11, <2>1, <2>2, <2>3, UpQuit
    <2> QED BY <1>0, <1>2, <1>10, <1>14, <2>4, GoodShut, StreamShort
  <1>15. CASE r.ok
    <2>1. r.out = g.data /\ r.ctx.reply = "all" /\ (d.cipher.reply = "part" \/ SegData(g, d))
      BY <1>6, <1>15 DEF Passed
    <2> DEFINE buf == g.data
    <2>2. v = Write(b, "incoming", buf)
      BY <1>2, <1>15, <2>1
    <2> HIDE DEF buf
    <2>3. PICK k, m : /\ Is(v, k, o, "streaming", m)
                      /\ Flow(k) /\ Len(k.writes) = Len(i.writes) + 1
                      /\ Ctx(m, e.shortcut, e.first, e.cipher, e.app, e.srv,
                             e.sent["incoming"] \o buf, e.sent["outgoing"], e.bad)
      <3>1. Is(b, i, o, "streaming", e) /\ buf \in Seq(Items)
        BY <1>4, <1>10 DEF st, buf
      <3> QED BY <2>2, <3>1, FlowIn
    <2>4. /\ m \in ClientCtx /\ m.first = d.first /\ m.cipher = r.ctx /\ m.app = d.app
          /\ m.srv = d.srv + n /\ m.sent["incoming"] = d.sent["incoming"] \o buf
          /\ m.sent["outgoing"] = d.sent["outgoing"] /\ m.bad = e.bad
      BY <1>11, <2>3 DEF Ctx
    <2>5. "late_feedback" \notin m.bad => Up(m, Apps(m.app))
      <3>1. m.cipher = e.cipher /\ m.sent["outgoing"] = e.sent["outgoing"]
        BY <1>11, <2>4
      <3> QED BY <1>12, <2>4, <3>1, UpSame
    <2>6. Verdict(m)
      BY <1>11, <1>13, <2>4 DEF Verdict
    <2>7. d.srv \in Nat /\ d.srv <= MaxData /\ d.sent["incoming"] \in Seq(Items)
      BY <1>0, CtxOf, MaxDataAssumption
    <2>8. Down(m)
      <3>1. ASSUME "feedback_data" \notin m.bad
            PROVE  m.sent["incoming"] = Answered \o Srvs(m.srv)
        <4>1. "feedback_data" \notin d.bad
          BY <1>11, <2>4, <3>1
        <4>2. d.sent["incoming"] = Answered \o Srvs(d.srv)
          BY <4>1 DEF Streaming, Down
        <4>3. CASE n = 0
          <5>1. buf = <<>> /\ m.srv = d.srv
            BY <1>5, <2>4, <2>7, <4>3 DEF buf
          <5> QED BY <2>4, <2>7, <4>2, <5>1, Joins
        <4>4. CASE n = 1
          <5>1. SegData(g, d)
            BY <1>5, <4>4
          <5>2. buf = << SrvData(d.srv + 1) >> /\ d.srv < MaxData /\ m.srv = d.srv + 1
            BY <2>4, <2>7, <4>4, <5>1, MaxDataAssumption DEF SegData, buf
          <5>3. Srvs(d.srv) \o << SrvData(d.srv + 1) >> = Srvs(d.srv + 1)
            BY <2>7, <5>2, AppsStep
          <5> DEFINE p == Answered
                     h == Srvs(d.srv)
          <5>4. p \in Seq(Items) /\ h \in Seq(Items) /\ buf \in Seq(Items)
            BY <1>4, <2>7, ItemsFacts, SrvsFacts DEF Answered, buf
          <5> HIDE DEF p, h
          <5>5. (p \o h) \o buf = p \o (h \o buf)
            BY <5>4, Assoc
          <5> QED BY <2>4, <4>2, <5>2, <5>3, <5>5 DEF p, h
        <4> QED BY <1>5, <4>3, <4>4
      <3> QED BY <3>1 DEF Down
    <2>9. Len(k.writes) <= m.srv + One(m.cipher.reply # "part")
      <3>1. One(m.cipher.reply # "part") = 1
        BY <2>1, <2>4 DEF One
      <3>2. Len(i.writes) \in Nat
        BY <1>0 DEF OpenSocket
      <3>3. Len(i.writes) <= d.srv + One(d.cipher.reply # "part")
        BY DEF Streaming
      <3>4. CASE d.cipher.reply = "part"
        <4>1. One(d.cipher.reply # "part") = 0
          BY <3>4 DEF One
        <4> QED BY <1>5, <2>3, <2>4, <2>7, <3>1, <3>2, <3>3, <4>1
      <3>5. CASE SegData(g, d)
        <4>1. n = 1
          BY <3>5 DEF SegData, n
        <4>2. One(d.cipher.reply # "part") \in {0, 1}
          BY DEF One
        <4> QED BY <2>3, <2>4, <2>7, <3>1, <3>2, <3>3, <4>1, <4>2
      <3> QED BY <2>1, <3>4, <3>5
    <2>10. Len(o.writes) <= m.app
      BY <2>4 DEF Streaming
    <2>11. Streaming(k, o, m)
      BY <2>4, <2>5, <2>6, <2>8, <2>9, <2>10 DEF Streaming
    <2>12. AtStreaming("streaming", k, o, m)
      BY <2>3, <2>11 DEF AtStreaming
    <2> QED BY <2>3, <2>12, GoodLive DEF StageOK
  <1>16. r.ok \in BOOLEAN
    BY <1>6 DEF Passed
  <1> QED BY <1>14, <1>15, <1>16

-----------------------------------------------------------------------------
(* The dispatcher. *)

\* tunnel_ssr_dispatcher, stage by stage.
LEMMA Dispatch ==
    ASSUME NEW a, NEW s
    PROVE  /\ a.stage = "handshake" =>
                tunnel_ssr_dispatcher(a, s) = do_s5_handshake(AckRead(a, "incoming"))
           /\ a.stage = "handshake_replied" =>
                tunnel_ssr_dispatcher(a, s) =
                   {IF a.data.shortcut THEN do_socks5_reply_success(AckWrite(a, "incoming"))
                                       ELSE do_wait_client_app_s5_request(AckWrite(a, "incoming"))}
           /\ a.stage = "s5_request_from_client_app" =>
                tunnel_ssr_dispatcher(a, s) =
                   do_parse_s5_request_from_client_app(AckRead(a, "incoming"))
           /\ a.stage = "s5_udp_accoc" =>
                tunnel_ssr_dispatcher(a, s) = {tunnel_shutdown(AckWrite(a, "incoming"))}
           /\ a.stage = "s5_response_done" =>
                tunnel_ssr_dispatcher(a, s) =
                   IF a.data.first # <<>>
                   THEN do_common_connet_remote_server(AckWrite(a, "incoming"))
                   ELSE {GoTo(Read(AckWrite(a, "incoming"), "incoming", TRUE), "client_first_pkg")}
           /\ a.stage = "client_first_pkg" =>
                \A v \in tunnel_ssr_dispatcher(a, s) : \E p \in NextApp(a) :
                   v \in do_common_connet_remote_server(StoreTo(AckRead(a, "incoming"), <<p>>))
           /\ a.stage = "resolve_ssr_server_host_done" =>
                tunnel_ssr_dispatcher(a, s) = do_resolve_ssr_server_host_aftercare(a)
           /\ a.stage = "connect_ssr_server_done" =>
                tunnel_ssr_dispatcher(a, s) = do_ssr_send_auth_package_to_server(a)
           /\ a.stage = "ssr_auth_sent" =>
                tunnel_ssr_dispatcher(a, s) = do_ssr_waiting_server_feedback(AckWrite(a, "outgoing"))
           /\ a.stage = "ssr_server_feedback_arrived" =>
                \A v \in tunnel_ssr_dispatcher(a, s) : \E g \in NextSegments(a) :
                   v \in do_ssr_receipt_for_feedback(AckRead(a, "outgoing"), g)
           /\ a.stage = "ssr_receipt_to_server_sent" =>
                tunnel_ssr_dispatcher(a, s) =
                   do_action_after_auth_server_success(AckWrite(a, "outgoing"))
           /\ a.stage = "streaming" =>
                tunnel_ssr_dispatcher(a, s) = tunnel_ssr_client_streaming(a, s)
           /\ a.stage = "kill" => tunnel_ssr_dispatcher(a, s) = {tunnel_shutdown(a)}
  BY DEF tunnel_ssr_dispatcher, StoreTo

-----------------------------------------------------------------------------
(* The callbacks of a live tunnel. *)

\* A live tunnel can be shut down at any moment.
LEMMA LiveQuit ==
    ASSUME NEW u, NEW i, NEW o, NEW st, NEW d, Is(u, i, o, st, d), StageOK(st, i, o, d)
    PROVE  Quittable(d) /\ Short(i) /\ Short(o)
  <1>0. i \in OpenSocket /\ o \in OpenSocket
    BY DEF Is, LiveTunnel, Side
  <1>1. ASSUME Reading(i) \/ Writing(i) \/ Quiet(i),
               Unused(o) \/ Looking(o) \/ Dialling(o) \/ Writing(o) \/ Reading(o)
        PROVE  Short(i) /\ Short(o)
    BY <1>1, ShortFacts
  <1>2. CASE AtHandshake(st, i, o, d)
    BY <1>1, <1>2, EarlyQuit DEF AtHandshake
  <1>3. CASE AtReplied(st, i, o, d)
    BY <1>1, <1>3, EarlyQuit DEF AtReplied
  <1>4. CASE AtRequest(st, i, o, d)
    BY <1>1, <1>4, EarlyQuit DEF AtRequest
  <1>5. CASE AtAssoc(st, i, o, d)
    BY <1>1, <1>5, EarlyQuit DEF AtAssoc
  <1>6. CASE AtResponse(st, i, o, d)
    BY <1>1, <1>6, EarlyQuit DEF AtResponse
  <1>7. CASE AtFirst(st, i, o, d)
    BY <1>1, <1>7, EarlyQuit DEF AtFirst
  <1>8. CASE AtResolve(st, i, o, d)
    BY <1>1, <1>8, EarlyQuit DEF AtResolve
  <1>9. CASE AtConnect(st, i, o, d)
    BY <1>1, <1>9, EarlyQuit DEF AtConnect
  <1>10. ASSUME Opened(d)
         PROVE  Quittable(d)
    <2>1. Packed(d) /\ d.bad = {}
      BY <1>10 DEF Opened
    <2>2. Up(d, <<>>)
      BY <1>10, OpenedUp
    <2> QED BY <2>1, <2>2, OpenQuit
  <1>11. CASE AtAuth(st, i, o, d)
    BY <1>1, <1>10, <1>11 DEF AtAuth
  <1>12. CASE AtFeedback(st, i, o, d)
    BY <1>1, <1>10, <1>12 DEF AtFeedback
  <1>13. CASE AtReceipt(st, i, o, d)
    <2>1. Packed(d) /\ Up(d, <<>>) /\ d.bad \subseteq {"decode", "feedback_data", "late_feedback"}
      BY <1>13 DEF AtReceipt, Judged, Verdict
    <2> QED BY <1>1, <1>13, <2>1, OpenQuit DEF AtReceipt
  <1>14. CASE AtStreaming(st, i, o, d)
    BY <1>0, <1>14, StreamQuit, StreamShort DEF AtStreaming
  <1>15. CASE AtKill(st, i, o, d)
    BY <1>1, <1>15, EarlyQuit DEF AtKill
  <1> QED BY <1>2, <1>3, <1>4, <1>5, <1>6, <1>7, <1>8, <1>9, <1>11, <1>12, <1>13, <1>14, <1>15
             DEF StageOK

\* What ReadEnter makes of a socket.
Entered(k, str, status) ==
    [k EXCEPT !.result  = IF status = "data" THEN "ok" ELSE "err",
              !.reading = str /\ status = "data",
              !.ticking = FALSE,
              !.rdstate = IF status = "data" THEN "done" ELSE "stop"]

\* The socket has its other fields still.
LEMMA EnteredSock ==
    ASSUME NEW k, NEW rd, NEW wr, NEW rg, NEW ws, NEW co, NEW cg, NEW dn,
           Sock(k, rd, wr, rg, ws, co, cg, dn),
           NEW str \in BOOLEAN, NEW status \in {"data", "eof", "error"}
    PROVE  Sock(Entered(k, str, status), IF status = "data" THEN "done" ELSE "stop", wr,
                str /\ status = "data", ws, co, cg, dn)
  <1> DEFINE res == IF status = "data" THEN "ok" ELSE "err"
             x == IF status = "data" THEN "done" ELSE "stop"
             r == str /\ status = "data"
  <1>1. res \in {"ok", "err"} /\ x \in {"stop", "busy", "done"} /\ r \in BOOLEAN
    OBVIOUS
  <1>2. Entered(k, str, status) = [k EXCEPT !.result = res, !.reading = r, !.ticking = FALSE,
                                            !.rdstate = x]
    BY DEF Entered
  <1> HIDE DEF res, x, r
  <1>3. Sock(Entered(k, str, status), x, wr, r, ws, co, cg, dn)
    <2> DEFINE n == [k EXCEPT !.result = res, !.reading = r, !.ticking = FALSE, !.rdstate = x]
    <2>1. Sock(n, x, wr, r, ws, co, cg, dn)
      BY <1>1, ZenonT(60) DEF Sock, OpenSocket
    <2>2. Entered(k, str, status) = n
      BY <1>2
    <2> HIDE DEF n
    <2> QED BY <2>1, <2>2
  <1> QED BY <1>3 DEF x, r

\* ReadEnter on either socket.
LEMMA EnterIn ==
    ASSUME NEW u, NEW i, NEW o, NEW st, NEW d, Is(u, i, o, st, d), NEW status,
           st = "streaming" \/ i.rdstate = "busy", NEW str \in BOOLEAN, str <=> st = "streaming",
           Entered(i, str, status) \in OpenSocket
    PROVE  Is(ReadEnter(u, "incoming", status), Entered(i, str, status), o, st, d)
  <1>1. u.sock["incoming"] = i /\ is_in_streaming(u) = str
    BY StreamingStage DEF Is, is_in_streaming
  <1>2. ReadEnter(u, "incoming", status) = Put(u, "incoming", Entered(i, str, status))
    BY <1>1 DEF ReadEnter, Entered, Assert
  <1> QED BY <1>2, PutIn

\* Likewise.
LEMMA EnterOut ==
    ASSUME NEW u, NEW i, NEW o, NEW st, NEW d, Is(u, i, o, st, d), NEW status,
           st = "streaming" \/ o.rdstate = "busy", NEW str \in BOOLEAN, str <=> st = "streaming",
           Entered(o, str, status) \in OpenSocket
    PROVE  Is(ReadEnter(u, "outgoing", status), i, Entered(o, str, status), st, d)
  <1>1. u.sock["outgoing"] = o /\ is_in_streaming(u) = str
    BY StreamingStage DEF Is, is_in_streaming
  <1>2. ReadEnter(u, "outgoing", status) = Put(u, "outgoing", Entered(o, str, status))
    BY <1>1 DEF ReadEnter, Entered, Assert
  <1> QED BY <1>2, PutOut

\* The awaited data of the application arrives, and is acknowledged.
LEMMA GotIn ==
    ASSUME NEW u, NEW i, NEW o, NEW st, NEW d, Is(u, i, o, st, d), Reading(i), st # "streaming",
           NEW a, a = ReadEnter(u, "incoming", "data")
    PROVE  \E j, k : /\ Is(a, j, o, st, d) /\ Is(AckRead(a, "incoming"), k, o, st, d) /\ Quiet(k)
  <1> DEFINE str == FALSE
             status == "data"
             j == Entered(i, str, status)
             k == [j EXCEPT !.rdstate = "stop"]
             stop == "stop"
  <1>0. str \in BOOLEAN /\ (str <=> st = "streaming") /\ status \in {"data", "eof", "error"}
        /\ stop \in {"stop", "busy", "done"}
    OBVIOUS
  <1>1. /\ Sock(i, i.rdstate, i.wrstate, i.reading, i.writes, i.connected, i.connecting, i.dns)
        /\ i.rdstate = "busy" /\ i.wrstate = "stop" /\ i.writes = <<>> /\ i.connected = TRUE
        /\ i.connecting = FALSE /\ i.dns = "none"
    BY DEF Reading, Sock
  <1> HIDE DEF j
  <1>2. Sock(j, "done", i.wrstate, FALSE, i.writes, i.connected, i.connecting, i.dns)
    <2>1. Sock(j, IF status = "data" THEN "done" ELSE "stop", i.wrstate, str /\ status = "data",
               i.writes, i.connected, i.connecting, i.dns)
      BY <1>0, <1>1, EnteredSock DEF j
    <2> QED BY <2>1
  <1>3. j \in OpenSocket /\ j.rdstate = "done"
    BY <1>2 DEF Sock
  <1>4. Is(a, j, o, st, d)
    <2> HIDE DEF str, status
    <2>1. Is(ReadEnter(u, "incoming", status), j, o, st, d)
      BY <1>0, <1>1, <1>3, EnterIn DEF j
    <2> QED BY <2>1 DEF status
  <1> HIDE DEF stop
  <1>6. Sock(k, "stop", i.wrstate, FALSE, i.writes, i.connected, i.connecting, i.dns)
    <2>1. k = [j EXCEPT !.rdstate = stop]
      BY DEF stop
    <2> HIDE DEF k
    <2>2. Sock(k, stop, i.wrstate, FALSE, i.writes, i.connected, i.connecting, i.dns)
      BY <1>0, <1>2, <2>1, ZenonT(60) DEF Sock, OpenSocket
    <2> QED BY <2>2 DEF stop
  <1>7. Quiet(k) /\ k \in OpenSocket /\ k = [j EXCEPT !.rdstate = "stop"]
    <2> HIDE DEF k
    <2>1. Quiet(k) /\ k \in OpenSocket
      BY <1>1, <1>6 DEF Quiet, Sock
    <2> QED BY <2>1 DEF k
  <1> HIDE DEF k
  <1>8. Is(AckRead(a, "incoming"), k, o, st, d)
    BY <1>3, <1>4, <1>7, AckReadIn
  <1> QED BY <1>4, <1>7, <1>8

\* Likewise the data of the server.
LEMMA GotOut ==
    ASSUME NEW u, NEW i, NEW o, NEW st, NEW d, Is(u, i, o, st, d), Reading(o), st # "streaming",
           NEW a, a = ReadEnter(u, "outgoing", "data")
    PROVE  \E j, k : /\ Is(a, i, j, st, d) /\ Is(AckRead(a, "outgoing"), i, k, st, d) /\ Quiet(k)
  <1> DEFINE str == FALSE
             status == "data"
             j == Entered(o, str, status)
             k == [j EXCEPT !.rdstate = "stop"]
             stop == "stop"
  <1>0. str \in BOOLEAN /\ (str <=> st = "streaming") /\ status \in {"data", "eof", "error"}
        /\ stop \in {"stop", "busy", "done"}
    OBVIOUS
  <1>1. /\ Sock(o, o.rdstate, o.wrstate, o.reading, o.writes, o.connected, o.connecting, o.dns)
        /\ o.rdstate = "busy" /\ o.wrstate = "stop" /\ o.writes = <<>> /\ o.connected = TRUE
        /\ o.connecting = FALSE /\ o.dns = "none"
    BY DEF Reading, Sock
  <1> HIDE DEF j
  <1>2. Sock(j, "done", o.wrstate, FALSE, o.writes, o.connected, o.connecting, o.dns)
    <2>1. Sock(j, IF status = "data" THEN "done" ELSE "stop", o.wrstate, str /\ status = "data",
               o.writes, o.connected, o.connecting, o.dns)
      BY <1>0, <1>1, EnteredSock DEF j
    <2> QED BY <2>1
  <1>3. j \in OpenSocket /\ j.rdstate = "done"
    BY <1>2 DEF Sock
  <1>4. Is(a, i, j, st, d)
    <2> HIDE DEF str, status
    <2>1. Is(ReadEnter(u, "outgoing", status), i, j, st, d)
      BY <1>0, <1>1, <1>3, EnterOut DEF j
    <2> QED BY <2>1 DEF status
  <1> HIDE DEF stop
  <1>6. Sock(k, "stop", o.wrstate, FALSE, o.writes, o.connected, o.connecting, o.dns)
    <2>1. k = [j EXCEPT !.rdstate = stop]
      BY DEF stop
    <2> HIDE DEF k
    <2>2. Sock(k, stop, o.wrstate, FALSE, o.writes, o.connected, o.connecting, o.dns)
      BY <1>0, <1>2, <2>1, ZenonT(60) DEF Sock, OpenSocket
    <2> QED BY <2>2 DEF stop
  <1>7. Quiet(k) /\ k \in OpenSocket /\ k = [j EXCEPT !.rdstate = "stop"]
    <2> HIDE DEF k
    <2>1. Quiet(k) /\ k \in OpenSocket
      BY <1>1, <1>6 DEF Quiet, Sock
    <2> QED BY <2>1 DEF k
  <1> HIDE DEF k
  <1>8. Is(AckRead(a, "outgoing"), i, k, st, d)
    BY <1>3, <1>4, <1>7, AckReadOut
  <1> QED BY <1>4, <1>7, <1>8

\* Data arrives at a socket that streams, and is acknowledged.
LEMMA GotFlow ==
    ASSUME NEW k, Flow(k), NEW j, j = Entered(k, TRUE, "data"),
           NEW n, n = [j EXCEPT !.rdstate = "stop"]
    PROVE  /\ j \in OpenSocket /\ j.rdstate = "done" /\ j.wrstate # "done"
           /\ n \in OpenSocket /\ Flow(n) /\ n.writes = k.writes
  <1> DEFINE str == TRUE
             status == "data"
             stop == "stop"
             no == FALSE
             none == "none"
  <1>0. str \in BOOLEAN /\ status \in {"data", "eof", "error"} /\ stop \in {"stop", "busy", "done"}
    OBVIOUS
  <1>1. /\ Sock(k, k.rdstate, k.wrstate, str, k.writes, str, no, none)
        /\ k.wrstate \in {"stop", "busy"}
    BY DEF Flow
  <1>2. j = Entered(k, str, status)
    OBVIOUS
  <1> HIDE DEF str, status, no, none
  <1>3. Sock(Entered(k, str, status), IF status = "data" THEN "done" ELSE "stop", k.wrstate,
             str /\ status = "data", k.writes, str, no, none)
    BY <1>0, <1>1, EnteredSock
  <1>4. Sock(j, "done", k.wrstate, TRUE, k.writes, str, no, none)
    <2>1. (IF status = "data" THEN "done" ELSE "stop") = "done" /\ (str /\ status = "data") = TRUE
      BY DEF str, status
    <2> QED BY <1>2, <1>3, <2>1
  <1> HIDE DEF stop
  <1>6. n = [j EXCEPT !.rdstate = stop]
    BY DEF stop
  <1>7. Sock(n, stop, k.wrstate, TRUE, k.writes, str, no, none)
    BY <1>0, <1>4, <1>6, ZenonT(60) DEF Sock, OpenSocket
  <1>8. Flow(n) /\ n \in OpenSocket /\ n.writes = k.writes
    BY <1>1, <1>7 DEF Flow, Sock, str, no, none, stop
  <1>9. j \in OpenSocket /\ j.rdstate = "done" /\ j.wrstate # "done"
    BY <1>1, <1>4 DEF Sock
  <1> QED BY <1>8, <1>9

\* Streaming does not depend on the states of the sockets but on their writes.
LEMMA StreamSame ==
    ASSUME NEW i, NEW o, NEW d, Streaming(i, o, d), NEW j, NEW k,
           Len(j.writes) <= Len(i.writes), Len(k.writes) <= Len(o.writes),
           i \in OpenSocket, o \in OpenSocket, j \in OpenSocket, k \in OpenSocket
    PROVE  Streaming(j, k, d)
  <1>1. d.app \in Nat /\ d.srv \in Nat /\ One(d.cipher.reply # "part") \in {0, 1}
    BY CtxOf DEF Streaming, One
  <1>2. /\ Len(i.writes) \in Nat /\ Len(o.writes) \in Nat
        /\ Len(j.writes) \in Nat /\ Len(k.writes) \in Nat
    BY DEF OpenSocket
  <1>3. Len(o.writes) <= d.app /\ Len(i.writes) <= d.srv + One(d.cipher.reply # "part")
    BY DEF Streaming
  <1>4. Len(k.writes) <= d.app /\ Len(j.writes) <= d.srv + One(d.cipher.reply # "part")
    BY <1>1, <1>2, <1>3
  <1> QED BY <1>4 DEF Streaming

\* Where a read of the application's socket, or of the server's, is in progress.
LEMMA WhoReads ==
    ASSUME NEW st, NEW i, NEW o, NEW d, StageOK(st, i, o, d)
    PROVE  /\ i.reading => \/ AtHandshake(st, i, o, d) \/ AtRequest(st, i, o, d)
                           \/ AtFirst(st, i, o, d) \/ AtStreaming(st, i, o, d)
           /\ o.reading => AtFeedback(st, i, o, d) \/ AtStreaming(st, i, o, d)
  <1>1. ASSUME NEW k
        PROVE  Unused(k) \/ Looking(k) \/ Dialling(k) \/ Quiet(k) \/ Writing(k) => ~k.reading
    BY DEF Unused, Looking, Dialling, Quiet, Writing, Sock
  <1>2. CASE AtReplied(st, i, o, d) \/ AtAssoc(st, i, o, d) \/ AtResponse(st, i, o, d)
             \/ AtKill(st, i, o, d)
    BY <1>1, <1>2 DEF AtReplied, AtAssoc, AtResponse, AtKill
  <1>3. CASE AtResolve(st, i, o, d) \/ AtConnect(st, i, o, d) \/ AtAuth(st, i, o, d)
             \/ AtReceipt(st, i, o, d)
    BY <1>1, <1>3 DEF AtResolve, AtConnect, AtAuth, AtReceipt
  <1>4. CASE AtHandshake(st, i, o, d) \/ AtRequest(st, i, o, d) \/ AtFirst(st, i, o, d)
    BY <1>1, <1>4 DEF AtHandshake, AtRequest, AtFirst
  <1>5. CASE AtFeedback(st, i, o, d)
    BY <1>1, <1>5 DEF AtFeedback
  <1> QED BY <1>2, <1>3, <1>4, <1>5 DEF StageOK

\* The first packet is stored.
LEMMA StoreFirst ==
    ASSUME NEW u, NEW i, NEW o, NEW st, NEW d, Is(u, i, o, st, d), Early(d, 0),
           NEW p, p = AppData(d.app + 1), d.app + 1 \in 1 .. MaxData
    PROVE  \E e : /\ Is(StoreTo(u, <<p>>), i, o, st, e) /\ Early(e, 1)
                  /\ e.sent["incoming"] = d.sent["incoming"]
  <1> DEFINE buf == <<p>>
             m == d.app + 1
             f == [d EXCEPT !.first = buf]
             e == StoreIs(d, buf)
  <1>0. d \in ClientCtx /\ d.app = 0 /\ m = 1 /\ m \in 0 .. MaxData
    BY DEF Early
  <1>1. buf = <<AppData(1)>> /\ buf \in Seq(Items)
    BY <1>0, ItemsFacts
  <1>2. e = [f EXCEPT !.app = m]
    BY <1>0 DEF StoreIs, ClientCtx
  <1>3. Ctx(f, d.shortcut, buf, d.cipher, d.app, d.srv,
            d.sent["incoming"], d.sent["outgoing"], d.bad)
    <2> HIDE DEF buf
    <2> QED BY <1>0, <1>1, CtxOf, CtxFirst
  <1> HIDE DEF m, f, e
  <1>4. Ctx(e, d.shortcut, buf, d.cipher, m, d.srv,
            d.sent["incoming"], d.sent["outgoing"], d.bad)
    <2> HIDE DEF buf
    <2> QED BY <1>0, <1>2, <1>3, CtxApp
  <1>5. e \in ClientCtx
    BY <1>4 DEF Ctx
  <1>6. Is(StoreTo(u, buf), i, o, st, e)
    <2> HIDE DEF buf
    <2> QED BY <1>5, SetStore DEF e
  <1>7. Early(e, 1) /\ e.sent["incoming"] = d.sent["incoming"]
    <2> HIDE DEF buf
    <2> QED BY <1>0, <1>1, <1>4 DEF Early, Ctx
  <1> QED BY <1>6, <1>7

\* Data arrives on the application's socket.
LEMMA DataIn ==
    ASSUME NEW u, NEW i, NEW o, NEW st, NEW d, Is(u, i, o, st, d), StageOK(st, i, o, d),
           i.reading, NEW a, a = ReadEnter(u, "incoming", "data"),
           NEW v \in tunnel_ssr_dispatcher(a, "incoming")
    PROVE  Good(v)
  <1>1. CASE AtHandshake(st, i, o, d)
    <2>1. /\ st = "handshake" /\ Reading(i) /\ Unused(o) /\ Early(d, 0)
          /\ d.sent["incoming"] = <<>> /\ ~d.shortcut
      BY <1>1 DEF AtHandshake
    <2>2. PICK j, k : /\ Is(a, j, o, st, d) /\ Is(AckRead(a, "incoming"), k, o, st, d) /\ Quiet(k)
      BY <2>1, GotIn
    <2>3. v \in do_s5_handshake(AckRead(a, "incoming"))
      BY <2>1, <2>2, Dispatch DEF Is
    <2> QED BY <2>1, <2>2, <2>3, S5Handshake
  <1>2. CASE AtRequest(st, i, o, d)
    <2>1. /\ st = "s5_request_from_client_app" /\ Reading(i) /\ Unused(o) /\ Early(d, 0)
          /\ d.sent["incoming"] = Greeted
      BY <1>2 DEF AtRequest
    <2>2. PICK j, k : /\ Is(a, j, o, st, d) /\ Is(AckRead(a, "incoming"), k, o, st, d) /\ Quiet(k)
      BY <2>1, GotIn
    <2>3. v \in do_parse_s5_request_from_client_app(AckRead(a, "incoming"))
      BY <2>1, <2>2, Dispatch DEF Is
    <2> QED BY <2>1, <2>2, <2>3, ParseRequest
  <1>3. CASE AtFirst(st, i, o, d)
    <2>1. /\ st = "client_first_pkg" /\ Reading(i) /\ Unused(o) /\ Early(d, 0)
          /\ d.sent["incoming"] = Answered
      BY <1>3 DEF AtFirst
    <2>2. PICK j, k : /\ Is(a, j, o, st, d) /\ Is(AckRead(a, "incoming"), k, o, st, d) /\ Quiet(k)
      BY <2>1, GotIn
    <2>3. PICK p \in NextApp(a) :
             v \in do_common_connet_remote_server(StoreTo(AckRead(a, "incoming"), <<p>>))
      <3>1. a.stage = "client_first_pkg"
        BY <2>1, <2>2 DEF Is
      <3> QED BY <3>1, Dispatch
    <2>4. p = AppData(d.app + 1) /\ d.app + 1 \in 1 .. MaxData
      BY <2>2, AppNext
    <2> DEFINE b == AckRead(a, "incoming")
    <2> HIDE DEF b
    <2>5. Is(b, k, o, st, d)
      BY <2>2 DEF b
    <2>6. PICK e : /\ Is(StoreTo(b, <<p>>), k, o, st, e) /\ Early(e, 1)
                   /\ e.sent["incoming"] = d.sent["incoming"]
      BY <2>1, <2>4, <2>5, StoreFirst
    <2> DEFINE w == StoreTo(b, <<p>>)
    <2>7. v \in do_common_connet_remote_server(w)
      BY <2>3 DEF b
    <2> HIDE DEF w
    <2>8. Is(w, k, o, st, e)
      BY <2>6 DEF w
    <2> QED BY <2>1, <2>2, <2>6, <2>7, <2>8, ConnectRemote
  <1>4. CASE AtStreaming(st, i, o, d)
    <2> DEFINE str == TRUE
               status == "data"
               j == Entered(i, str, status)
               k == [j EXCEPT !.rdstate = "stop"]
    <2>1. st = "streaming" /\ Flow(i) /\ Flow(o) /\ Streaming(i, o, d)
      BY <1>4 DEF AtStreaming
    <2>2. j = Entered(i, TRUE, "data") /\ k = [j EXCEPT !.rdstate = "stop"]
      OBVIOUS
    <2>3. str \in BOOLEAN /\ (str <=> st = "streaming") /\ a = ReadEnter(u, "incoming", status)
      BY <2>1
    <2> HIDE DEF j, k, str, status
    <2>4. /\ j \in OpenSocket /\ j.rdstate = "done" /\ j.wrstate # "done"
          /\ k \in OpenSocket /\ Flow(k) /\ k.writes = i.writes
      BY <2>1, <2>2, GotFlow
    <2>5. Is(a, j, o, st, d)
      BY <2>1, <2>3, <2>4, EnterIn DEF j
    <2>6. Is(AckRead(a, "incoming"), k, o, st, d)
      BY <2>2, <2>4, <2>5, AckReadIn
    <2>7. a.stage = "streaming" /\ a.sock["incoming"].wrstate # "done"
      BY <2>1, <2>4, <2>5 DEF Is
    <2>8. v \in RelayUp(AckRead(a, "incoming"))
      BY <2>7, Dispatch DEF tunnel_ssr_client_streaming
    <2>9. Streaming(k, o, d)
      <3>0. i \in OpenSocket /\ o \in OpenSocket
        BY <2>1 DEF Flow, Sock
      <3>1. Len(i.writes) \in Nat /\ Len(o.writes) \in Nat
        BY <3>0 DEF OpenSocket
      <3> QED BY <2>1, <2>4, <3>0, <3>1, StreamSame
    <2> DEFINE b == AckRead(a, "incoming")
    <2> HIDE DEF b
    <2>10. Is(b, k, o, "streaming", d) /\ v \in RelayUp(b)
      BY <2>1, <2>6, <2>8 DEF b
    <2> QED BY <2>1, <2>4, <2>9, <2>10, RelayUpGood
  <1> QED BY <1>1, <1>2, <1>3, <1>4, WhoReads

\* Data arrives on the server's socket.
LEMMA DataOut ==
    ASSUME NEW u, NEW i, NEW o, NEW st, NEW d, Is(u, i, o, st, d), StageOK(st, i, o, d),
           o.reading, NEW a, a = ReadEnter(u, "outgoing", "data"),
           NEW v \in tunnel_ssr_dispatcher(a, "outgoing")
    PROVE  Good(v)
  <1>1. CASE AtFeedback(st, i, o, d)
    <2>1. /\ st = "ssr_server_feedback_arrived" /\ Quiet(i) /\ Reading(o) /\ Opened(d)
          /\ d.cipher.mode # "plain"
      BY <1>1 DEF AtFeedback
    <2>2. PICK j, k : /\ Is(a, i, j, st, d) /\ Is(AckRead(a, "outgoing"), i, k, st, d) /\ Quiet(k)
      BY <2>1, GotOut
    <2>3. PICK g \in NextSegments(a) : v \in do_ssr_receipt_for_feedback(AckRead(a, "outgoing"), g)
      <3>1. a.stage = "ssr_server_feedback_arrived"
        BY <2>1, <2>2 DEF Is
      <3> QED BY <3>1, Dispatch
    <2>4. SegBad(g, d) \/ SegPart(g, d) \/ SegRest(g, d) \/ SegData(g, d)
      BY <2>2, SegNext
    <2> DEFINE b == AckRead(a, "outgoing")
    <2> HIDE DEF b
    <2>5. Is(b, i, k, st, d) /\ v \in do_ssr_receipt_for_feedback(b, g)
      BY <2>2, <2>3 DEF b
    <2> QED BY <2>1, <2>2, <2>4, <2>5, ReceiptForFeedback
  <1>2. CASE AtStreaming(st, i, o, d)
    <2> DEFINE str == TRUE
               status == "data"
               j == Entered(o, str, status)
               k == [j EXCEPT !.rdstate = "stop"]
    <2>1. st = "streaming" /\ Flow(i) /\ Flow(o) /\ Streaming(i, o, d)
      BY <1>2 DEF AtStreaming
    <2>2. j = Entered(o, TRUE, "data") /\ k = [j EXCEPT !.rdstate = "stop"]
      OBVIOUS
    <2>3. str \in BOOLEAN /\ (str <=> st = "streaming") /\ a = ReadEnter(u, "outgoing", status)
      BY <2>1
    <2> HIDE DEF j, k, str, status
    <2>4. /\ j \in OpenSocket /\ j.rdstate = "done" /\ j.wrstate # "done"
          /\ k \in OpenSocket /\ Flow(k) /\ k.writes = o.writes
      BY <2>1, <2>2, GotFlow
    <2>5. Is(a, i, j, st, d)
      BY <2>1, <2>3, <2>4, EnterOut DEF j
    <2>6. Is(AckRead(a, "outgoing"), i, k, st, d)
      BY <2>2, <2>4, <2>5, AckReadOut
    <2>7. a.stage = "streaming" /\ a.sock["outgoing"].wrstate # "done"
      BY <2>1, <2>4, <2>5 DEF Is
    <2>8. v \in RelayDown(AckRead(a, "outgoing"))
      BY <2>7, Dispatch DEF tunnel_ssr_client_streaming
    <2>9. Streaming(i, k, d)
      <3>0. i \in OpenSocket /\ o \in OpenSocket
        BY <2>1 DEF Flow, Sock
      <3>1. Len(i.writes) \in Nat /\ Len(o.writes) \in Nat
        BY <3>0 DEF OpenSocket
      <3> QED BY <2>1, <2>4, <3>0, <3>1, StreamSame
    <2> DEFINE b == AckRead(a, "outgoing")
    <2> HIDE DEF b
    <2>10. Is(b, i, k, "streaming", d) /\ v \in RelayDown(b)
      BY <2>1, <2>6, <2>8 DEF b
    <2> QED BY <2>1, <2>4, <2>9, <2>10, RelayDownGood
  <1> QED BY <1>1, <1>2, WhoReads

\* Only one stage streams.
LEMMA OnlyStreaming ==
    ASSUME NEW st, NEW i, NEW o, NEW d, StageOK(st, i, o, d), st = "streaming"
    PROVE  AtStreaming(st, i, o, d)
  BY DEF StageOK, AtHandshake, AtReplied, AtRequest, AtAssoc, AtResponse, AtFirst, AtResolve,
         AtConnect, AtAuth, AtFeedback, AtReceipt, AtKill

\* The timer of a socket that streams is started again.
LEMMA FlowTimer ==
    ASSUME NEW k, Flow(k), NEW n, n = socket_ctx_timer_start(k)
    PROVE  Flow(n) /\ n \in OpenSocket /\ n.writes = k.writes
  <1> DEFINE none == "none"
  <1>1. /\ Sock(k, k.rdstate, k.wrstate, TRUE, k.writes, TRUE, FALSE, none)
        /\ k.rdstate \in {"stop", "busy"} /\ k.wrstate \in {"stop", "busy"}
    BY DEF Flow
  <1> HIDE DEF none
  <1>2. Sock(n, k.rdstate, k.wrstate, TRUE, k.writes, TRUE, FALSE, none)
    BY <1>1, SockTimer
  <1> QED BY <1>1, <1>2 DEF Flow, Sock, none

\* A live tunnel streams on with sockets that stream and have no more writes.
LEMMA StreamOn ==
    ASSUME NEW u, NEW i, NEW o, NEW d, NEW j, NEW k, Is(u, j, k, "streaming", d),
           Flow(i), Flow(o), Streaming(i, o, d), Flow(j), Flow(k),
           Len(j.writes) <= Len(i.writes), Len(k.writes) <= Len(o.writes)
    PROVE  Good(u)
  <1>1. i \in OpenSocket /\ o \in OpenSocket /\ j \in OpenSocket /\ k \in OpenSocket
    BY DEF Flow, Sock
  <1>2. Streaming(j, k, d)
    BY <1>1, StreamSame
  <1> DEFINE st == "streaming"
  <1>3. StageOK(st, j, k, d) /\ Is(u, j, k, st, d)
    BY <1>2 DEF StageOK, AtStreaming
  <1> HIDE DEF st
  <1> QED BY <1>3, GoodLive

\* ReadLeave leaves a good tunnel good.
LEMMA LeaveGood ==
    ASSUME NEW v, Good(v), NEW s \in Side
    PROVE  Good(ReadLeave(v, s))
  <1> DEFINE i == v.sock["incoming"]
             o == v.sock["outgoing"]
             st == v.stage
             d == v.data
             k == socket_ctx_timer_start(v.sock[s])
  <1>1. CASE DeadOK(v)
    <2>1. v.is_terminated = TRUE
      BY <1>1 DEF DeadOK, DeadTunnel
    <2>2. ReadLeave(v, s) = v
      BY <2>1 DEF ReadLeave
    <2> QED BY <2>2
  <1>2. CASE LiveOK(v) /\ is_in_streaming(v) /\ v.sock[s].check_timeout
    <2>1. Is(v, i, o, st, d) /\ StageOK(st, i, o, d)
      BY <1>2, IsOf DEF LiveOK
    <2>2. v.is_terminated = FALSE
      BY <1>2 DEF LiveOK, LiveTunnel
    <2>3. ReadLeave(v, s) = Put(v, s, k)
      BY <1>2, <2>2 DEF ReadLeave
    <2>4. st = "streaming"
      BY <1>2, <2>1, StreamingStage
    <2>5. Flow(i) /\ Flow(o) /\ Streaming(i, o, d)
      BY <2>1, <2>4, OnlyStreaming DEF AtStreaming
    <2>6. i \in OpenSocket /\ o \in OpenSocket
      BY <2>5 DEF Flow, Sock
    <2>7. Len(i.writes) \in Nat /\ Len(o.writes) \in Nat
      BY <2>6 DEF OpenSocket
    <2>8. CASE s = "incoming"
      <3>1. k = socket_ctx_timer_start(i)
        BY <2>8
      <3> HIDE DEF k, i, o, st, d
      <3>2. Flow(k) /\ k \in OpenSocket /\ k.writes = i.writes
        BY <2>5, <3>1, FlowTimer
      <3>3. Is(Put(v, "incoming", k), k, o, st, d)
        BY <2>1, <3>2, PutIn
      <3> QED BY <2>3, <2>4, <2>5, <2>7, <2>8, <3>2, <3>3, StreamOn
    <2>9. CASE s = "outgoing"
      <3>1. k = socket_ctx_timer_start(o)
        BY <2>9
      <3> HIDE DEF k, i, o, st, d
      <3>2. Flow(k) /\ k \in OpenSocket /\ k.writes = o.writes
        BY <2>5, <3>1, FlowTimer
      <3>3. Is(Put(v, "outgoing", k), i, k, st, d)
        BY <2>1, <3>2, PutOut
      <3> QED BY <2>3, <2>4, <2>5, <2>7, <2>9, <3>2, <3>3, StreamOn
    <2> QED BY <2>8, <2>9 DEF Side
  <1>3. CASE LiveOK(v) /\ ~(is_in_streaming(v) /\ v.sock[s].check_timeout)
    <2>1. ReadLeave(v, s) = v
      BY <1>3 DEF ReadLeave
    <2> QED BY <2>1
  <1> QED BY <1>1, <1>2, <1>3 DEF Good

\* Every socket that is being read has its read in progress, or streams.
LEMMA ReadBusy ==
    ASSUME NEW st, NEW i, NEW o, NEW d, StageOK(st, i, o, d)
    PROVE  /\ i.reading => st = "streaming" \/ i.rdstate = "busy"
           /\ o.reading => st = "streaming" \/ o.rdstate = "busy"
  <1>1. ASSUME NEW k
        PROVE  Reading(k) => k.rdstate = "busy"
    BY DEF Reading, Sock
  <1>2. i.reading => st = "streaming" \/ i.rdstate = "busy"
    BY <1>1, WhoReads DEF AtHandshake, AtRequest, AtFirst, AtStreaming
  <1>3. o.reading => st = "streaming" \/ o.rdstate = "busy"
    BY <1>1, WhoReads DEF AtFeedback, AtStreaming
  <1> QED BY <1>2, <1>3

\* The end of file, or an error, on either socket.
LEMMA EofGood ==
    ASSUME NEW u, NEW i, NEW o, NEW st, NEW d, Is(u, i, o, st, d), StageOK(st, i, o, d),
           NEW status \in {"data", "eof", "error"}
    PROVE  /\ i.reading => Good(tunnel_shutdown(ReadEnter(u, "incoming", status)))
           /\ o.reading => Good(tunnel_shutdown(ReadEnter(u, "outgoing", status)))
  <1>0. Quittable(d) /\ Short(i) /\ Short(o)
    BY LiveQuit
  <1> DEFINE str == st = "streaming"
             x == IF status = "data" THEN "done" ELSE "stop"
             y == str /\ status = "data"
  <1>1. str \in BOOLEAN /\ (str <=> st = "streaming")
    OBVIOUS
  <1>2. i \in OpenSocket /\ o \in OpenSocket
    BY IsOf DEF Is
  <1>3. /\ Sock(i, i.rdstate, i.wrstate, i.reading, i.writes, i.connected, i.connecting, i.dns)
        /\ Sock(o, o.rdstate, o.wrstate, o.reading, o.writes, o.connected, o.connecting, o.dns)
    BY <1>2 DEF Sock
  <1> HIDE DEF str
  <1>4. /\ Sock(Entered(i, str, status), x, i.wrstate, y, i.writes, i.connected, i.connecting, i.dns)
        /\ Sock(Entered(o, str, status), x, o.wrstate, y, o.writes, o.connected, o.connecting, o.dns)
    BY <1>1, <1>3, EnteredSock
  <1> HIDE DEF x, y
  <1> DEFINE j == Entered(i, str, status)
             k == Entered(o, str, status)
  <1>5. j \in OpenSocket /\ k \in OpenSocket /\ j.writes = i.writes /\ k.writes = o.writes
    BY <1>4 DEF Sock
  <1>6. Short(j) /\ Short(k)
    BY <1>0, <1>5 DEF Short
  <1>7. ASSUME i.reading
        PROVE  Good(tunnel_shutdown(ReadEnter(u, "incoming", status)))
    <2>1. Is(ReadEnter(u, "incoming", status), j, o, st, d)
      BY <1>1, <1>5, <1>7, ReadBusy, EnterIn
    <2> HIDE DEF j
    <2> QED BY <1>0, <1>6, <2>1, GoodShut
  <1>8. ASSUME o.reading
        PROVE  Good(tunnel_shutdown(ReadEnter(u, "outgoing", status)))
    <2>1. Is(ReadEnter(u, "outgoing", status), i, k, st, d)
      BY <1>1, <1>5, <1>8, ReadBusy, EnterOut
    <2> HIDE DEF k
    <2> QED BY <1>0, <1>6, <2>1, GoodShut
  <1> QED BY <1>7, <1>8

\* What the completion of a write makes of a socket, and of the tunnel.
Told(k, res) == [k EXCEPT !.writes = Tail(@), !.result = res]
Wrote(k, res, x) == [Told(k, res) EXCEPT !.wrstate = x]

Completed(u, s) ==
    Assert(Put(u, s, Wrote(u.sock[s], "ok", "done")),
           is_in_streaming(u) \/ Told(u.sock[s], "ok").wrstate = "busy", "on_written")

\* The socket has its other fields still.
LEMMA WroteSock ==
    ASSUME NEW k, NEW rd, NEW wr, NEW rg, NEW ws, NEW co, NEW cg, NEW dn,
           Sock(k, rd, wr, rg, ws, co, cg, dn), ws # <<>>, NEW res \in {"ok", "err"},
           NEW x \in {"stop", "busy", "done"}
    PROVE  /\ Sock(Wrote(k, res, x), rd, x, rg, Tail(ws), co, cg, dn)
           /\ Told(k, res).wrstate = wr
  <1> DEFINE n == Told(k, res)
             q == Tail(ws)
  <1>1. Sock(n, rd, wr, rg, q, co, cg, dn)
    BY SockWritten DEF Told
  <1>2. Wrote(k, res, x) = [n EXCEPT !.wrstate = x]
    BY DEF Wrote
  <1> HIDE DEF n, q
  <1>3. Sock([n EXCEPT !.wrstate = x], rd, x, rg, q, co, cg, dn)
    BY <1>1, ZenonT(60) DEF Sock, OpenSocket
  <1>4. n.wrstate = wr
    BY <1>1 DEF Sock
  <1> QED BY <1>2, <1>3, <1>4 DEF n, q

\* An acknowledged write.
LEMMA WroteAck ==
    ASSUME NEW k, NEW rd, NEW wr, NEW rg, NEW ws, NEW co, NEW cg, NEW dn,
           Sock(k, rd, wr, rg, ws, co, cg, dn), NEW n, n = [k EXCEPT !.wrstate = "stop"]
    PROVE  Sock(n, rd, "stop", rg, ws, co, cg, dn)
  <1> DEFINE x == "stop"
  <1>1. x \in {"stop", "busy", "done"} /\ n = [k EXCEPT !.wrstate = x]
    OBVIOUS
  <1> HIDE DEF x
  <1>2. Sock(n, rd, x, rg, ws, co, cg, dn)
    BY <1>1, ZenonT(60) DEF Sock, OpenSocket
  <1> QED BY <1>2 DEF x

\* The completion reaches a live tunnel.
LEMMA CompletedIs ==
    ASSUME NEW u, NEW i, NEW o, NEW st, NEW d, Is(u, i, o, st, d)
    PROVE  /\ (/\ Wrote(i, "ok", "done") \in OpenSocket
               /\ st = "streaming" \/ Told(i, "ok").wrstate = "busy") =>
                 Is(Completed(u, "incoming"), Wrote(i, "ok", "done"), o, st, d)
           /\ (/\ Wrote(o, "ok", "done") \in OpenSocket
               /\ st = "streaming" \/ Told(o, "ok").wrstate = "busy") =>
                 Is(Completed(u, "outgoing"), i, Wrote(o, "ok", "done"), st, d)
  <1>1. u.sock["incoming"] = i /\ u.sock["outgoing"] = o /\ (is_in_streaming(u) <=> st = "streaming")
    BY StreamingStage DEF Is
  <1>2. ASSUME Wrote(i, "ok", "done") \in OpenSocket,
               st = "streaming" \/ Told(i, "ok").wrstate = "busy"
        PROVE  Is(Completed(u, "incoming"), Wrote(i, "ok", "done"), o, st, d)
    <2>1. Completed(u, "incoming") = Put(u, "incoming", Wrote(i, "ok", "done"))
      BY <1>1, <1>2, Zenon DEF Completed, Assert
    <2> DEFINE k == Wrote(i, "ok", "done")
    <2> HIDE DEF k
    <2> QED BY <1>2, <2>1, PutIn DEF k
  <1>3. ASSUME Wrote(o, "ok", "done") \in OpenSocket,
               st = "streaming" \/ Told(o, "ok").wrstate = "busy"
        PROVE  Is(Completed(u, "outgoing"), i, Wrote(o, "ok", "done"), st, d)
    <2>1. Completed(u, "outgoing") = Put(u, "outgoing", Wrote(o, "ok", "done"))
      BY <1>1, <1>3, Zenon DEF Completed, Assert
    <2> DEFINE k == Wrote(o, "ok", "done")
    <2> HIDE DEF k
    <2> QED BY <1>3, <2>1, PutOut DEF k
  <1> QED BY <1>2, <1>3

Last(k, j, n) ==
    /\ j = Wrote(k, "ok", "done") /\ n = [j EXCEPT !.wrstate = "stop"]
    /\ j \in OpenSocket /\ j.wrstate = "done" /\ Short(j) /\ n \in OpenSocket /\ Quiet(n)
    /\ k.writes # <<>> /\ Told(k, "ok").wrstate = "busy"

\* The only write of a socket completes, and is acknowledged.
LEMMA LastWrite ==
    ASSUME NEW k, Writing(k), NEW j, j = Wrote(k, "ok", "done"),
           NEW n, n = [j EXCEPT !.wrstate = "stop"]
    PROVE  Last(k, j, n)
  <1> DEFINE ok == "ok"
             x == "done"
             stop == "stop"
             none == "none"
             busy == "busy"
             no == FALSE
             yes == TRUE
             ws == k.writes
             q == Tail(ws)
  <1>1. /\ Sock(k, stop, busy, no, ws, yes, no, none) /\ Len(ws) = 1
        /\ ws \in Seq(Seq(Items))
    BY DEF Writing, Sock, OpenSocket
  <1>2. ws # <<>> /\ q = <<>>
    <2> HIDE DEF ws
    <2>1. ws # <<>>
      BY <1>1
    <2>2. q \in Seq(Seq(Items)) /\ Len(q) = 0
      BY <1>1, <2>1
    <2> HIDE DEF q
    <2> QED BY <2>1, <2>2, EmptySeq
  <1>3. ok \in {"ok", "err"} /\ x \in {"stop", "busy", "done"} /\ j = Wrote(k, ok, x)
    OBVIOUS
  <1> HIDE DEF ok, x, none, busy, stop, ws, no, yes
  <1>4. /\ Sock(j, stop, x, no, q, yes, no, none)
        /\ Told(k, ok).wrstate = busy
    BY <1>1, <1>2, <1>3, WroteSock
  <1> HIDE DEF q
  <1>5. Sock(n, stop, "stop", no, q, yes, no, none)
    BY <1>4, WroteAck
  <1>6. j \in OpenSocket /\ j.wrstate = "done" /\ j.writes = <<>>
    BY <1>2, <1>4 DEF Sock, x
  <1>7. n \in OpenSocket /\ Quiet(n)
    BY <1>2, <1>5 DEF Sock, Quiet, stop, none, no, yes
  <1>8. Short(j)
    BY <1>6, MaxDataAssumption DEF Short
  <1> QED BY <1>2, <1>4, <1>6, <1>7, <1>8 DEF ok, busy, ws, Last

\* A reply to the application has been taken by the kernel.
LEMMA ReplyTaken ==
    ASSUME NEW u, NEW i, NEW o, NEW st, NEW d, Is(u, i, o, st, d), Writing(i),
           NEW a, a = Completed(u, "incoming")
    PROVE  \E j, n : /\ Is(a, j, o, st, d) /\ Short(j)
                     /\ Is(AckWrite(a, "incoming"), n, o, st, d) /\ Quiet(n)
  <1> DEFINE j == Wrote(i, "ok", "done")
             n == [j EXCEPT !.wrstate = "stop"]
  <1>1. Last(i, j, n)
    BY LastWrite
  <1>2. Is(a, j, o, st, d)
    BY <1>1, CompletedIs DEF Last
  <1>3. n = [j EXCEPT !.wrstate = "stop"]
    OBVIOUS
  <1> HIDE DEF j, n
  <1>4. Is(AckWrite(a, "incoming"), n, o, st, d)
    BY <1>1, <1>2, <1>3, AckWriteIn DEF Last
  <1> QED BY <1>1, <1>2, <1>4 DEF Last

\* A message to the server has.
LEMMA MessageTaken ==
    ASSUME NEW u, NEW i, NEW o, NEW st, NEW d, Is(u, i, o, st, d), Writing(o),
           NEW a, a = Completed(u, "outgoing")
    PROVE  \E j, n : /\ Is(a, i, j, st, d) /\ Short(j)
                     /\ Is(AckWrite(a, "outgoing"), i, n, st, d) /\ Quiet(n)
  <1> DEFINE j == Wrote(o, "ok", "done")
             n == [j EXCEPT !.wrstate = "stop"]
  <1>1. Last(o, j, n)
    BY LastWrite
  <1>2. Is(a, i, j, st, d)
    BY <1>1, CompletedIs DEF Last
  <1>3. n = [j EXCEPT !.wrstate = "stop"]
    OBVIOUS
  <1> HIDE DEF j, n
  <1>4. Is(AckWrite(a, "outgoing"), i, n, st, d)
    BY <1>1, <1>2, <1>3, AckWriteOut DEF Last
  <1> QED BY <1>1, <1>2, <1>4 DEF Last

Drained(k, j, n) ==
    /\ j = Wrote(k, "ok", "done") /\ n = [j EXCEPT !.wrstate = "stop"]
    /\ j \in OpenSocket /\ j.wrstate = "done" /\ n \in OpenSocket /\ Flow(n)
    /\ Len(n.writes) <= Len(k.writes)

\* A write of a socket that streams completes, and is acknowledged.
LEMMA FlowWrote ==
    ASSUME NEW k, Flow(k), k.writes # <<>>, NEW j, j = Wrote(k, "ok", "done"),
           NEW n, n = [j EXCEPT !.wrstate = "stop"]
    PROVE  Drained(k, j, n)
  <1> DEFINE ok == "ok"
             x == "done"
             none == "none"
             no == FALSE
             yes == TRUE
             ws == k.writes
             q == Tail(ws)
  <1>1. /\ Sock(k, k.rdstate, k.wrstate, yes, ws, yes, no, none)
        /\ k.rdstate \in {"stop", "busy"} /\ ws # <<>> /\ ws \in Seq(Seq(Items))
    BY DEF Flow, Sock, OpenSocket
  <1>2. Len(q) <= Len(ws)
    BY <1>1
  <1>3. ok \in {"ok", "err"} /\ x \in {"stop", "busy", "done"} /\ j = Wrote(k, ok, x)
    OBVIOUS
  <1> HIDE DEF ok, x, none, ws, no, yes
  <1>4. Sock(j, k.rdstate, x, yes, q, yes, no, none)
    BY <1>1, <1>3, WroteSock
  <1> HIDE DEF q
  <1>5. Sock(n, k.rdstate, "stop", yes, q, yes, no, none)
    BY <1>4, WroteAck
  <1>6. j \in OpenSocket /\ j.wrstate = "done"
    BY <1>4 DEF Sock, x
  <1>7. n \in OpenSocket /\ Flow(n) /\ n.writes = q
    BY <1>1, <1>5 DEF Sock, Flow, none, no, yes
  <1> QED BY <1>2, <1>6, <1>7 DEF ws, Drained

\* Where a write to the application, or to the server, is in progress.
LEMMA WhoWrites ==
    ASSUME NEW st, NEW i, NEW o, NEW d, StageOK(st, i, o, d)
    PROVE  /\ i.writes # <<>> => \/ AtReplied(st, i, o, d) \/ AtAssoc(st, i, o, d)
                                 \/ AtResponse(st, i, o, d) \/ AtKill(st, i, o, d)
                                 \/ AtStreaming(st, i, o, d)
           /\ o.writes # <<>> => \/ AtAuth(st, i, o, d) \/ AtReceipt(st, i, o, d)
                                 \/ AtStreaming(st, i, o, d)
  <1>1. ASSUME NEW k
        PROVE  Unused(k) \/ Looking(k) \/ Dialling(k) \/ Quiet(k) \/ Reading(k) => k.writes = <<>>
    BY DEF Unused, Looking, Dialling, Quiet, Reading, Sock
  <1>2. CASE AtReplied(st, i, o, d) \/ AtAssoc(st, i, o, d) \/ AtResponse(st, i, o, d)
             \/ AtKill(st, i, o, d)
    BY <1>1, <1>2 DEF AtReplied, AtAssoc, AtResponse, AtKill
  <1>3. CASE AtResolve(st, i, o, d) \/ AtConnect(st, i, o, d) \/ AtFeedback(st, i, o, d)
    BY <1>1, <1>3 DEF AtResolve, AtConnect, AtFeedback
  <1>4. CASE AtHandshake(st, i, o, d) \/ AtRequest(st, i, o, d) \/ AtFirst(st, i, o, d)
    BY <1>1, <1>4 DEF AtHandshake, AtRequest, AtFirst
  <1>5. CASE AtAuth(st, i, o, d) \/ AtReceipt(st, i, o, d)
    BY <1>1, <1>5 DEF AtAuth, AtReceipt
  <1> QED BY <1>2, <1>3, <1>4, <1>5 DEF StageOK

\* A packet is stored, or none.
LEMMA EarlyCases ==
    ASSUME NEW d, Early(d, d.app)
    PROVE  /\ d.first # <<>> => Early(d, 1)
           /\ d.first = <<>> => Early(d, 0)
           /\ d.app = 0 => Early(d, 0)
  <1>1. CASE d.app = 0
    <2>1. Early(d, 0) /\ d.first = <<>>
      BY <1>1 DEF Early
    <2> QED BY <2>1
  <1>2. CASE d.app = 1
    <2>1. Early(d, 1) /\ d.first = <<AppData(1)>>
      BY <1>2 DEF Early
    <2>2. d.first # <<>>
      BY <2>1
    <2> QED BY <1>2, <2>1, <2>2
  <1> QED BY <1>1, <1>2 DEF Early

\* A write to the application completes.
LEMMA TakenIn ==
    ASSUME NEW u, NEW i, NEW o, NEW st, NEW d, Is(u, i, o, st, d), StageOK(st, i, o, d),
           i.writes # <<>>, NEW a, a = Completed(u, "incoming"),
           NEW v \in tunnel_ssr_dispatcher(a, "incoming")
    PROVE  Good(v)
  <1> DEFINE b == AckWrite(a, "incoming")
  <1> HIDE DEF b
  <1>1. CASE AtReplied(st, i, o, d)
    <2>1. /\ st = "handshake_replied" /\ Writing(i) /\ Unused(o) /\ Early(d, d.app)
          /\ d.sent["incoming"] = Greeted /\ (~d.shortcut => d.app = 0)
      BY <1>1 DEF AtReplied
    <2>2. PICK j, n : /\ Is(a, j, o, st, d) /\ Short(j) /\ Is(b, n, o, st, d) /\ Quiet(n)
      BY <2>1, ReplyTaken DEF b
    <2>3. a.stage = "handshake_replied" /\ a.data = d
      BY <2>1, <2>2 DEF Is
    <2>4. v = IF d.shortcut THEN do_socks5_reply_success(b) ELSE do_wait_client_app_s5_request(b)
      BY <2>3, Dispatch DEF b
    <2>5. CASE d.shortcut
      <3>1. v = do_socks5_reply_success(b)
        BY <2>4, <2>5
      <3> QED BY <2>1, <2>2, <3>1, ReplySuccess
    <2>6. CASE ~d.shortcut
      <3>1. v = do_wait_client_app_s5_request(b) /\ Early(d, 0)
        BY <2>1, <2>4, <2>6, EarlyCases
      <3> QED BY <2>1, <2>2, <3>1, WaitRequest
    <2> QED BY <2>5, <2>6
  <1>2. CASE AtAssoc(st, i, o, d)
    <2>1. st = "s5_udp_accoc" /\ Writing(i) /\ Unused(o) /\ Early(d, d.app)
      BY <1>2 DEF AtAssoc
    <2>2. PICK j, n : /\ Is(a, j, o, st, d) /\ Short(j) /\ Is(b, n, o, st, d) /\ Quiet(n)
      BY <2>1, ReplyTaken DEF b
    <2>3. a.stage = "s5_udp_accoc"
      BY <2>1, <2>2 DEF Is
    <2>4. v = tunnel_shutdown(b)
      <3>1. tunnel_ssr_dispatcher(a, "incoming") = {tunnel_shutdown(AckWrite(a, "incoming"))}
        BY <2>3, Dispatch
      <3> QED BY <3>1 DEF b
    <2>5. Quittable(d) /\ Short(n) /\ Short(o)
      BY <2>1, <2>2, EarlyQuit, ShortFacts
    <2> QED BY <2>2, <2>4, <2>5, GoodShut
  <1>3. CASE AtResponse(st, i, o, d)
    <2>1. /\ st = "s5_response_done" /\ Writing(i) /\ Unused(o) /\ Early(d, d.app)
          /\ d.sent["incoming"] = Answered
      BY <1>3 DEF AtResponse
    <2>2. PICK j, n : /\ Is(a, j, o, st, d) /\ Short(j) /\ Is(b, n, o, st, d) /\ Quiet(n)
      BY <2>1, ReplyTaken DEF b
    <2>3. a.stage = "s5_response_done" /\ a.data = d
      BY <2>1, <2>2 DEF Is
    <2>4. CASE d.first # <<>>
      <3>1. v \in do_common_connet_remote_server(b)
        BY <2>3, <2>4, Dispatch DEF b
      <3>2. Early(d, 1)
        BY <2>1, <2>4, EarlyCases
      <3> QED BY <2>1, <2>2, <3>1, <3>2, ConnectRemote
    <2>5. CASE d.first = <<>>
      <3> DEFINE x == "client_first_pkg"
      <3>1. v = GoTo(Read(b, "incoming", TRUE), x)
        BY <2>3, <2>5, Dispatch DEF b
      <3>2. x \in tunnel_stage
        BY DEF tunnel_stage
      <3> HIDE DEF x
      <3>3. PICK k : Is(v, k, o, x, d) /\ Reading(k)
        BY <2>2, <3>1, <3>2, AskIn
      <3>4. Early(d, 0)
        BY <2>1, <2>5, EarlyCases
      <3>5. AtFirst(x, k, o, d)
        BY <2>1, <3>3, <3>4 DEF AtFirst, x
      <3> QED BY <3>3, <3>5, GoodLive DEF StageOK
    <2> QED BY <2>4, <2>5
  <1>4. CASE AtKill(st, i, o, d)
    <2>1. st = "kill" /\ Writing(i) /\ Unused(o) /\ Early(d, d.app)
      BY <1>4 DEF AtKill
    <2>2. PICK j, n : /\ Is(a, j, o, st, d) /\ Short(j) /\ Is(b, n, o, st, d) /\ Quiet(n)
      BY <2>1, ReplyTaken DEF b
    <2>3. a.stage = "kill"
      BY <2>1, <2>2 DEF Is
    <2>4. v = tunnel_shutdown(a)
      BY <2>3, Dispatch
    <2>5. Quittable(d) /\ Short(o)
      BY <2>1, EarlyQuit, ShortFacts
    <2> QED BY <2>2, <2>4, <2>5, GoodShut
  <1>5. CASE AtStreaming(st, i, o, d)
    <2>1. st = "streaming" /\ Flow(i) /\ Flow(o) /\ Streaming(i, o, d)
      BY <1>5 DEF AtStreaming
    <2> DEFINE j == Wrote(i, "ok", "done")
               n == [j EXCEPT !.wrstate = "stop"]
    <2>2. Drained(i, j, n)
      BY <2>1, FlowWrote
    <2>3. Is(a, j, o, st, d)
      BY <2>1, <2>2, CompletedIs DEF Drained
    <2> HIDE DEF j, n
    <2>4. a.stage = "streaming" /\ a.sock["incoming"] = j /\ j.wrstate = "done"
      BY <2>1, <2>2, <2>3 DEF Is, Drained
    <2>5. v = Put(a, "incoming", n)
      <3>1. v \in tunnel_ssr_client_streaming(a, "incoming")
        BY <2>4, Dispatch
      <3>2. tunnel_ssr_client_streaming(a, "incoming")
               = {Put(a, "incoming", [j EXCEPT !.wrstate = "stop"])}
        BY <2>4, Zenon DEF tunnel_ssr_client_streaming
      <3> QED BY <3>1, <3>2 DEF n
    <2>6. Is(v, n, o, "streaming", d)
      BY <2>1, <2>2, <2>3, <2>5, PutIn DEF Drained
    <2>7. Len(o.writes) <= Len(o.writes)
      <3>1. o \in OpenSocket
        BY <2>1 DEF Flow, Sock
      <3>2. Len(o.writes) \in Nat
        BY <3>1 DEF OpenSocket
      <3> QED BY <3>2
    <2> QED BY <2>1, <2>2, <2>6, <2>7, StreamOn DEF Drained
  <1> QED BY <1>1, <1>2, <1>3, <1>4, <1>5, WhoWrites

\* A write to the server completes.
LEMMA TakenOut ==
    ASSUME NEW u, NEW i, NEW o, NEW st, NEW d, Is(u, i, o, st, d), StageOK(st, i, o, d),
           o.writes # <<>>, NEW a, a = Completed(u, "outgoing"),
           NEW v \in tunnel_ssr_dispatcher(a, "outgoing")
    PROVE  Good(v)
  <1> DEFINE b == AckWrite(a, "outgoing")
  <1> HIDE DEF b
  <1>1. CASE AtAuth(st, i, o, d)
    <2>1. st = "ssr_auth_sent" /\ Quiet(i) /\ Writing(o) /\ Opened(d)
      BY <1>1 DEF AtAuth
    <2>2. PICK j, n : /\ Is(a, i, j, st, d) /\ Short(j) /\ Is(b, i, n, st, d) /\ Quiet(n)
      BY <2>1, MessageTaken DEF b
    <2>3. a.stage = "ssr_auth_sent"
      BY <2>1, <2>2 DEF Is
    <2>4. v \in do_ssr_waiting_server_feedback(b)
      BY <2>3, Dispatch DEF b
    <2> QED BY <2>1, <2>2, <2>4, WaitFeedback
  <1>2. CASE AtReceipt(st, i, o, d)
    <2>1. st = "ssr_receipt_to_server_sent" /\ Quiet(i) /\ Writing(o) /\ Judged(d)
      BY <1>2 DEF AtReceipt
    <2>2. PICK j, n : /\ Is(a, i, j, st, d) /\ Short(j) /\ Is(b, i, n, st, d) /\ Quiet(n)
      BY <2>1, MessageTaken DEF b
    <2>3. a.stage = "ssr_receipt_to_server_sent"
      BY <2>1, <2>2 DEF Is
    <2>4. v \in do_action_after_auth_server_success(b)
      BY <2>3, Dispatch DEF b
    <2> QED BY <2>1, <2>2, <2>4, AfterAuth
  <1>3. CASE AtStreaming(st, i, o, d)
    <2>1. st = "streaming" /\ Flow(i) /\ Flow(o) /\ Streaming(i, o, d)
      BY <1>3 DEF AtStreaming
    <2> DEFINE j == Wrote(o, "ok", "done")
               n == [j EXCEPT !.wrstate = "stop"]
    <2>2. Drained(o, j, n)
      BY <2>1, FlowWrote
    <2>3. Is(a, i, j, st, d)
      BY <2>1, <2>2, CompletedIs DEF Drained
    <2> HIDE DEF j, n
    <2>4. a.stage = "streaming" /\ a.sock["outgoing"] = j /\ j.wrstate = "done"
      BY <2>1, <2>2, <2>3 DEF Is, Drained
    <2>5. v = Put(a, "outgoing", n)
      <3>1. v \in tunnel_ssr_client_streaming(a, "outgoing")
        BY <2>4, Dispatch
      <3>2. tunnel_ssr_client_streaming(a, "outgoing")
               = {Put(a, "outgoing", [j EXCEPT !.wrstate = "stop"])}
        BY <2>4, Zenon DEF tunnel_ssr_client_streaming
      <3> QED BY <3>1, <3>2 DEF n
    <2>6. Is(v, i, n, "streaming", d)
      BY <2>1, <2>2, <2>3, <2>5, PutOut DEF Drained
    <2>7. Len(i.writes) <= Len(i.writes)
      <3>1. i \in OpenSocket
        BY <2>1 DEF Flow, Sock
      <3>2. Len(i.writes) \in Nat
        BY <3>1 DEF OpenSocket
      <3> QED BY <3>2
    <2> QED BY <2>1, <2>2, <2>6, <2>7, StreamOn DEF Drained
  <1> QED BY <1>1, <1>2, <1>3, WhoWrites

\* A write fails.
LEMMA WriteFails ==
    ASSUME NEW u, NEW i, NEW o, NEW st, NEW d, Is(u, i, o, st, d), StageOK(st, i, o, d)
    PROVE  /\ i.writes # <<>> => Good(tunnel_shutdown(Put(u, "incoming", Wrote(i, "err", "stop"))))
           /\ o.writes # <<>> => Good(tunnel_shutdown(Put(u, "outgoing", Wrote(o, "err", "stop"))))
  <1> DEFINE err == "err"
             x == "stop"
             j == Wrote(i, err, x)
             k == Wrote(o, err, x)
  <1>0. Quittable(d) /\ Short(i) /\ Short(o)
    BY LiveQuit
  <1>1. err \in {"ok", "err"} /\ x \in {"stop", "busy", "done"}
    OBVIOUS
  <1>2. i \in OpenSocket /\ o \in OpenSocket
    BY IsOf DEF Is
  <1>3. /\ Sock(i, i.rdstate, i.wrstate, i.reading, i.writes, i.connected, i.connecting, i.dns)
        /\ Sock(o, o.rdstate, o.wrstate, o.reading, o.writes, o.connected, o.connecting, o.dns)
    BY <1>2 DEF Sock
  <1>4. ASSUME NEW k0 \in OpenSocket, Short(k0), k0.writes # <<>>, NEW n \in OpenSocket,
               n.writes = Tail(k0.writes)
        PROVE  Short(n)
    <2> DEFINE ws == k0.writes
    <2>1. ws \in Seq(Seq(Items)) /\ ws # <<>> /\ Len(ws) <= MaxData + 2 /\ MaxData \in Nat
      BY <1>4, MaxDataAssumption DEF OpenSocket, Short
    <2> HIDE DEF ws
    <2>2. Len(Tail(ws)) <= MaxData + 2
      BY <2>1
    <2> QED BY <1>4, <2>2 DEF ws, Short
  <1> HIDE DEF err, x
  <1>5. ASSUME i.writes # <<>>
        PROVE  Good(tunnel_shutdown(Put(u, "incoming", j)))
    <2>1. Sock(j, i.rdstate, x, i.reading, Tail(i.writes), i.connected, i.connecting, i.dns)
      BY <1>1, <1>3, <1>5, WroteSock
    <2>2. j \in OpenSocket /\ j.writes = Tail(i.writes)
      BY <2>1 DEF Sock
    <2> HIDE DEF j
    <2>3. Short(j)
      BY <1>0, <1>2, <1>4, <1>5, <2>2
    <2>4. Is(Put(u, "incoming", j), j, o, st, d)
      BY <2>2, PutIn
    <2> QED BY <1>0, <2>3, <2>4, GoodShut
  <1>6. ASSUME o.writes # <<>>
        PROVE  Good(tunnel_shutdown(Put(u, "outgoing", k)))
    <2>1. Sock(k, o.rdstate, x, o.reading, Tail(o.writes), o.connected, o.connecting, o.dns)
      BY <1>1, <1>3, <1>6, WroteSock
    <2>2. k \in OpenSocket /\ k.writes = Tail(o.writes)
      BY <2>1 DEF Sock
    <2> HIDE DEF k
    <2>3. Short(k)
      BY <1>0, <1>2, <1>4, <1>6, <2>2
    <2>4. Is(Put(u, "outgoing", k), i, k, st, d)
      BY <2>2, PutOut
    <2> QED BY <1>0, <2>3, <2>4, GoodShut
  <1> QED BY <1>5, <1>6 DEF err, x

\* Where a connect, or a lookup, is in progress.
LEMMA WhoDials ==
    ASSUME NEW st, NEW i, NEW o, NEW d, StageOK(st, i, o, d)
    PROVE  /\ ~i.connecting /\ i.dns = "none"
           /\ o.connecting => AtConnect(st, i, o, d)
           /\ o.dns # "none" => AtResolve(st, i, o, d)
  <1>1. ASSUME NEW k
        PROVE  Unused(k) \/ Quiet(k) \/ Reading(k) \/ Writing(k) \/ Flow(k) =>
                  k.connecting = FALSE /\ k.dns = "none"
    BY DEF Unused, Flow, Writing, Quiet, Reading, Sock
  <1>2. CASE AtReplied(st, i, o, d) \/ AtAssoc(st, i, o, d) \/ AtResponse(st, i, o, d)
             \/ AtKill(st, i, o, d)
    BY <1>1, <1>2 DEF AtReplied, AtAssoc, AtResponse, AtKill
  <1>3. CASE AtHandshake(st, i, o, d) \/ AtRequest(st, i, o, d) \/ AtFirst(st, i, o, d)
    BY <1>1, <1>3 DEF AtHandshake, AtRequest, AtFirst
  <1>4. CASE AtAuth(st, i, o, d) \/ AtReceipt(st, i, o, d) \/ AtFeedback(st, i, o, d)
             \/ AtStreaming(st, i, o, d)
    BY <1>1, <1>4 DEF AtAuth, AtReceipt, AtFeedback, AtStreaming
  <1>5. CASE AtResolve(st, i, o, d)
    <2>1. Quiet(i) /\ o.connecting = FALSE
      BY <1>5 DEF AtResolve, Looking, Sock
    <2> QED BY <1>1, <1>5, <2>1
  <1>6. CASE AtConnect(st, i, o, d)
    <2>1. Quiet(i) /\ o.dns = "none"
      BY <1>6 DEF AtConnect, Dialling, Sock
    <2> QED BY <1>1, <1>6, <2>1
  <1> QED BY <1>2, <1>3, <1>4, <1>5, <1>6 DEF StageOK

\* What the end of a connect, or of a lookup, makes of a socket.
Dialled(k, status) ==
    [k EXCEPT !.connecting = FALSE, !.ticking = FALSE, !.result = status,
              !.connected = status = "ok"]
Found(k, status) == [k EXCEPT !.dns = "none", !.ticking = FALSE, !.result = status]

\* A connect ends.
LEMMA DialEnds ==
    ASSUME NEW u, NEW i, NEW o, NEW st, NEW d, Is(u, i, o, st, d), AtConnect(st, i, o, d),
           NEW status \in {"ok", "err"}, NEW a, a = Put(u, "outgoing", Dialled(o, status))
    PROVE  /\ status = "ok" => \A v \in tunnel_ssr_dispatcher(a, "outgoing") : Good(v)
           /\ Good(tunnel_shutdown(a))
  <1> DEFINE k == Dialled(o, status)
             co == status = "ok"
             stop == "stop"
             ws == <<>>
             none == "none"
             no == FALSE
             yes == TRUE
  <1>0. co \in BOOLEAN
    OBVIOUS
  <1>1. /\ st = "connect_ssr_server_done" /\ Quiet(i) /\ Dialling(o)
        /\ Early(d, 1) /\ d.sent["incoming"] = Answered
    BY DEF AtConnect
  <1>2. Sock(o, stop, stop, no, ws, no, yes, none)
    BY <1>1 DEF Dialling
  <1>3. k = [o EXCEPT !.connecting = FALSE, !.ticking = FALSE, !.result = status, !.connected = co]
    BY DEF Dialled
  <1> HIDE DEF co, stop, ws, none, no, yes, k
  <1>4. Sock(k, stop, stop, no, ws, co, FALSE, none)
    BY <1>0, <1>2, <1>3, ZenonT(60) DEF Sock, OpenSocket
  <1>5. k \in OpenSocket /\ k.writes = ws
    BY <1>4 DEF Sock
  <1>6. Is(a, i, k, st, d)
    BY <1>5, PutOut DEF k
  <1>7. Quittable(d) /\ Short(i) /\ Short(k)
    <2>1. Short(k)
      BY <1>5, MaxDataAssumption DEF Short, ws
    <2> QED BY <1>1, <2>1, EarlyQuit, ShortFacts
  <1>8. Good(tunnel_shutdown(a))
    BY <1>6, <1>7, GoodShut
  <1>9. ASSUME status = "ok", NEW v \in tunnel_ssr_dispatcher(a, "outgoing")
        PROVE  Good(v)
    <2>1. Quiet(k)
      BY <1>4, <1>9 DEF Quiet, co, stop, ws, none, no
    <2>2. a.stage = "connect_ssr_server_done"
      BY <1>1, <1>6 DEF Is
    <2>3. v \in do_ssr_send_auth_package_to_server(a)
      BY <1>9, <2>2, Dispatch
    <2> QED BY <1>1, <1>6, <2>1, <2>3, SendAuth
  <1> QED BY <1>8, <1>9

\* A lookup ends.
LEMMA LookupEnds ==
    ASSUME NEW u, NEW i, NEW o, NEW st, NEW d, Is(u, i, o, st, d), AtResolve(st, i, o, d),
           NEW status \in {"ok", "err"}, NEW a, a = Put(u, "outgoing", Found(o, status))
    PROVE  /\ status = "ok" => \A v \in tunnel_ssr_dispatcher(a, "outgoing") : Good(v)
           /\ Good(tunnel_shutdown(a))
  <1> DEFINE k == Found(o, status)
             stop == "stop"
             ws == <<>>
             none == "none"
             no == FALSE
  <1>1. /\ st = "resolve_ssr_server_host_done" /\ Quiet(i) /\ Looking(o)
        /\ Early(d, 1) /\ d.sent["incoming"] = Answered
    BY DEF AtResolve
  <1>2. Sock(o, stop, stop, no, ws, no, no, o.dns) /\ none \in DnsState
    BY <1>1 DEF Looking, DnsState
  <1>3. k = [o EXCEPT !.dns = none, !.ticking = FALSE, !.result = status]
    BY DEF Found
  <1> HIDE DEF stop, ws, none, no, k
  <1>4. Sock(k, stop, stop, no, ws, no, no, none)
    BY <1>2, <1>3, ZenonT(60) DEF Sock, OpenSocket
  <1>5. k \in OpenSocket /\ Unused(k)
    BY <1>4 DEF Sock, Unused, stop, ws, none, no
  <1>6. Is(a, i, k, st, d)
    BY <1>5, PutOut DEF k
  <1>7. Quittable(d) /\ Short(i) /\ Short(k)
    BY <1>1, <1>5, EarlyQuit, ShortFacts
  <1>8. Good(tunnel_shutdown(a))
    BY <1>6, <1>7, GoodShut
  <1>9. ASSUME status = "ok", NEW v \in tunnel_ssr_dispatcher(a, "outgoing")
        PROVE  Good(v)
    <2>1. a.stage = "resolve_ssr_server_host_done"
      BY <1>1, <1>6 DEF Is
    <2>2. v \in do_resolve_ssr_server_host_aftercare(a)
      BY <1>9, <2>1, Dispatch
    <2> QED BY <1>1, <1>5, <1>6, <2>2, ResolveAftercare
  <1> QED BY <1>8, <1>9

\* A lookup advances.
LEMMA LookupAdvances ==
    ASSUME NEW u, NEW i, NEW o, NEW st, NEW d, Is(u, i, o, st, d), AtResolve(st, i, o, d),
           NEW x \in DnsState, x # "none", NEW v, v = Put(u, "outgoing", [o EXCEPT !.dns = x])
    PROVE  Good(v)
  <1> DEFINE k == [o EXCEPT !.dns = x]
             stop == "stop"
             ws == <<>>
             no == FALSE
  <1>1. /\ st = "resolve_ssr_server_host_done" /\ Quiet(i) /\ Looking(o)
        /\ Early(d, 1) /\ d.sent["incoming"] = Answered
    BY DEF AtResolve
  <1>2. Sock(o, stop, stop, no, ws, no, no, o.dns)
    BY <1>1 DEF Looking
  <1> HIDE DEF stop, ws, no
  <1>3. Sock(k, stop, stop, no, ws, no, no, x)
    BY <1>2, SockDns
  <1> HIDE DEF k
  <1>4. k \in OpenSocket /\ k.dns = x
    BY <1>3 DEF Sock
  <1>5. Looking(k)
    BY <1>3, <1>4 DEF Looking, stop, ws, no
  <1>6. Is(v, i, k, st, d)
    BY <1>4, PutOut DEF k
  <1>7. AtResolve(st, i, k, d)
    BY <1>1, <1>5 DEF AtResolve
  <1> QED BY <1>6, <1>7, GoodLive DEF StageOK

\* What the expiry of the timer makes of a socket, before the shutdown.
Expired(k) == [k EXCEPT !.ticking = FALSE, !.result = "err", !.ref = @ + 1]

Pinned(k, n) ==
    /\ n \in AnySocket /\ n.ref = 2 /\ n.is_terminated = FALSE /\ n.freed = FALSE
    /\ n.rdstate # "dead" /\ n.wrstate # "dead" /\ n.writes = k.writes

\* The socket is held during the callback.
LEMMA ExpiredSock ==
    ASSUME NEW k \in OpenSocket
    PROVE  Pinned(k, Expired(k))
  <1> DEFINE err == "err"
             r == 2
             n == [k EXCEPT !.ticking = FALSE, !.result = err, !.ref = r]
  <1>1. err \in {"ok", "err"} /\ r \in Int
    OBVIOUS
  <1>2. Expired(k) = n
    <2>1. k.ref + 1 = r
      BY DEF OpenSocket
    <2> QED BY <2>1, Zenon DEF Expired
  <1>3. /\ k \in AnySocket /\ ~k.is_terminated /\ k.rdstate # "dead" /\ k.wrstate # "dead"
        /\ k.freed = FALSE
    BY OpenIsAny
  <1> HIDE DEF err, r
  <1>4. /\ n \in AnySocket /\ n.ref = r /\ n.is_terminated = k.is_terminated /\ n.freed = k.freed
        /\ n.rdstate = k.rdstate /\ n.wrstate = k.wrstate /\ n.writes = k.writes
    BY <1>1, <1>3, ZenonT(60) DEF AnySocket
  <1>5. k.is_terminated = FALSE
    BY DEF OpenSocket
  <1> HIDE DEF n
  <1> QED BY <1>2, <1>3, <1>4, <1>5 DEF r, Pinned

\* The reference of the callback is given back.
LEMMA Unpinned ==
    ASSUME NEW k, NEW n, Pinned(k, n), Short(k), NEW m, m = socket_ctx_release(socket_ctx_close(n))
    PROVE  m \in DeadSocket /\ m \in AnySocket /\ Counted(m, FALSE) /\ m.on_closed = TRUE
  <1> DEFINE x == socket_ctx_close(n)
             r == 3
             fr == FALSE
  <1>1. Closed(n, x)
    BY CloseFacts DEF Pinned
  <1>2. x.ref = 4 /\ x.freed = FALSE /\ x \in AnySocket /\ r \in Int /\ r \in Nat /\ fr \in BOOLEAN
    BY <1>1 DEF Closed, Pinned
  <1> HIDE DEF x
  <1>3. m = [x EXCEPT !.ref = r, !.freed = fr]
    <2>1. m = socket_ctx_release(x)
      BY DEF x
    <2>2. x.ref - 1 = r /\ (x.freed \/ x.ref <= 1) = fr
      BY <1>2
    <2> HIDE DEF r, fr
    <2> QED BY <2>1, <2>2, Zenon DEF socket_ctx_release
  <1> HIDE DEF r, fr
  <1>4. /\ m \in AnySocket /\ m.is_terminated = x.is_terminated /\ m.rdstate = x.rdstate
        /\ m.wrstate = x.wrstate /\ m.reading = x.reading /\ m.ticking = x.ticking
        /\ m.tcp = x.tcp /\ m.timer = x.timer /\ m.writes = x.writes /\ m.ref = r
        /\ m.freed = fr /\ m.closing_count = x.closing_count /\ m.on_closed = x.on_closed
    BY <1>2, <1>3, ZenonT(60) DEF AnySocket
  <1>5. /\ m \in AnySocket /\ m.is_terminated = TRUE /\ m.rdstate = "dead" /\ m.wrstate = "dead"
        /\ m.reading = FALSE /\ m.ticking = FALSE /\ m.tcp = "closing" /\ m.timer = "closing"
        /\ m.ref \in Nat /\ m.closing_count = 2 /\ m.closing_count \in Nat
    BY <1>1, <1>2, <1>4 DEF Closed
  <1>6. m \in DeadSocket
    BY <1>5, ZenonT(60) DEF AnySocket, DeadSocket
  <1>7. CloseOwed(m) = 2 /\ One(~FALSE) = 1
    BY <1>5 DEF CloseOwed, One
  <1>8. m.writes = k.writes /\ m.on_closed = TRUE
    BY <1>1, <1>4 DEF Closed, Pinned
  <1> QED BY <1>4, <1>5, <1>6, <1>7, <1>8 DEF Counted, Short, r, fr

\* The timer of the application's socket expires.
LEMMA TimeoutIn ==
    ASSUME NEW u, NEW i, NEW o, NEW st, NEW d, Is(u, i, o, st, d), StageOK(st, i, o, d),
           NEW v, v = tunnel_socket_ctx_on_timeout_cb(u, "incoming")
    PROVE  Good(v)
  <1> DEFINE n == Expired(i)
             a == Put(u, "incoming", n)
             b == tunnel_shutdown(a)
             x == socket_ctx_close(n)
             y == socket_ctx_close(o)
             m == socket_ctx_release(x)
             w == Put(b, "incoming", m)
  <1>0. Quittable(d) /\ Short(i) /\ Short(o) /\ i \in OpenSocket /\ o \in OpenSocket
    BY LiveQuit, IsOf DEF Is
  <1>1. Pinned(i, n)
    BY <1>0, ExpiredSock
  <1>2. Closable(n) /\ Closable(o)
    BY <1>0, <1>1, OpenIsAny DEF Closable, Pinned
  <1>3. m \in DeadSocket /\ m \in AnySocket /\ Counted(m, FALSE) /\ m.on_closed = TRUE
    BY <1>0, <1>1, Unpinned
  <1>4. y \in DeadSocket /\ Counted(y, FALSE) /\ y.on_closed = TRUE
    BY <1>0, OpenIsAny, ClosedOpen
  <1>5. Mid(b, x, y, 2, TRUE, FALSE, st, {}, d)
    <2> HIDE DEF n
    <2>1. Mid(u, i, o, 1, FALSE, FALSE, st, {}, d)
      BY LiveIsMid
    <2>2. Mid(a, n, o, 1, FALSE, FALSE, st, {}, d)
      BY <1>2, <2>1, MidPut DEF Closable
    <2> HIDE DEF a
    <2> QED BY <1>2, <2>2, ShutdownForm
  <1>6. v = w
    <2>1. u.is_terminated = FALSE /\ u.sock["incoming"] = i
      BY DEF Is, LiveTunnel
    <2>2. v = Put(b, "incoming", socket_ctx_release(b.sock["incoming"]))
      BY <2>1, Zenon DEF tunnel_socket_ctx_on_timeout_cb, Expired
    <2>3. b.sock["incoming"] = x
      BY <1>5 DEF Mid
    <2> QED BY <2>2, <2>3
  <1>7. 2 = One(m.on_closed) + One(y.on_closed) /\ (FALSE <=> 2 = 0)
    BY <1>3, <1>4 DEF One
  <1> HIDE DEF m, b, x, y
  <1>8. Mid(w, m, y, 2, TRUE, FALSE, st, {}, d)
    BY <1>3, <1>5, MidPut
  <1> HIDE DEF w
  <1>9. DeadOK(w)
    <2> DEFINE two == 2
               none == {}
               no == FALSE
    <2>1. Shut(w, m, y, two, no, st, none, d)
      BY <1>0, <1>3, <1>4, <1>7, <1>8 DEF Shut
    <2> HIDE DEF two, none, no
    <2> QED BY <2>1, ShutDead
  <1> QED BY <1>6, <1>9 DEF Good

\* The timer of the server's socket expires.
LEMMA TimeoutOut ==
    ASSUME NEW u, NEW i, NEW o, NEW st, NEW d, Is(u, i, o, st, d), StageOK(st, i, o, d),
           NEW v, v = tunnel_socket_ctx_on_timeout_cb(u, "outgoing")
    PROVE  Good(v)
  <1> DEFINE n == Expired(o)
             a == Put(u, "outgoing", n)
             b == tunnel_shutdown(a)
             x == socket_ctx_close(i)
             y == socket_ctx_close(n)
             m == socket_ctx_release(y)
             w == Put(b, "outgoing", m)
  <1>0. Quittable(d) /\ Short(i) /\ Short(o) /\ i \in OpenSocket /\ o \in OpenSocket
    BY LiveQuit, IsOf DEF Is
  <1>1. Pinned(o, n)
    BY <1>0, ExpiredSock
  <1>2. Closable(n) /\ Closable(i)
    BY <1>0, <1>1, OpenIsAny DEF Closable, Pinned
  <1>3. m \in DeadSocket /\ m \in AnySocket /\ Counted(m, FALSE) /\ m.on_closed = TRUE
    BY <1>0, <1>1, Unpinned
  <1>4. x \in DeadSocket /\ Counted(x, FALSE) /\ x.on_closed = TRUE
    BY <1>0, OpenIsAny, ClosedOpen
  <1>5. Mid(b, x, y, 2, TRUE, FALSE, st, {}, d)
    <2> HIDE DEF n
    <2>1. Mid(u, i, o, 1, FALSE, FALSE, st, {}, d)
      BY LiveIsMid
    <2>2. Mid(a, i, n, 1, FALSE, FALSE, st, {}, d)
      BY <1>2, <2>1, MidPut DEF Closable
    <2> HIDE DEF a
    <2> QED BY <1>2, <2>2, ShutdownForm
  <1>6. v = w
    <2>1. u.is_terminated = FALSE /\ u.sock["outgoing"] = o
      BY DEF Is, LiveTunnel
    <2>2. v = Put(b, "outgoing", socket_ctx_release(b.sock["outgoing"]))
      BY <2>1, Zenon DEF tunnel_socket_ctx_on_timeout_cb, Expired
    <2>3. b.sock["outgoing"] = y
      BY <1>5 DEF Mid
    <2> QED BY <2>2, <2>3
  <1>7. 2 = One(x.on_closed) + One(m.on_closed) /\ (FALSE <=> 2 = 0)
    BY <1>3, <1>4 DEF One
  <1> HIDE DEF m, b, x, y
  <1>8. Mid(w, x, m, 2, TRUE, FALSE, st, {}, d)
    BY <1>3, <1>5, MidPut
  <1> HIDE DEF w
  <1>9. DeadOK(w)
    <2> DEFINE two == 2
               none == {}
               no == FALSE
    <2>1. Shut(w, x, m, two, no, st, none, d)
      BY <1>0, <1>3, <1>4, <1>7, <1>8 DEF Shut
    <2> HIDE DEF two, none, no
    <2> QED BY <2>1, ShutDead
  <1> QED BY <1>6, <1>9 DEF Good

-----------------------------------------------------------------------------
(* The callbacks of a tunnel that was shut down. *)

\* Its sockets, in the terms of the shutdown.
LEMMA DeadIsAny ==
    ASSUME NEW k \in DeadSocket
    PROVE  k \in AnySocket
  <1>1. k.ref \in Int /\ k.closing_count \in Int
    BY DEF DeadSocket
  <1> QED BY <1>1, ZenonT(60) DEF DeadSocket, AnySocket, socket_state, HandleState

\* And the other way round.
LEMMA AnyIsDead ==
    ASSUME NEW k \in AnySocket, k.is_terminated = TRUE, k.rdstate = "dead", k.wrstate = "dead",
           k.reading = FALSE, k.ticking = FALSE, k.tcp \in {"closing", "closed"},
           k.timer \in {"closing", "closed"}, k.ref \in Nat, k.closing_count \in Nat
    PROVE  k \in DeadSocket
  BY ZenonT(60) DEF DeadSocket, AnySocket

\* Every tunnel that was shut down has the parts of DeadOK.
LEMMA ShutOf ==
    ASSUME NEW u, DeadOK(u)
    PROVE  Shut(u, u.sock["incoming"], u.sock["outgoing"], u.ref, u.freed, u.stage, u.bad, u.data)
  <1> DEFINE S == [Side -> AnySocket]
  <1>1. u.sock \in [Side -> DeadSocket] /\ u.ref \in Int
    BY DEF DeadOK, DeadTunnel
  <1>2. u.sock \in S
    BY <1>1, DeadIsAny
  <1>3. u \in DeadTunnel
    BY DEF DeadOK
  <1> HIDE DEF S
  <1>4. u \in [ sock : S, ref : Int, is_terminated : BOOLEAN, freed : BOOLEAN,
                stage : tunnel_stage, held : {FALSE}, bad : SUBSET {"stale"}, data : ClientCtx ]
    BY <1>1, <1>2, <1>3, ZenonT(60) DEF DeadTunnel
  <1>5. u \in AnyTunnel
    BY <1>4 DEF AnyTunnel, S
  <1>6. u.is_terminated = TRUE /\ u.sock["incoming"] \in DeadSocket /\ u.sock["outgoing"] \in DeadSocket
    BY <1>1, <1>3 DEF DeadTunnel, Side
  <1> QED BY <1>5, <1>6 DEF DeadOK, Shut, Mid, Quittable

\* What has them is in order.
LEMMA ShutGood ==
    ASSUME NEW u, NEW i, NEW o, NEW n, NEW gone, NEW st, NEW b, NEW d,
           Shut(u, i, o, n, gone, st, b, d)
    PROVE  Good(u)
  BY ShutDead DEF Good

\* What the events that drain from a closed socket leave alone.
Kept(k, n) ==
    /\ n \in DeadSocket /\ n.ref = k.ref /\ n.closing_count = k.closing_count
    /\ n.on_closed = k.on_closed /\ n.tcp = k.tcp /\ n.timer = k.timer /\ n.freed = k.freed
    /\ Len(n.writes) <= Len(k.writes)

\* The references are counted still.
LEMMA KeptCounted ==
    ASSUME NEW k \in DeadSocket, NEW n, Kept(k, n), NEW gone, Counted(k, gone)
    PROVE  Counted(n, gone)
  <1>1. CloseOwed(n) = CloseOwed(k)
    BY DEF CloseOwed, Kept
  <1>2. Len(k.writes) \in Nat
    BY DEF DeadSocket
  <1>3. n \in DeadSocket
    BY DEF Kept
  <1>4. Len(n.writes) \in Nat
    BY <1>3 DEF DeadSocket
  <1>5. Len(n.writes) <= MaxData + 2
    BY <1>2, <1>4, MaxDataAssumption DEF Kept, Counted
  <1> QED BY <1>1, <1>5 DEF Kept, Counted

\* Put, on either socket.
LEMMA ShutPut ==
    ASSUME NEW u, NEW i, NEW o, NEW n, NEW gone, NEW st, NEW b, NEW d,
           Shut(u, i, o, n, gone, st, b, d), NEW k
    PROVE  /\ Kept(i, k) => Shut(Put(u, "incoming", k), k, o, n, gone, st, b, d)
           /\ Kept(o, k) => Shut(Put(u, "outgoing", k), i, k, n, gone, st, b, d)
  <1>0. i \in DeadSocket /\ o \in DeadSocket
    BY DEF Shut
  <1>1. ASSUME Kept(i, k)
        PROVE  Shut(Put(u, "incoming", k), k, o, n, gone, st, b, d)
    <2>1. k \in DeadSocket /\ k \in AnySocket /\ k.on_closed = i.on_closed
      BY <1>1, DeadIsAny DEF Kept
    <2>2. Counted(k, gone)
      BY <1>0, <1>1, KeptCounted DEF Shut
    <2>3. Mid(Put(u, "incoming", k), k, o, n, TRUE, gone, st, b, d)
      BY <2>1, MidPut DEF Shut
    <2> QED BY <2>1, <2>2, <2>3 DEF Shut
  <1>2. ASSUME Kept(o, k)
        PROVE  Shut(Put(u, "outgoing", k), i, k, n, gone, st, b, d)
    <2>1. k \in DeadSocket /\ k \in AnySocket /\ k.on_closed = o.on_closed
      BY <1>2, DeadIsAny DEF Kept
    <2>2. Counted(k, gone)
      BY <1>0, <1>2, KeptCounted DEF Shut
    <2>3. Mid(Put(u, "outgoing", k), i, k, n, TRUE, gone, st, b, d)
      BY <2>1, MidPut DEF Shut
    <2> QED BY <2>1, <2>2, <2>3 DEF Shut
  <1> QED BY <1>1, <1>2

\* What drains from a closed socket: a write, a connect, a lookup.
LEMMA DrainKept ==
    ASSUME NEW k \in DeadSocket, NEW status \in {"ok", "err"}
    PROVE  /\ k.writes # <<>> => Kept(k, Told(k, status))
           /\ Kept(k, Dialled(k, status)) /\ Kept(k, Found(k, status))
  <1>0. k.writes \in Seq(Seq(Items))
    BY DEF DeadSocket
  <1>1. ASSUME k.writes # <<>>
        PROVE  Kept(k, Told(k, status))
    <2> DEFINE q == Tail(k.writes)
               n == [k EXCEPT !.writes = q, !.result = status]
    <2>1. q \in Seq(Seq(Items)) /\ Len(q) <= Len(k.writes)
      BY <1>0, <1>1
    <2>2. Told(k, status) = n
      BY DEF Told
    <2> HIDE DEF q
    <2>3. n \in DeadSocket
      BY <2>1, ZenonT(60) DEF DeadSocket
    <2>4. /\ n.ref = k.ref /\ n.closing_count = k.closing_count /\ n.on_closed = k.on_closed
          /\ n.tcp = k.tcp /\ n.timer = k.timer /\ n.freed = k.freed /\ n.writes = q
      BY ZenonT(60) DEF DeadSocket
    <2> HIDE DEF n
    <2> QED BY <2>1, <2>2, <2>3, <2>4 DEF Kept
  <1>2. Len(k.writes) <= Len(k.writes)
    BY <1>0
  <1>3. Kept(k, Dialled(k, status))
    <2> DEFINE co == status = "ok"
               n == [k EXCEPT !.connecting = FALSE, !.ticking = FALSE, !.result = status,
                              !.connected = co]
    <2>1. co \in BOOLEAN /\ Dialled(k, status) = n
      BY DEF Dialled
    <2> HIDE DEF co
    <2>2. n \in DeadSocket
      BY <2>1, ZenonT(60) DEF DeadSocket
    <2>3. /\ n.ref = k.ref /\ n.closing_count = k.closing_count /\ n.on_closed = k.on_closed
          /\ n.tcp = k.tcp /\ n.timer = k.timer /\ n.freed = k.freed /\ n.writes = k.writes
      BY ZenonT(60) DEF DeadSocket
    <2> HIDE DEF n
    <2> QED BY <1>2, <2>1, <2>2, <2>3 DEF Kept
  <1>4. Kept(k, Found(k, status))
    <2> DEFINE x == "none"
               n == [k EXCEPT !.dns = x, !.ticking = FALSE, !.result = status]
    <2>1. x \in DnsState /\ Found(k, status) = n
      BY DEF Found, DnsState
    <2> HIDE DEF x
    <2>2. n \in DeadSocket
      BY <2>1, ZenonT(60) DEF DeadSocket
    <2>3. /\ n.ref = k.ref /\ n.closing_count = k.closing_count /\ n.on_closed = k.on_closed
          /\ n.tcp = k.tcp /\ n.timer = k.timer /\ n.freed = k.freed /\ n.writes = k.writes
      BY ZenonT(60) DEF DeadSocket
    <2> HIDE DEF n
    <2> QED BY <1>2, <2>1, <2>2, <2>3 DEF Kept
  <1> QED BY <1>1, <1>3, <1>4

\* A lookup that advances, or ends when the socket is gone.
DnsTo(k, x) == [k EXCEPT !.dns = x]

\* It touches nothing else.
LEMMA DnsKept ==
    ASSUME NEW k \in DeadSocket, NEW x \in DnsState
    PROVE  Kept(k, DnsTo(k, x))
  <1> DEFINE n == [k EXCEPT !.dns = x]
  <1>0. k.writes \in Seq(Seq(Items))
    BY DEF DeadSocket
  <1>1. Len(k.writes) <= Len(k.writes)
    BY <1>0
  <1>2. n \in DeadSocket
    BY ZenonT(60) DEF DeadSocket
  <1>3. /\ n.ref = k.ref /\ n.closing_count = k.closing_count /\ n.on_closed = k.on_closed
        /\ n.tcp = k.tcp /\ n.timer = k.timer /\ n.freed = k.freed /\ n.writes = k.writes
    BY ZenonT(60) DEF DeadSocket
  <1>4. DnsTo(k, x) = n
    BY DEF DnsTo
  <1> HIDE DEF n
  <1> QED BY <1>1, <1>2, <1>3, <1>4 DEF Kept

\* The late result of a lookup on memory that was returned.
Stale(u) == [u EXCEPT !.bad = @ \cup {"stale"}]

\* It is recorded, and nothing else is said of it.
LEMMA StaleShut ==
    ASSUME NEW u, NEW i, NEW o, NEW n, NEW gone, NEW st, NEW b, NEW d,
           Shut(u, i, o, n, gone, st, b, d)
    PROVE  Good(Stale(u))
  <1> DEFINE c == b \cup {"stale"}
             B == SUBSET {"stale"}
             w == [u EXCEPT !.bad = c]
  <1>1. Mid(u, i, o, n, TRUE, gone, st, b, d)
    BY DEF Shut
  <1>2. c \in B
    BY <1>1 DEF Mid, AnyTunnel
  <1>3. Stale(u) = w
    BY <1>1 DEF Stale, Mid
  <1> HIDE DEF c
  <1>4. Mid(w, i, o, n, TRUE, gone, st, c, d)
    BY <1>1, <1>2, ZenonT(60) DEF Mid, AnyTunnel, B
  <1> HIDE DEF w
  <1>5. Shut(w, i, o, n, gone, st, c, d)
    BY <1>4 DEF Shut
  <1> QED BY <1>3, <1>5, ShutGood

\* A drained event on either socket.
LEMMA DrainGood ==
    ASSUME NEW u, DeadOK(u), NEW s \in Side, NEW status \in {"ok", "err"}, NEW x \in DnsState
    PROVE  /\ u.sock[s].writes # <<>> => Good(Put(u, s, Told(u.sock[s], status)))
           /\ Good(Put(u, s, Dialled(u.sock[s], status)))
           /\ Good(Put(u, s, Found(u.sock[s], status)))
           /\ Good(Put(u, s, DnsTo(u.sock[s], x)))
           /\ Good(Stale(Put(u, s, DnsTo(u.sock[s], x))))
  <1> DEFINE i == u.sock["incoming"]
             o == u.sock["outgoing"]
             n == u.ref
             gone == u.freed
             st == u.stage
             b == u.bad
             d == u.data
             k == u.sock[s]
  <1>1. Shut(u, i, o, n, gone, st, b, d)
    BY ShutOf
  <1>2. k \in DeadSocket /\ (s = "incoming" \/ s = "outgoing")
    BY <1>1 DEF Shut, Side
  <1>3. ASSUME NEW m, Kept(k, m)
        PROVE  Good(Put(u, s, m)) /\ Good(Stale(Put(u, s, m)))
    <2> DEFINE w == Put(u, s, m)
    <2>1. CASE s = "incoming"
      <3>1. Kept(i, m)
        BY <1>3, <2>1
      <3> HIDE DEF i, o, n, gone, st, b, d
      <3>2. Shut(w, m, o, n, gone, st, b, d)
        BY <1>1, <2>1, <3>1, ShutPut
      <3> HIDE DEF w
      <3>3. Good(w) /\ Good(Stale(w))
        BY <3>2, ShutGood, StaleShut
      <3> QED BY <3>3 DEF w
    <2>2. CASE s = "outgoing"
      <3>1. Kept(o, m)
        BY <1>3, <2>2
      <3> HIDE DEF i, o, n, gone, st, b, d
      <3>2. Shut(w, i, m, n, gone, st, b, d)
        BY <1>1, <2>2, <3>1, ShutPut
      <3> HIDE DEF w
      <3>3. Good(w) /\ Good(Stale(w))
        BY <3>2, ShutGood, StaleShut
      <3> QED BY <3>3 DEF w
    <2> QED BY <1>2, <2>1, <2>2
  <1> HIDE DEF k
  <1>4. k.writes # <<>> => Good(Put(u, s, Told(k, status)))
    BY <1>2, <1>3, DrainKept
  <1>5. Good(Put(u, s, Dialled(k, status))) /\ Good(Put(u, s, Found(k, status)))
    BY <1>2, <1>3, DrainKept
  <1>6. Good(Put(u, s, DnsTo(k, x))) /\ Good(Stale(Put(u, s, DnsTo(k, x))))
    BY <1>2, <1>3, DnsKept
  <1> QED BY <1>4, <1>5, <1>6 DEF k

\* The assignments of uv_socket_close_done_cb to a socket.
TcpDone(k)   == [k EXCEPT !.tcp = "closed"]
TimerDone(k) == [k EXCEPT !.timer = "closed"]
Uncount(k)   == [k EXCEPT !.closing_count = @ - 1]
Report(k)    == [k EXCEPT !.on_closed = FALSE]

\* A socket with references, closing_count, memory and on_closed, and the rest
\* as in k.
Closing(k, n, r, c, fr, oc) ==
    /\ n \in AnySocket /\ n.ref = r /\ n.closing_count = c /\ n.freed = fr /\ n.on_closed = oc
    /\ n.is_terminated = k.is_terminated /\ n.rdstate = k.rdstate /\ n.wrstate = k.wrstate
    /\ n.reading = k.reading /\ n.ticking = k.ticking /\ n.tcp = k.tcp /\ n.timer = k.timer
    /\ n.writes = k.writes

\* Every closed socket is one.
LEMMA ClosingOf ==
    ASSUME NEW k \in AnySocket
    PROVE  Closing(k, k, k.ref, k.closing_count, k.freed, k.on_closed)
  BY DEF Closing

\* socket_ctx_release.
LEMMA ClosingRelease ==
    ASSUME NEW k, NEW n, NEW r \in Int, NEW c, NEW fr \in BOOLEAN, NEW oc,
           Closing(k, n, r, c, fr, oc), NEW q, q = r - 1, NEW fq, fq = (fr \/ r <= 1)
    PROVE  Closing(k, socket_ctx_release(n), q, c, fq, oc)
  <1> DEFINE m == [n EXCEPT !.ref = q, !.freed = fq]
  <1>1. n.ref = r /\ n.freed = fr
    BY DEF Closing
  <1>2. socket_ctx_release(n) = m
    <2>1. n.ref - 1 = q /\ (n.freed \/ n.ref <= 1) = fq
      BY <1>1
    <2> QED BY <2>1, Zenon DEF socket_ctx_release
  <1>3. q \in Int /\ fq \in BOOLEAN
    OBVIOUS
  <1>4. Closing(k, m, q, c, fq, oc)
    BY <1>3, ZenonT(60) DEF Closing, AnySocket
  <1> HIDE DEF m
  <1> QED BY <1>2, <1>4

\* closing_count goes down.
LEMMA ClosingUncount ==
    ASSUME NEW k, NEW n, NEW r, NEW c \in Int, NEW fr, NEW oc,
           Closing(k, n, r, c, fr, oc), NEW q, q = c - 1
    PROVE  Closing(k, Uncount(n), r, q, fr, oc)
  <1> DEFINE m == [n EXCEPT !.closing_count = q]
  <1>1. Uncount(n) = m
    <2>1. n.closing_count - 1 = q
      BY DEF Closing
    <2> QED BY <2>1, Zenon DEF Uncount
  <1>2. q \in Int
    OBVIOUS
  <1>3. Closing(k, m, r, q, fr, oc)
    BY <1>2, ZenonT(60) DEF Closing, AnySocket
  <1> HIDE DEF m
  <1> QED BY <1>1, <1>3

\* on_closed is called, and forgotten.
LEMMA ClosingReport ==
    ASSUME NEW k, NEW n, NEW r, NEW c, NEW fr, NEW oc, Closing(k, n, r, c, fr, oc)
    PROVE  Closing(k, Report(n), r, c, fr, FALSE)
  BY ZenonT(60) DEF Closing, AnySocket, Report

\* A handle of socket k reports that it is closed: j is the socket then.
Fewer(k, j) ==
    /\ j \in DeadSocket /\ j.ref = k.ref /\ j.closing_count = k.closing_count
    /\ j.on_closed = k.on_closed /\ j.freed = k.freed /\ j.writes = k.writes
    /\ CloseOwed(k) \in {1, 2} /\ CloseOwed(j) = CloseOwed(k) - 1

\* Either handle.
LEMMA OneFewer ==
    ASSUME NEW k \in DeadSocket
    PROVE  /\ k.tcp = "closing" => Fewer(k, TcpDone(k))
           /\ k.timer = "closing" => Fewer(k, TimerDone(k))
  <1> DEFINE x == "closed"
             j == [k EXCEPT !.tcp = x]
             m == [k EXCEPT !.timer = x]
  <1>0. x \in {"closing", "closed"} /\ x # "closing"
    OBVIOUS
  <1>1. TcpDone(k) = j /\ TimerDone(k) = m
    BY DEF TcpDone, TimerDone
  <1> HIDE DEF x
  <1>2. j \in DeadSocket
    BY <1>0, ZenonT(60) DEF DeadSocket
  <1>3. m \in DeadSocket
    BY <1>0, ZenonT(60) DEF DeadSocket
  <1>4. /\ j.ref = k.ref /\ j.closing_count = k.closing_count /\ j.on_closed = k.on_closed
        /\ j.freed = k.freed /\ j.writes = k.writes /\ j.tcp = x /\ j.timer = k.timer
    BY ZenonT(60) DEF DeadSocket
  <1>5. /\ m.ref = k.ref /\ m.closing_count = k.closing_count /\ m.on_closed = k.on_closed
        /\ m.freed = k.freed /\ m.writes = k.writes /\ m.tcp = k.tcp /\ m.timer = x
    BY ZenonT(60) DEF DeadSocket
  <1> HIDE DEF j, m
  <1>6. ASSUME k.tcp = "closing"
        PROVE  Fewer(k, TcpDone(k))
    <2>1. CloseOwed(k) \in {1, 2} /\ CloseOwed(j) = CloseOwed(k) - 1
      BY <1>0, <1>4, <1>6 DEF CloseOwed
    <2> QED BY <1>1, <1>2, <1>4, <2>1 DEF Fewer
  <1>7. ASSUME k.timer = "closing"
        PROVE  Fewer(k, TimerDone(k))
    <2>1. CloseOwed(k) \in {1, 2} /\ CloseOwed(m) = CloseOwed(k) - 1
      BY <1>0, <1>5, <1>7 DEF CloseOwed
    <2> QED BY <1>1, <1>3, <1>5, <2>1 DEF Fewer
  <1> QED BY <1>6, <1>7

Settled(n, gone, oc) ==
    n \in DeadSocket /\ n \in AnySocket /\ Counted(n, gone) /\ n.on_closed = oc

\* The reference of the tunnel to a socket.
Owner(gone) == One(~gone)

\* Its counts.
LEMMA FewerClosing ==
    ASSUME NEW k, NEW j, Fewer(k, j), NEW gone, Counted(k, gone),
           NEW r, r = Owner(gone) + CloseOwed(k), NEW c, c = CloseOwed(k),
           NEW fr, fr = FALSE, NEW oc, oc = TRUE
    PROVE  Closing(j, j, r, c, fr, oc)
  <1>1. /\ j \in DeadSocket /\ j.ref = k.ref /\ j.closing_count = k.closing_count
        /\ j.on_closed = k.on_closed /\ j.freed = k.freed /\ CloseOwed(k) \in {1, 2}
    BY DEF Fewer
  <1>2. j.on_closed \in BOOLEAN /\ j.freed \in BOOLEAN /\ j \in AnySocket
    BY <1>1, DeadIsAny DEF DeadSocket
  <1>3. /\ k.ref = One(~gone) + CloseOwed(k) /\ (k.freed <=> k.ref = 0)
        /\ k.closing_count = CloseOwed(k) /\ (k.on_closed <=> CloseOwed(k) > 0)
    BY DEF Counted
  <1>4. One(~gone) \in {0, 1} /\ Owner(gone) = One(~gone)
    BY DEF One, Owner
  <1>5. k.ref # 0 /\ CloseOwed(k) > 0
    BY <1>1, <1>3, <1>4
  <1>6. j.on_closed = oc /\ j.freed = fr
    BY <1>1, <1>2, <1>3, <1>5
  <1>7. j.ref = r /\ j.closing_count = c
    BY <1>1, <1>3, <1>4
  <1>8. Closing(j, j, j.ref, j.closing_count, j.freed, j.on_closed)
    BY <1>2, ClosingOf
  <1> QED BY <1>6, <1>7, <1>8, Zenon

\* The counts of a socket add up.
AddUp(j, r, c, fr, oc, gone) ==
    /\ r \in Nat /\ c \in Nat /\ r = Owner(gone) + CloseOwed(j) /\ (fr <=> r = 0)
    /\ c = CloseOwed(j) /\ (oc <=> c > 0) /\ Len(j.writes) <= MaxData + 2

\* Then it is settled.
LEMMA ClosingSettled ==
    ASSUME NEW j \in DeadSocket, NEW n, NEW r, NEW c, NEW fr, NEW oc, NEW gone,
           Closing(j, n, r, c, fr, oc), AddUp(j, r, c, fr, oc, gone)
    PROVE  Settled(n, gone, oc)
  <1>1. /\ n \in AnySocket /\ n.ref = r /\ n.closing_count = c /\ n.freed = fr /\ n.on_closed = oc
        /\ n.is_terminated = j.is_terminated /\ n.rdstate = j.rdstate /\ n.wrstate = j.wrstate
        /\ n.reading = j.reading /\ n.ticking = j.ticking /\ n.tcp = j.tcp /\ n.timer = j.timer
        /\ n.writes = j.writes
    BY DEF Closing
  <1>2. /\ j.is_terminated = TRUE /\ j.rdstate = "dead" /\ j.wrstate = "dead"
        /\ j.reading = FALSE /\ j.ticking = FALSE /\ j.tcp \in {"closing", "closed"}
        /\ j.timer \in {"closing", "closed"}
    BY DEF DeadSocket
  <1>3. r \in Nat /\ c \in Nat
    BY DEF AddUp
  <1>4. n \in DeadSocket
    BY <1>1, <1>2, <1>3, AnyIsDead
  <1>5. CloseOwed(n) = CloseOwed(j)
    BY <1>1 DEF CloseOwed
  <1>6. Counted(n, gone)
    BY <1>1, <1>5 DEF Counted, AddUp, Owner
  <1> QED BY <1>1, <1>4, <1>6 DEF Settled

\* The first handle of a socket is closed.
LEMMA StillClosing ==
    ASSUME NEW k, NEW j, Fewer(k, j), NEW gone, Counted(k, gone), CloseOwed(k) = 2
    PROVE  Settled(socket_ctx_release(Uncount(j)), gone, TRUE)
  <1> DEFINE g == Owner(gone)
             r2 == g + 2
             r1 == g + 1
             c2 == 2
             c1 == 1
             fr == FALSE
             oc == TRUE
             x == Uncount(j)
             n == socket_ctx_release(x)
  <1>1. j \in DeadSocket /\ CloseOwed(j) = 1 /\ g \in {0, 1} /\ Len(j.writes) <= MaxData + 2
    BY DEF Fewer, Counted, Owner, One
  <1>0. r2 = Owner(gone) + CloseOwed(k) /\ c2 = CloseOwed(k) /\ fr = FALSE /\ oc = TRUE
    OBVIOUS
  <1>2. /\ c2 \in Int /\ c1 = c2 - 1 /\ r2 \in Int /\ r1 = r2 - 1 /\ fr = (fr \/ r2 <= 1)
        /\ fr \in BOOLEAN /\ r1 \in Nat /\ c1 \in Nat
    BY <1>1
  <1>3. AddUp(j, r1, c1, fr, oc, gone)
    BY <1>1 DEF AddUp
  <1> HIDE DEF g, c1, c2, r1, r2, fr, oc
  <1>7. Closing(j, j, r2, c2, fr, oc)
    BY <1>0, FewerClosing
  <1>4. Closing(j, x, r2, c1, fr, oc)
    BY <1>2, <1>7, ClosingUncount
  <1> HIDE DEF x
  <1>5. Closing(j, n, r1, c1, fr, oc)
    BY <1>2, <1>4, ClosingRelease
  <1> HIDE DEF n
  <1>6. Settled(n, gone, oc)
    BY <1>1, <1>3, <1>5, ClosingSettled
  <1> QED BY <1>6 DEF oc, n, x

\* The last one, of a tunnel that goes on.
LEMMA SocketDone ==
    ASSUME NEW k, NEW j, Fewer(k, j), Counted(k, FALSE), CloseOwed(k) = 1
    PROVE  Settled(socket_ctx_release(Report(Uncount(j))), FALSE, FALSE)
  <1> DEFINE gone == FALSE
             r2 == 2
             r1 == 1
             c1 == 1
             c0 == 0
             fr == FALSE
             oc == TRUE
             no == FALSE
             x == Uncount(j)
             y == Report(x)
             n == socket_ctx_release(y)
  <1>0. Counted(k, gone) /\ Owner(gone) = 1
    BY DEF Owner, One
  <1> HIDE DEF gone
  <1>1. j \in DeadSocket /\ CloseOwed(j) = 0 /\ Len(j.writes) <= MaxData + 2
    BY DEF Fewer, Counted
  <1>9. r2 = Owner(gone) + CloseOwed(k) /\ c1 = CloseOwed(k) /\ fr = FALSE /\ oc = TRUE
    BY <1>0
  <1>2. /\ c1 \in Int /\ c0 = c1 - 1 /\ r2 \in Int /\ r1 = r2 - 1 /\ fr = (fr \/ r2 <= 1)
        /\ fr \in BOOLEAN /\ r1 \in Nat /\ c0 \in Nat
    BY <1>1
  <1>3. AddUp(j, r1, c0, fr, no, gone)
    BY <1>0, <1>1 DEF AddUp
  <1>7. no = FALSE
    OBVIOUS
  <1> HIDE DEF c1, c0, r1, r2, fr, oc, no
  <1>10. Closing(j, j, r2, c1, fr, oc)
    BY <1>0, <1>9, FewerClosing
  <1>4. Closing(j, x, r2, c0, fr, oc)
    BY <1>2, <1>10, ClosingUncount
  <1> HIDE DEF x
  <1>5. Closing(j, y, r2, c0, fr, no)
    BY <1>4, <1>7, ClosingReport
  <1> HIDE DEF y
  <1>6. Closing(j, n, r1, c0, fr, no)
    BY <1>2, <1>5, ClosingRelease
  <1> HIDE DEF n
  <1>8. Settled(n, gone, no)
    BY <1>1, <1>3, <1>6, ClosingSettled
  <1> QED BY <1>8 DEF no, n, x, y, gone

\* The last one of all: the socket is released by the tunnel, too.
LEMMA SocketGone ==
    ASSUME NEW k, NEW j, Fewer(k, j), Counted(k, FALSE), CloseOwed(k) = 1
    PROVE  Settled(socket_ctx_release(Report(socket_ctx_release(Uncount(j)))), TRUE, FALSE)
  <1> DEFINE was == FALSE
             gone == TRUE
             r2 == 2
             r1 == 1
             r0 == 0
             c1 == 1
             c0 == 0
             fr == FALSE
             yes == TRUE
             oc == TRUE
             no == FALSE
             x == Uncount(j)
             y == socket_ctx_release(x)
             z == Report(y)
             n == socket_ctx_release(z)
  <1>0. Counted(k, was) /\ Owner(was) = 1 /\ Owner(gone) = 0
    BY DEF Owner, One
  <1> HIDE DEF was, gone
  <1>1. j \in DeadSocket /\ CloseOwed(j) = 0 /\ Len(j.writes) <= MaxData + 2
    BY DEF Fewer, Counted
  <1>10. r2 = Owner(was) + CloseOwed(k) /\ c1 = CloseOwed(k) /\ fr = FALSE /\ oc = TRUE
    BY <1>0
  <1>2. /\ c1 \in Int /\ c0 = c1 - 1 /\ r2 \in Int /\ r1 = r2 - 1 /\ fr = (fr \/ r2 <= 1)
        /\ fr \in BOOLEAN /\ r1 \in Int /\ r0 = r1 - 1 /\ yes = (fr \/ r1 <= 1)
        /\ r0 \in Nat /\ c0 \in Nat
    BY <1>1
  <1>3. AddUp(j, r0, c0, yes, no, gone)
    BY <1>0, <1>1 DEF AddUp
  <1>4. no = FALSE
    OBVIOUS
  <1> HIDE DEF c1, c0, r0, r1, r2, fr, yes, oc, no
  <1>11. Closing(j, j, r2, c1, fr, oc)
    BY <1>0, <1>10, FewerClosing
  <1>5. Closing(j, x, r2, c0, fr, oc)
    BY <1>2, <1>11, ClosingUncount
  <1> HIDE DEF x
  <1>6. Closing(j, y, r1, c0, fr, oc)
    BY <1>2, <1>5, ClosingRelease
  <1> HIDE DEF y
  <1>7. Closing(j, z, r1, c0, fr, no)
    BY <1>4, <1>6, ClosingReport
  <1> HIDE DEF z
  <1>8. Closing(j, n, r0, c0, yes, no)
    BY <1>2, <1>7, ClosingRelease
  <1> HIDE DEF n
  <1>9. Settled(n, gone, no)
    BY <1>1, <1>3, <1>8, ClosingSettled
  <1> QED BY <1>9 DEF no, n, x, y, z, gone

\* The other socket is released with it.
LEMMA OtherGone ==
    ASSUME NEW k \in DeadSocket, Counted(k, FALSE), ~k.on_closed
    PROVE  Settled(socket_ctx_release(k), TRUE, FALSE)
  <1> DEFINE gone == TRUE
             r1 == 1
             r0 == 0
             c0 == 0
             fr == FALSE
             yes == TRUE
             no == FALSE
             n == socket_ctx_release(k)
  <1>0. One(~FALSE) = 1 /\ Owner(gone) = 0 /\ CloseOwed(k) \in {0, 1, 2}
    BY DEF Owner, One, CloseOwed
  <1>1. k.on_closed \in BOOLEAN /\ k.freed \in BOOLEAN /\ k \in AnySocket
    BY DeadIsAny DEF DeadSocket
  <1>2. CloseOwed(k) = 0
    BY <1>0 DEF Counted
  <1>3. k.ref = r1 /\ k.closing_count = c0 /\ k.freed = fr /\ k.on_closed = no
    BY <1>0, <1>1, <1>2 DEF Counted
  <1>4. Closing(k, k, r1, c0, fr, no)
    BY <1>1, <1>3, ClosingOf
  <1>5. /\ r1 \in Int /\ r0 = r1 - 1 /\ fr \in BOOLEAN /\ yes = (fr \/ r1 <= 1)
    OBVIOUS
  <1>6. AddUp(k, r0, c0, yes, no, gone)
    <2>1. Len(k.writes) <= MaxData + 2
      BY DEF Counted
    <2> HIDE DEF gone
    <2> QED BY <1>0, <1>2, <2>1 DEF AddUp
  <1> HIDE DEF gone, r1, r0, c0, fr, yes, no
  <1>7. Closing(k, n, r0, c0, yes, no)
    BY <1>4, <1>5, ClosingRelease
  <1> HIDE DEF n
  <1>8. Settled(n, gone, no)
    BY <1>6, <1>7, ClosingSettled
  <1> QED BY <1>8 DEF no, n, gone

\* tunnel_destroy_internal.
LEMMA MidDestroy ==
    ASSUME NEW u, NEW i, NEW o, NEW n, NEW term, NEW gone, NEW st, NEW b, NEW d,
           Mid(u, i, o, n, term, gone, st, b, d),
           socket_ctx_release(i) \in AnySocket, socket_ctx_release(o) \in AnySocket
    PROVE  Mid(tunnel_destroy_internal(u), socket_ctx_release(i), socket_ctx_release(o),
               n, term, TRUE, st, b, d)
  <1> DEFINE x == [s \in Side |-> socket_ctx_release(u.sock[s])]
             y == socket_ctx_release(i)
             z == socket_ctx_release(o)
             w == [u EXCEPT !.freed = TRUE, !.sock = x]
  <1>1. u.sock["incoming"] = i /\ u.sock["outgoing"] = o
    BY DEF Mid
  <1>2. x \in [Side -> AnySocket] /\ x["incoming"] = y /\ x["outgoing"] = z
    BY <1>1 DEF Side
  <1>3. tunnel_destroy_internal(u) = w
    BY DEF tunnel_destroy_internal
  <1> HIDE DEF x, y, z
  <1>4. Mid(w, y, z, n, term, TRUE, st, b, d)
    BY <1>2, ZenonT(60) DEF Mid, AnyTunnel
  <1> HIDE DEF w
  <1> QED BY <1>3, <1>4 DEF y, z

\* The assignments keep the type.
LEMMA AnyAfter ==
    ASSUME NEW k \in AnySocket
    PROVE  /\ Uncount(k) \in AnySocket /\ Report(k) \in AnySocket
           /\ socket_ctx_release(k) \in AnySocket
  <1> DEFINE r == k.ref
             c == k.closing_count
             fr == k.freed
             oc == k.on_closed
             r1 == r - 1
             c1 == c - 1
             f1 == (fr \/ r <= 1)
  <1>1. r \in Int /\ c \in Int /\ fr \in BOOLEAN
    BY DEF AnySocket
  <1>2. Closing(k, k, r, c, fr, oc)
    BY ClosingOf
  <1>3. r1 = r - 1 /\ c1 = c - 1 /\ f1 = (fr \/ r <= 1)
    OBVIOUS
  <1> HIDE DEF r, c, fr, oc, r1, c1, f1
  <1>4. Closing(k, Uncount(k), r, c1, fr, oc)
    BY <1>1, <1>2, <1>3, ClosingUncount
  <1>5. Closing(k, Report(k), r, c, fr, FALSE)
    BY <1>2, ClosingReport
  <1>6. Closing(k, socket_ctx_release(k), r1, c, f1, oc)
    BY <1>1, <1>2, <1>3, ClosingRelease
  <1> QED BY <1>4, <1>5, <1>6 DEF Closing

\* uv_socket_close_done_cb while the other handle is open, and after that.
CloseOne(u, s, j)  == Put(u, s, Uncount(j))
CloseLast(u, s, j) == tunnel_ctx_release(CloseOne(u, s, j))
CloseTell(v, s)    == Put(v, s, Report(v.sock[s]))
CloseLeave(v, s)   == Put(v, s, socket_ctx_release(v.sock[s]))

\* The two ways through it.
LEMMA CloseForm ==
    ASSUME NEW u, NEW s, NEW j, u.sock[s] = j
    PROVE  /\ ~(j.closing_count <= 1 /\ j.on_closed) =>
                 uv_socket_close_done_cb(u, s) = CloseLeave(CloseOne(u, s, j), s)
           /\ (j.closing_count <= 1 /\ j.on_closed) =>
                 uv_socket_close_done_cb(u, s)
                    = CloseLeave(CloseTell(CloseLast(u, s, j), s), s)
  BY DEF uv_socket_close_done_cb, CloseOne, CloseLast, CloseTell, CloseLeave, Uncount, Report

\* The last reference to the tunnel.
LEMMA LastRelease ==
    ASSUME NEW u, NEW i, NEW o, NEW n, NEW term, NEW gone, NEW st, NEW b, NEW d,
           Mid(u, i, o, n, term, gone, st, b, d), n = 1,
           i \in AnySocket, o \in AnySocket
    PROVE  Mid(tunnel_ctx_release(u), socket_ctx_release(i), socket_ctx_release(o),
               0, term, TRUE, st, b, d)
  <1> DEFINE z == 0
             w == [u EXCEPT !.ref = z]
  <1>1. u.ref = 1
    BY DEF Mid
  <1>2. z \in Int /\ u.ref - 1 = z /\ u.ref <= 1
    BY <1>1
  <1> HIDE DEF z
  <1>3. tunnel_ctx_release(u) = tunnel_destroy_internal(w)
    BY <1>2 DEF tunnel_ctx_release
  <1>4. Mid(w, i, o, z, term, gone, st, b, d)
    BY <1>2, MidRef
  <1> HIDE DEF w
  <1>5. socket_ctx_release(i) \in AnySocket /\ socket_ctx_release(o) \in AnySocket
    BY AnyAfter
  <1>6. Mid(tunnel_destroy_internal(w), socket_ctx_release(i), socket_ctx_release(o),
            z, term, TRUE, st, b, d)
    BY <1>4, <1>5, MidDestroy
  <1> QED BY <1>3, <1>6, Zenon DEF z

\* Shut, from its parts.
LEMMA ShutBy ==
    ASSUME NEW u, NEW i, NEW o, NEW n, NEW gone, NEW st, NEW b, NEW d,
           Mid(u, i, o, n, TRUE, gone, st, b, d), NEW p, NEW q,
           Settled(i, gone, p), Settled(o, gone, q), n = One(p) + One(q), gone <=> n = 0,
           Quittable(d)
    PROVE  Good(u)
  <1>1. /\ i \in DeadSocket /\ Counted(i, gone) /\ i.on_closed = p
        /\ o \in DeadSocket /\ Counted(o, gone) /\ o.on_closed = q
    BY DEF Settled
  <1>2. Shut(u, i, o, n, gone, st, b, d)
    BY <1>1 DEF Shut
  <1> QED BY <1>2, ShutGood

\* A handle of the application's socket reports that it is closed.
LEMMA CloseDoneIn ==
    ASSUME NEW u, NEW i, NEW o, NEW n, NEW gone, NEW st, NEW b, NEW d,
           Shut(u, i, o, n, gone, st, b, d), NEW j, Fewer(i, j)
    PROVE  Good(uv_socket_close_done_cb(Put(u, "incoming", j), "incoming"))
  <1> DEFINE s == "incoming"
             w == Put(u, s, j)
             e == Uncount(j)
             a == CloseOne(w, s, j)
             p == o.on_closed
  <1>1. /\ Mid(u, i, o, n, TRUE, gone, st, b, d) /\ i \in DeadSocket /\ o \in DeadSocket
        /\ n = One(i.on_closed) + One(o.on_closed) /\ (gone <=> n = 0)
        /\ Counted(i, gone) /\ Counted(o, gone) /\ Quittable(d)
    BY DEF Shut
  <1>2. j \in DeadSocket /\ j.closing_count = i.closing_count /\ j.on_closed = i.on_closed
        /\ CloseOwed(i) \in {1, 2}
    BY DEF Fewer
  <1>3. i.closing_count = CloseOwed(i) /\ (i.on_closed <=> CloseOwed(i) > 0)
    BY <1>1 DEF Counted
  <1>4. i.on_closed \in BOOLEAN /\ p \in BOOLEAN /\ gone \in BOOLEAN
    BY <1>1 DEF DeadSocket, Mid, AnyTunnel
  <1>5. i.on_closed = TRUE /\ j.on_closed = TRUE
    BY <1>2, <1>3, <1>4
  <1>6. n = One(TRUE) + One(p) /\ n = One(p) + One(TRUE) /\ One(TRUE) = 1 /\ One(FALSE) = 0
    BY <1>1, <1>4, <1>5 DEF One
  <1>7. gone = FALSE
    BY <1>1, <1>4, <1>6 DEF One
  <1>8. j \in AnySocket /\ e \in AnySocket /\ o \in AnySocket /\ Settled(o, gone, p)
    BY <1>1, <1>2, DeadIsAny, AnyAfter DEF Settled
  <1>9. Mid(w, j, o, n, TRUE, gone, st, b, d)
    BY <1>1, <1>8, MidPut
  <1>10. w.sock[s] = j
    BY <1>9 DEF Mid
  <1> HIDE DEF w
  <1>11. Mid(a, e, o, n, TRUE, gone, st, b, d)
    <2>1. Mid(Put(w, s, e), e, o, n, TRUE, gone, st, b, d)
      BY <1>8, <1>9, MidPut
    <2> QED BY <2>1 DEF CloseOne
  <1>12. a.sock[s] = e
    BY <1>11 DEF Mid
  <1>13. CASE CloseOwed(i) = 2
    <2> DEFINE m == socket_ctx_release(e)
               v == Put(a, s, m)
    <2>1. uv_socket_close_done_cb(w, s) = CloseLeave(a, s)
      <3>1. ~(j.closing_count <= 1 /\ j.on_closed)
        BY <1>2, <1>3, <1>13
      <3> QED BY <1>10, <3>1, CloseForm
    <2>2. CloseLeave(a, s) = v
      BY <1>12 DEF CloseLeave
    <2>3. Settled(m, gone, TRUE)
      BY <1>1, <1>13, StillClosing
    <2>4. m \in AnySocket
      BY <1>8, AnyAfter
    <2> HIDE DEF m, e, a
    <2>5. Mid(v, m, o, n, TRUE, gone, st, b, d)
      BY <1>11, <2>4, MidPut
    <2> HIDE DEF v, s
    <2>6. Good(v)
      BY <1>1, <1>6, <1>8, <2>3, <2>5, ShutBy
    <2> QED BY <2>1, <2>2, <2>6 DEF w, s
  <1>14. CASE CloseOwed(i) = 1
    <2> DEFINE f == CloseLast(w, s, j)
               g == CloseTell(f, s)
               v == CloseLeave(g, s)
    <2>1. uv_socket_close_done_cb(w, s) = v
      <3>1. j.closing_count <= 1 /\ j.on_closed
        BY <1>2, <1>3, <1>5, <1>14
      <3> QED BY <1>10, <3>1, CloseForm
    <2>2. f = tunnel_ctx_release(a)
      BY DEF CloseLast
    <2>3. CASE p
      <3> DEFINE y == Report(e)
                 z == socket_ctx_release(y)
                 one == 1
                 no == FALSE
      <3>1. n = 2 /\ n \in Int /\ n > 1 /\ one = n - 1 /\ one # 0 /\ p = TRUE /\ no = FALSE
        BY <1>4, <1>6, <2>3 DEF One
      <3> HIDE DEF one, no
      <3>2. Mid(f, e, o, one, TRUE, gone, st, b, d)
        BY <1>11, <2>2, <3>1, MidRelease
      <3>3. f.sock[s] = e
        BY <3>2 DEF Mid
      <3>4. g = Put(f, s, y)
        BY <3>3 DEF CloseTell
      <3>5. y \in AnySocket /\ z \in AnySocket
        BY <1>8, AnyAfter
      <3>6. Settled(z, gone, no)
        <4>1. Settled(z, FALSE, FALSE)
          BY <1>1, <1>7, <1>14, SocketDone
        <4> QED BY <1>7, <3>1, <4>1, Zenon
      <3> HIDE DEF f, e, a, y
      <3>7. Mid(Put(f, s, y), y, o, one, TRUE, gone, st, b, d)
        BY <3>2, <3>5, MidPut
      <3>8. Mid(g, y, o, one, TRUE, gone, st, b, d)
        BY <3>4, <3>7
      <3>9. g.sock[s] = y
        BY <3>8 DEF Mid
      <3>10. v = Put(g, s, z)
        BY <3>9 DEF CloseLeave
      <3> HIDE DEF g, z
      <3>11. Mid(Put(g, s, z), z, o, one, TRUE, gone, st, b, d)
        BY <3>5, <3>8, MidPut
      <3>12. Mid(v, z, o, one, TRUE, gone, st, b, d)
        BY <3>10, <3>11
      <3> HIDE DEF v, s
      <3>13. one = One(no) + One(p) /\ (gone <=> one = 0)
        BY <1>6, <1>7, <3>1 DEF One
      <3> HIDE DEF p
      <3>14. Good(v)
        BY <1>1, <1>8, <3>6, <3>12, <3>13, ShutBy
      <3> QED BY <2>1, <3>14 DEF w, s
    <2>4. CASE ~p
      <3> DEFINE x == socket_ctx_release(e)
                 y == Report(x)
                 z == socket_ctx_release(y)
                 q == socket_ctx_release(o)
                 nil == 0
                 no == FALSE
                 yes == TRUE
      <3>1. n = 1 /\ nil = 0 /\ p = FALSE /\ no = FALSE /\ yes = TRUE
        BY <1>4, <1>6, <2>4 DEF One
      <3>2. Settled(q, yes, no)
        <4>1. ~o.on_closed /\ Counted(o, FALSE)
          BY <1>1, <1>7, <2>4
        <4> QED BY <1>1, <4>1, OtherGone
      <3>3. Settled(z, yes, no)
        <4>1. Counted(i, FALSE)
          BY <1>1, <1>7
        <4> QED BY <1>14, <4>1, SocketGone
      <3> HIDE DEF nil, no, yes
      <3>4. Mid(f, x, q, nil, TRUE, yes, st, b, d)
        <4>1. Mid(tunnel_ctx_release(a), socket_ctx_release(e), socket_ctx_release(o),
                  0, TRUE, TRUE, st, b, d)
          BY <1>8, <1>11, <3>1, LastRelease
        <4> QED BY <2>2, <3>1, <4>1, Zenon
      <3>5. f.sock[s] = x
        BY <3>4 DEF Mid
      <3>6. g = Put(f, s, y)
        BY <3>5 DEF CloseTell
      <3>7. x \in AnySocket /\ y \in AnySocket /\ z \in AnySocket
        BY <1>8, AnyAfter
      <3> HIDE DEF f, e, a, x, y, q
      <3>8. Mid(Put(f, s, y), y, q, nil, TRUE, yes, st, b, d)
        BY <3>4, <3>7, MidPut
      <3>9. Mid(g, y, q, nil, TRUE, yes, st, b, d)
        BY <3>6, <3>8
      <3>10. g.sock[s] = y
        BY <3>9 DEF Mid
      <3>11. v = Put(g, s, z)
        BY <3>10 DEF CloseLeave
      <3> HIDE DEF g, z
      <3>12. Mid(Put(g, s, z), z, q, nil, TRUE, yes, st, b, d)
        BY <3>7, <3>9, MidPut
      <3>13. Mid(v, z, q, nil, TRUE, yes, st, b, d)
        BY <3>11, <3>12
      <3> HIDE DEF v, s
      <3>14. nil = One(no) + One(no) /\ (yes <=> nil = 0)
        BY <1>6, <3>1 DEF One
      <3>15. Good(v)
        BY <1>1, <3>2, <3>3, <3>13, <3>14, ShutBy
      <3> QED BY <2>1, <3>15 DEF w, s
    <2> QED BY <2>3, <2>4
  <1> QED BY <1>2, <1>13, <1>14

\* A handle of the server's socket reports that it is closed.
LEMMA CloseDoneOut ==
    ASSUME NEW u, NEW i, NEW o, NEW n, NEW gone, NEW st, NEW b, NEW d,
           Shut(u, i, o, n, gone, st, b, d), NEW j, Fewer(o, j)
    PROVE  Good(uv_socket_close_done_cb(Put(u, "outgoing", j), "outgoing"))
  <1> DEFINE s == "outgoing"
             w == Put(u, s, j)
             e == Uncount(j)
             a == CloseOne(w, s, j)
             p == i.on_closed
  <1>1. /\ Mid(u, i, o, n, TRUE, gone, st, b, d) /\ i \in DeadSocket /\ o \in DeadSocket
        /\ n = One(i.on_closed) + One(o.on_closed) /\ (gone <=> n = 0)
        /\ Counted(i, gone) /\ Counted(o, gone) /\ Quittable(d)
    BY DEF Shut
  <1>2. j \in DeadSocket /\ j.closing_count = o.closing_count /\ j.on_closed = o.on_closed
        /\ CloseOwed(o) \in {1, 2}
    BY DEF Fewer
  <1>3. o.closing_count = CloseOwed(o) /\ (o.on_closed <=> CloseOwed(o) > 0)
    BY <1>1 DEF Counted
  <1>4. o.on_closed \in BOOLEAN /\ p \in BOOLEAN /\ gone \in BOOLEAN
    BY <1>1 DEF DeadSocket, Mid, AnyTunnel
  <1>5. o.on_closed = TRUE /\ j.on_closed = TRUE
    BY <1>2, <1>3, <1>4
  <1>6. n = One(TRUE) + One(p) /\ n = One(p) + One(TRUE) /\ One(TRUE) = 1 /\ One(FALSE) = 0
    BY <1>1, <1>4, <1>5 DEF One
  <1>7. gone = FALSE
    BY <1>1, <1>4, <1>6 DEF One
  <1>8. j \in AnySocket /\ e \in AnySocket /\ i \in AnySocket /\ Settled(i, gone, p)
    BY <1>1, <1>2, DeadIsAny, AnyAfter DEF Settled
  <1>9. Mid(w, i, j, n, TRUE, gone, st, b, d)
    BY <1>1, <1>8, MidPut
  <1>10. w.sock[s] = j
    BY <1>9 DEF Mid
  <1> HIDE DEF w
  <1>11. Mid(a, i, e, n, TRUE, gone, st, b, d)
    <2>1. Mid(Put(w, s, e), i, e, n, TRUE, gone, st, b, d)
      BY <1>8, <1>9, MidPut
    <2> QED BY <2>1 DEF CloseOne
  <1>12. a.sock[s] = e
    BY <1>11 DEF Mid
  <1>13. CASE CloseOwed(o) = 2
    <2> DEFINE m == socket_ctx_release(e)
               v == Put(a, s, m)
    <2>1. uv_socket_close_done_cb(w, s) = CloseLeave(a, s)
      <3>1. ~(j.closing_count <= 1 /\ j.on_closed)
        BY <1>2, <1>3, <1>13
      <3> QED BY <1>10, <3>1, CloseForm
    <2>2. CloseLeave(a, s) = v
      BY <1>12 DEF CloseLeave
    <2>3. Settled(m, gone, TRUE)
      BY <1>1, <1>13, StillClosing
    <2>4. m \in AnySocket
      BY <1>8, AnyAfter
    <2> HIDE DEF m, e, a
    <2>5. Mid(v, i, m, n, TRUE, gone, st, b, d)
      BY <1>11, <2>4, MidPut
    <2> HIDE DEF v, s
    <2>6. Good(v)
      BY <1>1, <1>6, <1>8, <2>3, <2>5, ShutBy
    <2> QED BY <2>1, <2>2, <2>6 DEF w, s
  <1>14. CASE CloseOwed(o) = 1
    <2> DEFINE f == CloseLast(w, s, j)
               g == CloseTell(f, s)
               v == CloseLeave(g, s)
    <2>1. uv_socket_close_done_cb(w, s) = v
      <3>1. j.closing_count <= 1 /\ j.on_closed
        BY <1>2, <1>3, <1>5, <1>14
      <3> QED BY <1>10, <3>1, CloseForm
    <2>2. f = tunnel_ctx_release(a)
      BY DEF CloseLast
    <2>3. CASE p
      <3> DEFINE y == Report(e)
                 z == socket_ctx_release(y)
                 one == 1
                 no == FALSE
      <3>1. n = 2 /\ n \in Int /\ n > 1 /\ one = n - 1 /\ one # 0 /\ p = TRUE /\ no = FALSE
        BY <1>4, <1>6, <2>3 DEF One
      <3> HIDE DEF one, no
      <3>2. Mid(f, i, e, one, TRUE, gone, st, b, d)
        BY <1>11, <2>2, <3>1, MidRelease
      <3>3. f.sock[s] = e
        BY <3>2 DEF Mid
      <3>4. g = Put(f, s, y)
        BY <3>3 DEF CloseTell
      <3>5. y \in AnySocket /\ z \in AnySocket
        BY <1>8, AnyAfter
      <3>6. Settled(z, gone, no)
        <4>1. Settled(z, FALSE, FALSE)
          BY <1>1, <1>7, <1>14, SocketDone
        <4> QED BY <1>7, <3>1, <4>1, Zenon
      <3> HIDE DEF f, e, a, y
      <3>7. Mid(Put(f, s, y), i, y, one, TRUE, gone, st, b, d)
        BY <3>2, <3>5, MidPut
      <3>8. Mid(g, i, y, one, TRUE, gone, st, b, d)
        BY <3>4, <3>7
      <3>9. g.sock[s] = y
        BY <3>8 DEF Mid
      <3>10. v = Put(g, s, z)
        BY <3>9 DEF CloseLeave
      <3> HIDE DEF g, z
      <3>11. Mid(Put(g, s, z), i, z, one, TRUE, gone, st, b, d)
        BY <3>5, <3>8, MidPut
      <3>12. Mid(v, i, z, one, TRUE, gone, st, b, d)
        BY <3>10, <3>11
      <3> HIDE DEF v, s
      <3>13. one = One(p) + One(no) /\ (gone <=> one = 0)
        BY <1>6, <1>7, <3>1 DEF One
      <3> HIDE DEF p
      <3>14. Good(v)
        BY <1>1, <1>8, <3>6, <3>12, <3>13, ShutBy
      <3> QED BY <2>1, <3>14 DEF w, s
    <2>4. CASE ~p
      <3> DEFINE x == socket_ctx_release(e)
                 y == Report(x)
                 z == socket_ctx_release(y)
                 q == socket_ctx_release(i)
                 nil == 0
                 no == FALSE
                 yes == TRUE
      <3>1. n = 1 /\ nil = 0 /\ p = FALSE /\ no = FALSE /\ yes = TRUE
        BY <1>4, <1>6, <2>4 DEF One
      <3>2. Settled(q, yes, no)
        <4>1. ~i.on_closed /\ Counted(i, FALSE)
          BY <1>1, <1>7, <2>4
        <4> QED BY <1>1, <4>1, OtherGone
      <3>3. Settled(z, yes, no)
        <4>1. Counted(o, FALSE)
          BY <1>1, <1>7
        <4> QED BY <1>14, <4>1, SocketGone
      <3> HIDE DEF nil, no, yes
      <3>4. Mid(f, q, x, nil, TRUE, yes, st, b, d)
        <4>1. Mid(tunnel_ctx_release(a), socket_ctx_release(i), socket_ctx_release(e),
                  0, TRUE, TRUE, st, b, d)
          BY <1>8, <1>11, <3>1, LastRelease
        <4> QED BY <2>2, <3>1, <4>1, Zenon
      <3>5. f.sock[s] = x
        BY <3>4 DEF Mid
      <3>6. g = Put(f, s, y)
        BY <3>5 DEF CloseTell
      <3>7. x \in AnySocket /\ y \in AnySocket /\ z \in AnySocket
        BY <1>8, AnyAfter
      <3> HIDE DEF f, e, a, x, y, q
      <3>8. Mid(Put(f, s, y), q, y, nil, TRUE, yes, st, b, d)
        BY <3>4, <3>7, MidPut
      <3>9. Mid(g, q, y, nil, TRUE, yes, st, b, d)
        BY <3>6, <3>8
      <3>10. g.sock[s] = y
        BY <3>9 DEF Mid
      <3>11. v = Put(g, s, z)
        BY <3>10 DEF CloseLeave
      <3> HIDE DEF g, z
      <3>12. Mid(Put(g, s, z), q, z, nil, TRUE, yes, st, b, d)
        BY <3>7, <3>9, MidPut
      <3>13. Mid(v, q, z, nil, TRUE, yes, st, b, d)
        BY <3>11, <3>12
      <3> HIDE DEF v, s
      <3>14. nil = One(no) + One(no) /\ (yes <=> nil = 0)
        BY <1>6, <3>1 DEF One
      <3>15. Good(v)
        BY <1>1, <3>2, <3>3, <3>13, <3>14, ShutBy
      <3> QED BY <2>1, <3>15 DEF w, s
    <2> QED BY <2>3, <2>4
  <1> QED BY <1>2, <1>13, <1>14

-----------------------------------------------------------------------------
(* The actions. *)

\* A live tunnel, by its fields.
LEMMA LiveIs ==
    ASSUME NEW u, LiveOK(u), NEW i, i = u.sock["incoming"], NEW o, o = u.sock["outgoing"],
           NEW st, st = u.stage, NEW d, d = u.data
    PROVE  /\ Is(u, i, o, st, d) /\ StageOK(st, i, o, d) /\ i \in OpenSocket /\ o \in OpenSocket
           /\ u.is_terminated = FALSE
  <1>1. u \in LiveTunnel /\ StageOK(st, i, o, d)
    BY DEF LiveOK
  <1>2. Is(u, i, o, st, d) /\ i \in OpenSocket /\ o \in OpenSocket
    BY <1>1, IsOf
  <1>3. u.is_terminated = FALSE
    BY <1>1 DEF LiveTunnel
  <1> QED BY <1>1, <1>2, <1>3

\* A read, or its end, on a live tunnel.
LEMMA LiveRead ==
    ASSUME LiveOK(t), NEW s \in Side, SsrOnRead(s)
    PROVE  Good(t')
  <1> DEFINE i == t.sock["incoming"]
             o == t.sock["outgoing"]
             st == t.stage
             d == t.data
  <1>1. Is(t, i, o, st, d) /\ StageOK(st, i, o, d) /\ t.is_terminated = FALSE
    BY LiveIs
  <1>2. t.sock[s].reading
    BY DEF SsrOnRead
  <1>3. PICK status \in {"data", "eof", "error"} :
           t' \in tunnel_socket_ctx_on_read_cb(t, s, status,
                     LAMBDA u : tunnel_ssr_dispatcher(u, s),
                     LAMBDA u : {tunnel_shutdown(u)})
    BY DEF SsrOnRead
  <1>4. CASE status = "data"
    <2> DEFINE a == ReadEnter(t, s, "data")
    <2>1. t' \in {ReadLeave(v, s) : v \in tunnel_ssr_dispatcher(a, s)}
      BY <1>1, <1>3, <1>4 DEF tunnel_socket_ctx_on_read_cb
    <2>2. PICK v \in tunnel_ssr_dispatcher(a, s) : t' = ReadLeave(v, s)
      BY <2>1
    <2>3. s = "incoming" \/ s = "outgoing"
      BY DEF Side
    <2>4. ASSUME s = "incoming" PROVE Good(v)
      <3>1. i.reading /\ v \in tunnel_ssr_dispatcher(a, "incoming") /\ a = ReadEnter(t, "incoming", "data")
        BY <1>2, <2>2, <2>4
      <3> HIDE DEF a, i, o, st, d
      <3> QED BY <1>1, <3>1, DataIn
    <2>5. ASSUME s = "outgoing" PROVE Good(v)
      <3>1. o.reading /\ v \in tunnel_ssr_dispatcher(a, "outgoing") /\ a = ReadEnter(t, "outgoing", "data")
        BY <1>2, <2>2, <2>5
      <3> HIDE DEF a, i, o, st, d
      <3> QED BY <1>1, <3>1, DataOut
    <2>6. Good(v)
      BY <2>3, <2>4, <2>5
    <2>7. Good(ReadLeave(v, s))
      BY <2>6, LeaveGood
    <2> QED BY <2>2, <2>7
  <1>5. CASE status # "data"
    <2> DEFINE w == tunnel_shutdown(ReadEnter(t, s, status))
    <2>1. t' = w
      <3>1. CASE status = "eof"
        BY <1>1, <1>3, <3>1 DEF tunnel_socket_ctx_on_read_cb
      <3>2. CASE status = "error"
        BY <1>1, <1>3, <3>2 DEF tunnel_socket_ctx_on_read_cb
      <3> QED BY <1>3, <1>5, <3>1, <3>2
    <2>2. CASE s = "incoming"
      <3>1. i.reading /\ w = tunnel_shutdown(ReadEnter(t, "incoming", status))
        BY <1>2, <2>2
      <3> HIDE DEF w, i, o, st, d
      <3> QED BY <1>1, <1>3, <2>1, <3>1, EofGood
    <2>3. CASE s = "outgoing"
      <3>1. o.reading /\ w = tunnel_shutdown(ReadEnter(t, "outgoing", status))
        BY <1>2, <2>3
      <3> HIDE DEF w, i, o, st, d
      <3> QED BY <1>1, <1>3, <2>1, <3>1, EofGood
    <2> QED BY <2>2, <2>3 DEF Side
  <1> QED BY <1>4, <1>5

\* A write of a live tunnel completes.
LEMMA LiveWritten ==
    ASSUME LiveOK(t), NEW s \in Side, SsrOnWritten(s)
    PROVE  Good(t')
  <1> DEFINE i == t.sock["incoming"]
             o == t.sock["outgoing"]
             st == t.stage
             d == t.data
  <1>1. Is(t, i, o, st, d) /\ StageOK(st, i, o, d) /\ t.is_terminated = FALSE
    BY LiveIs
  <1>2. t.sock[s].writes # <<>>
    BY DEF SsrOnWritten
  <1>3. PICK status \in {"ok", "err"} :
           t' \in tunnel_socket_ctx_on_written_cb(t, s, status,
                     LAMBDA u : tunnel_ssr_dispatcher(u, s))
    BY DEF SsrOnWritten
  <1>4. CASE status = "ok"
    <2> DEFINE a == Completed(t, s)
    <2>1. t' \in tunnel_ssr_dispatcher(a, s)
      BY <1>1, <1>3, <1>4 DEF tunnel_socket_ctx_on_written_cb, Completed, Wrote, Told
    <2>2. CASE s = "incoming"
      <3>1. /\ i.writes # <<>> /\ t' \in tunnel_ssr_dispatcher(a, "incoming")
            /\ a = Completed(t, "incoming")
        BY <1>2, <2>1, <2>2
      <3> HIDE DEF a, i, o, st, d
      <3> QED BY <1>1, <3>1, TakenIn
    <2>3. CASE s = "outgoing"
      <3>1. /\ o.writes # <<>> /\ t' \in tunnel_ssr_dispatcher(a, "outgoing")
            /\ a = Completed(t, "outgoing")
        BY <1>2, <2>1, <2>3
      <3> HIDE DEF a, i, o, st, d
      <3> QED BY <1>1, <3>1, TakenOut
    <2> QED BY <2>2, <2>3 DEF Side
  <1>5. CASE status = "err"
    <2>1. t' = tunnel_shutdown(Put(t, s, Wrote(t.sock[s], "err", "stop")))
      BY <1>1, <1>3, <1>5 DEF tunnel_socket_ctx_on_written_cb, Wrote, Told
    <2>2. CASE s = "incoming"
      <3>1. i.writes # <<>> /\ t' = tunnel_shutdown(Put(t, "incoming", Wrote(i, "err", "stop")))
        BY <1>2, <2>1, <2>2
      <3> HIDE DEF i, o, st, d
      <3> QED BY <1>1, <3>1, WriteFails
    <2>3. CASE s = "outgoing"
      <3>1. o.writes # <<>> /\ t' = tunnel_shutdown(Put(t, "outgoing", Wrote(o, "err", "stop")))
        BY <1>2, <2>1, <2>3
      <3> HIDE DEF i, o, st, d
      <3> QED BY <1>1, <3>1, WriteFails
    <2> QED BY <2>2, <2>3 DEF Side
  <1> QED BY <1>3, <1>4, <1>5

\* A connect of a live tunnel ends.
LEMMA LiveConnect ==
    ASSUME LiveOK(t), NEW s \in Side, SsrOnConnect(s)
    PROVE  Good(t')
  <1> DEFINE i == t.sock["incoming"]
             o == t.sock["outgoing"]
             st == t.stage
             d == t.data
  <1>1. Is(t, i, o, st, d) /\ StageOK(st, i, o, d) /\ t.is_terminated = FALSE
    BY LiveIs
  <1>2. t.sock[s].connecting
    BY DEF SsrOnConnect
  <1>3. PICK status \in {"ok", "err"} :
           t' \in tunnel_socket_ctx_on_connect_cb(t, s, status,
                     LAMBDA u : tunnel_ssr_dispatcher(u, s))
    BY DEF SsrOnConnect
  <1>4. ~i.connecting /\ (o.connecting => AtConnect(st, i, o, d))
    <2> HIDE DEF i, o, st, d
    <2> QED BY <1>1, WhoDials
  <1>5. s = "outgoing" /\ o.connecting
    BY <1>2, <1>4 DEF Side
  <1> DEFINE a == Put(t, "outgoing", Dialled(o, status))
  <1>6. CASE status = "ok"
    <2>1. t' \in tunnel_ssr_dispatcher(a, "outgoing")
      BY <1>1, <1>3, <1>5, <1>6 DEF tunnel_socket_ctx_on_connect_cb, Dialled
    <2>2. a = Put(t, "outgoing", Dialled(o, status))
      OBVIOUS
    <2> HIDE DEF a, i, o, st, d
    <2> QED BY <1>1, <1>3, <1>4, <1>5, <1>6, <2>1, <2>2, DialEnds
  <1>7. CASE status = "err"
    <2>1. t' = tunnel_shutdown(a)
      BY <1>1, <1>3, <1>5, <1>7 DEF tunnel_socket_ctx_on_connect_cb, Dialled
    <2>2. a = Put(t, "outgoing", Dialled(o, status))
      OBVIOUS
    <2> HIDE DEF a, i, o, st, d
    <2> QED BY <1>1, <1>3, <1>4, <1>5, <2>1, <2>2, DialEnds
  <1> QED BY <1>3, <1>6, <1>7

\* A lookup of a live tunnel ends.
LEMMA LiveFound ==
    ASSUME LiveOK(t), NEW s \in Side, SsrOnGetaddrinfo(s)
    PROVE  Good(t')
  <1> DEFINE i == t.sock["incoming"]
             o == t.sock["outgoing"]
             st == t.stage
             d == t.data
  <1>1. /\ Is(t, i, o, st, d) /\ StageOK(st, i, o, d) /\ t.is_terminated = FALSE
        /\ o \in OpenSocket
    BY LiveIs
  <1>2. t.sock[s].dns = "done"
    BY DEF SsrOnGetaddrinfo
  <1>3. PICK status \in {"ok", "err"} :
           t' \in tunnel_socket_ctx_on_getaddrinfo_cb(t, s, status,
                     LAMBDA u : tunnel_ssr_dispatcher(u, s))
    BY DEF SsrOnGetaddrinfo
  <1>4. i.dns = "none" /\ (o.dns # "none" => AtResolve(st, i, o, d))
    <2> HIDE DEF i, o, st, d
    <2> QED BY <1>1, WhoDials
  <1>5. s = "outgoing" /\ o.dns # "none"
    BY <1>2, <1>4 DEF Side
  <1>6. o.freed = FALSE
    <2> HIDE DEF o
    <2> QED BY <1>1 DEF OpenSocket
  <1> DEFINE a == Put(t, "outgoing", Found(o, status))
  <1>7. CASE status = "ok"
    <2>1. t' \in tunnel_ssr_dispatcher(a, "outgoing")
      BY <1>1, <1>3, <1>5, <1>6, <1>7 DEF tunnel_socket_ctx_on_getaddrinfo_cb, Found
    <2>2. a = Put(t, "outgoing", Found(o, status))
      OBVIOUS
    <2> HIDE DEF a, i, o, st, d
    <2> QED BY <1>1, <1>3, <1>4, <1>5, <1>7, <2>1, <2>2, LookupEnds
  <1>8. CASE status = "err"
    <2>1. t' = tunnel_shutdown(a)
      BY <1>1, <1>3, <1>5, <1>6, <1>8 DEF tunnel_socket_ctx_on_getaddrinfo_cb, Found
    <2>2. a = Put(t, "outgoing", Found(o, status))
      OBVIOUS
    <2> HIDE DEF a, i, o, st, d
    <2> QED BY <1>1, <1>3, <1>4, <1>5, <2>1, <2>2, LookupEnds
  <1> QED BY <1>3, <1>7, <1>8

\* A worker takes or finishes a lookup of a live tunnel.
LEMMA LiveDns ==
    ASSUME LiveOK(t), NEW s \in Side, DnsWork(s)
    PROVE  Good(t')
  <1> DEFINE i == t.sock["incoming"]
             o == t.sock["outgoing"]
             st == t.stage
             d == t.data
  <1>1. Is(t, i, o, st, d) /\ StageOK(st, i, o, d)
    BY LiveIs
  <1>2. i.dns = "none" /\ (o.dns # "none" => AtResolve(st, i, o, d))
    <2> HIDE DEF i, o, st, d
    <2> QED BY <1>1, WhoDials
  <1>3. PICK x \in {"running", "done"} :
           t.sock[s].dns # "none" /\ t' = Put(t, s, [t.sock[s] EXCEPT !.dns = x])
    BY DEF DnsWork
  <1>4. s = "outgoing" /\ o.dns # "none"
    BY <1>2, <1>3 DEF Side
  <1>5. x \in DnsState /\ x # "none" /\ t' = Put(t, "outgoing", [o EXCEPT !.dns = x])
    BY <1>3, <1>4 DEF DnsState
  <1> HIDE DEF i, o, st, d
  <1> QED BY <1>1, <1>2, <1>4, <1>5, LookupAdvances

\* A timer of a live tunnel expires, or the program quits.
LEMMA LiveTimeout ==
    ASSUME LiveOK(t), NEW s \in Side, OnTimeout(s) \/ client_env_shutdown
    PROVE  Good(t')
  <1> DEFINE i == t.sock["incoming"]
             o == t.sock["outgoing"]
             st == t.stage
             d == t.data
  <1>1. Is(t, i, o, st, d) /\ StageOK(st, i, o, d)
    BY LiveIs
  <1>2. CASE OnTimeout(s)
    <2>1. t' = tunnel_socket_ctx_on_timeout_cb(t, s)
      BY <1>2 DEF OnTimeout
    <2>2. CASE s = "incoming"
      <3>1. t' = tunnel_socket_ctx_on_timeout_cb(t, "incoming")
        BY <2>1, <2>2
      <3> HIDE DEF i, o, st, d
      <3> QED BY <1>1, <3>1, TimeoutIn
    <2>3. CASE s = "outgoing"
      <3>1. t' = tunnel_socket_ctx_on_timeout_cb(t, "outgoing")
        BY <2>1, <2>3
      <3> HIDE DEF i, o, st, d
      <3> QED BY <1>1, <3>1, TimeoutOut
    <2> QED BY <2>2, <2>3 DEF Side
  <1>3. CASE client_env_shutdown
    <2>1. t' = tunnel_shutdown(t)
      BY <1>3 DEF client_env_shutdown
    <2> HIDE DEF i, o, st, d
    <2>2. Quittable(d) /\ Short(i) /\ Short(o)
      BY <1>1, LiveQuit
    <2> QED BY <1>1, <2>1, <2>2, GoodShut
  <1> QED BY <1>2, <1>3

\* No handle of a live tunnel reports that it is closed.
LEMMA LiveClosed ==
    ASSUME LiveOK(t), NEW s \in Side
    PROVE  ~OnTcpClosed(s) /\ ~OnTimerClosed(s)
  <1>1. t.sock[s] \in OpenSocket
    BY DEF LiveOK, LiveTunnel
  <1>2. t.sock[s].tcp = "open" /\ t.sock[s].timer = "open"
    BY <1>1 DEF OpenSocket
  <1> QED BY <1>2 DEF OnTcpClosed, OnTimerClosed

\* The callbacks of a tunnel that was shut down.
LEMMA DeadStep ==
    ASSUME DeadOK(t), NEW s \in Side
    PROVE  /\ ~SsrOnRead(s) /\ ~OnTimeout(s) /\ ~client_env_shutdown
           /\ SsrOnWritten(s) \/ SsrOnConnect(s) \/ SsrOnGetaddrinfo(s) \/ DnsWork(s) => Good(t')
  <1> DEFINE k == t.sock[s]
  <1>1. t.is_terminated = TRUE /\ k \in DeadSocket
    BY DEF DeadOK, DeadTunnel
  <1>2. k.reading = FALSE /\ k.ticking = FALSE
    <2> HIDE DEF k
    <2> QED BY <1>1 DEF DeadSocket
  <1>3. ~SsrOnRead(s) /\ ~OnTimeout(s) /\ ~client_env_shutdown
    BY <1>1, <1>2 DEF SsrOnRead, OnTimeout, client_env_shutdown
  <1>4. "none" \in DnsState /\ "running" \in DnsState /\ "done" \in DnsState
    BY DEF DnsState
  <1>5. ASSUME SsrOnWritten(s) PROVE Good(t')
    <2>1. k.writes # <<>>
      BY <1>5 DEF SsrOnWritten
    <2>2. PICK status \in {"ok", "err"} :
             t' \in tunnel_socket_ctx_on_written_cb(t, s, status,
                       LAMBDA u : tunnel_ssr_dispatcher(u, s))
      BY <1>5 DEF SsrOnWritten
    <2>3. t' = Put(t, s, Told(k, status))
      BY <1>1, <2>2 DEF tunnel_socket_ctx_on_written_cb, Told
    <2> QED BY <1>4, <2>1, <2>2, <2>3, DrainGood
  <1>6. ASSUME SsrOnConnect(s) PROVE Good(t')
    <2>1. PICK status \in {"ok", "err"} :
             t' \in tunnel_socket_ctx_on_connect_cb(t, s, status,
                       LAMBDA u : tunnel_ssr_dispatcher(u, s))
      BY <1>6 DEF SsrOnConnect
    <2>2. t' = Put(t, s, Dialled(k, status))
      BY <1>1, <2>1 DEF tunnel_socket_ctx_on_connect_cb, Dialled
    <2> QED BY <1>4, <2>1, <2>2, DrainGood
  <1>7. ASSUME SsrOnGetaddrinfo(s) PROVE Good(t')
    <2>1. PICK status \in {"ok", "err"} :
             t' \in tunnel_socket_ctx_on_getaddrinfo_cb(t, s, status,
                       LAMBDA u : tunnel_ssr_dispatcher(u, s))
      BY <1>7 DEF SsrOnGetaddrinfo
    <2>2. CASE k.freed
      <3>1. t' = Stale(Put(t, s, DnsTo(k, "none")))
        BY <2>1, <2>2 DEF tunnel_socket_ctx_on_getaddrinfo_cb, Stale, DnsTo, Assert
      <3> QED BY <1>4, <2>1, <3>1, DrainGood
    <2>3. CASE ~k.freed
      <3>1. t' = Put(t, s, Found(k, status))
        BY <1>1, <2>1, <2>3 DEF tunnel_socket_ctx_on_getaddrinfo_cb, Found
      <3> QED BY <1>4, <2>1, <3>1, DrainGood
    <2> QED BY <2>2, <2>3
  <1>8. ASSUME DnsWork(s) PROVE Good(t')
    <2>1. PICK x \in {"running", "done"} : t' = Put(t, s, DnsTo(k, x))
      BY <1>8 DEF DnsWork, DnsTo
    <2>2. x \in DnsState /\ "ok" \in {"ok", "err"}
      BY DEF DnsState
    <2> QED BY <2>1, <2>2, DrainGood
  <1> QED BY <1>3, <1>5, <1>6, <1>7, <1>8

\* A handle of a tunnel that was shut down reports that it is closed.
LEMMA DeadClosed ==
    ASSUME DeadOK(t), NEW s \in Side, OnTcpClosed(s) \/ OnTimerClosed(s)
    PROVE  Good(t')
  <1> DEFINE i == t.sock["incoming"]
             o == t.sock["outgoing"]
             k == t.sock[s]
             n == t.ref
             gone == t.freed
             st == t.stage
             b == t.bad
             d == t.data
  <1>1. Shut(t, i, o, n, gone, st, b, d)
    BY ShutOf
  <1>2. k \in DeadSocket
    BY DEF DeadOK, DeadTunnel
  <1>3. PICK j : Fewer(k, j) /\ t' = uv_socket_close_done_cb(Put(t, s, j), s)
    <2>1. CASE OnTcpClosed(s)
      <3>1. k.tcp = "closing" /\ t' = uv_socket_close_done_cb(Put(t, s, TcpDone(k)), s)
        BY <2>1 DEF OnTcpClosed, TcpDone
      <3> QED BY <1>2, <3>1, OneFewer
    <2>2. CASE OnTimerClosed(s)
      <3>1. k.timer = "closing" /\ t' = uv_socket_close_done_cb(Put(t, s, TimerDone(k)), s)
        BY <2>2 DEF OnTimerClosed, TimerDone
      <3> QED BY <1>2, <3>1, OneFewer
    <2> QED BY <2>1, <2>2
  <1>4. CASE s = "incoming"
    <2>1. Fewer(i, j) /\ t' = uv_socket_close_done_cb(Put(t, "incoming", j), "incoming")
      BY <1>3, <1>4
    <2> HIDE DEF i, o, n, gone, st, b, d
    <2> QED BY <1>1, <2>1, CloseDoneIn
  <1>5. CASE s = "outgoing"
    <2>1. Fewer(o, j) /\ t' = uv_socket_close_done_cb(Put(t, "outgoing", j), "outgoing")
      BY <1>3, <1>5
    <2> HIDE DEF i, o, n, gone, st, b, d
    <2> QED BY <1>1, <2>1, CloseDoneOut
  <1> QED BY <1>4, <1>5 DEF Side

-----------------------------------------------------------------------------
(* The invariant. *)

\* A new tunnel waits for the greeting.
LEMMA SsrStart ==
    ASSUME SsrInit
    PROVE  LiveOK(t)
  <1>1. PICK mode \in CipherModes : t = init_done_cb(tunnel_initialize(TRUE, TRUE), mode)
    BY DEF SsrInit
  <1> DEFINE i == socket_ctx_read(socket_context_create(TRUE), TRUE)
             o == socket_context_create(FALSE)
             none == <<>>
             sent == [s \in Side |-> none]
             c == tunnel_cipher_create(mode)
             d == [ shortcut |-> FALSE, first |-> none, cipher |-> c, app |-> 0, srv |-> 0,
                    sent |-> sent, bad |-> {} ]
             x == [s \in Side |-> IF s = "incoming" THEN i ELSE o]
             st == "handshake"
             w == [ sock |-> x, ref |-> 1, is_terminated |-> FALSE, freed |-> FALSE,
                    stage |-> st, held |-> FALSE, bad |-> {}, data |-> d ]
  <1>2. t = w
    <2> DEFINE z == [ sock |-> x, ref |-> 1, is_terminated |-> FALSE, freed |-> FALSE,
                      stage |-> st, held |-> FALSE, bad |-> {} ]
    <2>1. tunnel_initialize(TRUE, TRUE) = z
      BY ClientStagesAssumption DEF tunnel_initialize, NewTunnel
    <2>2. /\ z.sock = x /\ z.ref = 1 /\ z.is_terminated = FALSE /\ z.freed = FALSE
          /\ z.stage = st /\ z.held = FALSE /\ z.bad = {}
      OBVIOUS
    <2>3. t = init_done_cb(z, mode)
      BY <1>1, <2>1
    <2> HIDE DEF z, x, c, i, o
    <2> QED BY <2>2, <2>3, Zenon DEF init_done_cb, c
  <1>3. none \in Seq(Items) /\ none \in Seq(Seq(Items))
    OBVIOUS
  <1>4. Unused(o) /\ o \in OpenSocket
    BY DEF Unused, Sock, OpenSocket, socket_context_create, DnsState
  <1>5. Reading(i) /\ i \in OpenSocket
    <2> DEFINE k == socket_context_create(TRUE)
               no == FALSE
               yes == TRUE
    <2>1. Sock(k, "stop", "stop", FALSE, <<>>, TRUE, FALSE, "none")
      BY DEF Sock, OpenSocket, socket_context_create, DnsState
    <2> HIDE DEF k
    <2>2. Sock(socket_ctx_read(k, TRUE), "busy", "stop", TRUE, <<>>, TRUE, FALSE, "none")
      BY <2>1, SockRead
    <2> QED BY <2>2 DEF Reading, Sock, k
  <1>6. c \in CipherCtx /\ c.mode = mode /\ c.status = {} /\ c.queued = none
        /\ c.reply = (IF c.mode = "plain" THEN "all" ELSE "none")
    BY <1>3 DEF tunnel_cipher_create, CipherCtx
  <1>7. sent \in [Side -> Seq(Items)] /\ sent["incoming"] = none /\ sent["outgoing"] = none
    BY <1>3 DEF Side
  <1> HIDE DEF i, o, c, sent
  <1>8. x \in [Side -> OpenSocket] /\ x["incoming"] = i /\ x["outgoing"] = o
    BY <1>4, <1>5 DEF Side
  <1>9. d \in ClientCtx
    BY <1>3, <1>6, <1>7, MaxDataAssumption DEF ClientCtx, CipherCtx
  <1>10. Early(d, 0) /\ d.sent["incoming"] = <<>> /\ ~d.shortcut
    BY <1>6, <1>7, <1>9 DEF Early
  <1> HIDE DEF d, x
  <1>11. st \in tunnel_stage
    BY DEF tunnel_stage
  <1>12. w \in LiveTunnel
    BY <1>8, <1>9, <1>11 DEF LiveTunnel
  <1>13. AtHandshake(st, i, o, d)
    BY <1>4, <1>5, <1>10 DEF AtHandshake
  <1>14. w.stage = st /\ w.sock["incoming"] = i /\ w.sock["outgoing"] = o /\ w.data = d
    BY <1>8
  <1> HIDE DEF w, st
  <1>15. StageOK(st, i, o, d)
    BY <1>13 DEF StageOK
  <1> QED BY <1>2, <1>12, <1>14, <1>15 DEF LiveOK

\* Every step keeps it.
LEMMA SsrStep ==
    ASSUME SsrInv, [SsrNext]_vars
    PROVE  SsrInv'
  <1>1. CASE UNCHANGED vars
    BY <1>1 DEF vars, SsrInv, LiveOK, DeadOK
  <1>2. CASE client_env_shutdown
    <2>1. "incoming" \in Side
      BY DEF Side
    <2>2. Good(t')
      BY <1>2, <2>1, LiveTimeout, DeadStep DEF SsrInv
    <2> QED BY <2>2 DEF Good, SsrInv, LiveOK, DeadOK
  <1>3. ASSUME NEW s \in Side,
               \/ SsrOnRead(s) \/ SsrOnWritten(s) \/ SsrOnConnect(s)
               \/ SsrOnGetaddrinfo(s) \/ DnsWork(s) \/ OnTimeout(s)
               \/ OnTcpClosed(s) \/ OnTimerClosed(s)
        PROVE  SsrInv'
    <2>1. CASE LiveOK(t)
      <3>1. Good(t')
        BY <1>3, <2>1, LiveRead, LiveWritten, LiveConnect, LiveFound, LiveDns, LiveTimeout, LiveClosed
      <3> QED BY <3>1 DEF Good, SsrInv, LiveOK, DeadOK
    <2>2. CASE DeadOK(t)
      <3>1. Good(t')
        BY <1>3, <2>2, DeadStep, DeadClosed
      <3> QED BY <3>1 DEF Good, SsrInv, LiveOK, DeadOK
    <2> QED BY <2>1, <2>2 DEF SsrInv
  <1> QED BY <1>1, <1>2, <1>3 DEF SsrNext

\* The tunnel of the client is live, its sockets and client_ctx as its stage
\* wants them, or was shut down with its references counted.
THEOREM SsrInvariance == SsrSpec => []SsrInv
  <1>1. SsrInit => SsrInv
    BY SsrStart DEF SsrInv
  <1>2. SsrInv /\ [SsrNext]_vars => SsrInv'
    BY SsrStep
  <1> QED BY <1>1, <1>2, PTL DEF SsrSpec

-----------------------------------------------------------------------------
(* What follows from it. *)

\* Sockets of both kinds have the type of a socket.
LEMMA SocketTypes ==
    ASSUME NEW k
    PROVE  /\ k \in OpenSocket => k \in Socket(Seq(Items))
           /\ k \in DeadSocket => k \in Socket(Seq(Items))
  <1>1. ASSUME k \in OpenSocket PROVE k \in Socket(Seq(Items))
    <2> DEFINE one == 1
               nil == 0
    <2>1. {one} \subseteq Nat /\ {nil} \subseteq Nat
      OBVIOUS
    <2>2. k.ref \in Nat /\ k.closing_count \in Nat
      BY <1>1 DEF OpenSocket
    <2> HIDE DEF one, nil
    <2> QED BY <1>1, <2>2, ZenonT(60) DEF OpenSocket, Socket, socket_state, HandleState
  <1>2. ASSUME k \in DeadSocket PROVE k \in Socket(Seq(Items))
    BY <1>2, ZenonT(60) DEF DeadSocket, Socket, socket_state, HandleState
  <1> QED BY <1>1, <1>2

\* The invariant implies the type.
LEMMA InvType ==
    ASSUME SsrInv
    PROVE  SsrTypeOK
  <1> DEFINE i == t.sock["incoming"]
             o == t.sock["outgoing"]
             st == t.stage
             d == t.data
  <1>1. CASE LiveOK(t)
    <2>1. Is(t, i, o, st, d) /\ StageOK(st, i, o, d) /\ i \in OpenSocket /\ o \in OpenSocket
      BY <1>1, LiveIs
    <2>2. st \in tunnel_stage /\ d \in ClientCtx
      BY <1>1 DEF LiveOK, LiveTunnel
    <2>3. Short(i) /\ Short(o)
      <3> HIDE DEF i, o, st, d
      <3> QED BY <2>1, LiveQuit
    <2>4. i \in Socket(Seq(Items)) /\ o \in Socket(Seq(Items))
      BY <2>1, SocketTypes
    <2> QED BY <2>2, <2>3, <2>4 DEF SsrTypeOK, Side, Short
  <1>2. CASE DeadOK(t)
    <2>1. st \in tunnel_stage /\ d \in ClientCtx /\ i \in DeadSocket /\ o \in DeadSocket
      BY <1>2 DEF DeadOK, DeadTunnel, Side
    <2>2. Len(i.writes) <= MaxData + 2 /\ Len(o.writes) <= MaxData + 2
      BY <1>2 DEF DeadOK, Counted
    <2>3. i \in Socket(Seq(Items)) /\ o \in Socket(Seq(Items))
      BY <2>1, SocketTypes
    <2> QED BY <2>1, <2>2, <2>3 DEF SsrTypeOK, Side
  <1> QED BY <1>1, <1>2 DEF SsrInv

\* The type invariant of the client's tunnels, for every set of cipher modes
\* and every number of packets.
THEOREM SsrTypeCorrect == SsrSpec => []SsrTypeOK
  BY SsrInvariance, InvType, PTL

\* The invariant implies the assertions, and the order on the wire.
LEMMA InvAsserts ==
    ASSUME SsrInv
    PROVE  SsrAssertsHold /\ WireOrder
  <1> DEFINE i == t.sock["incoming"]
             o == t.sock["outgoing"]
             st == t.stage
             d == t.data
  <1>1. CASE LiveOK(t)
    <2>1. Is(t, i, o, st, d) /\ StageOK(st, i, o, d)
      BY <1>1, LiveIs
    <2>2. Quittable(d)
      <3> HIDE DEF i, o, st, d
      <3> QED BY <2>1, LiveQuit
    <2>3. t.bad = {}
      BY <1>1 DEF LiveOK, LiveTunnel
    <2> QED BY <2>2, <2>3 DEF SsrAssertsHold, WireOrder, Quittable, WireOK
  <1>2. CASE DeadOK(t)
    <2>1. t.bad \subseteq {"stale"}
      BY <1>2 DEF DeadOK, DeadTunnel
    <2> QED BY <1>2, <2>1 DEF DeadOK, SsrAssertsHold, WireOrder, WireOK
  <1> QED BY <1>1, <1>2 DEF SsrInv

\* No assertion of the dispatcher or of its handlers fails, and client.c calls
\* tunnel.c within its contract, whatever the order of the callbacks.
THEOREM SsrAssertsCorrect == SsrSpec => []SsrAssertsHold
  BY SsrInvariance, InvAsserts, PTL

\* The handshake is on the wire before the data, in every tunnel.
THEOREM WireOrderCorrect == SsrSpec => []WireOrder
  BY SsrInvariance, InvAsserts, PTL

\* A live tunnel that streams has relayed what it read.
LEMMA InvDownlink ==
    ASSUME SsrInv
    PROVE  DownlinkFaithful
  <1> DEFINE i == t.sock["incoming"]
             o == t.sock["outgoing"]
             st == t.stage
             d == t.data
  <1>1. SUFFICES ASSUME ~t.is_terminated, is_in_streaming(t), "feedback_data" \notin d.bad
                 PROVE  d.sent["incoming"] = Answered \o Srvs(d.srv)
    BY DEF DownlinkFaithful, Answered, Srvs
  <1>2. LiveOK(t)
    BY <1>1 DEF SsrInv, DeadOK, DeadTunnel
  <1>3. Is(t, i, o, st, d) /\ StageOK(st, i, o, d)
    BY <1>2, LiveIs
  <1> HIDE DEF i, o, st, d
  <1>4. AtStreaming(st, i, o, d)
    BY <1>1, <1>3, StreamingStage, OnlyStreaming
  <1> QED BY <1>1, <1>4 DEF AtStreaming, Streaming, Down

\* Nothing that a streaming tunnel read from the server is lost, duplicated or
\* reordered on its way to the application.
THEOREM DownlinkCorrect == SsrSpec => []DownlinkFaithful
  BY SsrInvariance, InvDownlink, PTL

\* The messages of the handshake that may have been produced.
Prefixes == { <<>>, <<Address>>, <<Hello, Address>>, <<Hello, Finish, Address>> }

\* What went to the server, what is held back and what is stored.
Produced(d) == d.sent["outgoing"] \o d.cipher.queued \o d.first

\* The messages of the handshake are items.
LEMMA PrefixItems ==
    /\ <<Address>> \in Seq(Items) /\ <<Hello>> \in Seq(Items) /\ <<>> \in Seq(Items)
    /\ <<Hello, Address>> \in Seq(Items) /\ <<Finish, Address>> \in Seq(Items)
    /\ <<Hello, Finish, Address>> \in Seq(Items)
  BY ItemsFacts

\* While nothing was encrypted yet.
LEMMA EarlyProduced ==
    ASSUME NEW d, NEW n, Early(d, n)
    PROVE  \E p \in Prefixes : Produced(d) = p \o Apps(d.app)
  <1>1. d \in ClientCtx /\ d.sent["outgoing"] = <<>> /\ d.cipher.queued = <<>> /\ d.app = n
    BY DEF Early
  <1>2. d.first \in Seq(Items)
    BY <1>1, CtxOf
  <1>3. Produced(d) = d.first
    <2>1. <<>> \o <<>> = <<>>
      BY PrefixItems, Joins
    <2> QED BY <1>1, <1>2, <2>1, Joins DEF Produced
  <1>4. d.first = Apps(d.app)
    BY <1>1, AppsStep DEF Early
  <1>5. <<>> \in Prefixes /\ <<>> \o d.first = d.first
    BY <1>2, Joins DEF Prefixes
  <1> QED BY <1>3, <1>4, <1>5

\* After that, in each of the three forms.
LEMMA UpProduced ==
    ASSUME NEW d \in ClientCtx, NEW h \in Seq(Items), Up(d, h), h \o d.first = Apps(d.app)
    PROVE  \E p \in Prefixes : Produced(d) = p \o Apps(d.app)
  <1> DEFINE out == d.sent["outgoing"]
             q == d.cipher.queued
             f == d.first
  <1>1. f \in Seq(Items) /\ out \in Seq(Items)
    BY CtxOf
  <1>2. q \in Seq(Items)
    BY CtxOf DEF CipherCtx
  <1>3. h \o f = Apps(d.app) /\ Produced(d) = (out \o q) \o f
    BY DEF Produced
  <1>4. ASSUME NEW p \in Seq(Items), out \o q = p \o h
        PROVE  Produced(d) = p \o Apps(d.app)
    <2> HIDE DEF out, q, f
    <2>1. (p \o h) \o f = p \o (h \o f)
      BY <1>1, <1>4, Assoc
    <2> QED BY <1>3, <1>4, <2>1
  <1>5. /\ <<Address>> \in Prefixes /\ <<Hello, Address>> \in Prefixes
        /\ <<Hello, Finish, Address>> \in Prefixes
    BY DEF Prefixes
  <1>6. CASE Direct(d.cipher, out, h)
    <2> DEFINE p == <<Address>>
               z == <<>>
    <2>1. p \in Seq(Items) /\ p \in Prefixes /\ q = z /\ out = p \o h
      BY <1>5, <1>6, PrefixItems DEF Direct
    <2>2. out \o z = out
      <3> HIDE DEF out, p
      <3> QED BY <1>1, Joins
    <2>3. out \o q = p \o h
      BY <2>1, <2>2
    <2> HIDE DEF p, z
    <2> QED BY <1>4, <2>1, <2>3
  <1>7. CASE Held(d.cipher, out, h)
    <2>1. CASE 2 \in d.cipher.status
      <3> DEFINE p == <<Hello, Finish, Address>>
      <3>1. p \in Seq(Items) /\ p \in Prefixes
        BY <1>5, PrefixItems
      <3>2. out = <<Hello>> /\ q = <<Finish, Address>> \o h
        BY <1>7, <2>1 DEF Held
      <3>3. out \o q = p \o h
        BY <3>2, Joins
      <3> HIDE DEF p
      <3> QED BY <1>4, <3>1, <3>3
    <2>2. CASE 2 \notin d.cipher.status
      <3> DEFINE p == <<Hello, Address>>
      <3>1. p \in Seq(Items) /\ p \in Prefixes
        BY <1>5, PrefixItems
      <3>2. out = <<Hello>> /\ q = <<Address>> \o h
        BY <1>7, <2>2 DEF Held
      <3>3. out \o q = p \o h
        BY <3>2, Joins
      <3> HIDE DEF p
      <3> QED BY <1>4, <3>1, <3>3
    <2> QED BY <2>1, <2>2
  <1>8. CASE Flushed(d.cipher, out, h)
    <2> DEFINE p == <<Hello, Finish, Address>>
               z == <<>>
    <2>1. p \in Seq(Items) /\ p \in Prefixes /\ q = z /\ out = p \o h
      BY <1>5, <1>8, PrefixItems DEF Flushed
    <2>2. out \o z = out
      <3> HIDE DEF out, p
      <3> QED BY <1>1, Joins
    <2>3. out \o q = p \o h
      BY <2>1, <2>2
    <2> HIDE DEF p, z
    <2> QED BY <1>4, <2>1, <2>3
  <1> QED BY <1>6, <1>7, <1>8 DEF Up

\* A live tunnel has produced what it read from the application.
LEMMA InvUplink ==
    ASSUME SsrInv
    PROVE  UplinkFaithful
  <1> DEFINE i == t.sock["incoming"]
             o == t.sock["outgoing"]
             st == t.stage
             d == t.data
  <1>1. SUFFICES ASSUME ~t.is_terminated, "late_feedback" \notin d.bad
                 PROVE  \E p \in Prefixes : Produced(d) = p \o Apps(d.app)
    BY DEF UplinkFaithful, Prefixes, Produced, Apps
  <1>2. LiveOK(t)
    BY <1>1 DEF SsrInv, DeadOK, DeadTunnel
  <1>3. Is(t, i, o, st, d) /\ StageOK(st, i, o, d)
    BY <1>2, LiveIs
  <1> HIDE DEF i, o, st, d
  <1> DEFINE nil == 0
             one == 1
             z == <<>>
  <1>4. ASSUME Packed(d), Up(d, <<>>)
        PROVE  \E p \in Prefixes : Produced(d) = p \o Apps(d.app)
    <2>1. d \in ClientCtx /\ d.first = <<AppData(1)>> /\ d.app = 1 /\ d.first \in Seq(Items)
      BY <1>4, CtxOf DEF Packed
    <2>2. z \in Seq(Items) /\ z \o d.first = d.first /\ Up(d, z)
      BY <1>4, <2>1, Joins
    <2>3. z \o d.first = Apps(d.app)
      BY <2>1, <2>2, AppsStep
    <2> HIDE DEF z
    <2> QED BY <2>1, <2>2, <2>3, UpProduced
  <1>5. ASSUME NEW n, Early(d, n)
        PROVE  \E p \in Prefixes : Produced(d) = p \o Apps(d.app)
    BY <1>5, EarlyProduced
  <1>6. CASE \/ AtHandshake(st, i, o, d) \/ AtRequest(st, i, o, d) \/ AtFirst(st, i, o, d)
    <2>1. Early(d, nil)
      BY <1>6 DEF AtHandshake, AtRequest, AtFirst
    <2> QED BY <1>5, <2>1
  <1>7. CASE \/ AtReplied(st, i, o, d) \/ AtAssoc(st, i, o, d) \/ AtResponse(st, i, o, d)
             \/ AtKill(st, i, o, d)
    <2>1. Early(d, d.app)
      BY <1>7 DEF AtReplied, AtAssoc, AtResponse, AtKill
    <2> QED BY <1>5, <2>1
  <1>8. CASE AtResolve(st, i, o, d) \/ AtConnect(st, i, o, d)
    <2>1. Early(d, one)
      BY <1>8 DEF AtResolve, AtConnect
    <2> QED BY <1>5, <2>1
  <1>9. CASE AtAuth(st, i, o, d) \/ AtFeedback(st, i, o, d)
    <2>1. Opened(d)
      BY <1>9 DEF AtAuth, AtFeedback
    <2>2. Packed(d) /\ Up(d, <<>>)
      BY <2>1, OpenedUp DEF Opened
    <2> QED BY <1>4, <2>2
  <1>10. CASE AtReceipt(st, i, o, d)
    <2>1. Packed(d) /\ Up(d, <<>>)
      BY <1>10 DEF AtReceipt, Judged
    <2> QED BY <1>4, <2>1
  <1>11. CASE AtStreaming(st, i, o, d)
    <2>1. d \in ClientCtx /\ d.first = <<>> /\ Up(d, Apps(d.app))
      BY <1>1, <1>11 DEF AtStreaming, Streaming
    <2>2. d.app \in Nat /\ d.app <= MaxData
      BY <2>1, CtxOf, MaxDataAssumption
    <2>3. Apps(d.app) \in Seq(Items)
      BY <2>2, AppsFacts
    <2>4. Apps(d.app) \o d.first = Apps(d.app)
      BY <2>1, <2>3, Joins
    <2> QED BY <2>1, <2>3, <2>4, UpProduced
  <1> QED BY <1>3, <1>6, <1>7, <1>8, <1>9, <1>10, <1>11 DEF StageOK

\* Nothing that the application sent is lost, duplicated or reordered by a live
\* tunnel: it is on the wire behind the handshake, held back, or stored.
THEOREM UplinkCorrect == SsrSpec => []UplinkFaithful
  BY SsrInvariance, InvUplink, PTL
=============================================================================
