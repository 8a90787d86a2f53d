------------------------- MODULE TlsConnectionProofs -------------------------
(***************************************************************************)
(* The inductive invariant of ClientTls, and what it takes to keep it:     *)
(* how each update of the connection changes its reference counts and its  *)
(* handles, and the steps of the connection of a tunnel that was shut      *)
(* down.                                                                   *)
(*                                                                         *)
(* A tunnel over TLS is a tunnel of module Tunnel (its core), a client_ctx *)
(* and a TLS connection.  The proofs about Tunnel say what becomes of the  *)
(* core; what is said here is how the other two keep step with it.         *)
(***************************************************************************)
EXTENDS ClientTls, TunnelParts, FiniteSetTheorems, SequenceTheorems

-----------------------------------------------------------------------------
(* The inductive invariant. *)

Apps(n) == Numbered(AppData, n)

\* client_ctx without the connection; with it; and a tunnel made of its core,
\* client_ctx and the connection.
Extra ==
    [ shortcut : BOOLEAN, first : Seq(Items), cipher : {tunnel_cipher_create("plain")},
      app : 0 .. MaxData, srv : {0}, sent : [Side -> Seq(Items)],
      bad : SUBSET {"uv_close"}, udp : BOOLEAN, deque : Seq(Items), half : 0 .. 1,
      eof : BOOLEAN, got : 0 .. 2 * MaxData ]

Data(e, m) ==
    [ shortcut |-> e.shortcut, first |-> e.first, cipher |-> e.cipher, app |-> e.app,
      srv |-> e.srv, sent |-> e.sent, bad |-> e.bad, udp |-> e.udp, deque |-> e.deque,
      half |-> e.half, eof |-> e.eof, got |-> e.got, tls |-> m ]

ExtraOf(d) ==
    [ shortcut |-> d.shortcut, first |-> d.first, cipher |-> d.cipher, app |-> d.app,
      srv |-> d.srv, sent |-> d.sent, bad |-> d.bad, udp |-> d.udp, deque |-> d.deque,
      half |-> d.half, eof |-> d.eof, got |-> d.got ]

State(c, e, m) == Whole(c, Data(e, m))

\* A live tunnel, whose sockets are i and o, held by its connection if h.
Alive(i, o, st, h) == Core(Pair(i, o), 1 + One(h), FALSE, FALSE, st, h, {})
Live(i, o, st, h, e, m) == State(Alive(i, o, st, h), e, m)

(* The connection.  x and y are the references to tls_cli_ctx and to uv_mbed_t
   that the running callback is about to return. *)

\* No connection, a launch that failed, or what its close leaves.
Lost(m, gone) ==
    /\ m \in Connection /\ ~m.ctx /\ ~m.on_shutting_down
    /\ ~m.dns /\ ~m.connecting /\ ~m.reading /\ ~m.writable /\ ~m.shutting
    /\ m.writes = <<>> /\ m.left = {} /\ ~m.connect_cb /\ m.timer = "none"
    /\ m.cref = One(~gone) /\ (m.cfreed <=> gone)
    /\ \/ m.ref = 0 /\ m.mref = 0 /\ ~m.freed /\ ~m.mfreed /\ m.sock = "none"
       \/ m.ref = 0 /\ m.mref = 0 /\ m.freed /\ m.mfreed /\ m.sock \in {"none", "closed"}
       \/ /\ m.ref = 1 /\ m.mref = 2 /\ ~m.freed /\ ~m.mfreed
          /\ m.sock = "closing" /\ m.close_cb = "close_done"

\* The reference counts of a connection.
Counts(m, gone, held, x, y) ==
    LET closes == m.on_shutting_down /\ held
    IN  /\ m.cref = One(~gone) + One(closes)
        /\ m.cfreed <=> m.cref = 0
        /\ m.ref = One(~m.cfreed) + One(m.connect_cb) + One(closes)
                   + DataWrites(m.writes) + x
        /\ m.freed <=> m.ref = 0
        /\ m.mref = One(~m.freed) + One(m.sock = "closing") + One(m.timer = "closing") + y
        /\ m.mfreed <=> m.mref = 0

Notified(m) == \E i \in DOMAIN m.writes : m.writes[i] = "notify"

\* What the handles of a connection are doing.
Handles(m) ==
    /\ m \in Connection /\ m.ctx
    /\ m.dns => m.sock = "none" /\ m.connect_cb
    /\ m.sock = "none" => m.timer = "none"
    /\ m.connecting <=> m.timer \in {"running", "expired"}
    /\ m.connecting => m.connect_cb /\ m.sock \in {"connecting", "closing"}
    /\ m.sock = "connecting" => m.timer = "running"
    /\ m.sock # "connected" => ~m.reading /\ ~m.writable /\ ~m.shutting /\ m.writes = <<>>
    /\ m.handshake \in {"begun", "flight"} /\ m.reading => m.connect_cb
    /\ m.shutting => ~m.writable
    /\ m.reading => m.writable

\* The connection of a live tunnel.
LiveConn(m, x, y) ==
    /\ Handles(m) /\ Counts(m, FALSE, TRUE, x, y)
    /\ ~m.on_shutting_down /\ m.left = {} /\ ~m.shutting /\ ~Notified(m)
    /\ m.sock = "closing" => m.close_cb = "connect_canceled"
    /\ m.sock # "closed"

\* How far it has come, between two callbacks.
Resolving(m)  == m.dns
Connecting(m) == \/ m.sock = "connecting"
                 \/ m.sock = "closing" /\ m.connecting /\ m.timer = "expired"
Shaking(m)    == /\ m.sock = "connected" /\ m.reading /\ m.connect_cb
                 /\ m.handshake \in {"begun", "flight", "failed"}
Opened(m)     == /\ m.sock = "connected" /\ m.reading /\ ~m.connect_cb
                 /\ m.handshake = "over"

\* The close of a connection is under way, has been reported, or was reported
\* before its time.
Ending(m) ==
    \/ m.sock = "closing" /\ m.close_cb = "close_done"
    \/ /\ m.sock = "connected" /\ ~m.reading
       /\ m.shutting \/ (Notified(m) /\ m.writable) \/ "reset" \in m.left
Ended(m) ==
    /\ ~m.connecting /\ ~m.dns
    /\ \/ m.sock \in {"none", "closed"}
       \/ m.sock = "closing" /\ m.close_cb = "connect_canceled"
Early(m) ==
    /\ m.left = {"early"} /\ ~m.shutting /\ ~Notified(m)
    /\ m.sock = "closing" => m.close_cb = "connect_canceled"

Closed(m, gone, held, x, y) ==
    /\ Handles(m) /\ Counts(m, gone, held, x, y) /\ m.on_shutting_down
    /\ \/ held /\ "early" \notin m.left /\ Ending(m)
       \/ ~held /\ "early" \notin m.left /\ Ended(m)
       \/ ~held /\ Early(m)

\* The connection of a tunnel that was shut down.
Over(m, gone, held, x, y) ==
    \/ Closed(m, gone, held, x, y)
    \/ ~held /\ Lost(m, gone) /\ x = 0 /\ y = 0

(* The stages. *)

\* What was passed on to the application: the replies, and the frames.
Down(e) ==
    LET in == e.sent["incoming"]
        n  == e.got \div 2
        k  == Len(in) - n
    IN  /\ k >= 0 /\ e.half = e.got % 2
        /\ \A i \in 1 .. k : in[i].kind # "srv"
        /\ \A i \in 1 .. n : in[k + i] = SrvData(i)

\* Nothing was asserted wrongly, nothing came from the server.
Fresh(e) ==
    /\ e \in Extra /\ e.bad = {} /\ Down(e) /\ e.half = 0 /\ ~e.eof /\ e.got = 0

\* Before the connection; before the first packet; on the way to the server;
\* while the upgrade is asked for; and while data flows.
Greeted(e) ==
    /\ Fresh(e) /\ ~e.udp /\ e.deque = <<>> /\ e.sent["outgoing"] = <<>>
    /\ e.first = Apps(e.app)
Greeting(e) == Greeted(e) /\ e.app = 0
Stored(e) ==
    /\ Fresh(e) /\ e.sent["outgoing"] = <<>>
    /\ \/ e.udp /\ e.first = <<>> /\ e.deque = Apps(e.app) /\ e.app > 0
       \/ ~e.udp /\ e.deque = <<>> /\ e.first = Apps(e.app)
Asked(e) ==
    /\ Fresh(e)
    /\ \/ e.udp /\ e.first = <<>> /\ e.sent["outgoing"] \o e.deque = Apps(e.app)
       \/ ~e.udp /\ e.deque = <<>> /\ e.first = Apps(e.app)
          /\ e.sent["outgoing"] = <<Address>>
Flows(e) ==
    /\ e \in Extra /\ e.bad = {} /\ Down(e) /\ e.first = <<>> /\ e.deque = <<>>
    /\ \/ e.udp /\ e.sent["outgoing"] = Apps(e.app)
       \/ ~e.udp /\ e.sent["outgoing"] = <<Address>> \o Apps(e.app)

\* The socket of the application, or the unused one of a tunnel for datagrams.
Waits(i, e) == (e.udp /\ Unused(i)) \/ (~e.udp /\ Quiet(i))
Streams(i, e) == (e.udp /\ Unused(i)) \/ (~e.udp /\ Flow(i) /\ i.reading)

Unconnected(st, i, e) ==
    \/ st = "handshake" /\ Reading(i) /\ Greeting(e)
    \/ st = "handshake_replied" /\ Writing(i) /\ Greeted(e) /\ (e.shortcut \/ e.app = 0)
    \/ st = "s5_request_from_client_app" /\ Reading(i) /\ Greeting(e)
    \/ st \in {"s5_udp_accoc", "s5_response_done", "kill"} /\ Writing(i) /\ Greeted(e)
    \/ st = "client_first_pkg" /\ Reading(i) /\ Greeting(e)

Connected(st, i, e, m) ==
    \/ /\ st = "tls_connecting" /\ Waits(i, e) /\ Stored(e)
       /\ Resolving(m) \/ Connecting(m) \/ Shaking(m)
    \/ st = "tls_websocket_upgrade" /\ Waits(i, e) /\ Asked(e) /\ Opened(m)
    \/ st = "tls_streaming" /\ Streams(i, e) /\ Flows(e) /\ Opened(m)

StageOK(st, i, o, h, e, m) ==
    /\ Unused(o)
    /\ \/ ~h /\ m = NoTls /\ Unconnected(st, i, e)
       \/ h /\ LiveConn(m, 0, 0) /\ Connected(st, i, e, m)

LiveOK(u) ==
    LET i == u.sock["incoming"]
        o == u.sock["outgoing"]
        e == ExtraOf(u.data)
        m == u.data.tls
    IN  /\ u = Live(i, o, u.stage, u.held, e, m) /\ u.held \in BOOLEAN
        /\ StageOK(u.stage, i, o, u.held, e, m)

\* A core that was shut down; a tunnel that was.
CoreOver(c) ==
    /\ TunnelOK(c) /\ c.is_terminated = TRUE /\ c.bad = {} /\ c.stage \in tls_stage
    /\ \A s \in Side : ~c.sock[s].connecting /\ c.sock[s].dns = "none"

DeadOK(u) ==
    LET c == CoreOf(u)
        e == ExtraOf(u.data)
        m == u.data.tls
    IN  /\ u = State(c, e, m) /\ CoreOver(c) /\ e \in Extra
        /\ Over(m, u.freed, u.held, 0, 0)

Good(u) == LiveOK(u) \/ DeadOK(u)

TlsInv == Good(t)

-----------------------------------------------------------------------------
(* Tunnels as values. *)

DataSet(e, m) ==
    [ shortcut : {e.shortcut}, first : {e.first}, cipher : {e.cipher}, app : {e.app},
      srv : {e.srv}, sent : {e.sent}, bad : {e.bad}, udp : {e.udp}, deque : {e.deque},
      half : {e.half}, eof : {e.eof}, got : {e.got}, tls : {m} ]

\* A record with these fields is that client_ctx.
LEMMA DataEq ==
    ASSUME NEW e, NEW m, NEW d \in DataSet(e, m)
    PROVE  d = Data(e, m)
  BY DEF Data, DataSet

\* The fields of client_ctx.
LEMMA DataFields ==
    ASSUME NEW e, NEW m
    PROVE  /\ Data(e, m).tls = m
           /\ Data(e, m).shortcut = e.shortcut
           /\ Data(e, m).first = e.first
           /\ Data(e, m).cipher = e.cipher
           /\ Data(e, m).app = e.app
           /\ Data(e, m).srv = e.srv
           /\ Data(e, m).sent = e.sent
           /\ Data(e, m).bad = e.bad
           /\ Data(e, m).udp = e.udp
           /\ Data(e, m).deque = e.deque
           /\ Data(e, m).half = e.half
           /\ Data(e, m).eof = e.eof
           /\ Data(e, m).got = e.got
  BY DEF Data

\* client_ctx taken apart.
LEMMA DataApart ==
    ASSUME NEW e \in Extra, NEW m
    PROVE  ExtraOf(Data(e, m)) = e
  <1> DEFINE d == Data(e, m)
  <1>1. /\ d.shortcut = e.shortcut
        /\ d.first = e.first
        /\ d.cipher = e.cipher
        /\ d.app = e.app
        /\ d.srv = e.srv
        /\ d.sent = e.sent
        /\ d.bad = e.bad
        /\ d.udp = e.udp
        /\ d.deque = e.deque
        /\ d.half = e.half
        /\ d.eof = e.eof
        /\ d.got = e.got
    BY DataFields
  <1> HIDE DEF d
  <1>2. e = ExtraOf(d)
    <2> DEFINE Q == Seq(Items)
               G == [Side -> Q]
               K == tunnel_cipher_create("plain")
               A == 0 .. MaxData
               B == 0 .. 2 * MaxData
               C == SUBSET {"uv_close"}
    <2>1. e \in [ shortcut : BOOLEAN, first : Q, cipher : {K}, app : A, srv : {0},
                  sent : G, bad : C, udp : BOOLEAN, deque : Q, half : 0 .. 1,
                  eof : BOOLEAN, got : B ]
      BY DEF Extra
    <2> HIDE DEF Q, G, K, A, B, C
    <2> QED BY <1>1, <2>1 DEF ExtraOf
  <1> QED BY <1>2 DEF d

\* Assignments to client_ctx, in a tunnel and by itself.
WithShortcut(u, y) == [u EXCEPT !.data.shortcut = y]
WithFirst(u, y) == [u EXCEPT !.data.first = y]
WithApp(u, y) == [u EXCEPT !.data.app = y]
WithSent(u, y) == [u EXCEPT !.data.sent = y]
WithBad(u, y) == [u EXCEPT !.data.bad = y]
WithDeque(u, y) == [u EXCEPT !.data.deque = y]
WithHalf(u, y) == [u EXCEPT !.data.half = y]
WithEof(u, y) == [u EXCEPT !.data.eof = y]
WithGot(u, y) == [u EXCEPT !.data.got = y]
ShortcutTo(e, y) == [e EXCEPT !.shortcut = y]
FirstTo(e, y) == [e EXCEPT !.first = y]
AppTo(e, y) == [e EXCEPT !.app = y]
SentTo(e, y) == [e EXCEPT !.sent = y]
BadTo(e, y) == [e EXCEPT !.bad = y]
DequeTo(e, y) == [e EXCEPT !.deque = y]
HalfTo(e, y) == [e EXCEPT !.half = y]
EofTo(e, y) == [e EXCEPT !.eof = y]
GotTo(e, y) == [e EXCEPT !.got = y]

\* The fields of a tunnel.
LEMMA StateFields ==
    ASSUME NEW c, NEW e, NEW m, NEW u, u = State(c, e, m)
    PROVE  /\ u.sock = c.sock /\ u.ref = c.ref /\ u.is_terminated = c.is_terminated
           /\ u.freed = c.freed /\ u.stage = c.stage /\ u.held = c.held /\ u.bad = c.bad
           /\ u.data = Data(e, m) /\ Tls(u) = m /\ u.data.tls = m
           /\ u.data.shortcut = e.shortcut
           /\ u.data.first = e.first
           /\ u.data.cipher = e.cipher
           /\ u.data.app = e.app
           /\ u.data.srv = e.srv
           /\ u.data.sent = e.sent
           /\ u.data.bad = e.bad
           /\ u.data.udp = e.udp
           /\ u.data.deque = e.deque
           /\ u.data.half = e.half
           /\ u.data.eof = e.eof
           /\ u.data.got = e.got
  <1>1. u = Whole(c, Data(e, m))
    BY DEF State
  <1>2. /\ u.sock = c.sock /\ u.ref = c.ref /\ u.is_terminated = c.is_terminated
        /\ u.freed = c.freed /\ u.stage = c.stage /\ u.held = c.held /\ u.bad = c.bad
        /\ u.data = Data(e, m)
    BY <1>1, WholeFields
  <1> QED BY <1>2, DataFields DEF Tls

\* An assignment to the connection.
LEMMA StateTls ==
    ASSUME NEW c, IsCore(c), NEW e, NEW m, NEW n
    PROVE  WithTls(State(c, e, m), n) = State(c, e, n)
  <1> DEFINE u == State(c, e, m)
  <1>1. u = Whole(c, Data(e, m)) /\ u.data = Data(e, m)
    BY StateFields DEF State
  <1>2. [Data(e, m) EXCEPT !.tls = n] = Data(e, n)
    <2>1. [Data(e, m) EXCEPT !.tls = n] \in DataSet(e, n)
      BY DEF Data, DataSet
    <2> QED BY <2>1, DataEq
  <1> HIDE DEF u
  <1>3. WithTls(u, n) = SetData(u, [u.data EXCEPT !.tls = n])
    BY DEF WithTls, SetData
  <1>4. SetData(u, Data(e, n)) = Whole(c, Data(e, n))
    BY <1>1, WholeUpdate
  <1> QED BY <1>1, <1>2, <1>3, <1>4 DEF State, u

\* An assignment to shortcut.
LEMMA StateShortcut ==
    ASSUME NEW c, IsCore(c), NEW e \in Extra, NEW m, NEW y
    PROVE  WithShortcut(State(c, e, m), y) = State(c, ShortcutTo(e, y), m)
  <1> DEFINE u == State(c, e, m)
             q == ShortcutTo(e, y)
  <1>1. u = Whole(c, Data(e, m)) /\ u.data = Data(e, m)
    BY StateFields DEF State
  <1>2. /\ q.shortcut = y
        /\ q.first = e.first
        /\ q.cipher = e.cipher
        /\ q.app = e.app
        /\ q.srv = e.srv
        /\ q.sent = e.sent
        /\ q.bad = e.bad
        /\ q.udp = e.udp
        /\ q.deque = e.deque
        /\ q.half = e.half
        /\ q.eof = e.eof
        /\ q.got = e.got
    BY ZenonT(60) DEF Extra, ShortcutTo
  <1>3. [Data(e, m) EXCEPT !.shortcut = y] = Data(q, m)
    <2> HIDE DEF q
    <2>1. [Data(e, m) EXCEPT !.shortcut = y] \in DataSet(q, m)
      BY <1>2 DEF Data, DataSet
    <2> QED BY <2>1, DataEq
  <1> HIDE DEF u, q
  <1>4. WithShortcut(u, y) = SetData(u, [u.data EXCEPT !.shortcut = y])
    BY DEF WithShortcut, SetData
  <1>5. SetData(u, Data(q, m)) = Whole(c, Data(q, m))
    BY <1>1, WholeUpdate
  <1> QED BY <1>1, <1>3, <1>4, <1>5 DEF State, u, q

\* What it makes of client_ctx.
LEMMA ExtraShortcut ==
    ASSUME NEW e \in Extra, NEW y \in BOOLEAN
    PROVE  /\ ShortcutTo(e, y) \in Extra
           /\ ShortcutTo(e, y).shortcut = y
           /\ ShortcutTo(e, y).first = e.first
           /\ ShortcutTo(e, y).cipher = e.cipher
           /\ ShortcutTo(e, y).app = e.app
           /\ ShortcutTo(e, y).srv = e.srv
           /\ ShortcutTo(e, y).sent = e.sent
           /\ ShortcutTo(e, y).bad = e.bad
           /\ ShortcutTo(e, y).udp = e.udp
           /\ ShortcutTo(e, y).deque = e.deque
           /\ ShortcutTo(e, y).half = e.half
           /\ ShortcutTo(e, y).eof = e.eof
           /\ ShortcutTo(e, y).got = e.got
  <1> DEFINE S == BOOLEAN
  <1> HIDE DEF S
  <1>1. y \in S
    BY DEF S
  <1> QED BY <1>1, ZenonT(60) DEF Extra, ShortcutTo, S

\* An assignment to first.
LEMMA StateFirst ==
    ASSUME NEW c, IsCore(c), NEW e \in Extra, NEW m, NEW y
    PROVE  WithFirst(State(c, e, m), y) = State(c, FirstTo(e, y), m)
  <1> DEFINE u == State(c, e, m)
             q == FirstTo(e, y)
  <1>1. u = Whole(c, Data(e, m)) /\ u.data = Data(e, m)
    BY StateFields DEF State
  <1>2. /\ q.shortcut = e.shortcut
        /\ q.first = y
        /\ q.cipher = e.cipher
        /\ q.app = e.app
        /\ q.srv = e.srv
        /\ q.sent = e.sent
        /\ q.bad = e.bad
        /\ q.udp = e.udp
        /\ q.deque = e.deque
        /\ q.half = e.half
        /\ q.eof = e.eof
        /\ q.got = e.got
    BY ZenonT(60) DEF Extra, FirstTo
  <1>3. [Data(e, m) EXCEPT !.first = y] = Data(q, m)
    <2> HIDE DEF q
    <2>1. [Data(e, m) EXCEPT !.first = y] \in DataSet(q, m)
      BY <1>2 DEF Data, DataSet
    <2> QED BY <2>1, DataEq
  <1> HIDE DEF u, q
  <1>4. WithFirst(u, y) = SetData(u, [u.data EXCEPT !.first = y])
    BY DEF WithFirst, SetData
  <1>5. SetData(u, Data(q, m)) = Whole(c, Data(q, m))
    BY <1>1, WholeUpdate
  <1> QED BY <1>1, <1>3, <1>4, <1>5 DEF State, u, q

\* What it makes of client_ctx.
LEMMA ExtraFirst ==
    ASSUME NEW e \in Extra, NEW y \in Seq(Items)
    PROVE  /\ FirstTo(e, y) \in Extra
           /\ FirstTo(e, y).shortcut = e.shortcut
           /\ FirstTo(e, y).first = y
           /\ FirstTo(e, y).cipher = e.cipher
           /\ FirstTo(e, y).app = e.app
           /\ FirstTo(e, y).srv = e.srv
           /\ FirstTo(e, y).sent = e.sent
           /\ FirstTo(e, y).bad = e.bad
           /\ FirstTo(e, y).udp = e.udp
           /\ FirstTo(e, y).deque = e.deque
           /\ FirstTo(e, y).half = e.half
           /\ FirstTo(e, y).eof = e.eof
           /\ FirstTo(e, y).got = e.got
  <1> DEFINE S == Seq(Items)
  <1> HIDE DEF S
  <1>1. y \in S
    BY DEF S
  <1> QED BY <1>1, ZenonT(60) DEF Extra, FirstTo, S

\* An assignment to app.
LEMMA StateApp ==
    ASSUME NEW c, IsCore(c), NEW e \in Extra, NEW m, NEW y
    PROVE  WithApp(State(c, e, m), y) = State(c, AppTo(e, y), m)
  <1> DEFINE u == State(c, e, m)
             q == AppTo(e, y)
  <1>1. u = Whole(c, Data(e, m)) /\ u.data = Data(e, m)
    BY StateFields DEF State
  <1>2. /\ q.shortcut = e.shortcut
        /\ q.first = e.first
        /\ q.cipher = e.cipher
        /\ q.app = y
        /\ q.srv = e.srv
        /\ q.sent = e.sent
        /\ q.bad = e.bad
        /\ q.udp = e.udp
        /\ q.deque = e.deque
        /\ q.half = e.half
        /\ q.eof = e.eof
        /\ q.got = e.got
    BY ZenonT(60) DEF Extra, AppTo
  <1>3. [Data(e, m) EXCEPT !.app = y] = Data(q, m)
    <2> HIDE DEF q
    <2>1. [Data(e, m) EXCEPT !.app = y] \in DataSet(q, m)
      BY <1>2 DEF Data, DataSet
    <2> QED BY <2>1, DataEq
  <1> HIDE DEF u, q
  <1>4. WithApp(u, y) = SetData(u, [u.data EXCEPT !.app = y])
    BY DEF WithApp, SetData
  <1>5. SetData(u, Data(q, m)) = Whole(c, Data(q, m))
    BY <1>1, WholeUpdate
  <1> QED BY <1>1, <1>3, <1>4, <1>5 DEF State, u, q

\* What it makes of client_ctx.
LEMMA ExtraApp ==
    ASSUME NEW e \in Extra, NEW y \in 0 .. MaxData
    PROVE  /\ AppTo(e, y) \in Extra
           /\ AppTo(e, y).shortcut = e.shortcut
           /\ AppTo(e, y).first = e.first
           /\ AppTo(e, y).cipher = e.cipher
           /\ AppTo(e, y).app = y
           /\ AppTo(e, y).srv = e.srv
           /\ AppTo(e, y).sent = e.sent
           /\ AppTo(e, y).bad = e.bad
           /\ AppTo(e, y).udp = e.udp
           /\ AppTo(e, y).deque = e.deque
           /\ AppTo(e, y).half = e.half
           /\ AppTo(e, y).eof = e.eof
           /\ AppTo(e, y).got = e.got
  <1> DEFINE S == 0 .. MaxData
  <1> HIDE DEF S
  <1>1. y \in S
    BY DEF S
  <1> QED BY <1>1, ZenonT(60) DEF Extra, AppTo, S

\* An assignment to sent.
LEMMA StateSent ==
    ASSUME NEW c, IsCore(c), NEW e \in Extra, NEW m, NEW y
    PROVE  WithSent(State(c, e, m), y) = State(c, SentTo(e, y), m)
  <1> DEFINE u == State(c, e, m)
             q == SentTo(e, y)
  <1>1. u = Whole(c, Data(e, m)) /\ u.data = Data(e, m)
    BY StateFields DEF State
  <1>2. /\ q.shortcut = e.shortcut
        /\ q.first = e.first
        /\ q.cipher = e.cipher
        /\ q.app = e.app
        /\ q.srv = e.srv
        /\ q.sent = y
        /\ q.bad = e.bad
        /\ q.udp = e.udp
        /\ q.deque = e.deque
        /\ q.half = e.half
        /\ q.eof = e.eof
        /\ q.got = e.got
    BY ZenonT(60) DEF Extra, SentTo
  <1>3. [Data(e, m) EXCEPT !.sent = y] = Data(q, m)
    <2> HIDE DEF q
    <2>1. [Data(e, m) EXCEPT !.sent = y] \in DataSet(q, m)
      BY <1>2 DEF Data, DataSet
    <2> QED BY <2>1, DataEq
  <1> HIDE DEF u, q
  <1>4. WithSent(u, y) = SetData(u, [u.data EXCEPT !.sent = y])
    BY DEF WithSent, SetData
  <1>5. SetData(u, Data(q, m)) = Whole(c, Data(q, m))
    BY <1>1, WholeUpdate
  <1> QED BY <1>1, <1>3, <1>4, <1>5 DEF State, u, q

\* What it makes of client_ctx.
LEMMA ExtraSent ==
    ASSUME NEW e \in Extra, NEW y \in [Side -> Seq(Items)]
    PROVE  /\ SentTo(e, y) \in Extra
           /\ SentTo(e, y).shortcut = e.shortcut
           /\ SentTo(e, y).first = e.first
           /\ SentTo(e, y).cipher = e.cipher
           /\ SentTo(e, y).app = e.app
           /\ SentTo(e, y).srv = e.srv
           /\ SentTo(e, y).sent = y
           /\ SentTo(e, y).bad = e.bad
           /\ SentTo(e, y).udp = e.udp
           /\ SentTo(e, y).deque = e.deque
           /\ SentTo(e, y).half = e.half
           /\ SentTo(e, y).eof = e.eof
           /\ SentTo(e, y).got = e.got
  <1> DEFINE S == [Side -> Seq(Items)]
  <1> HIDE DEF S
  <1>1. y \in S
    BY DEF S
  <1> QED BY <1>1, ZenonT(60) DEF Extra, SentTo, S

\* An assignment to bad.
LEMMA StateBad ==
    ASSUME NEW c, IsCore(c), NEW e \in Extra, NEW m, NEW y
    PROVE  WithBad(State(c, e, m), y) = State(c, BadTo(e, y), m)
  <1> DEFINE u == State(c, e, m)
             q == BadTo(e, y)
  <1>1. u = Whole(c, Data(e, m)) /\ u.data = Data(e, m)
    BY StateFields DEF State
  <1>2. /\ q.shortcut = e.shortcut
        /\ q.first = e.first
        /\ q.cipher = e.cipher
        /\ q.app = e.app
        /\ q.srv = e.srv
        /\ q.sent = e.sent
        /\ q.bad = y
        /\ q.udp = e.udp
        /\ q.deque = e.deque
        /\ q.half = e.half
        /\ q.eof = e.eof
        /\ q.got = e.got
    BY ZenonT(60) DEF Extra, BadTo
  <1>3. [Data(e, m) EXCEPT !.bad = y] = Data(q, m)
    <2> HIDE DEF q
    <2>1. [Data(e, m) EXCEPT !.bad = y] \in DataSet(q, m)
      BY <1>2 DEF Data, DataSet
    <2> QED BY <2>1, DataEq
  <1> HIDE DEF u, q
  <1>4. WithBad(u, y) = SetData(u, [u.data EXCEPT !.bad = y])
    BY DEF WithBad, SetData
  <1>5. SetData(u, Data(q, m)) = Whole(c, Data(q, m))
    BY <1>1, WholeUpdate
  <1> QED BY <1>1, <1>3, <1>4, <1>5 DEF State, u, q

\* What it makes of client_ctx.
LEMMA ExtraBad ==
    ASSUME NEW e \in Extra, NEW y \in SUBSET {"uv_close"}
    PROVE  /\ BadTo(e, y) \in Extra
           /\ BadTo(e, y).shortcut = e.shortcut
           /\ BadTo(e, y).first = e.first
           /\ BadTo(e, y).cipher = e.cipher
           /\ BadTo(e, y).app = e.app
           /\ BadTo(e, y).srv = e.srv
           /\ BadTo(e, y).sent = e.sent
           /\ BadTo(e, y).bad = y
           /\ BadTo(e, y).udp = e.udp
           /\ BadTo(e, y).deque = e.deque
           /\ BadTo(e, y).half = e.half
           /\ BadTo(e, y).eof = e.eof
           /\ BadTo(e, y).got = e.got
  <1> DEFINE S == SUBSET {"uv_close"}
  <1> HIDE DEF S
  <1>1. y \in S
    BY DEF S
  <1> QED BY <1>1, ZenonT(60) DEF Extra, BadTo, S

\* An assignment to deque.
LEMMA StateDeque ==
    ASSUME NEW c, IsCore(c), NEW e \in Extra, NEW m, NEW y
    PROVE  WithDeque(State(c, e, m), y) = State(c, DequeTo(e, y), m)
  <1> DEFINE u == State(c, e, m)
             q == DequeTo(e, y)
  <1>1. u = Whole(c, Data(e, m)) /\ u.data = Data(e, m)
    BY StateFields DEF State
  <1>2. /\ q.shortcut = e.shortcut
        /\ q.first = e.first
        /\ q.cipher = e.cipher
        /\ q.app = e.app
        /\ q.srv = e.srv
        /\ q.sent = e.sent
        /\ q.bad = e.bad
        /\ q.udp = e.udp
        /\ q.deque = y
        /\ q.half = e.half
        /\ q.eof = e.eof
        /\ q.got = e.got
    BY ZenonT(60) DEF Extra, DequeTo
  <1>3. [Data(e, m) EXCEPT !.deque = y] = Data(q, m)
    <2> HIDE DEF q
    <2>1. [Data(e, m) EXCEPT !.deque = y] \in DataSet(q, m)
      BY <1>2 DEF Data, DataSet
    <2> QED BY <2>1, DataEq
  <1> HIDE DEF u, q
  <1>4. WithDeque(u, y) = SetData(u, [u.data EXCEPT !.deque = y])
    BY DEF WithDeque, SetData
  <1>5. SetData(u, Data(q, m)) = Whole(c, Data(q, m))
    BY <1>1, WholeUpdate
  <1> QED BY <1>1, <1>3, <1>4, <1>5 DEF State, u, q

\* What it makes of client_ctx.
LEMMA ExtraDeque ==
    ASSUME NEW e \in Extra, NEW y \in Seq(Items)
    PROVE  /\ DequeTo(e, y) \in Extra
           /\ DequeTo(e, y).shortcut = e.shortcut
           /\ DequeTo(e, y).first = e.first
           /\ DequeTo(e, y).cipher = e.cipher
           /\ DequeTo(e, y).app = e.app
           /\ DequeTo(e, y).srv = e.srv
           /\ DequeTo(e, y).sent = e.sent
           /\ DequeTo(e, y).bad = e.bad
           /\ DequeTo(e, y).udp = e.udp
           /\ DequeTo(e, y).deque = y
           /\ DequeTo(e, y).half = e.half
           /\ DequeTo(e, y).eof = e.eof
           /\ DequeTo(e, y).got = e.got
  <1> DEFINE S == Seq(Items)
  <1> HIDE DEF S
  <1>1. y \in S
    BY DEF S
  <1> QED BY <1>1, ZenonT(60) DEF Extra, DequeTo, S

\* An assignment to half.
LEMMA StateHalf ==
    ASSUME NEW c, IsCore(c), NEW e \in Extra, NEW m, NEW y
    PROVE  WithHalf(State(c, e, m), y) = State(c, HalfTo(e, y), m)
  <1> DEFINE u == State(c, e, m)
             q == HalfTo(e, y)
  <1>1. u = Whole(c, Data(e, m)) /\ u.data = Data(e, m)
    BY StateFields DEF State
  <1>2. /\ q.shortcut = e.shortcut
        /\ q.first = e.first
        /\ q.cipher = e.cipher
        /\ q.app = e.app
        /\ q.srv = e.srv
        /\ q.sent = e.sent
        /\ q.bad = e.bad
        /\ q.udp = e.udp
        /\ q.deque = e.deque
        /\ q.half = y
        /\ q.eof = e.eof
        /\ q.got = e.got
    BY ZenonT(60) DEF Extra, HalfTo
  <1>3. [Data(e, m) EXCEPT !.half = y] = Data(q, m)
    <2> HIDE DEF q
    <2>1. [Data(e, m) EXCEPT !.half = y] \in DataSet(q, m)
      BY <1>2 DEF Data, DataSet
    <2> QED BY <2>1, DataEq
  <1> HIDE DEF u, q
  <1>4. WithHalf(u, y) = SetData(u, [u.data EXCEPT !.half = y])
    BY DEF WithHalf, SetData
  <1>5. SetData(u, Data(q, m)) = Whole(c, Data(q, m))
    BY <1>1, WholeUpdate
  <1> QED BY <1>1, <1>3, <1>4, <1>5 DEF State, u, q

\* What it makes of client_ctx.
LEMMA ExtraHalf ==
    ASSUME NEW e \in Extra, NEW y \in 0 .. 1
    PROVE  /\ HalfTo(e, y) \in Extra
           /\ HalfTo(e, y).shortcut = e.shortcut
           /\ HalfTo(e, y).first = e.first
           /\ HalfTo(e, y).cipher = e.cipher
           /\ HalfTo(e, y).app = e.app
           /\ HalfTo(e, y).srv = e.srv
           /\ HalfTo(e, y).sent = e.sent
           /\ HalfTo(e, y).bad = e.bad
           /\ HalfTo(e, y).udp = e.udp
           /\ HalfTo(e, y).deque = e.deque
           /\ HalfTo(e, y).half = y
           /\ HalfTo(e, y).eof = e.eof
           /\ HalfTo(e, y).got = e.got
  <1> DEFINE S == 0 .. 1
  <1> HIDE DEF S
  <1>1. y \in S
    BY DEF S
  <1> QED BY <1>1, ZenonT(60) DEF Extra, HalfTo, S

\* An assignment to eof.
LEMMA StateEof ==
    ASSUME NEW c, IsCore(c), NEW e \in Extra, NEW m, NEW y
    PROVE  WithEof(State(c, e, m), y) = State(c, EofTo(e, y), m)
  <1> DEFINE u == State(c, e, m)
             q == EofTo(e, y)
  <1>1. u = Whole(c, Data(e, m)) /\ u.data = Data(e, m)
    BY StateFields DEF State
  <1>2. /\ q.shortcut = e.shortcut
        /\ q.first = e.first
        /\ q.cipher = e.cipher
        /\ q.app = e.app
        /\ q.srv = e.srv
        /\ q.sent = e.sent
        /\ q.bad = e.bad
        /\ q.udp = e.udp
        /\ q.deque = e.deque
        /\ q.half = e.half
        /\ q.eof = y
        /\ q.got = e.got
    BY ZenonT(60) DEF Extra, EofTo
  <1>3. [Data(e, m) EXCEPT !.eof = y] = Data(q, m)
    <2> HIDE DEF q
    <2>1. [Data(e, m) EXCEPT !.eof = y] \in DataSet(q, m)
      BY <1>2 DEF Data, DataSet
    <2> QED BY <2>1, DataEq
  <1> HIDE DEF u, q
  <1>4. WithEof(u, y) = SetData(u, [u.data EXCEPT !.eof = y])
    BY DEF WithEof, SetData
  <1>5. SetData(u, Data(q, m)) = Whole(c, Data(q, m))
    BY <1>1, WholeUpdate
  <1> QED BY <1>1, <1>3, <1>4, <1>5 DEF State, u, q

\* What it makes of client_ctx.
LEMMA ExtraEof ==
    ASSUME NEW e \in Extra, NEW y \in BOOLEAN
    PROVE  /\ EofTo(e, y) \in Extra
           /\ EofTo(e, y).shortcut = e.shortcut
           /\ EofTo(e, y).first = e.first
           /\ EofTo(e, y).cipher = e.cipher
           /\ EofTo(e, y).app = e.app
           /\ EofTo(e, y).srv = e.srv
           /\ EofTo(e, y).sent = e.sent
           /\ EofTo(e, y).bad = e.bad
           /\ EofTo(e, y).udp = e.udp
           /\ EofTo(e, y).deque = e.deque
           /\ EofTo(e, y).half = e.half
           /\ EofTo(e, y).eof = y
           /\ EofTo(e, y).got = e.got
  <1> DEFINE S == BOOLEAN
  <1> HIDE DEF S
  <1>1. y \in S
    BY DEF S
  <1> QED BY <1>1, ZenonT(60) DEF Extra, EofTo, S

\* An assignment to got.
LEMMA StateGot ==
    ASSUME NEW c, IsCore(c), NEW e \in Extra, NEW m, NEW y
    PROVE  WithGot(State(c, e, m), y) = State(c, GotTo(e, y), m)
  <1> DEFINE u == State(c, e, m)
             q == GotTo(e, y)
  <1>1. u = Whole(c, Data(e, m)) /\ u.data = Data(e, m)
    BY StateFields DEF State
  <1>2. /\ q.shortcut = e.shortcut
        /\ q.first = e.first
        /\ q.cipher = e.cipher
        /\ q.app = e.app
        /\ q.srv = e.srv
        /\ q.sent = e.sent
        /\ q.bad = e.bad
        /\ q.udp = e.udp
        /\ q.deque = e.deque
        /\ q.half = e.half
        /\ q.eof = e.eof
        /\ q.got = y
    BY ZenonT(60) DEF Extra, GotTo
  <1>3. [Data(e, m) EXCEPT !.got = y] = Data(q, m)
    <2> HIDE DEF q
    <2>1. [Data(e, m) EXCEPT !.got = y] \in DataSet(q, m)
      BY <1>2 DEF Data, DataSet
    <2> QED BY <2>1, DataEq
  <1> HIDE DEF u, q
  <1>4. WithGot(u, y) = SetData(u, [u.data EXCEPT !.got = y])
    BY DEF WithGot, SetData
  <1>5. SetData(u, Data(q, m)) = Whole(c, Data(q, m))
    BY <1>1, WholeUpdate
  <1> QED BY <1>1, <1>3, <1>4, <1>5 DEF State, u, q

\* What it makes of client_ctx.
LEMMA ExtraGot ==
    ASSUME NEW e \in Extra, NEW y \in 0 .. 2 * MaxData
    PROVE  /\ GotTo(e, y) \in Extra
           /\ GotTo(e, y).shortcut = e.shortcut
           /\ GotTo(e, y).first = e.first
           /\ GotTo(e, y).cipher = e.cipher
           /\ GotTo(e, y).app = e.app
           /\ GotTo(e, y).srv = e.srv
           /\ GotTo(e, y).sent = e.sent
           /\ GotTo(e, y).bad = e.bad
           /\ GotTo(e, y).udp = e.udp
           /\ GotTo(e, y).deque = e.deque
           /\ GotTo(e, y).half = e.half
           /\ GotTo(e, y).eof = e.eof
           /\ GotTo(e, y).got = y
  <1> DEFINE S == 0 .. 2 * MaxData
  <1> HIDE DEF S
  <1>1. y \in S
    BY DEF S
  <1> QED BY <1>1, ZenonT(60) DEF Extra, GotTo, S

\* The fields of client_ctx have their types.
LEMMA ExtraFields ==
    ASSUME NEW e \in Extra
    PROVE  /\ e.shortcut \in BOOLEAN /\ e.first \in Seq(Items) /\ e.app \in 0 .. MaxData
           /\ e.sent \in [Side -> Seq(Items)] /\ e.bad \in SUBSET {"uv_close"}
           /\ e.udp \in BOOLEAN /\ e.deque \in Seq(Items) /\ e.half \in 0 .. 1
           /\ e.eof \in BOOLEAN /\ e.got \in 0 .. 2 * MaxData
           /\ e.sent["incoming"] \in Seq(Items) /\ e.sent["outgoing"] \in Seq(Items)
  BY DEF Extra, Side

-----------------------------------------------------------------------------
(* The connection as a value. *)

WriteKinds == {"handshake", "data", "notify"}
Leftovers == {"early", "handshake", "reset"}
SockStates == {"none", "connecting", "failed", "connected", "closing", "closed"}
CloseCbs == {"none", "close_done", "connect_canceled"}
TimerStates == {"none", "running", "expired", "closing", "closed"}
ShakeStates == {"none", "begun", "flight", "over", "failed"}

\* The fields of a connection have their types.
LEMMA ConnFields ==
    ASSUME NEW m \in Connection
    PROVE  /\ m.ctx \in BOOLEAN /\ m.cref \in Nat /\ m.cfreed \in BOOLEAN
           /\ m.ref \in Nat /\ m.freed \in BOOLEAN /\ m.mref \in Nat /\ m.mfreed \in BOOLEAN
           /\ m.connect_cb \in BOOLEAN /\ m.on_shutting_down \in BOOLEAN /\ m.dns \in BOOLEAN
           /\ m.sock \in {"none", "connecting", "failed", "connected", "closing", "closed"}
           /\ m.close_cb \in {"none", "close_done", "connect_canceled"}
           /\ m.connecting \in BOOLEAN
           /\ m.timer \in {"none", "running", "expired", "closing", "closed"}
           /\ m.reading \in BOOLEAN /\ m.writable \in BOOLEAN
           /\ m.writes \in Seq(WriteKinds) /\ m.shutting \in BOOLEAN
           /\ m.handshake \in {"none", "begun", "flight", "over", "failed"}
           /\ m.left \in SUBSET Leftovers
  BY DEF Connection, SockStates, CloseCbs, TimerStates, ShakeStates, WriteKinds, Leftovers

CrefTo(m, r, f) ==
    [m EXCEPT !.cref = r, !.cfreed = f]

\* The count of client_ctx.
LEMMA ConnCrefTo ==
    ASSUME NEW m \in Connection, NEW r \in Nat, NEW f \in BOOLEAN, NEW n, n = CrefTo(m, r, f)
    PROVE  /\ n \in Connection /\ n.ctx = m.ctx /\ n.cref = r /\ n.cfreed = f
           /\ n.ref = m.ref /\ n.freed = m.freed /\ n.mref = m.mref
           /\ n.mfreed = m.mfreed /\ n.connect_cb = m.connect_cb
           /\ n.on_shutting_down = m.on_shutting_down /\ n.dns = m.dns
           /\ n.sock = m.sock /\ n.close_cb = m.close_cb /\ n.connecting = m.connecting
           /\ n.timer = m.timer /\ n.reading = m.reading /\ n.writable = m.writable
           /\ n.writes = m.writes /\ n.shutting = m.shutting
           /\ n.handshake = m.handshake /\ n.left = m.left
  BY ZenonT(60) DEF Connection, SockStates, CloseCbs, TimerStates, ShakeStates, CrefTo, WriteKinds, Leftovers

RefTo(m, r, f) ==
    [m EXCEPT !.ref = r, !.freed = f]

\* The count of tls_cli_ctx.
LEMMA ConnRefTo ==
    ASSUME NEW m \in Connection, NEW r \in Nat, NEW f \in BOOLEAN, NEW n, n = RefTo(m, r, f)
    PROVE  /\ n \in Connection /\ n.ctx = m.ctx /\ n.cref = m.cref
           /\ n.cfreed = m.cfreed /\ n.ref = r /\ n.freed = f /\ n.mref = m.mref
           /\ n.mfreed = m.mfreed /\ n.connect_cb = m.connect_cb
           /\ n.on_shutting_down = m.on_shutting_down /\ n.dns = m.dns
           /\ n.sock = m.sock /\ n.close_cb = m.close_cb /\ n.connecting = m.connecting
           /\ n.timer = m.timer /\ n.reading = m.reading /\ n.writable = m.writable
           /\ n.writes = m.writes /\ n.shutting = m.shutting
           /\ n.handshake = m.handshake /\ n.left = m.left
  BY ZenonT(60) DEF Connection, SockStates, CloseCbs, TimerStates, ShakeStates, RefTo, WriteKinds, Leftovers

MrefTo(m, r, f) ==
    [m EXCEPT !.mref = r, !.mfreed = f]

\* The count of uv_mbed_t.
LEMMA ConnMrefTo ==
    ASSUME NEW m \in Connection, NEW r \in Nat, NEW f \in BOOLEAN, NEW n, n = MrefTo(m, r, f)
    PROVE  /\ n \in Connection /\ n.ctx = m.ctx /\ n.cref = m.cref
           /\ n.cfreed = m.cfreed /\ n.ref = m.ref /\ n.freed = m.freed /\ n.mref = r
           /\ n.mfreed = f /\ n.connect_cb = m.connect_cb
           /\ n.on_shutting_down = m.on_shutting_down /\ n.dns = m.dns
           /\ n.sock = m.sock /\ n.close_cb = m.close_cb /\ n.connecting = m.connecting
           /\ n.timer = m.timer /\ n.reading = m.reading /\ n.writable = m.writable
           /\ n.writes = m.writes /\ n.shutting = m.shutting
           /\ n.handshake = m.handshake /\ n.left = m.left
  BY ZenonT(60) DEF Connection, SockStates, CloseCbs, TimerStates, ShakeStates, MrefTo, WriteKinds, Leftovers

BeginTo(m, r, k) ==
    [m EXCEPT !.cref = r, !.on_shutting_down = TRUE, !.ref = k]

\* tls_client_shutdown, for a tunnel.
LEMMA ConnBeginTo ==
    ASSUME NEW m \in Connection, NEW r \in Nat, NEW k \in Nat, NEW n, n = BeginTo(m, r, k)
    PROVE  /\ n \in Connection /\ n.ctx = m.ctx /\ n.cref = r /\ n.cfreed = m.cfreed
           /\ n.ref = k /\ n.freed = m.freed /\ n.mref = m.mref /\ n.mfreed = m.mfreed
           /\ n.connect_cb = m.connect_cb /\ n.on_shutting_down /\ n.dns = m.dns
           /\ n.sock = m.sock /\ n.close_cb = m.close_cb /\ n.connecting = m.connecting
           /\ n.timer = m.timer /\ n.reading = m.reading /\ n.writable = m.writable
           /\ n.writes = m.writes /\ n.shutting = m.shutting
           /\ n.handshake = m.handshake /\ n.left = m.left
  BY ZenonT(60) DEF Connection, SockStates, CloseCbs, TimerStates, ShakeStates, BeginTo, WriteKinds, Leftovers

LeftTo(m, l) ==
    [m EXCEPT !.left = l]

\* What is left behind.
LEMMA ConnLeftTo ==
    ASSUME NEW m \in Connection, NEW l \in SUBSET Leftovers, NEW n, n = LeftTo(m, l)
    PROVE  /\ n \in Connection /\ n.ctx = m.ctx /\ n.cref = m.cref
           /\ n.cfreed = m.cfreed /\ n.ref = m.ref /\ n.freed = m.freed
           /\ n.mref = m.mref /\ n.mfreed = m.mfreed /\ n.connect_cb = m.connect_cb
           /\ n.on_shutting_down = m.on_shutting_down /\ n.dns = m.dns
           /\ n.sock = m.sock /\ n.close_cb = m.close_cb /\ n.connecting = m.connecting
           /\ n.timer = m.timer /\ n.reading = m.reading /\ n.writable = m.writable
           /\ n.writes = m.writes /\ n.shutting = m.shutting
           /\ n.handshake = m.handshake /\ n.left = l
  BY ZenonT(60) DEF Connection, SockStates, CloseCbs, TimerStates, ShakeStates, LeftTo, WriteKinds, Leftovers

HushTo(m, l, q) ==
    [m EXCEPT !.reading = FALSE, !.left = l, !.writes = q]

\* The connection is closed: reading stops.
LEMMA ConnHushTo ==
    ASSUME NEW m \in Connection, NEW l \in SUBSET Leftovers, NEW q \in Seq(WriteKinds), NEW n, n = HushTo(m, l, q)
    PROVE  /\ n \in Connection /\ n.ctx = m.ctx /\ n.cref = m.cref
           /\ n.cfreed = m.cfreed /\ n.ref = m.ref /\ n.freed = m.freed
           /\ n.mref = m.mref /\ n.mfreed = m.mfreed /\ n.connect_cb = m.connect_cb
           /\ n.on_shutting_down = m.on_shutting_down /\ n.dns = m.dns
           /\ n.sock = m.sock /\ n.close_cb = m.close_cb /\ n.connecting = m.connecting
           /\ n.timer = m.timer /\ ~n.reading /\ n.writable = m.writable
           /\ n.writes = q /\ n.shutting = m.shutting /\ n.handshake = m.handshake
           /\ n.left = l
  BY ZenonT(60) DEF Connection, SockStates, CloseCbs, TimerStates, ShakeStates, HushTo, WriteKinds, Leftovers

ShutTo(m) ==
    [m EXCEPT !.shutting = TRUE, !.writable = FALSE]

\* uv_shutdown.
LEMMA ConnShutTo ==
    ASSUME NEW m \in Connection, NEW n, n = ShutTo(m)
    PROVE  /\ n \in Connection /\ n.ctx = m.ctx /\ n.cref = m.cref
           /\ n.cfreed = m.cfreed /\ n.ref = m.ref /\ n.freed = m.freed
           /\ n.mref = m.mref /\ n.mfreed = m.mfreed /\ n.connect_cb = m.connect_cb
           /\ n.on_shutting_down = m.on_shutting_down /\ n.dns = m.dns
           /\ n.sock = m.sock /\ n.close_cb = m.close_cb /\ n.connecting = m.connecting
           /\ n.timer = m.timer /\ n.reading = m.reading /\ ~n.writable
           /\ n.writes = m.writes /\ n.shutting /\ n.handshake = m.handshake
           /\ n.left = m.left
  BY ZenonT(60) DEF Connection, SockStates, CloseCbs, TimerStates, ShakeStates, ShutTo, WriteKinds, Leftovers

CloseTo(m, r, cb) ==
    [m EXCEPT !.mref = r,
              !.sock = "closing",
              !.close_cb = cb,
              !.reading = FALSE,
              !.writable = FALSE]

\* uv_close.
LEMMA ConnCloseTo ==
    ASSUME NEW m \in Connection, NEW r \in Nat, NEW cb \in CloseCbs, NEW n, n = CloseTo(m, r, cb)
    PROVE  /\ n \in Connection /\ n.ctx = m.ctx /\ n.cref = m.cref
           /\ n.cfreed = m.cfreed /\ n.ref = m.ref /\ n.freed = m.freed /\ n.mref = r
           /\ n.mfreed = m.mfreed /\ n.connect_cb = m.connect_cb
           /\ n.on_shutting_down = m.on_shutting_down /\ n.dns = m.dns
           /\ n.sock = "closing" /\ n.close_cb = cb /\ n.connecting = m.connecting
           /\ n.timer = m.timer /\ ~n.reading /\ ~n.writable
           /\ n.writes = m.writes /\ n.shutting = m.shutting
           /\ n.handshake = m.handshake /\ n.left = m.left
  <1> DEFINE z0 == "closing"
  <1>1. /\ z0 \in {"none", "connecting", "failed", "connected", "closing", "closed"}
    OBVIOUS
  <1>2. n = [m EXCEPT !.mref = r, !.sock = z0, !.close_cb = cb, !.reading = FALSE, !.writable = FALSE]
    BY DEF CloseTo
  <1> HIDE DEF z0
  <1>3. /\ n \in Connection /\ n.ctx = m.ctx /\ n.cref = m.cref
        /\ n.cfreed = m.cfreed /\ n.ref = m.ref /\ n.freed = m.freed /\ n.mref = r
        /\ n.mfreed = m.mfreed /\ n.connect_cb = m.connect_cb
        /\ n.on_shutting_down = m.on_shutting_down /\ n.dns = m.dns
        /\ n.sock = z0 /\ n.close_cb = cb /\ n.connecting = m.connecting
        /\ n.timer = m.timer /\ ~n.reading /\ ~n.writable
        /\ n.writes = m.writes /\ n.shutting = m.shutting
        /\ n.handshake = m.handshake /\ n.left = m.left
    BY <1>1, <1>2, ZenonT(60) DEF Connection, SockStates, CloseCbs, TimerStates, ShakeStates, WriteKinds, Leftovers
  <1> QED BY <1>3 DEF z0

CalledTo(m, r) ==
    [m EXCEPT !.connect_cb = FALSE, !.mref = r]

\* connect_cb is called.
LEMMA ConnCalledTo ==
    ASSUME NEW m \in Connection, NEW r \in Nat, NEW n, n = CalledTo(m, r)
    PROVE  /\ n \in Connection /\ n.ctx = m.ctx /\ n.cref = m.cref
           /\ n.cfreed = m.cfreed /\ n.ref = m.ref /\ n.freed = m.freed /\ n.mref = r
           /\ n.mfreed = m.mfreed /\ ~n.connect_cb
           /\ n.on_shutting_down = m.on_shutting_down /\ n.dns = m.dns
           /\ n.sock = m.sock /\ n.close_cb = m.close_cb /\ n.connecting = m.connecting
           /\ n.timer = m.timer /\ n.reading = m.reading /\ n.writable = m.writable
           /\ n.writes = m.writes /\ n.shutting = m.shutting
           /\ n.handshake = m.handshake /\ n.left = m.left
  BY ZenonT(60) DEF Connection, SockStates, CloseCbs, TimerStates, ShakeStates, CalledTo, WriteKinds, Leftovers

FoundTo(m) ==
    [m EXCEPT !.dns = FALSE]

\* The lookup is over.
LEMMA ConnFoundTo ==
    ASSUME NEW m \in Connection, NEW n, n = FoundTo(m)
    PROVE  /\ n \in Connection /\ n.ctx = m.ctx /\ n.cref = m.cref
           /\ n.cfreed = m.cfreed /\ n.ref = m.ref /\ n.freed = m.freed
           /\ n.mref = m.mref /\ n.mfreed = m.mfreed /\ n.connect_cb = m.connect_cb
           /\ n.on_shutting_down = m.on_shutting_down /\ ~n.dns
           /\ n.sock = m.sock /\ n.close_cb = m.close_cb /\ n.connecting = m.connecting
           /\ n.timer = m.timer /\ n.reading = m.reading /\ n.writable = m.writable
           /\ n.writes = m.writes /\ n.shutting = m.shutting
           /\ n.handshake = m.handshake /\ n.left = m.left
  BY ZenonT(60) DEF Connection, SockStates, CloseCbs, TimerStates, ShakeStates, FoundTo, WriteKinds, Leftovers

DialTo(m) ==
    [m EXCEPT !.sock = "connecting", !.connecting = TRUE, !.timer = "running"]

\* The connect is in progress.
LEMMA ConnDialTo ==
    ASSUME NEW m \in Connection, NEW n, n = DialTo(m)
    PROVE  /\ n \in Connection /\ n.ctx = m.ctx /\ n.cref = m.cref
           /\ n.cfreed = m.cfreed /\ n.ref = m.ref /\ n.freed = m.freed
           /\ n.mref = m.mref /\ n.mfreed = m.mfreed /\ n.connect_cb = m.connect_cb
           /\ n.on_shutting_down = m.on_shutting_down /\ n.dns = m.dns
           /\ n.sock = "connecting" /\ n.close_cb = m.close_cb /\ n.connecting
           /\ n.timer = "running" /\ n.reading = m.reading /\ n.writable = m.writable
           /\ n.writes = m.writes /\ n.shutting = m.shutting
           /\ n.handshake = m.handshake /\ n.left = m.left
  <1> DEFINE z0 == "connecting"
             z1 == "running"
  <1>1. /\ z0 \in {"none", "connecting", "failed", "connected", "closing", "closed"}
        /\ z1 \in {"none", "running", "expired", "closing", "closed"}
    OBVIOUS
  <1>2. n = [m EXCEPT !.sock = z0, !.connecting = TRUE, !.timer = z1]
    BY DEF DialTo
  <1> HIDE DEF z0, z1
  <1>3. /\ n \in Connection /\ n.ctx = m.ctx /\ n.cref = m.cref
        /\ n.cfreed = m.cfreed /\ n.ref = m.ref /\ n.freed = m.freed
        /\ n.mref = m.mref /\ n.mfreed = m.mfreed /\ n.connect_cb = m.connect_cb
        /\ n.on_shutting_down = m.on_shutting_down /\ n.dns = m.dns
        /\ n.sock = z0 /\ n.close_cb = m.close_cb /\ n.connecting
        /\ n.timer = z1 /\ n.reading = m.reading /\ n.writable = m.writable
        /\ n.writes = m.writes /\ n.shutting = m.shutting
        /\ n.handshake = m.handshake /\ n.left = m.left
    BY <1>1, <1>2, ZenonT(60) DEF Connection, SockStates, CloseCbs, TimerStates, ShakeStates, WriteKinds, Leftovers
  <1> QED BY <1>3 DEF z0, z1

SockTo(m, x) ==
    [m EXCEPT !.sock = x]

\* The handle changes.
LEMMA ConnSockTo ==
    ASSUME NEW m \in Connection, NEW x \in SockStates, NEW n, n = SockTo(m, x)
    PROVE  /\ n \in Connection /\ n.ctx = m.ctx /\ n.cref = m.cref
           /\ n.cfreed = m.cfreed /\ n.ref = m.ref /\ n.freed = m.freed
           /\ n.mref = m.mref /\ n.mfreed = m.mfreed /\ n.connect_cb = m.connect_cb
           /\ n.on_shutting_down = m.on_shutting_down /\ n.dns = m.dns /\ n.sock = x
           /\ n.close_cb = m.close_cb /\ n.connecting = m.connecting
           /\ n.timer = m.timer /\ n.reading = m.reading /\ n.writable = m.writable
           /\ n.writes = m.writes /\ n.shutting = m.shutting
           /\ n.handshake = m.handshake /\ n.left = m.left
  BY ZenonT(60) DEF Connection, SockStates, CloseCbs, TimerStates, ShakeStates, SockTo, WriteKinds, Leftovers

TimerTo(m, x) ==
    [m EXCEPT !.timer = x]

\* The timer changes.
LEMMA ConnTimerTo ==
    ASSUME NEW m \in Connection, NEW x \in TimerStates, NEW n, n = TimerTo(m, x)
    PROVE  /\ n \in Connection /\ n.ctx = m.ctx /\ n.cref = m.cref
           /\ n.cfreed = m.cfreed /\ n.ref = m.ref /\ n.freed = m.freed
           /\ n.mref = m.mref /\ n.mfreed = m.mfreed /\ n.connect_cb = m.connect_cb
           /\ n.on_shutting_down = m.on_shutting_down /\ n.dns = m.dns
           /\ n.sock = m.sock /\ n.close_cb = m.close_cb /\ n.connecting = m.connecting
           /\ n.timer = x /\ n.reading = m.reading /\ n.writable = m.writable
           /\ n.writes = m.writes /\ n.shutting = m.shutting
           /\ n.handshake = m.handshake /\ n.left = m.left
  BY ZenonT(60) DEF Connection, SockStates, CloseCbs, TimerStates, ShakeStates, TimerTo, WriteKinds, Leftovers

DialledTo(m, r) ==
    [m EXCEPT !.connecting = FALSE, !.timer = "closing", !.mref = r]

\* The connect is over.
LEMMA ConnDialledTo ==
    ASSUME NEW m \in Connection, NEW r \in Nat, NEW n, n = DialledTo(m, r)
    PROVE  /\ n \in Connection /\ n.ctx = m.ctx /\ n.cref = m.cref
           /\ n.cfreed = m.cfreed /\ n.ref = m.ref /\ n.freed = m.freed /\ n.mref = r
           /\ n.mfreed = m.mfreed /\ n.connect_cb = m.connect_cb
           /\ n.on_shutting_down = m.on_shutting_down /\ n.dns = m.dns
           /\ n.sock = m.sock /\ n.close_cb = m.close_cb /\ ~n.connecting
           /\ n.timer = "closing" /\ n.reading = m.reading /\ n.writable = m.writable
           /\ n.writes = m.writes /\ n.shutting = m.shutting
           /\ n.handshake = m.handshake /\ n.left = m.left
  <1> DEFINE z0 == "closing"
  <1>1. /\ z0 \in {"none", "running", "expired", "closing", "closed"}
    OBVIOUS
  <1>2. n = [m EXCEPT !.connecting = FALSE, !.timer = z0, !.mref = r]
    BY DEF DialledTo
  <1> HIDE DEF z0
  <1>3. /\ n \in Connection /\ n.ctx = m.ctx /\ n.cref = m.cref
        /\ n.cfreed = m.cfreed /\ n.ref = m.ref /\ n.freed = m.freed /\ n.mref = r
        /\ n.mfreed = m.mfreed /\ n.connect_cb = m.connect_cb
        /\ n.on_shutting_down = m.on_shutting_down /\ n.dns = m.dns
        /\ n.sock = m.sock /\ n.close_cb = m.close_cb /\ ~n.connecting
        /\ n.timer = z0 /\ n.reading = m.reading /\ n.writable = m.writable
        /\ n.writes = m.writes /\ n.shutting = m.shutting
        /\ n.handshake = m.handshake /\ n.left = m.left
    BY <1>1, <1>2, ZenonT(60) DEF Connection, SockStates, CloseCbs, TimerStates, ShakeStates, WriteKinds, Leftovers
  <1> QED BY <1>3 DEF z0

ReadyTo(m, q) ==
    [m EXCEPT !.sock = "connected",
              !.reading = TRUE,
              !.writable = TRUE,
              !.handshake = "begun",
              !.writes = q]

\* The stream is connected.
LEMMA ConnReadyTo ==
    ASSUME NEW m \in Connection, NEW q \in Seq(WriteKinds), NEW n, n = ReadyTo(m, q)
    PROVE  /\ n \in Connection /\ n.ctx = m.ctx /\ n.cref = m.cref
           /\ n.cfreed = m.cfreed /\ n.ref = m.ref /\ n.freed = m.freed
           /\ n.mref = m.mref /\ n.mfreed = m.mfreed /\ n.connect_cb = m.connect_cb
           /\ n.on_shutting_down = m.on_shutting_down /\ n.dns = m.dns
           /\ n.sock = "connected" /\ n.close_cb = m.close_cb
           /\ n.connecting = m.connecting /\ n.timer = m.timer /\ n.reading
           /\ n.writable /\ n.writes = q /\ n.shutting = m.shutting
           /\ n.handshake = "begun" /\ n.left = m.left
  <1> DEFINE z0 == "connected"
             z1 == "begun"
  <1>1. /\ z0 \in {"none", "connecting", "failed", "connected", "closing", "closed"}
        /\ z1 \in {"none", "begun", "flight", "over", "failed"}
    OBVIOUS
  <1>2. n = [m EXCEPT !.sock = z0, !.reading = TRUE, !.writable = TRUE, !.handshake = z1, !.writes = q]
    BY DEF ReadyTo
  <1> HIDE DEF z0, z1
  <1>3. /\ n \in Connection /\ n.ctx = m.ctx /\ n.cref = m.cref
        /\ n.cfreed = m.cfreed /\ n.ref = m.ref /\ n.freed = m.freed
        /\ n.mref = m.mref /\ n.mfreed = m.mfreed /\ n.connect_cb = m.connect_cb
        /\ n.on_shutting_down = m.on_shutting_down /\ n.dns = m.dns
        /\ n.sock = z0 /\ n.close_cb = m.close_cb
        /\ n.connecting = m.connecting /\ n.timer = m.timer /\ n.reading
        /\ n.writable /\ n.writes = q /\ n.shutting = m.shutting
        /\ n.handshake = z1 /\ n.left = m.left
    BY <1>1, <1>2, ZenonT(60) DEF Connection, SockStates, CloseCbs, TimerStates, ShakeStates, WriteKinds, Leftovers
  <1> QED BY <1>3 DEF z0, z1

FlightTo(m, x, q) ==
    [m EXCEPT !.handshake = x, !.writes = q]

\* The handshake goes on.
LEMMA ConnFlightTo ==
    ASSUME NEW m \in Connection, NEW x \in ShakeStates, NEW q \in Seq(WriteKinds), NEW n, n = FlightTo(m, x, q)
    PROVE  /\ n \in Connection /\ n.ctx = m.ctx /\ n.cref = m.cref
           /\ n.cfreed = m.cfreed /\ n.ref = m.ref /\ n.freed = m.freed
           /\ n.mref = m.mref /\ n.mfreed = m.mfreed /\ n.connect_cb = m.connect_cb
           /\ n.on_shutting_down = m.on_shutting_down /\ n.dns = m.dns
           /\ n.sock = m.sock /\ n.close_cb = m.close_cb /\ n.connecting = m.connecting
           /\ n.timer = m.timer /\ n.reading = m.reading /\ n.writable = m.writable
           /\ n.writes = q /\ n.shutting = m.shutting /\ n.handshake = x
           /\ n.left = m.left
  BY ZenonT(60) DEF Connection, SockStates, CloseCbs, TimerStates, ShakeStates, FlightTo, WriteKinds, Leftovers

ShakeTo(m, x) ==
    [m EXCEPT !.handshake = x]

\* The handshake ends.
LEMMA ConnShakeTo ==
    ASSUME NEW m \in Connection, NEW x \in ShakeStates, NEW n, n = ShakeTo(m, x)
    PROVE  /\ n \in Connection /\ n.ctx = m.ctx /\ n.cref = m.cref
           /\ n.cfreed = m.cfreed /\ n.ref = m.ref /\ n.freed = m.freed
           /\ n.mref = m.mref /\ n.mfreed = m.mfreed /\ n.connect_cb = m.connect_cb
           /\ n.on_shutting_down = m.on_shutting_down /\ n.dns = m.dns
           /\ n.sock = m.sock /\ n.close_cb = m.close_cb /\ n.connecting = m.connecting
           /\ n.timer = m.timer /\ n.reading = m.reading /\ n.writable = m.writable
           /\ n.writes = m.writes /\ n.shutting = m.shutting /\ n.handshake = x
           /\ n.left = m.left
  BY ZenonT(60) DEF Connection, SockStates, CloseCbs, TimerStates, ShakeStates, ShakeTo, WriteKinds, Leftovers

ReadTo(m, b) ==
    [m EXCEPT !.reading = FALSE, !.writable = b]

\* Reading ends.
LEMMA ConnReadTo ==
    ASSUME NEW m \in Connection, NEW b \in BOOLEAN, NEW n, n = ReadTo(m, b)
    PROVE  /\ n \in Connection /\ n.ctx = m.ctx /\ n.cref = m.cref
           /\ n.cfreed = m.cfreed /\ n.ref = m.ref /\ n.freed = m.freed
           /\ n.mref = m.mref /\ n.mfreed = m.mfreed /\ n.connect_cb = m.connect_cb
           /\ n.on_shutting_down = m.on_shutting_down /\ n.dns = m.dns
           /\ n.sock = m.sock /\ n.close_cb = m.close_cb /\ n.connecting = m.connecting
           /\ n.timer = m.timer /\ ~n.reading /\ n.writable = b
           /\ n.writes = m.writes /\ n.shutting = m.shutting
           /\ n.handshake = m.handshake /\ n.left = m.left
  BY ZenonT(60) DEF Connection, SockStates, CloseCbs, TimerStates, ShakeStates, ReadTo, WriteKinds, Leftovers

WritesTo(m, q) ==
    [m EXCEPT !.writes = q]

\* A write is over.
LEMMA ConnWritesTo ==
    ASSUME NEW m \in Connection, NEW q \in Seq(WriteKinds), NEW n, n = WritesTo(m, q)
    PROVE  /\ n \in Connection /\ n.ctx = m.ctx /\ n.cref = m.cref
           /\ n.cfreed = m.cfreed /\ n.ref = m.ref /\ n.freed = m.freed
           /\ n.mref = m.mref /\ n.mfreed = m.mfreed /\ n.connect_cb = m.connect_cb
           /\ n.on_shutting_down = m.on_shutting_down /\ n.dns = m.dns
           /\ n.sock = m.sock /\ n.close_cb = m.close_cb /\ n.connecting = m.connecting
           /\ n.timer = m.timer /\ n.reading = m.reading /\ n.writable = m.writable
           /\ n.writes = q /\ n.shutting = m.shutting /\ n.handshake = m.handshake
           /\ n.left = m.left
  BY ZenonT(60) DEF Connection, SockStates, CloseCbs, TimerStates, ShakeStates, WritesTo, WriteKinds, Leftovers

SendTo(m, r, q) ==
    [m EXCEPT !.ref = r, !.writes = q]

\* Data is written.
LEMMA ConnSendTo ==
    ASSUME NEW m \in Connection, NEW r \in Nat, NEW q \in Seq(WriteKinds), NEW n, n = SendTo(m, r, q)
    PROVE  /\ n \in Connection /\ n.ctx = m.ctx /\ n.cref = m.cref
           /\ n.cfreed = m.cfreed /\ n.ref = r /\ n.freed = m.freed /\ n.mref = m.mref
           /\ n.mfreed = m.mfreed /\ n.connect_cb = m.connect_cb
           /\ n.on_shutting_down = m.on_shutting_down /\ n.dns = m.dns
           /\ n.sock = m.sock /\ n.close_cb = m.close_cb /\ n.connecting = m.connecting
           /\ n.timer = m.timer /\ n.reading = m.reading /\ n.writable = m.writable
           /\ n.writes = q /\ n.shutting = m.shutting /\ n.handshake = m.handshake
           /\ n.left = m.left
  BY ZenonT(60) DEF Connection, SockStates, CloseCbs, TimerStates, ShakeStates, SendTo, WriteKinds, Leftovers

UnshutTo(m) ==
    [m EXCEPT !.shutting = FALSE]

\* The shutdown request is over.
LEMMA ConnUnshutTo ==
    ASSUME NEW m \in Connection, NEW n, n = UnshutTo(m)
    PROVE  /\ n \in Connection /\ n.ctx = m.ctx /\ n.cref = m.cref
           /\ n.cfreed = m.cfreed /\ n.ref = m.ref /\ n.freed = m.freed
           /\ n.mref = m.mref /\ n.mfreed = m.mfreed /\ n.connect_cb = m.connect_cb
           /\ n.on_shutting_down = m.on_shutting_down /\ n.dns = m.dns
           /\ n.sock = m.sock /\ n.close_cb = m.close_cb /\ n.connecting = m.connecting
           /\ n.timer = m.timer /\ n.reading = m.reading /\ n.writable = m.writable
           /\ n.writes = m.writes /\ ~n.shutting /\ n.handshake = m.handshake
           /\ n.left = m.left
  BY ZenonT(60) DEF Connection, SockStates, CloseCbs, TimerStates, ShakeStates, UnshutTo, WriteKinds, Leftovers

-----------------------------------------------------------------------------
(* Writes in progress that carry data. *)

DataAt(q) == {i \in DOMAIN q : q[i] = "data"}

\* They are finitely many.
LEMMA DataFinite ==
    ASSUME NEW q \in Seq(WriteKinds)
    PROVE  /\ IsFiniteSet(DataAt(q)) /\ DataAt(q) \in SUBSET (1 .. Len(q))
           /\ DataWrites(q) = Cardinality(DataAt(q)) /\ DataWrites(q) \in Nat
  <1>1. DataAt(q) \in SUBSET (1 .. Len(q)) /\ Len(q) \in Nat /\ 1 \in Int
    BY DEF DataAt
  <1>2. IsFiniteSet(1 .. Len(q))
    BY <1>1, FS_Interval
  <1>3. IsFiniteSet(DataAt(q))
    BY <1>1, <1>2, FS_Subset
  <1>4. DataWrites(q) = Cardinality(DataAt(q))
    BY DEF DataWrites, DataAt
  <1> QED BY <1>1, <1>3, <1>4, FS_CardinalityType

\* Without writes, and after the first flight.
LEMMA DataNone ==
    /\ DataWrites(<<>>) = 0 /\ DataWrites(<<"handshake">>) = 0
    /\ <<>> \in Seq(WriteKinds) /\ <<"handshake">> \in Seq(WriteKinds)
  <1>1. DataAt(<<>>) = {} /\ DataAt(<<"handshake">>) = {}
    BY DEF DataAt
  <1>2. <<>> \in Seq(WriteKinds) /\ <<"handshake">> \in Seq(WriteKinds)
    BY DEF WriteKinds
  <1> QED BY <1>1, <1>2, FS_EmptySet, DataFinite

\* Another kind of write.
LEMMA DataOther ==
    ASSUME NEW q \in Seq(WriteKinds), NEW x \in {"handshake", "notify"}
    PROVE  /\ Append(q, x) \in Seq(WriteKinds) /\ DataWrites(Append(q, x)) = DataWrites(q)
           /\ \A i \in DOMAIN q : Append(q, x)[i] = q[i]
           /\ Len(q) + 1 \in DOMAIN Append(q, x) /\ Append(q, x)[Len(q) + 1] = x
           /\ DOMAIN q \subseteq DOMAIN Append(q, x)
           /\ \A i \in DOMAIN Append(q, x) : i \in DOMAIN q \/ Append(q, x)[i] = x
  <1>1. Append(q, x) \in Seq(WriteKinds)
    BY DEF WriteKinds
  <1>2. DataAt(Append(q, x)) = DataAt(q)
    BY DEF DataAt
  <1>3. DataWrites(Append(q, x)) = DataWrites(q)
    BY <1>1, <1>2, DataFinite
  <1> QED BY <1>1, <1>3

Sent(items) == [i \in DOMAIN items |-> "data"]

\* Writes of data.
LEMMA DataMore ==
    ASSUME NEW q \in Seq(WriteKinds), NEW items \in Seq(Items)
    PROVE  /\ q \o Sent(items) \in Seq(WriteKinds)
           /\ DataWrites(q \o Sent(items)) = DataWrites(q) + Len(items)
           /\ \A i \in DOMAIN (q \o Sent(items)) :
                 (q \o Sent(items))[i] = "data" \/ (i \in DOMAIN q /\ (q \o Sent(items))[i] = q[i])
           /\ DOMAIN q \subseteq DOMAIN (q \o Sent(items))
           /\ \A i \in DOMAIN q : (q \o Sent(items))[i] = q[i]
           /\ (items = <<>> => q \o Sent(items) = q)
  <1> DEFINE s == Sent(items)
             n == Len(q)
             k == Len(items)
             p == q \o s
             T == (n + 1) .. (n + k)
  <1>1. n \in Nat /\ k \in Nat /\ s \in Seq(WriteKinds) /\ Len(s) = k
        /\ \A i \in 1 .. k : s[i] = "data"
    BY DEF Sent, WriteKinds
  <1>2. /\ p \in Seq(WriteKinds) /\ Len(p) = n + k
        /\ \A i \in 1 .. n : p[i] = q[i]
        /\ \A i \in T : p[i] = "data"
    <2>1. p \in Seq(WriteKinds) /\ Len(p) = n + k /\ \A i \in 1 .. n : p[i] = q[i]
      BY <1>1
    <2>2. ASSUME NEW i \in T
          PROVE  p[i] = "data"
      <3>1. i - n \in 1 .. k /\ i \in 1 .. n + k /\ i > n
        BY <1>1
      <3>2. p[i] = s[i - n]
        BY <1>1, <3>1
      <3> QED BY <1>1, <3>1, <3>2
    <2> QED BY <2>1, <2>2
  <1> HIDE DEF s, p
  <1>3. DataAt(p) = DataAt(q) \cup T /\ DataAt(q) \cap T = {}
    BY <1>1, <1>2 DEF DataAt
  <1>4. IsFiniteSet(T) /\ Cardinality(T) = k
    <2> DEFINE a == n + 1
               b == n + k
    <2>1. a \in Int /\ b \in Int
      BY <1>1
    <2>2. IsFiniteSet(a .. b) /\ Cardinality(a .. b) = IF a > b THEN 0 ELSE b - a + 1
      <3> HIDE DEF a, b
      <3> QED BY <2>1, FS_Interval
    <2> QED BY <1>1, <2>2
  <1>5. Cardinality(DataAt(p)) = Cardinality(DataAt(q)) + k
    <2> HIDE DEF T
    <2>1. IsFiniteSet(DataAt(q)) /\ Cardinality(DataAt(q)) \in Nat
      BY DataFinite
    <2>2. Cardinality(DataAt(q) \cup T)
            = Cardinality(DataAt(q)) + Cardinality(T) - Cardinality(DataAt(q) \cap T)
      BY <2>1, <1>4, FS_Union
    <2>3. Cardinality(DataAt(q) \cap T) = 0
      BY <1>3, FS_EmptySet
    <2> QED BY <1>1, <1>3, <1>4, <2>1, <2>2, <2>3
  <1>6. DataWrites(p) = DataWrites(q) + k
    BY <1>2, <1>5, DataFinite
  <1>7. \A i \in DOMAIN p : p[i] = "data" \/ (i \in DOMAIN q /\ p[i] = q[i])
    <2> TAKE i \in DOMAIN p
    <2>1. i \in 1 .. n + k /\ DOMAIN q = 1 .. n
      BY <1>1, <1>2
    <2>2. i \in 1 .. n \/ i \in T
      BY <1>1, <2>1
    <2> QED BY <1>2, <2>1, <2>2
  <1>8. DOMAIN q \subseteq DOMAIN p /\ \A i \in DOMAIN q : p[i] = q[i]
    BY <1>1, <1>2
  <1>9. items = <<>> => p = q
    BY <1>1, <1>2 DEF p
  <1> QED BY <1>2, <1>6, <1>7, <1>8, <1>9 DEF p, s

\* The first write is over.
LEMMA DataTail ==
    ASSUME NEW q \in Seq(WriteKinds), q # <<>>
    PROVE  /\ Tail(q) \in Seq(WriteKinds)
           /\ DataWrites(q) = DataWrites(Tail(q)) + One(Head(q) = "data")
           /\ \A i \in DOMAIN Tail(q) : i + 1 \in DOMAIN q /\ Tail(q)[i] = q[i + 1]
           /\ \A i \in DOMAIN q : q[i] = Head(q) \/ \E j \in DOMAIN Tail(q) : Tail(q)[j] = q[i]
           /\ Head(q) \in WriteKinds
  <1> DEFINE p == Tail(q)
             S == DataAt(p)
             T == DataAt(q) \ {1}
             f == [i \in S |-> i + 1]
  <1>1. /\ p \in Seq(WriteKinds) /\ Len(p) = Len(q) - 1 /\ Len(q) \in Nat /\ Len(q) >= 1
        /\ \A i \in 1 .. Len(p) : p[i] = q[i + 1]
        /\ Head(q) = q[1]
    OBVIOUS
  <1>2. \A i \in S : i \in 1 .. Len(p) /\ p[i] = "data" /\ i + 1 \in T
    BY <1>1 DEF DataAt
  <1>3. \A j \in T : j - 1 \in S /\ j \in Int
    BY <1>1 DEF DataAt
  <1> HIDE DEF p, S, T
  <1>4. f \in Bijection(S, T)
    <2>1. f \in [S -> T]
      BY <1>2
    <2>2. \A a, b \in S : f[a] = f[b] => a = b
      BY <1>2
    <2>3. \A j \in T : \E a \in S : f[a] = j
      <3> TAKE j \in T
      <3>1. j - 1 \in S /\ f[j - 1] = j
        BY <1>3
      <3> QED BY <3>1
    <2> HIDE DEF f
    <2> QED BY <2>1, <2>2, <2>3 DEF Bijection, Injection, Surjection, IsInjective
  <1>5. IsFiniteSet(S) /\ Cardinality(T) = Cardinality(S) /\ Cardinality(S) = DataWrites(p)
        /\ Cardinality(S) \in Nat
    <2>1. IsFiniteSet(S) /\ Cardinality(S) = DataWrites(p) /\ Cardinality(S) \in Nat
      BY <1>1, DataFinite DEF S
    <2>2. ExistsBijection(S, T)
      BY <1>4 DEF ExistsBijection
    <2> QED BY <2>1, <2>2, FS_Bijection
  <1>6. /\ Cardinality(T) = IF 1 \in DataAt(q) THEN Cardinality(DataAt(q)) - 1
                            ELSE Cardinality(DataAt(q))
        /\ Cardinality(DataAt(q)) = DataWrites(q) /\ DataWrites(q) \in Nat
    BY DataFinite, FS_RemoveElement DEF T
  <1>7. 1 \in DataAt(q) <=> Head(q) = "data"
    BY <1>1 DEF DataAt
  <1>8. DataWrites(q) = DataWrites(p) + One(Head(q) = "data")
    BY <1>5, <1>6, <1>7 DEF One
  <1>9. \A i \in DOMAIN p : i + 1 \in DOMAIN q /\ p[i] = q[i + 1]
    BY <1>1
  <1>10. \A i \in DOMAIN q : q[i] = Head(q) \/ \E j \in DOMAIN p : p[j] = q[i]
    <2> TAKE i \in DOMAIN q
    <2>1. CASE i = 1
      BY <1>1, <2>1
    <2>2. CASE i # 1
      <3>1. i - 1 \in DOMAIN p /\ p[i - 1] = q[i]
        BY <1>1, <2>2
      <3> QED BY <3>1
    <2> QED BY <2>1, <2>2
  <1>11. Head(q) \in WriteKinds
    BY <1>1
  <1> QED BY <1>1, <1>8, <1>9, <1>10, <1>11 DEF p

-----------------------------------------------------------------------------
(* Reference counts. *)

\* n differs from m in the counts alone.
SameConn(m, n) ==
    /\ n \in Connection /\ n.ctx = m.ctx /\ n.connect_cb = m.connect_cb
    /\ n.on_shutting_down = m.on_shutting_down /\ n.dns = m.dns /\ n.sock = m.sock
    /\ n.close_cb = m.close_cb /\ n.connecting = m.connecting /\ n.timer = m.timer
    /\ n.reading = m.reading /\ n.writable = m.writable /\ n.writes = m.writes
    /\ n.shutting = m.shutting /\ n.handshake = m.handshake /\ n.left = m.left

\* uv_mbed_release.
LEMMA MbedReleased ==
    ASSUME NEW m \in Connection, m.mref # 0, NEW n, n = uv_mbed_release(m)
    PROVE  /\ SameConn(m, n) /\ n.cref = m.cref /\ n.cfreed = m.cfreed
           /\ n.ref = m.ref /\ n.freed = m.freed
           /\ n.mref = m.mref - 1 /\ (n.mfreed <=> m.mfreed \/ m.mref = 1)
  <1> DEFINE r == m.mref - 1
             f == m.mfreed \/ m.mref <= 1
  <1>1. r \in Nat /\ f \in BOOLEAN /\ m.mref \in Nat
    BY ConnFields
  <1>0. r = m.mref - 1 /\ (f <=> m.mfreed \/ m.mref = 1)
    BY <1>1
  <1>2. n = MrefTo(m, r, f)
    BY DEF uv_mbed_release, MrefTo
  <1>3. n.mref = r /\ n.mfreed = f /\ SameConn(m, n) /\ n.cref = m.cref
        /\ n.cfreed = m.cfreed /\ n.ref = m.ref /\ n.freed = m.freed
    <2> HIDE DEF r, f
    <2> QED BY <1>1, <1>2, ConnMrefTo DEF SameConn
  <1> HIDE DEF r, f
  <1> QED BY <1>0, <1>1, <1>3

\* tls_cli_ctx_release.
LEMMA CliReleased ==
    ASSUME NEW m \in Connection, m.ref # 0, m.ref = 1 => m.mref # 0,
           NEW n, n = tls_cli_ctx_release(m)
    PROVE  /\ SameConn(m, n) /\ n.cref = m.cref /\ n.cfreed = m.cfreed
           /\ n.ref = m.ref - 1 /\ (n.freed <=> m.freed \/ m.ref = 1)
           /\ m.ref # 1 => n.mref = m.mref /\ n.mfreed = m.mfreed
           /\ m.ref = 1 => n.mref = m.mref - 1 /\ (n.mfreed <=> m.mfreed \/ m.mref = 1)
  <1> DEFINE r == m.ref - 1
             f == m.freed \/ m.ref <= 1
             a == RefTo(m, r, f)
  <1>1. r \in Nat /\ f \in BOOLEAN /\ m.ref \in Nat
    BY ConnFields
  <1>0. r = m.ref - 1 /\ (f <=> m.freed \/ m.ref = 1)
    BY <1>1
  <1>2. n = IF m.ref <= 1 THEN uv_mbed_release(a) ELSE a
    BY DEF tls_cli_ctx_release, RefTo
  <1>3. a.ref = r /\ a.freed = f /\ SameConn(m, a) /\ a.cref = m.cref
        /\ a.cfreed = m.cfreed /\ a.mref = m.mref /\ a.mfreed = m.mfreed
    <2> HIDE DEF r, f
    <2> QED BY <1>1, ConnRefTo DEF SameConn
  <1> HIDE DEF a, r, f
  <1>4. a \in Connection
    BY <1>3 DEF SameConn
  <1>5. CASE m.ref = 1
    <2>1. n = uv_mbed_release(a) /\ a.mref # 0
      BY <1>2, <1>3, <1>5
    <2>2. /\ SameConn(a, n) /\ n.cref = a.cref /\ n.cfreed = a.cfreed
          /\ n.ref = a.ref /\ n.freed = a.freed
          /\ n.mref = a.mref - 1 /\ (n.mfreed <=> a.mfreed \/ a.mref = 1)
      BY <1>4, <2>1, MbedReleased
    <2>3. SameConn(m, n)
      BY <1>3, <2>2 DEF SameConn
    <2> QED BY <1>0, <1>1, <1>3, <1>5, <2>2, <2>3
  <1>6. CASE m.ref # 1
    BY <1>0, <1>1, <1>2, <1>3, <1>6
  <1> QED BY <1>5, <1>6

\* client_ctx_release, of a connection that client_ctx holds.
LEMMA CtxReleased ==
    ASSUME NEW m \in Connection, m.cref # 0,
           m.cref = 1 /\ m.ctx => m.ref # 0 /\ (m.ref = 1 => m.mref # 0),
           NEW n, n = client_ctx_release(m)
    PROVE  /\ SameConn(m, n)
           /\ n.cref = m.cref - 1 /\ (n.cfreed <=> m.cfreed \/ m.cref = 1)
           /\ m.cref # 1 \/ ~m.ctx => /\ n.ref = m.ref /\ n.freed = m.freed
                                      /\ n.mref = m.mref /\ n.mfreed = m.mfreed
           /\ m.cref = 1 /\ m.ctx =>
                 /\ n.ref = m.ref - 1 /\ (n.freed <=> m.freed \/ m.ref = 1)
                 /\ m.ref # 1 => n.mref = m.mref /\ n.mfreed = m.mfreed
                 /\ m.ref = 1 => n.mref = m.mref - 1 /\ (n.mfreed <=> m.mfreed \/ m.mref = 1)
  <1> DEFINE r == m.cref - 1
             f == m.cfreed \/ m.cref <= 1
             a == CrefTo(m, r, f)
  <1>1. r \in Nat /\ f \in BOOLEAN /\ m.cref \in Nat
    BY ConnFields
  <1>0. r = m.cref - 1 /\ (f <=> m.cfreed \/ m.cref = 1)
    BY <1>1
  <1>2. n = IF m.cref <= 1 /\ m.ctx THEN tls_cli_ctx_release(a) ELSE a
    BY DEF client_ctx_release, CrefTo
  <1>3. a.cref = r /\ a.cfreed = f /\ SameConn(m, a) /\ a.ref = m.ref
        /\ a.freed = m.freed /\ a.mref = m.mref /\ a.mfreed = m.mfreed
    <2> HIDE DEF r, f
    <2> QED BY <1>1, ConnCrefTo DEF SameConn
  <1> HIDE DEF a, r, f
  <1>4. a \in Connection
    BY <1>3 DEF SameConn
  <1>5. CASE m.cref = 1 /\ m.ctx
    <2>1. n = tls_cli_ctx_release(a) /\ a.ref # 0 /\ (a.ref = 1 => a.mref # 0)
      BY <1>2, <1>3, <1>5
    <2>2. /\ SameConn(a, n) /\ n.cref = a.cref /\ n.cfreed = a.cfreed
          /\ n.ref = a.ref - 1 /\ (n.freed <=> a.freed \/ a.ref = 1)
          /\ a.ref # 1 => n.mref = a.mref /\ n.mfreed = a.mfreed
          /\ a.ref = 1 => n.mref = a.mref - 1 /\ (n.mfreed <=> a.mfreed \/ a.mref = 1)
      BY <1>4, <2>1, CliReleased
    <2>3. SameConn(m, n)
      BY <1>3, <2>2 DEF SameConn
    <2> QED BY <1>0, <1>1, <1>3, <1>5, <2>2, <2>3
  <1>6. CASE ~(m.cref = 1 /\ m.ctx)
    BY <1>0, <1>1, <1>2, <1>3, <1>6
  <1> QED BY <1>5, <1>6

\* The counts spelled out, for a connection with d data writes.
LEMMA CountsOf ==
    ASSUME NEW m \in Connection, NEW gone \in BOOLEAN, NEW held \in BOOLEAN,
           NEW x \in Nat, NEW y \in Nat, Counts(m, gone, held, x, y)
    PROVE  /\ DataWrites(m.writes) \in Nat
           /\ m.cref = One(~gone) + One(m.on_shutting_down /\ held)
           /\ m.cfreed <=> m.cref = 0
           /\ m.ref = One(~m.cfreed) + One(m.connect_cb) + One(m.on_shutting_down /\ held)
                      + DataWrites(m.writes) + x
           /\ m.freed <=> m.ref = 0
           /\ m.mref = One(~m.freed) + One(m.sock = "closing") + One(m.timer = "closing") + y
           /\ m.mfreed <=> m.mref = 0
  <1>1. DataWrites(m.writes) \in Nat
    BY ConnFields, DataFinite
  <1> QED BY <1>1 DEF Counts

\* A reference to uv_mbed_t is returned.
LEMMA CountsMbed ==
    ASSUME NEW m \in Connection, NEW gone \in BOOLEAN, NEW held \in BOOLEAN,
           NEW x \in Nat, NEW y \in Nat, y # 0, Counts(m, gone, held, x, y),
           NEW n, n = uv_mbed_release(m)
    PROVE  SameConn(m, n) /\ Counts(n, gone, held, x, y - 1)
  <1> DEFINE d == DataWrites(m.writes)
  <1>1. /\ d \in Nat /\ m.cref = One(~gone) + One(m.on_shutting_down /\ held)
        /\ m.cfreed <=> m.cref = 0
        /\ m.ref = One(~m.cfreed) + One(m.connect_cb) + One(m.on_shutting_down /\ held) + d + x
        /\ m.freed <=> m.ref = 0
        /\ m.mref = One(~m.freed) + One(m.sock = "closing") + One(m.timer = "closing") + y
        /\ m.mfreed <=> m.mref = 0
    BY CountsOf
  <1>2. m.mref # 0
    BY <1>1 DEF One
  <1>3. /\ SameConn(m, n) /\ n.cref = m.cref /\ n.cfreed = m.cfreed
        /\ n.ref = m.ref /\ n.freed = m.freed
        /\ n.mref = m.mref - 1 /\ (n.mfreed <=> m.mfreed \/ m.mref = 1)
    BY <1>2, MbedReleased
  <1>4. DataWrites(n.writes) = d
    BY <1>3 DEF SameConn
  <1> HIDE DEF d
  <1> QED BY <1>1, <1>3, <1>4 DEF Counts, SameConn, One

\* A reference to tls_cli_ctx is returned.
LEMMA CountsCli ==
    ASSUME NEW m \in Connection, NEW gone \in BOOLEAN, NEW held \in BOOLEAN,
           NEW x \in Nat, NEW y \in Nat, x # 0, Counts(m, gone, held, x, y),
           NEW n, n = tls_cli_ctx_release(m)
    PROVE  SameConn(m, n) /\ Counts(n, gone, held, x - 1, y)
  <1> DEFINE d == DataWrites(m.writes)
  <1>1. /\ d \in Nat /\ m.cref = One(~gone) + One(m.on_shutting_down /\ held)
        /\ m.cfreed <=> m.cref = 0
        /\ m.ref = One(~m.cfreed) + One(m.connect_cb) + One(m.on_shutting_down /\ held) + d + x
        /\ m.freed <=> m.ref = 0
        /\ m.mref = One(~m.freed) + One(m.sock = "closing") + One(m.timer = "closing") + y
        /\ m.mfreed <=> m.mref = 0
    BY CountsOf
  <1>2. m.ref # 0 /\ m.mref # 0
    BY <1>1 DEF One
  <1>3. /\ SameConn(m, n) /\ n.cref = m.cref /\ n.cfreed = m.cfreed
        /\ n.ref = m.ref - 1 /\ (n.freed <=> m.freed \/ m.ref = 1)
        /\ m.ref # 1 => n.mref = m.mref /\ n.mfreed = m.mfreed
        /\ m.ref = 1 => n.mref = m.mref - 1 /\ (n.mfreed <=> m.mfreed \/ m.mref = 1)
    BY <1>2, CliReleased
  <1>4. DataWrites(n.writes) = d
    BY <1>3 DEF SameConn
  <1> HIDE DEF d
  <1> QED BY <1>1, <1>3, <1>4 DEF Counts, SameConn, One

\* client_ctx returns the reference of the close.  That of the close to
\* tls_cli_ctx is still there.
LEMMA CountsReported ==
    ASSUME NEW m \in Connection, m.on_shutting_down,
           NEW x \in Nat, NEW y \in Nat, Counts(m, FALSE, TRUE, x, y),
           NEW n, n = client_ctx_release(m)
    PROVE  SameConn(m, n) /\ Counts(n, FALSE, FALSE, x + 1, y)
  <1> DEFINE d == DataWrites(m.writes)
             no == FALSE
             yes == TRUE
  <1>1. /\ d \in Nat /\ m.cref = One(~no) + One(m.on_shutting_down /\ yes)
        /\ m.cfreed <=> m.cref = 0
        /\ m.ref = One(~m.cfreed) + One(m.connect_cb) + One(m.on_shutting_down /\ yes) + d + x
        /\ m.freed <=> m.ref = 0
        /\ m.mref = One(~m.freed) + One(m.sock = "closing") + One(m.timer = "closing") + y
        /\ m.mfreed <=> m.mref = 0
    BY CountsOf
  <1>2. m.cref = 2
    BY <1>1 DEF One
  <1>3. /\ SameConn(m, n)
        /\ n.cref = m.cref - 1 /\ (n.cfreed <=> m.cfreed \/ m.cref = 1)
        /\ n.ref = m.ref /\ n.freed = m.freed /\ n.mref = m.mref /\ n.mfreed = m.mfreed
    BY <1>2, CtxReleased
  <1>4. DataWrites(n.writes) = d
    BY <1>3 DEF SameConn
  <1> HIDE DEF d
  <1> QED BY <1>1, <1>2, <1>3, <1>4 DEF Counts, SameConn, One

\* The tunnel is destroyed, and returns its reference to client_ctx.
LEMMA CountsGone ==
    ASSUME NEW m \in Connection, m.ctx, NEW x \in Nat, NEW y \in Nat,
           Counts(m, FALSE, FALSE, x, y), NEW n, n = client_ctx_release(m)
    PROVE  SameConn(m, n) /\ Counts(n, TRUE, FALSE, x, y)
  <1> DEFINE d == DataWrites(m.writes)
             no == FALSE
  <1>1. /\ d \in Nat /\ m.cref = One(~no) + One(m.on_shutting_down /\ no)
        /\ m.cfreed <=> m.cref = 0
        /\ m.ref = One(~m.cfreed) + One(m.connect_cb) + One(m.on_shutting_down /\ no) + d + x
        /\ m.freed <=> m.ref = 0
        /\ m.mref = One(~m.freed) + One(m.sock = "closing") + One(m.timer = "closing") + y
        /\ m.mfreed <=> m.mref = 0
    BY CountsOf
  <1>2. m.cref = 1 /\ m.ref # 0 /\ m.mref # 0
    BY <1>1 DEF One
  <1>3. /\ SameConn(m, n)
        /\ n.cref = m.cref - 1 /\ (n.cfreed <=> m.cfreed \/ m.cref = 1)
        /\ n.ref = m.ref - 1 /\ (n.freed <=> m.freed \/ m.ref = 1)
        /\ m.ref # 1 => n.mref = m.mref /\ n.mfreed = m.mfreed
        /\ m.ref = 1 => n.mref = m.mref - 1 /\ (n.mfreed <=> m.mfreed \/ m.mref = 1)
    BY <1>2, CtxReleased
  <1>4. DataWrites(n.writes) = d
    BY <1>3 DEF SameConn
  <1> HIDE DEF d
  <1> QED BY <1>1, <1>2, <1>3, <1>4 DEF Counts, SameConn, One

\* The same for a tunnel without a connection.
LEMMA LostGone ==
    ASSUME NEW m, Lost(m, FALSE), NEW n, n = client_ctx_release(m)
    PROVE  Lost(n, TRUE)
  <1>1. m \in Connection /\ ~m.ctx /\ m.cref = 1 /\ ~m.cfreed
    BY DEF Lost, One
  <1>2. /\ SameConn(m, n)
        /\ n.cref = m.cref - 1 /\ (n.cfreed <=> m.cfreed \/ m.cref = 1)
        /\ n.ref = m.ref /\ n.freed = m.freed /\ n.mref = m.mref /\ n.mfreed = m.mfreed
    BY <1>1, CtxReleased
  <1> QED BY <1>1, <1>2 DEF Lost, SameConn, One

-----------------------------------------------------------------------------
(* Calls on a live tunnel. *)

\* The core of a live tunnel.
LEMMA AliveFacts ==
    ASSUME NEW i, NEW o, NEW st, NEW h \in BOOLEAN, NEW c, c = Alive(i, o, st, h)
    PROVE  /\ IsCore(c) /\ c.sock = Pair(i, o) /\ c.ref = 1 + One(h)
           /\ ~c.is_terminated /\ ~c.freed /\ c.stage = st /\ c.held = h /\ c.bad = {}
           /\ c.sock["incoming"] = i /\ c.sock["outgoing"] = o
  <1> DEFINE x == Pair(i, o)
             n == 1 + One(h)
             no == FALSE
             b == {}
  <1>1. no = FALSE /\ b = {} /\ c = Core(x, n, no, no, st, h, b)
    BY DEF Alive
  <1>2. x["incoming"] = i /\ x["outgoing"] = o
    BY PairFacts
  <1> HIDE DEF x, n, no, b
  <1>3. /\ c.sock = x /\ c.ref = n /\ c.is_terminated = no /\ c.freed = no
        /\ c.stage = st /\ c.held = h /\ c.bad = b /\ IsCore(c)
    BY <1>1, CoreFields
  <1>4. c.sock = x /\ c.ref = n /\ ~c.is_terminated /\ ~c.freed /\ c.stage = st /\ c.held = h
        /\ c.bad = {} /\ IsCore(c)
    BY <1>1, <1>3
  <1> QED BY <1>2, <1>4 DEF x, n

\* The fields of a live tunnel.
LEMMA LiveFields ==
    ASSUME NEW i, NEW o, NEW st, NEW h \in BOOLEAN, NEW e, NEW m,
           NEW u, u = Live(i, o, st, h, e, m)
    PROVE  /\ u.sock = Pair(i, o) /\ u.sock["incoming"] = i /\ u.sock["outgoing"] = o
           /\ ~u.is_terminated /\ ~u.freed /\ u.stage = st /\ u.held = h /\ u.bad = {}
           /\ u.data = Data(e, m) /\ Tls(u) = m /\ u.data.tls = m
  <1> DEFINE c == Alive(i, o, st, h)
  <1>1. u = State(c, e, m)
    BY DEF Live
  <1>2. /\ c.sock = Pair(i, o) /\ ~c.is_terminated /\ ~c.freed /\ c.stage = st
        /\ c.held = h /\ c.bad = {} /\ c.sock["incoming"] = i /\ c.sock["outgoing"] = o
    BY AliveFacts
  <1> HIDE DEF c
  <1>3. /\ u.sock = c.sock /\ u.is_terminated = c.is_terminated /\ u.freed = c.freed
        /\ u.stage = c.stage /\ u.held = c.held /\ u.bad = c.bad
        /\ u.data = Data(e, m) /\ Tls(u) = m /\ u.data.tls = m
    BY <1>1, StateFields
  <1> QED BY <1>2, <1>3

\* The parts of client_ctx in a live tunnel.
LEMMA LiveExtra ==
    ASSUME NEW i, NEW o, NEW st, NEW h, NEW e, NEW m,
           NEW u, u = Live(i, o, st, h, e, m)
    PROVE  /\ u.data.shortcut = e.shortcut /\ u.data.first = e.first
           /\ u.data.app = e.app /\ u.data.sent = e.sent /\ u.data.bad = e.bad
           /\ u.data.udp = e.udp /\ u.data.deque = e.deque /\ u.data.half = e.half
           /\ u.data.eof = e.eof /\ u.data.got = e.got
  <1> DEFINE c == Alive(i, o, st, h)
  <1>1. u = State(c, e, m)
    BY DEF Live
  <1> HIDE DEF c
  <1> QED BY <1>1, StateFields

\* Assignments to client_ctx.
LEMMA LiveData ==
    ASSUME NEW i, NEW o, NEW st, NEW h \in BOOLEAN, NEW e \in Extra, NEW m, NEW y
    PROVE  LET u == Live(i, o, st, h, e, m)
           IN  /\ WithTls(u, y) = Live(i, o, st, h, e, y)
               /\ WithShortcut(u, y) = Live(i, o, st, h, ShortcutTo(e, y), m)
               /\ WithFirst(u, y) = Live(i, o, st, h, FirstTo(e, y), m)
               /\ WithApp(u, y) = Live(i, o, st, h, AppTo(e, y), m)
               /\ WithSent(u, y) = Live(i, o, st, h, SentTo(e, y), m)
               /\ WithDeque(u, y) = Live(i, o, st, h, DequeTo(e, y), m)
               /\ WithHalf(u, y) = Live(i, o, st, h, HalfTo(e, y), m)
               /\ WithEof(u, y) = Live(i, o, st, h, EofTo(e, y), m)
               /\ WithGot(u, y) = Live(i, o, st, h, GotTo(e, y), m)
  <1> DEFINE c == Alive(i, o, st, h)
  <1>1. IsCore(c)
    BY AliveFacts
  <1>2. \A a, b : Live(i, o, st, h, a, b) = State(c, a, b)
    BY DEF Live
  <1> HIDE DEF c
  <1> QED BY <1>1, <1>2, StateTls, StateShortcut, StateFirst, StateApp, StateSent,
             StateDeque, StateHalf, StateEof, StateGot

\* Put.
LEMMA LivePut ==
    ASSUME NEW i, NEW o, NEW st, NEW h \in BOOLEAN, NEW e, NEW m, NEW k
    PROVE  Put(Live(i, o, st, h, e, m), "incoming", k) = Live(k, o, st, h, e, m)
  <1> DEFINE c == Alive(i, o, st, h)
             n == 1 + One(h)
             no == FALSE
             b == {}
             x == Pair(i, o)
             in == "incoming"
             d == Data(e, m)
  <1>1. IsCore(c) /\ c.sock = x /\ c = Core(x, n, no, no, st, h, b)
    <2>1. c = Core(x, n, no, no, st, h, b)
      BY DEF Alive
    <2>2. IsCore(c) /\ c.sock = x
      BY AliveFacts
    <2> QED BY <2>1, <2>2
  <1>2. Put(c, in, k) = [c EXCEPT !.sock = Pair(k, o)]
    <2>1. [x EXCEPT ![in] = k] = Pair(k, o)
      BY PairFacts
    <2> HIDE DEF c, x
    <2> QED BY <1>1, <2>1 DEF Put
  <1>3. Alive(k, o, st, h) = Core(Pair(k, o), n, no, no, st, h, b)
    BY DEF Alive
  <1> HIDE DEF c, n, no, b, x, in, d
  <1>4. [c EXCEPT !.sock = Pair(k, o)] = Core(Pair(k, o), n, no, no, st, h, b)
    <2> DEFINE z == Pair(k, o)
    <2> HIDE DEF z
    <2>1. [c EXCEPT !.sock = z] \in CoreSet(z, n, no, no, st, h, b)
      BY <1>1 DEF Core, CoreSet
    <2>2. [c EXCEPT !.sock = z] = Core(z, n, no, no, st, h, b)
      BY <2>1, CoreEq
    <2> QED BY <2>2 DEF z
  <1>5. Put(Whole(c, d), in, k) = Whole(Put(c, in, k), d)
    BY <1>1, WholePut
  <1>6. Put(Whole(c, d), in, k) = Whole(Alive(k, o, st, h), d)
    BY <1>2, <1>3, <1>4, <1>5
  <1> QED BY <1>6 DEF Live, State, c, in, d

\* A change of the stage.
LEMMA LiveGoTo ==
    ASSUME NEW i, NEW o, NEW st, NEW h \in BOOLEAN, NEW e, NEW m, NEW y
    PROVE  GoTo(Live(i, o, st, h, e, m), y) = Live(i, o, y, h, e, m)
  <1> DEFINE c == Alive(i, o, st, h)
             n == 1 + One(h)
             term == FALSE
             gone == FALSE
             b == {}
             x == Pair(i, o)
             d == Data(e, m)
  <1>1. IsCore(c) /\ c = Core(x, n, term, gone, st, h, b)
    <2>1. IsCore(c)
      BY AliveFacts
    <2>2. c = Core(x, n, term, gone, st, h, b)
      BY DEF Alive
    <2> QED BY <2>1, <2>2
  <1>2. Alive(i, o, y, h) = Core(x, n, term, gone, y, h, b)
    BY DEF Alive
  <1>3. GoTo(Live(i, o, st, h, e, m), y) = SetStage(Whole(c, d), y)
    BY DEF GoTo, Live, State, SetStage
  <1> HIDE DEF c, n, term, gone, b, x, d
  <1>4. SetStage(c, y) = Core(x, n, term, gone, y, h, b)
    <2>1. [c EXCEPT !.stage = y] \in CoreSet(x, n, term, gone, y, h, b)
      BY <1>1 DEF Core, CoreSet
    <2> QED BY <2>1, CoreEq DEF SetStage
  <1>5. SetStage(Whole(c, d), y) = Whole(SetStage(c, y), d)
    BY <1>1, WholeUpdate
  <1> QED BY <1>2, <1>3, <1>4, <1>5 DEF Live, State, c, d

\* The connection takes a reference to the tunnel.
LEMMA LiveHold ==
    ASSUME NEW i, NEW o, NEW st, NEW e, NEW m
    PROVE  Hold(Live(i, o, st, FALSE, e, m)) = Live(i, o, st, TRUE, e, m)
  <1> DEFINE no == FALSE
             yes == TRUE
             c == Alive(i, o, st, no)
             w == Alive(i, o, st, yes)
             d == Data(e, m)
             u == Whole(c, d)
             y == c.ref + 1
             v == [u EXCEPT !.ref = y, !.held = yes]
  <1>0. no \in BOOLEAN /\ yes \in BOOLEAN /\ One(no) = 0 /\ One(yes) = 1
    BY DEF One
  <1>1. /\ IsCore(c) /\ c.sock = Pair(i, o) /\ c.ref = 1 + One(no)
        /\ ~c.is_terminated /\ ~c.freed /\ c.stage = st /\ c.bad = {}
    <2> HIDE DEF no
    <2> QED BY <1>0, AliveFacts
  <1>2. /\ w.sock = Pair(i, o) /\ w.ref = 1 + One(yes) /\ w.held = yes
        /\ ~w.is_terminated /\ ~w.freed /\ w.stage = st /\ w.bad = {}
    <2> HIDE DEF yes
    <2> QED BY <1>0, AliveFacts
  <1>3. c.is_terminated = FALSE /\ c.freed = FALSE /\ w.is_terminated = FALSE /\ w.freed = FALSE
    BY DEF Alive, Core
  <1>4. y = w.ref
    <2> HIDE DEF c, w, no, yes
    <2> QED BY <1>0, <1>1, <1>2
  <1> HIDE DEF c, w
  <1>5. Hold(u) = v
    <2>1. u.ref = c.ref
      BY DEF Whole
    <2>2. tunnel_ctx_add_ref(u) = [u EXCEPT !.ref = y]
      <3> HIDE DEF u
      <3> QED BY <2>1 DEF tunnel_ctx_add_ref
    <2>3. Hold(u) = [[u EXCEPT !.ref = y] EXCEPT !.held = yes]
      BY <2>2 DEF Hold
    <2>4. u \in WholeSet(c, d)
      BY DEF Whole, WholeSet
    <2> HIDE DEF u, y, yes
    <2>5. [[u EXCEPT !.ref = y] EXCEPT !.held = yes] = v
      BY <2>4 DEF WholeSet
    <2> QED BY <2>3, <2>5
  <1>6. v \in WholeSet(w, d)
    <2> HIDE DEF y, yes
    <2> QED BY <1>1, <1>2, <1>3, <1>4 DEF Whole, WholeSet
  <1>7. v = Whole(w, d)
    <2> HIDE DEF v
    <2> QED BY <1>6, WholeEq
  <1> QED BY <1>5, <1>7 DEF Live, State, c, w

\* An assertion of client.c that holds changes nothing.
LEMMA ClientAssertTrue ==
    ASSUME NEW u, NEW p, p, NEW what
    PROVE  ClientAssert(u, p, what) = u
  BY DEF ClientAssert

\* Which stages stream.
LEMMA LiveStreams ==
    ASSUME NEW i, NEW o, NEW st, NEW h \in BOOLEAN, NEW e, NEW m
    PROVE  is_in_streaming(Live(i, o, st, h, e, m)) <=> st \in {"streaming", "tls_streaming"}
  <1> DEFINE u == Live(i, o, st, h, e, m)
  <1>1. u.stage = st
    BY LiveFields
  <1> HIDE DEF u
  <1> QED BY <1>1, TlsStagesAssumption DEF is_in_streaming, u

\* Read.
LEMMA LiveRead ==
    ASSUME NEW i, NEW o, NEW st, NEW h \in BOOLEAN, NEW e, NEW m, NEW b, CanRead(i)
    PROVE  Read(Live(i, o, st, h, e, m), "incoming", b)
             = Live(socket_ctx_read(i, b), o, st, h, e, m)
  <1> DEFINE u == Live(i, o, st, h, e, m)
  <1>1. u.sock["incoming"] = i
    BY LiveFields
  <1>2. Read(u, "incoming", b) = Put(u, "incoming", socket_ctx_read(i, b))
    <2> HIDE DEF u
    <2> QED BY <1>1, AssertTrue DEF Read
  <1> QED BY <1>2, LivePut

\* What a write adds to the history of client_ctx.
SaidIn(e, buf) == SentTo(e, [e.sent EXCEPT !["incoming"] = @ \o buf])
SaidOut(e, buf) == SentTo(e, [e.sent EXCEPT !["outgoing"] = @ \o buf])

\* Their fields.
LEMMA SaidFacts ==
    ASSUME NEW e \in Extra, NEW buf \in Seq(Items), NEW f, f \in {SaidIn(e, buf), SaidOut(e, buf)}
    PROVE  /\ f \in Extra /\ f.shortcut = e.shortcut /\ f.first = e.first
           /\ f.app = e.app /\ f.bad = e.bad /\ f.udp = e.udp /\ f.deque = e.deque
           /\ f.half = e.half /\ f.eof = e.eof /\ f.got = e.got
           /\ f = SaidIn(e, buf) => /\ f.sent["incoming"] = e.sent["incoming"] \o buf
                                    /\ f.sent["outgoing"] = e.sent["outgoing"]
           /\ f = SaidOut(e, buf) => /\ f.sent["outgoing"] = e.sent["outgoing"] \o buf
                                     /\ f.sent["incoming"] = e.sent["incoming"]
  <1> DEFINE a == [e.sent EXCEPT !["incoming"] = @ \o buf]
             b == [e.sent EXCEPT !["outgoing"] = @ \o buf]
  <1>1. e.sent \in [Side -> Seq(Items)]
    BY ExtraFields
  <1>2. /\ a \in [Side -> Seq(Items)] /\ a["incoming"] = e.sent["incoming"] \o buf
        /\ a["outgoing"] = e.sent["outgoing"]
    BY <1>1 DEF Side
  <1>3. /\ b \in [Side -> Seq(Items)] /\ b["outgoing"] = e.sent["outgoing"] \o buf
        /\ b["incoming"] = e.sent["incoming"]
    BY <1>1 DEF Side
  <1>4. SaidIn(e, buf) = SentTo(e, a) /\ SaidOut(e, buf) = SentTo(e, b)
    BY DEF SaidIn, SaidOut
  <1> HIDE DEF a, b
  <1>5. CASE f = SentTo(e, a)
    <2>1. /\ f \in Extra /\ f.shortcut = e.shortcut /\ f.first = e.first
          /\ f.app = e.app /\ f.bad = e.bad /\ f.udp = e.udp /\ f.deque = e.deque
          /\ f.half = e.half /\ f.eof = e.eof /\ f.got = e.got /\ f.sent = a
      BY <1>2, <1>5, ExtraSent
    <2>2. f = SentTo(e, b) => f.sent = b
      BY <1>3, ExtraSent
    <2> QED BY <1>2, <1>3, <1>4, <2>1, <2>2
  <1>6. CASE f = SentTo(e, b)
    <2>1. /\ f \in Extra /\ f.shortcut = e.shortcut /\ f.first = e.first
          /\ f.app = e.app /\ f.bad = e.bad /\ f.udp = e.udp /\ f.deque = e.deque
          /\ f.half = e.half /\ f.eof = e.eof /\ f.got = e.got /\ f.sent = b
      BY <1>3, <1>6, ExtraSent
    <2>2. f = SentTo(e, a) => f.sent = a
      BY <1>2, ExtraSent
    <2> QED BY <1>2, <1>3, <1>4, <2>1, <2>2
  <1> QED BY <1>4, <1>5, <1>6

\* Write.
LEMMA LiveWrite ==
    ASSUME NEW i, NEW o, NEW st, NEW h \in BOOLEAN, NEW e \in Extra, NEW m, NEW buf,
           CanWrite(i), st \in {"streaming", "tls_streaming"} \/ i.wrstate = "stop"
    PROVE  Write(Live(i, o, st, h, e, m), "incoming", buf)
             = Live(socket_ctx_write(i, buf), o, st, h, SaidIn(e, buf), m)
  <1> DEFINE u == Live(i, o, st, h, e, m)
             v == Live(socket_ctx_write(i, buf), o, st, h, e, m)
             y == [e.sent EXCEPT !["incoming"] = @ \o buf]
  <1>1. /\ u.sock["incoming"] = i
        /\ is_in_streaming(u) <=> st \in {"streaming", "tls_streaming"}
    <2>1. u.sock["incoming"] = i
      BY LiveFields
    <2>2. is_in_streaming(u) <=> st \in {"streaming", "tls_streaming"}
      BY LiveStreams
    <2> QED BY <2>1, <2>2
  <1>2. tunnel_socket_ctx_write(u, "incoming", buf) = Put(u, "incoming", socket_ctx_write(i, buf))
    <2> HIDE DEF u
    <2> QED BY <1>1, AssertTrue DEF tunnel_socket_ctx_write
  <1>3. Put(u, "incoming", socket_ctx_write(i, buf)) = v /\ v.data.sent = e.sent
    BY LivePut, LiveExtra
  <1>4. [v EXCEPT !.data.sent["incoming"] = @ \o buf] = WithSent(v, y)
    <2> HIDE DEF v
    <2> QED BY <1>3 DEF WithSent
  <1>5. WithSent(v, y) = Live(socket_ctx_write(i, buf), o, st, h, SentTo(e, y), m)
    <2> HIDE DEF y
    <2> QED BY LiveData
  <1> HIDE DEF u, v
  <1> QED BY <1>2, <1>3, <1>4, <1>5 DEF Write, SaidIn, u

\* The acknowledgements of the dispatcher.
LEMMA LiveAck ==
    ASSUME NEW i, NEW o, NEW st, NEW h \in BOOLEAN, NEW e, NEW m
    PROVE  /\ i.rdstate = "done" =>
                 AckRead(Live(i, o, st, h, e, m), "incoming") = Live(RdStop(i), o, st, h, e, m)
           /\ i.wrstate = "done" =>
                 AckWrite(Live(i, o, st, h, e, m), "incoming") = Live(WrStop(i), o, st, h, e, m)
  <1> DEFINE u == Live(i, o, st, h, e, m)
  <1>1. u.sock["incoming"] = i
    BY LiveFields
  <1>2. ASSUME i.rdstate = "done"
        PROVE  AckRead(u, "incoming") = Put(u, "incoming", RdStop(i))
    <2> HIDE DEF u
    <2>1. AckRead(u, "incoming")
            = ClientAssert(Put(u, "incoming", RdStop(i)), i.rdstate = "done", "rdstate")
      BY <1>1 DEF AckRead, RdStop
    <2> QED BY <1>2, <2>1 DEF ClientAssert
  <1>3. ASSUME i.wrstate = "done"
        PROVE  AckWrite(u, "incoming") = Put(u, "incoming", WrStop(i))
    <2> HIDE DEF u
    <2>1. AckWrite(u, "incoming")
            = ClientAssert(Put(u, "incoming", WrStop(i)), i.wrstate = "done", "wrstate")
      BY <1>1 DEF AckWrite, WrStop
    <2> QED BY <1>3, <2>1 DEF ClientAssert
  <1> QED BY <1>2, <1>3, LivePut

\* The assertion that nothing is going on.
LEMMA LiveIdle ==
    ASSUME NEW i, NEW o, NEW st, NEW h \in BOOLEAN, NEW e, NEW m, AtRest(i), AtRest(o),
           NEW S \in SUBSET Side
    PROVE  Idle(Live(i, o, st, h, e, m), S) = Live(i, o, st, h, e, m)
  <1> DEFINE u == Live(i, o, st, h, e, m)
  <1>1. u.sock["incoming"] = i /\ u.sock["outgoing"] = o
    BY LiveFields
  <1> HIDE DEF u
  <1>2. \A s \in S : u.sock[s].rdstate = "stop" /\ u.sock[s].wrstate = "stop"
    BY <1>1 DEF Side, AtRest
  <1>3. Idle(u, S) = u
    BY <1>2, ClientAssertTrue DEF Idle
  <1> QED BY <1>3 DEF u

-----------------------------------------------------------------------------
(* The core of a tunnel that was shut down. *)

NoDial(k) == ~k.connecting /\ k.dns = "none"

\* A live tunnel's core is a tunnel of tunnel.c.
LEMMA AliveType ==
    ASSUME NEW i \in OpenSocket, NEW o \in OpenSocket, NEW st \in tls_stage, NEW h \in BOOLEAN
    PROVE  Alive(i, o, st, h) \in TunnelType
  <1> DEFINE S == [Side -> Socket(Payload)]
             B == SUBSET {"read", "write", "connect", "getaddrinfo", "close",
                          "on_read", "on_written", "stale"}
             x == Pair(i, o)
             b == {}
             n == 1 + One(h)
  <1>1. x \in S /\ b \in B /\ n \in Nat /\ st \in Stages
    <2>1. x \in S
      BY SockOf DEF Pair, Side
    <2>2. n \in Nat
      BY DEF One
    <2> QED BY <2>1, <2>2, TlsStagesAssumption
  <1> HIDE DEF S, B, x, b, n
  <1>2. Core(x, n, FALSE, FALSE, st, h, b) \in
           [ sock : S, ref : Nat, is_terminated : BOOLEAN, freed : BOOLEAN,
             stage : Stages, held : BOOLEAN, bad : B ]
    BY <1>1 DEF Core
  <1> QED BY <1>2 DEF Alive, TunnelType, S, B, x, b, n

\* What socket_ctx_close leaves of the requests.
LEMMA CloseKeeps ==
    ASSUME NEW k \in Socket(Payload), NoDial(k)
    PROVE  NoDial(socket_ctx_close(k))
  <1>1. Cancelled(k, socket_ctx_close(k))
    BY CloseType
  <1> QED BY <1>1 DEF NoDial, Cancelled

\* tunnel_shutdown of a live tunnel.
LEMMA CoreShut ==
    ASSUME NEW i \in OpenSocket, NEW o \in OpenSocket, NEW st \in tls_stage, NEW h \in BOOLEAN,
           NoDial(i), NoDial(o), NEW v, v = tunnel_shutdown(Alive(i, o, st, h))
    PROVE  CoreOver(v) /\ IsCore(v) /\ ~v.freed /\ v.held = h /\ v.ref = 2 + One(h)
  <1> DEFINE c == Alive(i, o, st, h)
             x == socket_ctx_close(i)
             y == socket_ctx_close(o)
             b == is_in_streaming(v)
  <1>1. c \in TunnelType
    BY AliveType
  <1>2. /\ c.sock["incoming"] = i /\ c.sock["outgoing"] = o /\ c.ref = 1 + One(h)
        /\ ~c.is_terminated /\ ~c.freed /\ c.held = h /\ c.bad = {} /\ c.stage = st
    BY AliveFacts
  <1>3. /\ ~i.is_terminated /\ i.rdstate # "dead" /\ i.wrstate # "dead"
        /\ ~o.is_terminated /\ o.rdstate # "dead" /\ o.wrstate # "dead"
    BY DEF OpenSocket
  <1>4. v = tunnel_shutdown(c)
    OBVIOUS
  <1> HIDE DEF c
  <1>5. /\ v \in TunnelType /\ v.ref = c.ref + 1 /\ v.is_terminated = TRUE
        /\ v.freed = c.freed /\ v.held = c.held /\ v.bad = c.bad /\ v.stage = c.stage
        /\ \A s \in Side : v.sock[s] = socket_ctx_close(c.sock[s])
    <2>1. c.ref # 0
      BY <1>2 DEF One
    <2>2. \A s \in Side : /\ ~c.sock[s].is_terminated /\ c.sock[s].rdstate # "dead"
                          /\ c.sock[s].wrstate # "dead"
      BY <1>2, <1>3 DEF Side
    <2> QED BY <1>1, <1>2, <1>4, <2>1, <2>2, ShutdownForm
  <1>6. v.sock["incoming"] = x /\ v.sock["outgoing"] = y
    BY <1>2, <1>5 DEF Side
  <1>7. SocketOK(x, TRUE, FALSE, b) /\ SocketOK(y, TRUE, FALSE, b)
    BY SockOf, CloseOK, ClosedAnyway
  <1>8. x.on_closed = TRUE /\ y.on_closed = TRUE
    BY SockOf, CloseType
  <1>9. v.freed = FALSE /\ v.held = h /\ v.ref = 2 + One(h) /\ v.bad = {} /\ v.stage = st
    <2>1. v.freed = FALSE
      BY <1>1, <1>2, <1>5 DEF TunnelType
    <2> QED BY <1>2, <1>5, <2>1 DEF One
  <1>10. NoDial(x) /\ NoDial(y)
    BY SockOf, CloseKeeps
  <1> HIDE DEF x, y
  <1>11. TunnelOK(v)
    <2>1. \A s \in Side : SocketOK(v.sock[s], v.is_terminated, v.freed, is_in_streaming(v))
      BY <1>5, <1>6, <1>7, <1>9 DEF Side
    <2>2. v.ref = One(~v.is_terminated) + One(v.sock["incoming"].on_closed)
                  + One(v.sock["outgoing"].on_closed) + One(v.held)
      BY <1>5, <1>6, <1>8, <1>9 DEF One
    <2>3. v.bad \subseteq {"stale"} /\ (v.freed <=> v.ref = 0) /\ v \in TunnelType
      BY <1>5, <1>9 DEF One
    <2> QED BY <2>1, <2>2, <2>3 DEF TunnelOK
  <1>12. \A s \in Side : ~v.sock[s].connecting /\ v.sock[s].dns = "none"
    BY <1>6, <1>10 DEF Side, NoDial
  <1> QED BY <1>5, <1>9, <1>11, <1>12, CoreType DEF CoreOver

\* A timer of a live tunnel expires.
LEMMA CoreTimeout ==
    ASSUME NEW i \in OpenSocket, NEW o \in OpenSocket, NEW st \in tls_stage, NEW h \in BOOLEAN,
           NoDial(i), NoDial(o), NEW s \in Side,
           NEW v, v = tunnel_socket_ctx_on_timeout_cb(Alive(i, o, st, h), s)
    PROVE  CoreOver(v) /\ IsCore(v) /\ ~v.freed /\ v.held = h /\ v.ref = 2 + One(h)
  <1> DEFINE c == Alive(i, o, st, h)
  <1>1. c \in TunnelType
    BY AliveType
  <1>2. /\ c.sock["incoming"] = i /\ c.sock["outgoing"] = o /\ c.ref = 1 + One(h)
        /\ ~c.is_terminated /\ ~c.freed /\ c.held = h /\ c.bad = {} /\ c.stage = st
    BY AliveFacts
  <1>3. c.is_terminated = FALSE /\ c.freed = FALSE
    BY <1>1, <1>2 DEF TunnelType
  <1>4. v = tunnel_socket_ctx_on_timeout_cb(c, s)
    OBVIOUS
  <1> HIDE DEF c
  <1>5. \A r \in Side : SocketOK(c.sock[r], FALSE, FALSE, TRUE)
    BY <1>2, SockOf DEF Side
  <1>6. /\ TunnelOK(v) /\ v.is_terminated = TRUE /\ v.freed = FALSE
        /\ v.held = c.held /\ v.stage = c.stage /\ v.bad = c.bad
        /\ \A r \in Side : Cancelled(c.sock[r], v.sock[r])
    <2> DEFINE b == TRUE
    <2>1. c.ref = 1 + One(c.held) /\ c.bad \subseteq {"stale"}
      BY <1>2
    <2>2. b \in BOOLEAN /\ \A r \in Side : SocketOK(c.sock[r], FALSE, FALSE, b)
      BY <1>5
    <2> DEFINE w == tunnel_socket_ctx_on_timeout_cb(c, s)
    <2>3. /\ TunnelOK(w) /\ w.is_terminated = TRUE /\ w.freed = FALSE
          /\ w.held = c.held /\ w.stage = c.stage /\ w.bad = c.bad
          /\ \A r \in Side : Cancelled(c.sock[r], w.sock[r])
      <3> HIDE DEF b
      <3> QED BY <1>1, <1>3, <2>1, <2>2, TimeoutForm
    <2> QED BY <1>4, <2>3, Zenon
  <1>7. \A r \in Side : ~v.sock[r].connecting /\ v.sock[r].dns = "none"
    BY <1>2, <1>6 DEF Side, Cancelled, NoDial
  <1>8. v \in TunnelType
    BY <1>6 DEF TunnelOK
  <1>9. v.ref = 2 + One(h)
    <2> DEFINE j == c.sock[s]
               y == j.ref + 1
               k == [j EXCEPT !.ticking = FALSE, !.result = "err", !.ref = y]
               a == Put(c, s, k)
               b == tunnel_shutdown(a)
    <2>1. v = Put(b, s, socket_ctx_release(b.sock[s]))
      BY <1>3, <1>4 DEF tunnel_socket_ctx_on_timeout_cb
    <2>2. j \in OpenSocket /\ j \in Socket(Payload)
      BY <1>2, SockOf DEF Side
    <2>3. y \in Nat
      BY <2>2 DEF Socket
    <2>4. k \in Socket(Payload) /\ k.is_terminated = j.is_terminated
          /\ k.rdstate = j.rdstate /\ k.wrstate = j.wrstate
      <3> HIDE DEF j, y
      <3> QED BY <2>2, <2>3, ZenonT(60) DEF Socket
    <2> HIDE DEF k
    <2>5. /\ a \in TunnelType /\ a.ref = c.ref /\ a.is_terminated = c.is_terminated
          /\ a.sock[s] = k /\ \A r \in Side : r # s => a.sock[r] = c.sock[r]
      BY <1>1, <2>4, PutFacts
    <2> HIDE DEF a
    <2>6. \A r \in Side : /\ ~a.sock[r].is_terminated /\ a.sock[r].rdstate # "dead"
                          /\ a.sock[r].wrstate # "dead"
      <3>1. \A r \in Side : /\ ~c.sock[r].is_terminated /\ c.sock[r].rdstate # "dead"
                            /\ c.sock[r].wrstate # "dead"
        BY <1>2 DEF Side, OpenSocket
      <3> QED BY <2>4, <2>5, <3>1
    <2>7. b \in TunnelType /\ b.ref = a.ref + 1
      <3>1. ~a.is_terminated /\ a.ref # 0
        BY <1>2, <2>5 DEF One
      <3> QED BY <2>5, <2>6, <3>1, ShutdownForm
    <2> HIDE DEF b
    <2>8. v.ref = b.ref
      BY <2>1, <2>7 DEF Put, TunnelType
    <2> QED BY <1>2, <2>5, <2>7, <2>8 DEF One
  <1> QED BY <1>2, <1>6, <1>7, <1>8, <1>9, CoreType DEF CoreOver

\* What is known of such a core.
LEMMA CoreOverFacts ==
    ASSUME NEW c, CoreOver(c)
    PROVE  /\ IsCore(c) /\ c \in TunnelType /\ TunnelOK(c) /\ c.is_terminated = TRUE
           /\ c.freed \in BOOLEAN /\ c.held \in BOOLEAN /\ (c.held => c.freed = FALSE)
           /\ c.ref \in Nat /\ c.stage \in tls_stage
           /\ \A s \in Side : /\ ~c.sock[s].reading /\ ~c.sock[s].ticking
                              /\ c.sock[s] \in Socket(Payload)
           /\ \A s \in Side : c.sock[s].tcp = "closing" \/ c.sock[s].timer = "closing" =>
                                 c.freed = FALSE
  <1>1. /\ TunnelOK(c) /\ c.is_terminated = TRUE /\ c \in TunnelType /\ IsCore(c)
        /\ c.stage \in tls_stage
    BY CoreType DEF CoreOver, TunnelOK
  <1>2. c.freed \in BOOLEAN /\ c.held \in BOOLEAN /\ c.ref \in Nat
    BY <1>1 DEF TunnelType
  <1>3. c.ref = One(~c.is_terminated) + One(c.sock["incoming"].on_closed)
                + One(c.sock["outgoing"].on_closed) + One(c.held)
        /\ (c.freed <=> c.ref = 0)
    BY <1>1 DEF TunnelOK
  <1>4. c.held => c.freed = FALSE
    BY <1>2, <1>3 DEF One
  <1>5. \A s \in Side : SocketOK(c.sock[s], TRUE, c.freed, is_in_streaming(c))
    BY <1>1 DEF TunnelOK
  <1>6. \A s \in Side : ~c.sock[s].reading /\ ~c.sock[s].ticking /\ c.sock[s] \in Socket(Payload)
    BY <1>5 DEF SocketOK
  <1>7. ASSUME NEW s \in Side, c.sock[s].tcp = "closing" \/ c.sock[s].timer = "closing"
        PROVE  c.freed = FALSE
    <2>1. CloseOwed(c.sock[s]) > 0
      BY <1>7 DEF CloseOwed
    <2>2. c.sock[s].on_closed
      BY <1>5, <2>1 DEF SocketOK
    <2>3. c.sock["incoming"].on_closed \/ c.sock["outgoing"].on_closed
      BY <2>2 DEF Side
    <2> QED BY <1>2, <1>3, <2>3 DEF One
  <1> QED BY <1>1, <1>2, <1>4, <1>6, <1>7

\* A write on one of its sockets is over.
LEMMA CoreWritten ==
    ASSUME NEW c, CoreOver(c), NEW s \in Side, c.sock[s].writes # <<>>,
           NEW x \in {"ok", "err"},
           NEW v, v = Put(c, s, [c.sock[s] EXCEPT !.writes = Tail(@), !.result = x])
    PROVE  CoreOver(v) /\ IsCore(v) /\ v.freed = c.freed /\ v.held = c.held
  <1> DEFINE k == c.sock[s]
             q == Tail(k.writes)
             n == [k EXCEPT !.writes = q, !.result = x]
  <1>1. TunnelOK(c) /\ c.is_terminated = TRUE /\ c \in TunnelType /\ k \in Socket(Payload)
    BY CoreOverFacts
  <1>2. v = Put(c, s, n)
    OBVIOUS
  <1>3. v \in tunnel_socket_ctx_on_written_cb(c, s, x, AnyHook)
    BY <1>1 DEF tunnel_socket_ctx_on_written_cb
  <1>4. TunnelOK(v)
    BY <1>1, <1>3, OnWrittenOK
  <1>5. q \in Seq(Payload)
    <2>1. k.writes \in Seq(Payload)
      BY <1>1 DEF Socket
    <2> HIDE DEF k
    <2> QED BY <2>1, TailOK DEF k
  <1>6. n \in Socket(Payload) /\ n.connecting = k.connecting /\ n.dns = k.dns
    <2> HIDE DEF k, q
    <2> QED BY <1>1, <1>5, ZenonT(60) DEF Socket
  <1> HIDE DEF n
  <1>7. /\ v \in TunnelType /\ v.is_terminated = c.is_terminated /\ v.freed = c.freed
        /\ v.stage = c.stage /\ v.held = c.held /\ v.bad = c.bad /\ v.sock[s] = n
        /\ \A r \in Side : r # s => v.sock[r] = c.sock[r]
    BY <1>1, <1>2, <1>6, PutFacts
  <1>8. \A r \in Side : ~v.sock[r].connecting /\ v.sock[r].dns = "none"
    BY <1>6, <1>7 DEF CoreOver
  <1> QED BY <1>1, <1>4, <1>7, <1>8, CoreType DEF CoreOver

\* One of its handles is closed.
LEMMA CoreClosed ==
    ASSUME NEW c, CoreOver(c), NEW s \in Side, NEW k,
           \/ /\ c.sock[s].tcp = "closing" /\ c.sock[s].writes = <<>>
              /\ k = [c.sock[s] EXCEPT !.tcp = "closed"]
           \/ /\ c.sock[s].timer = "closing"
              /\ k = [c.sock[s] EXCEPT !.timer = "closed"],
           NEW v, v = uv_socket_close_done_cb(Put(c, s, k), s)
    PROVE  CoreOver(v) /\ IsCore(v) /\ c.freed = FALSE /\ v.held = c.held
  <1> DEFINE j == c.sock[s]
             a == Put(c, s, k)
  <1>1. /\ TunnelOK(c) /\ c.is_terminated = TRUE /\ c \in TunnelType /\ j \in Socket(Payload)
        /\ c.freed = FALSE
    BY CoreOverFacts
  <1>2. k \in Socket(Payload) /\ SameRequests(j, k)
    <2>1. CASE k = [j EXCEPT !.tcp = "closed"]
      <3> HIDE DEF j
      <3> QED BY <1>1, <2>1, ZenonT(60) DEF Socket, HandleState, SameRequests
    <2>2. CASE k = [j EXCEPT !.timer = "closed"]
      <3> HIDE DEF j
      <3> QED BY <1>1, <2>2, ZenonT(60) DEF Socket, HandleState, SameRequests
    <2> QED BY <2>1, <2>2
  <1>3. TunnelOK(v)
    <2>1. ~c.sock[s].connecting
      BY DEF CoreOver
    <2> QED BY <1>1, <2>1, OnClosedOK
  <1>4. /\ a \in TunnelType /\ a.is_terminated = c.is_terminated /\ a.held = c.held
        /\ a.stage = c.stage /\ a.bad = c.bad
        /\ a.sock[s] = k /\ \A r \in Side : r # s => a.sock[r] = c.sock[r]
    BY <1>1, <1>2, PutFacts
  <1>5. SameWork(a, v)
    BY <1>4, CountedType, CloseDoneRequests
  <1> HIDE DEF a
  <1>6. /\ v.is_terminated = TRUE /\ v.held = c.held /\ v.stage = c.stage /\ v.bad = c.bad
    BY <1>1, <1>4, <1>5 DEF SameWork
  <1>7. \A r \in Side : ~v.sock[r].connecting /\ v.sock[r].dns = "none"
    BY <1>2, <1>4, <1>5 DEF CoreOver, SameWork, SameRequests
  <1>8. v \in TunnelType
    BY <1>3 DEF TunnelOK
  <1> QED BY <1>1, <1>3, <1>6, <1>7, <1>8, CoreType DEF CoreOver

Unheld(c) == tunnel_ctx_release([c EXCEPT !.held = FALSE])

\* The connection returns its reference to the tunnel.
LEMMA CoreUnheld ==
    ASSUME NEW c, CoreOver(c), c.held, NEW v, v = Unheld(c)
    PROVE  /\ CoreOver(v) /\ IsCore(v) /\ v.held = FALSE /\ c.freed = FALSE
           /\ c.ref # 1 => v.freed = FALSE
  <1> DEFINE a == [c EXCEPT !.held = FALSE]
             S == [Side -> Socket(Payload)]
             B == SUBSET {"read", "write", "connect", "getaddrinfo", "close",
                          "on_read", "on_written", "stale"}
  <1>1. TunnelOK(c) /\ c.is_terminated = TRUE /\ c \in TunnelType /\ c.freed = FALSE
    BY CoreOverFacts
  <1>2. TunnelOK(v)
    BY <1>1, OwnerReleaseOK DEF Unheld
  <1>3. /\ a \in TunnelType /\ a.sock = c.sock /\ a.is_terminated = c.is_terminated
        /\ a.held = FALSE /\ a.stage = c.stage /\ a.bad = c.bad /\ a.ref = c.ref
        /\ a.freed = c.freed
    <2>1. c \in [ sock : S, ref : Nat, is_terminated : BOOLEAN, freed : BOOLEAN,
                  stage : Stages, held : BOOLEAN, bad : B ]
      BY <1>1 DEF TunnelType
    <2> HIDE DEF S, B
    <2>2. /\ a \in [ sock : S, ref : Nat, is_terminated : BOOLEAN, freed : BOOLEAN,
                     stage : Stages, held : BOOLEAN, bad : B ]
          /\ a.sock = c.sock /\ a.is_terminated = c.is_terminated
          /\ a.held = FALSE /\ a.stage = c.stage /\ a.bad = c.bad /\ a.ref = c.ref
          /\ a.freed = c.freed
      BY <2>1
    <2> QED BY <2>2 DEF TunnelType, S, B
  <1>4. SameWork(a, v)
    BY <1>3, CountedType, TunnelReleaseRequests DEF Unheld
  <1> HIDE DEF a
  <1>5. /\ v.is_terminated = TRUE /\ v.held = FALSE /\ v.stage = c.stage /\ v.bad = c.bad
    BY <1>1, <1>3, <1>4 DEF SameWork
  <1>6. \A r \in Side : ~v.sock[r].connecting /\ v.sock[r].dns = "none"
    BY <1>3, <1>4 DEF CoreOver, SameWork, SameRequests
  <1>7. v \in TunnelType
    BY <1>2 DEF TunnelOK
  <1>8. c.ref # 1 => v.freed = FALSE
    <2>1. c.ref # 0
      BY <1>1 DEF TunnelOK
    <2>2. CASE c.ref # 1
      <3>1. a.ref # 0 /\ a.ref # 1
        BY <1>3, <2>1, <2>2
      <3>2. v = tunnel_ctx_release(a)
        BY DEF Unheld, a
      <3>3. v.freed = a.freed
        BY <1>3, <3>1, <3>2, TunnelReleaseFacts
      <3> QED BY <1>1, <1>3, <3>3
    <2> QED BY <2>2
  <1> QED BY <1>1, <1>2, <1>5, <1>6, <1>7, <1>8, CoreType DEF CoreOver

\* The same of a whole tunnel.
LEMMA WholeUnheld ==
    ASSUME NEW c, IsCore(c), NEW d, NEW u, u = Whole(c, d)
    PROVE  tunnel_ctx_release([u EXCEPT !.held = FALSE]) = Whole(Unheld(c), d)
  <1> DEFINE x == c.sock
             n == c.ref
             term == c.is_terminated
             gone == c.freed
             st == c.stage
             held == c.held
             b == c.bad
             no == FALSE
             a == [c EXCEPT !.held = no]
  <1>0. c = Core(x, n, term, gone, st, held, b)
    BY DEF CoreOf, IsCore
  <1>1. a = Core(x, n, term, gone, st, no, b)
    <2> HIDE DEF x, n, term, gone, st, held, b, no
    <2>1. a \in CoreSet(x, n, term, gone, st, no, b)
      BY <1>0 DEF Core, CoreSet
    <2> QED BY <2>1, CoreEq
  <1>2. /\ a.sock = x /\ a.ref = n /\ a.is_terminated = term /\ a.freed = gone
        /\ a.stage = st /\ a.held = no /\ a.bad = b /\ IsCore(a)
    <2> HIDE DEF x, n, term, gone, st, held, b, no, a
    <2> QED BY <1>1, CoreFields
  <1>3. [u EXCEPT !.held = no] = Whole(a, d)
    <2> HIDE DEF a, no
    <2>1. [u EXCEPT !.held = no] \in WholeSet(a, d)
      BY <1>2 DEF Whole, WholeSet
    <2> QED BY <2>1, WholeEq
  <1> HIDE DEF a
  <1>4. tunnel_ctx_release(Whole(a, d)) = Whole(tunnel_ctx_release(a), d)
    BY <1>2, WholeRelease
  <1> QED BY <1>3, <1>4 DEF Unheld, a

-----------------------------------------------------------------------------
(* The close of a connection. *)

\* What the counts do not matter for.
LEMMA SameFacts ==
    ASSUME NEW m, NEW n, SameConn(m, n)
    PROVE  /\ Handles(m) => Handles(n)
           /\ Ending(m) => Ending(n)
           /\ Ended(m) => Ended(n)
           /\ Early(m) => Early(n)
           /\ Notified(m) <=> Notified(n)
  <1>1. Notified(m) <=> Notified(n)
    BY DEF SameConn, Notified
  <1>2. Handles(m) => Handles(n)
    BY DEF SameConn, Handles
  <1>3. (Ending(m) => Ending(n)) /\ (Ended(m) => Ended(n)) /\ (Early(m) => Early(n))
    BY <1>1 DEF SameConn, Ending, Ended, Early
  <1> QED BY <1>1, <1>2, <1>3

\* The same relation once more.
LEMMA SameTrans ==
    ASSUME NEW m, NEW n, NEW k, SameConn(m, n), SameConn(n, k)
    PROVE  SameConn(m, k)
  BY DEF SameConn

\* What mbed_close_done_cb makes of the connection of core c, which the tunnel
\* is released from.
Parted(c, m) == IF Unheld(c).freed THEN client_ctx_release(client_ctx_release(m))
                                   ELSE client_ctx_release(m)

LEMMA Report ==
    ASSUME NEW c, CoreOver(c), c.held, NEW e, NEW m \in Connection, m.on_shutting_down, m.ctx,
           NEW x \in Nat, NEW y \in Nat, Counts(m, FALSE, TRUE, x, y),
           NEW n, n = tls_cli_ctx_release(Parted(c, m))
    PROVE  /\ mbed_close_done_cb(State(c, e, m)) = State(Unheld(c), e, n)
           /\ SameConn(m, n) /\ Counts(n, Unheld(c).freed, FALSE, x, y)
  <1> DEFINE b == Unheld(c)
             r == client_ctx_release(m)
             q == client_ctx_release(r)
             w == Parted(c, m)
             a == State(c, e, r)
             z == State(b, e, r)
             g == b.freed
             no == FALSE
  <1>1. CoreOver(b) /\ IsCore(b) /\ b.held = FALSE /\ c.freed = FALSE /\ IsCore(c)
    <2> HIDE DEF b
    <2> QED BY CoreUnheld, CoreOverFacts DEF b
  <1>2. g \in BOOLEAN
    <2> HIDE DEF b
    <2> QED BY <1>1, CoreOverFacts
  <1>3. SameConn(m, r) /\ Counts(r, FALSE, FALSE, x + 1, y)
    <2> HIDE DEF r
    <2> QED BY CountsReported DEF r
  <1>4. r \in Connection /\ r.ctx
    BY <1>3 DEF SameConn
  <1>5. SameConn(m, w) /\ Counts(w, g, FALSE, x + 1, y)
    <2>1. CASE g
      <3>1. w = q /\ g = TRUE
        BY <1>2, <2>1 DEF Parted
      <3> HIDE DEF r, w, g
      <3>2. SameConn(r, q) /\ Counts(q, TRUE, FALSE, x + 1, y)
        <4> HIDE DEF q
        <4>1. x + 1 \in Nat
          OBVIOUS
        <4> DEFINE xx == x + 1
        <4> HIDE DEF xx
        <4> QED BY <1>3, <1>4, <4>1, CountsGone DEF q, xx
      <3>3. SameConn(m, q)
        BY <1>3, <3>2, SameTrans
      <3> HIDE DEF q
      <3> QED BY <3>1, <3>2, <3>3
    <2>2. CASE ~g
      <3>1. w = r /\ g = FALSE
        BY <1>2, <2>2 DEF Parted
      <3> HIDE DEF r, w, g
      <3> QED BY <1>3, <3>1
    <2> QED BY <2>1, <2>2
  <1>6. SameConn(w, n) /\ Counts(n, g, FALSE, x, y)
    <2>1. w \in Connection
      BY <1>5 DEF SameConn
    <2> DEFINE xx == x + 1
    <2>2. xx \in Nat /\ xx # 0 /\ xx - 1 = x /\ no \in BOOLEAN
      OBVIOUS
    <2>3. Counts(w, g, no, xx, y) /\ n = tls_cli_ctx_release(w)
      BY <1>5
    <2> HIDE DEF w, g, xx, no
    <2>4. SameConn(w, n) /\ Counts(n, g, no, xx - 1, y)
      BY <1>2, <2>1, <2>2, <2>3, CountsCli
    <2> QED BY <2>2, <2>4 DEF no
  <1>7. SameConn(m, n)
    <2> HIDE DEF w
    <2> QED BY <1>5, <1>6, SameTrans
  <1>8. mbed_close_done_cb(State(c, e, m)) = State(b, e, n)
    <2> DEFINE u == State(c, e, m)
    <2>1. Tls(u) = m /\ Tls(a) = r /\ a.freed = c.freed /\ z.freed = g /\ Tls(z) = r
      <3> HIDE DEF r, b
      <3> QED BY StateFields
    <2>2. WithTls(u, r) = a
      BY <1>1, StateTls
    <2>3. tunnel_ctx_release([a EXCEPT !.held = FALSE]) = z
      <3> HIDE DEF r
      <3> QED BY <1>1, WholeUnheld DEF State
    <2> HIDE DEF u, a
    <2>4. tls_cli_on_shutting_down_callback(u) = Destroying(a, z)
      <3> HIDE DEF z
      <3> QED BY <2>1, <2>2, <2>3 DEF tls_cli_on_shutting_down_callback
    <2>5. Destroying(a, z) = State(b, e, w)
      <3>1. CASE g
        <4>1. w = q
          BY <3>1 DEF Parted
        <4>2. Destroying(a, z) = WithTls(z, q)
          <5> HIDE DEF z
          <5> QED BY <1>1, <2>1, <3>1 DEF Destroying
        <4>3. WithTls(z, q) = State(b, e, q)
          <5> HIDE DEF q, r, b
          <5> QED BY <1>1, StateTls
        <4> QED BY <4>1, <4>2, <4>3
      <3>2. CASE ~g
        <4>1. w = r
          BY <3>2 DEF Parted
        <4>2. Destroying(a, z) = z
          <5> HIDE DEF z
          <5> QED BY <1>1, <2>1, <3>2 DEF Destroying
        <4> QED BY <4>1, <4>2
      <3> QED BY <3>1, <3>2
    <2> DEFINE p == State(b, e, w)
    <2>6. Tls(p) = w
      <3> HIDE DEF w, b
      <3> QED BY StateFields
    <2>7. WithTls(p, n) = State(b, e, n)
      <3> HIDE DEF w, b
      <3> QED BY <1>1, StateTls
    <2> HIDE DEF z
    <2>8. mbed_close_done_cb(u) = WithTls(p, n)
      <3>1. tls_cli_on_shutting_down_callback(u) = p
        BY <2>4, <2>5
      <3>2. n = tls_cli_ctx_release(w)
        OBVIOUS
      <3> HIDE DEF p, w
      <3> QED BY <2>1, <2>6, <3>1, <3>2 DEF mbed_close_done_cb
    <2> QED BY <2>7, <2>8 DEF u
  <1> QED BY <1>6, <1>7, <1>8

\* client_ctx is referenced, and tls_client_shutdown begins.
LEMMA ShutBegun ==
    ASSUME NEW c, IsCore(c), NEW e, NEW m, m.ctx
    PROVE  client_tunnel_shutdown(State(c, e, m))
             = uv_mbed_close(State(c, e, BeginTo(m, m.cref + 1, m.ref + 1)))
  <1> DEFINE u == State(c, e, m)
             m1 == [m EXCEPT !.cref = @ + 1]
             m2 == [m1 EXCEPT !.on_shutting_down = TRUE]
             m3 == tls_cli_ctx_add_ref(m2)
             a == State(c, e, m1)
  <1>1. Tls(u) = m /\ u.data.tls = m
    BY StateFields
  <1>2. [u EXCEPT !.data.tls.cref = @ + 1] = WithTls(u, m1)
    <2> HIDE DEF u
    <2> QED BY <1>1 DEF WithTls
  <1>3. WithTls(u, m1) = a
    <2> HIDE DEF m1
    <2> QED BY StateTls
  <1>4. Tls(a) = m1
    <2> HIDE DEF m1
    <2> QED BY StateFields
  <1>5. WithTls(a, m3) = State(c, e, m3)
    <2> HIDE DEF m1, m3
    <2> QED BY StateTls
  <1>6. m3 = BeginTo(m, m.cref + 1, m.ref + 1)
    BY DEF tls_cli_ctx_add_ref, BeginTo
  <1>7. client_tunnel_shutdown(u) = tls_client_shutdown(a)
    <2> HIDE DEF u, a, m1
    <2> QED BY <1>1, <1>2, <1>3 DEF client_tunnel_shutdown
  <1>8. tls_client_shutdown(a) = uv_mbed_close(WithTls(a, m3))
    <2> HIDE DEF a, m1
    <2> QED BY <1>4 DEF tls_client_shutdown
  <1> QED BY <1>5, <1>6, <1>7, <1>8

\* The three cases of uv_mbed_close.
LEMMA CloseForms ==
    ASSUME NEW c, IsCore(c), NEW e, NEW m \in Connection
    PROVE  LET l == (IF m.connect_cb THEN {"handshake"} ELSE {})
                    \cup (IF m.writable THEN {} ELSE {"reset"})
               u == State(c, e, m)
           IN  /\ m.sock \in {"none", "closing", "closed"} =>
                     uv_mbed_close(u) = mbed_close_done_cb(
                        State(c, e, LeftTo(m, IF m.connect_cb THEN {"early"} ELSE {})))
               /\ m.sock \in {"connecting", "failed"} =>
                     uv_mbed_close(u) = State(c, e, CloseTo(m, m.mref + 1, "close_done"))
               /\ m.sock = "connected" /\ m.handshake = "over" /\ m.writable =>
                     uv_mbed_close(u) = State(c, e, HushTo(m, l, Append(m.writes, "notify")))
               /\ m.sock = "connected" /\ m.handshake # "over" /\ m.writable =>
                     uv_mbed_close(u) = State(c, e, ShutTo(HushTo(m, l, m.writes)))
               /\ m.sock = "connected" /\ ~m.writable =>
                     uv_mbed_close(u) = State(c, e, HushTo(m, l, m.writes))
  <1> DEFINE l == (IF m.connect_cb THEN {"handshake"} ELSE {})
                  \cup (IF m.writable THEN {} ELSE {"reset"})
             j == IF m.connect_cb THEN {"early"} ELSE {}
             u == State(c, e, m)
             b == [m EXCEPT !.reading = FALSE, !.left = l]
             h == HushTo(m, l, m.writes)
             n == HushTo(m, l, Append(m.writes, "notify"))
  <1>1. Tls(u) = m /\ u.data.tls = m
    BY StateFields
  <1>2. \A k : WithTls(u, k) = State(c, e, k)
    BY StateTls
  <1>3. b \in Connection /\ b.writes = m.writes /\ b.writable = m.writable
        /\ m.writes \in Seq(WriteKinds)
    <2> DEFINE no == FALSE
    <2>0. [m EXCEPT !.reading = no, !.left = l] = b
      OBVIOUS
    <2>1. no \in BOOLEAN /\ l \in SUBSET {"early", "handshake", "reset"}
      OBVIOUS
    <2>2. [m EXCEPT !.reading = no, !.left = l] \in Connection
          /\ [m EXCEPT !.reading = no, !.left = l].writes = m.writes
          /\ [m EXCEPT !.reading = no, !.left = l].writable = m.writable
      <3> HIDE DEF no, l
      <3> QED BY <2>1, ZenonT(60) DEF Connection
    <2>3. m.writes \in Seq(WriteKinds)
      BY ConnFields
    <2> QED BY <2>0, <2>2, <2>3
  <1>4. h = b
    <2> DEFINE q == m.writes
               no == FALSE
    <2>1. [m EXCEPT !.reading = no, !.left = l, !.writes = q] = [m EXCEPT !.reading = no, !.left = l]
      <3> HIDE DEF no, l
      <3> QED BY DEF Connection
    <2> QED BY <2>1 DEF HushTo
  <1>5. [b EXCEPT !.writes = Append(@, "notify")] = n
    <2> DEFINE w == Append(m.writes, "notify")
    <2>1. [b EXCEPT !.writes = Append(@, "notify")] = [b EXCEPT !.writes = w]
      <3> HIDE DEF b
      <3> QED BY <1>3
    <2>2. [b EXCEPT !.writes = w] = n
      <3> DEFINE no == FALSE
                 k == [m EXCEPT !.reading = no, !.left = l]
      <3>1. [k EXCEPT !.writes = w] = [m EXCEPT !.reading = no, !.left = l, !.writes = w]
        <4> HIDE DEF w, l, no
        <4> QED BY DEF Connection
      <3>2. k = b
        OBVIOUS
      <3>3. n = [m EXCEPT !.reading = no, !.left = l, !.writes = w]
        BY DEF HushTo
      <3> HIDE DEF k, b, n
      <3> QED BY <3>1, <3>2, <3>3
    <2> QED BY <2>1, <2>2
  <1>6. [u EXCEPT !.data.tls.left = j] = State(c, e, LeftTo(m, j))
    <2>1. [u EXCEPT !.data.tls.left = j] = WithTls(u, LeftTo(m, j))
      <3> HIDE DEF u, j
      <3> QED BY <1>1 DEF WithTls, LeftTo
    <2> HIDE DEF u, j
    <2> QED BY <1>2, <2>1
  <1>7. uv_close_socket(m, "close_done") = CloseTo(m, m.mref + 1, "close_done")
    BY DEF uv_close_socket, uv_mbed_add_ref, CloseTo
  <1>8. close_ssl_process_cb(b) = IF m.writable THEN ShutTo(b) ELSE b
    <2> HIDE DEF b
    <2> QED BY <1>3 DEF close_ssl_process_cb, ShutTo
  <1>9. uv_mbed_close(u) =
          CASE m.sock \in {"none", "closing", "closed"} -> mbed_close_done_cb(State(c, e, LeftTo(m, j)))
            [] m.sock \in {"connecting", "failed"} -> State(c, e, CloseTo(m, m.mref + 1, "close_done"))
            [] m.sock = "connected" -> State(c, e, IF m.handshake = "over" /\ m.writable THEN n
                                                   ELSE IF m.writable THEN ShutTo(h) ELSE h)
    <2>1. uv_mbed_close(u) =
            CASE m.sock \in {"none", "closing", "closed"} ->
                   mbed_close_done_cb([u EXCEPT !.data.tls.left = j])
              [] m.sock \in {"connecting", "failed"} ->
                   WithTls(u, uv_close_socket(m, "close_done"))
              [] m.sock = "connected" ->
                   WithTls(u, IF m.handshake = "over" /\ m.writable
                              THEN [b EXCEPT !.writes = Append(@, "notify")]
                              ELSE close_ssl_process_cb(b))
      <3> HIDE DEF u
      <3> QED BY <1>1, Zenon DEF uv_mbed_close
    <2> HIDE DEF u, n, h, b, j
    <2> QED BY <2>1, <1>2, <1>4, <1>5, <1>6, <1>7, <1>8
  <1> HIDE DEF u, n, h, b, j, l
  <1>10. /\ m.sock \in {"none", "closing", "closed"} =>
              uv_mbed_close(u) = mbed_close_done_cb(State(c, e, LeftTo(m, j)))
         /\ m.sock \in {"connecting", "failed"} =>
              uv_mbed_close(u) = State(c, e, CloseTo(m, m.mref + 1, "close_done"))
         /\ m.sock = "connected" /\ m.handshake = "over" /\ m.writable =>
              uv_mbed_close(u) = State(c, e, n)
         /\ m.sock = "connected" /\ m.handshake # "over" /\ m.writable =>
              uv_mbed_close(u) = State(c, e, ShutTo(h))
         /\ m.sock = "connected" /\ ~m.writable => uv_mbed_close(u) = State(c, e, h)
    BY <1>9
  <1> QED BY <1>10 DEF u, n, h, j, l

\* A live connection for which the close begins.
Begun(m) == BeginTo(m, m.cref + 1, m.ref + 1)

LEMMA BegunFacts ==
    ASSUME NEW m, NEW x \in Nat, NEW y \in Nat, LiveConn(m, x, y), NEW n, n = Begun(m)
    PROVE  /\ Handles(n) /\ Counts(n, FALSE, TRUE, x, y) /\ n \in Connection
           /\ n.on_shutting_down = TRUE /\ n.ctx /\ n.left = {} /\ ~n.shutting /\ ~Notified(n)
           /\ n.sock = "closing" => n.close_cb = "connect_canceled"
           /\ n.sock # "closed" /\ n.mref \in Nat /\ n.writes \in Seq(WriteKinds)
           /\ n.sock = m.sock
  <1> DEFINE r == m.cref + 1
             k == m.ref + 1
             d == DataWrites(m.writes)
             no == FALSE
             yes == TRUE
  <1>1. m \in Connection /\ m.ctx
    BY DEF LiveConn, Handles
  <1>2. r \in Nat /\ k \in Nat /\ m.cref \in Nat /\ m.ref \in Nat
    BY <1>1, ConnFields
  <1>3. n = BeginTo(m, r, k)
    BY DEF Begun
  <1>4. /\ n \in Connection /\ n.ctx = m.ctx /\ n.cref = r /\ n.cfreed = m.cfreed
        /\ n.ref = k /\ n.freed = m.freed /\ n.mref = m.mref /\ n.mfreed = m.mfreed
        /\ n.connect_cb = m.connect_cb /\ n.on_shutting_down = TRUE /\ n.dns = m.dns
        /\ n.sock = m.sock /\ n.close_cb = m.close_cb /\ n.connecting = m.connecting
        /\ n.timer = m.timer /\ n.reading = m.reading /\ n.writable = m.writable
        /\ n.writes = m.writes /\ n.shutting = m.shutting
        /\ n.handshake = m.handshake /\ n.left = m.left
    <2> DEFINE w == BeginTo(m, r, k)
    <2>1. m \in Connection /\ r \in Nat /\ k \in Nat
      BY <1>1, <1>2
    <2>2. /\ w \in Connection /\ w.ctx = m.ctx /\ w.cref = r /\ w.cfreed = m.cfreed
          /\ w.ref = k /\ w.freed = m.freed /\ w.mref = m.mref /\ w.mfreed = m.mfreed
          /\ w.connect_cb = m.connect_cb /\ w.on_shutting_down /\ w.dns = m.dns
          /\ w.sock = m.sock /\ w.close_cb = m.close_cb /\ w.connecting = m.connecting
          /\ w.timer = m.timer /\ w.reading = m.reading /\ w.writable = m.writable
          /\ w.writes = m.writes /\ w.shutting = m.shutting
          /\ w.handshake = m.handshake /\ w.left = m.left
      <3> HIDE DEF r, k
      <3> QED BY <2>1, ConnBeginTo
    <2>3. w.on_shutting_down \in BOOLEAN
      BY <2>2, ConnFields
    <2> HIDE DEF w
    <2> QED BY <1>3, <2>2, <2>3 DEF w
  <1>5. /\ d \in Nat /\ m.cref = One(~no) + One(m.on_shutting_down /\ yes)
        /\ m.cfreed <=> m.cref = 0
        /\ m.ref = One(~m.cfreed) + One(m.connect_cb) + One(m.on_shutting_down /\ yes) + d + x
        /\ m.freed <=> m.ref = 0
        /\ m.mref = One(~m.freed) + One(m.sock = "closing") + One(m.timer = "closing") + y
        /\ m.mfreed <=> m.mref = 0
    BY <1>1, CountsOf DEF LiveConn
  <1>6. DataWrites(n.writes) = d /\ ~m.on_shutting_down
    BY <1>4 DEF LiveConn
  <1> HIDE DEF d
  <1>7. Counts(n, FALSE, TRUE, x, y)
    BY <1>2, <1>4, <1>5, <1>6 DEF Counts, One
  <1>8. Handles(n)
    BY <1>4 DEF LiveConn, Handles
  <1>9. n.mref \in Nat /\ n.writes \in Seq(WriteKinds)
    BY <1>4, ConnFields
  <1>10. ~Notified(n)
    BY <1>4 DEF LiveConn, Notified
  <1> QED BY <1>1, <1>4, <1>7, <1>8, <1>9, <1>10 DEF LiveConn

\* A tunnel that has just been shut down.
Ends(u, e, x, y) ==
    \E c, n : /\ u = State(c, e, n) /\ CoreOver(c) /\ c.freed = FALSE
              /\ Over(n, FALSE, c.held, x, y)

\* The close of a connection without a socket: it is reported at once.
LEMMA ShutNone ==
    ASSUME NEW v, CoreOver(v), v.held, v.ref # 1, NEW e, NEW m, NEW x \in Nat, NEW y \in Nat,
           LiveConn(m, x, y), m.sock \in {"none", "closing"}
    PROVE  Ends(client_tunnel_shutdown(State(v, e, m)), e, x, y)
  <1> DEFINE b == Begun(m)
             j == IF b.connect_cb THEN {"early"} ELSE {}
             k == LeftTo(b, j)
             c == Unheld(v)
             n == tls_cli_ctx_release(Parted(v, k))
             d == DataWrites(b.writes)
             no == FALSE
             yes == TRUE
  <1>1. /\ Handles(b) /\ Counts(b, FALSE, TRUE, x, y) /\ b \in Connection
        /\ b.on_shutting_down = TRUE /\ b.ctx /\ b.left = {} /\ ~b.shutting /\ ~Notified(b)
        /\ b.sock = "closing" => b.close_cb = "connect_canceled"
        /\ b.sock = m.sock
    <2> HIDE DEF b
    <2> QED BY BegunFacts DEF b
  <1>2. IsCore(v) /\ m.ctx
    BY CoreOverFacts DEF LiveConn, Handles
  <1>3. client_tunnel_shutdown(State(v, e, m)) = uv_mbed_close(State(v, e, b))
    BY <1>2, ShutBegun DEF Begun
  <1> HIDE DEF b
  <1>4. uv_mbed_close(State(v, e, b)) = mbed_close_done_cb(State(v, e, k))
    BY <1>1, <1>2, CloseForms
  <1>5. j \in SUBSET Leftovers
    BY DEF Leftovers
  <1>6. /\ k \in Connection /\ k.ctx = b.ctx /\ k.cref = b.cref
        /\ k.cfreed = b.cfreed /\ k.ref = b.ref /\ k.freed = b.freed
        /\ k.mref = b.mref /\ k.mfreed = b.mfreed /\ k.connect_cb = b.connect_cb
        /\ k.on_shutting_down = b.on_shutting_down /\ k.dns = b.dns
        /\ k.sock = b.sock /\ k.close_cb = b.close_cb /\ k.connecting = b.connecting
        /\ k.timer = b.timer /\ k.reading = b.reading /\ k.writable = b.writable
        /\ k.writes = b.writes /\ k.shutting = b.shutting
        /\ k.handshake = b.handshake /\ k.left = j
    <2>1. b \in Connection
      BY <1>1
    <2> HIDE DEF j
    <2> QED BY <2>1, <1>5, ConnLeftTo
  <1> HIDE DEF k
  <1>7. Counts(k, FALSE, TRUE, x, y)
    <2>1. Counts(b, no, yes, x, y)
      BY <1>1
    <2> HIDE DEF no, yes, j
    <2>2. Counts(k, no, yes, x, y)
      BY <1>6, <2>1 DEF Counts
    <2> QED BY <2>2 DEF no, yes
  <1>8. /\ mbed_close_done_cb(State(v, e, k)) = State(c, e, n)
        /\ SameConn(k, n) /\ Counts(n, c.freed, FALSE, x, y)
    <2>1. k \in Connection /\ k.on_shutting_down /\ k.ctx
      BY <1>1, <1>6
    <2>2. n = tls_cli_ctx_release(Parted(v, k))
      OBVIOUS
    <2> HIDE DEF j, n
    <2>3. /\ mbed_close_done_cb(State(v, e, k)) = State(Unheld(v), e, n)
          /\ SameConn(k, n) /\ Counts(n, Unheld(v).freed, FALSE, x, y)
      BY <2>1, <2>2, <1>7, Report
    <2> QED BY <2>3
  <1>9. CoreOver(c) /\ c.held = FALSE /\ c.freed = FALSE
    <2> HIDE DEF c
    <2> QED BY CoreUnheld DEF c
  <1> HIDE DEF c, n
  <1>10. Handles(k) /\ ~Notified(k)
    BY <1>1, <1>6 DEF Handles, Notified
  <1>11. Handles(n) /\ n.on_shutting_down
    BY <1>1, <1>6, <1>8, <1>10, SameFacts DEF SameConn
  <1>12. \/ "early" \notin n.left /\ Ended(n)
         \/ Early(n)
    <2>1. CASE b.connect_cb
      <3>1. k.left = {"early"}
        BY <1>6, <2>1
      <3>2. Early(k)
        BY <1>1, <1>6, <1>10, <3>1 DEF Early
      <3> QED BY <1>8, <3>2, SameFacts
    <2>2. CASE ~b.connect_cb
      <3>1. k.left = {} /\ ~k.connect_cb
        BY <1>6, <2>2
      <3>2. ~k.dns /\ ~k.connecting
        BY <1>10, <3>1 DEF Handles
      <3>3. Ended(k)
        BY <1>1, <1>6, <3>2 DEF Ended
      <3>4. "early" \notin n.left
        BY <1>8, <3>1 DEF SameConn
      <3> QED BY <1>8, <3>3, <3>4, SameFacts
    <2> QED BY <2>1, <2>2
  <1>13. Closed(n, FALSE, FALSE, x, y)
    <2>1. Counts(n, no, no, x, y)
      BY <1>8, <1>9
    <2> HIDE DEF no
    <2>2. ~no
      BY DEF no
    <2>3. Closed(n, no, no, x, y)
      BY <1>11, <1>12, <2>1, <2>2 DEF Closed
    <2> QED BY <2>3 DEF no
  <1>14. Over(n, FALSE, c.held, x, y)
    <2>1. Over(n, FALSE, FALSE, x, y)
      BY <1>13 DEF Over
    <2> QED BY <1>9, <2>1
  <1> QED BY <1>3, <1>4, <1>8, <1>9, <1>14 DEF Ends

\* A close that is under way.
LEMMA EndingOver ==
    ASSUME NEW v, CoreOver(v), v.held, NEW n, NEW x, NEW y, Handles(n),
           Counts(n, FALSE, TRUE, x, y), n.on_shutting_down, "early" \notin n.left, Ending(n)
    PROVE  v.freed = FALSE /\ Over(n, v.freed, v.held, x, y)
  <1> DEFINE no == FALSE
             yes == TRUE
  <1>1. v.held = yes /\ v.freed = no
    BY CoreOverFacts
  <1>2. Counts(n, no, yes, x, y) /\ yes
    OBVIOUS
  <1> HIDE DEF no, yes
  <1>3. Over(n, no, yes, x, y)
    BY <1>2 DEF Over, Closed
  <1> QED BY <1>1, <1>3 DEF no

\* The close of a connection that is not established.
LEMMA ShutDial ==
    ASSUME NEW v, CoreOver(v), v.held, NEW e, NEW m, NEW x \in Nat, NEW y \in Nat,
           LiveConn(m, x, y), m.sock \in {"connecting", "failed"}
    PROVE  Ends(client_tunnel_shutdown(State(v, e, m)), e, x, y)
  <1> DEFINE b == Begun(m)
             r == b.mref + 1
             cb == "close_done"
             n == CloseTo(b, r, cb)
             no == FALSE
             yes == TRUE
             d == DataWrites(b.writes)
  <1>1. /\ Handles(b) /\ Counts(b, FALSE, TRUE, x, y) /\ b \in Connection
        /\ b.on_shutting_down = TRUE /\ b.left = {}
        /\ b.sock = m.sock /\ b.mref \in Nat
    <2> HIDE DEF b
    <2> QED BY BegunFacts DEF b
  <1>2. IsCore(v) /\ m.ctx
    BY CoreOverFacts DEF LiveConn, Handles
  <1>3. client_tunnel_shutdown(State(v, e, m)) = uv_mbed_close(State(v, e, b))
    BY <1>2, ShutBegun DEF Begun
  <1> HIDE DEF b
  <1>4. uv_mbed_close(State(v, e, b)) = State(v, e, n)
    BY <1>1, <1>2, CloseForms
  <1>5. /\ n \in Connection /\ n.ctx = b.ctx /\ n.cref = b.cref
        /\ n.cfreed = b.cfreed /\ n.ref = b.ref /\ n.freed = b.freed /\ n.mref = r
        /\ n.mfreed = b.mfreed /\ n.connect_cb = b.connect_cb
        /\ n.on_shutting_down = b.on_shutting_down /\ n.dns = b.dns
        /\ n.sock = "closing" /\ n.close_cb = cb /\ n.connecting = b.connecting
        /\ n.timer = b.timer /\ ~n.reading /\ ~n.writable
        /\ n.writes = b.writes /\ n.shutting = b.shutting
        /\ n.handshake = b.handshake /\ n.left = b.left
    <2>1. b \in Connection /\ r \in Nat /\ cb \in CloseCbs
      BY <1>1 DEF CloseCbs
    <2> HIDE DEF r, cb
    <2> QED BY <2>1, ConnCloseTo
  <1> HIDE DEF n
  <1>6. Counts(n, FALSE, TRUE, x, y)
    <2>1. /\ d \in Nat /\ b.cref = One(~no) + One(b.on_shutting_down /\ yes)
          /\ b.cfreed <=> b.cref = 0
          /\ b.ref = One(~b.cfreed) + One(b.connect_cb) + One(b.on_shutting_down /\ yes) + d + x
          /\ b.freed <=> b.ref = 0
          /\ b.mref = One(~b.freed) + One(b.sock = "closing") + One(b.timer = "closing") + y
          /\ b.mfreed <=> b.mref = 0
      BY <1>1, CountsOf
    <2>2. DataWrites(n.writes) = d
      BY <1>5
    <2>3. b.sock # "closing"
      BY <1>1
    <2>4. b.mref # 0
      BY <2>1 DEF One
    <2> HIDE DEF d
    <2> QED BY <1>1, <1>5, <2>1, <2>2, <2>3, <2>4 DEF Counts, One
  <1>7. Handles(n)
    BY <1>1, <1>5 DEF Handles
  <1>8. Ending(n) /\ "early" \notin n.left /\ n.on_shutting_down
    BY <1>1, <1>5 DEF Ending
  <1>9. v.freed = FALSE /\ Over(n, v.freed, v.held, x, y)
    BY <1>6, <1>7, <1>8, EndingOver
  <1> QED BY <1>3, <1>4, <1>9 DEF Ends

\* The close of an established one.
LEMMA ShutOpen ==
    ASSUME NEW v, CoreOver(v), v.held, NEW e, NEW m, NEW x \in Nat, NEW y \in Nat,
           LiveConn(m, x, y), m.sock = "connected"
    PROVE  Ends(client_tunnel_shutdown(State(v, e, m)), e, x, y)
  <1> DEFINE b == Begun(m)
             l == (IF b.connect_cb THEN {"handshake"} ELSE {})
                  \cup (IF b.writable THEN {} ELSE {"reset"})
             no == FALSE
             yes == TRUE
             d == DataWrites(b.writes)
  <1>1. /\ Handles(b) /\ Counts(b, FALSE, TRUE, x, y) /\ b \in Connection
        /\ b.on_shutting_down = TRUE /\ b.left = {} /\ ~b.shutting
        /\ b.sock = m.sock /\ b.writes \in Seq(WriteKinds)
    <2> HIDE DEF b
    <2> QED BY BegunFacts DEF b
  <1>2. IsCore(v) /\ m.ctx
    BY CoreOverFacts DEF LiveConn, Handles
  <1>3. client_tunnel_shutdown(State(v, e, m)) = uv_mbed_close(State(v, e, b))
    BY <1>2, ShutBegun DEF Begun
  <1> HIDE DEF b
  <1>4. /\ l \in SUBSET Leftovers /\ "early" \notin l
        /\ ~b.writable => "reset" \in l
    BY DEF Leftovers
  <1>5. ASSUME NEW q \in Seq(WriteKinds), DataWrites(q) = d, NEW n, n = HushTo(b, l, q)
        PROVE  /\ Counts(n, FALSE, TRUE, x, y) /\ Handles(n) /\ n \in Connection
               /\ n.on_shutting_down /\ "early" \notin n.left /\ ~n.reading /\ ~n.shutting
               /\ n.sock = "connected" /\ n.writable = b.writable /\ n.left = l /\ n.writes = q
    <2>1. /\ n \in Connection /\ n.ctx = b.ctx /\ n.cref = b.cref
          /\ n.cfreed = b.cfreed /\ n.ref = b.ref /\ n.freed = b.freed
          /\ n.mref = b.mref /\ n.mfreed = b.mfreed /\ n.connect_cb = b.connect_cb
          /\ n.on_shutting_down = b.on_shutting_down /\ n.dns = b.dns
          /\ n.sock = b.sock /\ n.close_cb = b.close_cb /\ n.connecting = b.connecting
          /\ n.timer = b.timer /\ ~n.reading /\ n.writable = b.writable
          /\ n.writes = q /\ n.shutting = b.shutting /\ n.handshake = b.handshake
          /\ n.left = l
      <3>1. b \in Connection /\ l \in SUBSET Leftovers
        BY <1>1, <1>4
      <3> HIDE DEF l
      <3> QED BY <3>1, <1>5, ConnHushTo
    <2>2. Counts(n, FALSE, TRUE, x, y)
      <3>1. Counts(b, no, yes, x, y)
        BY <1>1
      <3>2. DataWrites(n.writes) = DataWrites(b.writes)
        BY <1>5, <2>1
      <3> HIDE DEF no, yes, l
      <3>3. Counts(n, no, yes, x, y)
        BY <2>1, <3>1, <3>2 DEF Counts
      <3> QED BY <3>3 DEF no, yes
    <2>3. Handles(n)
      <3> HIDE DEF l
      <3> QED BY <1>1, <2>1 DEF Handles
    <2> QED BY <1>1, <1>4, <2>1, <2>2, <2>3
  <1>6. CASE b.handshake = "over" /\ b.writable
    <2> DEFINE q == Append(b.writes, "notify")
               n == HushTo(b, l, q)
    <2>1. uv_mbed_close(State(v, e, b)) = State(v, e, n)
      BY <1>1, <1>2, <1>6, CloseForms
    <2>2. /\ q \in Seq(WriteKinds) /\ DataWrites(q) = DataWrites(b.writes)
          /\ Len(b.writes) + 1 \in DOMAIN q /\ q[Len(b.writes) + 1] = "notify"
      BY <1>1, DataOther
    <2> HIDE DEF q, l
    <2>3. /\ Counts(n, FALSE, TRUE, x, y) /\ Handles(n)
          /\ n.on_shutting_down /\ "early" \notin n.left /\ ~n.reading
          /\ n.sock = "connected" /\ n.writable = b.writable /\ n.writes = q
      <3> HIDE DEF n
      <3> QED BY <1>5, <2>2 DEF n
    <2> HIDE DEF n
    <2>4. Ending(n)
      BY <1>6, <2>2, <2>3 DEF Ending, Notified
    <2>5. v.freed = FALSE /\ Over(n, v.freed, v.held, x, y)
      BY <2>3, <2>4, EndingOver
    <2> QED BY <1>3, <2>1, <2>5 DEF Ends
  <1>7. CASE ~b.writable
    <2> DEFINE n == HushTo(b, l, b.writes)
    <2>1. uv_mbed_close(State(v, e, b)) = State(v, e, n)
      BY <1>1, <1>2, <1>7, CloseForms
    <2> HIDE DEF l
    <2>3. /\ Counts(n, FALSE, TRUE, x, y) /\ Handles(n)
          /\ n.on_shutting_down /\ "early" \notin n.left /\ ~n.reading
          /\ n.sock = "connected" /\ n.left = l
      <3> HIDE DEF n
      <3> QED BY <1>1, <1>5 DEF n
    <2> HIDE DEF n
    <2>4. Ending(n)
      BY <1>4, <1>7, <2>3 DEF Ending
    <2>5. v.freed = FALSE /\ Over(n, v.freed, v.held, x, y)
      BY <2>3, <2>4, EndingOver
    <2> QED BY <1>3, <2>1, <2>5 DEF Ends
  <1>8. CASE b.handshake # "over" /\ b.writable
    <2> DEFINE k == HushTo(b, l, b.writes)
               n == ShutTo(k)
    <2>1. uv_mbed_close(State(v, e, b)) = State(v, e, n)
      BY <1>1, <1>2, <1>8, CloseForms
    <2> HIDE DEF l
    <2>3. /\ Counts(k, FALSE, TRUE, x, y) /\ Handles(k) /\ k \in Connection
          /\ k.on_shutting_down /\ "early" \notin k.left /\ ~k.reading
          /\ k.sock = "connected" /\ k.left = l
      <3> HIDE DEF k
      <3> QED BY <1>1, <1>5 DEF k
    <2> HIDE DEF k
    <2>4. /\ n \in Connection /\ n.ctx = k.ctx /\ n.cref = k.cref
          /\ n.cfreed = k.cfreed /\ n.ref = k.ref /\ n.freed = k.freed
          /\ n.mref = k.mref /\ n.mfreed = k.mfreed /\ n.connect_cb = k.connect_cb
          /\ n.on_shutting_down = k.on_shutting_down /\ n.dns = k.dns
          /\ n.sock = k.sock /\ n.close_cb = k.close_cb /\ n.connecting = k.connecting
          /\ n.timer = k.timer /\ n.reading = k.reading /\ ~n.writable
          /\ n.writes = k.writes /\ n.shutting /\ n.handshake = k.handshake
          /\ n.left = k.left
      <3>1. k \in Connection
        BY <2>3
      <3> QED BY <3>1, ConnShutTo
    <2> HIDE DEF n
    <2>5. Counts(n, FALSE, TRUE, x, y)
      <3>1. Counts(k, no, yes, x, y)
        BY <2>3
      <3> HIDE DEF no, yes
      <3>3. Counts(n, no, yes, x, y)
        BY <2>4, <3>1 DEF Counts
      <3> QED BY <3>3 DEF no, yes
    <2>6. Handles(n)
      BY <2>3, <2>4 DEF Handles
    <2>7. Ending(n) /\ "early" \notin n.left /\ n.on_shutting_down
      BY <2>3, <2>4 DEF Ending
    <2>8. v.freed = FALSE /\ Over(n, v.freed, v.held, x, y)
      BY <2>5, <2>6, <2>7, EndingOver
    <2> QED BY <1>3, <2>1, <2>8 DEF Ends
  <1> QED BY <1>6, <1>7, <1>8

\* client_tunnel_shutdown, of a tunnel that its connection holds.
LEMMA ShutConn ==
    ASSUME NEW v, CoreOver(v), v.held, v.ref # 1, NEW e, NEW m, NEW x \in Nat, NEW y \in Nat,
           LiveConn(m, x, y)
    PROVE  Ends(client_tunnel_shutdown(State(v, e, m)), e, x, y)
  <1>1. m.sock \in {"none", "connecting", "failed", "connected", "closing"}
    <2>1. m \in Connection /\ m.sock # "closed"
      BY DEF LiveConn, Handles
    <2> QED BY <2>1, ConnFields
  <1>2. CASE m.sock \in {"none", "closing"}
    BY <1>2, ShutNone
  <1>3. CASE m.sock \in {"connecting", "failed"}
    BY <1>3, ShutDial
  <1>4. CASE m.sock = "connected"
    BY <1>4, ShutOpen
  <1> QED BY <1>1, <1>2, <1>3, <1>4

-----------------------------------------------------------------------------
(* Live tunnels and tunnels that were shut down. *)

\* A tunnel that was shut down, made of and taken to its parts.
LEMMA DeadIntro ==
    ASSUME NEW c, CoreOver(c), NEW e \in Extra, NEW m, Over(m, c.freed, c.held, 0, 0),
           NEW u, u = State(c, e, m)
    PROVE  Good(u)
  <1>1. IsCore(c)
    BY CoreOverFacts
  <1>2. u.data = Data(e, m) /\ u.data.tls = m /\ u.freed = c.freed /\ u.held = c.held
    BY StateFields
  <1>3. CoreOf(u) = CoreOf(c)
    BY WholeFields DEF State
  <1>4. CoreOf(u) = c
    BY <1>1, <1>3 DEF IsCore
  <1>5. ExtraOf(u.data) = e
    BY <1>2, DataApart
  <1> QED BY <1>2, <1>4, <1>5 DEF Good, DeadOK

LEMMA DeadElim ==
    ASSUME NEW u, DeadOK(u)
    PROVE  \E c, e, m : /\ u = State(c, e, m) /\ CoreOver(c) /\ e \in Extra
                        /\ Over(m, c.freed, c.held, 0, 0) /\ u.is_terminated = TRUE
  <1> DEFINE c == CoreOf(u)
             e == ExtraOf(u.data)
             m == u.data.tls
  <1>1. /\ u = State(c, e, m) /\ CoreOver(c) /\ e \in Extra
        /\ Over(m, u.freed, u.held, 0, 0)
    BY DEF DeadOK
  <1> HIDE DEF c, e, m
  <1>2. u.freed = c.freed /\ u.held = c.held /\ u.is_terminated = c.is_terminated
    BY <1>1, StateFields
  <1>3. c.is_terminated = TRUE
    BY <1>1, CoreOverFacts
  <1> QED BY <1>1, <1>2, <1>3

\* Just shut down, and nothing left to return.
LEMMA EndsGood ==
    ASSUME NEW u, NEW e \in Extra, Ends(u, e, 0, 0)
    PROVE  Good(u)
  <1>1. PICK c, m : /\ u = State(c, e, m) /\ CoreOver(c) /\ c.freed = FALSE
                    /\ Over(m, FALSE, c.held, 0, 0)
    BY DEF Ends
  <1>2. Over(m, c.freed, c.held, 0, 0)
    BY <1>1
  <1> QED BY <1>1, <1>2, DeadIntro

\* What the stages say of the sockets and of client_ctx.
LEMMA StageFacts ==
    ASSUME NEW st, NEW i, NEW o, NEW h, NEW e, NEW m, StageOK(st, i, o, h, e, m)
    PROVE  /\ i \in OpenSocket /\ o \in OpenSocket /\ NoDial(i) /\ NoDial(o) /\ Unused(o)
           /\ st \in tls_stage /\ e \in Extra /\ e.bad = {} /\ st # "streaming"
  <1>1. o \in OpenSocket /\ NoDial(o) /\ Unused(o)
    BY DEF StageOK, Unused, Sock, NoDial
  <1>2. CASE Unconnected(st, i, e)
    BY <1>1, <1>2 DEF Unconnected, Reading, Writing, Busy, Sock, NoDial, Greeting, Greeted, Fresh,
                 tls_stage, tunnel_stage
  <1>3. CASE Connected(st, i, e, m)
    <2>1. CASE Waits(i, e) /\ st \in {"tls_connecting", "tls_websocket_upgrade"}
               /\ (Stored(e) \/ Asked(e))
      BY <1>1, <2>1 DEF Waits, Unused, Quiet, Sock, NoDial, Stored, Asked, Fresh, tls_stage
    <2>2. CASE st = "tls_streaming" /\ Streams(i, e) /\ Flows(e)
      BY <1>1, <2>2 DEF Streams, Unused, Flow, Sock, NoDial, Flows, tls_stage
    <2> QED BY <1>3, <2>1, <2>2 DEF Connected
  <1> QED BY <1>2, <1>3 DEF StageOK

\* A live tunnel, made of and taken to its parts.
LEMMA LiveIntro ==
    ASSUME NEW i, NEW o, NEW st, NEW h \in BOOLEAN, NEW e, NEW m,
           StageOK(st, i, o, h, e, m), NEW u, u = Live(i, o, st, h, e, m)
    PROVE  Good(u)
  <1>1. /\ u.sock["incoming"] = i /\ u.sock["outgoing"] = o /\ u.stage = st /\ u.held = h
        /\ u.data = Data(e, m) /\ u.data.tls = m
    BY LiveFields
  <1>2. e \in Extra
    BY StageFacts
  <1>3. ExtraOf(u.data) = e
    BY <1>1, <1>2, DataApart
  <1> QED BY <1>1, <1>3 DEF Good, LiveOK

LEMMA LiveElim ==
    ASSUME NEW u, LiveOK(u)
    PROVE  \E i, o, st, e, m, h :
              /\ h \in BOOLEAN /\ u = Live(i, o, st, h, e, m)
              /\ StageOK(st, i, o, h, e, m)
  BY DEF LiveOK

\* The connection of a tunnel that is about to be shut down.
Kept(h, m, x, y) ==
    \/ h /\ LiveConn(m, x, y)
    \/ ~h /\ Lost(m, FALSE) /\ x = 0 /\ y = 0

LEMMA LostNone == Lost(NoTls, FALSE) /\ NoTls \in Connection
  <1>1. NoTls \in Connection
    BY DataNone DEF NoTls, Connection, WriteKinds
  <1> QED BY <1>1 DEF Lost, NoTls, One

LEMMA StageKept ==
    ASSUME NEW st, NEW i, NEW o, NEW h, NEW e, NEW m, StageOK(st, i, o, h, e, m)
    PROVE  Kept(h, m, 0, 0)
  BY LostNone DEF StageOK, Kept

\* Steps that shut nothing down.
LEMMA OverridesLive ==
    ASSUME NEW u, NEW v, ~v.is_terminated, ~v.freed
    PROVE  Overrides(u, v) = v
  BY DEF Overrides, Destroying

\* Steps that do.
LEMMA OverridesShut ==
    ASSUME NEW u, ~u.is_terminated, ~u.freed, NEW c, CoreOver(c), c.freed = FALSE,
           NEW h \in BOOLEAN, c.held = h, c.ref = 2 + One(h), NEW e, NEW m,
           NEW x \in Nat, NEW y \in Nat, Kept(h, m, x, y), NEW v, v = State(c, e, m)
    PROVE  Ends(Overrides(u, v), e, x, y)
  <1> DEFINE w == client_tunnel_shutdown(v)
  <1>1. v.is_terminated = TRUE /\ Tls(v) = m
    <2>1. v.is_terminated = c.is_terminated /\ Tls(v) = m
      BY StateFields
    <2> QED BY <2>1, CoreOverFacts
  <1>2. Overrides(u, v) = Destroying(u, w)
    BY <1>1 DEF Overrides
  <1>3. Ends(w, e, x, y)
    <2>1. CASE h
      <3>1. c.held /\ c.ref # 1 /\ LiveConn(m, x, y)
        BY <2>1 DEF Kept, One
      <3> DEFINE z == client_tunnel_shutdown(State(c, e, m))
      <3>2. Ends(z, e, x, y)
        BY <3>1, ShutConn
      <3> QED BY <3>2
    <2>2. CASE ~h
      <3>1. Lost(m, FALSE) /\ x = 0 /\ y = 0 /\ c.held = FALSE
        BY <2>2 DEF Kept
      <3>2. w = v
        BY <1>1, <3>1 DEF Lost, client_tunnel_shutdown
      <3>3. Over(m, FALSE, c.held, x, y)
        BY <3>1 DEF Over
      <3> HIDE DEF w
      <3> QED BY <3>2, <3>3 DEF Ends
    <2> QED BY <2>1, <2>2
  <1> HIDE DEF w
  <1>4. PICK d, n : w = State(d, e, n) /\ d.freed = FALSE
    BY <1>3 DEF Ends
  <1>5. ~w.freed
    BY <1>4, StateFields
  <1>6. Destroying(u, w) = w
    BY <1>5 DEF Destroying
  <1> QED BY <1>2, <1>3, <1>6

LEMMA ShutLive ==
    ASSUME NEW u, ~u.is_terminated, ~u.freed, NEW i \in OpenSocket, NEW o \in OpenSocket,
           NEW st \in tls_stage, NEW h \in BOOLEAN, NoDial(i), NoDial(o), NEW e, NEW m,
           NEW x \in Nat, NEW y \in Nat, Kept(h, m, x, y), NEW v, v = Live(i, o, st, h, e, m)
    PROVE  Ends(Overrides(u, tunnel_shutdown(v)), e, x, y)
  <1> DEFINE c == Alive(i, o, st, h)
             w == tunnel_shutdown(c)
  <1>1. IsCore(c)
    BY AliveFacts
  <1>2. v = Whole(c, Data(e, m))
    BY DEF Live, State
  <1>3. CoreOver(w) /\ w.freed = FALSE /\ w.held = h /\ w.ref = 2 + One(h)
    <2>1. w = tunnel_shutdown(Alive(i, o, st, h))
      OBVIOUS
    <2> HIDE DEF w, c
    <2>2. CoreOver(w) /\ ~w.freed /\ w.held = h /\ w.ref = 2 + One(h)
      BY <2>1, CoreShut
    <2>3. w.freed \in BOOLEAN
      BY <2>2, CoreOverFacts
    <2> QED BY <2>2, <2>3
  <1> HIDE DEF c
  <1>4. tunnel_shutdown(v) = State(w, e, m)
    BY <1>1, <1>2, WholeShutdown DEF State
  <1> HIDE DEF w
  <1> QED BY <1>3, <1>4, OverridesShut

\* The same for the shutdown by a callback of the connection.
LEMMA ShutdownLive ==
    ASSUME NEW i \in OpenSocket, NEW o \in OpenSocket,
           NEW st \in tls_stage, NEW h \in BOOLEAN, NoDial(i), NoDial(o), NEW e, NEW m,
           NEW x \in Nat, NEW y \in Nat, Kept(h, m, x, y), NEW v, v = Live(i, o, st, h, e, m)
    PROVE  Ends(Shutdown(v), e, x, y)
  <1>1. ~v.is_terminated /\ ~v.freed
    BY LiveFields
  <1>2. Ends(Overrides(v, tunnel_shutdown(v)), e, x, y)
    BY <1>1, ShutLive
  <1> QED BY <1>2 DEF Shutdown

\* And of a tunnel that was shut down before.
LEMMA ShutdownDead ==
    ASSUME NEW u, u.is_terminated
    PROVE  Shutdown(u) = u
  BY DEF Shutdown, tunnel_shutdown, Overrides, Destroying

-----------------------------------------------------------------------------
(* What the callbacks of a connection do to its handles and its counts. *)

\* Something that is counted comes or goes.
LEMMA CountsMoved ==
    ASSUME NEW m \in Connection, NEW n \in Connection, NEW g \in BOOLEAN, NEW h \in BOOLEAN,
           NEW x \in Nat, NEW y \in Nat, NEW xx \in Nat, NEW yy \in Nat,
           Counts(m, g, h, x, y),
           n.cref = m.cref, n.cfreed = m.cfreed, n.freed = m.freed, n.mfreed = m.mfreed,
           n.on_shutting_down = m.on_shutting_down,
           n.ref + One(m.connect_cb) + DataWrites(m.writes) + x
              = m.ref + One(n.connect_cb) + DataWrites(n.writes) + xx,
           n.mref + One(m.sock = "closing") + One(m.timer = "closing") + y
              = m.mref + One(n.sock = "closing") + One(n.timer = "closing") + yy,
           n.ref = 0 <=> m.ref = 0, n.mref = 0 <=> m.mref = 0
    PROVE  Counts(n, g, h, xx, yy)
  <1> DEFINE d == DataWrites(m.writes)
             dd == DataWrites(n.writes)
             mc == One(m.sock = "closing") + One(m.timer = "closing")
             nc == One(n.sock = "closing") + One(n.timer = "closing")
             cl == One(m.on_shutting_down /\ h)
             mo == One(m.connect_cb)
             no == One(n.connect_cb)
             cf == One(~m.cfreed)
             fr == One(~m.freed)
  <1>1. /\ d \in Nat /\ m.cref = One(~g) + cl
        /\ m.cfreed <=> m.cref = 0
        /\ m.ref = cf + mo + cl + d + x
        /\ m.freed <=> m.ref = 0
        /\ m.mref = fr + One(m.sock = "closing") + One(m.timer = "closing") + y
        /\ m.mfreed <=> m.mref = 0
    BY CountsOf
  <1>2. dd \in Nat
    BY ConnFields, DataFinite
  <1>3. m.ref \in Nat /\ n.ref \in Nat /\ m.mref \in Nat /\ n.mref \in Nat
    BY ConnFields
  <1>4. mo \in Nat /\ no \in Nat /\ cf \in Nat /\ fr \in Nat /\ cl \in Nat
        /\ One(m.sock = "closing") \in Nat /\ One(m.timer = "closing") \in Nat
        /\ One(n.sock = "closing") \in Nat /\ One(n.timer = "closing") \in Nat
    BY DEF One
  <1>5. cl = One(n.on_shutting_down /\ h) /\ cf = One(~n.cfreed) /\ fr = One(~n.freed)
    OBVIOUS
  <1>6. n.ref + mo + d + x = m.ref + no + dd + xx
    OBVIOUS
  <1> DEFINE sm == One(m.sock = "closing")
             tm == One(m.timer = "closing")
             sn == One(n.sock = "closing")
             tn == One(n.timer = "closing")
  <1>7. n.mref + sm + tm + y = m.mref + sn + tn + yy
    OBVIOUS
  <1>8. n.ref = cf + no + cl + dd + xx
    <2> DEFINE a == m.ref
               b == n.ref
    <2>1. a = cf + mo + cl + d + x /\ b + mo + d + x = a + no + dd + xx
      BY <1>1, <1>6
    <2>2. a \in Nat /\ b \in Nat /\ d \in Nat /\ dd \in Nat
          /\ mo \in Nat /\ no \in Nat /\ cf \in Nat /\ cl \in Nat
      BY <1>1, <1>2, <1>3, <1>4
    <2> HIDE DEF a, b, d, dd, mo, no, cf, cl
    <2>3. b = cf + no + cl + dd + xx
      BY <2>1, <2>2
    <2> QED BY <2>3 DEF b
  <1>9. n.mref = fr + sn + tn + yy
    <2>1. m.mref = fr + sm + tm + y
      BY <1>1
    <2> HIDE DEF sm, tm, sn, tn, fr
    <2> QED BY <2>1, <1>3, <1>4, <1>7 DEF sm, tm, sn, tn
  <1>10. n.freed <=> n.ref = 0
    BY <1>1
  <1>11. n.mfreed <=> n.mref = 0
    BY <1>1
  <1>12. n.cfreed <=> n.cref = 0
    BY <1>1
  <1> HIDE DEF d
  <1> QED BY <1>1, <1>5, <1>8, <1>9, <1>10, <1>11, <1>12 DEF Counts

\* Nothing does.
LEMMA CountsKept ==
    ASSUME NEW m \in Connection, NEW n \in Connection, NEW g \in BOOLEAN, NEW h \in BOOLEAN,
           NEW x \in Nat, NEW y \in Nat, Counts(m, g, h, x, y),
           n.cref = m.cref, n.cfreed = m.cfreed, n.ref = m.ref, n.freed = m.freed,
           n.mref = m.mref, n.mfreed = m.mfreed,
           n.on_shutting_down = m.on_shutting_down, n.connect_cb = m.connect_cb,
           n.sock = "closing" <=> m.sock = "closing",
           n.timer = "closing" <=> m.timer = "closing",
           DataWrites(n.writes) = DataWrites(m.writes)
    PROVE  Counts(n, g, h, x, y)
  <1>1. m.ref \in Nat /\ m.mref \in Nat /\ DataWrites(m.writes) \in Nat
    BY ConnFields, DataFinite
  <1>2. One(n.connect_cb) = One(m.connect_cb)
    OBVIOUS
  <1>3. One(n.sock = "closing") = One(m.sock = "closing")
        /\ One(n.timer = "closing") = One(m.timer = "closing")
    BY DEF One
  <1>4. n.ref + One(m.connect_cb) + DataWrites(m.writes) + x
          = m.ref + One(n.connect_cb) + DataWrites(n.writes) + x
    BY <1>2
  <1>5. n.mref + One(m.sock = "closing") + One(m.timer = "closing") + y
          = m.mref + One(n.sock = "closing") + One(n.timer = "closing") + y
    BY <1>3
  <1> QED BY <1>4, <1>5, CountsMoved

-----------------------------------------------------------------------------
(* Each kind of update, as it is made by a callback. *)

LEMMA CountsAlive ==
    ASSUME NEW m \in Connection, NEW g \in BOOLEAN, NEW h \in BOOLEAN, NEW x \in Nat, NEW y \in Nat,
           Counts(m, g, h, x, y)
    PROVE  /\ m.connect_cb \/ ~m.cfreed => m.ref # 0
           /\ m.ref # 0 => m.mref # 0 /\ ~m.freed /\ ~m.mfreed
  <1> DEFINE d == DataWrites(m.writes)
             c == One(m.on_shutting_down /\ h)
             s == One(m.sock = "closing")
             z == One(m.timer = "closing")
  <1>1. /\ d \in Nat /\ m.ref = One(~m.cfreed) + One(m.connect_cb) + c + d + x
        /\ m.freed <=> m.ref = 0
        /\ m.mref = One(~m.freed) + s + z + y
        /\ m.mfreed <=> m.mref = 0
    BY CountsOf
  <1>2. c \in Nat /\ s \in Nat /\ z \in Nat
    BY DEF One
  <1> HIDE DEF c, d, s, z
  <1>3. One(~m.cfreed) \in Nat /\ One(m.connect_cb) \in Nat
        /\ (m.connect_cb => One(m.connect_cb) = 1) /\ (~m.cfreed => One(~m.cfreed) = 1)
        /\ (~m.freed => One(~m.freed) = 1)
    BY DEF One
  <1>4. m.connect_cb \/ ~m.cfreed => m.ref # 0
    BY <1>1, <1>2, <1>3
  <1>5. m.ref # 0 => m.mref # 0 /\ ~m.freed /\ ~m.mfreed
    BY <1>1, <1>2, <1>3
  <1> QED BY <1>4, <1>5

\* The lookup is over.
LEMMA HFound ==
    ASSUME NEW m, Handles(m), NEW g \in BOOLEAN, NEW h \in BOOLEAN, NEW x \in Nat, NEW y \in Nat,
           Counts(m, g, h, x, y), NEW n, n = FoundTo(m)
    PROVE  Handles(n) /\ Counts(n, g, h, x, y)
  <1>1. m \in Connection /\ m.mref \in Nat /\ m.ref \in Nat /\ m.writes \in Seq(WriteKinds)
    BY ConnFields DEF Handles
  <1>3. /\ n \in Connection /\ n.ctx = m.ctx /\ n.cref = m.cref /\ n.cfreed = m.cfreed
        /\ n.ref = m.ref /\ n.freed = m.freed /\ n.mref = m.mref /\ n.mfreed = m.mfreed
        /\ n.connect_cb = m.connect_cb /\ n.on_shutting_down = m.on_shutting_down /\ ~n.dns
        /\ n.sock = m.sock /\ n.close_cb = m.close_cb /\ n.connecting = m.connecting
        /\ n.timer = m.timer /\ n.reading = m.reading /\ n.writable = m.writable
        /\ n.writes = m.writes /\ n.shutting = m.shutting /\ n.handshake = m.handshake
        /\ n.left = m.left
    <2>1. m \in Connection
      BY <1>1
    <2>2. n = FoundTo(m)
      OBVIOUS
    <2> QED BY <2>1, <2>2, ConnFoundTo
  <1>5. Counts(n, g, h, x, y)
    <2>1. /\ n.cref = m.cref /\ n.cfreed = m.cfreed /\ n.ref = m.ref /\ n.freed = m.freed
          /\ n.mref = m.mref /\ n.mfreed = m.mfreed
          /\ n.on_shutting_down = m.on_shutting_down /\ n.connect_cb = m.connect_cb
          /\ n.sock = "closing" <=> m.sock = "closing"
          /\ n.timer = "closing" <=> m.timer = "closing"
          /\ DataWrites(n.writes) = DataWrites(m.writes)
      BY <1>1, <1>3
    <2>2. m \in Connection /\ n \in Connection
      BY <1>1, <1>3
    <2> QED BY <2>1, <2>2, CountsKept
  <1>6. Handles(n)
    BY <1>3 DEF Handles
  <1> QED BY <1>5, <1>6

\* uv_tcp_connect is under way.
LEMMA HDial ==
    ASSUME NEW m, Handles(m), NEW g \in BOOLEAN, NEW h \in BOOLEAN, NEW x \in Nat, NEW y \in Nat,
           Counts(m, g, h, x, y), NEW n, n = DialTo(m)
    PROVE  m.sock = "none" /\ m.connect_cb /\ ~m.dns =>
              Handles(n) /\ Counts(n, g, h, x, y)
  <1>1. m \in Connection /\ m.mref \in Nat /\ m.ref \in Nat /\ m.writes \in Seq(WriteKinds)
    BY ConnFields DEF Handles
  <1>3. /\ n \in Connection /\ n.ctx = m.ctx /\ n.cref = m.cref /\ n.cfreed = m.cfreed
        /\ n.ref = m.ref /\ n.freed = m.freed /\ n.mref = m.mref /\ n.mfreed = m.mfreed
        /\ n.connect_cb = m.connect_cb /\ n.on_shutting_down = m.on_shutting_down
        /\ n.dns = m.dns /\ n.sock = "connecting" /\ n.close_cb = m.close_cb /\ n.connecting
        /\ n.timer = "running" /\ n.reading = m.reading /\ n.writable = m.writable
        /\ n.writes = m.writes /\ n.shutting = m.shutting /\ n.handshake = m.handshake
        /\ n.left = m.left
    <2>1. m \in Connection
      BY <1>1
    <2>2. n = DialTo(m)
      OBVIOUS
    <2> QED BY <2>1, <2>2, ConnDialTo
  <1>4. SUFFICES ASSUME m.sock = "none" /\ m.connect_cb /\ ~m.dns
        PROVE  Handles(n) /\ Counts(n, g, h, x, y)
    OBVIOUS
  <1>5. Counts(n, g, h, x, y)
    <2>1. /\ n.cref = m.cref /\ n.cfreed = m.cfreed /\ n.ref = m.ref /\ n.freed = m.freed
          /\ n.mref = m.mref /\ n.mfreed = m.mfreed
          /\ n.on_shutting_down = m.on_shutting_down /\ n.connect_cb = m.connect_cb
          /\ n.sock = "closing" <=> m.sock = "closing"
          /\ n.timer = "closing" <=> m.timer = "closing"
          /\ DataWrites(n.writes) = DataWrites(m.writes)
      BY <1>4, <1>1, <1>3 DEF Handles
    <2>2. m \in Connection /\ n \in Connection
      BY <1>1, <1>3
    <2> QED BY <2>1, <2>2, CountsKept
  <1>6. Handles(n)
    BY <1>4, <1>3 DEF Handles
  <1> QED BY <1>5, <1>6

\* uv_tcp_connect fails.
LEMMA HFail ==
    ASSUME NEW m, Handles(m), NEW g \in BOOLEAN, NEW h \in BOOLEAN, NEW x \in Nat, NEW y \in Nat,
           Counts(m, g, h, x, y), NEW n, n = SockTo(m, "failed")
    PROVE  m.sock = "none" /\ ~m.dns =>
              Handles(n) /\ Counts(n, g, h, x, y)
  <1> DEFINE a == "failed"
  <1>1. m \in Connection /\ m.mref \in Nat /\ m.ref \in Nat /\ m.writes \in Seq(WriteKinds)
    BY ConnFields DEF Handles
  <1>2. a \in SockStates
    BY DEF SockStates
  <1>3. /\ n \in Connection /\ n.ctx = m.ctx /\ n.cref = m.cref /\ n.cfreed = m.cfreed
        /\ n.ref = m.ref /\ n.freed = m.freed /\ n.mref = m.mref /\ n.mfreed = m.mfreed
        /\ n.connect_cb = m.connect_cb /\ n.on_shutting_down = m.on_shutting_down
        /\ n.dns = m.dns /\ n.sock = a /\ n.close_cb = m.close_cb
        /\ n.connecting = m.connecting /\ n.timer = m.timer /\ n.reading = m.reading
        /\ n.writable = m.writable /\ n.writes = m.writes /\ n.shutting = m.shutting
        /\ n.handshake = m.handshake /\ n.left = m.left
    <2>1. m \in Connection
      BY <1>1
    <2>2. n = SockTo(m, a)
      OBVIOUS
    <2> HIDE DEF a
    <2> QED BY <2>1, <2>2, <1>2, ConnSockTo
  <1> HIDE DEF a
  <1>4. SUFFICES ASSUME m.sock = "none" /\ ~m.dns
        PROVE  Handles(n) /\ Counts(n, g, h, x, y)
    OBVIOUS
  <1>5. Counts(n, g, h, x, y)
    <2>1. /\ n.cref = m.cref /\ n.cfreed = m.cfreed /\ n.ref = m.ref /\ n.freed = m.freed
          /\ n.mref = m.mref /\ n.mfreed = m.mfreed
          /\ n.on_shutting_down = m.on_shutting_down /\ n.connect_cb = m.connect_cb
          /\ n.sock = "closing" <=> m.sock = "closing"
          /\ n.timer = "closing" <=> m.timer = "closing"
          /\ DataWrites(n.writes) = DataWrites(m.writes)
      BY <1>4, <1>1, <1>3 DEF a
    <2>2. m \in Connection /\ n \in Connection
      BY <1>1, <1>3
    <2> QED BY <2>1, <2>2, CountsKept
  <1>6. Handles(n)
    BY <1>4, <1>3 DEF Handles, a
  <1> QED BY <1>5, <1>6

\* The connect timer expires, of a handle that is closing.
LEMMA HExpired ==
    ASSUME NEW m, Handles(m), NEW g \in BOOLEAN, NEW h \in BOOLEAN, NEW x \in Nat, NEW y \in Nat,
           Counts(m, g, h, x, y), NEW n, n = TimerTo(m, "expired")
    PROVE  m.timer = "running" /\ m.sock # "connecting" =>
              Handles(n) /\ Counts(n, g, h, x, y)
  <1> DEFINE a == "expired"
  <1>1. m \in Connection /\ m.mref \in Nat /\ m.ref \in Nat /\ m.writes \in Seq(WriteKinds)
    BY ConnFields DEF Handles
  <1>2. a \in TimerStates
    BY DEF TimerStates
  <1>3. /\ n \in Connection /\ n.ctx = m.ctx /\ n.cref = m.cref /\ n.cfreed = m.cfreed
        /\ n.ref = m.ref /\ n.freed = m.freed /\ n.mref = m.mref /\ n.mfreed = m.mfreed
        /\ n.connect_cb = m.connect_cb /\ n.on_shutting_down = m.on_shutting_down
        /\ n.dns = m.dns /\ n.sock = m.sock /\ n.close_cb = m.close_cb
        /\ n.connecting = m.connecting /\ n.timer = a /\ n.reading = m.reading
        /\ n.writable = m.writable /\ n.writes = m.writes /\ n.shutting = m.shutting
        /\ n.handshake = m.handshake /\ n.left = m.left
    <2>1. m \in Connection
      BY <1>1
    <2>2. n = TimerTo(m, a)
      OBVIOUS
    <2> HIDE DEF a
    <2> QED BY <2>1, <2>2, <1>2, ConnTimerTo
  <1> HIDE DEF a
  <1>4. SUFFICES ASSUME m.timer = "running" /\ m.sock # "connecting"
        PROVE  Handles(n) /\ Counts(n, g, h, x, y)
    OBVIOUS
  <1>5. Counts(n, g, h, x, y)
    <2>1. /\ n.cref = m.cref /\ n.cfreed = m.cfreed /\ n.ref = m.ref /\ n.freed = m.freed
          /\ n.mref = m.mref /\ n.mfreed = m.mfreed
          /\ n.on_shutting_down = m.on_shutting_down /\ n.connect_cb = m.connect_cb
          /\ n.sock = "closing" <=> m.sock = "closing"
          /\ n.timer = "closing" <=> m.timer = "closing"
          /\ DataWrites(n.writes) = DataWrites(m.writes)
      BY <1>4, <1>1, <1>3 DEF a
    <2>2. m \in Connection /\ n \in Connection
      BY <1>1, <1>3
    <2> QED BY <2>1, <2>2, CountsKept
  <1>6. Handles(n)
    BY <1>4, <1>3 DEF Handles, a
  <1> QED BY <1>5, <1>6

\* Another flight of the handshake.
LEMMA HFlight ==
    ASSUME NEW m, Handles(m), NEW g \in BOOLEAN, NEW h \in BOOLEAN, NEW x \in Nat, NEW y \in Nat,
           Counts(m, g, h, x, y), NEW n, n = FlightTo(m, "flight", Append(m.writes, "handshake"))
    PROVE  m.reading /\ m.handshake = "begun" =>
              Handles(n) /\ Counts(n, g, h, x, y)
  <1> DEFINE a == "flight"
             q == Append(m.writes, "handshake")
  <1>1. m \in Connection /\ m.mref \in Nat /\ m.ref \in Nat /\ m.writes \in Seq(WriteKinds)
    BY ConnFields DEF Handles
  <1>2. a \in ShakeStates /\ q \in Seq(WriteKinds)
    BY <1>1, DataOther DEF ShakeStates
  <1>3. /\ n \in Connection /\ n.ctx = m.ctx /\ n.cref = m.cref /\ n.cfreed = m.cfreed
        /\ n.ref = m.ref /\ n.freed = m.freed /\ n.mref = m.mref /\ n.mfreed = m.mfreed
        /\ n.connect_cb = m.connect_cb /\ n.on_shutting_down = m.on_shutting_down
        /\ n.dns = m.dns /\ n.sock = m.sock /\ n.close_cb = m.close_cb
        /\ n.connecting = m.connecting /\ n.timer = m.timer /\ n.reading = m.reading
        /\ n.writable = m.writable /\ n.writes = q /\ n.shutting = m.shutting
        /\ n.handshake = a /\ n.left = m.left
    <2>1. m \in Connection
      BY <1>1
    <2>2. n = FlightTo(m, a, q)
      OBVIOUS
    <2> HIDE DEF a, q
    <2> QED BY <2>1, <2>2, <1>2, ConnFlightTo
  <1>7. DataWrites(q) = DataWrites(m.writes)
    BY <1>1, DataOther
  <1> HIDE DEF a, q
  <1>4. SUFFICES ASSUME m.reading /\ m.handshake = "begun"
        PROVE  Handles(n) /\ Counts(n, g, h, x, y)
    OBVIOUS
  <1>5. Counts(n, g, h, x, y)
    <2>1. /\ n.cref = m.cref /\ n.cfreed = m.cfreed /\ n.ref = m.ref /\ n.freed = m.freed
          /\ n.mref = m.mref /\ n.mfreed = m.mfreed
          /\ n.on_shutting_down = m.on_shutting_down /\ n.connect_cb = m.connect_cb
          /\ n.sock = "closing" <=> m.sock = "closing"
          /\ n.timer = "closing" <=> m.timer = "closing"
          /\ DataWrites(n.writes) = DataWrites(m.writes)
      BY <1>4, <1>1, <1>3, <1>7
    <2>2. m \in Connection /\ n \in Connection
      BY <1>1, <1>3
    <2> QED BY <2>1, <2>2, CountsKept
  <1>6. Handles(n)
    BY <1>4, <1>3 DEF Handles, a
  <1> QED BY <1>5, <1>6

\* The handshake ends.
LEMMA HShake ==
    ASSUME NEW m, Handles(m), NEW g \in BOOLEAN, NEW h \in BOOLEAN, NEW x \in Nat, NEW y \in Nat,
           Counts(m, g, h, x, y), NEW a \in ShakeStates, NEW n, n = ShakeTo(m, a)
    PROVE  a \in {"over", "failed"} =>
              Handles(n) /\ Counts(n, g, h, x, y)
  <1> DEFINE b == a
  <1>1. m \in Connection /\ m.mref \in Nat /\ m.ref \in Nat /\ m.writes \in Seq(WriteKinds)
    BY ConnFields DEF Handles
  <1>2. b \in ShakeStates
    BY DEF ShakeStates
  <1>3. /\ n \in Connection /\ n.ctx = m.ctx /\ n.cref = m.cref /\ n.cfreed = m.cfreed
        /\ n.ref = m.ref /\ n.freed = m.freed /\ n.mref = m.mref /\ n.mfreed = m.mfreed
        /\ n.connect_cb = m.connect_cb /\ n.on_shutting_down = m.on_shutting_down
        /\ n.dns = m.dns /\ n.sock = m.sock /\ n.close_cb = m.close_cb
        /\ n.connecting = m.connecting /\ n.timer = m.timer /\ n.reading = m.reading
        /\ n.writable = m.writable /\ n.writes = m.writes /\ n.shutting = m.shutting
        /\ n.handshake = b /\ n.left = m.left
    <2>1. m \in Connection
      BY <1>1
    <2>2. n = ShakeTo(m, b)
      OBVIOUS
    <2> HIDE DEF b
    <2> QED BY <2>1, <2>2, <1>2, ConnShakeTo
  <1> HIDE DEF b
  <1>4. SUFFICES ASSUME a \in {"over", "failed"}
        PROVE  Handles(n) /\ Counts(n, g, h, x, y)
    OBVIOUS
  <1>5. Counts(n, g, h, x, y)
    <2>1. /\ n.cref = m.cref /\ n.cfreed = m.cfreed /\ n.ref = m.ref /\ n.freed = m.freed
          /\ n.mref = m.mref /\ n.mfreed = m.mfreed
          /\ n.on_shutting_down = m.on_shutting_down /\ n.connect_cb = m.connect_cb
          /\ n.sock = "closing" <=> m.sock = "closing"
          /\ n.timer = "closing" <=> m.timer = "closing"
          /\ DataWrites(n.writes) = DataWrites(m.writes)
      BY <1>4, <1>1, <1>3
    <2>2. m \in Connection /\ n \in Connection
      BY <1>1, <1>3
    <2> QED BY <2>1, <2>2, CountsKept
  <1>6. Handles(n)
    BY <1>4, <1>3 DEF Handles, b
  <1> QED BY <1>5, <1>6

\* Reading ends.
LEMMA HRead ==
    ASSUME NEW m, Handles(m), NEW g \in BOOLEAN, NEW h \in BOOLEAN, NEW x \in Nat, NEW y \in Nat,
           Counts(m, g, h, x, y), NEW b \in BOOLEAN, NEW n, n = ReadTo(m, b)
    PROVE  m.reading =>
              Handles(n) /\ Counts(n, g, h, x, y)
  <1>1. m \in Connection /\ m.mref \in Nat /\ m.ref \in Nat /\ m.writes \in Seq(WriteKinds)
    BY ConnFields DEF Handles
  <1>3. /\ n \in Connection /\ n.ctx = m.ctx /\ n.cref = m.cref /\ n.cfreed = m.cfreed
        /\ n.ref = m.ref /\ n.freed = m.freed /\ n.mref = m.mref /\ n.mfreed = m.mfreed
        /\ n.connect_cb = m.connect_cb /\ n.on_shutting_down = m.on_shutting_down
        /\ n.dns = m.dns /\ n.sock = m.sock /\ n.close_cb = m.close_cb
        /\ n.connecting = m.connecting /\ n.timer = m.timer /\ ~n.reading /\ n.writable = b
        /\ n.writes = m.writes /\ n.shutting = m.shutting /\ n.handshake = m.handshake
        /\ n.left = m.left
    <2>1. m \in Connection
      BY <1>1
    <2>2. n = ReadTo(m, b)
      OBVIOUS
    <2> QED BY <2>1, <2>2, ConnReadTo
  <1>4. SUFFICES ASSUME m.reading
        PROVE  Handles(n) /\ Counts(n, g, h, x, y)
    OBVIOUS
  <1>5. Counts(n, g, h, x, y)
    <2>1. /\ n.cref = m.cref /\ n.cfreed = m.cfreed /\ n.ref = m.ref /\ n.freed = m.freed
          /\ n.mref = m.mref /\ n.mfreed = m.mfreed
          /\ n.on_shutting_down = m.on_shutting_down /\ n.connect_cb = m.connect_cb
          /\ n.sock = "closing" <=> m.sock = "closing"
          /\ n.timer = "closing" <=> m.timer = "closing"
          /\ DataWrites(n.writes) = DataWrites(m.writes)
      BY <1>4, <1>1, <1>3
    <2>2. m \in Connection /\ n \in Connection
      BY <1>1, <1>3
    <2> QED BY <2>1, <2>2, CountsKept
  <1>6. Handles(n)
    BY <1>4, <1>3 DEF Handles
  <1> QED BY <1>5, <1>6

\* uv_shutdown.
LEMMA HShut ==
    ASSUME NEW m, Handles(m), NEW g \in BOOLEAN, NEW h \in BOOLEAN, NEW x \in Nat, NEW y \in Nat,
           Counts(m, g, h, x, y), NEW n, n = ShutTo(m)
    PROVE  m.sock = "connected" /\ ~m.reading =>
              Handles(n) /\ Counts(n, g, h, x, y)
  <1>1. m \in Connection /\ m.mref \in Nat /\ m.ref \in Nat /\ m.writes \in Seq(WriteKinds)
    BY ConnFields DEF Handles
  <1>3. /\ n \in Connection /\ n.ctx = m.ctx /\ n.cref = m.cref /\ n.cfreed = m.cfreed
        /\ n.ref = m.ref /\ n.freed = m.freed /\ n.mref = m.mref /\ n.mfreed = m.mfreed
        /\ n.connect_cb = m.connect_cb /\ n.on_shutting_down = m.on_shutting_down
        /\ n.dns = m.dns /\ n.sock = m.sock /\ n.close_cb = m.close_cb
        /\ n.connecting = m.connecting /\ n.timer = m.timer /\ n.reading = m.reading
        /\ ~n.writable /\ n.writes = m.writes /\ n.shutting /\ n.handshake = m.handshake
        /\ n.left = m.left
    <2>1. m \in Connection
      BY <1>1
    <2>2. n = ShutTo(m)
      OBVIOUS
    <2> QED BY <2>1, <2>2, ConnShutTo
  <1>4. SUFFICES ASSUME m.sock = "connected" /\ ~m.reading
        PROVE  Handles(n) /\ Counts(n, g, h, x, y)
    OBVIOUS
  <1>5. Counts(n, g, h, x, y)
    <2>1. /\ n.cref = m.cref /\ n.cfreed = m.cfreed /\ n.ref = m.ref /\ n.freed = m.freed
          /\ n.mref = m.mref /\ n.mfreed = m.mfreed
          /\ n.on_shutting_down = m.on_shutting_down /\ n.connect_cb = m.connect_cb
          /\ n.sock = "closing" <=> m.sock = "closing"
          /\ n.timer = "closing" <=> m.timer = "closing"
          /\ DataWrites(n.writes) = DataWrites(m.writes)
      BY <1>4, <1>1, <1>3
    <2>2. m \in Connection /\ n \in Connection
      BY <1>1, <1>3
    <2> QED BY <2>1, <2>2, CountsKept
  <1>6. Handles(n)
    BY <1>4, <1>3 DEF Handles
  <1> QED BY <1>5, <1>6

\* connect_cb is called: its reference, and one for the call, are to be returned.
LEMMA HCalled ==
    ASSUME NEW m, Handles(m), NEW g \in BOOLEAN, NEW h \in BOOLEAN, NEW x \in Nat, NEW y \in Nat,
           Counts(m, g, h, x, y), NEW n, n = CalledTo(m, m.mref + 1)
    PROVE  m.connect_cb /\ ~m.dns /\ ~m.connecting /\ ~(m.reading /\ m.handshake \in {"begun", "flight"}) =>
              Handles(n) /\ Counts(n, g, h, x + 1, y + 1)
  <1> DEFINE r == m.mref + 1
             k == CalledTo(m, r)
  <1>1. m \in Connection /\ m.mref \in Nat /\ m.ref \in Nat /\ m.writes \in Seq(WriteKinds)
    BY ConnFields DEF Handles
  <1>2. r \in Nat
    BY <1>1
  <1>2a. n = k
    OBVIOUS
  <1>3. /\ k \in Connection /\ k.ctx = m.ctx /\ k.cref = m.cref /\ k.cfreed = m.cfreed
        /\ k.ref = m.ref /\ k.freed = m.freed /\ k.mref = r /\ k.mfreed = m.mfreed
        /\ ~k.connect_cb /\ k.on_shutting_down = m.on_shutting_down /\ k.dns = m.dns
        /\ k.sock = m.sock /\ k.close_cb = m.close_cb /\ k.connecting = m.connecting
        /\ k.timer = m.timer /\ k.reading = m.reading /\ k.writable = m.writable
        /\ k.writes = m.writes /\ k.shutting = m.shutting /\ k.handshake = m.handshake
        /\ k.left = m.left
    <2>1. m \in Connection
      BY <1>1
    <2>2. k = CalledTo(m, r)
      OBVIOUS
    <2> HIDE DEF r
    <2> QED BY <2>1, <2>2, <1>2, ConnCalledTo
  <1> HIDE DEF k, r
  <1>4. SUFFICES ASSUME m.connect_cb /\ ~m.dns /\ ~m.connecting /\ ~(m.reading /\ m.handshake \in {"begun", "flight"})
        PROVE  Handles(n) /\ Counts(n, g, h, x + 1, y + 1)
    OBVIOUS
  <1>5. Counts(n, g, h, x + 1, y + 1)
    <2> DEFINE a1 == m.ref
               a2 == n.ref
               b1 == m.mref
               b2 == n.mref
               p1 == One(m.connect_cb)
               p2 == One(n.connect_cb)
               d1 == DataWrites(m.writes)
               d2 == DataWrites(n.writes)
               s1 == One(m.sock = "closing")
               s2 == One(n.sock = "closing")
               t1 == One(m.timer = "closing")
               t2 == One(n.timer = "closing")
    <2>1. /\ n.cref = m.cref /\ n.cfreed = m.cfreed /\ n.freed = m.freed
          /\ n.mfreed = m.mfreed /\ n.on_shutting_down = m.on_shutting_down
      BY <1>2a, <1>3
    <2>2. d1 \in Nat /\ d2 \in Nat /\ a1 \in Nat /\ b1 \in Nat /\ a2 \in Nat /\ b2 \in Nat
      <3>1. m \in Connection /\ n \in Connection
        BY <1>1, <1>2a, <1>3
      <3>2. m.writes \in Seq(WriteKinds) /\ n.writes \in Seq(WriteKinds)
        BY <3>1, ConnFields
      <3>3. d1 \in Nat /\ d2 \in Nat
        BY <3>2, DataFinite
      <3> QED BY <3>1, <3>3, ConnFields
    <2>3. p1 \in Nat /\ p2 \in Nat /\ s1 \in Nat /\ s2 \in Nat /\ t1 \in Nat /\ t2 \in Nat
      BY DEF One
    <2>4. /\ m.connect_cb \/ ~m.cfreed => m.ref # 0
          /\ m.ref # 0 => m.mref # 0
      BY <1>1, CountsAlive
    <2>5. x + 1 \in Nat /\ y + 1 \in Nat
      BY DEF One
    <2>6. p2 = 0 /\ d2 = d1 /\ a2 = a1 /\ s2 = s1 /\ t2 = t1 /\ b2 = b1 + 1 /\ p1 = 1 /\ b1 # 0
      BY <1>4, <1>1, <1>2a, <1>3, <2>4 DEF One, Handles, r
    <2>7. /\ a2 + p1 + d1 + x = a1 + p2 + d2 + (x + 1)
          /\ b2 + s1 + t1 + y = b1 + s2 + t2 + (y + 1)
          /\ a2 = 0 <=> a1 = 0
          /\ b2 = 0 <=> b1 = 0
      <3> HIDE DEF a1, a2, b1, b2, p1, p2, d1, d2, s1, s2, t1, t2
      <3> QED BY <2>2, <2>3, <2>5, <2>6
    <2>8. m \in Connection /\ n \in Connection
      BY <1>1, <1>2a, <1>3
    <2> HIDE DEF d1, d2, p1, p2, s1, s2, t1, t2, a1, a2, b1, b2
    <2>9. /\ n.ref + One(m.connect_cb) + DataWrites(m.writes) + x
                = m.ref + One(n.connect_cb) + DataWrites(n.writes) + (x + 1)
          /\ n.mref + One(m.sock = "closing") + One(m.timer = "closing") + y
                = m.mref + One(n.sock = "closing") + One(n.timer = "closing") + (y + 1)
          /\ n.ref = 0 <=> m.ref = 0
          /\ n.mref = 0 <=> m.mref = 0
      BY <2>7 DEF d1, d2, p1, p2, s1, s2, t1, t2, a1, a2, b1, b2
    <2> QED BY <2>1, <2>5, <2>8, <2>9, CountsMoved
  <1>6. Handles(n)
    BY <1>4, <1>2a, <1>3 DEF Handles
  <1> QED BY <1>5, <1>6

\* The handle of the timer is closed.
LEMMA HTimerClosed ==
    ASSUME NEW m, Handles(m), NEW g \in BOOLEAN, NEW h \in BOOLEAN, NEW x \in Nat, NEW y \in Nat,
           Counts(m, g, h, x, y), NEW n, n = TimerTo(m, "closed")
    PROVE  m.timer = "closing" =>
              Handles(n) /\ Counts(n, g, h, x, y + 1)
  <1> DEFINE a == "closed"
  <1>1. m \in Connection /\ m.mref \in Nat /\ m.ref \in Nat /\ m.writes \in Seq(WriteKinds)
    BY ConnFields DEF Handles
  <1>2. a \in TimerStates
    BY DEF TimerStates
  <1>3. /\ n \in Connection /\ n.ctx = m.ctx /\ n.cref = m.cref /\ n.cfreed = m.cfreed
        /\ n.ref = m.ref /\ n.freed = m.freed /\ n.mref = m.mref /\ n.mfreed = m.mfreed
        /\ n.connect_cb = m.connect_cb /\ n.on_shutting_down = m.on_shutting_down
        /\ n.dns = m.dns /\ n.sock = m.sock /\ n.close_cb = m.close_cb
        /\ n.connecting = m.connecting /\ n.timer = a /\ n.reading = m.reading
        /\ n.writable = m.writable /\ n.writes = m.writes /\ n.shutting = m.shutting
        /\ n.handshake = m.handshake /\ n.left = m.left
    <2>1. m \in Connection
      BY <1>1
    <2>2. n = TimerTo(m, a)
      OBVIOUS
    <2> HIDE DEF a
    <2> QED BY <2>1, <2>2, <1>2, ConnTimerTo
  <1> HIDE DEF a
  <1>4. SUFFICES ASSUME m.timer = "closing"
        PROVE  Handles(n) /\ Counts(n, g, h, x, y + 1)
    OBVIOUS
  <1>5. Counts(n, g, h, x, y + 1)
    <2> DEFINE a1 == m.ref
               a2 == n.ref
               b1 == m.mref
               b2 == n.mref
               p1 == One(m.connect_cb)
               p2 == One(n.connect_cb)
               d1 == DataWrites(m.writes)
               d2 == DataWrites(n.writes)
               s1 == One(m.sock = "closing")
               s2 == One(n.sock = "closing")
               t1 == One(m.timer = "closing")
               t2 == One(n.timer = "closing")
    <2>1. /\ n.cref = m.cref /\ n.cfreed = m.cfreed /\ n.freed = m.freed
          /\ n.mfreed = m.mfreed /\ n.on_shutting_down = m.on_shutting_down
      BY <1>3
    <2>2. d1 \in Nat /\ d2 \in Nat /\ a1 \in Nat /\ b1 \in Nat /\ a2 \in Nat /\ b2 \in Nat
      <3>1. m \in Connection /\ n \in Connection
        BY <1>1, <1>3
      <3>2. m.writes \in Seq(WriteKinds) /\ n.writes \in Seq(WriteKinds)
        BY <3>1, ConnFields
      <3>3. d1 \in Nat /\ d2 \in Nat
        BY <3>2, DataFinite
      <3> QED BY <3>1, <3>3, ConnFields
    <2>3. p1 \in Nat /\ p2 \in Nat /\ s1 \in Nat /\ s2 \in Nat /\ t1 \in Nat /\ t2 \in Nat
      BY DEF One
    <2>4. /\ m.connect_cb \/ ~m.cfreed => m.ref # 0
          /\ m.ref # 0 => m.mref # 0
      BY <1>1, CountsAlive
    <2>5. x \in Nat /\ y + 1 \in Nat
      BY DEF One
    <2>6. p2 = p1 /\ d2 = d1 /\ a2 = a1 /\ s2 = s1 /\ t2 = 0 /\ b2 = b1 /\ t1 = 1
      BY <1>4, <1>1, <1>3, <2>4 DEF One, Handles, a
    <2>7. /\ a2 + p1 + d1 + x = a1 + p2 + d2 + (x)
          /\ b2 + s1 + t1 + y = b1 + s2 + t2 + (y + 1)
          /\ a2 = 0 <=> a1 = 0
          /\ b2 = 0 <=> b1 = 0
      <3> HIDE DEF a1, a2, b1, b2, p1, p2, d1, d2, s1, s2, t1, t2
      <3> QED BY <2>2, <2>3, <2>5, <2>6
    <2>8. m \in Connection /\ n \in Connection
      BY <1>1, <1>3
    <2> HIDE DEF d1, d2, p1, p2, s1, s2, t1, t2, a1, a2, b1, b2
    <2>9. /\ n.ref + One(m.connect_cb) + DataWrites(m.writes) + x
                = m.ref + One(n.connect_cb) + DataWrites(n.writes) + (x)
          /\ n.mref + One(m.sock = "closing") + One(m.timer = "closing") + y
                = m.mref + One(n.sock = "closing") + One(n.timer = "closing") + (y + 1)
          /\ n.ref = 0 <=> m.ref = 0
          /\ n.mref = 0 <=> m.mref = 0
      BY <2>7 DEF d1, d2, p1, p2, s1, s2, t1, t2, a1, a2, b1, b2
    <2> QED BY <2>1, <2>5, <2>8, <2>9, CountsMoved
  <1>6. Handles(n)
    BY <1>4, <1>3 DEF Handles, a
  <1> QED BY <1>5, <1>6

\* Data is written.
LEMMA HSend ==
    ASSUME NEW m, Handles(m), NEW g \in BOOLEAN, NEW h \in BOOLEAN, NEW x \in Nat, NEW y \in Nat,
           Counts(m, g, h, x, y), NEW items \in Seq(Items), NEW n, n = SendTo(m, m.ref + Len(items), m.writes \o Sent(items))
    PROVE  m.writable /\ ~m.cfreed =>
              Handles(n) /\ Counts(n, g, h, x, y)
  <1> DEFINE r == m.ref + Len(items)
             q == m.writes \o Sent(items)
             k == SendTo(m, r, q)
  <1>1. m \in Connection /\ m.mref \in Nat /\ m.ref \in Nat /\ m.writes \in Seq(WriteKinds)
    BY ConnFields DEF Handles
  <1>2. r \in Nat /\ q \in Seq(WriteKinds)
    BY <1>1, DataMore
  <1>2a. n = k
    OBVIOUS
  <1>3. /\ k \in Connection /\ k.ctx = m.ctx /\ k.cref = m.cref /\ k.cfreed = m.cfreed
        /\ k.ref = r /\ k.freed = m.freed /\ k.mref = m.mref /\ k.mfreed = m.mfreed
        /\ k.connect_cb = m.connect_cb /\ k.on_shutting_down = m.on_shutting_down
        /\ k.dns = m.dns /\ k.sock = m.sock /\ k.close_cb = m.close_cb
        /\ k.connecting = m.connecting /\ k.timer = m.timer /\ k.reading = m.reading
        /\ k.writable = m.writable /\ k.writes = q /\ k.shutting = m.shutting
        /\ k.handshake = m.handshake /\ k.left = m.left
    <2>1. m \in Connection
      BY <1>1
    <2>2. k = SendTo(m, r, q)
      OBVIOUS
    <2> HIDE DEF r, q
    <2> QED BY <2>1, <2>2, <1>2, ConnSendTo
  <1>7. DataWrites(q) = DataWrites(m.writes) + Len(items) /\ Len(items) \in Nat
    BY <1>1, DataMore
  <1> HIDE DEF k, r, q
  <1>4. SUFFICES ASSUME m.writable /\ ~m.cfreed
        PROVE  Handles(n) /\ Counts(n, g, h, x, y)
    OBVIOUS
  <1>5. Counts(n, g, h, x, y)
    <2> DEFINE a1 == m.ref
               a2 == n.ref
               b1 == m.mref
               b2 == n.mref
               p1 == One(m.connect_cb)
               p2 == One(n.connect_cb)
               d1 == DataWrites(m.writes)
               d2 == DataWrites(n.writes)
               s1 == One(m.sock = "closing")
               s2 == One(n.sock = "closing")
               t1 == One(m.timer = "closing")
               t2 == One(n.timer = "closing")
    <2>1. /\ n.cref = m.cref /\ n.cfreed = m.cfreed /\ n.freed = m.freed
          /\ n.mfreed = m.mfreed /\ n.on_shutting_down = m.on_shutting_down
      BY <1>2a, <1>3
    <2>2. d1 \in Nat /\ d2 \in Nat /\ a1 \in Nat /\ b1 \in Nat /\ a2 \in Nat /\ b2 \in Nat
      <3>1. m \in Connection /\ n \in Connection
        BY <1>1, <1>2a, <1>3
      <3>2. m.writes \in Seq(WriteKinds) /\ n.writes \in Seq(WriteKinds)
        BY <3>1, ConnFields
      <3>3. d1 \in Nat /\ d2 \in Nat
        BY <3>2, DataFinite
      <3> QED BY <3>1, <3>3, ConnFields
    <2>3. p1 \in Nat /\ p2 \in Nat /\ s1 \in Nat /\ s2 \in Nat /\ t1 \in Nat /\ t2 \in Nat
      BY DEF One
    <2>4. /\ m.connect_cb \/ ~m.cfreed => m.ref # 0
          /\ m.ref # 0 => m.mref # 0
      BY <1>1, CountsAlive
    <2>5. x \in Nat /\ y \in Nat
      BY DEF One
    <2>6. p2 = p1 /\ d2 = d1 + Len(items) /\ a2 = a1 + Len(items) /\ s2 = s1 /\ t2 = t1 /\ b2 = b1 /\ a1 # 0 /\ Len(items) \in Nat
      BY <1>4, <1>1, <1>2a, <1>3, <2>4, <1>7 DEF One, Handles, r
    <2>7. /\ a2 + p1 + d1 + x = a1 + p2 + d2 + (x)
          /\ b2 + s1 + t1 + y = b1 + s2 + t2 + (y)
          /\ a2 = 0 <=> a1 = 0
          /\ b2 = 0 <=> b1 = 0
      <3> HIDE DEF a1, a2, b1, b2, p1, p2, d1, d2, s1, s2, t1, t2
      <3> QED BY <2>2, <2>3, <2>5, <2>6
    <2>8. m \in Connection /\ n \in Connection
      BY <1>1, <1>2a, <1>3
    <2> HIDE DEF d1, d2, p1, p2, s1, s2, t1, t2, a1, a2, b1, b2
    <2>9. /\ n.ref + One(m.connect_cb) + DataWrites(m.writes) + x
                = m.ref + One(n.connect_cb) + DataWrites(n.writes) + (x)
          /\ n.mref + One(m.sock = "closing") + One(m.timer = "closing") + y
                = m.mref + One(n.sock = "closing") + One(n.timer = "closing") + (y)
          /\ n.ref = 0 <=> m.ref = 0
          /\ n.mref = 0 <=> m.mref = 0
      BY <2>7 DEF d1, d2, p1, p2, s1, s2, t1, t2, a1, a2, b1, b2
    <2> QED BY <2>1, <2>5, <2>8, <2>9, CountsMoved
  <1>6. Handles(n)
    BY <1>4, <1>2a, <1>3 DEF Handles
  <1> QED BY <1>5, <1>6

\* The socket is closed.
LEMMA HSockClosed ==
    ASSUME NEW m, Handles(m), NEW g \in BOOLEAN, NEW h \in BOOLEAN, NEW x \in Nat, NEW y \in Nat,
           Counts(m, g, h, x, y), NEW n, n = SockTo(m, "closed")
    PROVE  m.sock = "closing" /\ ~m.connecting =>
              Handles(n) /\ Counts(n, g, h, x, y + 1)
  <1> DEFINE a == "closed"
  <1>1. m \in Connection /\ m.mref \in Nat /\ m.ref \in Nat /\ m.writes \in Seq(WriteKinds)
    BY ConnFields DEF Handles
  <1>2. a \in SockStates
    BY DEF SockStates
  <1>3. /\ n \in Connection /\ n.ctx = m.ctx /\ n.cref = m.cref /\ n.cfreed = m.cfreed
        /\ n.ref = m.ref /\ n.freed = m.freed /\ n.mref = m.mref /\ n.mfreed = m.mfreed
        /\ n.connect_cb = m.connect_cb /\ n.on_shutting_down = m.on_shutting_down
        /\ n.dns = m.dns /\ n.sock = a /\ n.close_cb = m.close_cb
        /\ n.connecting = m.connecting /\ n.timer = m.timer /\ n.reading = m.reading
        /\ n.writable = m.writable /\ n.writes = m.writes /\ n.shutting = m.shutting
        /\ n.handshake = m.handshake /\ n.left = m.left
    <2>1. m \in Connection
      BY <1>1
    <2>2. n = SockTo(m, a)
      OBVIOUS
    <2> HIDE DEF a
    <2> QED BY <2>1, <2>2, <1>2, ConnSockTo
  <1> HIDE DEF a
  <1>4. SUFFICES ASSUME m.sock = "closing" /\ ~m.connecting
        PROVE  Handles(n) /\ Counts(n, g, h, x, y + 1)
    OBVIOUS
  <1>5. Counts(n, g, h, x, y + 1)
    <2> DEFINE a1 == m.ref
               a2 == n.ref
               b1 == m.mref
               b2 == n.mref
               p1 == One(m.connect_cb)
               p2 == One(n.connect_cb)
               d1 == DataWrites(m.writes)
               d2 == DataWrites(n.writes)
               s1 == One(m.sock = "closing")
               s2 == One(n.sock = "closing")
               t1 == One(m.timer = "closing")
               t2 == One(n.timer = "closing")
    <2>1. /\ n.cref = m.cref /\ n.cfreed = m.cfreed /\ n.freed = m.freed
          /\ n.mfreed = m.mfreed /\ n.on_shutting_down = m.on_shutting_down
      BY <1>3
    <2>2. d1 \in Nat /\ d2 \in Nat /\ a1 \in Nat /\ b1 \in Nat /\ a2 \in Nat /\ b2 \in Nat
      <3>1. m \in Connection /\ n \in Connection
        BY <1>1, <1>3
      <3>2. m.writes \in Seq(WriteKinds) /\ n.writes \in Seq(WriteKinds)
        BY <3>1, ConnFields
      <3>3. d1 \in Nat /\ d2 \in Nat
        BY <3>2, DataFinite
      <3> QED BY <3>1, <3>3, ConnFields
    <2>3. p1 \in Nat /\ p2 \in Nat /\ s1 \in Nat /\ s2 \in Nat /\ t1 \in Nat /\ t2 \in Nat
      BY DEF One
    <2>4. /\ m.connect_cb \/ ~m.cfreed => m.ref # 0
          /\ m.ref # 0 => m.mref # 0
      BY <1>1, CountsAlive
    <2>5. x \in Nat /\ y + 1 \in Nat
      BY DEF One
    <2>6. p2 = p1 /\ d2 = d1 /\ a2 = a1 /\ s2 = 0 /\ t2 = t1 /\ b2 = b1 /\ s1 = 1
      BY <1>4, <1>1, <1>3, <2>4 DEF One, Handles, a
    <2>7. /\ a2 + p1 + d1 + x = a1 + p2 + d2 + (x)
          /\ b2 + s1 + t1 + y = b1 + s2 + t2 + (y + 1)
          /\ a2 = 0 <=> a1 = 0
          /\ b2 = 0 <=> b1 = 0
      <3> HIDE DEF a1, a2, b1, b2, p1, p2, d1, d2, s1, s2, t1, t2
      <3> QED BY <2>2, <2>3, <2>5, <2>6
    <2>8. m \in Connection /\ n \in Connection
      BY <1>1, <1>3
    <2> HIDE DEF d1, d2, p1, p2, s1, s2, t1, t2, a1, a2, b1, b2
    <2>9. /\ n.ref + One(m.connect_cb) + DataWrites(m.writes) + x
                = m.ref + One(n.connect_cb) + DataWrites(n.writes) + (x)
          /\ n.mref + One(m.sock = "closing") + One(m.timer = "closing") + y
                = m.mref + One(n.sock = "closing") + One(n.timer = "closing") + (y + 1)
          /\ n.ref = 0 <=> m.ref = 0
          /\ n.mref = 0 <=> m.mref = 0
      BY <2>7 DEF d1, d2, p1, p2, s1, s2, t1, t2, a1, a2, b1, b2
    <2> QED BY <2>1, <2>5, <2>8, <2>9, CountsMoved
  <1>6. Handles(n)
    BY <1>4, <1>3 DEF Handles, a
  <1> QED BY <1>5, <1>6

\* The connect timer expires, and closes the socket.
LEMMA HCancel ==
    ASSUME NEW m, Handles(m), NEW g \in BOOLEAN, NEW h \in BOOLEAN, NEW x \in Nat, NEW y \in Nat,
           Counts(m, g, h, x, y), NEW n, n = CloseTo(TimerTo(m, "expired"), m.mref + 1, "connect_canceled")
    PROVE  m.sock = "connecting" =>
              Handles(n) /\ Counts(n, g, h, x, y)
  <1> DEFINE a == "expired"
             r == m.mref + 1
             cb == "connect_canceled"
             k == TimerTo(m, a)
  <1>1. m \in Connection /\ m.mref \in Nat /\ m.ref \in Nat /\ m.writes \in Seq(WriteKinds)
    BY ConnFields DEF Handles
  <1>2. a \in TimerStates
    BY DEF TimerStates
  <1>8. r \in Nat /\ cb \in CloseCbs
    BY <1>1 DEF CloseCbs
  <1>9. /\ k \in Connection /\ k.ctx = m.ctx /\ k.cref = m.cref /\ k.cfreed = m.cfreed
        /\ k.ref = m.ref /\ k.freed = m.freed /\ k.mref = m.mref /\ k.mfreed = m.mfreed
        /\ k.connect_cb = m.connect_cb /\ k.on_shutting_down = m.on_shutting_down
        /\ k.dns = m.dns /\ k.sock = m.sock /\ k.close_cb = m.close_cb
        /\ k.connecting = m.connecting /\ k.timer = a /\ k.reading = m.reading
        /\ k.writable = m.writable /\ k.writes = m.writes /\ k.shutting = m.shutting
        /\ k.handshake = m.handshake /\ k.left = m.left
    <2>1. m \in Connection
      BY <1>1
    <2>2. k = TimerTo(m, a)
      OBVIOUS
    <2> HIDE DEF a
    <2> QED BY <2>1, <2>2, <1>2, ConnTimerTo
  <1>3. /\ n \in Connection /\ n.ctx = k.ctx /\ n.cref = k.cref /\ n.cfreed = k.cfreed
        /\ n.ref = k.ref /\ n.freed = k.freed /\ n.mref = r /\ n.mfreed = k.mfreed
        /\ n.connect_cb = k.connect_cb /\ n.on_shutting_down = k.on_shutting_down
        /\ n.dns = k.dns /\ n.sock = "closing" /\ n.close_cb = cb
        /\ n.connecting = k.connecting /\ n.timer = k.timer /\ ~n.reading /\ ~n.writable
        /\ n.writes = k.writes /\ n.shutting = k.shutting /\ n.handshake = k.handshake
        /\ n.left = k.left
    <2>1. k \in Connection
      BY <1>9
    <2>2. n = CloseTo(k, r, cb)
      OBVIOUS
    <2> HIDE DEF k, a, r, cb
    <2> QED BY <2>1, <2>2, <1>8, ConnCloseTo
  <1> HIDE DEF a, r, cb, k
  <1>4. SUFFICES ASSUME m.sock = "connecting"
        PROVE  Handles(n) /\ Counts(n, g, h, x, y)
    OBVIOUS
  <1>5. Counts(n, g, h, x, y)
    <2> DEFINE a1 == m.ref
               a2 == n.ref
               b1 == m.mref
               b2 == n.mref
               p1 == One(m.connect_cb)
               p2 == One(n.connect_cb)
               d1 == DataWrites(m.writes)
               d2 == DataWrites(n.writes)
               s1 == One(m.sock = "closing")
               s2 == One(n.sock = "closing")
               t1 == One(m.timer = "closing")
               t2 == One(n.timer = "closing")
    <2>1. /\ n.cref = m.cref /\ n.cfreed = m.cfreed /\ n.freed = m.freed
          /\ n.mfreed = m.mfreed /\ n.on_shutting_down = m.on_shutting_down
      BY <1>3, <1>9
    <2>2. d1 \in Nat /\ d2 \in Nat /\ a1 \in Nat /\ b1 \in Nat /\ a2 \in Nat /\ b2 \in Nat
      <3>1. m \in Connection /\ n \in Connection
        BY <1>1, <1>3
      <3>2. m.writes \in Seq(WriteKinds) /\ n.writes \in Seq(WriteKinds)
        BY <3>1, ConnFields
      <3>3. d1 \in Nat /\ d2 \in Nat
        BY <3>2, DataFinite
      <3> QED BY <3>1, <3>3, ConnFields
    <2>3. p1 \in Nat /\ p2 \in Nat /\ s1 \in Nat /\ s2 \in Nat /\ t1 \in Nat /\ t2 \in Nat
      BY DEF One
    <2>4. /\ m.connect_cb \/ ~m.cfreed => m.ref # 0
          /\ m.ref # 0 => m.mref # 0
      BY <1>1, CountsAlive
    <2>5. x \in Nat /\ y \in Nat
      BY DEF One
    <2>6. p2 = p1 /\ d2 = d1 /\ a2 = a1 /\ s2 = 1 /\ t2 = 0 /\ b2 = b1 + 1 /\ s1 = 0 /\ t1 = 0 /\ b1 # 0
      BY <1>4, <1>1, <1>3, <2>4, <1>9 DEF One, Handles, a, r, Handles
    <2>7. /\ a2 + p1 + d1 + x = a1 + p2 + d2 + (x)
          /\ b2 + s1 + t1 + y = b1 + s2 + t2 + (y)
          /\ a2 = 0 <=> a1 = 0
          /\ b2 = 0 <=> b1 = 0
      <3> HIDE DEF a1, a2, b1, b2, p1, p2, d1, d2, s1, s2, t1, t2
      <3> QED BY <2>2, <2>3, <2>5, <2>6
    <2>8. m \in Connection /\ n \in Connection
      BY <1>1, <1>3
    <2> HIDE DEF d1, d2, p1, p2, s1, s2, t1, t2, a1, a2, b1, b2
    <2>9. /\ n.ref + One(m.connect_cb) + DataWrites(m.writes) + x
                = m.ref + One(n.connect_cb) + DataWrites(n.writes) + (x)
          /\ n.mref + One(m.sock = "closing") + One(m.timer = "closing") + y
                = m.mref + One(n.sock = "closing") + One(n.timer = "closing") + (y)
          /\ n.ref = 0 <=> m.ref = 0
          /\ n.mref = 0 <=> m.mref = 0
      BY <2>7 DEF d1, d2, p1, p2, s1, s2, t1, t2, a1, a2, b1, b2
    <2> QED BY <2>1, <2>5, <2>8, <2>9, CountsMoved
  <1>6. Handles(n)
    BY <1>4, <1>3, <1>9 DEF Handles, a
  <1> QED BY <1>5, <1>6

\* The connect request fails.
LEMMA HDialled ==
    ASSUME NEW m, Handles(m), NEW g \in BOOLEAN, NEW h \in BOOLEAN, NEW x \in Nat, NEW y \in Nat,
           Counts(m, g, h, x, y), NEW n, n = SockTo(DialledTo(m, m.mref + 1), IF m.sock = "connecting" THEN "failed" ELSE m.sock)
    PROVE  m.connecting =>
              Handles(n) /\ Counts(n, g, h, x, y)
  <1> DEFINE r == m.mref + 1
             a == IF m.sock = "connecting" THEN "failed" ELSE m.sock
             k == DialledTo(m, r)
  <1>1. m \in Connection /\ m.mref \in Nat /\ m.ref \in Nat /\ m.writes \in Seq(WriteKinds)
    BY ConnFields DEF Handles
  <1>2. r \in Nat
    BY <1>1
  <1>8. a \in SockStates
    BY <1>1, ConnFields DEF SockStates
  <1>9. /\ k \in Connection /\ k.ctx = m.ctx /\ k.cref = m.cref /\ k.cfreed = m.cfreed
        /\ k.ref = m.ref /\ k.freed = m.freed /\ k.mref = r /\ k.mfreed = m.mfreed
        /\ k.connect_cb = m.connect_cb /\ k.on_shutting_down = m.on_shutting_down
        /\ k.dns = m.dns /\ k.sock = m.sock /\ k.close_cb = m.close_cb /\ ~k.connecting
        /\ k.timer = "closing" /\ k.reading = m.reading /\ k.writable = m.writable
        /\ k.writes = m.writes /\ k.shutting = m.shutting /\ k.handshake = m.handshake
        /\ k.left = m.left
    <2>1. m \in Connection
      BY <1>1
    <2>2. k = DialledTo(m, r)
      OBVIOUS
    <2> HIDE DEF r
    <2> QED BY <2>1, <2>2, <1>2, ConnDialledTo
  <1>3. /\ n \in Connection /\ n.ctx = k.ctx /\ n.cref = k.cref /\ n.cfreed = k.cfreed
        /\ n.ref = k.ref /\ n.freed = k.freed /\ n.mref = k.mref /\ n.mfreed = k.mfreed
        /\ n.connect_cb = k.connect_cb /\ n.on_shutting_down = k.on_shutting_down
        /\ n.dns = k.dns /\ n.sock = a /\ n.close_cb = k.close_cb
        /\ n.connecting = k.connecting /\ n.timer = k.timer /\ n.reading = k.reading
        /\ n.writable = k.writable /\ n.writes = k.writes /\ n.shutting = k.shutting
        /\ n.handshake = k.handshake /\ n.left = k.left
    <2>1. k \in Connection
      BY <1>9
    <2>2. n = SockTo(k, a)
      OBVIOUS
    <2> HIDE DEF k, r, a
    <2> QED BY <2>1, <2>2, <1>8, ConnSockTo
  <1> HIDE DEF r, a, k
  <1>4. SUFFICES ASSUME m.connecting
        PROVE  Handles(n) /\ Counts(n, g, h, x, y)
    OBVIOUS
  <1>5. Counts(n, g, h, x, y)
    <2> DEFINE a1 == m.ref
               a2 == n.ref
               b1 == m.mref
               b2 == n.mref
               p1 == One(m.connect_cb)
               p2 == One(n.connect_cb)
               d1 == DataWrites(m.writes)
               d2 == DataWrites(n.writes)
               s1 == One(m.sock = "closing")
               s2 == One(n.sock = "closing")
               t1 == One(m.timer = "closing")
               t2 == One(n.timer = "closing")
    <2>1. /\ n.cref = m.cref /\ n.cfreed = m.cfreed /\ n.freed = m.freed
          /\ n.mfreed = m.mfreed /\ n.on_shutting_down = m.on_shutting_down
      BY <1>3, <1>9
    <2>2. d1 \in Nat /\ d2 \in Nat /\ a1 \in Nat /\ b1 \in Nat /\ a2 \in Nat /\ b2 \in Nat
      <3>1. m \in Connection /\ n \in Connection
        BY <1>1, <1>3
      <3>2. m.writes \in Seq(WriteKinds) /\ n.writes \in Seq(WriteKinds)
        BY <3>1, ConnFields
      <3>3. d1 \in Nat /\ d2 \in Nat
        BY <3>2, DataFinite
      <3> QED BY <3>1, <3>3, ConnFields
    <2>3. p1 \in Nat /\ p2 \in Nat /\ s1 \in Nat /\ s2 \in Nat /\ t1 \in Nat /\ t2 \in Nat
      BY DEF One
    <2>4. /\ m.connect_cb \/ ~m.cfreed => m.ref # 0
          /\ m.ref # 0 => m.mref # 0
      BY <1>1, CountsAlive
    <2>5. x \in Nat /\ y \in Nat
      BY DEF One
    <2>6. p2 = p1 /\ d2 = d1 /\ a2 = a1 /\ s2 = s1 /\ t2 = 1 /\ b2 = b1 + 1 /\ t1 = 0 /\ b1 # 0
      BY <1>4, <1>1, <1>3, <2>4, <1>9 DEF One, Handles, a, r, Handles
    <2>7. /\ a2 + p1 + d1 + x = a1 + p2 + d2 + (x)
          /\ b2 + s1 + t1 + y = b1 + s2 + t2 + (y)
          /\ a2 = 0 <=> a1 = 0
          /\ b2 = 0 <=> b1 = 0
      <3> HIDE DEF a1, a2, b1, b2, p1, p2, d1, d2, s1, s2, t1, t2
      <3> QED BY <2>2, <2>3, <2>5, <2>6
    <2>8. m \in Connection /\ n \in Connection
      BY <1>1, <1>3
    <2> HIDE DEF d1, d2, p1, p2, s1, s2, t1, t2, a1, a2, b1, b2
    <2>9. /\ n.ref + One(m.connect_cb) + DataWrites(m.writes) + x
                = m.ref + One(n.connect_cb) + DataWrites(n.writes) + (x)
          /\ n.mref + One(m.sock = "closing") + One(m.timer = "closing") + y
                = m.mref + One(n.sock = "closing") + One(n.timer = "closing") + (y)
          /\ n.ref = 0 <=> m.ref = 0
          /\ n.mref = 0 <=> m.mref = 0
      BY <2>7 DEF d1, d2, p1, p2, s1, s2, t1, t2, a1, a2, b1, b2
    <2> QED BY <2>1, <2>5, <2>8, <2>9, CountsMoved
  <1>6. Handles(n)
    BY <1>4, <1>3, <1>9 DEF Handles, a
  <1> QED BY <1>5, <1>6

\* The connection is established, the first flight on its way.
LEMMA HReady ==
    ASSUME NEW m, Handles(m), NEW g \in BOOLEAN, NEW h \in BOOLEAN, NEW x \in Nat, NEW y \in Nat,
           Counts(m, g, h, x, y), NEW n, n = ReadyTo(DialledTo(m, m.mref + 1), <<"handshake">>)
    PROVE  m.sock = "connecting" =>
              Handles(n) /\ Counts(n, g, h, x, y)
  <1> DEFINE r == m.mref + 1
             q == <<"handshake">>
             k == DialledTo(m, r)
  <1>1. m \in Connection /\ m.mref \in Nat /\ m.ref \in Nat /\ m.writes \in Seq(WriteKinds)
    BY ConnFields DEF Handles
  <1>2. r \in Nat
    BY <1>1
  <1>8. q \in Seq(WriteKinds) /\ DataWrites(q) = 0 /\ DataWrites(<<>>) = 0
    BY DataNone
  <1>9. /\ k \in Connection /\ k.ctx = m.ctx /\ k.cref = m.cref /\ k.cfreed = m.cfreed
        /\ k.ref = m.ref /\ k.freed = m.freed /\ k.mref = r /\ k.mfreed = m.mfreed
        /\ k.connect_cb = m.connect_cb /\ k.on_shutting_down = m.on_shutting_down
        /\ k.dns = m.dns /\ k.sock = m.sock /\ k.close_cb = m.close_cb /\ ~k.connecting
        /\ k.timer = "closing" /\ k.reading = m.reading /\ k.writable = m.writable
        /\ k.writes = m.writes /\ k.shutting = m.shutting /\ k.handshake = m.handshake
        /\ k.left = m.left
    <2>1. m \in Connection
      BY <1>1
    <2>2. k = DialledTo(m, r)
      OBVIOUS
    <2> HIDE DEF r
    <2> QED BY <2>1, <2>2, <1>2, ConnDialledTo
  <1>3. /\ n \in Connection /\ n.ctx = k.ctx /\ n.cref = k.cref /\ n.cfreed = k.cfreed
        /\ n.ref = k.ref /\ n.freed = k.freed /\ n.mref = k.mref /\ n.mfreed = k.mfreed
        /\ n.connect_cb = k.connect_cb /\ n.on_shutting_down = k.on_shutting_down
        /\ n.dns = k.dns /\ n.sock = "connected" /\ n.close_cb = k.close_cb
        /\ n.connecting = k.connecting /\ n.timer = k.timer /\ n.reading /\ n.writable
        /\ n.writes = q /\ n.shutting = k.shutting /\ n.handshake = "begun"
        /\ n.left = k.left
    <2>1. k \in Connection
      BY <1>9
    <2>2. n = ReadyTo(k, q)
      OBVIOUS
    <2> HIDE DEF k, r, q
    <2> QED BY <2>1, <2>2, <1>8, ConnReadyTo
  <1> HIDE DEF r, q, k
  <1>4. SUFFICES ASSUME m.sock = "connecting"
        PROVE  Handles(n) /\ Counts(n, g, h, x, y)
    OBVIOUS
  <1>5. Counts(n, g, h, x, y)
    <2> DEFINE a1 == m.ref
               a2 == n.ref
               b1 == m.mref
               b2 == n.mref
               p1 == One(m.connect_cb)
               p2 == One(n.connect_cb)
               d1 == DataWrites(m.writes)
               d2 == DataWrites(n.writes)
               s1 == One(m.sock = "closing")
               s2 == One(n.sock = "closing")
               t1 == One(m.timer = "closing")
               t2 == One(n.timer = "closing")
    <2>1. /\ n.cref = m.cref /\ n.cfreed = m.cfreed /\ n.freed = m.freed
          /\ n.mfreed = m.mfreed /\ n.on_shutting_down = m.on_shutting_down
      BY <1>3, <1>9
    <2>2. d1 \in Nat /\ d2 \in Nat /\ a1 \in Nat /\ b1 \in Nat /\ a2 \in Nat /\ b2 \in Nat
      <3>1. m \in Connection /\ n \in Connection
        BY <1>1, <1>3
      <3>2. m.writes \in Seq(WriteKinds) /\ n.writes \in Seq(WriteKinds)
        BY <3>1, ConnFields
      <3>3. d1 \in Nat /\ d2 \in Nat
        BY <3>2, DataFinite
      <3> QED BY <3>1, <3>3, ConnFields
    <2>3. p1 \in Nat /\ p2 \in Nat /\ s1 \in Nat /\ s2 \in Nat /\ t1 \in Nat /\ t2 \in Nat
      BY DEF One
    <2>4. /\ m.connect_cb \/ ~m.cfreed => m.ref # 0
          /\ m.ref # 0 => m.mref # 0
      BY <1>1, CountsAlive
    <2>5. x \in Nat /\ y \in Nat
      BY DEF One
    <2>6. p2 = p1 /\ d2 = d1 /\ a2 = a1 /\ s2 = 0 /\ t2 = 1 /\ b2 = b1 + 1 /\ s1 = 0 /\ t1 = 0 /\ b1 # 0
      BY <1>4, <1>1, <1>3, <2>4, <1>8, <1>9 DEF One, Handles, r, Handles
    <2>7. /\ a2 + p1 + d1 + x = a1 + p2 + d2 + (x)
          /\ b2 + s1 + t1 + y = b1 + s2 + t2 + (y)
          /\ a2 = 0 <=> a1 = 0
          /\ b2 = 0 <=> b1 = 0
      <3> HIDE DEF a1, a2, b1, b2, p1, p2, d1, d2, s1, s2, t1, t2
      <3> QED BY <2>2, <2>3, <2>5, <2>6
    <2>8. m \in Connection /\ n \in Connection
      BY <1>1, <1>3
    <2> HIDE DEF d1, d2, p1, p2, s1, s2, t1, t2, a1, a2, b1, b2
    <2>9. /\ n.ref + One(m.connect_cb) + DataWrites(m.writes) + x
                = m.ref + One(n.connect_cb) + DataWrites(n.writes) + (x)
          /\ n.mref + One(m.sock = "closing") + One(m.timer = "closing") + y
                = m.mref + One(n.sock = "closing") + One(n.timer = "closing") + (y)
          /\ n.ref = 0 <=> m.ref = 0
          /\ n.mref = 0 <=> m.mref = 0
      BY <2>7 DEF d1, d2, p1, p2, s1, s2, t1, t2, a1, a2, b1, b2
    <2> QED BY <2>1, <2>5, <2>8, <2>9, CountsMoved
  <1>6. Handles(n)
    BY <1>4, <1>3, <1>9 DEF Handles
  <1> QED BY <1>5, <1>6

\* The shutdown request is over, and the socket is closed.
LEMMA HShutDone ==
    ASSUME NEW m, Handles(m), NEW g \in BOOLEAN, NEW h \in BOOLEAN, NEW x \in Nat, NEW y \in Nat,
           Counts(m, g, h, x, y), NEW n, n = CloseTo(UnshutTo(m), m.mref + 1, "close_done")
    PROVE  m.shutting /\ m.writes = <<>> /\ m.ref # 0 =>
              Handles(n) /\ Counts(n, g, h, x, y)
  <1> DEFINE r == m.mref + 1
             cb == "close_done"
             k == UnshutTo(m)
  <1>1. m \in Connection /\ m.mref \in Nat /\ m.ref \in Nat /\ m.writes \in Seq(WriteKinds)
    BY ConnFields DEF Handles
  <1>8. r \in Nat /\ cb \in CloseCbs
    BY <1>1 DEF CloseCbs
  <1>9. /\ k \in Connection /\ k.ctx = m.ctx /\ k.cref = m.cref /\ k.cfreed = m.cfreed
        /\ k.ref = m.ref /\ k.freed = m.freed /\ k.mref = m.mref /\ k.mfreed = m.mfreed
        /\ k.connect_cb = m.connect_cb /\ k.on_shutting_down = m.on_shutting_down
        /\ k.dns = m.dns /\ k.sock = m.sock /\ k.close_cb = m.close_cb
        /\ k.connecting = m.connecting /\ k.timer = m.timer /\ k.reading = m.reading
        /\ k.writable = m.writable /\ k.writes = m.writes /\ ~k.shutting
        /\ k.handshake = m.handshake /\ k.left = m.left
    <2>1. m \in Connection
      BY <1>1
    <2>2. k = UnshutTo(m)
      OBVIOUS
    <2> QED BY <2>1, <2>2, ConnUnshutTo
  <1>3. /\ n \in Connection /\ n.ctx = k.ctx /\ n.cref = k.cref /\ n.cfreed = k.cfreed
        /\ n.ref = k.ref /\ n.freed = k.freed /\ n.mref = r /\ n.mfreed = k.mfreed
        /\ n.connect_cb = k.connect_cb /\ n.on_shutting_down = k.on_shutting_down
        /\ n.dns = k.dns /\ n.sock = "closing" /\ n.close_cb = cb
        /\ n.connecting = k.connecting /\ n.timer = k.timer /\ ~n.reading /\ ~n.writable
        /\ n.writes = k.writes /\ n.shutting = k.shutting /\ n.handshake = k.handshake
        /\ n.left = k.left
    <2>1. k \in Connection
      BY <1>9
    <2>2. n = CloseTo(k, r, cb)
      OBVIOUS
    <2> HIDE DEF k, r, cb
    <2> QED BY <2>1, <2>2, <1>8, ConnCloseTo
  <1> HIDE DEF r, cb, k
  <1>4. SUFFICES ASSUME m.shutting /\ m.writes = <<>> /\ m.ref # 0
        PROVE  Handles(n) /\ Counts(n, g, h, x, y)
    OBVIOUS
  <1>5. Counts(n, g, h, x, y)
    <2> DEFINE a1 == m.ref
               a2 == n.ref
               b1 == m.mref
               b2 == n.mref
               p1 == One(m.connect_cb)
               p2 == One(n.connect_cb)
               d1 == DataWrites(m.writes)
               d2 == DataWrites(n.writes)
               s1 == One(m.sock = "closing")
               s2 == One(n.sock = "closing")
               t1 == One(m.timer = "closing")
               t2 == One(n.timer = "closing")
    <2>1. /\ n.cref = m.cref /\ n.cfreed = m.cfreed /\ n.freed = m.freed
          /\ n.mfreed = m.mfreed /\ n.on_shutting_down = m.on_shutting_down
      BY <1>3, <1>9
    <2>2. d1 \in Nat /\ d2 \in Nat /\ a1 \in Nat /\ b1 \in Nat /\ a2 \in Nat /\ b2 \in Nat
      <3>1. m \in Connection /\ n \in Connection
        BY <1>1, <1>3
      <3>2. m.writes \in Seq(WriteKinds) /\ n.writes \in Seq(WriteKinds)
        BY <3>1, ConnFields
      <3>3. d1 \in Nat /\ d2 \in Nat
        BY <3>2, DataFinite
      <3> QED BY <3>1, <3>3, ConnFields
    <2>3. p1 \in Nat /\ p2 \in Nat /\ s1 \in Nat /\ s2 \in Nat /\ t1 \in Nat /\ t2 \in Nat
      BY DEF One
    <2>4. /\ m.connect_cb \/ ~m.cfreed => m.ref # 0
          /\ m.ref # 0 => m.mref # 0
      BY <1>1, CountsAlive
    <2>5. x \in Nat /\ y \in Nat
      BY DEF One
    <2>6. p2 = p1 /\ d2 = d1 /\ a2 = a1 /\ s2 = 1 /\ t2 = t1 /\ b2 = b1 + 1 /\ s1 = 0 /\ b1 # 0
      BY <1>4, <1>1, <1>3, <2>4, <1>9 DEF One, Handles, r, Handles
    <2>7. /\ a2 + p1 + d1 + x = a1 + p2 + d2 + (x)
          /\ b2 + s1 + t1 + y = b1 + s2 + t2 + (y)
          /\ a2 = 0 <=> a1 = 0
          /\ b2 = 0 <=> b1 = 0
      <3> HIDE DEF a1, a2, b1, b2, p1, p2, d1, d2, s1, s2, t1, t2
      <3> QED BY <2>2, <2>3, <2>5, <2>6
    <2>8. m \in Connection /\ n \in Connection
      BY <1>1, <1>3
    <2> HIDE DEF d1, d2, p1, p2, s1, s2, t1, t2, a1, a2, b1, b2
    <2>9. /\ n.ref + One(m.connect_cb) + DataWrites(m.writes) + x
                = m.ref + One(n.connect_cb) + DataWrites(n.writes) + (x)
          /\ n.mref + One(m.sock = "closing") + One(m.timer = "closing") + y
                = m.mref + One(n.sock = "closing") + One(n.timer = "closing") + (y)
          /\ n.ref = 0 <=> m.ref = 0
          /\ n.mref = 0 <=> m.mref = 0
      BY <2>7 DEF d1, d2, p1, p2, s1, s2, t1, t2, a1, a2, b1, b2
    <2> QED BY <2>1, <2>5, <2>8, <2>9, CountsMoved
  <1>6. Handles(n)
    BY <1>4, <1>3, <1>9 DEF Handles
  <1> QED BY <1>5, <1>6

\* A write is over.
LEMMA HWrote ==
    ASSUME NEW m, Handles(m), NEW g \in BOOLEAN, NEW h \in BOOLEAN, NEW x \in Nat, NEW y \in Nat,
           Counts(m, g, h, x, y), m.writes # <<>>, NEW n, n = WritesTo(m, Tail(m.writes))
    PROVE  Handles(n) /\ Counts(n, g, h, x + One(Head(m.writes) = "data"), y)
  <1> DEFINE q == Tail(m.writes)
  <1>0. m.writes # <<>>
    OBVIOUS
  <1>1. m \in Connection /\ m.mref \in Nat /\ m.ref \in Nat /\ m.writes \in Seq(WriteKinds)
    BY ConnFields DEF Handles
  <1>2. q \in Seq(WriteKinds)
    BY <1>1, <1>0, DataTail
  <1>3. /\ n \in Connection /\ n.ctx = m.ctx /\ n.cref = m.cref /\ n.cfreed = m.cfreed
        /\ n.ref = m.ref /\ n.freed = m.freed /\ n.mref = m.mref /\ n.mfreed = m.mfreed
        /\ n.connect_cb = m.connect_cb /\ n.on_shutting_down = m.on_shutting_down
        /\ n.dns = m.dns /\ n.sock = m.sock /\ n.close_cb = m.close_cb
        /\ n.connecting = m.connecting /\ n.timer = m.timer /\ n.reading = m.reading
        /\ n.writable = m.writable /\ n.writes = q /\ n.shutting = m.shutting
        /\ n.handshake = m.handshake /\ n.left = m.left
    <2>1. m \in Connection
      BY <1>1
    <2>2. n = WritesTo(m, q)
      OBVIOUS
    <2> HIDE DEF q
    <2> QED BY <2>1, <2>2, <1>2, ConnWritesTo
  <1>7. DataWrites(m.writes) = DataWrites(q) + One(Head(m.writes) = "data")
    BY <1>1, <1>0, DataTail
  <1> HIDE DEF q
  <1>5. Counts(n, g, h, x + One(Head(m.writes) = "data"), y)
    <2> DEFINE a1 == m.ref
               a2 == n.ref
               b1 == m.mref
               b2 == n.mref
               p1 == One(m.connect_cb)
               p2 == One(n.connect_cb)
               d1 == DataWrites(m.writes)
               d2 == DataWrites(n.writes)
               s1 == One(m.sock = "closing")
               s2 == One(n.sock = "closing")
               t1 == One(m.timer = "closing")
               t2 == One(n.timer = "closing")
               w == One(Head(m.writes) = "data")
    <2>1. /\ n.cref = m.cref /\ n.cfreed = m.cfreed /\ n.freed = m.freed
          /\ n.mfreed = m.mfreed /\ n.on_shutting_down = m.on_shutting_down
      BY <1>3
    <2>2. d1 \in Nat /\ d2 \in Nat /\ a1 \in Nat /\ b1 \in Nat /\ a2 \in Nat /\ b2 \in Nat
      <3>1. m \in Connection /\ n \in Connection
        BY <1>1, <1>3
      <3>2. m.writes \in Seq(WriteKinds) /\ n.writes \in Seq(WriteKinds)
        BY <3>1, ConnFields
      <3>3. d1 \in Nat /\ d2 \in Nat
        BY <3>2, DataFinite
      <3> QED BY <3>1, <3>3, ConnFields
    <2>3. p1 \in Nat /\ p2 \in Nat /\ s1 \in Nat /\ s2 \in Nat /\ t1 \in Nat /\ t2 \in Nat
      BY DEF One
    <2>4. /\ m.connect_cb \/ ~m.cfreed => m.ref # 0
          /\ m.ref # 0 => m.mref # 0
      BY <1>1, CountsAlive
    <2>5. x + One(Head(m.writes) = "data") \in Nat /\ y \in Nat
      BY DEF One
    <2>6. p2 = p1 /\ d2 = DataWrites(q) /\ a2 = a1 /\ s2 = s1 /\ t2 = t1 /\ b2 = b1 /\ d1 = DataWrites(q) + w /\ w \in Nat
      BY <1>1, <1>3, <2>4, <1>7 DEF One, Handles
    <2>7. /\ a2 + p1 + d1 + x = a1 + p2 + d2 + (x + w)
          /\ b2 + s1 + t1 + y = b1 + s2 + t2 + (y)
          /\ a2 = 0 <=> a1 = 0
          /\ b2 = 0 <=> b1 = 0
      <3> HIDE DEF a1, a2, b1, b2, p1, p2, d1, d2, s1, s2, t1, t2, w
      <3> QED BY <2>2, <2>3, <2>5, <2>6
    <2>8. m \in Connection /\ n \in Connection
      BY <1>1, <1>3
    <2> HIDE DEF d1, d2, p1, p2, s1, s2, t1, t2, a1, a2, b1, b2
    <2>9. /\ n.ref + One(m.connect_cb) + DataWrites(m.writes) + x
                = m.ref + One(n.connect_cb) + DataWrites(n.writes) + (x + One(Head(m.writes) = "data"))
          /\ n.mref + One(m.sock = "closing") + One(m.timer = "closing") + y
                = m.mref + One(n.sock = "closing") + One(n.timer = "closing") + (y)
          /\ n.ref = 0 <=> m.ref = 0
          /\ n.mref = 0 <=> m.mref = 0
      BY <2>7 DEF d1, d2, p1, p2, s1, s2, t1, t2, a1, a2, b1, b2
    <2> QED BY <2>1, <2>5, <2>8, <2>9, CountsMoved
  <1>6. Handles(n)
    BY <1>3 DEF Handles
  <1> QED BY <1>5, <1>6

-----------------------------------------------------------------------------
(* A tunnel that was shut down, between two callbacks and within one. *)

\* How far the close of its connection has come.
Past(m, held) ==
    \/ held /\ "early" \notin m.left /\ Ending(m)
    \/ ~held /\ "early" \notin m.left /\ Ended(m)
    \/ ~held /\ Early(m)

\* The core, client_ctx and the connection of a tunnel that was shut down, while
\* a callback of the connection runs.
Shut(c, e, m, x, y) ==
    /\ CoreOver(c) /\ e \in Extra /\ Handles(m) /\ Counts(m, c.freed, c.held, x, y)
    /\ m.on_shutting_down /\ Past(m, c.held)

LEMMA ShutClosed ==
    ASSUME NEW c, NEW e, NEW m, NEW x, NEW y
    PROVE  Shut(c, e, m, x, y) <=> CoreOver(c) /\ e \in Extra /\ Closed(m, c.freed, c.held, x, y)
  BY DEF Shut, Past, Closed

LEMMA ShutGood ==
    ASSUME NEW c, NEW e, NEW m, Shut(c, e, m, 0, 0)
    PROVE  Good(State(c, e, m))
  <1>1. CoreOver(c) /\ e \in Extra /\ Over(m, c.freed, c.held, 0, 0)
    BY ShutClosed DEF Over
  <1> QED BY <1>1, DeadIntro

\* The references that a callback returns when it ends.
LEMMA ShutSame ==
    ASSUME NEW c, NEW e, NEW m, NEW x, NEW y, Shut(c, e, m, x, y), NEW n, SameConn(m, n),
           NEW xx, NEW yy, Counts(n, c.freed, c.held, xx, yy)
    PROVE  Shut(c, e, n, xx, yy)
  <1>1. Handles(n) /\ (Ending(m) => Ending(n)) /\ (Ended(m) => Ended(n)) /\ (Early(m) => Early(n))
    BY SameFacts DEF Shut
  <1>2. n.left = m.left /\ n.on_shutting_down = m.on_shutting_down
    BY DEF SameConn
  <1>3. Past(n, c.held)
    BY <1>1, <1>2 DEF Shut, Past
  <1> QED BY <1>1, <1>2, <1>3 DEF Shut

LEMMA ShutCli ==
    ASSUME NEW c, NEW e, NEW m, NEW x \in Nat, NEW y \in Nat, Shut(c, e, m, x, y), x # 0,
           NEW n, n = tls_cli_ctx_release(m)
    PROVE  Shut(c, e, n, x - 1, y)
  <1> DEFINE g == c.freed
             h == c.held
  <1>1. m \in Connection /\ CoreOver(c) /\ Counts(m, g, h, x, y)
    BY DEF Shut, Handles
  <1>2. g \in BOOLEAN /\ h \in BOOLEAN
    BY <1>1, CoreOverFacts
  <1> HIDE DEF g, h
  <1>3. SameConn(m, n) /\ Counts(n, g, h, x - 1, y)
    BY <1>1, <1>2, CountsCli
  <1> DEFINE z == x - 1
  <1> HIDE DEF z
  <1>4. SameConn(m, n) /\ Counts(n, c.freed, c.held, z, y)
    BY <1>3 DEF z, g, h
  <1>5. Shut(c, e, n, z, y)
    BY <1>4, ShutSame
  <1> QED BY <1>5 DEF z

LEMMA ShutMbed ==
    ASSUME NEW c, NEW e, NEW m, NEW x \in Nat, NEW y \in Nat, Shut(c, e, m, x, y), y # 0,
           NEW n, n = uv_mbed_release(m)
    PROVE  Shut(c, e, n, x, y - 1)
  <1> DEFINE g == c.freed
             h == c.held
  <1>1. m \in Connection /\ CoreOver(c) /\ Counts(m, g, h, x, y)
    BY DEF Shut, Handles
  <1>2. g \in BOOLEAN /\ h \in BOOLEAN
    BY <1>1, CoreOverFacts
  <1> HIDE DEF g, h
  <1>3. SameConn(m, n) /\ Counts(n, g, h, x, y - 1)
    BY <1>1, <1>2, CountsMbed
  <1> DEFINE z == y - 1
  <1> HIDE DEF z
  <1>4. SameConn(m, n) /\ Counts(n, c.freed, c.held, x, z)
    BY <1>3 DEF z, g, h
  <1>5. Shut(c, e, n, x, z)
    BY <1>4, ShutSame
  <1> QED BY <1>5 DEF z

\* connect_cb returns both.
LEMMA ShutReturned ==
    ASSUME NEW c, NEW e, NEW m, Shut(c, e, m, 1, 1)
    PROVE  Shut(c, e, uv_mbed_release(tls_cli_ctx_release(m)), 0, 0)
  <1> DEFINE n == tls_cli_ctx_release(m)
             k == uv_mbed_release(n)
  <1>1. Shut(c, e, n, 1 - 1, 1)
    <2> HIDE DEF n
    <2> QED BY ShutCli DEF n
  <1>2. 1 - 1 = 0
    OBVIOUS
  <1>3. Shut(c, e, n, 0, 1)
    <2> HIDE DEF n
    <2> QED BY <1>1, <1>2
  <1> HIDE DEF n
  <1>4. Shut(c, e, k, 0, 1 - 1)
    <2> HIDE DEF k
    <2> QED BY <1>3, ShutMbed DEF k
  <1> HIDE DEF k
  <1>5. Shut(c, e, k, 0, 0)
    BY <1>2, <1>4
  <1> QED BY <1>5 DEF k, n

LEMMA EndsShut ==
    ASSUME NEW u, NEW e \in Extra, NEW x \in Nat, NEW y \in Nat, Ends(u, e, x, y), x # 0
    PROVE  \E c, m : u = State(c, e, m) /\ Shut(c, e, m, x, y)
  <1>1. PICK c, m : /\ u = State(c, e, m) /\ CoreOver(c) /\ c.freed = FALSE
                    /\ Over(m, FALSE, c.held, x, y)
    BY DEF Ends
  <1>2. Closed(m, c.freed, c.held, x, y)
    BY <1>1 DEF Over
  <1>3. Shut(c, e, m, x, y)
    BY <1>1, <1>2, ShutClosed
  <1> QED BY <1>1, <1>3

\* What is done after the handler of the connect, and of a write.
Returned(u) == WithTls(u, uv_mbed_release(tls_cli_ctx_release(Tls(u))))
GaveBack(u) == WithTls(u, tls_cli_ctx_release(Tls(u)))

LEMMA EndsReturned ==
    ASSUME NEW u, NEW e \in Extra, Ends(u, e, 1, 1)
    PROVE  Good(Returned(u))
  <1>1. PICK c, m : u = State(c, e, m) /\ Shut(c, e, m, 1, 1)
    BY EndsShut
  <1>2. IsCore(c)
    BY <1>1, CoreOverFacts DEF Shut
  <1>3. Tls(u) = m
    BY <1>1, StateFields
  <1> DEFINE n == uv_mbed_release(tls_cli_ctx_release(m))
  <1>4. Shut(c, e, n, 0, 0)
    BY <1>1, ShutReturned
  <1>5. Returned(u) = WithTls(State(c, e, m), n)
    BY <1>1, <1>3 DEF Returned
  <1> HIDE DEF n
  <1>6. WithTls(State(c, e, m), n) = State(c, e, n)
    BY <1>2, StateTls
  <1>7. Good(State(c, e, n))
    BY <1>4, ShutGood
  <1> QED BY <1>5, <1>6, <1>7

LEMMA EndsWrote ==
    ASSUME NEW u, NEW e \in Extra, Ends(u, e, 1, 0)
    PROVE  Good(GaveBack(u))
  <1>1. PICK c, m : u = State(c, e, m) /\ Shut(c, e, m, 1, 0)
    BY EndsShut
  <1>2. IsCore(c)
    BY <1>1, CoreOverFacts DEF Shut
  <1>3. Tls(u) = m
    BY <1>1, StateFields
  <1> DEFINE n == tls_cli_ctx_release(m)
  <1>4. Shut(c, e, n, 1 - 1, 0)
    <2> HIDE DEF n
    <2> QED BY <1>1, ShutCli DEF n
  <1>5. GaveBack(u) = WithTls(State(c, e, m), n)
    BY <1>1, <1>3 DEF GaveBack
  <1> HIDE DEF n
  <1>8. 1 - 1 = 0
    OBVIOUS
  <1>9. Shut(c, e, n, 0, 0)
    BY <1>4, <1>8
  <1>6. WithTls(State(c, e, m), n) = State(c, e, n)
    BY <1>2, StateTls
  <1>7. Good(State(c, e, n))
    BY <1>9, ShutGood
  <1> QED BY <1>5, <1>6, <1>7


-----------------------------------------------------------------------------
(* The callbacks of the connection of a tunnel that was shut down. *)

LEMMA PastCases ==
    ASSUME NEW m, NEW h \in BOOLEAN, Handles(m), Past(m, h)
    PROVE  /\ m.dns \/ m.sock = "connecting" \/ m.reading => ~h /\ Early(m)
           /\ m.shutting \/ Notified(m) \/ (m.sock = "closing" /\ m.close_cb = "close_done") =>
                 h /\ Ending(m) /\ "early" \notin m.left
           /\ Early(m) => ~h
  <1>1. m.writes = <<>> => ~Notified(m)
    BY DEF Notified
  <1>2. m.dns \/ m.sock = "connecting" \/ m.reading => ~Ending(m) /\ ~Ended(m)
    BY DEF Handles, Ending, Ended
  <1>3. m.shutting \/ Notified(m) \/ (m.sock = "closing" /\ m.close_cb = "close_done") =>
           ~Early(m) /\ ~Ended(m)
    BY <1>1 DEF Handles, Early, Ended
  <1>4. Early(m) => "early" \in m.left
    BY DEF Early
  <1> QED BY <1>2, <1>3, <1>4 DEF Past

\* What Past depends on.
LEMMA PastKept ==
    ASSUME NEW m, NEW n, NEW h, n.left = m.left, n.sock = m.sock, n.close_cb = m.close_cb,
           n.connecting = m.connecting, n.dns = m.dns, n.reading = m.reading,
           n.writable = m.writable, n.shutting = m.shutting, n.writes = m.writes
    PROVE  Past(m, h) => Past(n, h)
  <1>1. Notified(n) <=> Notified(m)
    BY DEF Notified
  <1>2. (Ending(m) => Ending(n)) /\ (Ended(m) => Ended(n)) /\ (Early(m) => Early(n))
    BY <1>1 DEF Ending, Ended, Early
  <1> QED BY <1>2 DEF Past

LEMMA EarlyKept ==
    ASSUME NEW m, NEW n, NEW h, Early(m), ~h, n.left = m.left, n.shutting = m.shutting,
           ~Notified(n), n.sock = "closing" => n.close_cb = "connect_canceled"
    PROVE  Past(n, h)
  BY DEF Early, Past

\* The lookup is over.
LEMMA SFound ==
    ASSUME NEW c, NEW e, NEW m, Shut(c, e, m, 0, 0), NEW n, n = FoundTo(m)
    PROVE  m.dns => Shut(c, e, n, 0, 0)
  <1> DEFINE g == c.freed
             h == c.held
  <1>1. /\ CoreOver(c) /\ e \in Extra /\ Handles(m) /\ Counts(m, g, h, 0, 0)
        /\ m.on_shutting_down /\ Past(m, h)
    BY DEF Shut
  <1>2. g \in BOOLEAN /\ h \in BOOLEAN
    BY <1>1, CoreOverFacts
  <1>3. m \in Connection /\ m.mref \in Nat /\ m.writes \in Seq(WriteKinds)
    BY <1>1, ConnFields DEF Handles
  <1> HIDE DEF g, h
  <1>4. m.dns => Handles(n) /\ Counts(n, g, h, 0, 0)
    BY <1>1, <1>2, HFound
  <1>60. /\ n \in Connection /\ n.ctx = m.ctx /\ n.cref = m.cref /\ n.cfreed = m.cfreed
         /\ n.ref = m.ref /\ n.freed = m.freed /\ n.mref = m.mref /\ n.mfreed = m.mfreed
         /\ n.connect_cb = m.connect_cb /\ n.on_shutting_down = m.on_shutting_down /\ ~n.dns
         /\ n.sock = m.sock /\ n.close_cb = m.close_cb /\ n.connecting = m.connecting
         /\ n.timer = m.timer /\ n.reading = m.reading /\ n.writable = m.writable
         /\ n.writes = m.writes /\ n.shutting = m.shutting /\ n.handshake = m.handshake
         /\ n.left = m.left
    <2>1. m \in Connection
      BY <1>3
    <2>2. n = FoundTo(m)
      OBVIOUS
    <2> QED BY <2>1, <2>2, ConnFoundTo
  <1>7. SUFFICES ASSUME m.dns
        PROVE  Shut(c, e, n, 0, 0)
    OBVIOUS
  <1>8. Past(n, h)
    <2>1. ~h /\ Early(m)
      BY <1>7, <1>1, <1>2, PastCases
    <2>2. n.left = m.left /\ n.shutting = m.shutting /\ ~Notified(n)
          /\ (n.sock = "closing" => n.close_cb = "connect_canceled")
      BY <1>7, <2>1, <1>60 DEF Early, Notified
    <2> QED BY <2>1, <2>2, EarlyKept
  <1>9. Handles(n) /\ Counts(n, c.freed, c.held, 0, 0) /\ Past(n, c.held)
    BY <1>7, <1>4, <1>8 DEF g, h
  <1> QED BY <1>1, <1>60, <1>9 DEF Shut

\* uv_tcp_connect is under way.
LEMMA SDial ==
    ASSUME NEW c, NEW e, NEW m, Shut(c, e, m, 0, 0), NEW n, n = DialTo(m)
    PROVE  m.sock = "none" /\ m.connect_cb /\ ~m.dns /\ Early(m) => Shut(c, e, n, 0, 0)
  <1> DEFINE g == c.freed
             h == c.held
  <1>1. /\ CoreOver(c) /\ e \in Extra /\ Handles(m) /\ Counts(m, g, h, 0, 0)
        /\ m.on_shutting_down /\ Past(m, h)
    BY DEF Shut
  <1>2. g \in BOOLEAN /\ h \in BOOLEAN
    BY <1>1, CoreOverFacts
  <1>3. m \in Connection /\ m.mref \in Nat /\ m.writes \in Seq(WriteKinds)
    BY <1>1, ConnFields DEF Handles
  <1> HIDE DEF g, h
  <1>4. m.sock = "none" /\ m.connect_cb /\ ~m.dns => Handles(n) /\ Counts(n, g, h, 0, 0)
    BY <1>1, <1>2, HDial
  <1>60. /\ n \in Connection /\ n.ctx = m.ctx /\ n.cref = m.cref /\ n.cfreed = m.cfreed
         /\ n.ref = m.ref /\ n.freed = m.freed /\ n.mref = m.mref /\ n.mfreed = m.mfreed
         /\ n.connect_cb = m.connect_cb /\ n.on_shutting_down = m.on_shutting_down
         /\ n.dns = m.dns /\ n.sock = "connecting" /\ n.close_cb = m.close_cb
         /\ n.connecting /\ n.timer = "running" /\ n.reading = m.reading
         /\ n.writable = m.writable /\ n.writes = m.writes /\ n.shutting = m.shutting
         /\ n.handshake = m.handshake /\ n.left = m.left
    <2>1. m \in Connection
      BY <1>3
    <2>2. n = DialTo(m)
      OBVIOUS
    <2> QED BY <2>1, <2>2, ConnDialTo
  <1>7. SUFFICES ASSUME m.sock = "none" /\ m.connect_cb /\ ~m.dns /\ Early(m)
        PROVE  Shut(c, e, n, 0, 0)
    OBVIOUS
  <1>8. Past(n, h)
    <2>1. ~h
      BY <1>7, <1>1, <1>2, PastCases
    <2>2. n.left = m.left /\ n.shutting = m.shutting /\ ~Notified(n)
          /\ (n.sock = "closing" => n.close_cb = "connect_canceled")
      BY <1>7, <1>60 DEF Early, Notified
    <2> QED BY <1>7, <2>1, <2>2, EarlyKept
  <1>9. Handles(n) /\ Counts(n, c.freed, c.held, 0, 0) /\ Past(n, c.held)
    BY <1>7, <1>4, <1>8 DEF g, h
  <1> QED BY <1>1, <1>60, <1>9 DEF Shut

\* uv_tcp_connect fails.
LEMMA SFail ==
    ASSUME NEW c, NEW e, NEW m, Shut(c, e, m, 0, 0), NEW n, n = SockTo(m, "failed")
    PROVE  m.sock = "none" /\ ~m.dns /\ Early(m) => Shut(c, e, n, 0, 0)
  <1> DEFINE g == c.freed
             h == c.held
  <1>1. /\ CoreOver(c) /\ e \in Extra /\ Handles(m) /\ Counts(m, g, h, 0, 0)
        /\ m.on_shutting_down /\ Past(m, h)
    BY DEF Shut
  <1>2. g \in BOOLEAN /\ h \in BOOLEAN
    BY <1>1, CoreOverFacts
  <1>3. m \in Connection /\ m.mref \in Nat /\ m.writes \in Seq(WriteKinds)
    BY <1>1, ConnFields DEF Handles
  <1> HIDE DEF g, h
  <1>4. m.sock = "none" /\ ~m.dns => Handles(n) /\ Counts(n, g, h, 0, 0)
    BY <1>1, <1>2, HFail
  <1> DEFINE a == "failed"
  <1>50. a \in SockStates
    BY DEF SockStates
  <1>60. /\ n \in Connection /\ n.ctx = m.ctx /\ n.cref = m.cref /\ n.cfreed = m.cfreed
         /\ n.ref = m.ref /\ n.freed = m.freed /\ n.mref = m.mref /\ n.mfreed = m.mfreed
         /\ n.connect_cb = m.connect_cb /\ n.on_shutting_down = m.on_shutting_down
         /\ n.dns = m.dns /\ n.sock = a /\ n.close_cb = m.close_cb
         /\ n.connecting = m.connecting /\ n.timer = m.timer /\ n.reading = m.reading
         /\ n.writable = m.writable /\ n.writes = m.writes /\ n.shutting = m.shutting
         /\ n.handshake = m.handshake /\ n.left = m.left
    <2> DEFINE k00 == SockTo(m, a)
    <2>1. m \in Connection
      BY <1>3
    <2>3. n = k00
      OBVIOUS
    <2> HIDE DEF a
    <2>2. /\ k00 \in Connection /\ k00.ctx = m.ctx /\ k00.cref = m.cref
          /\ k00.cfreed = m.cfreed /\ k00.ref = m.ref /\ k00.freed = m.freed
          /\ k00.mref = m.mref /\ k00.mfreed = m.mfreed /\ k00.connect_cb = m.connect_cb
          /\ k00.on_shutting_down = m.on_shutting_down /\ k00.dns = m.dns /\ k00.sock = a
          /\ k00.close_cb = m.close_cb /\ k00.connecting = m.connecting
          /\ k00.timer = m.timer /\ k00.reading = m.reading /\ k00.writable = m.writable
          /\ k00.writes = m.writes /\ k00.shutting = m.shutting
          /\ k00.handshake = m.handshake /\ k00.left = m.left
      BY <2>1, <1>50, ConnSockTo
    <2> HIDE DEF k00
    <2> QED BY <2>3, <2>2
  <1> HIDE DEF a
  <1>7. SUFFICES ASSUME m.sock = "none" /\ ~m.dns /\ Early(m)
        PROVE  Shut(c, e, n, 0, 0)
    OBVIOUS
  <1>8. Past(n, h)
    <2>1. ~h
      BY <1>7, <1>1, <1>2, PastCases
    <2>2. n.left = m.left /\ n.shutting = m.shutting /\ ~Notified(n)
          /\ (n.sock = "closing" => n.close_cb = "connect_canceled")
      BY <1>7, <1>60 DEF Early, Notified, a
    <2> QED BY <1>7, <2>1, <2>2, EarlyKept
  <1>9. Handles(n) /\ Counts(n, c.freed, c.held, 0, 0) /\ Past(n, c.held)
    BY <1>7, <1>4, <1>8 DEF g, h
  <1> QED BY <1>1, <1>60, <1>9 DEF Shut

\* The connect timer expires, of a handle that is closing.
LEMMA SExpired ==
    ASSUME NEW c, NEW e, NEW m, Shut(c, e, m, 0, 0), NEW n, n = TimerTo(m, "expired")
    PROVE  m.timer = "running" /\ m.sock # "connecting" => Shut(c, e, n, 0, 0)
  <1> DEFINE g == c.freed
             h == c.held
  <1>1. /\ CoreOver(c) /\ e \in Extra /\ Handles(m) /\ Counts(m, g, h, 0, 0)
        /\ m.on_shutting_down /\ Past(m, h)
    BY DEF Shut
  <1>2. g \in BOOLEAN /\ h \in BOOLEAN
    BY <1>1, CoreOverFacts
  <1>3. m \in Connection /\ m.mref \in Nat /\ m.writes \in Seq(WriteKinds)
    BY <1>1, ConnFields DEF Handles
  <1> HIDE DEF g, h
  <1>4. m.timer = "running" /\ m.sock # "connecting" => Handles(n) /\ Counts(n, g, h, 0, 0)
    BY <1>1, <1>2, HExpired
  <1> DEFINE a == "expired"
  <1>50. a \in TimerStates
    BY DEF TimerStates
  <1>60. /\ n \in Connection /\ n.ctx = m.ctx /\ n.cref = m.cref /\ n.cfreed = m.cfreed
         /\ n.ref = m.ref /\ n.freed = m.freed /\ n.mref = m.mref /\ n.mfreed = m.mfreed
         /\ n.connect_cb = m.connect_cb /\ n.on_shutting_down = m.on_shutting_down
         /\ n.dns = m.dns /\ n.sock = m.sock /\ n.close_cb = m.close_cb
         /\ n.connecting = m.connecting /\ n.timer = a /\ n.reading = m.reading
         /\ n.writable = m.writable /\ n.writes = m.writes /\ n.shutting = m.shutting
         /\ n.handshake = m.handshake /\ n.left = m.left
    <2> DEFINE k00 == TimerTo(m, a)
    <2>1. m \in Connection
      BY <1>3
    <2>3. n = k00
      OBVIOUS
    <2> HIDE DEF a
    <2>2. /\ k00 \in Connection /\ k00.ctx = m.ctx /\ k00.cref = m.cref
          /\ k00.cfreed = m.cfreed /\ k00.ref = m.ref /\ k00.freed = m.freed
          /\ k00.mref = m.mref /\ k00.mfreed = m.mfreed /\ k00.connect_cb = m.connect_cb
          /\ k00.on_shutting_down = m.on_shutting_down /\ k00.dns = m.dns
          /\ k00.sock = m.sock /\ k00.close_cb = m.close_cb /\ k00.connecting = m.connecting
          /\ k00.timer = a /\ k00.reading = m.reading /\ k00.writable = m.writable
          /\ k00.writes = m.writes /\ k00.shutting = m.shutting
          /\ k00.handshake = m.handshake /\ k00.left = m.left
      BY <2>1, <1>50, ConnTimerTo
    <2> HIDE DEF k00
    <2> QED BY <2>3, <2>2
  <1> HIDE DEF a
  <1>7. SUFFICES ASSUME m.timer = "running" /\ m.sock # "connecting"
        PROVE  Shut(c, e, n, 0, 0)
    OBVIOUS
  <1>8. Past(n, h)
    BY <1>1, <1>60, PastKept
  <1>9. Handles(n) /\ Counts(n, c.freed, c.held, 0, 0) /\ Past(n, c.held)
    BY <1>7, <1>4, <1>8 DEF g, h
  <1> QED BY <1>1, <1>60, <1>9 DEF Shut

\* The connect timer expires, and closes the socket.
LEMMA SCancel ==
    ASSUME NEW c, NEW e, NEW m, Shut(c, e, m, 0, 0), NEW n, n = CloseTo(TimerTo(m, "expired"), m.mref + 1, "connect_canceled")
    PROVE  m.sock = "connecting" => Shut(c, e, n, 0, 0)
  <1> DEFINE g == c.freed
             h == c.held
  <1>1. /\ CoreOver(c) /\ e \in Extra /\ Handles(m) /\ Counts(m, g, h, 0, 0)
        /\ m.on_shutting_down /\ Past(m, h)
    BY DEF Shut
  <1>2. g \in BOOLEAN /\ h \in BOOLEAN
    BY <1>1, CoreOverFacts
  <1>3. m \in Connection /\ m.mref \in Nat /\ m.writes \in Seq(WriteKinds)
    BY <1>1, ConnFields DEF Handles
  <1> HIDE DEF g, h
  <1>4. m.sock = "connecting" => Handles(n) /\ Counts(n, g, h, 0, 0)
    BY <1>1, <1>2, HCancel
  <1> DEFINE a == "expired"
             r == m.mref + 1
             cb == "connect_canceled"
             k == TimerTo(m, a)
  <1>50. a \in TimerStates
    BY DEF TimerStates
  <1>60. /\ k \in Connection /\ k.ctx = m.ctx /\ k.cref = m.cref /\ k.cfreed = m.cfreed
         /\ k.ref = m.ref /\ k.freed = m.freed /\ k.mref = m.mref /\ k.mfreed = m.mfreed
         /\ k.connect_cb = m.connect_cb /\ k.on_shutting_down = m.on_shutting_down
         /\ k.dns = m.dns /\ k.sock = m.sock /\ k.close_cb = m.close_cb
         /\ k.connecting = m.connecting /\ k.timer = a /\ k.reading = m.reading
         /\ k.writable = m.writable /\ k.writes = m.writes /\ k.shutting = m.shutting
         /\ k.handshake = m.handshake /\ k.left = m.left
    <2>1. m \in Connection
      BY <1>3
    <2>2. k = TimerTo(m, a)
      OBVIOUS
    <2> HIDE DEF a
    <2> QED BY <2>1, <2>2, <1>50, ConnTimerTo
  <1>51. r \in Nat /\ cb \in CloseCbs
    BY <1>3 DEF CloseCbs
  <1>61. /\ n \in Connection /\ n.ctx = k.ctx /\ n.cref = k.cref /\ n.cfreed = k.cfreed
         /\ n.ref = k.ref /\ n.freed = k.freed /\ n.mref = r /\ n.mfreed = k.mfreed
         /\ n.connect_cb = k.connect_cb /\ n.on_shutting_down = k.on_shutting_down
         /\ n.dns = k.dns /\ n.sock = "closing" /\ n.close_cb = cb
         /\ n.connecting = k.connecting /\ n.timer = k.timer /\ ~n.reading /\ ~n.writable
         /\ n.writes = k.writes /\ n.shutting = k.shutting /\ n.handshake = k.handshake
         /\ n.left = k.left
    <2> DEFINE k11 == CloseTo(k, r, cb)
    <2>1. k \in Connection
      BY <1>60
    <2>3. n = k11
      OBVIOUS
    <2> HIDE DEF r, cb, k
    <2>2. /\ k11 \in Connection /\ k11.ctx = k.ctx /\ k11.cref = k.cref
          /\ k11.cfreed = k.cfreed /\ k11.ref = k.ref /\ k11.freed = k.freed /\ k11.mref = r
          /\ k11.mfreed = k.mfreed /\ k11.connect_cb = k.connect_cb
          /\ k11.on_shutting_down = k.on_shutting_down /\ k11.dns = k.dns
          /\ k11.sock = "closing" /\ k11.close_cb = cb /\ k11.connecting = k.connecting
          /\ k11.timer = k.timer /\ ~k11.reading /\ ~k11.writable /\ k11.writes = k.writes
          /\ k11.shutting = k.shutting /\ k11.handshake = k.handshake /\ k11.left = k.left
      BY <2>1, <1>51, ConnCloseTo
    <2> HIDE DEF k11
    <2> QED BY <2>3, <2>2
  <1> HIDE DEF a, r, cb, k
  <1>7. SUFFICES ASSUME m.sock = "connecting"
        PROVE  Shut(c, e, n, 0, 0)
    OBVIOUS
  <1>8. Past(n, h)
    <2>1. ~h /\ Early(m)
      BY <1>7, <1>1, <1>2, PastCases
    <2>2. n.left = m.left /\ n.shutting = m.shutting /\ ~Notified(n)
          /\ (n.sock = "closing" => n.close_cb = "connect_canceled")
      BY <1>7, <2>1, <1>60, <1>61 DEF Early, Notified, cb
    <2> QED BY <2>1, <2>2, EarlyKept
  <1>9. Handles(n) /\ Counts(n, c.freed, c.held, 0, 0) /\ Past(n, c.held)
    BY <1>7, <1>4, <1>8 DEF g, h
  <1> QED BY <1>1, <1>60, <1>61, <1>9 DEF Shut

\* The connect request fails.
LEMMA SDialled ==
    ASSUME NEW c, NEW e, NEW m, Shut(c, e, m, 0, 0), NEW n, n = SockTo(DialledTo(m, m.mref + 1), IF m.sock = "connecting" THEN "failed" ELSE m.sock)
    PROVE  m.connecting => Shut(c, e, n, 0, 0)
  <1> DEFINE g == c.freed
             h == c.held
  <1>1. /\ CoreOver(c) /\ e \in Extra /\ Handles(m) /\ Counts(m, g, h, 0, 0)
        /\ m.on_shutting_down /\ Past(m, h)
    BY DEF Shut
  <1>2. g \in BOOLEAN /\ h \in BOOLEAN
    BY <1>1, CoreOverFacts
  <1>3. m \in Connection /\ m.mref \in Nat /\ m.writes \in Seq(WriteKinds)
    BY <1>1, ConnFields DEF Handles
  <1> HIDE DEF g, h
  <1>4. m.connecting => Handles(n) /\ Counts(n, g, h, 0, 0)
    BY <1>1, <1>2, HDialled
  <1> DEFINE r == m.mref + 1
             a == IF m.sock = "connecting" THEN "failed" ELSE m.sock
             k == DialledTo(m, r)
  <1>50. r \in Nat
    BY <1>3
  <1>60. /\ k \in Connection /\ k.ctx = m.ctx /\ k.cref = m.cref /\ k.cfreed = m.cfreed
         /\ k.ref = m.ref /\ k.freed = m.freed /\ k.mref = r /\ k.mfreed = m.mfreed
         /\ k.connect_cb = m.connect_cb /\ k.on_shutting_down = m.on_shutting_down
         /\ k.dns = m.dns /\ k.sock = m.sock /\ k.close_cb = m.close_cb /\ ~k.connecting
         /\ k.timer = "closing" /\ k.reading = m.reading /\ k.writable = m.writable
         /\ k.writes = m.writes /\ k.shutting = m.shutting /\ k.handshake = m.handshake
         /\ k.left = m.left
    <2>1. m \in Connection
      BY <1>3
    <2>2. k = DialledTo(m, r)
      OBVIOUS
    <2> HIDE DEF r
    <2> QED BY <2>1, <2>2, <1>50, ConnDialledTo
  <1>51. a \in SockStates
    BY <1>3, ConnFields DEF SockStates
  <1>61. /\ n \in Connection /\ n.ctx = k.ctx /\ n.cref = k.cref /\ n.cfreed = k.cfreed
         /\ n.ref = k.ref /\ n.freed = k.freed /\ n.mref = k.mref /\ n.mfreed = k.mfreed
         /\ n.connect_cb = k.connect_cb /\ n.on_shutting_down = k.on_shutting_down
         /\ n.dns = k.dns /\ n.sock = a /\ n.close_cb = k.close_cb
         /\ n.connecting = k.connecting /\ n.timer = k.timer /\ n.reading = k.reading
         /\ n.writable = k.writable /\ n.writes = k.writes /\ n.shutting = k.shutting
         /\ n.handshake = k.handshake /\ n.left = k.left
    <2> DEFINE k11 == SockTo(k, a)
    <2>1. k \in Connection
      BY <1>60
    <2>3. n = k11
      OBVIOUS
    <2> HIDE DEF a, k
    <2>2. /\ k11 \in Connection /\ k11.ctx = k.ctx /\ k11.cref = k.cref
          /\ k11.cfreed = k.cfreed /\ k11.ref = k.ref /\ k11.freed = k.freed
          /\ k11.mref = k.mref /\ k11.mfreed = k.mfreed /\ k11.connect_cb = k.connect_cb
          /\ k11.on_shutting_down = k.on_shutting_down /\ k11.dns = k.dns /\ k11.sock = a
          /\ k11.close_cb = k.close_cb /\ k11.connecting = k.connecting
          /\ k11.timer = k.timer /\ k11.reading = k.reading /\ k11.writable = k.writable
          /\ k11.writes = k.writes /\ k11.shutting = k.shutting
          /\ k11.handshake = k.handshake /\ k11.left = k.left
      BY <2>1, <1>51, ConnSockTo
    <2> HIDE DEF k11
    <2> QED BY <2>3, <2>2
  <1> HIDE DEF r, a, k
  <1>7. SUFFICES ASSUME m.connecting
        PROVE  Shut(c, e, n, 0, 0)
    OBVIOUS
  <1>8. Past(n, h)
    <2>1. a # "connecting" /\ (a = "closing" <=> m.sock = "closing")
      BY <1>7, <1>1 DEF Handles, a
    <2>2. Notified(n) <=> Notified(m)
      BY <1>60, <1>61 DEF Notified
    <2>3. ~Ended(m) /\ m.sock # "connected"
      BY <1>7, <1>1 DEF Ended, Handles
    <2>4. CASE Ending(m) /\ h /\ "early" \notin m.left
      BY <2>1, <2>3, <2>4, <1>60, <1>61 DEF Ending, Past
    <2>5. CASE Early(m) /\ ~h
      BY <2>1, <2>2, <2>5, <1>60, <1>61 DEF Early, Past
    <2> QED BY <1>1, <2>3, <2>4, <2>5 DEF Past
  <1>9. Handles(n) /\ Counts(n, c.freed, c.held, 0, 0) /\ Past(n, c.held)
    BY <1>7, <1>4, <1>8 DEF g, h
  <1> QED BY <1>1, <1>60, <1>61, <1>9 DEF Shut

\* The connection is established.
LEMMA SReady ==
    ASSUME NEW c, NEW e, NEW m, Shut(c, e, m, 0, 0), NEW n, n = ReadyTo(DialledTo(m, m.mref + 1), <<"handshake">>)
    PROVE  m.sock = "connecting" => Shut(c, e, n, 0, 0)
  <1> DEFINE g == c.freed
             h == c.held
  <1>1. /\ CoreOver(c) /\ e \in Extra /\ Handles(m) /\ Counts(m, g, h, 0, 0)
        /\ m.on_shutting_down /\ Past(m, h)
    BY DEF Shut
  <1>2. g \in BOOLEAN /\ h \in BOOLEAN
    BY <1>1, CoreOverFacts
  <1>3. m \in Connection /\ m.mref \in Nat /\ m.writes \in Seq(WriteKinds)
    BY <1>1, ConnFields DEF Handles
  <1> HIDE DEF g, h
  <1>4. m.sock = "connecting" => Handles(n) /\ Counts(n, g, h, 0, 0)
    BY <1>1, <1>2, HReady
  <1> DEFINE r == m.mref + 1
             q == <<"handshake">>
             k == DialledTo(m, r)
  <1>50. r \in Nat
    BY <1>3
  <1>60. /\ k \in Connection /\ k.ctx = m.ctx /\ k.cref = m.cref /\ k.cfreed = m.cfreed
         /\ k.ref = m.ref /\ k.freed = m.freed /\ k.mref = r /\ k.mfreed = m.mfreed
         /\ k.connect_cb = m.connect_cb /\ k.on_shutting_down = m.on_shutting_down
         /\ k.dns = m.dns /\ k.sock = m.sock /\ k.close_cb = m.close_cb /\ ~k.connecting
         /\ k.timer = "closing" /\ k.reading = m.reading /\ k.writable = m.writable
         /\ k.writes = m.writes /\ k.shutting = m.shutting /\ k.handshake = m.handshake
         /\ k.left = m.left
    <2>1. m \in Connection
      BY <1>3
    <2>2. k = DialledTo(m, r)
      OBVIOUS
    <2> HIDE DEF r
    <2> QED BY <2>1, <2>2, <1>50, ConnDialledTo
  <1>51. q \in Seq(WriteKinds)
    BY DataNone
  <1>61. /\ n \in Connection /\ n.ctx = k.ctx /\ n.cref = k.cref /\ n.cfreed = k.cfreed
         /\ n.ref = k.ref /\ n.freed = k.freed /\ n.mref = k.mref /\ n.mfreed = k.mfreed
         /\ n.connect_cb = k.connect_cb /\ n.on_shutting_down = k.on_shutting_down
         /\ n.dns = k.dns /\ n.sock = "connected" /\ n.close_cb = k.close_cb
         /\ n.connecting = k.connecting /\ n.timer = k.timer /\ n.reading /\ n.writable
         /\ n.writes = q /\ n.shutting = k.shutting /\ n.handshake = "begun"
         /\ n.left = k.left
    <2> DEFINE k11 == ReadyTo(k, q)
    <2>1. k \in Connection
      BY <1>60
    <2>3. n = k11
      OBVIOUS
    <2> HIDE DEF q, k
    <2>2. /\ k11 \in Connection /\ k11.ctx = k.ctx /\ k11.cref = k.cref
          /\ k11.cfreed = k.cfreed /\ k11.ref = k.ref /\ k11.freed = k.freed
          /\ k11.mref = k.mref /\ k11.mfreed = k.mfreed /\ k11.connect_cb = k.connect_cb
          /\ k11.on_shutting_down = k.on_shutting_down /\ k11.dns = k.dns
          /\ k11.sock = "connected" /\ k11.close_cb = k.close_cb
          /\ k11.connecting = k.connecting /\ k11.timer = k.timer /\ k11.reading
          /\ k11.writable /\ k11.writes = q /\ k11.shutting = k.shutting
          /\ k11.handshake = "begun" /\ k11.left = k.left
      BY <2>1, <1>51, ConnReadyTo
    <2> HIDE DEF k11
    <2> QED BY <2>3, <2>2
  <1> HIDE DEF r, q, k
  <1>7. SUFFICES ASSUME m.sock = "connecting"
        PROVE  Shut(c, e, n, 0, 0)
    OBVIOUS
  <1>8. Past(n, h)
    <2>1. ~h /\ Early(m)
      BY <1>7, <1>1, <1>2, PastCases
    <2>2. n.left = m.left /\ n.shutting = m.shutting /\ ~Notified(n)
          /\ (n.sock = "closing" => n.close_cb = "connect_canceled")
      BY <1>7, <2>1, <1>60, <1>61 DEF Early, Notified, q
    <2> QED BY <2>1, <2>2, EarlyKept
  <1>9. Handles(n) /\ Counts(n, c.freed, c.held, 0, 0) /\ Past(n, c.held)
    BY <1>7, <1>4, <1>8 DEF g, h
  <1> QED BY <1>1, <1>60, <1>61, <1>9 DEF Shut

\* The handle of the timer is closed.
LEMMA STimerClosed ==
    ASSUME NEW c, NEW e, NEW m, Shut(c, e, m, 0, 0), NEW n, n = TimerTo(m, "closed")
    PROVE  m.timer = "closing" => Shut(c, e, n, 0, 1)
  <1> DEFINE g == c.freed
             h == c.held
  <1>1. /\ CoreOver(c) /\ e \in Extra /\ Handles(m) /\ Counts(m, g, h, 0, 0)
        /\ m.on_shutting_down /\ Past(m, h)
    BY DEF Shut
  <1>2. g \in BOOLEAN /\ h \in BOOLEAN
    BY <1>1, CoreOverFacts
  <1>3. m \in Connection /\ m.mref \in Nat /\ m.writes \in Seq(WriteKinds)
    BY <1>1, ConnFields DEF Handles
  <1> HIDE DEF g, h
  <1>4. m.timer = "closing" => Handles(n) /\ Counts(n, g, h, 0, 0 + 1)
    BY <1>1, <1>2, HTimerClosed
  <1> DEFINE a == "closed"
  <1>50. a \in TimerStates
    BY DEF TimerStates
  <1>60. /\ n \in Connection /\ n.ctx = m.ctx /\ n.cref = m.cref /\ n.cfreed = m.cfreed
         /\ n.ref = m.ref /\ n.freed = m.freed /\ n.mref = m.mref /\ n.mfreed = m.mfreed
         /\ n.connect_cb = m.connect_cb /\ n.on_shutting_down = m.on_shutting_down
         /\ n.dns = m.dns /\ n.sock = m.sock /\ n.close_cb = m.close_cb
         /\ n.connecting = m.connecting /\ n.timer = a /\ n.reading = m.reading
         /\ n.writable = m.writable /\ n.writes = m.writes /\ n.shutting = m.shutting
         /\ n.handshake = m.handshake /\ n.left = m.left
    <2> DEFINE k00 == TimerTo(m, a)
    <2>1. m \in Connection
      BY <1>3
    <2>3. n = k00
      OBVIOUS
    <2> HIDE DEF a
    <2>2. /\ k00 \in Connection /\ k00.ctx = m.ctx /\ k00.cref = m.cref
          /\ k00.cfreed = m.cfreed /\ k00.ref = m.ref /\ k00.freed = m.freed
          /\ k00.mref = m.mref /\ k00.mfreed = m.mfreed /\ k00.connect_cb = m.connect_cb
          /\ k00.on_shutting_down = m.on_shutting_down /\ k00.dns = m.dns
          /\ k00.sock = m.sock /\ k00.close_cb = m.close_cb /\ k00.connecting = m.connecting
          /\ k00.timer = a /\ k00.reading = m.reading /\ k00.writable = m.writable
          /\ k00.writes = m.writes /\ k00.shutting = m.shutting
          /\ k00.handshake = m.handshake /\ k00.left = m.left
      BY <2>1, <1>50, ConnTimerTo
    <2> HIDE DEF k00
    <2> QED BY <2>3, <2>2
  <1> HIDE DEF a
  <1>7. SUFFICES ASSUME m.timer = "closing"
        PROVE  Shut(c, e, n, 0, 1)
    OBVIOUS
  <1>8. Past(n, h)
    BY <1>1, <1>60, PastKept
  <1>9. Handles(n) /\ Counts(n, c.freed, c.held, 0, 1) /\ Past(n, c.held)
    BY <1>7, <1>4, <1>8 DEF g, h
  <1> QED BY <1>1, <1>60, <1>9 DEF Shut

\* Another flight of the handshake.
LEMMA SFlight ==
    ASSUME NEW c, NEW e, NEW m, Shut(c, e, m, 0, 0), NEW n, n = FlightTo(m, "flight", Append(m.writes, "handshake"))
    PROVE  m.reading /\ m.handshake = "begun" => Shut(c, e, n, 0, 0)
  <1> DEFINE g == c.freed
             h == c.held
  <1>1. /\ CoreOver(c) /\ e \in Extra /\ Handles(m) /\ Counts(m, g, h, 0, 0)
        /\ m.on_shutting_down /\ Past(m, h)
    BY DEF Shut
  <1>2. g \in BOOLEAN /\ h \in BOOLEAN
    BY <1>1, CoreOverFacts
  <1>3. m \in Connection /\ m.mref \in Nat /\ m.writes \in Seq(WriteKinds)
    BY <1>1, ConnFields DEF Handles
  <1> HIDE DEF g, h
  <1>4. m.reading /\ m.handshake = "begun" => Handles(n) /\ Counts(n, g, h, 0, 0)
    BY <1>1, <1>2, HFlight
  <1> DEFINE a == "flight"
             q == Append(m.writes, "handshake")
  <1>50. a \in ShakeStates /\ q \in Seq(WriteKinds)
    BY <1>3, DataOther DEF ShakeStates
  <1>60. /\ n \in Connection /\ n.ctx = m.ctx /\ n.cref = m.cref /\ n.cfreed = m.cfreed
         /\ n.ref = m.ref /\ n.freed = m.freed /\ n.mref = m.mref /\ n.mfreed = m.mfreed
         /\ n.connect_cb = m.connect_cb /\ n.on_shutting_down = m.on_shutting_down
         /\ n.dns = m.dns /\ n.sock = m.sock /\ n.close_cb = m.close_cb
         /\ n.connecting = m.connecting /\ n.timer = m.timer /\ n.reading = m.reading
         /\ n.writable = m.writable /\ n.writes = q /\ n.shutting = m.shutting
         /\ n.handshake = a /\ n.left = m.left
    <2> DEFINE k00 == FlightTo(m, a, q)
    <2>1. m \in Connection
      BY <1>3
    <2>3. n = k00
      OBVIOUS
    <2> HIDE DEF a, q
    <2>2. /\ k00 \in Connection /\ k00.ctx = m.ctx /\ k00.cref = m.cref
          /\ k00.cfreed = m.cfreed /\ k00.ref = m.ref /\ k00.freed = m.freed
          /\ k00.mref = m.mref /\ k00.mfreed = m.mfreed /\ k00.connect_cb = m.connect_cb
          /\ k00.on_shutting_down = m.on_shutting_down /\ k00.dns = m.dns
          /\ k00.sock = m.sock /\ k00.close_cb = m.close_cb /\ k00.connecting = m.connecting
          /\ k00.timer = m.timer /\ k00.reading = m.reading /\ k00.writable = m.writable
          /\ k00.writes = q /\ k00.shutting = m.shutting /\ k00.handshake = a
          /\ k00.left = m.left
      BY <2>1, <1>50, ConnFlightTo
    <2> HIDE DEF k00
    <2> QED BY <2>3, <2>2
  <1> HIDE DEF a, q
  <1>7. SUFFICES ASSUME m.reading /\ m.handshake = "begun"
        PROVE  Shut(c, e, n, 0, 0)
    OBVIOUS
  <1>8. Past(n, h)
    <2>1. ~h /\ Early(m)
      BY <1>7, <1>1, <1>2, PastCases
    <2>2. ~Notified(n)
      <3>1. \A j \in DOMAIN q : (j \in DOMAIN m.writes /\ q[j] = m.writes[j]) \/ q[j] = "handshake"
        BY <1>3, DataOther DEF q
      <3> QED BY <2>1, <3>1, <1>60 DEF Notified, Early
    <2>3. n.left = m.left /\ n.shutting = m.shutting
          /\ (n.sock = "closing" => n.close_cb = "connect_canceled")
      BY <2>1, <1>60 DEF Early
    <2> QED BY <2>1, <2>2, <2>3, EarlyKept
  <1>9. Handles(n) /\ Counts(n, c.freed, c.held, 0, 0) /\ Past(n, c.held)
    BY <1>7, <1>4, <1>8 DEF g, h
  <1> QED BY <1>1, <1>60, <1>9 DEF Shut

\* The handshake ends.
LEMMA SShake ==
    ASSUME NEW c, NEW e, NEW m, Shut(c, e, m, 0, 0), NEW a \in ShakeStates, NEW n, n = ShakeTo(m, a)
    PROVE  a \in {"over", "failed"} => Shut(c, e, n, 0, 0)
  <1> DEFINE g == c.freed
             h == c.held
  <1>1. /\ CoreOver(c) /\ e \in Extra /\ Handles(m) /\ Counts(m, g, h, 0, 0)
        /\ m.on_shutting_down /\ Past(m, h)
    BY DEF Shut
  <1>2. g \in BOOLEAN /\ h \in BOOLEAN
    BY <1>1, CoreOverFacts
  <1>3. m \in Connection /\ m.mref \in Nat /\ m.writes \in Seq(WriteKinds)
    BY <1>1, ConnFields DEF Handles
  <1> HIDE DEF g, h
  <1>4. a \in {"over", "failed"} => Handles(n) /\ Counts(n, g, h, 0, 0)
    BY <1>1, <1>2, HShake
  <1> DEFINE b == a
  <1>50. b \in ShakeStates
    OBVIOUS
  <1>60. /\ n \in Connection /\ n.ctx = m.ctx /\ n.cref = m.cref /\ n.cfreed = m.cfreed
         /\ n.ref = m.ref /\ n.freed = m.freed /\ n.mref = m.mref /\ n.mfreed = m.mfreed
         /\ n.connect_cb = m.connect_cb /\ n.on_shutting_down = m.on_shutting_down
         /\ n.dns = m.dns /\ n.sock = m.sock /\ n.close_cb = m.close_cb
         /\ n.connecting = m.connecting /\ n.timer = m.timer /\ n.reading = m.reading
         /\ n.writable = m.writable /\ n.writes = m.writes /\ n.shutting = m.shutting
         /\ n.handshake = b /\ n.left = m.left
    <2> DEFINE k00 == ShakeTo(m, b)
    <2>1. m \in Connection
      BY <1>3
    <2>3. n = k00
      OBVIOUS
    <2> HIDE DEF b
    <2>2. /\ k00 \in Connection /\ k00.ctx = m.ctx /\ k00.cref = m.cref
          /\ k00.cfreed = m.cfreed /\ k00.ref = m.ref /\ k00.freed = m.freed
          /\ k00.mref = m.mref /\ k00.mfreed = m.mfreed /\ k00.connect_cb = m.connect_cb
          /\ k00.on_shutting_down = m.on_shutting_down /\ k00.dns = m.dns
          /\ k00.sock = m.sock /\ k00.close_cb = m.close_cb /\ k00.connecting = m.connecting
          /\ k00.timer = m.timer /\ k00.reading = m.reading /\ k00.writable = m.writable
          /\ k00.writes = m.writes /\ k00.shutting = m.shutting /\ k00.handshake = b
          /\ k00.left = m.left
      BY <2>1, <1>50, ConnShakeTo
    <2> HIDE DEF k00
    <2> QED BY <2>3, <2>2
  <1> HIDE DEF b
  <1>7. SUFFICES ASSUME a \in {"over", "failed"}
        PROVE  Shut(c, e, n, 0, 0)
    OBVIOUS
  <1>8. Past(n, h)
    BY <1>1, <1>60, PastKept
  <1>9. Handles(n) /\ Counts(n, c.freed, c.held, 0, 0) /\ Past(n, c.held)
    BY <1>7, <1>4, <1>8 DEF g, h
  <1> QED BY <1>1, <1>60, <1>9 DEF Shut

\* Reading ends.
LEMMA SRead ==
    ASSUME NEW c, NEW e, NEW m, Shut(c, e, m, 0, 0), NEW b \in BOOLEAN, NEW n, n = ReadTo(m, b)
    PROVE  m.reading => Shut(c, e, n, 0, 0)
  <1> DEFINE g == c.freed
             h == c.held
  <1>1. /\ CoreOver(c) /\ e \in Extra /\ Handles(m) /\ Counts(m, g, h, 0, 0)
        /\ m.on_shutting_down /\ Past(m, h)
    BY DEF Shut
  <1>2. g \in BOOLEAN /\ h \in BOOLEAN
    BY <1>1, CoreOverFacts
  <1>3. m \in Connection /\ m.mref \in Nat /\ m.writes \in Seq(WriteKinds)
    BY <1>1, ConnFields DEF Handles
  <1> HIDE DEF g, h
  <1>4. m.reading => Handles(n) /\ Counts(n, g, h, 0, 0)
    BY <1>1, <1>2, HRead
  <1> DEFINE f == b
  <1>50. f \in BOOLEAN
    OBVIOUS
  <1>60. /\ n \in Connection /\ n.ctx = m.ctx /\ n.cref = m.cref /\ n.cfreed = m.cfreed
         /\ n.ref = m.ref /\ n.freed = m.freed /\ n.mref = m.mref /\ n.mfreed = m.mfreed
         /\ n.connect_cb = m.connect_cb /\ n.on_shutting_down = m.on_shutting_down
         /\ n.dns = m.dns /\ n.sock = m.sock /\ n.close_cb = m.close_cb
         /\ n.connecting = m.connecting /\ n.timer = m.timer /\ ~n.reading /\ n.writable = f
         /\ n.writes = m.writes /\ n.shutting = m.shutting /\ n.handshake = m.handshake
         /\ n.left = m.left
    <2> DEFINE k00 == ReadTo(m, f)
    <2>1. m \in Connection
      BY <1>3
    <2>3. n = k00
      OBVIOUS
    <2> HIDE DEF f
    <2>2. /\ k00 \in Connection /\ k00.ctx = m.ctx /\ k00.cref = m.cref
          /\ k00.cfreed = m.cfreed /\ k00.ref = m.ref /\ k00.freed = m.freed
          /\ k00.mref = m.mref /\ k00.mfreed = m.mfreed /\ k00.connect_cb = m.connect_cb
          /\ k00.on_shutting_down = m.on_shutting_down /\ k00.dns = m.dns
          /\ k00.sock = m.sock /\ k00.close_cb = m.close_cb /\ k00.connecting = m.connecting
          /\ k00.timer = m.timer /\ ~k00.reading /\ k00.writable = f
          /\ k00.writes = m.writes /\ k00.shutting = m.shutting
          /\ k00.handshake = m.handshake /\ k00.left = m.left
      BY <2>1, <1>50, ConnReadTo
    <2> HIDE DEF k00
    <2> QED BY <2>3, <2>2
  <1> HIDE DEF f
  <1>7. SUFFICES ASSUME m.reading
        PROVE  Shut(c, e, n, 0, 0)
    OBVIOUS
  <1>8. Past(n, h)
    <2>1. ~h /\ Early(m)
      BY <1>7, <1>1, <1>2, PastCases
    <2>2. n.left = m.left /\ n.shutting = m.shutting /\ ~Notified(n)
          /\ (n.sock = "closing" => n.close_cb = "connect_canceled")
      BY <1>7, <2>1, <1>60 DEF Early, Notified
    <2> QED BY <2>1, <2>2, EarlyKept
  <1>9. Handles(n) /\ Counts(n, c.freed, c.held, 0, 0) /\ Past(n, c.held)
    BY <1>7, <1>4, <1>8 DEF g, h
  <1> QED BY <1>1, <1>60, <1>9 DEF Shut

\* connect_cb is called.
LEMMA SCalled ==
    ASSUME NEW c, NEW e, NEW m, Shut(c, e, m, 0, 0), NEW n, n = CalledTo(m, m.mref + 1)
    PROVE  m.connect_cb /\ ~m.dns /\ ~m.connecting /\ ~(m.reading /\ m.handshake \in {"begun", "flight"}) => Shut(c, e, n, 1, 1)
  <1> DEFINE g == c.freed
             h == c.held
  <1>1. /\ CoreOver(c) /\ e \in Extra /\ Handles(m) /\ Counts(m, g, h, 0, 0)
        /\ m.on_shutting_down /\ Past(m, h)
    BY DEF Shut
  <1>2. g \in BOOLEAN /\ h \in BOOLEAN
    BY <1>1, CoreOverFacts
  <1>3. m \in Connection /\ m.mref \in Nat /\ m.writes \in Seq(WriteKinds)
    BY <1>1, ConnFields DEF Handles
  <1> HIDE DEF g, h
  <1>4. m.connect_cb /\ ~m.dns /\ ~m.connecting /\ ~(m.reading /\ m.handshake \in {"begun", "flight"}) => Handles(n) /\ Counts(n, g, h, 0 + 1, 0 + 1)
    BY <1>1, <1>2, HCalled
  <1> DEFINE r == m.mref + 1
  <1>50. r \in Nat
    BY <1>3
  <1>60. /\ n \in Connection /\ n.ctx = m.ctx /\ n.cref = m.cref /\ n.cfreed = m.cfreed
         /\ n.ref = m.ref /\ n.freed = m.freed /\ n.mref = r /\ n.mfreed = m.mfreed
         /\ ~n.connect_cb /\ n.on_shutting_down = m.on_shutting_down /\ n.dns = m.dns
         /\ n.sock = m.sock /\ n.close_cb = m.close_cb /\ n.connecting = m.connecting
         /\ n.timer = m.timer /\ n.reading = m.reading /\ n.writable = m.writable
         /\ n.writes = m.writes /\ n.shutting = m.shutting /\ n.handshake = m.handshake
         /\ n.left = m.left
    <2> DEFINE k00 == CalledTo(m, r)
    <2>1. m \in Connection
      BY <1>3
    <2>3. n = k00
      OBVIOUS
    <2> HIDE DEF r
    <2>2. /\ k00 \in Connection /\ k00.ctx = m.ctx /\ k00.cref = m.cref
          /\ k00.cfreed = m.cfreed /\ k00.ref = m.ref /\ k00.freed = m.freed /\ k00.mref = r
          /\ k00.mfreed = m.mfreed /\ ~k00.connect_cb
          /\ k00.on_shutting_down = m.on_shutting_down /\ k00.dns = m.dns
          /\ k00.sock = m.sock /\ k00.close_cb = m.close_cb /\ k00.connecting = m.connecting
          /\ k00.timer = m.timer /\ k00.reading = m.reading /\ k00.writable = m.writable
          /\ k00.writes = m.writes /\ k00.shutting = m.shutting
          /\ k00.handshake = m.handshake /\ k00.left = m.left
      BY <2>1, <1>50, ConnCalledTo
    <2> HIDE DEF k00
    <2> QED BY <2>3, <2>2
  <1> HIDE DEF r
  <1>7. SUFFICES ASSUME m.connect_cb /\ ~m.dns /\ ~m.connecting /\ ~(m.reading /\ m.handshake \in {"begun", "flight"})
        PROVE  Shut(c, e, n, 1, 1)
    OBVIOUS
  <1>8. Past(n, h)
    BY <1>1, <1>60, PastKept
  <1>9. Handles(n) /\ Counts(n, c.freed, c.held, 1, 1) /\ Past(n, c.held)
    BY <1>7, <1>4, <1>8 DEF g, h
  <1> QED BY <1>1, <1>60, <1>9 DEF Shut

\* The shutdown request is over.
LEMMA SShutDone ==
    ASSUME NEW c, NEW e, NEW m, Shut(c, e, m, 0, 0), NEW n, n = CloseTo(UnshutTo(m), m.mref + 1, "close_done")
    PROVE  m.shutting /\ m.writes = <<>> => Shut(c, e, n, 0, 0)
  <1> DEFINE g == c.freed
             h == c.held
  <1>1. /\ CoreOver(c) /\ e \in Extra /\ Handles(m) /\ Counts(m, g, h, 0, 0)
        /\ m.on_shutting_down /\ Past(m, h)
    BY DEF Shut
  <1>2. g \in BOOLEAN /\ h \in BOOLEAN
    BY <1>1, CoreOverFacts
  <1>3. m \in Connection /\ m.mref \in Nat /\ m.writes \in Seq(WriteKinds)
    BY <1>1, ConnFields DEF Handles
  <1> HIDE DEF g, h
  <1>4. m.shutting /\ m.writes = <<>> => Handles(n) /\ Counts(n, g, h, 0, 0)
    <2>1. m.shutting => h
      BY <1>1, <1>2, PastCases
    <2>2. h => m.ref # 0
      <3>1. m.cref = One(~g) + One(m.on_shutting_down /\ h) /\ (m.cfreed <=> m.cref = 0)
        BY <1>1, <1>2, <1>3, CountsOf
      <3>2. h => ~m.cfreed
        BY <1>1, <3>1 DEF One
      <3>3. ~m.cfreed => m.ref # 0
        BY <1>1, <1>2, <1>3, CountsAlive
      <3> QED BY <3>2, <3>3
    <2>3. m.shutting /\ m.writes = <<>> /\ m.ref # 0 => Handles(n) /\ Counts(n, g, h, 0, 0)
      BY <1>1, <1>2, HShutDone
    <2> QED BY <2>1, <2>2, <2>3
  <1> DEFINE r == m.mref + 1
             cb == "close_done"
             k == UnshutTo(m)
  <1>60. /\ k \in Connection /\ k.ctx = m.ctx /\ k.cref = m.cref /\ k.cfreed = m.cfreed
         /\ k.ref = m.ref /\ k.freed = m.freed /\ k.mref = m.mref /\ k.mfreed = m.mfreed
         /\ k.connect_cb = m.connect_cb /\ k.on_shutting_down = m.on_shutting_down
         /\ k.dns = m.dns /\ k.sock = m.sock /\ k.close_cb = m.close_cb
         /\ k.connecting = m.connecting /\ k.timer = m.timer /\ k.reading = m.reading
         /\ k.writable = m.writable /\ k.writes = m.writes /\ ~k.shutting
         /\ k.handshake = m.handshake /\ k.left = m.left
    <2>1. m \in Connection
      BY <1>3
    <2>2. k = UnshutTo(m)
      OBVIOUS
    <2> QED BY <2>1, <2>2, ConnUnshutTo
  <1>51. r \in Nat /\ cb \in CloseCbs
    BY <1>3 DEF CloseCbs
  <1>61. /\ n \in Connection /\ n.ctx = k.ctx /\ n.cref = k.cref /\ n.cfreed = k.cfreed
         /\ n.ref = k.ref /\ n.freed = k.freed /\ n.mref = r /\ n.mfreed = k.mfreed
         /\ n.connect_cb = k.connect_cb /\ n.on_shutting_down = k.on_shutting_down
         /\ n.dns = k.dns /\ n.sock = "closing" /\ n.close_cb = cb
         /\ n.connecting = k.connecting /\ n.timer = k.timer /\ ~n.reading /\ ~n.writable
         /\ n.writes = k.writes /\ n.shutting = k.shutting /\ n.handshake = k.handshake
         /\ n.left = k.left
    <2> DEFINE k11 == CloseTo(k, r, cb)
    <2>1. k \in Connection
      BY <1>60
    <2>3. n = k11
      OBVIOUS
    <2> HIDE DEF r, cb, k
    <2>2. /\ k11 \in Connection /\ k11.ctx = k.ctx /\ k11.cref = k.cref
          /\ k11.cfreed = k.cfreed /\ k11.ref = k.ref /\ k11.freed = k.freed /\ k11.mref = r
          /\ k11.mfreed = k.mfreed /\ k11.connect_cb = k.connect_cb
          /\ k11.on_shutting_down = k.on_shutting_down /\ k11.dns = k.dns
          /\ k11.sock = "closing" /\ k11.close_cb = cb /\ k11.connecting = k.connecting
          /\ k11.timer = k.timer /\ ~k11.reading /\ ~k11.writable /\ k11.writes = k.writes
          /\ k11.shutting = k.shutting /\ k11.handshake = k.handshake /\ k11.left = k.left
      BY <2>1, <1>51, ConnCloseTo
    <2> HIDE DEF k11
    <2> QED BY <2>3, <2>2
  <1> HIDE DEF r, cb, k
  <1>7. SUFFICES ASSUME m.shutting /\ m.writes = <<>>
        PROVE  Shut(c, e, n, 0, 0)
    OBVIOUS
  <1>8. Past(n, h)
    <2>1. h /\ "early" \notin m.left
      BY <1>7, <1>1, <1>2, PastCases
    <2> QED BY <2>1, <1>60, <1>61 DEF Past, Ending, cb
  <1>9. Handles(n) /\ Counts(n, c.freed, c.held, 0, 0) /\ Past(n, c.held)
    BY <1>7, <1>4, <1>8 DEF g, h
  <1> QED BY <1>1, <1>60, <1>61, <1>9 DEF Shut


-----------------------------------------------------------------------------
(* What the callbacks write, as updates of the connection. *)

LEMMA FormFound ==
    ASSUME NEW c, IsCore(c), NEW e, NEW m, NEW u, u = State(c, e, m)
    PROVE  [u EXCEPT !.data.tls.dns = FALSE] = State(c, e, FoundTo(m))
  <1>1. u.data.tls = m
    BY StateFields
  <1>2. [u EXCEPT !.data.tls.dns = FALSE] = WithTls(u, FoundTo(m))
    BY <1>1 DEF WithTls, FoundTo
  <1> QED BY <1>2, StateTls

LEMMA FormDial ==
    ASSUME NEW c, IsCore(c), NEW e, NEW m, NEW u, u = State(c, e, m)
    PROVE  [u EXCEPT !.data.tls.sock = "connecting", !.data.tls.connecting = TRUE,
                     !.data.tls.timer = "running"] = State(c, e, DialTo(m))
  <1>1. u.data.tls = m
    BY StateFields
  <1>2. [u EXCEPT !.data.tls.sock = "connecting", !.data.tls.connecting = TRUE,
                  !.data.tls.timer = "running"] = WithTls(u, DialTo(m))
    BY <1>1 DEF WithTls, DialTo
  <1> QED BY <1>2, StateTls

LEMMA FormSock ==
    ASSUME NEW c, IsCore(c), NEW e, NEW m, NEW u, u = State(c, e, m), NEW x
    PROVE  [u EXCEPT !.data.tls.sock = x] = State(c, e, SockTo(m, x))
  <1>1. u.data.tls = m
    BY StateFields
  <1>2. [u EXCEPT !.data.tls.sock = x] = WithTls(u, SockTo(m, x))
    BY <1>1 DEF WithTls, SockTo
  <1> QED BY <1>2, StateTls

LEMMA FormTimer ==
    ASSUME NEW c, IsCore(c), NEW e, NEW m, NEW u, u = State(c, e, m), NEW x
    PROVE  [u EXCEPT !.data.tls.timer = x] = State(c, e, TimerTo(m, x))
  <1>1. u.data.tls = m
    BY StateFields
  <1>2. [u EXCEPT !.data.tls.timer = x] = WithTls(u, TimerTo(m, x))
    BY <1>1 DEF WithTls, TimerTo
  <1> QED BY <1>2, StateTls

LEMMA FormShake ==
    ASSUME NEW c, IsCore(c), NEW e, NEW m, NEW u, u = State(c, e, m), NEW x
    PROVE  [u EXCEPT !.data.tls.handshake = x] = State(c, e, ShakeTo(m, x))
  <1>1. u.data.tls = m
    BY StateFields
  <1>2. [u EXCEPT !.data.tls.handshake = x] = WithTls(u, ShakeTo(m, x))
    BY <1>1 DEF WithTls, ShakeTo
  <1> QED BY <1>2, StateTls

StillWritable(m, x) == m.writable /\ x = "eof"
ReadEnds(u, x) == [u EXCEPT !.data.tls.reading = FALSE, !.data.tls.writable = @ /\ x = "eof"]

LEMMA FormRead ==
    ASSUME NEW c, IsCore(c), NEW e, NEW m, NEW u, u = State(c, e, m), NEW x
    PROVE  ReadEnds(u, x) = State(c, e, ReadTo(m, StillWritable(m, x)))
  <1>1. u.data.tls = m
    BY StateFields
  <1>2. ReadEnds(u, x) = WithTls(u, ReadTo(m, StillWritable(m, x)))
    BY <1>1 DEF WithTls, ReadTo, ReadEnds, StillWritable
  <1> QED BY <1>2, StateTls

LEMMA FormWrites ==
    ASSUME NEW c, IsCore(c), NEW e, NEW m, NEW u, u = State(c, e, m)
    PROVE  [u EXCEPT !.data.tls.writes = Tail(@)] = State(c, e, WritesTo(m, Tail(m.writes)))
  <1>1. u.data.tls = m
    BY StateFields
  <1>2. [u EXCEPT !.data.tls.writes = Tail(@)] = WithTls(u, WritesTo(m, Tail(m.writes)))
    BY <1>1 DEF WithTls, WritesTo
  <1> QED BY <1>2, StateTls

LEMMA FormClose ==
    ASSUME NEW m, NEW cb
    PROVE  uv_close_socket(m, cb) = CloseTo(m, m.mref + 1, cb)
  BY DEF uv_close_socket, uv_mbed_add_ref, CloseTo

LEMMA FormDialled ==
    ASSUME NEW m
    PROVE  uv_mbed_add_ref([m EXCEPT !.connecting = FALSE, !.timer = "closing"])
             = DialledTo(m, m.mref + 1)
  BY DEF uv_mbed_add_ref, DialledTo

LEMMA FormCalled ==
    ASSUME NEW m
    PROVE  uv_mbed_add_ref([m EXCEPT !.connect_cb = FALSE]) = CalledTo(m, m.mref + 1)
  BY DEF uv_mbed_add_ref, CalledTo

\* The callback of the connect, in a tunnel that is made of c, e and m.
LEMMA FormConnect ==
    ASSUME NEW c, IsCore(c), NEW e, NEW m, NEW u, u = State(c, e, m), NEW x
    PROVE  /\ m.connect_cb =>
                 do_uv_mbeb_connect_cb(u, x)
                   = Returned(tls_cli_on_connection_established(
                                 State(c, e, CalledTo(m, m.mref + 1)), x))
           /\ ~m.connect_cb => do_uv_mbeb_connect_cb(u, x) = u
  <1> DEFINE n == CalledTo(m, m.mref + 1)
  <1>1. Tls(u) = m
    BY StateFields
  <1>2. WithTls(u, uv_mbed_add_ref([Tls(u) EXCEPT !.connect_cb = FALSE])) = WithTls(u, n)
    BY <1>1, FormCalled
  <1> HIDE DEF n
  <1>3. WithTls(u, n) = State(c, e, n)
    BY StateTls
  <1>4. ~m.connect_cb => do_uv_mbeb_connect_cb(u, x) = u
    BY <1>1 DEF do_uv_mbeb_connect_cb
  <1>5. m.connect_cb => do_uv_mbeb_connect_cb(u, x)
                          = Returned(tls_cli_on_connection_established(State(c, e, n), x))
    BY <1>1, <1>2, <1>3 DEF do_uv_mbeb_connect_cb, Returned
  <1> QED BY <1>4, <1>5 DEF n


-----------------------------------------------------------------------------
(* The events of the loop, after the shutdown of the tunnel. *)

LEMMA ShutFacts ==
    ASSUME NEW c, NEW e, NEW m, NEW x, NEW y, Shut(c, e, m, x, y), NEW u, u = State(c, e, m)
    PROVE  /\ IsCore(c) /\ u.is_terminated /\ Tls(u) = m /\ u.data.tls = m /\ m \in Connection
           /\ Handles(m) /\ c.held \in BOOLEAN /\ Past(m, c.held) /\ u.freed = c.freed
           /\ CoreOver(c) /\ e \in Extra
  <1>1. CoreOver(c) /\ Handles(m) /\ m \in Connection /\ Past(m, c.held) /\ e \in Extra
    BY DEF Shut, Handles
  <1>2. IsCore(c) /\ c.is_terminated = TRUE /\ c.held \in BOOLEAN
    BY <1>1, CoreOverFacts
  <1>3. u.is_terminated = c.is_terminated /\ Tls(u) = m /\ u.data.tls = m /\ u.freed = c.freed
    BY StateFields
  <1> QED BY <1>1, <1>2, <1>3

LEMMA DeadCalled ==
    ASSUME NEW c, NEW e, NEW m, Shut(c, e, m, 0, 0), NEW u, u = State(c, e, m),
           NEW x \in {"ok", "err"}
    PROVE  ~m.dns /\ ~m.connecting /\ ~(m.reading /\ m.handshake \in {"begun", "flight"}) =>
              Good(do_uv_mbeb_connect_cb(u, x))
  <1> DEFINE n == CalledTo(m, m.mref + 1)
             a == State(c, e, n)
             k == uv_mbed_release(tls_cli_ctx_release(n))
  <1>1. IsCore(c)
    BY ShutFacts
  <1>2. /\ m.connect_cb => do_uv_mbeb_connect_cb(u, x)
                             = Returned(tls_cli_on_connection_established(a, x))
        /\ ~m.connect_cb => do_uv_mbeb_connect_cb(u, x) = u
    BY <1>1, FormConnect
  <1>3. Good(u)
    BY ShutGood
  <1>4. m.connect_cb /\ ~m.dns /\ ~m.connecting
        /\ ~(m.reading /\ m.handshake \in {"begun", "flight"}) => Shut(c, e, n, 1, 1)
    <2> HIDE DEF n
    <2> QED BY SCalled DEF n
  <1> HIDE DEF n
  <1>5. SUFFICES ASSUME ~m.dns /\ ~m.connecting
                        /\ ~(m.reading /\ m.handshake \in {"begun", "flight"}), m.connect_cb
                 PROVE  Good(do_uv_mbeb_connect_cb(u, x))
    BY <1>2, <1>3
  <1>6. Shut(c, e, n, 1, 1)
    BY <1>4, <1>5
  <1>7. a.is_terminated /\ Tls(a) = n
    BY <1>6, ShutFacts
  <1>8. tls_cli_on_connection_established(a, x) = a
    <2>1. Shutdown(a) = a
      BY <1>7, ShutdownDead
    <2> HIDE DEF a
    <2> QED BY <1>7, <2>1 DEF tls_cli_on_connection_established
  <1>9. Shut(c, e, k, 0, 0)
    BY <1>6, ShutReturned
  <1>10. Returned(a) = WithTls(a, k)
    BY <1>7 DEF Returned
  <1> HIDE DEF k
  <1>11. WithTls(a, k) = State(c, e, k)
    BY <1>1, StateTls
  <1>12. Good(State(c, e, k))
    BY <1>9, ShutGood
  <1> QED BY <1>2, <1>5, <1>8, <1>10, <1>11, <1>12

LEMMA DeadDns ==
    ASSUME NEW c, NEW e, NEW m, Shut(c, e, m, 0, 0), t = State(c, e, m), uv_dns_resolve_done_cb
    PROVE  Good(t')
  <1> DEFINE n == FoundTo(m)
             a == State(c, e, n)
             k == SockTo(n, "failed")
             d == DialTo(n)
  <1>1. IsCore(c) /\ Tls(t) = m /\ m \in Connection /\ Handles(m) /\ c.held \in BOOLEAN
        /\ Past(m, c.held)
    BY ShutFacts
  <1>2. m.dns
    BY <1>1 DEF uv_dns_resolve_done_cb
  <1>3. [t EXCEPT !.data.tls.dns = FALSE] = a
    BY <1>1, FormFound
  <1>4. t' \in {do_uv_mbeb_connect_cb(a, "err")} \cup try_connect_remote_svr(a)
    BY <1>3 DEF uv_dns_resolve_done_cb
  <1>5. Shut(c, e, n, 0, 0)
    <2> HIDE DEF n
    <2> QED BY <1>2, SFound DEF n
  <1>6. /\ n \in Connection /\ n.ctx = m.ctx /\ n.cref = m.cref /\ n.cfreed = m.cfreed
        /\ n.ref = m.ref /\ n.freed = m.freed /\ n.mref = m.mref /\ n.mfreed = m.mfreed
        /\ n.connect_cb = m.connect_cb /\ n.on_shutting_down = m.on_shutting_down /\ ~n.dns
        /\ n.sock = m.sock /\ n.close_cb = m.close_cb /\ n.connecting = m.connecting
        /\ n.timer = m.timer /\ n.reading = m.reading /\ n.writable = m.writable
        /\ n.writes = m.writes /\ n.shutting = m.shutting /\ n.handshake = m.handshake
        /\ n.left = m.left
    <2> HIDE DEF n
    <2> QED BY <1>1, ConnFoundTo DEF n
  <1>7. Early(m) /\ m.sock = "none" /\ m.connect_cb /\ ~m.connecting /\ ~m.reading
    BY <1>1, <1>2, PastCases DEF Handles
  <1> HIDE DEF n
  <1>8. Early(n) /\ n.sock = "none" /\ n.connect_cb /\ ~n.connecting /\ ~n.reading /\ ~n.dns
    BY <1>6, <1>7 DEF Early, Notified
  <1>9. CASE t' = do_uv_mbeb_connect_cb(a, "err")
    <2>1. Good(do_uv_mbeb_connect_cb(a, "err"))
      BY <1>5, <1>8, DeadCalled
    <2> QED BY <1>9, <2>1
  <1>10. CASE t' = State(c, e, d)
    <2>1. Shut(c, e, d, 0, 0)
      <3> HIDE DEF d
      <3> QED BY <1>5, <1>8, SDial DEF d
    <2> QED BY <1>10, <2>1, ShutGood
  <1>11. CASE t' = do_uv_mbeb_connect_cb(State(c, e, k), "err")
    <2>1. Shut(c, e, k, 0, 0)
      <3> HIDE DEF k
      <3> QED BY <1>5, <1>8, SFail DEF k
    <2> DEFINE f == "failed"
    <2>2. f \in SockStates
      BY DEF SockStates
    <2>3. k = SockTo(n, f) /\ n \in Connection
      BY <1>6
    <2> HIDE DEF f
    <2>4. /\ k \in Connection /\ k.ctx = n.ctx /\ k.cref = n.cref /\ k.cfreed = n.cfreed
          /\ k.ref = n.ref /\ k.freed = n.freed /\ k.mref = n.mref /\ k.mfreed = n.mfreed
          /\ k.connect_cb = n.connect_cb /\ k.on_shutting_down = n.on_shutting_down
          /\ k.dns = n.dns /\ k.sock = f /\ k.close_cb = n.close_cb
          /\ k.connecting = n.connecting /\ k.timer = n.timer /\ k.reading = n.reading
          /\ k.writable = n.writable /\ k.writes = n.writes /\ k.shutting = n.shutting
          /\ k.handshake = n.handshake /\ k.left = n.left
      BY <2>2, <2>3, ConnSockTo
    <2> HIDE DEF k
    <2>5. ~k.dns /\ ~k.connecting /\ ~k.reading
      BY <1>8, <2>4
    <2>6. Good(do_uv_mbeb_connect_cb(State(c, e, k), "err"))
      BY <2>1, <2>5, DeadCalled
    <2> QED BY <1>11, <2>6
  <1>12. try_connect_remote_svr(a) = {State(c, e, d), do_uv_mbeb_connect_cb(State(c, e, k), "err")}
    <2>1. [a EXCEPT !.data.tls.sock = "connecting", !.data.tls.connecting = TRUE,
                    !.data.tls.timer = "running"] = State(c, e, d)
      BY <1>1, FormDial
    <2>2. [a EXCEPT !.data.tls.sock = "failed"] = State(c, e, k)
      BY <1>1, FormSock
    <2> HIDE DEF a, d, k
    <2> QED BY <2>1, <2>2 DEF try_connect_remote_svr
  <1> QED BY <1>4, <1>9, <1>10, <1>11, <1>12

LEMMA DeadTimeout ==
    ASSUME NEW c, NEW e, NEW m, Shut(c, e, m, 0, 0), t = State(c, e, m), connect_timeout_cb
    PROVE  Good(t')
  <1> DEFINE n == TimerTo(m, "expired")
             a == State(c, e, n)
             k == CloseTo(n, m.mref + 1, "connect_canceled")
             b == e.bad \cup {"uv_close"}
  <1>1. IsCore(c) /\ Tls(t) = m /\ m \in Connection /\ e \in Extra
    BY ShutFacts
  <1>2. m.timer = "running"
    BY <1>1 DEF connect_timeout_cb
  <1>3. [t EXCEPT !.data.tls.timer = "expired"] = a
    BY <1>1, FormTimer
  <1>4. CASE m.sock = "connecting"
    <2>1. t' = WithTls(a, uv_close_socket(Tls(a), "connect_canceled"))
      BY <1>1, <1>3, <1>4 DEF connect_timeout_cb
    <2>2. Tls(a) = n
      <3> HIDE DEF n
      <3> QED BY StateFields
    <2>3. n.mref = m.mref
      <3> DEFINE f == "expired"
      <3>1. f \in TimerStates /\ n = TimerTo(m, f)
        BY DEF TimerStates
      <3> HIDE DEF f, n
      <3> QED BY <1>1, <3>1, ConnTimerTo
    <2>4. uv_close_socket(n, "connect_canceled") = k
      <3> HIDE DEF n
      <3> QED BY <2>3, FormClose
    <2>5. WithTls(a, k) = State(c, e, k)
      <3> HIDE DEF n, k
      <3> QED BY <1>1, StateTls
    <2>6. Shut(c, e, k, 0, 0)
      <3> HIDE DEF k
      <3> QED BY <1>4, SCancel DEF k
    <2>7. t' = State(c, e, k)
      <3> HIDE DEF a, n, k
      <3> QED BY <2>1, <2>2, <2>4, <2>5
    <2> HIDE DEF k
    <2> QED BY <2>6, <2>7, ShutGood
  <1>5. CASE m.sock # "connecting"
    <2>1. t' = ClientAssert(a, FALSE, "uv_close")
      BY <1>1, <1>3, <1>5 DEF connect_timeout_cb
    <2>2. a.data.bad = e.bad
      <3> HIDE DEF n
      <3> QED BY StateFields
    <2>3. ClientAssert(a, FALSE, "uv_close") = WithBad(a, b)
      <3> HIDE DEF a
      <3> QED BY <2>2 DEF ClientAssert, WithBad
    <2> HIDE DEF n
    <2>4. WithBad(a, b) = State(c, BadTo(e, b), n)
      <3> HIDE DEF b
      <3> QED BY <1>1, StateBad
    <2>5. BadTo(e, b) \in Extra
      <3>1. b \in SUBSET {"uv_close"}
        BY <1>1, ExtraFields
      <3> HIDE DEF b
      <3> QED BY <1>1, <3>1, ExtraBad
    <2>6. Shut(c, e, n, 0, 0)
      BY <1>2, <1>5, SExpired DEF n
    <2> DEFINE f == BadTo(e, b)
    <2> HIDE DEF f
    <2>7. Shut(c, f, n, 0, 0)
      BY <2>5, <2>6 DEF Shut, f
    <2>8. Good(State(c, f, n))
      BY <2>7, ShutGood
    <2> QED BY <2>1, <2>3, <2>4, <2>8 DEF f
  <1> QED BY <1>4, <1>5


\* What uv_tcp_connect_established_cb makes of a connection: in any tunnel.
LEMMA FormEstablished ==
    ASSUME NEW c, IsCore(c), NEW e, NEW m \in Connection, t = State(c, e, m),
           uv_tcp_connect_established_cb
    PROVE  LET d == DialledTo(m, m.mref + 1)
               n == SockTo(d, IF m.sock = "connecting" THEN "failed" ELSE m.sock)
           IN  /\ m.connecting
               /\ \/ t' = do_uv_mbeb_connect_cb(State(c, e, n), "err")
                  \/ m.sock = "connecting" /\ t' = State(c, e, ReadyTo(d, <<"handshake">>))
  <1> DEFINE d == DialledTo(m, m.mref + 1)
             a == State(c, e, d)
             s == IF m.sock = "connecting" THEN "failed" ELSE m.sock
             n == SockTo(d, s)
             k == ReadyTo(d, <<"handshake">>)
  <1>1. Tls(t) = m
    BY StateFields
  <1>2. WithTls(t, uv_mbed_add_ref([Tls(t) EXCEPT !.connecting = FALSE, !.timer = "closing"])) = a
    <2>1. uv_mbed_add_ref([Tls(t) EXCEPT !.connecting = FALSE, !.timer = "closing"]) = d
      BY <1>1, FormDialled
    <2> HIDE DEF d
    <2>2. WithTls(t, d) = a
      BY StateTls
    <2> QED BY <2>1, <2>2
  <1>3. d.sock = m.sock
    <2> DEFINE r == m.mref + 1
    <2>1. r \in Nat
      BY ConnFields
    <2> HIDE DEF r
    <2>2. DialledTo(m, r).sock = m.sock
      BY <2>1, ConnDialledTo
    <2> QED BY <2>2 DEF r
  <1>4. Tls(a) = d /\ a.data.tls = d
    <2> HIDE DEF d
    <2> QED BY StateFields
  <1>5. [a EXCEPT !.data.tls.sock = IF @ = "connecting" THEN "failed" ELSE @] = State(c, e, n)
    <2>1. [a EXCEPT !.data.tls.sock = IF @ = "connecting" THEN "failed" ELSE @]
            = [a EXCEPT !.data.tls.sock = s]
      <3> HIDE DEF a, d
      <3> QED BY <1>3, <1>4
    <2>2. [a EXCEPT !.data.tls.sock = s] = State(c, e, n)
      <3> HIDE DEF s, d
      <3> QED BY FormSock
    <2> HIDE DEF a, n, s
    <2> QED BY <2>1, <2>2
  <1>6. WithTls(a, [Tls(a) EXCEPT !.sock = "connected", !.reading = TRUE, !.writable = TRUE,
                                  !.handshake = "begun", !.writes = <<"handshake">>])
          = State(c, e, k)
    <2>1. [d EXCEPT !.sock = "connected", !.reading = TRUE, !.writable = TRUE,
                    !.handshake = "begun", !.writes = <<"handshake">>] = k
      BY DEF ReadyTo
    <2> HIDE DEF d
    <2>2. WithTls(a, k) = State(c, e, k)
      <3> HIDE DEF k
      <3> QED BY StateTls
    <2> QED BY <1>4, <2>1, <2>2
  <1>7. m.connecting
    BY <1>1 DEF uv_tcp_connect_established_cb
  <1>8. \/ t' = do_uv_mbeb_connect_cb(State(c, e, n), "err")
        \/ m.sock = "connecting" /\ t' = State(c, e, k)
    <2> HIDE DEF a, n, k
    <2> QED BY <1>1, <1>2, <1>5, <1>6 DEF uv_tcp_connect_established_cb
  <1> QED BY <1>7, <1>8

LEMMA DeadEstablished ==
    ASSUME NEW c, NEW e, NEW m, Shut(c, e, m, 0, 0), t = State(c, e, m),
           uv_tcp_connect_established_cb
    PROVE  Good(t')
  <1> DEFINE d == DialledTo(m, m.mref + 1)
             s == IF m.sock = "connecting" THEN "failed" ELSE m.sock
             n == SockTo(d, s)
             k == ReadyTo(d, <<"handshake">>)
             r == m.mref + 1
  <1>1. IsCore(c) /\ Tls(t) = m /\ m \in Connection /\ Handles(m)
    BY ShutFacts
  <1>2. /\ m.connecting
        /\ \/ t' = do_uv_mbeb_connect_cb(State(c, e, n), "err")
           \/ m.sock = "connecting" /\ t' = State(c, e, k)
    BY <1>1, FormEstablished
  <1>3. CASE t' = do_uv_mbeb_connect_cb(State(c, e, n), "err")
    <2>1. Shut(c, e, n, 0, 0)
      <3> HIDE DEF n
      <3> QED BY <1>2, SDialled DEF n
    <2>2. r \in Nat /\ d = DialledTo(m, r)
      BY <1>1, ConnFields
    <2>3. /\ d \in Connection /\ d.ctx = m.ctx /\ d.cref = m.cref /\ d.cfreed = m.cfreed
          /\ d.ref = m.ref /\ d.freed = m.freed /\ d.mref = r /\ d.mfreed = m.mfreed
          /\ d.connect_cb = m.connect_cb /\ d.on_shutting_down = m.on_shutting_down
          /\ d.dns = m.dns /\ d.sock = m.sock /\ d.close_cb = m.close_cb /\ ~d.connecting
          /\ d.timer = "closing" /\ d.reading = m.reading /\ d.writable = m.writable
          /\ d.writes = m.writes /\ d.shutting = m.shutting /\ d.handshake = m.handshake
          /\ d.left = m.left
      <3> HIDE DEF d, r
      <3> QED BY <1>1, <2>2, ConnDialledTo
    <2>4. s \in SockStates /\ d \in Connection /\ n = SockTo(d, s)
      BY <1>1, <2>3, ConnFields DEF SockStates
    <2>5. /\ n \in Connection /\ n.ctx = d.ctx /\ n.cref = d.cref /\ n.cfreed = d.cfreed
          /\ n.ref = d.ref /\ n.freed = d.freed /\ n.mref = d.mref /\ n.mfreed = d.mfreed
          /\ n.connect_cb = d.connect_cb /\ n.on_shutting_down = d.on_shutting_down
          /\ n.dns = d.dns /\ n.sock = s /\ n.close_cb = d.close_cb
          /\ n.connecting = d.connecting /\ n.timer = d.timer /\ n.reading = d.reading
          /\ n.writable = d.writable /\ n.writes = d.writes /\ n.shutting = d.shutting
          /\ n.handshake = d.handshake /\ n.left = d.left
      <3> HIDE DEF d, s, n
      <3> QED BY <2>4, ConnSockTo
    <2>6. ~n.dns /\ ~n.connecting /\ ~n.reading
      <3>1. ~m.dns /\ ~m.reading
        BY <1>1, <1>2 DEF Handles
      <3> HIDE DEF d, s, n, r
      <3> QED BY <3>1, <2>3, <2>5
    <2> HIDE DEF n
    <2>7. Good(do_uv_mbeb_connect_cb(State(c, e, n), "err"))
      BY <2>1, <2>6, DeadCalled
    <2> QED BY <1>3, <2>7
  <1>4. CASE m.sock = "connecting" /\ t' = State(c, e, k)
    <2>1. Shut(c, e, k, 0, 0)
      <3> HIDE DEF k
      <3> QED BY <1>4, SReady DEF k
    <2> HIDE DEF k
    <2> QED BY <1>4, <2>1, ShutGood
  <1> QED BY <1>2, <1>3, <1>4

LEMMA DeadTimerClosed ==
    ASSUME NEW c, NEW e, NEW m, Shut(c, e, m, 0, 0), t = State(c, e, m),
           connect_timeout_close_cb
    PROVE  Good(t')
  <1> DEFINE n == TimerTo(m, "closed")
             k == uv_mbed_release(n)
  <1>1. IsCore(c) /\ Tls(t) = m
    BY ShutFacts
  <1>2. m.timer = "closing" /\ t' = WithTls(t, k)
    BY <1>1 DEF connect_timeout_close_cb, TimerTo
  <1>3. Shut(c, e, n, 0, 1)
    <2> HIDE DEF n
    <2> QED BY <1>2, STimerClosed DEF n
  <1>4. Shut(c, e, k, 0, 1 - 1)
    <2> HIDE DEF n, k
    <2> QED BY <1>3, ShutMbed DEF k
  <1>5. 1 - 1 = 0
    OBVIOUS
  <1> HIDE DEF k
  <1>6. Shut(c, e, k, 0, 0)
    BY <1>4, <1>5
  <1>7. t' = State(c, e, k)
    BY <1>1, <1>2, StateTls
  <1> QED BY <1>6, <1>7, ShutGood

\* mbed_continue_handshake, in any tunnel.
LEMMA FormHandshake ==
    ASSUME NEW c, IsCore(c), NEW e, NEW m, t = State(c, e, m), mbed_continue_handshake
    PROVE  /\ m.reading /\ m.handshake \in {"begun", "flight"}
           /\ \/ /\ m.handshake = "begun"
                 /\ t' = State(c, e, FlightTo(m, "flight", Append(m.writes, "handshake")))
              \/ t' = do_uv_mbeb_connect_cb(State(c, e, ShakeTo(m, "over")), "ok")
              \/ t' = State(c, e, ShakeTo(m, "failed"))
  <1> DEFINE n == FlightTo(m, "flight", Append(m.writes, "handshake"))
  <1>1. Tls(t) = m
    BY StateFields
  <1>2. WithTls(t, [Tls(t) EXCEPT !.handshake = "flight", !.writes = Append(@, "handshake")])
          = State(c, e, n)
    <2>1. [m EXCEPT !.handshake = "flight", !.writes = Append(@, "handshake")] = n
      BY DEF FlightTo
    <2> HIDE DEF n
    <2>2. WithTls(t, n) = State(c, e, n)
      BY StateTls
    <2> QED BY <1>1, <2>1, <2>2
  <1>3. [t EXCEPT !.data.tls.handshake = "over"] = State(c, e, ShakeTo(m, "over"))
    BY FormShake
  <1>4. [t EXCEPT !.data.tls.handshake = "failed"] = State(c, e, ShakeTo(m, "failed"))
    BY FormShake
  <1> HIDE DEF n
  <1>5. m.reading /\ m.handshake \in {"begun", "flight"}
    BY <1>1 DEF mbed_continue_handshake
  <1>6. \/ m.handshake = "begun" /\ t' = State(c, e, n)
        \/ t' = do_uv_mbeb_connect_cb(State(c, e, ShakeTo(m, "over")), "ok")
        \/ t' = State(c, e, ShakeTo(m, "failed"))
    BY <1>1, <1>2, <1>3, <1>4 DEF mbed_continue_handshake
  <1> QED BY <1>5, <1>6 DEF n

LEMMA DeadHandshake ==
    ASSUME NEW c, NEW e, NEW m, Shut(c, e, m, 0, 0), t = State(c, e, m), mbed_continue_handshake
    PROVE  Good(t')
  <1> DEFINE n == FlightTo(m, "flight", Append(m.writes, "handshake"))
             over == "over"
             failed == "failed"
             k == ShakeTo(m, over)
             j == ShakeTo(m, failed)
  <1>1. IsCore(c) /\ m \in Connection /\ Handles(m) /\ c.held \in BOOLEAN /\ Past(m, c.held)
    BY ShutFacts
  <1>2. /\ m.reading /\ m.handshake \in {"begun", "flight"}
        /\ \/ m.handshake = "begun" /\ t' = State(c, e, n)
           \/ t' = do_uv_mbeb_connect_cb(State(c, e, k), "ok")
           \/ t' = State(c, e, j)
    BY <1>1, FormHandshake
  <1>3. over \in ShakeStates /\ failed \in ShakeStates /\ over \in {"over", "failed"}
        /\ failed \in {"over", "failed"} /\ over \notin {"begun", "flight"}
    BY DEF ShakeStates
  <1> HIDE DEF over, failed
  <1>4. Shut(c, e, k, 0, 0) /\ Shut(c, e, j, 0, 0)
    <2>1. Shut(c, e, k, 0, 0)
      <3> HIDE DEF k
      <3> QED BY <1>3, SShake DEF k
    <2>2. Shut(c, e, j, 0, 0)
      <3> HIDE DEF j
      <3> QED BY <1>3, SShake DEF j
    <2> QED BY <2>1, <2>2
  <1>5. CASE m.handshake = "begun" /\ t' = State(c, e, n)
    <2>1. Shut(c, e, n, 0, 0)
      <3> HIDE DEF n
      <3> QED BY <1>2, <1>5, SFlight DEF n
    <2> HIDE DEF n
    <2> QED BY <1>5, <2>1, ShutGood
  <1>6. CASE t' = do_uv_mbeb_connect_cb(State(c, e, k), "ok")
    <2>1. /\ k \in Connection /\ k.ctx = m.ctx /\ k.cref = m.cref /\ k.cfreed = m.cfreed
          /\ k.ref = m.ref /\ k.freed = m.freed /\ k.mref = m.mref /\ k.mfreed = m.mfreed
          /\ k.connect_cb = m.connect_cb /\ k.on_shutting_down = m.on_shutting_down
          /\ k.dns = m.dns /\ k.sock = m.sock /\ k.close_cb = m.close_cb
          /\ k.connecting = m.connecting /\ k.timer = m.timer /\ k.reading = m.reading
          /\ k.writable = m.writable /\ k.writes = m.writes /\ k.shutting = m.shutting
          /\ k.handshake = over /\ k.left = m.left
      <3> HIDE DEF k
      <3> QED BY <1>1, <1>3, ConnShakeTo DEF k
    <2>2. ~m.dns /\ ~m.connecting
      BY <1>1, <1>2 DEF Handles
    <2> HIDE DEF k
    <2>3. ~k.dns /\ ~k.connecting /\ k.handshake \notin {"begun", "flight"}
      BY <1>3, <2>1, <2>2
    <2>4. Good(do_uv_mbeb_connect_cb(State(c, e, k), "ok"))
      BY <1>4, <2>3, DeadCalled
    <2> QED BY <1>6, <2>4
  <1>7. CASE t' = State(c, e, j)
    <2> HIDE DEF j
    <2> QED BY <1>4, <1>7, ShutGood
  <1> QED BY <1>2, <1>5, <1>6, <1>7

LEMMA DeadProcess ==
    ASSUME NEW c, NEW e, NEW m, Shut(c, e, m, 0, 0), t = State(c, e, m), mbed_ssl_process_in
    PROVE  Good(t')
  <1>1. t.is_terminated
    BY ShutFacts
  <1>2. t' = t
    BY <1>1 DEF mbed_ssl_process_in, tls_cli_on_data_received
  <1>3. Good(State(c, e, m))
    BY ShutGood
  <1> QED BY <1>2, <1>3

\* uv_tcp_read_done_cb, in any tunnel.
LEMMA FormReadDone ==
    ASSUME NEW c, IsCore(c), NEW e, NEW m \in Connection, t = State(c, e, m), uv_tcp_read_done_cb
    PROVE  /\ m.reading
           /\ \E b \in BOOLEAN, x \in {"eof", "error"} :
                 t' \in IF m.connect_cb
                        THEN {do_uv_mbeb_connect_cb(State(c, e, ReadTo(m, b)), "err")}
                        ELSE tls_cli_on_data_received(State(c, e, ReadTo(m, b)), x)
  <1>1. Tls(t) = m
    BY StateFields
  <1>2. PICK x \in {"eof", "error"} :
           t' \in IF m.connect_cb THEN {do_uv_mbeb_connect_cb(ReadEnds(t, x), "err")}
                  ELSE tls_cli_on_data_received(ReadEnds(t, x), x)
    BY <1>1 DEF uv_tcp_read_done_cb, ReadEnds
  <1> DEFINE b == StillWritable(m, x)
  <1>3. ReadEnds(t, x) = State(c, e, ReadTo(m, b))
    BY FormRead
  <1>4. b \in BOOLEAN
    BY DEF StillWritable
  <1>5. m.reading
    BY <1>1 DEF uv_tcp_read_done_cb
  <1> HIDE DEF b
  <1>6. t' \in IF m.connect_cb
               THEN {do_uv_mbeb_connect_cb(State(c, e, ReadTo(m, b)), "err")}
               ELSE tls_cli_on_data_received(State(c, e, ReadTo(m, b)), x)
    BY <1>2, <1>3
  <1> QED BY <1>4, <1>5, <1>6

LEMMA DeadReadDone ==
    ASSUME NEW c, NEW e, NEW m, Shut(c, e, m, 0, 0), t = State(c, e, m), uv_tcp_read_done_cb
    PROVE  Good(t')
  <1>1. IsCore(c) /\ m \in Connection /\ Handles(m)
    BY ShutFacts
  <1>2. m.reading
    BY <1>1, FormReadDone
  <1>3. PICK b \in BOOLEAN, x \in {"eof", "error"} :
           t' \in IF m.connect_cb
                  THEN {do_uv_mbeb_connect_cb(State(c, e, ReadTo(m, b)), "err")}
                  ELSE tls_cli_on_data_received(State(c, e, ReadTo(m, b)), x)
    BY <1>1, FormReadDone
  <1> DEFINE n == ReadTo(m, b)
             u == State(c, e, n)
  <1>4. Shut(c, e, n, 0, 0)
    <2> HIDE DEF n
    <2> QED BY <1>2, SRead DEF n
  <1>5. /\ n \in Connection /\ n.ctx = m.ctx /\ n.cref = m.cref /\ n.cfreed = m.cfreed
        /\ n.ref = m.ref /\ n.freed = m.freed /\ n.mref = m.mref /\ n.mfreed = m.mfreed
        /\ n.connect_cb = m.connect_cb /\ n.on_shutting_down = m.on_shutting_down
        /\ n.dns = m.dns /\ n.sock = m.sock /\ n.close_cb = m.close_cb
        /\ n.connecting = m.connecting /\ n.timer = m.timer /\ ~n.reading /\ n.writable = b
        /\ n.writes = m.writes /\ n.shutting = m.shutting /\ n.handshake = m.handshake
        /\ n.left = m.left
    <2> HIDE DEF n
    <2> QED BY <1>1, ConnReadTo DEF n
  <1>6. ~m.dns /\ ~m.connecting
    BY <1>1, <1>2 DEF Handles
  <1> HIDE DEF n
  <1>7. ~n.dns /\ ~n.connecting /\ ~n.reading
    BY <1>5, <1>6
  <1>8. Good(do_uv_mbeb_connect_cb(u, "err")) /\ Good(u) /\ u.is_terminated
    BY <1>4, <1>7, DeadCalled, ShutGood, ShutFacts
  <1>9. tls_cli_on_data_received(u, x) = {u}
    BY <1>8 DEF tls_cli_on_data_received
  <1>10. t' \in {do_uv_mbeb_connect_cb(u, "err"), u}
    <2>1. t' \in IF m.connect_cb THEN {do_uv_mbeb_connect_cb(u, "err")}
                                 ELSE tls_cli_on_data_received(u, x)
      BY <1>3 DEF n
    <2> QED BY <1>9, <2>1
  <1> QED BY <1>8, <1>10


-----------------------------------------------------------------------------
(* Writes, the shutdown request and the close. *)

\* A write is over.
LEMMA SWrote ==
    ASSUME NEW c, NEW e, NEW m, Shut(c, e, m, 0, 0), m.writes # <<>>,
           NEW n, n = WritesTo(m, Tail(m.writes))
    PROVE  /\ Head(m.writes) = "handshake" => Shut(c, e, n, 0, 0)
           /\ Head(m.writes) = "data" => Shut(c, e, n, 1, 0)
           /\ Head(m.writes) = "notify" => Shut(c, e, close_ssl_process_cb(n), 0, 0)
  <1> DEFINE g == c.freed
             h == c.held
             q == Tail(m.writes)
             a == One(Head(m.writes) = "data")
  <1>1. /\ CoreOver(c) /\ e \in Extra /\ Handles(m) /\ Counts(m, g, h, 0, 0)
        /\ m.on_shutting_down /\ Past(m, h)
    BY DEF Shut
  <1>2. g \in BOOLEAN /\ h \in BOOLEAN
    BY <1>1, CoreOverFacts
  <1>3. m \in Connection /\ m.writes \in Seq(WriteKinds)
    BY <1>1, ConnFields DEF Handles
  <1> HIDE DEF g, h
  <1>4. Handles(n) /\ Counts(n, g, h, 0 + a, 0)
    BY <1>1, <1>2, HWrote
  <1>5. /\ q \in Seq(WriteKinds)
        /\ \A i \in DOMAIN q : i + 1 \in DOMAIN m.writes /\ q[i] = m.writes[i + 1]
        /\ \A i \in DOMAIN m.writes :
              m.writes[i] = Head(m.writes) \/ \E j \in DOMAIN q : q[j] = m.writes[i]
    BY <1>3, DataTail
  <1>15. 1 \in DOMAIN m.writes /\ m.writes[1] = Head(m.writes)
    BY <1>3
  <1>6. /\ n \in Connection /\ n.ctx = m.ctx /\ n.cref = m.cref /\ n.cfreed = m.cfreed
        /\ n.ref = m.ref /\ n.freed = m.freed /\ n.mref = m.mref /\ n.mfreed = m.mfreed
        /\ n.connect_cb = m.connect_cb /\ n.on_shutting_down = m.on_shutting_down
        /\ n.dns = m.dns /\ n.sock = m.sock /\ n.close_cb = m.close_cb
        /\ n.connecting = m.connecting /\ n.timer = m.timer /\ n.reading = m.reading
        /\ n.writable = m.writable /\ n.writes = q /\ n.shutting = m.shutting
        /\ n.handshake = m.handshake /\ n.left = m.left
    <2>1. n = WritesTo(m, q)
      OBVIOUS
    <2> HIDE DEF q
    <2> QED BY <1>3, <1>5, <2>1, ConnWritesTo
  <1> HIDE DEF q
  <1>7. m.sock = "connected"
    BY <1>1 DEF Handles
  <1>8. Notified(n) => Notified(m)
    BY <1>5, <1>6 DEF Notified
  <1>9. Head(m.writes) # "notify" /\ Notified(m) => Notified(n)
    BY <1>5, <1>6 DEF Notified
  <1>10. Head(m.writes) # "notify" => Past(n, h)
    <2>1. CASE Ending(m) /\ h /\ "early" \notin m.left
      BY <1>6, <1>7, <1>9, <2>1 DEF Ending, Past
    <2>2. CASE Early(m) /\ ~h
      BY <1>6, <1>8, <2>2 DEF Early, Past
    <2>3. ~Ended(m)
      BY <1>7 DEF Ended
    <2> QED BY <1>1, <2>1, <2>2, <2>3 DEF Past
  <1>11. Head(m.writes) = "handshake" => Shut(c, e, n, 0, 0)
    <2>1. Head(m.writes) = "handshake" => 0 + a = 0
      BY DEF One
    <2> HIDE DEF a
    <2>2. Head(m.writes) = "handshake" => Counts(n, g, h, 0, 0) /\ Past(n, h)
      BY <1>4, <1>10, <2>1
    <2> QED BY <1>1, <1>4, <1>6, <2>2 DEF Shut, g, h
  <1>12. Head(m.writes) = "data" => Shut(c, e, n, 1, 0)
    <2>1. Head(m.writes) = "data" => 0 + a = 1
      BY DEF One
    <2> HIDE DEF a
    <2>2. Head(m.writes) = "data" => Counts(n, g, h, 1, 0) /\ Past(n, h)
      BY <1>4, <1>10, <2>1
    <2> QED BY <1>1, <1>4, <1>6, <2>2 DEF Shut, g, h
  <1>13. ASSUME Head(m.writes) = "notify"
         PROVE  Shut(c, e, close_ssl_process_cb(n), 0, 0)
    <2> DEFINE k == ShutTo(n)
    <2>1. 0 + a = 0
      BY <1>13 DEF One
    <2> HIDE DEF a
    <2>2. Counts(n, g, h, 0, 0)
      BY <1>4, <2>1
    <2>3. Notified(m)
      BY <1>13, <1>15 DEF Notified
    <2>4. h /\ Ending(m) /\ "early" \notin m.left
      BY <1>1, <1>2, <2>3, PastCases
    <2>5. n.sock = "connected" /\ ~n.reading /\ "early" \notin n.left
      BY <1>6, <1>7, <2>4 DEF Ending
    <2>6. CASE n.writable
      <3>1. close_ssl_process_cb(n) = k
        BY <2>6 DEF close_ssl_process_cb, ShutTo
      <3>2. Handles(k) /\ Counts(k, g, h, 0, 0)
        <4> HIDE DEF k
        <4> QED BY <1>2, <1>4, <2>2, <2>5, HShut DEF k
      <3>3. /\ k \in Connection /\ k.ctx = n.ctx /\ k.cref = n.cref /\ k.cfreed = n.cfreed
            /\ k.ref = n.ref /\ k.freed = n.freed /\ k.mref = n.mref /\ k.mfreed = n.mfreed
            /\ k.connect_cb = n.connect_cb /\ k.on_shutting_down = n.on_shutting_down
            /\ k.dns = n.dns /\ k.sock = n.sock /\ k.close_cb = n.close_cb
            /\ k.connecting = n.connecting /\ k.timer = n.timer /\ k.reading = n.reading
            /\ ~k.writable /\ k.writes = n.writes /\ k.shutting /\ k.handshake = n.handshake
            /\ k.left = n.left
        <4> HIDE DEF k
        <4> QED BY <1>6, ConnShutTo DEF k
      <3> HIDE DEF k
      <3>4. Past(k, h)
        BY <2>4, <2>5, <3>3 DEF Past, Ending
      <3> QED BY <1>1, <1>6, <3>1, <3>2, <3>3, <3>4 DEF Shut, g, h
    <2>7. CASE ~n.writable
      <3>1. close_ssl_process_cb(n) = n
        BY <2>7 DEF close_ssl_process_cb
      <3>2. m.shutting \/ "reset" \in m.left
        BY <1>6, <1>7, <2>4, <2>7 DEF Ending
      <3>3. Past(n, h)
        BY <1>6, <2>4, <2>5, <3>2 DEF Past, Ending
      <3> QED BY <1>1, <1>4, <1>6, <2>2, <3>1, <3>3 DEF Shut, g, h
    <2> QED BY <2>6, <2>7
  <1> QED BY <1>11, <1>12, <1>13

\* uv_mbed_tcp_write_done_cb, in any tunnel.
LEMMA FormWriteDone ==
    ASSUME NEW c, IsCore(c), NEW e, NEW m \in Connection, t = State(c, e, m),
           uv_mbed_tcp_write_done_cb
    PROVE  LET n == WritesTo(m, Tail(m.writes))
               a == State(c, e, n)
           IN  /\ m.writes # <<>>
               /\ \/ Head(m.writes) = "handshake" /\ t' = a
                  \/ Head(m.writes) = "data" /\ \E x \in {"ok", "err"} : t' = WriteDone(a, x)
                  \/ Head(m.writes) = "notify" /\ t' = State(c, e, close_ssl_process_cb(n))
  <1> DEFINE n == WritesTo(m, Tail(m.writes))
             a == State(c, e, n)
             k == close_ssl_process_cb(n)
  <1>1. Tls(t) = m
    BY StateFields
  <1>2. [t EXCEPT !.data.tls.writes = Tail(@)] = a
    BY FormWrites
  <1>3. Tls(a) = n
    <2> HIDE DEF n
    <2> QED BY StateFields
  <1>4. WithTls(a, close_ssl_process_cb(Tls(a))) = State(c, e, k)
    <2>1. WithTls(a, k) = State(c, e, k)
      <3> HIDE DEF n, k
      <3> QED BY StateTls
    <2> HIDE DEF a
    <2> QED BY <1>3, <2>1
  <1>5. m.writes # <<>> /\ m.writes \in Seq(WriteKinds)
    BY <1>1, ConnFields DEF uv_mbed_tcp_write_done_cb
  <1>6. Head(m.writes) \in WriteKinds
    BY <1>5, DataTail
  <1>7. PICK x \in {"ok", "err"} :
           t' = CASE Head(m.writes) = "handshake" -> a
                  [] Head(m.writes) = "data" -> WriteDone(a, x)
                  [] Head(m.writes) = "notify" -> State(c, e, k)
    <2> HIDE DEF a, n, k
    <2> QED BY <1>1, <1>2, <1>4 DEF uv_mbed_tcp_write_done_cb
  <1>8. \/ Head(m.writes) = "handshake" /\ t' = a
        \/ Head(m.writes) = "data" /\ t' = WriteDone(a, x)
        \/ Head(m.writes) = "notify" /\ t' = State(c, e, k)
    <2> HIDE DEF a, n, k
    <2> QED BY <1>6, <1>7 DEF WriteKinds
  <1> HIDE DEF a, n, k
  <1>9. \/ Head(m.writes) = "handshake" /\ t' = a
        \/ Head(m.writes) = "data" /\ \E y \in {"ok", "err"} : t' = WriteDone(a, y)
        \/ Head(m.writes) = "notify" /\ t' = State(c, e, k)
    BY <1>8
  <1> QED BY <1>5, <1>9 DEF a, n, k

LEMMA DeadWriteDone ==
    ASSUME NEW c, NEW e, NEW m, Shut(c, e, m, 0, 0), t = State(c, e, m),
           uv_mbed_tcp_write_done_cb
    PROVE  Good(t')
  <1> DEFINE n == WritesTo(m, Tail(m.writes))
             a == State(c, e, n)
             j == close_ssl_process_cb(n)
             k == tls_cli_ctx_release(n)
  <1>1. IsCore(c) /\ m \in Connection
    BY ShutFacts
  <1>2. /\ m.writes # <<>>
        /\ \/ Head(m.writes) = "handshake" /\ t' = a
           \/ Head(m.writes) = "data" /\ \E x \in {"ok", "err"} : t' = WriteDone(a, x)
           \/ Head(m.writes) = "notify" /\ t' = State(c, e, j)
    BY <1>1, FormWriteDone
  <1>3. /\ Head(m.writes) = "handshake" => Shut(c, e, n, 0, 0)
        /\ Head(m.writes) = "data" => Shut(c, e, n, 1, 0)
        /\ Head(m.writes) = "notify" => Shut(c, e, j, 0, 0)
    <2> HIDE DEF n
    <2> QED BY <1>2, SWrote DEF n
  <1> HIDE DEF n
  <1>4. CASE Head(m.writes) = "handshake" /\ t' = a
    BY <1>3, <1>4, ShutGood
  <1>5. CASE Head(m.writes) = "data" /\ \E x \in {"ok", "err"} : t' = WriteDone(a, x)
    <2>1. Shut(c, e, n, 1, 0)
      BY <1>3, <1>5
    <2>2. a.is_terminated /\ Tls(a) = n
      BY <2>1, ShutFacts
    <2>3. t' = WithTls(a, k)
      <3>1. Shutdown(a) = a
        BY <2>2, ShutdownDead
      <3> HIDE DEF a
      <3> QED BY <1>5, <2>2, <3>1 DEF WriteDone
    <2>4. Shut(c, e, k, 1 - 1, 0)
      <3> HIDE DEF k
      <3> QED BY <2>1, ShutCli DEF k
    <2> HIDE DEF k
    <2>5. WithTls(a, k) = State(c, e, k)
      BY <1>1, StateTls
    <2>6. 1 - 1 = 0
      OBVIOUS
    <2>7. Shut(c, e, k, 0, 0)
      BY <2>4, <2>6
    <2> QED BY <2>3, <2>5, <2>7, ShutGood
  <1>6. CASE Head(m.writes) = "notify" /\ t' = State(c, e, j)
    <2> HIDE DEF j
    <2> QED BY <1>3, <1>6, ShutGood DEF j
  <1> QED BY <1>2, <1>4, <1>5, <1>6

LEMMA DeadShutDone ==
    ASSUME NEW c, NEW e, NEW m, Shut(c, e, m, 0, 0), t = State(c, e, m), uv_tcp_shutdown_cb
    PROVE  Good(t')
  <1> DEFINE k == UnshutTo(m)
             n == CloseTo(k, m.mref + 1, "close_done")
  <1>1. IsCore(c) /\ m \in Connection /\ Tls(t) = m
    BY ShutFacts
  <1>2. m.shutting /\ m.writes = <<>>
        /\ t' = WithTls(t, uv_close_socket([m EXCEPT !.shutting = FALSE], "close_done"))
    BY <1>1 DEF uv_tcp_shutdown_cb
  <1>3. k.mref = m.mref
    <2> HIDE DEF k
    <2> QED BY <1>1, ConnUnshutTo DEF k
  <1>4. uv_close_socket([m EXCEPT !.shutting = FALSE], "close_done") = n
    <2>1. [m EXCEPT !.shutting = FALSE] = k
      BY DEF UnshutTo
    <2> HIDE DEF k
    <2> QED BY <1>3, <2>1, FormClose
  <1>5. Shut(c, e, n, 0, 0)
    <2> HIDE DEF n
    <2> QED BY <1>2, SShutDone DEF n
  <1> HIDE DEF n
  <1>6. t' = State(c, e, n)
    BY <1>1, <1>2, <1>4, StateTls
  <1> QED BY <1>5, <1>6, ShutGood


\* uv_tcp_close_done_cb, in any tunnel.
LEMMA FormCloseDone ==
    ASSUME NEW c, IsCore(c), NEW e, NEW m, t = State(c, e, m), uv_tcp_close_done_cb
    PROVE  LET a == State(c, e, SockTo(m, "closed"))
               b == IF m.close_cb = "close_done" THEN mbed_close_done_cb(a) ELSE a
           IN  /\ m.sock = "closing" /\ ~m.connecting /\ m.writes = <<>>
               /\ t' = WithTls(b, uv_mbed_release(Tls(b)))
  <1>1. Tls(t) = m
    BY StateFields
  <1>2. [t EXCEPT !.data.tls.sock = "closed"] = State(c, e, SockTo(m, "closed"))
    BY FormSock
  <1> QED BY <1>1, <1>2 DEF uv_tcp_close_done_cb

LEMMA DeadCloseDone ==
    ASSUME NEW c, NEW e, NEW m, Shut(c, e, m, 0, 0), t = State(c, e, m), uv_tcp_close_done_cb
    PROVE  Good(t')
  <1> DEFINE g == c.freed
             h == c.held
             s == "closed"
             n == SockTo(m, s)
             a == State(c, e, n)
  <1>1. IsCore(c) /\ m \in Connection /\ Handles(m) /\ h \in BOOLEAN /\ Past(m, h)
        /\ CoreOver(c) /\ e \in Extra /\ Counts(m, g, h, 0, 0) /\ m.on_shutting_down
    BY ShutFacts DEF Shut
  <1>2. g \in BOOLEAN /\ (h => g = FALSE)
    BY <1>1, CoreOverFacts
  <1>3. /\ m.sock = "closing" /\ ~m.connecting /\ m.writes = <<>>
        /\ t' = LET b == IF m.close_cb = "close_done" THEN mbed_close_done_cb(a) ELSE a
                IN  WithTls(b, uv_mbed_release(Tls(b)))
    BY <1>1, FormCloseDone
  <1>4. Handles(n) /\ Counts(n, g, h, 0, 1)
    <2> HIDE DEF g, h, n
    <2>1. Handles(n) /\ Counts(n, g, h, 0, 0 + 1)
      BY <1>1, <1>2, <1>3, HSockClosed DEF n
    <2>2. 0 + 1 = 1
      OBVIOUS
    <2> QED BY <2>1, <2>2
  <1>5. /\ n \in Connection /\ n.ctx = m.ctx /\ n.cref = m.cref /\ n.cfreed = m.cfreed
        /\ n.ref = m.ref /\ n.freed = m.freed /\ n.mref = m.mref /\ n.mfreed = m.mfreed
        /\ n.connect_cb = m.connect_cb /\ n.on_shutting_down = m.on_shutting_down
        /\ n.dns = m.dns /\ n.sock = s /\ n.close_cb = m.close_cb
        /\ n.connecting = m.connecting /\ n.timer = m.timer /\ n.reading = m.reading
        /\ n.writable = m.writable /\ n.writes = m.writes /\ n.shutting = m.shutting
        /\ n.handshake = m.handshake /\ n.left = m.left
    <2>1. s \in SockStates
      BY DEF SockStates
    <2>2. m \in Connection
      BY <1>1
    <2> HIDE DEF s, n
    <2> QED BY <2>1, <2>2, ConnSockTo DEF n
  <1>6. ~n.dns /\ ~n.connecting /\ n.sock = "closed"
    <2>1. ~m.dns
      BY <1>1, <1>3 DEF Handles
    <2> HIDE DEF n
    <2> QED BY <1>3, <1>5, <2>1
  <1> HIDE DEF n, s
  <1>7. CASE m.close_cb = "close_done"
    <2> DEFINE d == Unheld(c)
               k == tls_cli_ctx_release(Parted(c, n))
               j == uv_mbed_release(k)
    <2>1. h /\ Ending(m) /\ "early" \notin m.left
      BY <1>1, <1>3, <1>7, PastCases
    <2>2. g = FALSE /\ h = TRUE
      BY <1>1, <1>2, <2>1
    <2>3. Counts(n, FALSE, TRUE, 0, 1)
      <3> HIDE DEF g, h
      <3> QED BY <1>4, <2>2
    <2>4. /\ mbed_close_done_cb(a) = State(d, e, k)
          /\ SameConn(n, k) /\ Counts(k, d.freed, FALSE, 0, 1)
      <3>1. c.held /\ n \in Connection /\ n.on_shutting_down /\ n.ctx
        BY <1>1, <1>5, <2>1 DEF Handles
      <3> HIDE DEF k
      <3> QED BY <1>1, <2>3, <3>1, Report DEF k
    <2>5. CoreOver(d) /\ IsCore(d) /\ d.held = FALSE
      <3> HIDE DEF d
      <3> QED BY <1>1, <2>1, CoreUnheld DEF d
    <2> HIDE DEF d, k
    <2>6. Shut(d, e, k, 0, 1)
      <3>1. Handles(k)
        BY <1>4, <2>4, SameFacts
      <3>2. k.on_shutting_down /\ "early" \notin k.left /\ Ended(k)
        BY <1>1, <1>5, <1>6, <2>1, <2>4 DEF SameConn, Ended
      <3> QED BY <1>1, <2>4, <2>5, <3>1, <3>2 DEF Shut, Past
    <2>7. Shut(d, e, j, 0, 1 - 1)
      <3> HIDE DEF j
      <3> QED BY <2>6, ShutMbed DEF j
    <2>8. 1 - 1 = 0
      OBVIOUS
    <2>9. t' = WithTls(State(d, e, k), j)
      <3>1. Tls(State(d, e, k)) = k
        BY StateFields
      <3> QED BY <1>3, <1>7, <2>4, <3>1
    <2> HIDE DEF j
    <2>10. t' = State(d, e, j)
      BY <2>5, <2>9, StateTls
    <2>11. Shut(d, e, j, 0, 0)
      BY <2>7, <2>8
    <2> QED BY <2>10, <2>11, ShutGood
  <1>8. CASE m.close_cb # "close_done"
    <2> DEFINE j == uv_mbed_release(n)
    <2>1. ~Ending(m)
      BY <1>3, <1>8 DEF Ending
    <2>2. Past(n, h)
      <3>1. CASE ~h /\ "early" \notin m.left
        BY <1>5, <1>6, <3>1 DEF Past, Ended
      <3>2. CASE ~h /\ Early(m)
        BY <1>5, <1>6, <3>2 DEF Past, Early, Notified
      <3> QED BY <1>1, <2>1, <3>1, <3>2 DEF Past
    <2>3. Shut(c, e, n, 0, 1)
      BY <1>1, <1>4, <1>5, <2>2 DEF Shut
    <2>4. Shut(c, e, j, 0, 1 - 1)
      <3> HIDE DEF j
      <3> QED BY <2>3, ShutMbed DEF j
    <2>5. 1 - 1 = 0
      OBVIOUS
    <2>6. t' = WithTls(a, j)
      <3>1. Tls(a) = n
        BY StateFields
      <3> QED BY <1>3, <1>8, <3>1
    <2> HIDE DEF j
    <2>7. t' = State(c, e, j)
      BY <1>1, <2>6, StateTls
    <2>8. Shut(c, e, j, 0, 0)
      BY <2>4, <2>5
    <2> QED BY <2>7, <2>8, ShutGood
  <1> QED BY <1>7, <1>8

\* The same for a launch that failed.
LEMMA LostCloseDone ==
    ASSUME NEW c, CoreOver(c), NEW e \in Extra, NEW m, Lost(m, c.freed), c.held = FALSE,
           t = State(c, e, m), uv_tcp_close_done_cb
    PROVE  Good(t')
  <1> DEFINE s == "closed"
             n == SockTo(m, s)
             a == State(c, e, n)
             k == tls_cli_ctx_release(n)
             j == uv_mbed_release(k)
  <1>1. IsCore(c) /\ m \in Connection
    BY CoreOverFacts DEF Lost
  <1>2. /\ m.sock = "closing" /\ ~m.connecting /\ m.writes = <<>>
        /\ t' = LET b == IF m.close_cb = "close_done" THEN mbed_close_done_cb(a) ELSE a
                IN  WithTls(b, uv_mbed_release(Tls(b)))
    BY <1>1, FormCloseDone
  <1>3. m.close_cb = "close_done" /\ m.ref = 1 /\ m.mref = 2 /\ ~m.freed /\ ~m.mfreed
    BY <1>2 DEF Lost
  <1>4. /\ n \in Connection /\ n.ctx = m.ctx /\ n.cref = m.cref /\ n.cfreed = m.cfreed
        /\ n.ref = m.ref /\ n.freed = m.freed /\ n.mref = m.mref /\ n.mfreed = m.mfreed
        /\ n.connect_cb = m.connect_cb /\ n.on_shutting_down = m.on_shutting_down
        /\ n.dns = m.dns /\ n.sock = s /\ n.close_cb = m.close_cb
        /\ n.connecting = m.connecting /\ n.timer = m.timer /\ n.reading = m.reading
        /\ n.writable = m.writable /\ n.writes = m.writes /\ n.shutting = m.shutting
        /\ n.handshake = m.handshake /\ n.left = m.left
    <2>1. s \in SockStates
      BY DEF SockStates
    <2> HIDE DEF s, n
    <2> QED BY <1>1, <2>1, ConnSockTo DEF n
  <1>5. n.sock = "closed"
    BY <1>4 DEF s
  <1> HIDE DEF n, s
  <1>6. Tls(a) = n
    BY StateFields
  <1>7. ~n.on_shutting_down
    BY <1>4 DEF Lost
  <1>8. mbed_close_done_cb(a) = WithTls(a, k)
    <2> HIDE DEF a
    <2> QED BY <1>6, <1>7 DEF mbed_close_done_cb
  <1>9. /\ SameConn(n, k) /\ k.cref = n.cref /\ k.cfreed = n.cfreed
        /\ k.ref = 0 /\ k.freed /\ k.mref = 1 /\ ~k.mfreed
    <2>1. n.ref = 1 /\ n.mref = 2 /\ ~n.freed /\ ~n.mfreed /\ n \in Connection
      BY <1>3, <1>4
    <2> HIDE DEF k
    <2>2. /\ SameConn(n, k) /\ k.cref = n.cref /\ k.cfreed = n.cfreed
          /\ k.ref = n.ref - 1 /\ (k.freed <=> n.freed \/ n.ref = 1)
          /\ n.ref = 1 => k.mref = n.mref - 1 /\ (k.mfreed <=> n.mfreed \/ n.mref = 1)
      BY <2>1, CliReleased DEF k
    <2> QED BY <2>1, <2>2
  <1> HIDE DEF k
  <1>10. WithTls(a, k) = State(c, e, k)
    BY <1>1, StateTls
  <1>11. /\ SameConn(k, j) /\ j.cref = k.cref /\ j.cfreed = k.cfreed
         /\ j.ref = 0 /\ j.freed /\ j.mref = 0 /\ j.mfreed
    <2>1. k \in Connection /\ k.mref # 0
      BY <1>9 DEF SameConn
    <2> HIDE DEF j
    <2>2. /\ SameConn(k, j) /\ j.cref = k.cref /\ j.cfreed = k.cfreed
          /\ j.ref = k.ref /\ j.freed = k.freed
          /\ j.mref = k.mref - 1 /\ (j.mfreed <=> k.mfreed \/ k.mref = 1)
      BY <2>1, MbedReleased DEF j
    <2> QED BY <1>9, <2>2
  <1>12. t' = WithTls(State(c, e, k), j)
    <2>1. Tls(State(c, e, k)) = k
      BY StateFields
    <2> QED BY <1>2, <1>3, <1>8, <1>10, <2>1
  <1> HIDE DEF j
  <1>13. t' = State(c, e, j)
    BY <1>1, <1>12, StateTls
  <1>14. SameConn(n, j)
    BY <1>9, <1>11, SameTrans
  <1>15. Lost(j, c.freed)
    <2>1. j.cref = m.cref /\ j.cfreed = m.cfreed /\ j.sock = "closed"
      BY <1>4, <1>5, <1>9, <1>11, <1>14 DEF SameConn
    <2>2. /\ j \in Connection /\ ~j.ctx /\ ~j.on_shutting_down
          /\ ~j.dns /\ ~j.connecting /\ ~j.reading /\ ~j.writable /\ ~j.shutting
          /\ j.writes = <<>> /\ j.left = {} /\ ~j.connect_cb /\ j.timer = "none"
      BY <1>4, <1>14 DEF SameConn, Lost
    <2>3. m.cref = One(~c.freed) /\ (m.cfreed <=> c.freed)
      BY DEF Lost
    <2> QED BY <1>11, <2>1, <2>2, <2>3 DEF Lost
  <1>16. Over(j, c.freed, c.held, 0, 0)
    BY <1>15 DEF Over
  <1> QED BY <1>13, <1>16, DeadIntro


-----------------------------------------------------------------------------
(* Sending, and the datagrams of the application. *)

SendOn(m, items) == SendTo(m, m.ref + Len(items), m.writes \o Sent(items))

LEMMA FormSend ==
    ASSUME NEW c, IsCore(c), NEW e \in Extra, NEW m, NEW items, NEW u, u = State(c, e, m)
    PROVE  /\ m.writable => tls_client_send_data(u, items)
                              = State(c, SaidOut(e, items), SendOn(m, items))
           /\ ~m.writable => tls_client_send_data(u, items) = u
  <1> DEFINE n == SendOn(m, items)
             a == State(c, e, n)
             s == [e.sent EXCEPT !["outgoing"] = @ \o items]
  <1>1. Tls(u) = m /\ u.data.tls = m /\ u.data.sent = e.sent
    BY StateFields
  <1>2. ~m.writable => tls_client_send_data(u, items) = u
    BY <1>1 DEF tls_client_send_data
  <1>3. [u EXCEPT !.data.tls.ref = @ + Len(items),
                  !.data.tls.writes = @ \o [i \in DOMAIN items |-> "data"]] = WithTls(u, n)
    BY <1>1 DEF WithTls, SendOn, SendTo, Sent
  <1>4. WithTls(u, n) = a
    <2> HIDE DEF n
    <2> QED BY StateTls
  <1>5. [u EXCEPT !.data.tls.ref = @ + Len(items),
                  !.data.tls.writes = @ \o [i \in DOMAIN items |-> "data"],
                  !.data.sent["outgoing"] = @ \o items]
          = [a EXCEPT !.data.sent["outgoing"] = @ \o items]
    <2> DEFINE w == [u EXCEPT !.data.tls.ref = @ + Len(items),
                              !.data.tls.writes = @ \o [i \in DOMAIN items |-> "data"]]
    <2>1. [u EXCEPT !.data.tls.ref = @ + Len(items),
                    !.data.tls.writes = @ \o [i \in DOMAIN items |-> "data"],
                    !.data.sent["outgoing"] = @ \o items]
            = [w EXCEPT !.data.sent["outgoing"] = @ \o items]
      OBVIOUS
    <2> HIDE DEF w
    <2>2. w = a
      BY <1>3, <1>4 DEF w
    <2> HIDE DEF a
    <2> QED BY <2>1, <2>2
  <1>6. a.data.sent = e.sent
    <2> HIDE DEF n
    <2> QED BY StateFields
  <1>7. [a EXCEPT !.data.sent["outgoing"] = @ \o items] = WithSent(a, s)
    <2> HIDE DEF a
    <2> QED BY <1>6 DEF WithSent
  <1>8. WithSent(a, s) = State(c, SaidOut(e, items), n)
    <2> HIDE DEF n, s
    <2> QED BY StateSent DEF SaidOut, s
  <1>9. m.writable => tls_client_send_data(u, items) = State(c, SaidOut(e, items), n)
    <2> DEFINE z == [u EXCEPT !.data.tls.ref = @ + Len(items),
                              !.data.tls.writes = @ \o [i \in DOMAIN items |-> "data"],
                              !.data.sent["outgoing"] = @ \o items]
    <2>1. z = State(c, SaidOut(e, items), n)
      <3> HIDE DEF a, n, s
      <3> QED BY <1>5, <1>7, <1>8
    <2>2. m.writable => tls_client_send_data(u, items) = z
      BY <1>1 DEF tls_client_send_data
    <2> HIDE DEF z, n
    <2> QED BY <2>1, <2>2
  <1> QED BY <1>2, <1>9

LEMMA SSend ==
    ASSUME NEW c, NEW e, NEW m, Shut(c, e, m, 0, 0), c.freed = FALSE, NEW items \in Seq(Items),
           NEW n, n = SendOn(m, items)
    PROVE  m.writable => Shut(c, e, n, 0, 0)
  <1> DEFINE g == c.freed
             h == c.held
             r == m.ref + Len(items)
             q == m.writes \o Sent(items)
             k == SendTo(m, r, q)
  <1>1. /\ CoreOver(c) /\ e \in Extra /\ Handles(m) /\ Counts(m, g, h, 0, 0)
        /\ m.on_shutting_down /\ Past(m, h)
    BY DEF Shut
  <1>2. g \in BOOLEAN /\ h \in BOOLEAN
    BY <1>1, CoreOverFacts
  <1>3. m \in Connection /\ m.ref \in Nat /\ m.writes \in Seq(WriteKinds)
    BY <1>1, ConnFields DEF Handles
  <1>4. ~m.cfreed
    <2> HIDE DEF h
    <2>1. m.cref = One(~g) + One(m.on_shutting_down /\ h) /\ (m.cfreed <=> m.cref = 0)
      BY <1>1, <1>2, <1>3, CountsOf
    <2> QED BY <2>1 DEF One
  <1>5. n = k
    BY DEF SendOn
  <1>6. r \in Nat /\ q \in Seq(WriteKinds)
    BY <1>3, DataMore
  <1>7. /\ k \in Connection /\ k.ctx = m.ctx /\ k.cref = m.cref /\ k.cfreed = m.cfreed
        /\ k.ref = r /\ k.freed = m.freed /\ k.mref = m.mref /\ k.mfreed = m.mfreed
        /\ k.connect_cb = m.connect_cb /\ k.on_shutting_down = m.on_shutting_down
        /\ k.dns = m.dns /\ k.sock = m.sock /\ k.close_cb = m.close_cb
        /\ k.connecting = m.connecting /\ k.timer = m.timer /\ k.reading = m.reading
        /\ k.writable = m.writable /\ k.writes = q /\ k.shutting = m.shutting
        /\ k.handshake = m.handshake /\ k.left = m.left
    <2>1. m \in Connection
      BY <1>3
    <2> HIDE DEF r, q
    <2> QED BY <1>6, <2>1, ConnSendTo
  <1>8. m.writable => Handles(k) /\ Counts(k, g, h, 0, 0)
    <2> HIDE DEF g, h, k
    <2> QED BY <1>1, <1>2, <1>4, HSend DEF k
  <1>9. \A i \in DOMAIN q : q[i] = "data" \/ (i \in DOMAIN m.writes /\ q[i] = m.writes[i])
    BY <1>3, DataMore
  <1>10. /\ DOMAIN m.writes \subseteq DOMAIN q
         /\ \A i \in DOMAIN m.writes : q[i] = m.writes[i]
    BY <1>3, DataMore
  <1> HIDE DEF r, q, k
  <1>11. Notified(k) <=> Notified(m)
    BY <1>7, <1>9, <1>10 DEF Notified
  <1>12. Past(k, h)
    <2>1. (Ending(m) => Ending(k)) /\ (Ended(m) => Ended(k)) /\ (Early(m) => Early(k))
      BY <1>7, <1>11 DEF Ending, Ended, Early
    <2>2. k.left = m.left
      BY <1>7
    <2> QED BY <1>1, <2>1, <2>2 DEF Past
  <1>13. m.writable => Shut(c, e, k, 0, 0)
    BY <1>1, <1>7, <1>8, <1>12 DEF Shut
  <1> QED BY <1>5, <1>13

\* udp_on_recv_data, in any tunnel.
LEMMA FormDatagram ==
    ASSUME NEW c, IsCore(c), NEW e \in Extra, NEW m, t = State(c, e, m), udp_on_recv_data
    PROVE  LET k == e.app + 1
               f == AppTo(e, k)
               a == State(c, f, m)
           IN  /\ e.udp /\ ~c.freed /\ k \in 1 .. MaxData
               /\ is_in_streaming(t) =>
                     t' \in {Shutdown(a), tls_client_send_data(a, <<AppData(k)>>)}
               /\ ~is_in_streaming(t) =>
                     t' = State(c, DequeTo(f, Append(e.deque, AppData(k))), m)
  <1> DEFINE k == e.app + 1
             f == AppTo(e, k)
             a == State(c, f, m)
             b == Append(e.deque, AppData(k))
  <1>1. t.data.udp = e.udp /\ t.freed = c.freed /\ t.data.app = e.app
    BY StateFields
  <1>2. [t EXCEPT !.data.app = @ + 1] = a
    <2>1. [t EXCEPT !.data.app = @ + 1] = WithApp(t, k)
      BY <1>1 DEF WithApp
    <2> HIDE DEF k
    <2>2. WithApp(t, k) = a
      BY StateApp
    <2> QED BY <2>1, <2>2
  <1>3. e.udp /\ ~c.freed
    BY <1>1 DEF udp_on_recv_data
  <1>4. PICK p \in NextApp(t) :
           IF is_in_streaming(t)
           THEN t' \in {Shutdown(a), tls_client_send_data(a, <<p>>)}
           ELSE t' = [a EXCEPT !.data.deque = Append(@, p)]
    <2> HIDE DEF a
    <2> QED BY <1>2 DEF udp_on_recv_data
  <1>5. k \in 1 .. MaxData /\ p = AppData(k)
    BY <1>1 DEF NextApp
  <1>6. f \in Extra /\ f.deque = e.deque
    <2>1. k \in 0 .. MaxData
      BY <1>5
    <2> HIDE DEF k
    <2> QED BY <2>1, ExtraApp
  <1>7. [a EXCEPT !.data.deque = Append(@, p)] = State(c, DequeTo(f, b), m)
    <2>1. a.data.deque = e.deque
      <3> HIDE DEF f
      <3> QED BY <1>6, StateFields
    <2>2. [a EXCEPT !.data.deque = Append(@, p)] = WithDeque(a, b)
      <3> HIDE DEF a
      <3> QED BY <1>5, <2>1 DEF WithDeque
    <2> HIDE DEF b, f
    <2>3. WithDeque(a, b) = State(c, DequeTo(f, b), m)
      BY <1>6, StateDeque
    <2> QED BY <2>2, <2>3
  <1>8. is_in_streaming(t) => t' \in {Shutdown(a), tls_client_send_data(a, <<AppData(k)>>)}
    <2> HIDE DEF a, k
    <2> QED BY <1>4, <1>5
  <1>9. ~is_in_streaming(t) => t' = State(c, DequeTo(f, b), m)
    <2> HIDE DEF a, k, b, f
    <2> QED BY <1>4, <1>7
  <1> QED BY <1>3, <1>5, <1>8, <1>9

LEMMA AppItems ==
    ASSUME NEW k \in 1 .. MaxData
    PROVE  AppData(k) \in Items /\ <<AppData(k)>> \in Seq(Items)
  <1>1. AppData(k) \in Items
    BY DEF Items
  <1> QED BY <1>1

LEMMA DeadDatagram ==
    ASSUME NEW c, CoreOver(c), NEW e \in Extra, NEW m, Over(m, c.freed, c.held, 0, 0),
           t = State(c, e, m), udp_on_recv_data
    PROVE  Good(t')
  <1> DEFINE k == e.app + 1
             p == <<AppData(k)>>
             f == AppTo(e, k)
             a == State(c, f, m)
             d == Append(e.deque, AppData(k))
             z == DequeTo(f, d)
             j == SaidOut(f, p)
             n == SendOn(m, p)
  <1>1. IsCore(c) /\ c.is_terminated = TRUE /\ c.freed \in BOOLEAN
    BY CoreOverFacts
  <1>2. /\ ~c.freed /\ k \in 1 .. MaxData
        /\ is_in_streaming(t) => t' \in {Shutdown(a), tls_client_send_data(a, p)}
        /\ ~is_in_streaming(t) => t' = State(c, z, m)
    BY <1>1, FormDatagram
  <1>3. f \in Extra /\ p \in Seq(Items) /\ d \in Seq(Items)
    <2>1. k \in 0 .. MaxData
      BY <1>2
    <2>2. AppData(k) \in Items /\ p \in Seq(Items)
      <3> HIDE DEF k
      <3> QED BY <1>2, AppItems
    <2>3. e.deque \in Seq(Items)
      BY ExtraFields
    <2> HIDE DEF k
    <2>4. f \in Extra
      BY <2>1, ExtraApp
    <2> QED BY <2>2, <2>3, <2>4
  <1> HIDE DEF k, f, p, d
  <1>4. z \in Extra /\ j \in Extra
    <2>1. z \in Extra
      BY <1>3, ExtraDeque
    <2>2. j \in Extra
      <3> HIDE DEF j
      <3> QED BY <1>3, SaidFacts DEF j
    <2> QED BY <2>1, <2>2
  <1> HIDE DEF z, j
  <1>5. Good(a) /\ Good(State(c, z, m))
    BY <1>3, <1>4, DeadIntro
  <1>6. Shutdown(a) = a
    <2>1. a.is_terminated = c.is_terminated
      BY StateFields
    <2> HIDE DEF a
    <2> QED BY <1>1, <2>1, ShutdownDead
  <1>7. /\ m.writable => tls_client_send_data(a, p) = State(c, j, n)
        /\ ~m.writable => tls_client_send_data(a, p) = a
    BY <1>1, <1>3, FormSend DEF j
  <1>8. m.writable => Good(State(c, j, n))
    <2>1. m.writable => Closed(m, c.freed, c.held, 0, 0)
      BY DEF Over, Lost
    <2>2. m.writable => Shut(c, j, m, 0, 0)
      BY <1>4, <2>1, ShutClosed
    <2> HIDE DEF n
    <2>3. m.writable => Shut(c, j, n, 0, 0)
      <3>1. c.freed = FALSE
        BY <1>1, <1>2
      <3> QED BY <1>3, <2>2, <3>1, SSend DEF n
    <2> QED BY <2>3, ShutGood
  <1> HIDE DEF a, n
  <1> QED BY <1>2, <1>5, <1>6, <1>7, <1>8

\* The events of the connection, after the shutdown.
LEMMA DeadEvent ==
    ASSUME DeadOK(t), TlsEvent
    PROVE  Good(t')
  <1>1. PICK c, e, m : /\ t = State(c, e, m) /\ CoreOver(c) /\ e \in Extra
                       /\ Over(m, c.freed, c.held, 0, 0)
    BY DeadElim
  <1>2. CASE udp_on_recv_data
    BY <1>1, <1>2, DeadDatagram
  <1>3. CASE Closed(m, c.freed, c.held, 0, 0)
    <2>1. Shut(c, e, m, 0, 0)
      BY <1>1, <1>3, ShutClosed
    <2>2. CASE uv_dns_resolve_done_cb
      BY <1>1, <2>1, <2>2, DeadDns
    <2>3. CASE connect_timeout_cb
      BY <1>1, <2>1, <2>3, DeadTimeout
    <2>4. CASE uv_tcp_connect_established_cb
      BY <1>1, <2>1, <2>4, DeadEstablished
    <2>5. CASE connect_timeout_close_cb
      BY <1>1, <2>1, <2>5, DeadTimerClosed
    <2>6. CASE mbed_continue_handshake
      BY <1>1, <2>1, <2>6, DeadHandshake
    <2>7. CASE mbed_ssl_process_in
      BY <1>1, <2>1, <2>7, DeadProcess
    <2>8. CASE uv_tcp_read_done_cb
      BY <1>1, <2>1, <2>8, DeadReadDone
    <2>9. CASE uv_mbed_tcp_write_done_cb
      BY <1>1, <2>1, <2>9, DeadWriteDone
    <2>10. CASE uv_tcp_shutdown_cb
      BY <1>1, <2>1, <2>10, DeadShutDone
    <2>11. CASE uv_tcp_close_done_cb
      BY <1>1, <2>1, <2>11, DeadCloseDone
    <2> QED BY <1>2, <2>2, <2>3, <2>4, <2>5, <2>6, <2>7, <2>8, <2>9, <2>10, <2>11 DEF TlsEvent
  <1>4. CASE ~c.held /\ Lost(m, c.freed)
    <2>1. Tls(t) = m
      BY <1>1, StateFields
    <2>2. c.held = FALSE
      BY <1>1, <1>4, CoreOverFacts
    <2>3. CASE uv_tcp_close_done_cb
      BY <1>1, <1>4, <2>2, <2>3, LostCloseDone
    <2>4. /\ ~m.dns /\ ~m.connecting /\ ~m.reading /\ ~m.shutting /\ m.writes = <<>>
          /\ m.timer = "none"
      BY <1>4 DEF Lost
    <2>5. ~uv_dns_resolve_done_cb /\ ~connect_timeout_cb /\ ~uv_tcp_connect_established_cb
          /\ ~connect_timeout_close_cb /\ ~mbed_continue_handshake /\ ~mbed_ssl_process_in
      BY <2>1, <2>4 DEF uv_dns_resolve_done_cb, connect_timeout_cb, uv_tcp_connect_established_cb,
                        connect_timeout_close_cb, mbed_continue_handshake, mbed_ssl_process_in
    <2>6. ~uv_tcp_read_done_cb /\ ~uv_mbed_tcp_write_done_cb /\ ~uv_tcp_shutdown_cb
      BY <2>1, <2>4 DEF uv_tcp_read_done_cb, uv_mbed_tcp_write_done_cb, uv_tcp_shutdown_cb
    <2> QED BY <1>2, <2>3, <2>5, <2>6 DEF TlsEvent
  <1> QED BY <1>1, <1>3, <1>4 DEF Over
=============================================================================
