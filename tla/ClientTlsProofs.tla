--------------------------- MODULE ClientTlsProofs ---------------------------
(***************************************************************************)
(* Theorems about ClientTls, for every bound on the packets: the steps of  *)
(* live tunnels, from the SOCKS handshake to the frames of the server, the *)
(* invariance of TlsInv (module TlsConnectionProofs), and what it implies. *)
(***************************************************************************)
EXTENDS TlsConnectionProofs

-----------------------------------------------------------------------------
(* The callbacks of the connection of a live tunnel. *)

\* What the counts do not matter for.
LEMMA LiveConnFacts ==
    ASSUME NEW m, NEW x, NEW y, LiveConn(m, x, y)
    PROVE  /\ Handles(m) /\ Counts(m, FALSE, TRUE, x, y) /\ m \in Connection /\ m.mref \in Nat
           /\ m.writes \in Seq(WriteKinds) /\ m.ref \in Nat /\ ~m.on_shutting_down /\ m.left = {}
           /\ ~m.shutting /\ ~Notified(m) /\ m.sock # "closed"
           /\ (m.sock = "closing" => m.close_cb = "connect_canceled")
  <1>1. Handles(m) /\ m \in Connection
    BY DEF LiveConn, Handles
  <1>2. m.mref \in Nat /\ m.writes \in Seq(WriteKinds) /\ m.ref \in Nat
    BY <1>1, ConnFields
  <1> QED BY <1>1, <1>2 DEF LiveConn

LEMMA LiveConnSame ==
    ASSUME NEW m, NEW n, NEW x, NEW y, NEW xx, NEW yy, LiveConn(m, x, y), SameConn(m, n),
           Counts(n, FALSE, TRUE, xx, yy)
    PROVE  LiveConn(n, xx, yy)
  <1>1. Handles(n) /\ ~Notified(n)
    BY SameFacts DEF LiveConn
  <1> QED BY <1>1 DEF LiveConn, SameConn

LEMMA LiveConnCli ==
    ASSUME NEW m, NEW x \in Nat, NEW y \in Nat, LiveConn(m, x, y), x # 0,
           NEW n, n = tls_cli_ctx_release(m)
    PROVE  SameConn(m, n) /\ LiveConn(n, x - 1, y)
  <1> DEFINE g == FALSE
             h == TRUE
             z == x - 1
  <1>1. m \in Connection /\ Counts(m, g, h, x, y) /\ g \in BOOLEAN /\ h \in BOOLEAN
    BY LiveConnFacts
  <1> HIDE DEF g, h
  <1>2. SameConn(m, n) /\ Counts(n, g, h, x - 1, y)
    BY <1>1, CountsCli
  <1> HIDE DEF z
  <1>3. Counts(n, FALSE, TRUE, z, y)
    BY <1>2 DEF z, g, h
  <1>4. LiveConn(n, z, y)
    BY <1>2, <1>3, LiveConnSame
  <1> QED BY <1>2, <1>4 DEF z

LEMMA LiveConnMbed ==
    ASSUME NEW m, NEW x \in Nat, NEW y \in Nat, LiveConn(m, x, y), y # 0,
           NEW n, n = uv_mbed_release(m)
    PROVE  SameConn(m, n) /\ LiveConn(n, x, y - 1)
  <1> DEFINE g == FALSE
             h == TRUE
             z == y - 1
  <1>1. m \in Connection /\ Counts(m, g, h, x, y) /\ g \in BOOLEAN /\ h \in BOOLEAN
    BY LiveConnFacts
  <1> HIDE DEF g, h
  <1>2. SameConn(m, n) /\ Counts(n, g, h, x, y - 1)
    BY <1>1, CountsMbed
  <1> HIDE DEF z
  <1>3. Counts(n, FALSE, TRUE, x, z)
    BY <1>2 DEF z, g, h
  <1>4. LiveConn(n, x, z)
    BY <1>2, <1>3, LiveConnSame
  <1> QED BY <1>2, <1>4 DEF z

LEMMA LiveConnReturned ==
    ASSUME NEW m, LiveConn(m, 1, 1), NEW n, n = uv_mbed_release(tls_cli_ctx_release(m))
    PROVE  SameConn(m, n) /\ LiveConn(n, 0, 0)
  <1> DEFINE k == tls_cli_ctx_release(m)
             z == 1 - 1
  <1>1. SameConn(m, k) /\ LiveConn(k, 1 - 1, 1)
    <2> HIDE DEF k
    <2> QED BY LiveConnCli DEF k
  <1>2. z = 0
    OBVIOUS
  <1>3. LiveConn(k, 0, 1)
    <2> HIDE DEF k
    <2> QED BY <1>1, <1>2
  <1>5. n = uv_mbed_release(k)
    OBVIOUS
  <1> HIDE DEF k
  <1>4. SameConn(k, n) /\ LiveConn(n, 0, 1 - 1)
    BY <1>3, <1>5, LiveConnMbed
  <1>6. LiveConn(n, 0, 0)
    BY <1>2, <1>4
  <1> QED BY <1>1, <1>4, <1>6, SameTrans

\* The lookup is over.
LEMMA LFound ==
    ASSUME NEW m, LiveConn(m, 0, 0), NEW n, n = FoundTo(m)
    PROVE  LiveConn(n, 0, 0)
  <1> DEFINE g == FALSE
             h == TRUE
  <1>1. /\ Handles(m) /\ Counts(m, g, h, 0, 0) /\ ~m.on_shutting_down /\ m.left = {}
        /\ ~m.shutting /\ ~Notified(m) /\ m.sock # "closed"
        /\ (m.sock = "closing" => m.close_cb = "connect_canceled")
    BY LiveConnFacts
  <1>2. g \in BOOLEAN /\ h \in BOOLEAN
    OBVIOUS
  <1>3. m \in Connection /\ m.mref \in Nat /\ m.ref \in Nat /\ m.writes \in Seq(WriteKinds)
    BY LiveConnFacts
  <1> HIDE DEF g, h
  <1>4. Handles(n) /\ Counts(n, g, h, 0, 0)
    BY <1>1, <1>2, HFound
  <1>60. /\ n \in Connection /\ n.ctx = m.ctx /\ n.cref = m.cref /\ n.cfreed = m.cfreed
         /\ n.ref = m.ref /\ n.freed = m.freed /\ n.mref = m.mref /\ n.mfreed = m.mfreed
         /\ n.connect_cb = m.connect_cb /\ n.on_shutting_down = m.on_shutting_down /\ ~n.dns
         /\ n.sock = m.sock /\ n.close_cb = m.close_cb /\ n.connecting = m.connecting
         /\ n.timer = m.timer /\ n.reading = m.reading /\ n.writable = m.writable
         /\ n.writes = m.writes /\ n.shutting = m.shutting /\ n.handshake = m.handshake
         /\ n.left = m.left
    <2>1. m \in Connection
      BY <1>3
    <2>2. n = FoundTo(m)
      OBVIOUS
    <2> QED BY <2>1, <2>2, ConnFoundTo
  <1>8. ~Notified(n)
    BY <1>1, <1>60 DEF Notified
  <1>9. /\ ~n.on_shutting_down /\ n.left = {} /\ ~n.shutting /\ n.sock # "closed"
        /\ (n.sock = "closing" => n.close_cb = "connect_canceled")
    BY <1>1, <1>60
  <1>10. Handles(n) /\ Counts(n, FALSE, TRUE, 0, 0)
    BY <1>4 DEF g, h
  <1> QED BY <1>8, <1>9, <1>10 DEF LiveConn

\* uv_tcp_connect is under way.
LEMMA LDial ==
    ASSUME NEW m, LiveConn(m, 0, 0), NEW n, n = DialTo(m)
    PROVE  m.sock = "none" /\ m.connect_cb /\ ~m.dns => LiveConn(n, 0, 0)
  <1> DEFINE g == FALSE
             h == TRUE
  <1>1. /\ Handles(m) /\ Counts(m, g, h, 0, 0) /\ ~m.on_shutting_down /\ m.left = {}
        /\ ~m.shutting /\ ~Notified(m) /\ m.sock # "closed"
        /\ (m.sock = "closing" => m.close_cb = "connect_canceled")
    BY LiveConnFacts
  <1>2. g \in BOOLEAN /\ h \in BOOLEAN
    OBVIOUS
  <1>3. m \in Connection /\ m.mref \in Nat /\ m.ref \in Nat /\ m.writes \in Seq(WriteKinds)
    BY LiveConnFacts
  <1> HIDE DEF g, h
  <1>4. m.sock = "none" /\ m.connect_cb /\ ~m.dns => Handles(n) /\ Counts(n, g, h, 0, 0)
    BY <1>1, <1>2, HDial
  <1>60. /\ n \in Connection /\ n.ctx = m.ctx /\ n.cref = m.cref /\ n.cfreed = m.cfreed
         /\ n.ref = m.ref /\ n.freed = m.freed /\ n.mref = m.mref /\ n.mfreed = m.mfreed
         /\ n.connect_cb = m.connect_cb /\ n.on_shutting_down = m.on_shutting_down
         /\ n.dns = m.dns /\ n.sock = "connecting" /\ n.close_cb = m.close_cb
         /\ n.connecting /\ n.timer = "running" /\ n.reading = m.reading
         /\ n.writable = m.writable /\ n.writes = m.writes /\ n.shutting = m.shutting
         /\ n.handshake = m.handshake /\ n.left = m.left
    <2>1. m \in Connection
      BY <1>3
    <2>2. n = DialTo(m)
      OBVIOUS
    <2> QED BY <2>1, <2>2, ConnDialTo
  <1>7. SUFFICES ASSUME m.sock = "none" /\ m.connect_cb /\ ~m.dns
        PROVE  LiveConn(n, 0, 0)
    OBVIOUS
  <1>8. ~Notified(n)
    BY <1>1, <1>60 DEF Notified
  <1>9. /\ ~n.on_shutting_down /\ n.left = {} /\ ~n.shutting /\ n.sock # "closed"
        /\ (n.sock = "closing" => n.close_cb = "connect_canceled")
    BY <1>7, <1>1, <1>60
  <1>10. Handles(n) /\ Counts(n, FALSE, TRUE, 0, 0)
    BY <1>7, <1>4 DEF g, h
  <1> QED BY <1>8, <1>9, <1>10 DEF LiveConn

\* uv_tcp_connect fails.
LEMMA LFail ==
    ASSUME NEW m, LiveConn(m, 0, 0), NEW n, n = SockTo(m, "failed")
    PROVE  m.sock = "none" /\ ~m.dns => LiveConn(n, 0, 0)
  <1> DEFINE g == FALSE
             h == TRUE
  <1>1. /\ Handles(m) /\ Counts(m, g, h, 0, 0) /\ ~m.on_shutting_down /\ m.left = {}
        /\ ~m.shutting /\ ~Notified(m) /\ m.sock # "closed"
        /\ (m.sock = "closing" => m.close_cb = "connect_canceled")
    BY LiveConnFacts
  <1>2. g \in BOOLEAN /\ h \in BOOLEAN
    OBVIOUS
  <1>3. m \in Connection /\ m.mref \in Nat /\ m.ref \in Nat /\ m.writes \in Seq(WriteKinds)
    BY LiveConnFacts
  <1> HIDE DEF g, h
  <1>4. m.sock = "none" /\ ~m.dns => Handles(n) /\ Counts(n, g, h, 0, 0)
    BY <1>1, <1>2, HFail
  <1> DEFINE a == "failed"
  <1>50. a \in SockStates
    BY DEF SockStates
  <1>60. /\ n \in Connection /\ n.ctx = m.ctx /\ n.cref = m.cref /\ n.cfreed = m.cfreed
         /\ n.ref = m.ref /\ n.freed = m.freed /\ n.mref = m.mref /\ n.mfreed = m.mfreed
         /\ n.connect_cb = m.connect_cb /\ n.on_shutting_down = m.on_shutting_down
         /\ n.dns = m.dns /\ n.sock = a /\ n.close_cb = m.close_cb
         /\ n.connecting = m.connecting /\ n.timer = m.timer /\ n.reading = m.reading
         /\ n.writable = m.writable /\ n.writes = m.writes /\ n.shutting = m.shutting
         /\ n.handshake = m.handshake /\ n.left = m.left
    <2> DEFINE k00 == SockTo(m, a)
    <2>1. m \in Connection
      BY <1>3
    <2>3. n = k00
      OBVIOUS
    <2> HIDE DEF a
    <2>2. /\ k00 \in Connection /\ k00.ctx = m.ctx /\ k00.cref = m.cref
          /\ k00.cfreed = m.cfreed /\ k00.ref = m.ref /\ k00.freed = m.freed
          /\ k00.mref = m.mref /\ k00.mfreed = m.mfreed /\ k00.connect_cb = m.connect_cb
          /\ k00.on_shutting_down = m.on_shutting_down /\ k00.dns = m.dns /\ k00.sock = a
          /\ k00.close_cb = m.close_cb /\ k00.connecting = m.connecting
          /\ k00.timer = m.timer /\ k00.reading = m.reading /\ k00.writable = m.writable
          /\ k00.writes = m.writes /\ k00.shutting = m.shutting
          /\ k00.handshake = m.handshake /\ k00.left = m.left
      BY <2>1, <1>50, ConnSockTo
    <2> HIDE DEF k00
    <2> QED BY <2>3, <2>2
  <1> HIDE DEF a
  <1>7. SUFFICES ASSUME m.sock = "none" /\ ~m.dns
        PROVE  LiveConn(n, 0, 0)
    OBVIOUS
  <1>8. ~Notified(n)
    BY <1>1, <1>60 DEF Notified
  <1>9. /\ ~n.on_shutting_down /\ n.left = {} /\ ~n.shutting /\ n.sock # "closed"
        /\ (n.sock = "closing" => n.close_cb = "connect_canceled")
    BY <1>7, <1>1, <1>60 DEF a
  <1>10. Handles(n) /\ Counts(n, FALSE, TRUE, 0, 0)
    BY <1>7, <1>4 DEF g, h
  <1> QED BY <1>8, <1>9, <1>10 DEF LiveConn

\* The connect timer expires, and closes the socket.
LEMMA LCancel ==
    ASSUME NEW m, LiveConn(m, 0, 0), NEW n, n = CloseTo(TimerTo(m, "expired"), m.mref + 1, "connect_canceled")
    PROVE  m.sock = "connecting" => LiveConn(n, 0, 0)
  <1> DEFINE g == FALSE
             h == TRUE
  <1>1. /\ Handles(m) /\ Counts(m, g, h, 0, 0) /\ ~m.on_shutting_down /\ m.left = {}
        /\ ~m.shutting /\ ~Notified(m) /\ m.sock # "closed"
        /\ (m.sock = "closing" => m.close_cb = "connect_canceled")
    BY LiveConnFacts
  <1>2. g \in BOOLEAN /\ h \in BOOLEAN
    OBVIOUS
  <1>3. m \in Connection /\ m.mref \in Nat /\ m.ref \in Nat /\ m.writes \in Seq(WriteKinds)
    BY LiveConnFacts
  <1> HIDE DEF g, h
  <1>4. m.sock = "connecting" => Handles(n) /\ Counts(n, g, h, 0, 0)
    BY <1>1, <1>2, HCancel
  <1> DEFINE a == "expired"
             r == m.mref + 1
             cb == "connect_canceled"
             k == TimerTo(m, a)
  <1>50. a \in TimerStates
    BY DEF TimerStates
  <1>60. /\ k \in Connection /\ k.ctx = m.ctx /\ k.cref = m.cref /\ k.cfreed = m.cfreed
         /\ k.ref = m.ref /\ k.freed = m.freed /\ k.mref = m.mref /\ k.mfreed = m.mfreed
         /\ k.connect_cb = m.connect_cb /\ k.on_shutting_down = m.on_shutting_down
         /\ k.dns = m.dns /\ k.sock = m.sock /\ k.close_cb = m.close_cb
         /\ k.connecting = m.connecting /\ k.timer = a /\ k.reading = m.reading
         /\ k.writable = m.writable /\ k.writes = m.writes /\ k.shutting = m.shutting
         /\ k.handshake = m.handshake /\ k.left = m.left
    <2>1. m \in Connection
      BY <1>3
    <2>2. k = TimerTo(m, a)
      OBVIOUS
    <2> HIDE DEF a
    <2> QED BY <2>1, <2>2, <1>50, ConnTimerTo
  <1>51. r \in Nat /\ cb \in CloseCbs
    BY <1>3 DEF CloseCbs
  <1>61. /\ n \in Connection /\ n.ctx = k.ctx /\ n.cref = k.cref /\ n.cfreed = k.cfreed
         /\ n.ref = k.ref /\ n.freed = k.freed /\ n.mref = r /\ n.mfreed = k.mfreed
         /\ n.connect_cb = k.connect_cb /\ n.on_shutting_down = k.on_shutting_down
         /\ n.dns = k.dns /\ n.sock = "closing" /\ n.close_cb = cb
         /\ n.connecting = k.connecting /\ n.timer = k.timer /\ ~n.reading /\ ~n.writable
         /\ n.writes = k.writes /\ n.shutting = k.shutting /\ n.handshake = k.handshake
         /\ n.left = k.left
    <2> DEFINE k11 == CloseTo(k, r, cb)
    <2>1. k \in Connection
      BY <1>60
    <2>3. n = k11
      OBVIOUS
    <2> HIDE DEF r, cb, k
    <2>2. /\ k11 \in Connection /\ k11.ctx = k.ctx /\ k11.cref = k.cref
          /\ k11.cfreed = k.cfreed /\ k11.ref = k.ref /\ k11.freed = k.freed /\ k11.mref = r
          /\ k11.mfreed = k.mfreed /\ k11.connect_cb = k.connect_cb
          /\ k11.on_shutting_down = k.on_shutting_down /\ k11.dns = k.dns
          /\ k11.sock = "closing" /\ k11.close_cb = cb /\ k11.connecting = k.connecting
          /\ k11.timer = k.timer /\ ~k11.reading /\ ~k11.writable /\ k11.writes = k.writes
          /\ k11.shutting = k.shutting /\ k11.handshake = k.handshake /\ k11.left = k.left
      BY <2>1, <1>51, ConnCloseTo
    <2> HIDE DEF k11
    <2> QED BY <2>3, <2>2
  <1> HIDE DEF a, r, cb, k
  <1>7. SUFFICES ASSUME m.sock = "connecting"
        PROVE  LiveConn(n, 0, 0)
    OBVIOUS
  <1>8. ~Notified(n)
    BY <1>1, <1>60, <1>61 DEF Notified
  <1>9. /\ ~n.on_shutting_down /\ n.left = {} /\ ~n.shutting /\ n.sock # "closed"
        /\ (n.sock = "closing" => n.close_cb = "connect_canceled")
    BY <1>7, <1>1, <1>60, <1>61 DEF cb
  <1>10. Handles(n) /\ Counts(n, FALSE, TRUE, 0, 0)
    BY <1>7, <1>4 DEF g, h
  <1> QED BY <1>8, <1>9, <1>10 DEF LiveConn

\* The connect request fails.
LEMMA LDialled ==
    ASSUME NEW m, LiveConn(m, 0, 0), NEW n, n = SockTo(DialledTo(m, m.mref + 1), IF m.sock = "connecting" THEN "failed" ELSE m.sock)
    PROVE  m.connecting => LiveConn(n, 0, 0)
  <1> DEFINE g == FALSE
             h == TRUE
  <1>1. /\ Handles(m) /\ Counts(m, g, h, 0, 0) /\ ~m.on_shutting_down /\ m.left = {}
        /\ ~m.shutting /\ ~Notified(m) /\ m.sock # "closed"
        /\ (m.sock = "closing" => m.close_cb = "connect_canceled")
    BY LiveConnFacts
  <1>2. g \in BOOLEAN /\ h \in BOOLEAN
    OBVIOUS
  <1>3. m \in Connection /\ m.mref \in Nat /\ m.ref \in Nat /\ m.writes \in Seq(WriteKinds)
    BY LiveConnFacts
  <1> HIDE DEF g, h
  <1>4. m.connecting => Handles(n) /\ Counts(n, g, h, 0, 0)
    BY <1>1, <1>2, HDialled
  <1> DEFINE r == m.mref + 1
             a == IF m.sock = "connecting" THEN "failed" ELSE m.sock
             k == DialledTo(m, r)
  <1>50. r \in Nat
    BY <1>3
  <1>60. /\ k \in Connection /\ k.ctx = m.ctx /\ k.cref = m.cref /\ k.cfreed = m.cfreed
         /\ k.ref = m.ref /\ k.freed = m.freed /\ k.mref = r /\ k.mfreed = m.mfreed
         /\ k.connect_cb = m.connect_cb /\ k.on_shutting_down = m.on_shutting_down
         /\ k.dns = m.dns /\ k.sock = m.sock /\ k.close_cb = m.close_cb /\ ~k.connecting
         /\ k.timer = "closing" /\ k.reading = m.reading /\ k.writable = m.writable
         /\ k.writes = m.writes /\ k.shutting = m.shutting /\ k.handshake = m.handshake
         /\ k.left = m.left
    <2>1. m \in Connection
      BY <1>3
    <2>2. k = DialledTo(m, r)
      OBVIOUS
    <2> HIDE DEF r
    <2> QED BY <2>1, <2>2, <1>50, ConnDialledTo
  <1>51. a \in SockStates
    BY <1>3, ConnFields DEF SockStates
  <1>61. /\ n \in Connection /\ n.ctx = k.ctx /\ n.cref = k.cref /\ n.cfreed = k.cfreed
         /\ n.ref = k.ref /\ n.freed = k.freed /\ n.mref = k.mref /\ n.mfreed = k.mfreed
         /\ n.connect_cb = k.connect_cb /\ n.on_shutting_down = k.on_shutting_down
         /\ n.dns = k.dns /\ n.sock = a /\ n.close_cb = k.close_cb
         /\ n.connecting = k.connecting /\ n.timer = k.timer /\ n.reading = k.reading
         /\ n.writable = k.writable /\ n.writes = k.writes /\ n.shutting = k.shutting
         /\ n.handshake = k.handshake /\ n.left = k.left
    <2> DEFINE k11 == SockTo(k, a)
    <2>1. k \in Connection
      BY <1>60
    <2>3. n = k11
      OBVIOUS
    <2> HIDE DEF a, k
    <2>2. /\ k11 \in Connection /\ k11.ctx = k.ctx /\ k11.cref = k.cref
          /\ k11.cfreed = k.cfreed /\ k11.ref = k.ref /\ k11.freed = k.freed
          /\ k11.mref = k.mref /\ k11.mfreed = k.mfreed /\ k11.connect_cb = k.connect_cb
          /\ k11.on_shutting_down = k.on_shutting_down /\ k11.dns = k.dns /\ k11.sock = a
          /\ k11.close_cb = k.close_cb /\ k11.connecting = k.connecting
          /\ k11.timer = k.timer /\ k11.reading = k.reading /\ k11.writable = k.writable
          /\ k11.writes = k.writes /\ k11.shutting = k.shutting
          /\ k11.handshake = k.handshake /\ k11.left = k.left
      BY <2>1, <1>51, ConnSockTo
    <2> HIDE DEF k11
    <2> QED BY <2>3, <2>2
  <1> HIDE DEF r, a, k
  <1>7. SUFFICES ASSUME m.connecting
        PROVE  LiveConn(n, 0, 0)
    OBVIOUS
  <1>8. ~Notified(n)
    BY <1>1, <1>60, <1>61 DEF Notified
  <1>9. /\ ~n.on_shutting_down /\ n.left = {} /\ ~n.shutting /\ n.sock # "closed"
        /\ (n.sock = "closing" => n.close_cb = "connect_canceled")
    BY <1>7, <1>1, <1>60, <1>61 DEF a
  <1>10. Handles(n) /\ Counts(n, FALSE, TRUE, 0, 0)
    BY <1>7, <1>4 DEF g, h
  <1> QED BY <1>8, <1>9, <1>10 DEF LiveConn

\* The connection is established.
LEMMA LReady ==
    ASSUME NEW m, LiveConn(m, 0, 0), NEW n, n = ReadyTo(DialledTo(m, m.mref + 1), <<"handshake">>)
    PROVE  m.sock = "connecting" => LiveConn(n, 0, 0)
  <1> DEFINE g == FALSE
             h == TRUE
  <1>1. /\ Handles(m) /\ Counts(m, g, h, 0, 0) /\ ~m.on_shutting_down /\ m.left = {}
        /\ ~m.shutting /\ ~Notified(m) /\ m.sock # "closed"
        /\ (m.sock = "closing" => m.close_cb = "connect_canceled")
    BY LiveConnFacts
  <1>2. g \in BOOLEAN /\ h \in BOOLEAN
    OBVIOUS
  <1>3. m \in Connection /\ m.mref \in Nat /\ m.ref \in Nat /\ m.writes \in Seq(WriteKinds)
    BY LiveConnFacts
  <1> HIDE DEF g, h
  <1>4. m.sock = "connecting" => Handles(n) /\ Counts(n, g, h, 0, 0)
    BY <1>1, <1>2, HReady
  <1> DEFINE r == m.mref + 1
             q == <<"handshake">>
             k == DialledTo(m, r)
  <1>50. r \in Nat
    BY <1>3
  <1>60. /\ k \in Connection /\ k.ctx = m.ctx /\ k.cref = m.cref /\ k.cfreed = m.cfreed
         /\ k.ref = m.ref /\ k.freed = m.freed /\ k.mref = r /\ k.mfreed = m.mfreed
         /\ k.connect_cb = m.connect_cb /\ k.on_shutting_down = m.on_shutting_down
         /\ k.dns = m.dns /\ k.sock = m.sock /\ k.close_cb = m.close_cb /\ ~k.connecting
         /\ k.timer = "closing" /\ k.reading = m.reading /\ k.writable = m.writable
         /\ k.writes = m.writes /\ k.shutting = m.shutting /\ k.handshake = m.handshake
         /\ k.left = m.left
    <2>1. m \in Connection
      BY <1>3
    <2>2. k = DialledTo(m, r)
      OBVIOUS
    <2> HIDE DEF r
    <2> QED BY <2>1, <2>2, <1>50, ConnDialledTo
  <1>51. q \in Seq(WriteKinds)
    BY DataNone
  <1>61. /\ n \in Connection /\ n.ctx = k.ctx /\ n.cref = k.cref /\ n.cfreed = k.cfreed
         /\ n.ref = k.ref /\ n.freed = k.freed /\ n.mref = k.mref /\ n.mfreed = k.mfreed
         /\ n.connect_cb = k.connect_cb /\ n.on_shutting_down = k.on_shutting_down
         /\ n.dns = k.dns /\ n.sock = "connected" /\ n.close_cb = k.close_cb
         /\ n.connecting = k.connecting /\ n.timer = k.timer /\ n.reading /\ n.writable
         /\ n.writes = q /\ n.shutting = k.shutting /\ n.handshake = "begun"
         /\ n.left = k.left
    <2> DEFINE k11 == ReadyTo(k, q)
    <2>1. k \in Connection
      BY <1>60
    <2>3. n = k11
      OBVIOUS
    <2> HIDE DEF q, k
    <2>2. /\ k11 \in Connection /\ k11.ctx = k.ctx /\ k11.cref = k.cref
          /\ k11.cfreed = k.cfreed /\ k11.ref = k.ref /\ k11.freed = k.freed
          /\ k11.mref = k.mref /\ k11.mfreed = k.mfreed /\ k11.connect_cb = k.connect_cb
          /\ k11.on_shutting_down = k.on_shutting_down /\ k11.dns = k.dns
          /\ k11.sock = "connected" /\ k11.close_cb = k.close_cb
          /\ k11.connecting = k.connecting /\ k11.timer = k.timer /\ k11.reading
          /\ k11.writable /\ k11.writes = q /\ k11.shutting = k.shutting
          /\ k11.handshake = "begun" /\ k11.left = k.left
      BY <2>1, <1>51, ConnReadyTo
    <2> HIDE DEF k11
    <2> QED BY <2>3, <2>2
  <1> HIDE DEF r, q, k
  <1>7. SUFFICES ASSUME m.sock = "connecting"
        PROVE  LiveConn(n, 0, 0)
    OBVIOUS
  <1>8. ~Notified(n)
    BY <1>1, <1>60, <1>61 DEF Notified, q
  <1>9. /\ ~n.on_shutting_down /\ n.left = {} /\ ~n.shutting /\ n.sock # "closed"
        /\ (n.sock = "closing" => n.close_cb = "connect_canceled")
    BY <1>7, <1>1, <1>60, <1>61
  <1>10. Handles(n) /\ Counts(n, FALSE, TRUE, 0, 0)
    BY <1>7, <1>4 DEF g, h
  <1> QED BY <1>8, <1>9, <1>10 DEF LiveConn

\* The handle of the timer is closed.
LEMMA LTimerClosed ==
    ASSUME NEW m, LiveConn(m, 0, 0), NEW n, n = TimerTo(m, "closed")
    PROVE  m.timer = "closing" => LiveConn(n, 0, 1)
  <1> DEFINE g == FALSE
             h == TRUE
  <1>1. /\ Handles(m) /\ Counts(m, g, h, 0, 0) /\ ~m.on_shutting_down /\ m.left = {}
        /\ ~m.shutting /\ ~Notified(m) /\ m.sock # "closed"
        /\ (m.sock = "closing" => m.close_cb = "connect_canceled")
    BY LiveConnFacts
  <1>2. g \in BOOLEAN /\ h \in BOOLEAN
    OBVIOUS
  <1>3. m \in Connection /\ m.mref \in Nat /\ m.ref \in Nat /\ m.writes \in Seq(WriteKinds)
    BY LiveConnFacts
  <1> HIDE DEF g, h
  <1>4. m.timer = "closing" => Handles(n) /\ Counts(n, g, h, 0, 0 + 1)
    BY <1>1, <1>2, HTimerClosed
  <1> DEFINE a == "closed"
  <1>50. a \in TimerStates
    BY DEF TimerStates
  <1>60. /\ n \in Connection /\ n.ctx = m.ctx /\ n.cref = m.cref /\ n.cfreed = m.cfreed
         /\ n.ref = m.ref /\ n.freed = m.freed /\ n.mref = m.mref /\ n.mfreed = m.mfreed
         /\ n.connect_cb = m.connect_cb /\ n.on_shutting_down = m.on_shutting_down
         /\ n.dns = m.dns /\ n.sock = m.sock /\ n.close_cb = m.close_cb
         /\ n.connecting = m.connecting /\ n.timer = a /\ n.reading = m.reading
         /\ n.writable = m.writable /\ n.writes = m.writes /\ n.shutting = m.shutting
         /\ n.handshake = m.handshake /\ n.left = m.left
    <2> DEFINE k00 == TimerTo(m, a)
    <2>1. m \in Connection
      BY <1>3
    <2>3. n = k00
      OBVIOUS
    <2> HIDE DEF a
    <2>2. /\ k00 \in Connection /\ k00.ctx = m.ctx /\ k00.cref = m.cref
          /\ k00.cfreed = m.cfreed /\ k00.ref = m.ref /\ k00.freed = m.freed
          /\ k00.mref = m.mref /\ k00.mfreed = m.mfreed /\ k00.connect_cb = m.connect_cb
          /\ k00.on_shutting_down = m.on_shutting_down /\ k00.dns = m.dns
          /\ k00.sock = m.sock /\ k00.close_cb = m.close_cb /\ k00.connecting = m.connecting
          /\ k00.timer = a /\ k00.reading = m.reading /\ k00.writable = m.writable
          /\ k00.writes = m.writes /\ k00.shutting = m.shutting
          /\ k00.handshake = m.handshake /\ k00.left = m.left
      BY <2>1, <1>50, ConnTimerTo
    <2> HIDE DEF k00
    <2> QED BY <2>3, <2>2
  <1> HIDE DEF a
  <1>7. SUFFICES ASSUME m.timer = "closing"
        PROVE  LiveConn(n, 0, 1)
    OBVIOUS
  <1>8. ~Notified(n)
    BY <1>1, <1>60 DEF Notified
  <1>9. /\ ~n.on_shutting_down /\ n.left = {} /\ ~n.shutting /\ n.sock # "closed"
        /\ (n.sock = "closing" => n.close_cb = "connect_canceled")
    BY <1>7, <1>1, <1>60
  <1>10. Handles(n) /\ Counts(n, FALSE, TRUE, 0, 1)
    <2>1. 0 + 1 = 1
      OBVIOUS
    <2>2. Handles(n) /\ Counts(n, g, h, 0, 1)
      BY <1>7, <1>4, <2>1
    <2> QED BY <2>2 DEF g, h
  <1> QED BY <1>8, <1>9, <1>10 DEF LiveConn

\* Another flight of the handshake.
LEMMA LFlight ==
    ASSUME NEW m, LiveConn(m, 0, 0), NEW n, n = FlightTo(m, "flight", Append(m.writes, "handshake"))
    PROVE  m.reading /\ m.handshake = "begun" => LiveConn(n, 0, 0)
  <1> DEFINE g == FALSE
             h == TRUE
  <1>1. /\ Handles(m) /\ Counts(m, g, h, 0, 0) /\ ~m.on_shutting_down /\ m.left = {}
        /\ ~m.shutting /\ ~Notified(m) /\ m.sock # "closed"
        /\ (m.sock = "closing" => m.close_cb = "connect_canceled")
    BY LiveConnFacts
  <1>2. g \in BOOLEAN /\ h \in BOOLEAN
    OBVIOUS
  <1>3. m \in Connection /\ m.mref \in Nat /\ m.ref \in Nat /\ m.writes \in Seq(WriteKinds)
    BY LiveConnFacts
  <1> HIDE DEF g, h
  <1>4. m.reading /\ m.handshake = "begun" => Handles(n) /\ Counts(n, g, h, 0, 0)
    BY <1>1, <1>2, HFlight
  <1> DEFINE a == "flight"
             q == Append(m.writes, "handshake")
  <1>50. a \in ShakeStates /\ q \in Seq(WriteKinds)
    BY <1>3, DataOther DEF ShakeStates
  <1>60. /\ n \in Connection /\ n.ctx = m.ctx /\ n.cref = m.cref /\ n.cfreed = m.cfreed
         /\ n.ref = m.ref /\ n.freed = m.freed /\ n.mref = m.mref /\ n.mfreed = m.mfreed
         /\ n.connect_cb = m.connect_cb /\ n.on_shutting_down = m.on_shutting_down
         /\ n.dns = m.dns /\ n.sock = m.sock /\ n.close_cb = m.close_cb
         /\ n.connecting = m.connecting /\ n.timer = m.timer /\ n.reading = m.reading
         /\ n.writable = m.writable /\ n.writes = q /\ n.shutting = m.shutting
         /\ n.handshake = a /\ n.left = m.left
    <2> DEFINE k00 == FlightTo(m, a, q)
    <2>1. m \in Connection
      BY <1>3
    <2>3. n = k00
      OBVIOUS
    <2> HIDE DEF a, q
    <2>2. /\ k00 \in Connection /\ k00.ctx = m.ctx /\ k00.cref = m.cref
          /\ k00.cfreed = m.cfreed /\ k00.ref = m.ref /\ k00.freed = m.freed
          /\ k00.mref = m.mref /\ k00.mfreed = m.mfreed /\ k00.connect_cb = m.connect_cb
          /\ k00.on_shutting_down = m.on_shutting_down /\ k00.dns = m.dns
          /\ k00.sock = m.sock /\ k00.close_cb = m.close_cb /\ k00.connecting = m.connecting
          /\ k00.timer = m.timer /\ k00.reading = m.reading /\ k00.writable = m.writable
          /\ k00.writes = q /\ k00.shutting = m.shutting /\ k00.handshake = a
          /\ k00.left = m.left
      BY <2>1, <1>50, ConnFlightTo
    <2> HIDE DEF k00
    <2> QED BY <2>3, <2>2
  <1> HIDE DEF a, q
  <1>7. SUFFICES ASSUME m.reading /\ m.handshake = "begun"
        PROVE  LiveConn(n, 0, 0)
    OBVIOUS
  <1>8. ~Notified(n)
    <2>1. \A j \in DOMAIN q : (j \in DOMAIN m.writes /\ q[j] = m.writes[j]) \/ q[j] = "handshake"
      BY <1>3, DataOther DEF q
    <2> QED BY <1>1, <2>1, <1>60 DEF Notified
  <1>9. /\ ~n.on_shutting_down /\ n.left = {} /\ ~n.shutting /\ n.sock # "closed"
        /\ (n.sock = "closing" => n.close_cb = "connect_canceled")
    BY <1>7, <1>1, <1>60
  <1>10. Handles(n) /\ Counts(n, FALSE, TRUE, 0, 0)
    BY <1>7, <1>4 DEF g, h
  <1> QED BY <1>8, <1>9, <1>10 DEF LiveConn

\* The handshake ends.
LEMMA LShake ==
    ASSUME NEW m, LiveConn(m, 0, 0), NEW a \in ShakeStates, NEW n, n = ShakeTo(m, a)
    PROVE  a \in {"over", "failed"} => LiveConn(n, 0, 0)
  <1> DEFINE g == FALSE
             h == TRUE
  <1>1. /\ Handles(m) /\ Counts(m, g, h, 0, 0) /\ ~m.on_shutting_down /\ m.left = {}
        /\ ~m.shutting /\ ~Notified(m) /\ m.sock # "closed"
        /\ (m.sock = "closing" => m.close_cb = "connect_canceled")
    BY LiveConnFacts
  <1>2. g \in BOOLEAN /\ h \in BOOLEAN
    OBVIOUS
  <1>3. m \in Connection /\ m.mref \in Nat /\ m.ref \in Nat /\ m.writes \in Seq(WriteKinds)
    BY LiveConnFacts
  <1> HIDE DEF g, h
  <1>4. a \in {"over", "failed"} => Handles(n) /\ Counts(n, g, h, 0, 0)
    BY <1>1, <1>2, HShake
  <1> DEFINE b == a
  <1>50. b \in ShakeStates
    OBVIOUS
  <1>60. /\ n \in Connection /\ n.ctx = m.ctx /\ n.cref = m.cref /\ n.cfreed = m.cfreed
         /\ n.ref = m.ref /\ n.freed = m.freed /\ n.mref = m.mref /\ n.mfreed = m.mfreed
         /\ n.connect_cb = m.connect_cb /\ n.on_shutting_down = m.on_shutting_down
         /\ n.dns = m.dns /\ n.sock = m.sock /\ n.close_cb = m.close_cb
         /\ n.connecting = m.connecting /\ n.timer = m.timer /\ n.reading = m.reading
         /\ n.writable = m.writable /\ n.writes = m.writes /\ n.shutting = m.shutting
         /\ n.handshake = b /\ n.left = m.left
    <2> DEFINE k00 == ShakeTo(m, b)
    <2>1. m \in Connection
      BY <1>3
    <2>3. n = k00
      OBVIOUS
    <2> HIDE DEF b
    <2>2. /\ k00 \in Connection /\ k00.ctx = m.ctx /\ k00.cref = m.cref
          /\ k00.cfreed = m.cfreed /\ k00.ref = m.ref /\ k00.freed = m.freed
          /\ k00.mref = m.mref /\ k00.mfreed = m.mfreed /\ k00.connect_cb = m.connect_cb
          /\ k00.on_shutting_down = m.on_shutting_down /\ k00.dns = m.dns
          /\ k00.sock = m.sock /\ k00.close_cb = m.close_cb /\ k00.connecting = m.connecting
          /\ k00.timer = m.timer /\ k00.reading = m.reading /\ k00.writable = m.writable
          /\ k00.writes = m.writes /\ k00.shutting = m.shutting /\ k00.handshake = b
          /\ k00.left = m.left
      BY <2>1, <1>50, ConnShakeTo
    <2> HIDE DEF k00
    <2> QED BY <2>3, <2>2
  <1> HIDE DEF b
  <1>7. SUFFICES ASSUME a \in {"over", "failed"}
        PROVE  LiveConn(n, 0, 0)
    OBVIOUS
  <1>8. ~Notified(n)
    BY <1>1, <1>60 DEF Notified
  <1>9. /\ ~n.on_shutting_down /\ n.left = {} /\ ~n.shutting /\ n.sock # "closed"
        /\ (n.sock = "closing" => n.close_cb = "connect_canceled")
    BY <1>7, <1>1, <1>60
  <1>10. Handles(n) /\ Counts(n, FALSE, TRUE, 0, 0)
    BY <1>7, <1>4 DEF g, h
  <1> QED BY <1>8, <1>9, <1>10 DEF LiveConn

\* Reading ends.
LEMMA LRead ==
    ASSUME NEW m, LiveConn(m, 0, 0), NEW b \in BOOLEAN, NEW n, n = ReadTo(m, b)
    PROVE  m.reading => LiveConn(n, 0, 0)
  <1> DEFINE g == FALSE
             h == TRUE
  <1>1. /\ Handles(m) /\ Counts(m, g, h, 0, 0) /\ ~m.on_shutting_down /\ m.left = {}
        /\ ~m.shutting /\ ~Notified(m) /\ m.sock # "closed"
        /\ (m.sock = "closing" => m.close_cb = "connect_canceled")
    BY LiveConnFacts
  <1>2. g \in BOOLEAN /\ h \in BOOLEAN
    OBVIOUS
  <1>3. m \in Connection /\ m.mref \in Nat /\ m.ref \in Nat /\ m.writes \in Seq(WriteKinds)
    BY LiveConnFacts
  <1> HIDE DEF g, h
  <1>4. m.reading => Handles(n) /\ Counts(n, g, h, 0, 0)
    BY <1>1, <1>2, HRead
  <1> DEFINE f == b
  <1>50. f \in BOOLEAN
    OBVIOUS
  <1>60. /\ n \in Connection /\ n.ctx = m.ctx /\ n.cref = m.cref /\ n.cfreed = m.cfreed
         /\ n.ref = m.ref /\ n.freed = m.freed /\ n.mref = m.mref /\ n.mfreed = m.mfreed
         /\ n.connect_cb = m.connect_cb /\ n.on_shutting_down = m.on_shutting_down
         /\ n.dns = m.dns /\ n.sock = m.sock /\ n.close_cb = m.close_cb
         /\ n.connecting = m.connecting /\ n.timer = m.timer /\ ~n.reading /\ n.writable = f
         /\ n.writes = m.writes /\ n.shutting = m.shutting /\ n.handshake = m.handshake
         /\ n.left = m.left
    <2> DEFINE k00 == ReadTo(m, f)
    <2>1. m \in Connection
      BY <1>3
    <2>3. n = k00
      OBVIOUS
    <2> HIDE DEF f
    <2>2. /\ k00 \in Connection /\ k00.ctx = m.ctx /\ k00.cref = m.cref
          /\ k00.cfreed = m.cfreed /\ k00.ref = m.ref /\ k00.freed = m.freed
          /\ k00.mref = m.mref /\ k00.mfreed = m.mfreed /\ k00.connect_cb = m.connect_cb
          /\ k00.on_shutting_down = m.on_shutting_down /\ k00.dns = m.dns
          /\ k00.sock = m.sock /\ k00.close_cb = m.close_cb /\ k00.connecting = m.connecting
          /\ k00.timer = m.timer /\ ~k00.reading /\ k00.writable = f
          /\ k00.writes = m.writes /\ k00.shutting = m.shutting
          /\ k00.handshake = m.handshake /\ k00.left = m.left
      BY <2>1, <1>50, ConnReadTo
    <2> HIDE DEF k00
    <2> QED BY <2>3, <2>2
  <1> HIDE DEF f
  <1>7. SUFFICES ASSUME m.reading
        PROVE  LiveConn(n, 0, 0)
    OBVIOUS
  <1>8. ~Notified(n)
    BY <1>1, <1>60 DEF Notified
  <1>9. /\ ~n.on_shutting_down /\ n.left = {} /\ ~n.shutting /\ n.sock # "closed"
        /\ (n.sock = "closing" => n.close_cb = "connect_canceled")
    BY <1>7, <1>1, <1>60
  <1>10. Handles(n) /\ Counts(n, FALSE, TRUE, 0, 0)
    BY <1>7, <1>4 DEF g, h
  <1> QED BY <1>8, <1>9, <1>10 DEF LiveConn

\* connect_cb is called.
LEMMA LCalled ==
    ASSUME NEW m, LiveConn(m, 0, 0), NEW n, n = CalledTo(m, m.mref + 1)
    PROVE  m.connect_cb /\ ~m.dns /\ ~m.connecting /\ ~(m.reading /\ m.handshake \in {"begun", "flight"}) => LiveConn(n, 1, 1)
  <1> DEFINE g == FALSE
             h == TRUE
  <1>1. /\ Handles(m) /\ Counts(m, g, h, 0, 0) /\ ~m.on_shutting_down /\ m.left = {}
        /\ ~m.shutting /\ ~Notified(m) /\ m.sock # "closed"
        /\ (m.sock = "closing" => m.close_cb = "connect_canceled")
    BY LiveConnFacts
  <1>2. g \in BOOLEAN /\ h \in BOOLEAN
    OBVIOUS
  <1>3. m \in Connection /\ m.mref \in Nat /\ m.ref \in Nat /\ m.writes \in Seq(WriteKinds)
    BY LiveConnFacts
  <1> HIDE DEF g, h
  <1>4. m.connect_cb /\ ~m.dns /\ ~m.connecting /\ ~(m.reading /\ m.handshake \in {"begun", "flight"}) => Handles(n) /\ Counts(n, g, h, 0 + 1, 0 + 1)
    BY <1>1, <1>2, HCalled
  <1> DEFINE r == m.mref + 1
  <1>50. r \in Nat
    BY <1>3
  <1>60. /\ n \in Connection /\ n.ctx = m.ctx /\ n.cref = m.cref /\ n.cfreed = m.cfreed
         /\ n.ref = m.ref /\ n.freed = m.freed /\ n.mref = r /\ n.mfreed = m.mfreed
         /\ ~n.connect_cb /\ n.on_shutting_down = m.on_shutting_down /\ n.dns = m.dns
         /\ n.sock = m.sock /\ n.close_cb = m.close_cb /\ n.connecting = m.connecting
         /\ n.timer = m.timer /\ n.reading = m.reading /\ n.writable = m.writable
         /\ n.writes = m.writes /\ n.shutting = m.shutting /\ n.handshake = m.handshake
         /\ n.left = m.left
    <2> DEFINE k00 == CalledTo(m, r)
    <2>1. m \in Connection
      BY <1>3
    <2>3. n = k00
      OBVIOUS
    <2> HIDE DEF r
    <2>2. /\ k00 \in Connection /\ k00.ctx = m.ctx /\ k00.cref = m.cref
          /\ k00.cfreed = m.cfreed /\ k00.ref = m.ref /\ k00.freed = m.freed /\ k00.mref = r
          /\ k00.mfreed = m.mfreed /\ ~k00.connect_cb
          /\ k00.on_shutting_down = m.on_shutting_down /\ k00.dns = m.dns
          /\ k00.sock = m.sock /\ k00.close_cb = m.close_cb /\ k00.connecting = m.connecting
          /\ k00.timer = m.timer /\ k00.reading = m.reading /\ k00.writable = m.writable
          /\ k00.writes = m.writes /\ k00.shutting = m.shutting
          /\ k00.handshake = m.handshake /\ k00.left = m.left
      BY <2>1, <1>50, ConnCalledTo
    <2> HIDE DEF k00
    <2> QED BY <2>3, <2>2
  <1> HIDE DEF r
  <1>7. SUFFICES ASSUME m.connect_cb /\ ~m.dns /\ ~m.connecting /\ ~(m.reading /\ m.handshake \in {"begun", "flight"})
        PROVE  LiveConn(n, 1, 1)
    OBVIOUS
  <1>8. ~Notified(n)
    BY <1>1, <1>60 DEF Notified
  <1>9. /\ ~n.on_shutting_down /\ n.left = {} /\ ~n.shutting /\ n.sock # "closed"
        /\ (n.sock = "closing" => n.close_cb = "connect_canceled")
    BY <1>7, <1>1, <1>60
  <1>10. Handles(n) /\ Counts(n, FALSE, TRUE, 1, 1)
    <2>1. 0 + 1 = 1
      OBVIOUS
    <2>2. Handles(n) /\ Counts(n, g, h, 1, 1)
      BY <1>7, <1>4, <2>1
    <2> QED BY <2>2 DEF g, h
  <1> QED BY <1>8, <1>9, <1>10 DEF LiveConn

\* Data is written.
LEMMA LSend ==
    ASSUME NEW m, NEW x \in Nat, NEW y \in Nat, LiveConn(m, x, y), NEW items \in Seq(Items), NEW n, n = SendOn(m, items)
    PROVE  m.writable => LiveConn(n, x, y)
  <1> DEFINE g == FALSE
             h == TRUE
  <1>1. /\ Handles(m) /\ Counts(m, g, h, x, y) /\ ~m.on_shutting_down /\ m.left = {}
        /\ ~m.shutting /\ ~Notified(m) /\ m.sock # "closed"
        /\ (m.sock = "closing" => m.close_cb = "connect_canceled")
    BY LiveConnFacts
  <1>2. g \in BOOLEAN /\ h \in BOOLEAN
    OBVIOUS
  <1>3. m \in Connection /\ m.mref \in Nat /\ m.ref \in Nat /\ m.writes \in Seq(WriteKinds)
    BY LiveConnFacts
  <1> HIDE DEF g, h
  <1>4. m.writable => Handles(n) /\ Counts(n, g, h, x, y)
    <2>1. m.cref = One(~g) + One(m.on_shutting_down /\ h) /\ (m.cfreed <=> m.cref = 0)
      BY <1>1, <1>2, <1>3, CountsOf
    <2>2. ~m.cfreed
      BY <2>1 DEF One, g
    <2>3. m.writable /\ ~m.cfreed => Handles(n) /\ Counts(n, g, h, x, y)
      BY <1>1, <1>2, HSend DEF SendOn
    <2> QED BY <2>2, <2>3
  <1> DEFINE r == m.ref + Len(items)
             q == m.writes \o Sent(items)
  <1>50. r \in Nat /\ q \in Seq(WriteKinds)
    BY <1>3, DataMore
  <1>60. /\ n \in Connection /\ n.ctx = m.ctx /\ n.cref = m.cref /\ n.cfreed = m.cfreed
         /\ n.ref = r /\ n.freed = m.freed /\ n.mref = m.mref /\ n.mfreed = m.mfreed
         /\ n.connect_cb = m.connect_cb /\ n.on_shutting_down = m.on_shutting_down
         /\ n.dns = m.dns /\ n.sock = m.sock /\ n.close_cb = m.close_cb
         /\ n.connecting = m.connecting /\ n.timer = m.timer /\ n.reading = m.reading
         /\ n.writable = m.writable /\ n.writes = q /\ n.shutting = m.shutting
         /\ n.handshake = m.handshake /\ n.left = m.left
    <2> DEFINE k00 == SendTo(m, r, q)
    <2>1. m \in Connection
      BY <1>3
    <2>3. n = k00
      BY DEF SendOn
    <2> HIDE DEF r, q
    <2>2. /\ k00 \in Connection /\ k00.ctx = m.ctx /\ k00.cref = m.cref
          /\ k00.cfreed = m.cfreed /\ k00.ref = r /\ k00.freed = m.freed
          /\ k00.mref = m.mref /\ k00.mfreed = m.mfreed /\ k00.connect_cb = m.connect_cb
          /\ k00.on_shutting_down = m.on_shutting_down /\ k00.dns = m.dns
          /\ k00.sock = m.sock /\ k00.close_cb = m.close_cb /\ k00.connecting = m.connecting
          /\ k00.timer = m.timer /\ k00.reading = m.reading /\ k00.writable = m.writable
          /\ k00.writes = q /\ k00.shutting = m.shutting /\ k00.handshake = m.handshake
          /\ k00.left = m.left
      BY <2>1, <1>50, ConnSendTo
    <2> HIDE DEF k00
    <2> QED BY <2>3, <2>2
  <1> HIDE DEF r, q
  <1>7. SUFFICES ASSUME m.writable
        PROVE  LiveConn(n, x, y)
    OBVIOUS
  <1>8. ~Notified(n)
    <2>1. \A j \in DOMAIN q : q[j] = "data" \/ (j \in DOMAIN m.writes /\ q[j] = m.writes[j])
      BY <1>3, DataMore DEF q
    <2> QED BY <1>1, <2>1, <1>60 DEF Notified
  <1>9. /\ ~n.on_shutting_down /\ n.left = {} /\ ~n.shutting /\ n.sock # "closed"
        /\ (n.sock = "closing" => n.close_cb = "connect_canceled")
    BY <1>7, <1>1, <1>60
  <1>10. Handles(n) /\ Counts(n, FALSE, TRUE, x, y)
    BY <1>7, <1>4 DEF g, h
  <1> QED BY <1>8, <1>9, <1>10 DEF LiveConn

\* A write is over.
LEMMA LWrote ==
    ASSUME NEW m, LiveConn(m, 0, 0), m.writes # <<>>, NEW n, n = WritesTo(m, Tail(m.writes))
    PROVE  LiveConn(n, One(Head(m.writes) = "data"), 0)
  <1> DEFINE g == FALSE
             h == TRUE
  <1>1. /\ Handles(m) /\ Counts(m, g, h, 0, 0) /\ ~m.on_shutting_down /\ m.left = {}
        /\ ~m.shutting /\ ~Notified(m) /\ m.sock # "closed"
        /\ (m.sock = "closing" => m.close_cb = "connect_canceled")
    BY LiveConnFacts
  <1>2. g \in BOOLEAN /\ h \in BOOLEAN
    OBVIOUS
  <1>3. m \in Connection /\ m.mref \in Nat /\ m.ref \in Nat /\ m.writes \in Seq(WriteKinds)
    BY LiveConnFacts
  <1> HIDE DEF g, h
  <1>4. Handles(n) /\ Counts(n, g, h, 0 + One(Head(m.writes) = "data"), 0)
    BY <1>1, <1>2, HWrote
  <1> DEFINE q == Tail(m.writes)
  <1>50. q \in Seq(WriteKinds)
    BY <1>3, DataTail
  <1>60. /\ n \in Connection /\ n.ctx = m.ctx /\ n.cref = m.cref /\ n.cfreed = m.cfreed
         /\ n.ref = m.ref /\ n.freed = m.freed /\ n.mref = m.mref /\ n.mfreed = m.mfreed
         /\ n.connect_cb = m.connect_cb /\ n.on_shutting_down = m.on_shutting_down
         /\ n.dns = m.dns /\ n.sock = m.sock /\ n.close_cb = m.close_cb
         /\ n.connecting = m.connecting /\ n.timer = m.timer /\ n.reading = m.reading
         /\ n.writable = m.writable /\ n.writes = q /\ n.shutting = m.shutting
         /\ n.handshake = m.handshake /\ n.left = m.left
    <2> DEFINE k00 == WritesTo(m, q)
    <2>1. m \in Connection
      BY <1>3
    <2>3. n = k00
      OBVIOUS
    <2> HIDE DEF q
    <2>2. /\ k00 \in Connection /\ k00.ctx = m.ctx /\ k00.cref = m.cref
          /\ k00.cfreed = m.cfreed /\ k00.ref = m.ref /\ k00.freed = m.freed
          /\ k00.mref = m.mref /\ k00.mfreed = m.mfreed /\ k00.connect_cb = m.connect_cb
          /\ k00.on_shutting_down = m.on_shutting_down /\ k00.dns = m.dns
          /\ k00.sock = m.sock /\ k00.close_cb = m.close_cb /\ k00.connecting = m.connecting
          /\ k00.timer = m.timer /\ k00.reading = m.reading /\ k00.writable = m.writable
          /\ k00.writes = q /\ k00.shutting = m.shutting /\ k00.handshake = m.handshake
          /\ k00.left = m.left
      BY <2>1, <1>50, ConnWritesTo
    <2> HIDE DEF k00
    <2> QED BY <2>3, <2>2
  <1> HIDE DEF q
  <1>8. ~Notified(n)
    <2>1. \A j \in DOMAIN q : j + 1 \in DOMAIN m.writes /\ q[j] = m.writes[j + 1]
      BY <1>3, DataTail DEF q
    <2> QED BY <1>1, <2>1, <1>60 DEF Notified
  <1>9. /\ ~n.on_shutting_down /\ n.left = {} /\ ~n.shutting /\ n.sock # "closed"
        /\ (n.sock = "closing" => n.close_cb = "connect_canceled")
    BY <1>1, <1>60
  <1>10. Handles(n) /\ Counts(n, FALSE, TRUE, One(Head(m.writes) = "data"), 0)
    <2> DEFINE w == One(Head(m.writes) = "data")
    <2>1. 0 + w = w
      BY DEF One
    <2> HIDE DEF w
    <2>2. Handles(n) /\ Counts(n, g, h, 0 + w, 0)
      BY <1>4 DEF w
    <2> QED BY <2>1, <2>2 DEF w, g, h
  <1> QED BY <1>8, <1>9, <1>10 DEF LiveConn


-----------------------------------------------------------------------------
(* A live tunnel that has a connection. *)

Line(i, o, st, e, m) == Live(i, o, st, TRUE, e, m)
LineCore(i, o, st) == Alive(i, o, st, TRUE)

Settled(i, o, st, e) ==
    /\ i \in OpenSocket /\ o \in OpenSocket /\ NoDial(i) /\ NoDial(o) /\ Unused(o)
    /\ st \in tls_stage /\ e \in Extra

LEMMA LineFacts ==
    ASSUME NEW i, NEW o, NEW st, NEW e, NEW m
    PROVE  /\ Line(i, o, st, e, m) = State(LineCore(i, o, st), e, m)
           /\ IsCore(LineCore(i, o, st)) /\ ~LineCore(i, o, st).freed
           /\ ~Line(i, o, st, e, m).is_terminated /\ ~Line(i, o, st, e, m).freed
           /\ Tls(Line(i, o, st, e, m)) = m /\ Line(i, o, st, e, m).stage = st
  <1> DEFINE h == TRUE
             u == Live(i, o, st, h, e, m)
             c == Alive(i, o, st, h)
  <1>1. h \in BOOLEAN
    OBVIOUS
  <1>2. Line(i, o, st, e, m) = u /\ LineCore(i, o, st) = c
    BY DEF Line, LineCore
  <1> HIDE DEF h
  <1>3. ~u.is_terminated /\ ~u.freed /\ Tls(u) = m /\ u.stage = st
    <2> HIDE DEF u
    <2> QED BY <1>1, LiveFields DEF u
  <1>4. IsCore(c) /\ ~c.freed
    <2> HIDE DEF c
    <2> QED BY <1>1, AliveFacts DEF c
  <1>5. u = State(c, e, m)
    BY DEF Live
  <1> HIDE DEF u, c
  <1> QED BY <1>2, <1>3, <1>4, <1>5

LEMMA LineGood ==
    ASSUME NEW i, NEW o, NEW st, NEW e, NEW m, Unused(o), LiveConn(m, 0, 0),
           Connected(st, i, e, m)
    PROVE  Good(Line(i, o, st, e, m))
  <1> DEFINE h == TRUE
  <1>1. StageOK(st, i, o, h, e, m) /\ h \in BOOLEAN
    BY DEF StageOK
  <1> HIDE DEF h
  <1>2. Good(Live(i, o, st, h, e, m))
    BY <1>1, LiveIntro
  <1> QED BY <1>2 DEF Line, h

LEMMA LineShut ==
    ASSUME NEW i, NEW o, NEW st, NEW e, NEW m, NEW x \in Nat, NEW y \in Nat,
           Settled(i, o, st, e), LiveConn(m, x, y)
    PROVE  Ends(Shutdown(Line(i, o, st, e, m)), e, x, y)
  <1> DEFINE h == TRUE
  <1>1. Kept(h, m, x, y) /\ h \in BOOLEAN
    BY DEF Kept
  <1>2. i \in OpenSocket /\ o \in OpenSocket /\ NoDial(i) /\ NoDial(o) /\ st \in tls_stage
    BY DEF Settled
  <1> HIDE DEF h
  <1>3. Ends(Shutdown(Live(i, o, st, h, e, m)), e, x, y)
    BY <1>1, <1>2, ShutdownLive
  <1> QED BY <1>3 DEF Line, h

LEMMA LineShutGood ==
    ASSUME NEW i, NEW o, NEW st, NEW e, NEW m, Settled(i, o, st, e), LiveConn(m, 0, 0)
    PROVE  Good(Shutdown(Line(i, o, st, e, m)))
  <1>1. Ends(Shutdown(Line(i, o, st, e, m)), e, 0, 0) /\ e \in Extra
    BY LineShut DEF Settled
  <1> QED BY <1>1, EndsGood

\* The connect fails.
LEMMA LineCalled ==
    ASSUME NEW i, NEW o, NEW st, NEW e, NEW m, Settled(i, o, st, e), LiveConn(m, 0, 0)
    PROVE  m.connect_cb /\ ~m.dns /\ ~m.connecting
           /\ ~(m.reading /\ m.handshake \in {"begun", "flight"}) =>
              Good(do_uv_mbeb_connect_cb(Line(i, o, st, e, m), "err"))
  <1> DEFINE n == CalledTo(m, m.mref + 1)
             a == Line(i, o, st, e, n)
             u == Line(i, o, st, e, m)
             c == LineCore(i, o, st)
  <1>1. IsCore(c) /\ u = State(c, e, m) /\ a = State(c, e, n)
    <2> HIDE DEF n
    <2> QED BY LineFacts
  <1>2. m.connect_cb => do_uv_mbeb_connect_cb(u, "err")
                          = Returned(tls_cli_on_connection_established(State(c, e, n), "err"))
    <2> HIDE DEF u, c, a
    <2> QED BY <1>1, FormConnect
  <1>3. tls_cli_on_connection_established(a, "err") = Shutdown(a)
    <2> HIDE DEF a
    <2> QED BY DEF tls_cli_on_connection_established
  <1>4. m.connect_cb /\ ~m.dns /\ ~m.connecting
        /\ ~(m.reading /\ m.handshake \in {"begun", "flight"}) => LiveConn(n, 1, 1)
    <2> HIDE DEF n
    <2> QED BY LCalled DEF n
  <1> HIDE DEF n
  <1>5. LiveConn(n, 1, 1) => Good(Returned(Shutdown(a)))
    <2>1. SUFFICES ASSUME LiveConn(n, 1, 1) PROVE Good(Returned(Shutdown(a)))
      OBVIOUS
    <2>2. Ends(Shutdown(a), e, 1, 1) /\ e \in Extra
      BY <2>1, LineShut DEF Settled
    <2> HIDE DEF a
    <2> QED BY <2>2, EndsReturned
  <1> HIDE DEF a, u, c
  <1>6. SUFFICES ASSUME m.connect_cb /\ ~m.dns /\ ~m.connecting
                        /\ ~(m.reading /\ m.handshake \in {"begun", "flight"})
                 PROVE  Good(do_uv_mbeb_connect_cb(u, "err"))
    BY DEF u
  <1> QED BY <1>1, <1>2, <1>3, <1>4, <1>5, <1>6

\* What the stages say of the connection.
LEMMA ConnectedCases ==
    ASSUME NEW st, NEW i, NEW e, NEW m, LiveConn(m, 0, 0), Connected(st, i, e, m)
    PROVE  /\ m.dns \/ m.connecting \/ m.connect_cb \/ m.sock = "connecting"
              \/ m.handshake \in {"begun", "flight"} =>
                 st = "tls_connecting" /\ Waits(i, e) /\ Stored(e)
           /\ m.timer = "running" => m.sock = "connecting"
           /\ m.sock = "closing" => m.connecting
           /\ m.reading /\ m.handshake = "over" =>
                 \/ st = "tls_websocket_upgrade" /\ Waits(i, e) /\ Asked(e) /\ Opened(m)
                 \/ st = "tls_streaming" /\ Streams(i, e) /\ Flows(e) /\ Opened(m)
  <1>1. Handles(m)
    BY DEF LiveConn
  <1>2. CASE st = "tls_connecting" /\ Waits(i, e) /\ Stored(e)
             /\ (Resolving(m) \/ Connecting(m) \/ Shaking(m))
    <2>1. m.timer = "running" => m.sock = "connecting"
      BY <1>1, <1>2 DEF Handles, Resolving, Connecting, Shaking
    <2>2. m.sock = "closing" => m.connecting
      BY <1>1, <1>2 DEF Handles, Resolving, Connecting, Shaking
    <2>3. ~(m.reading /\ m.handshake = "over")
      BY <1>1, <1>2 DEF Handles, Resolving, Connecting, Shaking
    <2> QED BY <1>2, <2>1, <2>2, <2>3
  <1>3. CASE /\ Opened(m)
             /\ \/ st = "tls_websocket_upgrade" /\ Waits(i, e) /\ Asked(e)
                \/ st = "tls_streaming" /\ Streams(i, e) /\ Flows(e)
    <2>1. ~m.dns /\ ~m.connecting /\ ~m.connect_cb /\ m.sock = "connected"
          /\ m.handshake = "over" /\ m.timer # "running"
      BY <1>1, <1>3 DEF Handles, Opened
    <2> QED BY <1>3, <2>1
  <1> QED BY <1>2, <1>3 DEF Connected

LEMMA ConnectedSettled ==
    ASSUME NEW st, NEW i, NEW o, NEW e, NEW m, Unused(o), LiveConn(m, 0, 0),
           Connected(st, i, e, m)
    PROVE  Settled(i, o, st, e)
  <1> DEFINE h == TRUE
  <1>1. StageOK(st, i, o, h, e, m)
    BY DEF StageOK
  <1> HIDE DEF h
  <1>2. /\ i \in OpenSocket /\ o \in OpenSocket /\ NoDial(i) /\ NoDial(o) /\ Unused(o)
        /\ st \in tls_stage /\ e \in Extra
    BY <1>1, StageFacts
  <1> QED BY <1>2 DEF Settled


-----------------------------------------------------------------------------
(* The events of the loop, while the tunnel lives: its connection is made. *)

Running(i, o, st, e, m) == Unused(o) /\ LiveConn(m, 0, 0) /\ Connected(st, i, e, m)

LEMMA RunningFacts ==
    ASSUME NEW i, NEW o, NEW st, NEW e, NEW m, Running(i, o, st, e, m)
    PROVE  /\ LiveConn(m, 0, 0) /\ Handles(m) /\ m \in Connection /\ Unused(o)
           /\ Settled(i, o, st, e) /\ e \in Extra /\ Connected(st, i, e, m)
  <1>1. Unused(o) /\ LiveConn(m, 0, 0) /\ Connected(st, i, e, m)
    BY DEF Running
  <1>2. Settled(i, o, st, e)
    BY <1>1, ConnectedSettled
  <1>3. Handles(m) /\ m \in Connection
    BY <1>1, LiveConnFacts
  <1> QED BY <1>1, <1>2, <1>3 DEF Settled

LEMMA LineDns ==
    ASSUME NEW i, NEW o, NEW st, NEW e, NEW m, Running(i, o, st, e, m),
           t = Line(i, o, st, e, m), uv_dns_resolve_done_cb
    PROVE  Good(t')
  <1> DEFINE c == LineCore(i, o, st)
             n == FoundTo(m)
             a == State(c, e, n)
             k == SockTo(n, "failed")
             d == DialTo(n)
  <1>0. LiveConn(m, 0, 0) /\ Handles(m) /\ m \in Connection /\ Unused(o)
        /\ Settled(i, o, st, e) /\ Connected(st, i, e, m)
    BY RunningFacts
  <1>1. IsCore(c) /\ Tls(t) = m /\ t = State(c, e, m)
    BY LineFacts
  <1>2. m.dns
    BY <1>1 DEF uv_dns_resolve_done_cb
  <1>3. [t EXCEPT !.data.tls.dns = FALSE] = a
    BY <1>1, FormFound
  <1>4. t' \in {do_uv_mbeb_connect_cb(a, "err")} \cup try_connect_remote_svr(a)
    BY <1>3 DEF uv_dns_resolve_done_cb
  <1>5. LiveConn(n, 0, 0)
    <2> HIDE DEF n
    <2> QED BY <1>0, <1>2, LFound DEF n
  <1>6. /\ n \in Connection /\ n.ctx = m.ctx /\ n.cref = m.cref /\ n.cfreed = m.cfreed
        /\ n.ref = m.ref /\ n.freed = m.freed /\ n.mref = m.mref /\ n.mfreed = m.mfreed
        /\ n.connect_cb = m.connect_cb /\ n.on_shutting_down = m.on_shutting_down /\ ~n.dns
        /\ n.sock = m.sock /\ n.close_cb = m.close_cb /\ n.connecting = m.connecting
        /\ n.timer = m.timer /\ n.reading = m.reading /\ n.writable = m.writable
        /\ n.writes = m.writes /\ n.shutting = m.shutting /\ n.handshake = m.handshake
        /\ n.left = m.left
    <2> HIDE DEF n
    <2> QED BY <1>0, ConnFoundTo DEF n
  <1>7. m.sock = "none" /\ m.connect_cb /\ ~m.connecting /\ ~m.reading
    BY <1>0, <1>2 DEF Handles
  <1>14. st = "tls_connecting" /\ Waits(i, e) /\ Stored(e)
    BY <1>0, <1>2, ConnectedCases
  <1> HIDE DEF n
  <1>8. n.sock = "none" /\ n.connect_cb /\ ~n.connecting /\ ~n.reading /\ ~n.dns
    BY <1>6, <1>7
  <1>9. CASE t' = do_uv_mbeb_connect_cb(a, "err")
    <2>1. Good(do_uv_mbeb_connect_cb(Line(i, o, st, e, n), "err"))
      BY <1>0, <1>5, <1>8, LineCalled
    <2>2. a = Line(i, o, st, e, n)
      BY LineFacts
    <2> HIDE DEF a
    <2> QED BY <1>9, <2>1, <2>2
  <1>10. CASE t' = State(c, e, d)
    <2>1. LiveConn(d, 0, 0)
      <3> HIDE DEF d
      <3> QED BY <1>5, <1>8, LDial DEF d
    <2>2. /\ d \in Connection /\ d.ctx = n.ctx /\ d.cref = n.cref /\ d.cfreed = n.cfreed
          /\ d.ref = n.ref /\ d.freed = n.freed /\ d.mref = n.mref /\ d.mfreed = n.mfreed
          /\ d.connect_cb = n.connect_cb /\ d.on_shutting_down = n.on_shutting_down
          /\ d.dns = n.dns /\ d.sock = "connecting" /\ d.close_cb = n.close_cb
          /\ d.connecting /\ d.timer = "running" /\ d.reading = n.reading
          /\ d.writable = n.writable /\ d.writes = n.writes /\ d.shutting = n.shutting
          /\ d.handshake = n.handshake /\ d.left = n.left
      <3> HIDE DEF d
      <3> QED BY <1>6, ConnDialTo DEF d
    <2> HIDE DEF d
    <2>3. Connected(st, i, e, d)
      BY <1>14, <2>2 DEF Connected, Connecting
    <2>4. State(c, e, d) = Line(i, o, st, e, d)
      BY LineFacts
    <2>5. Good(Line(i, o, st, e, d))
      BY <1>0, <2>1, <2>3, LineGood
    <2> QED BY <1>10, <2>4, <2>5
  <1>11. CASE t' = do_uv_mbeb_connect_cb(State(c, e, k), "err")
    <2>1. LiveConn(k, 0, 0)
      <3> HIDE DEF k
      <3> QED BY <1>5, <1>8, LFail DEF k
    <2> DEFINE f == "failed"
    <2>2. f \in SockStates
      BY DEF SockStates
    <2>3. k = SockTo(n, f) /\ n \in Connection
      BY <1>6
    <2> HIDE DEF f
    <2>4. /\ k \in Connection /\ k.ctx = n.ctx /\ k.cref = n.cref /\ k.cfreed = n.cfreed
          /\ k.ref = n.ref /\ k.freed = n.freed /\ k.mref = n.mref /\ k.mfreed = n.mfreed
          /\ k.connect_cb = n.connect_cb /\ k.on_shutting_down = n.on_shutting_down
          /\ k.dns = n.dns /\ k.sock = f /\ k.close_cb = n.close_cb
          /\ k.connecting = n.connecting /\ k.timer = n.timer /\ k.reading = n.reading
          /\ k.writable = n.writable /\ k.writes = n.writes /\ k.shutting = n.shutting
          /\ k.handshake = n.handshake /\ k.left = n.left
      BY <2>2, <2>3, ConnSockTo
    <2> HIDE DEF k
    <2>5. ~k.dns /\ ~k.connecting /\ ~k.reading /\ k.connect_cb
      BY <1>8, <2>4
    <2>6. Good(do_uv_mbeb_connect_cb(Line(i, o, st, e, k), "err"))
      BY <1>0, <2>1, <2>5, LineCalled
    <2>7. State(c, e, k) = Line(i, o, st, e, k)
      BY LineFacts
    <2> QED BY <1>11, <2>6, <2>7
  <1>12. try_connect_remote_svr(a) = {State(c, e, d), do_uv_mbeb_connect_cb(State(c, e, k), "err")}
    <2>1. [a EXCEPT !.data.tls.sock = "connecting", !.data.tls.connecting = TRUE,
                    !.data.tls.timer = "running"] = State(c, e, d)
      <3>1. IsCore(c)
        BY <1>1
      <3> HIDE DEF c, d, a
      <3> QED BY <3>1, FormDial DEF d, a
    <2>2. [a EXCEPT !.data.tls.sock = "failed"] = State(c, e, k)
      BY <1>1, FormSock
    <2> HIDE DEF a, d, k
    <2> QED BY <2>1, <2>2 DEF try_connect_remote_svr
  <1> QED BY <1>4, <1>9, <1>10, <1>11, <1>12

LEMMA LineTimeout ==
    ASSUME NEW i, NEW o, NEW st, NEW e, NEW m, Running(i, o, st, e, m),
           t = Line(i, o, st, e, m), connect_timeout_cb
    PROVE  Good(t')
  <1> DEFINE c == LineCore(i, o, st)
             x == "expired"
             cb == "connect_canceled"
             r == m.mref + 1
             n == TimerTo(m, x)
             a == State(c, e, n)
             k == CloseTo(n, r, cb)
  <1>0. LiveConn(m, 0, 0) /\ Handles(m) /\ m \in Connection /\ Unused(o)
        /\ Settled(i, o, st, e) /\ Connected(st, i, e, m)
    BY RunningFacts
  <1>1. IsCore(c) /\ Tls(t) = m /\ t = State(c, e, m)
    BY LineFacts
  <1>2. m.timer = "running"
    BY <1>1 DEF connect_timeout_cb
  <1>3. m.sock = "connecting"
    BY <1>0, <1>2, ConnectedCases
  <1>4. st = "tls_connecting" /\ Waits(i, e) /\ Stored(e)
    BY <1>0, <1>3, ConnectedCases
  <1>5. m.connecting
    BY <1>0, <1>2 DEF Handles
  <1>6. [t EXCEPT !.data.tls.timer = "expired"] = a
    BY <1>1, FormTimer
  <1>7. t' = WithTls(a, uv_close_socket(Tls(a), "connect_canceled"))
    BY <1>1, <1>3, <1>6 DEF connect_timeout_cb
  <1>8. Tls(a) = n
    <2> HIDE DEF n
    <2> QED BY StateFields
  <1>9. x \in TimerStates /\ cb \in CloseCbs /\ r \in Nat
    BY <1>0, ConnFields DEF TimerStates, CloseCbs
  <1>10. LiveConn(k, 0, 0)
    <2> HIDE DEF k
    <2> QED BY <1>0, <1>3, LCancel DEF k
  <1>17. x = "expired" /\ cb = "connect_canceled" /\ r = m.mref + 1
    OBVIOUS
  <1> HIDE DEF x, cb, r
  <1>11. /\ n \in Connection /\ n.ctx = m.ctx /\ n.cref = m.cref /\ n.cfreed = m.cfreed
         /\ n.ref = m.ref /\ n.freed = m.freed /\ n.mref = m.mref /\ n.mfreed = m.mfreed
         /\ n.connect_cb = m.connect_cb /\ n.on_shutting_down = m.on_shutting_down
         /\ n.dns = m.dns /\ n.sock = m.sock /\ n.close_cb = m.close_cb
         /\ n.connecting = m.connecting /\ n.timer = x /\ n.reading = m.reading
         /\ n.writable = m.writable /\ n.writes = m.writes /\ n.shutting = m.shutting
         /\ n.handshake = m.handshake /\ n.left = m.left
    <2> HIDE DEF n
    <2> QED BY <1>0, <1>9, ConnTimerTo DEF n
  <1>12. /\ k \in Connection /\ k.ctx = n.ctx /\ k.cref = n.cref /\ k.cfreed = n.cfreed
         /\ k.ref = n.ref /\ k.freed = n.freed /\ k.mref = r /\ k.mfreed = n.mfreed
         /\ k.connect_cb = n.connect_cb /\ k.on_shutting_down = n.on_shutting_down
         /\ k.dns = n.dns /\ k.sock = "closing" /\ k.close_cb = cb
         /\ k.connecting = n.connecting /\ k.timer = n.timer /\ ~k.reading /\ ~k.writable
         /\ k.writes = n.writes /\ k.shutting = n.shutting /\ k.handshake = n.handshake
         /\ k.left = n.left
    <2> HIDE DEF k, n
    <2> QED BY <1>9, <1>11, ConnCloseTo DEF k
  <1> HIDE DEF n
  <1>13. uv_close_socket(n, "connect_canceled") = k
    BY <1>11, <1>17, FormClose
  <1> HIDE DEF k
  <1>14. WithTls(a, k) = Line(i, o, st, e, k)
    <2>1. WithTls(a, k) = State(c, e, k)
      BY <1>1, StateTls
    <2> QED BY <2>1, LineFacts
  <1>15. Connected(st, i, e, k)
    BY <1>4, <1>5, <1>11, <1>12, <1>17 DEF Connected, Connecting
  <1>16. Good(Line(i, o, st, e, k))
    BY <1>0, <1>10, <1>15, LineGood
  <1> HIDE DEF a
  <1> QED BY <1>7, <1>8, <1>13, <1>14, <1>16

LEMMA LineEstablished ==
    ASSUME NEW i, NEW o, NEW st, NEW e, NEW m, Running(i, o, st, e, m),
           t = Line(i, o, st, e, m), uv_tcp_connect_established_cb
    PROVE  Good(t')
  <1> DEFINE c == LineCore(i, o, st)
             r == m.mref + 1
             d == DialledTo(m, r)
             s == IF m.sock = "connecting" THEN "failed" ELSE m.sock
             q == <<"handshake">>
             n == SockTo(d, s)
             k == ReadyTo(d, q)
  <1>0. LiveConn(m, 0, 0) /\ Handles(m) /\ m \in Connection /\ Unused(o)
        /\ Settled(i, o, st, e) /\ Connected(st, i, e, m)
    BY RunningFacts
  <1>1. IsCore(c) /\ t = State(c, e, m)
    BY LineFacts
  <1>2. /\ m.connecting
        /\ \/ t' = do_uv_mbeb_connect_cb(State(c, e, n), "err")
           \/ m.sock = "connecting" /\ t' = State(c, e, k)
    BY <1>0, <1>1, FormEstablished
  <1>3. st = "tls_connecting" /\ Waits(i, e) /\ Stored(e)
    BY <1>0, <1>2, ConnectedCases
  <1>4. ~m.dns /\ ~m.reading /\ m.connect_cb
    BY <1>0, <1>2 DEF Handles
  <1>5. r \in Nat /\ s \in SockStates /\ q \in Seq(WriteKinds)
    BY <1>0, ConnFields, DataNone DEF SockStates
  <1>6. LiveConn(n, 0, 0)
    <2> HIDE DEF n
    <2> QED BY <1>0, <1>2, LDialled DEF n
  <1>7. m.sock = "connecting" => LiveConn(k, 0, 0)
    <2> HIDE DEF k
    <2> QED BY <1>0, LReady DEF k
  <1> HIDE DEF r, s, q
  <1>8. /\ d \in Connection /\ d.ctx = m.ctx /\ d.cref = m.cref /\ d.cfreed = m.cfreed
        /\ d.ref = m.ref /\ d.freed = m.freed /\ d.mref = r /\ d.mfreed = m.mfreed
        /\ d.connect_cb = m.connect_cb /\ d.on_shutting_down = m.on_shutting_down
        /\ d.dns = m.dns /\ d.sock = m.sock /\ d.close_cb = m.close_cb /\ ~d.connecting
        /\ d.timer = "closing" /\ d.reading = m.reading /\ d.writable = m.writable
        /\ d.writes = m.writes /\ d.shutting = m.shutting /\ d.handshake = m.handshake
        /\ d.left = m.left
    <2> HIDE DEF d
    <2> QED BY <1>0, <1>5, ConnDialledTo DEF d
  <1>9. d \in Connection
    BY <1>8
  <1> HIDE DEF d
  <1>10. CASE t' = do_uv_mbeb_connect_cb(State(c, e, n), "err")
    <2>1. /\ n \in Connection /\ n.ctx = d.ctx /\ n.cref = d.cref /\ n.cfreed = d.cfreed
          /\ n.ref = d.ref /\ n.freed = d.freed /\ n.mref = d.mref /\ n.mfreed = d.mfreed
          /\ n.connect_cb = d.connect_cb /\ n.on_shutting_down = d.on_shutting_down
          /\ n.dns = d.dns /\ n.sock = s /\ n.close_cb = d.close_cb
          /\ n.connecting = d.connecting /\ n.timer = d.timer /\ n.reading = d.reading
          /\ n.writable = d.writable /\ n.writes = d.writes /\ n.shutting = d.shutting
          /\ n.handshake = d.handshake /\ n.left = d.left
      <3> HIDE DEF n
      <3> QED BY <1>5, <1>9, ConnSockTo DEF n
    <2> HIDE DEF n
    <2>2. ~n.dns /\ ~n.connecting /\ ~n.reading /\ n.connect_cb
      BY <1>4, <1>8, <2>1
    <2>3. Good(do_uv_mbeb_connect_cb(Line(i, o, st, e, n), "err"))
      BY <1>0, <1>6, <2>2, LineCalled
    <2>4. State(c, e, n) = Line(i, o, st, e, n)
      BY LineFacts
    <2> QED BY <1>10, <2>3, <2>4
  <1>11. CASE m.sock = "connecting" /\ t' = State(c, e, k)
    <2>1. /\ k \in Connection /\ k.ctx = d.ctx /\ k.cref = d.cref /\ k.cfreed = d.cfreed
          /\ k.ref = d.ref /\ k.freed = d.freed /\ k.mref = d.mref /\ k.mfreed = d.mfreed
          /\ k.connect_cb = d.connect_cb /\ k.on_shutting_down = d.on_shutting_down
          /\ k.dns = d.dns /\ k.sock = "connected" /\ k.close_cb = d.close_cb
          /\ k.connecting = d.connecting /\ k.timer = d.timer /\ k.reading /\ k.writable
          /\ k.writes = q /\ k.shutting = d.shutting /\ k.handshake = "begun"
          /\ k.left = d.left
      <3> HIDE DEF k
      <3> QED BY <1>5, <1>9, ConnReadyTo DEF k
    <2> HIDE DEF k
    <2>2. Connected(st, i, e, k)
      BY <1>3, <1>4, <1>8, <2>1 DEF Connected, Shaking
    <2>3. Good(Line(i, o, st, e, k))
      BY <1>0, <1>7, <1>11, <2>2, LineGood
    <2>4. State(c, e, k) = Line(i, o, st, e, k)
      BY LineFacts
    <2> QED BY <1>11, <2>3, <2>4
  <1> HIDE DEF n, k
  <1> QED BY <1>2, <1>10, <1>11

\* The stages only look at these fields of the connection.
LEMMA ConnectedKept ==
    ASSUME NEW st, NEW i, NEW e, NEW m, NEW n, Connected(st, i, e, m)
    PROVE  n.dns = m.dns /\ n.sock = m.sock /\ n.connecting = m.connecting
           /\ (n.timer = m.timer \/ ~Connecting(m)) /\ n.reading = m.reading
           /\ n.connect_cb = m.connect_cb /\ n.handshake = m.handshake =>
              Connected(st, i, e, n)
  <1> SUFFICES ASSUME n.dns = m.dns /\ n.sock = m.sock /\ n.connecting = m.connecting
                      /\ (n.timer = m.timer \/ ~Connecting(m)) /\ n.reading = m.reading
                      /\ n.connect_cb = m.connect_cb /\ n.handshake = m.handshake
               PROVE  Connected(st, i, e, n)
    OBVIOUS
  <1>1. Resolving(m) => Resolving(n)
    BY DEF Resolving
  <1>2. Connecting(m) => Connecting(n)
    BY DEF Connecting
  <1>3. Shaking(m) => Shaking(n)
    BY DEF Shaking
  <1>4. Opened(m) => Opened(n)
    BY DEF Opened
  <1> QED BY <1>1, <1>2, <1>3, <1>4 DEF Connected

LEMMA SameConnected ==
    ASSUME NEW st, NEW i, NEW e, NEW m, NEW n, Connected(st, i, e, m), SameConn(m, n)
    PROVE  Connected(st, i, e, n)
  <1>1. n.dns = m.dns /\ n.sock = m.sock /\ n.connecting = m.connecting
        /\ n.timer = m.timer /\ n.reading = m.reading
        /\ n.connect_cb = m.connect_cb /\ n.handshake = m.handshake
    BY DEF SameConn
  <1> QED BY <1>1, ConnectedKept

LEMMA LineTimerClosed ==
    ASSUME NEW i, NEW o, NEW st, NEW e, NEW m, Running(i, o, st, e, m),
           t = Line(i, o, st, e, m), connect_timeout_close_cb
    PROVE  Good(t')
  <1> DEFINE c == LineCore(i, o, st)
             x == "closed"
             n == TimerTo(m, x)
             k == uv_mbed_release(n)
  <1>0. LiveConn(m, 0, 0) /\ Handles(m) /\ m \in Connection /\ Unused(o)
        /\ Settled(i, o, st, e) /\ Connected(st, i, e, m)
    BY RunningFacts
  <1>1. IsCore(c) /\ t = State(c, e, m) /\ Tls(t) = m
    BY LineFacts
  <1>2. m.timer = "closing" /\ t' = WithTls(t, k)
    BY <1>1 DEF connect_timeout_close_cb, TimerTo
  <1>3. LiveConn(n, 0, 1)
    <2> HIDE DEF n
    <2> QED BY <1>0, <1>2, LTimerClosed DEF n
  <1>4. SameConn(n, k) /\ LiveConn(k, 0, 1 - 1)
    <2> HIDE DEF n, k
    <2> QED BY <1>3, LiveConnMbed DEF k
  <1>5. 1 - 1 = 0 /\ x \in TimerStates
    BY DEF TimerStates
  <1> HIDE DEF x
  <1>6. /\ n \in Connection /\ n.ctx = m.ctx /\ n.cref = m.cref /\ n.cfreed = m.cfreed
        /\ n.ref = m.ref /\ n.freed = m.freed /\ n.mref = m.mref /\ n.mfreed = m.mfreed
        /\ n.connect_cb = m.connect_cb /\ n.on_shutting_down = m.on_shutting_down
        /\ n.dns = m.dns /\ n.sock = m.sock /\ n.close_cb = m.close_cb
        /\ n.connecting = m.connecting /\ n.timer = x /\ n.reading = m.reading
        /\ n.writable = m.writable /\ n.writes = m.writes /\ n.shutting = m.shutting
        /\ n.handshake = m.handshake /\ n.left = m.left
    <2> HIDE DEF n
    <2> QED BY <1>0, <1>5, ConnTimerTo DEF n
  <1> HIDE DEF k
  <1>7. LiveConn(k, 0, 0)
    BY <1>4, <1>5
  <1>8. ~Connecting(m)
    BY <1>0, <1>2 DEF Connecting, Handles
  <1> HIDE DEF n
  <1>9. Connected(st, i, e, n)
    BY <1>0, <1>6, <1>8, ConnectedKept
  <1>10. Connected(st, i, e, k)
    BY <1>4, <1>9, SameConnected
  <1>11. Good(Line(i, o, st, e, k))
    BY <1>0, <1>7, <1>10, LineGood
  <1>12. WithTls(t, k) = State(c, e, k)
    BY <1>1, StateTls
  <1>13. State(c, e, k) = Line(i, o, st, e, k)
    BY LineFacts
  <1> QED BY <1>2, <1>11, <1>12, <1>13


-----------------------------------------------------------------------------
(* What the application sent, and what was passed on. *)

LEMMA AppsFacts ==
    ASSUME NEW n \in 0 .. MaxData
    PROVE  /\ Apps(n) \in Seq(Items) /\ Len(Apps(n)) = n
           /\ \A j \in 1 .. n : Apps(n)[j] = AppData(j)
  <1>0. MaxData \in Nat
    BY MaxDataAssumption
  <1>1. \A j \in 1 .. n : AppData(j) \in Items
    BY <1>0, AppItems
  <1>2. Apps(n) = [j \in 1 .. n |-> AppData(j)]
    BY DEF Apps, Numbered
  <1> HIDE DEF Apps
  <1> QED BY <1>1, <1>2

LEMMA Assoc ==
    ASSUME NEW p \in Seq(Items), NEW q \in Seq(Items), NEW r \in Seq(Items)
    PROVE  (p \o q) \o r = p \o (q \o r) /\ p \o <<>> = p /\ <<>> \o p = p
  <1> DEFINE x == (p \o q) \o r
             y == p \o (q \o r)
  <1>1. x \in Seq(Items) /\ y \in Seq(Items) /\ Len(x) = Len(y)
    OBVIOUS
  <1>2. \A j \in 1 .. Len(x) : x[j] = y[j]
    OBVIOUS
  <1>0. p \o <<>> = p /\ <<>> \o p = p
    BY ConcatEmptySeq
  <1> HIDE DEF x, y
  <1>3. x = y
    BY <1>1, <1>2, SeqEqual
  <1> QED BY <1>0, <1>3 DEF x, y

LEMMA AppendConcat ==
    ASSUME NEW p \in Seq(Items), NEW x \in Items
    PROVE  Append(p, x) = p \o <<x>> /\ Append(p, x) \in Seq(Items) /\ <<x>> \in Seq(Items)
  <1> DEFINE a == Append(p, x)
             b == p \o <<x>>
  <1>1. a \in Seq(Items) /\ b \in Seq(Items) /\ Len(a) = Len(b) /\ <<x>> \in Seq(Items)
    OBVIOUS
  <1>2. \A j \in 1 .. Len(a) : a[j] = b[j]
    OBVIOUS
  <1> HIDE DEF a, b
  <1>3. a = b
    BY <1>1, <1>2, SeqEqual
  <1> QED BY <1>1, <1>3 DEF a, b

LEMMA HeadTail ==
    ASSUME NEW p \in Seq(Items), p # <<>>
    PROVE  /\ Head(p) \in Items /\ Tail(p) \in Seq(Items) /\ <<Head(p)>> \in Seq(Items)
           /\ <<Head(p)>> \o Tail(p) = p
  <1> DEFINE h == Head(p)
             r == Tail(p)
             b == <<h>> \o r
  <1>0. Len(p) \in Nat /\ Len(p) > 0
    BY EmptySeq
  <1>1. h \in Items /\ r \in Seq(Items) /\ Len(r) = Len(p) - 1 /\ h = p[1]
        /\ \A j \in 1 .. Len(p) - 1 : r[j] = p[j + 1]
    BY <1>0
  <1> HIDE DEF h, r
  <1>2. b \in Seq(Items) /\ Len(b) = Len(p) /\ <<h>> \in Seq(Items) /\ b[1] = h
        /\ \A j \in 2 .. Len(p) : b[j] = r[j - 1]
    BY <1>0, <1>1
  <1> HIDE DEF b
  <1>3. \A j \in 1 .. Len(p) : b[j] = p[j]
    BY <1>0, <1>1, <1>2
  <1>4. b = p
    BY <1>2, <1>3, SeqEqual
  <1> QED BY <1>1, <1>2, <1>4 DEF h, r, b

LEMMA AppsStep ==
    /\ Apps(0) = <<>> /\ <<>> \in Seq(Items) /\ Address \in Items
    /\ \A n \in 0 .. MaxData : n > 0 => Apps(n) # <<>>
    /\ \A n \in 0 .. MaxData : n + 1 \in 1 .. MaxData =>
          Apps(n) \o <<AppData(n + 1)>> = Apps(n + 1)
  <1>0. MaxData \in Nat /\ 0 \in 0 .. MaxData
    BY MaxDataAssumption
  <1>1. Apps(0) = <<>>
    BY <1>0, AppsFacts, EmptySeq
  <1>2. \A n \in 0 .. MaxData : n > 0 => Apps(n) # <<>>
    <2> TAKE n \in 0 .. MaxData
    <2>1. Len(Apps(n)) = n
      BY AppsFacts
    <2>2. Len(<<>>) = 0
      OBVIOUS
    <2> QED BY <2>1, <2>2
  <1>3. ASSUME NEW n \in 0 .. MaxData, n + 1 \in 1 .. MaxData
        PROVE  Apps(n) \o <<AppData(n + 1)>> = Apps(n + 1)
    <2> DEFINE p == Apps(n)
               k == n + 1
               q == Apps(k)
               a == AppData(k)
               b == p \o <<a>>
    <2>0. k \in 0 .. MaxData /\ k \in 1 .. k /\ n \in Nat
      BY <1>0, <1>3
    <2>1. p \in Seq(Items) /\ Len(p) = n /\ \A j \in 1 .. n : p[j] = AppData(j)
      BY AppsFacts
    <2>2. q \in Seq(Items) /\ Len(q) = k /\ \A j \in 1 .. k : q[j] = AppData(j)
      <3> HIDE DEF k
      <3> QED BY <2>0, AppsFacts
    <2>3. a \in Items
      <3> HIDE DEF k
      <3> QED BY <1>3, AppItems DEF k
    <2>4. q[k] = a
      BY <2>0, <2>2
    <2> HIDE DEF p, q, a
    <2>5. b \in Seq(Items) /\ Len(b) = k /\ b[k] = a /\ \A j \in 1 .. n : b[j] = p[j]
      BY <2>0, <2>1, <2>3
    <2>6. \A j \in 1 .. k : j \in 1 .. n \/ j = k
      BY <2>0
    <2> HIDE DEF b
    <2>7. \A j \in 1 .. Len(b) : b[j] = q[j]
      BY <2>0, <2>1, <2>2, <2>4, <2>5, <2>6
    <2>8. b = q
      BY <2>2, <2>5, <2>7, SeqEqual
    <2> QED BY <2>8 DEF b, p, q, a
  <1>4. Address \in Items
    BY DEF Items
  <1> QED BY <1>1, <1>2, <1>3, <1>4

LEMMA DownKept ==
    ASSUME NEW e \in Extra, NEW f \in Extra, f.sent["incoming"] = e.sent["incoming"],
           f.half = e.half, f.got = e.got
    PROVE  Down(e) => Down(f)
  BY DEF Down

LEMMA FreshKept ==
    ASSUME NEW e \in Extra, NEW f \in Extra, f.sent["incoming"] = e.sent["incoming"],
           f.half = e.half, f.got = e.got, f.bad = e.bad, f.eof = e.eof
    PROVE  Fresh(e) => Fresh(f)
  <1>1. Down(e) => Down(f)
    BY DownKept
  <1> QED BY <1>1 DEF Fresh

\* The request to upgrade takes the first datagram or the address.
Request(e) ==
    IF e.deque # <<>> THEN SaidOut(DequeTo(e, Tail(e.deque)), <<Head(e.deque)>>)
                      ELSE SaidOut(e, <<Address>>)

LEMMA RequestAsked ==
    ASSUME NEW e, Stored(e)
    PROVE  Asked(Request(e))
  <1>0. e \in Extra /\ Fresh(e) /\ e.sent["outgoing"] = <<>>
    BY DEF Stored, Fresh
  <1>1. e.deque \in Seq(Items) /\ e.app \in 0 .. MaxData /\ e.udp \in BOOLEAN
    BY <1>0, ExtraFields
  <1>2. CASE e.udp
    <2> DEFINE d == e.deque
               h == <<Head(d)>>
               y == Tail(d)
               g == DequeTo(e, y)
               f == SaidOut(g, h)
    <2>1. e.first = <<>> /\ d = Apps(e.app) /\ e.app > 0
      BY <1>2 DEF Stored
    <2>2. d # <<>>
      BY <1>1, <2>1, AppsStep
    <2>3. y \in Seq(Items) /\ h \in Seq(Items) /\ h \o y = d
      BY <1>1, <2>2, HeadTail
    <2>4. Request(e) = f
      BY <2>2 DEF Request
    <2> HIDE DEF y, h
    <2>5. /\ g \in Extra /\ g.first = e.first /\ g.app = e.app /\ g.sent = e.sent
          /\ g.bad = e.bad /\ g.udp = e.udp /\ g.deque = y /\ g.half = e.half
          /\ g.eof = e.eof /\ g.got = e.got
      BY <1>0, <2>3, ExtraDeque
    <2> HIDE DEF g
    <2>6. /\ f \in Extra /\ f.first = g.first /\ f.app = g.app /\ f.bad = g.bad
          /\ f.udp = g.udp /\ f.deque = g.deque /\ f.half = g.half /\ f.eof = g.eof
          /\ f.got = g.got
      <3> HIDE DEF f
      <3> QED BY <2>3, <2>5, SaidFacts DEF f
    <2>7. /\ f.sent["outgoing"] = g.sent["outgoing"] \o h
          /\ f.sent["incoming"] = g.sent["incoming"]
      <3> HIDE DEF f
      <3> QED BY <2>3, <2>5, SaidFacts DEF f
    <2> HIDE DEF f, d
    <2>8. f.sent["outgoing"] = h
      <3>1. g.sent["outgoing"] = <<>>
        BY <1>0, <2>5
      <3>2. <<>> \o h = h
        BY <2>3, Assoc
      <3> QED BY <2>7, <3>1, <3>2
    <2>9. Fresh(f)
      BY <1>0, <2>5, <2>6, <2>7, FreshKept
    <2> QED BY <1>2, <2>1, <2>3, <2>4, <2>5, <2>6, <2>8, <2>9 DEF Asked
  <1>3. CASE ~e.udp
    <2> DEFINE h == <<Address>>
               f == SaidOut(e, h)
    <2>1. e.deque = <<>> /\ e.first = Apps(e.app)
      BY <1>3 DEF Stored
    <2>2. Request(e) = f
      BY <2>1 DEF Request
    <2>3. h \in Seq(Items) /\ h = <<Address>>
      BY AppsStep
    <2> HIDE DEF h
    <2>4. /\ f \in Extra /\ f.first = e.first /\ f.app = e.app /\ f.bad = e.bad
          /\ f.udp = e.udp /\ f.deque = e.deque /\ f.half = e.half /\ f.eof = e.eof
          /\ f.got = e.got
      <3> HIDE DEF f
      <3> QED BY <1>0, <2>3, SaidFacts DEF f
    <2>5. /\ f.sent["outgoing"] = e.sent["outgoing"] \o h
          /\ f.sent["incoming"] = e.sent["incoming"]
      <3> HIDE DEF f
      <3> QED BY <1>0, <2>3, SaidFacts DEF f
    <2> HIDE DEF f
    <2>6. f.sent["outgoing"] = h
      <3>1. <<>> \o h = h
        BY <2>3, Assoc
      <3> QED BY <1>0, <2>5, <3>1
    <2>7. Fresh(f)
      BY <1>0, <2>4, <2>5, FreshKept
    <2> QED BY <1>3, <2>1, <2>2, <2>3, <2>4, <2>6, <2>7 DEF Asked
  <1> QED BY <1>1, <1>2, <1>3

\* The datagrams that waited for the upgrade go out together.
Flushed(e) == DequeTo(SaidOut(e, e.deque), <<>>)

LEMMA FlushedFlows ==
    ASSUME NEW e, Asked(e), e.udp
    PROVE  Flows(Flushed(e)) /\ Flushed(e).udp = e.udp
  <1> DEFINE d == e.deque
             g == SaidOut(e, d)
             y == <<>>
             f == DequeTo(g, y)
  <1>0. e \in Extra /\ Fresh(e) /\ e.first = <<>> /\ e.sent["outgoing"] \o d = Apps(e.app)
    BY DEF Asked, Fresh
  <1>1. d \in Seq(Items) /\ y \in Seq(Items)
    BY <1>0, ExtraFields
  <1>9. Flushed(e) = f /\ y = <<>>
    BY DEF Flushed
  <1> HIDE DEF d, y
  <1>2. /\ g \in Extra /\ g.first = e.first /\ g.app = e.app /\ g.bad = e.bad
        /\ g.udp = e.udp /\ g.half = e.half /\ g.eof = e.eof
        /\ g.got = e.got
    <2> HIDE DEF g
    <2> QED BY <1>0, <1>1, SaidFacts DEF g
  <1>3. /\ g.sent["outgoing"] = e.sent["outgoing"] \o d
        /\ g.sent["incoming"] = e.sent["incoming"]
    <2> HIDE DEF g
    <2> QED BY <1>0, <1>1, SaidFacts DEF g
  <1> HIDE DEF g
  <1>4. /\ f \in Extra /\ f.first = g.first /\ f.app = g.app /\ f.sent = g.sent
        /\ f.bad = g.bad /\ f.udp = g.udp /\ f.deque = y /\ f.half = g.half
        /\ f.eof = g.eof /\ f.got = g.got
    BY <1>1, <1>2, ExtraDeque
  <1> HIDE DEF f
  <1>5. Fresh(f)
    BY <1>0, <1>2, <1>3, <1>4, FreshKept
  <1>6. f.bad = {} /\ Down(f)
    BY <1>5 DEF Fresh
  <1> QED BY <1>0, <1>2, <1>3, <1>4, <1>6, <1>9 DEF Flows

\* The first packet goes out behind the address.
Launched(e) == SaidOut(FirstTo(e, <<>>), e.first)

LEMMA LaunchedFlows ==
    ASSUME NEW e, Asked(e), ~e.udp
    PROVE  Flows(Launched(e)) /\ Launched(e).udp = e.udp
  <1> DEFINE d == e.first
             y == <<>>
             g == FirstTo(e, y)
             f == SaidOut(g, d)
  <1>0. e \in Extra /\ Fresh(e) /\ e.deque = <<>> /\ d = Apps(e.app)
        /\ e.sent["outgoing"] = <<Address>>
    BY DEF Asked, Fresh
  <1>1. d \in Seq(Items) /\ y \in Seq(Items)
    BY <1>0, ExtraFields
  <1>9. Launched(e) = f /\ y = <<>>
    BY DEF Launched
  <1> HIDE DEF d, y
  <1>2. /\ g \in Extra /\ g.first = y /\ g.app = e.app /\ g.bad = e.bad
        /\ g.udp = e.udp /\ g.half = e.half /\ g.eof = e.eof
        /\ g.got = e.got /\ g.deque = e.deque /\ g.sent = e.sent
    BY <1>0, <1>1, ExtraFirst
  <1> HIDE DEF g
  <1>3. /\ f \in Extra /\ f.first = g.first /\ f.app = g.app
        /\ f.bad = g.bad /\ f.udp = g.udp /\ f.deque = g.deque /\ f.half = g.half
        /\ f.eof = g.eof /\ f.got = g.got
    <2> HIDE DEF f
    <2> QED BY <1>1, <1>2, SaidFacts DEF f
  <1>4. /\ f.sent["outgoing"] = g.sent["outgoing"] \o d
        /\ f.sent["incoming"] = g.sent["incoming"]
    <2> HIDE DEF f
    <2> QED BY <1>1, <1>2, SaidFacts DEF f
  <1> HIDE DEF f
  <1>5. Fresh(f)
    BY <1>0, <1>2, <1>3, <1>4, FreshKept
  <1>6. f.bad = {} /\ Down(f)
    BY <1>5 DEF Fresh
  <1> QED BY <1>0, <1>2, <1>3, <1>4, <1>6, <1>9 DEF Flows

\* Another packet of the application: sent, or queued.
Carried(e) == SaidOut(AppTo(e, e.app + 1), <<AppData(e.app + 1)>>)
Queued(e) == DequeTo(AppTo(e, e.app + 1), Append(e.deque, AppData(e.app + 1)))

LEMMA CarriedFlows ==
    ASSUME NEW e, Flows(e), e.app + 1 \in 1 .. MaxData
    PROVE  /\ Flows(Carried(e)) /\ AppTo(e, e.app + 1) \in Extra
           /\ Carried(e).udp = e.udp
  <1> DEFINE k == e.app + 1
             p == <<AppData(k)>>
             g == AppTo(e, k)
             f == SaidOut(g, p)
             s == e.sent["outgoing"]
  <1>0. e \in Extra /\ e.first = <<>> /\ e.deque = <<>> /\ e.bad = {} /\ Down(e)
    BY DEF Flows
  <1>1. k \in 0 .. MaxData /\ p \in Seq(Items) /\ e.app \in 0 .. MaxData /\ s \in Seq(Items)
    <2>1. k \in 1 .. MaxData
      OBVIOUS
    <2>2. p \in Seq(Items)
      <3> HIDE DEF k
      <3> QED BY <2>1, AppItems
    <2> QED BY <1>0, <2>1, <2>2, ExtraFields
  <1>2. Carried(e) = f
    BY DEF Carried
  <1>3. Apps(e.app) \o p = Apps(k)
    BY <1>1, AppsStep
  <1> HIDE DEF k, p
  <1>4. /\ g \in Extra /\ g.first = e.first /\ g.app = k /\ g.sent = e.sent
        /\ g.bad = e.bad /\ g.udp = e.udp /\ g.deque = e.deque /\ g.half = e.half
        /\ g.eof = e.eof /\ g.got = e.got
    BY <1>0, <1>1, ExtraApp
  <1>10. AppTo(e, e.app + 1) \in Extra
    BY <1>4 DEF k
  <1> HIDE DEF g
  <1>5. /\ f \in Extra /\ f.first = g.first /\ f.app = g.app
        /\ f.bad = g.bad /\ f.udp = g.udp /\ f.deque = g.deque /\ f.half = g.half
        /\ f.eof = g.eof /\ f.got = g.got
    <2> HIDE DEF f
    <2> QED BY <1>1, <1>4, SaidFacts DEF f
  <1>6. /\ f.sent["outgoing"] = g.sent["outgoing"] \o p
        /\ f.sent["incoming"] = g.sent["incoming"]
    <2> HIDE DEF f
    <2> QED BY <1>1, <1>4, SaidFacts DEF f
  <1> HIDE DEF f
  <1>7. Down(f)
    BY <1>0, <1>4, <1>5, <1>6, DownKept
  <1>8. CASE e.udp /\ s = Apps(e.app)
    BY <1>0, <1>2, <1>3, <1>4, <1>5, <1>6, <1>7, <1>8, <1>10 DEF Flows
  <1>9. CASE ~e.udp /\ s = <<Address>> \o Apps(e.app)
    <2>1. <<Address>> \in Seq(Items) /\ Apps(e.app) \in Seq(Items)
      BY <1>1, AppsStep, AppsFacts
    <2>2. s \o p = <<Address>> \o Apps(k)
      <3> DEFINE z == <<Address>>
                 w == Apps(e.app)
      <3>1. z \in Seq(Items) /\ w \in Seq(Items) /\ s = z \o w /\ w \o p = Apps(k)
        BY <1>3, <1>9, <2>1
      <3> HIDE DEF z, w
      <3>2. (z \o w) \o p = z \o (w \o p)
        BY <1>1, <3>1, Assoc
      <3>3. s \o p = z \o Apps(k)
        BY <3>1, <3>2
      <3> QED BY <3>3 DEF z
    <2> QED BY <1>0, <1>2, <1>4, <1>5, <1>6, <1>7, <1>9, <1>10, <2>2 DEF Flows
  <1> QED BY <1>8, <1>9 DEF Flows

LEMMA QueuedKept ==
    ASSUME NEW e, Stored(e) \/ Asked(e), e.udp, e.app + 1 \in 1 .. MaxData
    PROVE  /\ (Stored(e) => Stored(Queued(e))) /\ (Asked(e) => Asked(Queued(e)))
           /\ Queued(e).udp = e.udp
  <1> DEFINE k == e.app + 1
             a == AppData(k)
             p == <<a>>
             g == AppTo(e, k)
             d == Append(e.deque, a)
             f == DequeTo(g, d)
             s == e.sent["outgoing"]
  <1>0. e \in Extra /\ e.first = <<>> /\ Fresh(e)
    BY DEF Stored, Asked, Fresh
  <1>1. k \in 0 .. MaxData /\ k > 0 /\ a \in Items /\ p \in Seq(Items) /\ e.app \in 0 .. MaxData
        /\ s \in Seq(Items) /\ e.deque \in Seq(Items)
    <2>1. k \in 1 .. MaxData
      OBVIOUS
    <2>2. p \in Seq(Items) /\ a \in Items
      <3> HIDE DEF k
      <3> QED BY <2>1, AppItems
    <2> QED BY <1>0, <2>1, <2>2, ExtraFields
  <1>2. Queued(e) = f
    BY DEF Queued
  <1>3. Apps(e.app) \o p = Apps(k)
    BY <1>1, AppsStep
  <1>4. d = e.deque \o p /\ d \in Seq(Items)
    <2> HIDE DEF a
    <2> QED BY <1>1, AppendConcat
  <1> HIDE DEF k, p, a, d
  <1>5. /\ g \in Extra /\ g.first = e.first /\ g.app = k /\ g.sent = e.sent
        /\ g.bad = e.bad /\ g.udp = e.udp /\ g.half = e.half
        /\ g.eof = e.eof /\ g.got = e.got
    BY <1>0, <1>1, ExtraApp
  <1> HIDE DEF g
  <1>6. /\ f \in Extra /\ f.first = g.first /\ f.app = g.app /\ f.sent = g.sent
        /\ f.bad = g.bad /\ f.udp = g.udp /\ f.deque = d /\ f.half = g.half
        /\ f.eof = g.eof /\ f.got = g.got
    BY <1>4, <1>5, ExtraDeque
  <1> HIDE DEF f
  <1>7. Fresh(f)
    BY <1>0, <1>5, <1>6, FreshKept
  <1>8. ASSUME Stored(e) PROVE Stored(f)
    <2>1. e.deque = Apps(e.app) /\ s = <<>>
      BY <1>8 DEF Stored
    <2>2. d = Apps(k)
      BY <1>3, <1>4, <2>1
    <2> QED BY <1>0, <1>1, <1>5, <1>6, <1>7, <2>1, <2>2 DEF Stored
  <1>9. ASSUME Asked(e) PROVE Asked(f)
    <2>1. s \o e.deque = Apps(e.app)
      BY <1>9 DEF Asked
    <2>2. s \o d = Apps(k)
      <3>1. (s \o e.deque) \o p = s \o (e.deque \o p)
        BY <1>1, Assoc
      <3> QED BY <1>3, <1>4, <2>1, <3>1
    <2> QED BY <1>0, <1>5, <1>6, <1>7, <2>2 DEF Asked
  <1> QED BY <1>2, <1>5, <1>6, <1>8, <1>9


-----------------------------------------------------------------------------
(* What the handlers make of a live tunnel that has a connection. *)

LEMMA LineOps ==
    ASSUME NEW i, NEW o, NEW st, NEW e \in Extra, NEW m, NEW y
    PROVE  /\ GoTo(Line(i, o, st, e, m), y) = Line(i, o, y, e, m)
           /\ WithTls(Line(i, o, st, e, m), y) = Line(i, o, st, e, y)
           /\ WithFirst(Line(i, o, st, e, m), y) = Line(i, o, st, FirstTo(e, y), m)
           /\ WithApp(Line(i, o, st, e, m), y) = Line(i, o, st, AppTo(e, y), m)
           /\ WithSent(Line(i, o, st, e, m), y) = Line(i, o, st, SentTo(e, y), m)
           /\ WithDeque(Line(i, o, st, e, m), y) = Line(i, o, st, DequeTo(e, y), m)
           /\ WithHalf(Line(i, o, st, e, m), y) = Line(i, o, st, HalfTo(e, y), m)
           /\ WithEof(Line(i, o, st, e, m), y) = Line(i, o, st, EofTo(e, y), m)
           /\ WithGot(Line(i, o, st, e, m), y) = Line(i, o, st, GotTo(e, y), m)
  <1> DEFINE h == TRUE
  <1>1. h \in BOOLEAN
    OBVIOUS
  <1>2. \A a, b, f, k : Line(i, o, a, f, k) = Live(i, o, a, h, f, k)
    BY DEF Line
  <1> HIDE DEF h
  <1>3. GoTo(Live(i, o, st, h, e, m), y) = Live(i, o, y, h, e, m)
    BY <1>1, LiveGoTo
  <1>4. LET u == Live(i, o, st, h, e, m)
        IN  /\ WithTls(u, y) = Live(i, o, st, h, e, y)
            /\ WithFirst(u, y) = Live(i, o, st, h, FirstTo(e, y), m)
            /\ WithApp(u, y) = Live(i, o, st, h, AppTo(e, y), m)
            /\ WithSent(u, y) = Live(i, o, st, h, SentTo(e, y), m)
            /\ WithDeque(u, y) = Live(i, o, st, h, DequeTo(e, y), m)
            /\ WithHalf(u, y) = Live(i, o, st, h, HalfTo(e, y), m)
            /\ WithEof(u, y) = Live(i, o, st, h, EofTo(e, y), m)
            /\ WithGot(u, y) = Live(i, o, st, h, GotTo(e, y), m)
    BY <1>1, LiveData
  <1> QED BY <1>2, <1>3, <1>4

LEMMA LineData ==
    ASSUME NEW i, NEW o, NEW st, NEW e, NEW m, NEW u, u = Line(i, o, st, e, m)
    PROVE  /\ u.data.shortcut = e.shortcut /\ u.data.first = e.first
           /\ u.data.app = e.app /\ u.data.sent = e.sent /\ u.data.bad = e.bad
           /\ u.data.udp = e.udp /\ u.data.deque = e.deque /\ u.data.half = e.half
           /\ u.data.eof = e.eof /\ u.data.got = e.got
           /\ u.sock["incoming"] = i /\ u.sock["outgoing"] = o
  <1> DEFINE h == TRUE
  <1>1. h \in BOOLEAN /\ u = Live(i, o, st, h, e, m)
    BY DEF Line
  <1> HIDE DEF h
  <1>2. u.sock["incoming"] = i /\ u.sock["outgoing"] = o
    BY <1>1, LiveFields
  <1>3. /\ u.data.shortcut = e.shortcut /\ u.data.first = e.first
        /\ u.data.app = e.app /\ u.data.sent = e.sent /\ u.data.bad = e.bad
        /\ u.data.udp = e.udp /\ u.data.deque = e.deque /\ u.data.half = e.half
        /\ u.data.eof = e.eof /\ u.data.got = e.got
    BY <1>1, LiveExtra
  <1> QED BY <1>2, <1>3

LEMMA LineIdle ==
    ASSUME NEW i, NEW o, NEW st, NEW e, NEW m, AtRest(i), AtRest(o), NEW S \in SUBSET Side
    PROVE  Idle(Line(i, o, st, e, m), S) = Line(i, o, st, e, m)
  <1> DEFINE h == TRUE
  <1>1. h \in BOOLEAN /\ Line(i, o, st, e, m) = Live(i, o, st, h, e, m)
    BY DEF Line
  <1> HIDE DEF h
  <1> QED BY <1>1, LiveIdle

LEMMA LineSend ==
    ASSUME NEW i, NEW o, NEW st, NEW e \in Extra, NEW m, NEW items
    PROVE  m.writable => tls_client_send_data(Line(i, o, st, e, m), items)
                           = Line(i, o, st, SaidOut(e, items), SendOn(m, items))
  <1> DEFINE c == LineCore(i, o, st)
             f == SaidOut(e, items)
             n == SendOn(m, items)
  <1>1. IsCore(c) /\ Line(i, o, st, e, m) = State(c, e, m)
    BY LineFacts
  <1>2. Line(i, o, st, f, n) = State(c, f, n)
    <2> HIDE DEF f, n
    <2> QED BY LineFacts
  <1>3. m.writable => tls_client_send_data(State(c, e, m), items) = State(c, f, n)
    <2> HIDE DEF c
    <2> QED BY <1>1, FormSend
  <1> HIDE DEF c, f, n
  <1> QED BY <1>1, <1>2, <1>3 DEF f, n

LEMMA RestFacts ==
    ASSUME NEW i, NEW o, NEW e, Unused(o), Waits(i, e)
    PROVE  AtRest(i) /\ AtRest(o)
  BY DEF AtRest, Waits, Unused, Quiet, Sock

\* Sending keeps what the stages ask of the connection.
LEMMA SendOpened ==
    ASSUME NEW m \in Connection, NEW items \in Seq(Items), NEW n, n = SendOn(m, items)
    PROVE  Opened(m) => Opened(n)
  <1> DEFINE r == m.ref + Len(items)
             q == m.writes \o Sent(items)
  <1>1. m.ref \in Nat /\ m.writes \in Seq(WriteKinds)
    BY ConnFields
  <1>2. r \in Nat /\ q \in Seq(WriteKinds)
    BY <1>1, DataMore
  <1>3. n = SendTo(m, r, q)
    BY DEF SendOn
  <1> HIDE DEF r, q
  <1>4. /\ n \in Connection /\ n.ctx = m.ctx /\ n.cref = m.cref /\ n.cfreed = m.cfreed
        /\ n.ref = r /\ n.freed = m.freed /\ n.mref = m.mref /\ n.mfreed = m.mfreed
        /\ n.connect_cb = m.connect_cb /\ n.on_shutting_down = m.on_shutting_down
        /\ n.dns = m.dns /\ n.sock = m.sock /\ n.close_cb = m.close_cb
        /\ n.connecting = m.connecting /\ n.timer = m.timer /\ n.reading = m.reading
        /\ n.writable = m.writable /\ n.writes = q /\ n.shutting = m.shutting
        /\ n.handshake = m.handshake /\ n.left = m.left
    BY <1>2, <1>3, ConnSendTo
  <1> QED BY <1>4 DEF Opened

LEMMA SameOpened ==
    ASSUME NEW m, NEW n, SameConn(m, n), Opened(m)
    PROVE  Opened(n)
  BY DEF Opened, SameConn

FirstOf(e) == IF e.deque # <<>> THEN <<Head(e.deque)>> ELSE <<Address>>

LEMMA FirstItems ==
    ASSUME NEW e \in Extra
    PROVE  /\ FirstOf(e) \in Seq(Items)
           /\ e.deque # <<>> => /\ Request(e) = SaidOut(DequeTo(e, Tail(e.deque)), FirstOf(e))
                                /\ DequeTo(e, Tail(e.deque)) \in Extra
           /\ e.deque = <<>> => Request(e) = SaidOut(e, FirstOf(e))
  <1>1. e.deque \in Seq(Items)
    BY ExtraFields
  <1>2. FirstOf(e) \in Seq(Items)
    BY <1>1, HeadTail, AppsStep DEF FirstOf
  <1>3. ASSUME e.deque # <<>> PROVE DequeTo(e, Tail(e.deque)) \in Extra
    <2> DEFINE y == Tail(e.deque)
    <2>1. y \in Seq(Items)
      BY <1>1, <1>3, HeadTail
    <2> HIDE DEF y
    <2>2. DequeTo(e, y) \in Extra
      BY <2>1, ExtraDeque
    <2> QED BY <2>2 DEF y
  <1> QED BY <1>2, <1>3 DEF FirstOf, Request

LEMMA LineOpened ==
    ASSUME NEW i, NEW o, NEW st, NEW e, NEW m, Unused(o), Waits(i, e), Stored(e),
           LiveConn(m, 1, 1), Opened(m)
    PROVE  Good(Returned(tls_cli_on_connection_established(Line(i, o, st, e, m), "ok")))
  <1> DEFINE u == Line(i, o, st, e, m)
             p == FirstOf(e)
             y == Tail(e.deque)
             f == Request(e)
             n == SendOn(m, p)
             z == "tls_websocket_upgrade"
             v == Line(i, o, z, f, n)
             k == uv_mbed_release(tls_cli_ctx_release(n))
  <1>0. e \in Extra /\ m \in Connection /\ m.writable /\ p \in Seq(Items)
    <2>1. e \in Extra /\ m \in Connection /\ Handles(m)
      BY LiveConnFacts DEF Stored, Fresh
    <2> QED BY <2>1, FirstItems DEF Handles, Opened
  <1>1. ~u.is_terminated /\ u.data.deque = e.deque
    <2> HIDE DEF u
    <2> QED BY LineFacts, LineData DEF u
  <1>2. Idle(u, Side) = u
    <2>1. AtRest(i) /\ AtRest(o)
      BY RestFacts
    <2> QED BY <2>1, LineIdle
  <1>3. Asked(f)
    BY RequestAsked
  <1>4. f \in Extra
    BY <1>3 DEF Asked, Fresh
  <1>5. ASSUME e.deque # <<>> PROVE tls_cli_on_connection_established(u, "ok") = v
    <2> DEFINE g == DequeTo(e, y)
               b == Line(i, o, st, g, m)
    <2>1. g \in Extra /\ f = SaidOut(g, p) /\ p = <<Head(e.deque)>>
      BY <1>0, <1>5, FirstItems DEF FirstOf
    <2>2. [u EXCEPT !.data.deque = Tail(@)] = b
      <3>1. [u EXCEPT !.data.deque = Tail(@)] = WithDeque(u, y)
        <4> HIDE DEF u
        <4> QED BY <1>1 DEF WithDeque
      <3>2. WithDeque(u, y) = b
        <4> HIDE DEF y
        <4> QED BY <1>0, LineOps
      <3> HIDE DEF u, b
      <3> QED BY <3>1, <3>2
    <2>3. tls_client_send_data(b, p) = Line(i, o, st, SaidOut(g, p), n)
      <3> HIDE DEF g, p
      <3> QED BY <1>0, <2>1, LineSend
    <2>4. tls_cli_on_connection_established(u, "ok") = GoTo(tls_client_send_data(b, p), z)
      <3> HIDE DEF u, b
      <3> QED BY <1>1, <1>2, <1>5, <2>1, <2>2 DEF tls_cli_on_connection_established
    <2> HIDE DEF u, b, g, f, p, y, n, z
    <2>5. GoTo(Line(i, o, st, f, n), z) = v
      BY <1>4, LineOps
    <2>6. tls_cli_on_connection_established(u, "ok") = v
      <3> HIDE DEF v
      <3> QED BY <2>1, <2>3, <2>4, <2>5
    <2> QED BY <2>6
  <1>6. ASSUME e.deque = <<>> PROVE tls_cli_on_connection_established(u, "ok") = v
    <2>1. f = SaidOut(e, p) /\ p = <<Address>>
      BY <1>0, <1>6, FirstItems DEF FirstOf
    <2>2. tls_client_send_data(u, p) = Line(i, o, st, SaidOut(e, p), n)
      <3> HIDE DEF p
      <3> QED BY <1>0, LineSend
    <2>3. tls_cli_on_connection_established(u, "ok") = GoTo(tls_client_send_data(u, p), z)
      <3> HIDE DEF u
      <3> QED BY <1>1, <1>2, <1>6, <2>1 DEF tls_cli_on_connection_established
    <2> HIDE DEF u, f, p, n, z
    <2>4. GoTo(Line(i, o, st, f, n), z) = v
      BY <1>4, LineOps
    <2>5. tls_cli_on_connection_established(u, "ok") = v
      <3> HIDE DEF v
      <3> QED BY <2>1, <2>2, <2>3, <2>4
    <2> QED BY <2>5
  <1>7. tls_cli_on_connection_established(u, "ok") = v
    <2> HIDE DEF u, v
    <2> QED BY <1>5, <1>6
  <1>8. LiveConn(n, 1, 1)
    <2>1. 1 \in Nat
      OBVIOUS
    <2> HIDE DEF n, p
    <2> QED BY <1>0, <2>1, LSend DEF n
  <1>9. Opened(n)
    <2> HIDE DEF n, p
    <2> QED BY <1>0, SendOpened DEF n
  <1> HIDE DEF n, f
  <1>10. SameConn(n, k) /\ LiveConn(k, 0, 0)
    <2> HIDE DEF k
    <2> QED BY <1>8, LiveConnReturned DEF k
  <1>11. Returned(v) = Line(i, o, z, f, k)
    <2>1. Tls(v) = n
      BY LineFacts
    <2>2. Returned(v) = WithTls(v, k)
      <3> HIDE DEF v
      <3> QED BY <2>1 DEF Returned
    <2> HIDE DEF k, z
    <2> QED BY <1>4, <2>2, LineOps
  <1> HIDE DEF k
  <1>12. Connected(z, i, f, k)
    <2>1. Opened(k)
      BY <1>9, <1>10, SameOpened
    <2>2. Waits(i, f)
      <3>1. f.udp = e.udp
        <4>1. CASE e.deque # <<>>
          <5> DEFINE g == DequeTo(e, y)
          <5>1. g \in Extra /\ f = SaidOut(g, p) /\ y \in Seq(Items)
            <6>1. e.deque \in Seq(Items)
              BY <1>0, ExtraFields
            <6> QED BY <1>0, <4>1, <6>1, FirstItems, HeadTail DEF f
          <5> HIDE DEF y, p
          <5>2. g.udp = e.udp
            BY <1>0, <5>1, ExtraDeque
          <5> HIDE DEF g
          <5>3. f.udp = g.udp
            BY <1>0, <5>1, SaidFacts
          <5> QED BY <5>2, <5>3
        <4>2. CASE e.deque = <<>>
          <5>1. f = SaidOut(e, p)
            BY <1>0, <4>2, FirstItems DEF f
          <5> HIDE DEF p
          <5> QED BY <1>0, <5>1, SaidFacts
        <4> QED BY <4>1, <4>2
      <3> QED BY <3>1 DEF Waits
    <2> QED BY <1>3, <2>1, <2>2 DEF Connected
  <1>13. Good(Line(i, o, z, f, k))
    <2> HIDE DEF z
    <2> QED BY <1>10, <1>12, LineGood
  <1> HIDE DEF u, v
  <1> QED BY <1>7, <1>11, <1>13 DEF u

LEMMA LineHandshake ==
    ASSUME NEW i, NEW o, NEW st, NEW e, NEW m, Running(i, o, st, e, m),
           t = Line(i, o, st, e, m), mbed_continue_handshake
    PROVE  Good(t')
  <1> DEFINE c == LineCore(i, o, st)
             q == Append(m.writes, "handshake")
             flight == "flight"
             over == "over"
             failed == "failed"
             n == FlightTo(m, flight, q)
             k == ShakeTo(m, over)
             j == ShakeTo(m, failed)
  <1>0. LiveConn(m, 0, 0) /\ Handles(m) /\ m \in Connection /\ Unused(o)
        /\ Settled(i, o, st, e) /\ Connected(st, i, e, m)
    BY RunningFacts
  <1>1. IsCore(c) /\ t = State(c, e, m)
    BY LineFacts
  <1>2. /\ m.reading /\ m.handshake \in {"begun", "flight"}
        /\ \/ m.handshake = "begun" /\ t' = State(c, e, n)
           \/ t' = do_uv_mbeb_connect_cb(State(c, e, k), "ok")
           \/ t' = State(c, e, j)
    BY <1>1, FormHandshake
  <1>3. over \in ShakeStates /\ failed \in ShakeStates /\ flight \in ShakeStates
        /\ over \in {"over", "failed"} /\ over = "over" /\ failed = "failed" /\ flight = "flight"
        /\ failed \in {"over", "failed"} /\ over \notin {"begun", "flight"}
    BY DEF ShakeStates
  <1>4. st = "tls_connecting" /\ Waits(i, e) /\ Stored(e)
    BY <1>0, <1>2, ConnectedCases
  <1>5. m.connect_cb /\ m.sock = "connected" /\ ~m.dns /\ ~m.connecting
    BY <1>0, <1>2 DEF Handles
  <1>6. m.handshake = "begun" => LiveConn(n, 0, 0)
    <2> HIDE DEF n
    <2> QED BY <1>0, <1>2, LFlight DEF n
  <1>7. q \in Seq(WriteKinds)
    <2>1. m.writes \in Seq(WriteKinds)
      BY <1>0, LiveConnFacts
    <2> QED BY <2>1, DataOther
  <1> HIDE DEF over, failed, flight, q
  <1>8. LiveConn(k, 0, 0) /\ LiveConn(j, 0, 0)
    <2>1. LiveConn(k, 0, 0)
      <3> HIDE DEF k
      <3> QED BY <1>0, <1>3, LShake DEF k
    <2>2. LiveConn(j, 0, 0)
      <3> HIDE DEF j
      <3> QED BY <1>0, <1>3, LShake DEF j
    <2> QED BY <2>1, <2>2
  <1>9. CASE m.handshake = "begun" /\ t' = State(c, e, n)
    <2>1. /\ n \in Connection /\ n.ctx = m.ctx /\ n.cref = m.cref /\ n.cfreed = m.cfreed
          /\ n.ref = m.ref /\ n.freed = m.freed /\ n.mref = m.mref /\ n.mfreed = m.mfreed
          /\ n.connect_cb = m.connect_cb /\ n.on_shutting_down = m.on_shutting_down
          /\ n.dns = m.dns /\ n.sock = m.sock /\ n.close_cb = m.close_cb
          /\ n.connecting = m.connecting /\ n.timer = m.timer /\ n.reading = m.reading
          /\ n.writable = m.writable /\ n.writes = q /\ n.shutting = m.shutting
          /\ n.handshake = flight /\ n.left = m.left
      <3> HIDE DEF n
      <3> QED BY <1>0, <1>3, <1>7, ConnFlightTo DEF n
    <2> HIDE DEF n
    <2>2. Connected(st, i, e, n)
      BY <1>2, <1>3, <1>4, <1>5, <2>1 DEF Connected, Shaking
    <2>3. Good(Line(i, o, st, e, n))
      BY <1>0, <1>6, <1>9, <2>2, LineGood
    <2>4. State(c, e, n) = Line(i, o, st, e, n)
      BY LineFacts
    <2> QED BY <1>9, <2>3, <2>4
  <1>10. CASE t' = State(c, e, j)
    <2>1. /\ j \in Connection /\ j.ctx = m.ctx /\ j.cref = m.cref /\ j.cfreed = m.cfreed
          /\ j.ref = m.ref /\ j.freed = m.freed /\ j.mref = m.mref /\ j.mfreed = m.mfreed
          /\ j.connect_cb = m.connect_cb /\ j.on_shutting_down = m.on_shutting_down
          /\ j.dns = m.dns /\ j.sock = m.sock /\ j.close_cb = m.close_cb
          /\ j.connecting = m.connecting /\ j.timer = m.timer /\ j.reading = m.reading
          /\ j.writable = m.writable /\ j.writes = m.writes /\ j.shutting = m.shutting
          /\ j.handshake = failed /\ j.left = m.left
      <3> HIDE DEF j
      <3> QED BY <1>0, <1>3, ConnShakeTo DEF j
    <2> HIDE DEF j
    <2>2. Connected(st, i, e, j)
      BY <1>2, <1>3, <1>4, <1>5, <2>1 DEF Connected, Shaking
    <2>3. Good(Line(i, o, st, e, j))
      BY <1>0, <1>8, <2>2, LineGood
    <2>4. State(c, e, j) = Line(i, o, st, e, j)
      BY LineFacts
    <2> QED BY <1>10, <2>3, <2>4
  <1>11. CASE t' = do_uv_mbeb_connect_cb(State(c, e, k), "ok")
    <2>1. /\ k \in Connection /\ k.ctx = m.ctx /\ k.cref = m.cref /\ k.cfreed = m.cfreed
          /\ k.ref = m.ref /\ k.freed = m.freed /\ k.mref = m.mref /\ k.mfreed = m.mfreed
          /\ k.connect_cb = m.connect_cb /\ k.on_shutting_down = m.on_shutting_down
          /\ k.dns = m.dns /\ k.sock = m.sock /\ k.close_cb = m.close_cb
          /\ k.connecting = m.connecting /\ k.timer = m.timer /\ k.reading = m.reading
          /\ k.writable = m.writable /\ k.writes = m.writes /\ k.shutting = m.shutting
          /\ k.handshake = over /\ k.left = m.left
      <3> HIDE DEF k
      <3> QED BY <1>0, <1>3, ConnShakeTo DEF k
    <2> HIDE DEF k
    <2> DEFINE r == k.mref + 1
               w == CalledTo(k, r)
               a == State(c, e, w)
    <2>2. k.connect_cb /\ ~k.dns /\ ~k.connecting /\ k.handshake \notin {"begun", "flight"}
      BY <1>3, <1>5, <2>1
    <2>3. do_uv_mbeb_connect_cb(State(c, e, k), "ok")
            = Returned(tls_cli_on_connection_established(a, "ok"))
      <3> HIDE DEF c
      <3> QED BY <1>1, <2>2, FormConnect
    <2>4. LiveConn(w, 1, 1)
      <3> HIDE DEF w
      <3> QED BY <1>8, <2>2, LCalled DEF w
    <2>5. r \in Nat /\ k \in Connection
      BY <2>1, ConnFields
    <2> HIDE DEF r
    <2>6. /\ w \in Connection /\ w.ctx = k.ctx /\ w.cref = k.cref /\ w.cfreed = k.cfreed
          /\ w.ref = k.ref /\ w.freed = k.freed /\ w.mref = r /\ w.mfreed = k.mfreed
          /\ ~w.connect_cb /\ w.on_shutting_down = k.on_shutting_down /\ w.dns = k.dns
          /\ w.sock = k.sock /\ w.close_cb = k.close_cb /\ w.connecting = k.connecting
          /\ w.timer = k.timer /\ w.reading = k.reading /\ w.writable = k.writable
          /\ w.writes = k.writes /\ w.shutting = k.shutting /\ w.handshake = k.handshake
          /\ w.left = k.left
      <3> HIDE DEF w
      <3> QED BY <2>5, ConnCalledTo DEF w
    <2> HIDE DEF w
    <2>7. Opened(w)
      BY <1>2, <1>3, <1>5, <2>1, <2>6 DEF Opened
    <2>8. a = Line(i, o, st, e, w)
      BY LineFacts
    <2>9. Good(Returned(tls_cli_on_connection_established(Line(i, o, st, e, w), "ok")))
      BY <1>0, <1>4, <2>4, <2>7, LineOpened
    <2> HIDE DEF a
    <2> QED BY <1>11, <2>3, <2>8, <2>9
  <1> HIDE DEF n, k, j
  <1> QED BY <1>2, <1>9, <1>10, <1>11


-----------------------------------------------------------------------------
(* The answer to the upgrade. *)

LEMMA LineRead ==
    ASSUME NEW i, NEW o, NEW st, NEW e, NEW m, NEW b, CanRead(i)
    PROVE  Read(Line(i, o, st, e, m), "incoming", b) = Line(socket_ctx_read(i, b), o, st, e, m)
  <1> DEFINE h == TRUE
             k == socket_ctx_read(i, b)
  <1>1. h \in BOOLEAN /\ Line(i, o, st, e, m) = Live(i, o, st, h, e, m)
        /\ Line(k, o, st, e, m) = Live(k, o, st, h, e, m)
    BY DEF Line
  <1> HIDE DEF h
  <1>2. Read(Live(i, o, st, h, e, m), "incoming", b) = Live(k, o, st, h, e, m)
    BY <1>1, LiveRead
  <1> HIDE DEF k
  <1> QED BY <1>1, <1>2 DEF k

\* The application's socket begins to stream.
LEMMA ReadStreams ==
    ASSUME NEW i, NEW e, Quiet(i), ~e.udp
    PROVE  CanRead(i) /\ Streams(socket_ctx_read(i, TRUE), e)
  <1> DEFINE b == TRUE
             k == socket_ctx_read(i, b)
             stop == "stop"
             none == "none"
             no == FALSE
             em == <<>>
  <1>1. Sock(i, "stop", stop, FALSE, em, TRUE, no, none) /\ b \in BOOLEAN
    BY DEF Quiet
  <1>4. stop = "stop" /\ none = "none" /\ no = FALSE /\ b = TRUE
    OBVIOUS
  <1> HIDE DEF b, stop, none, no, em
  <1>2. CanRead(i) /\ Sock(k, "busy", stop, TRUE, em, TRUE, no, none)
    BY <1>1, SockRead
  <1> HIDE DEF k
  <1>3. Flow(k) /\ k.reading
    BY <1>2, <1>4 DEF Flow, Sock
  <1> QED BY <1>2, <1>3, <1>4 DEF Streams, k, b

LEMMA LineUpgrade ==
    ASSUME NEW i, NEW o, NEW st, NEW e, NEW m, Unused(o), LiveConn(m, 0, 0),
           st = "tls_websocket_upgrade", Waits(i, e), Asked(e), Opened(m),
           NEW v \in OnUpgradeAnswer(Line(i, o, st, e, m))
    PROVE  Good(v)
  <1> DEFINE u == Line(i, o, st, e, m)
             z == "tls_streaming"
             ac == "auth_completion_done"
             em == <<>>
  <1>0. Connected(st, i, e, m)
    BY DEF Connected
  <1>1. Settled(i, o, st, e) /\ e \in Extra /\ m \in Connection /\ Handles(m) /\ m.writable
        /\ m.reading
    <2>1. Settled(i, o, st, e)
      BY <1>0, ConnectedSettled
    <2>2. m \in Connection /\ Handles(m)
      BY LiveConnFacts
    <2> QED BY <2>1, <2>2 DEF Settled, Handles, Opened
  <1>2. Good(Shutdown(u))
    BY <1>1, LineShutGood
  <1>3. u.data.udp = e.udp /\ u.data.deque = e.deque /\ u.data.first = e.first
    <2> HIDE DEF u
    <2> QED BY LineData DEF u
  <1>9. e.deque \in Seq(Items) /\ e.first \in Seq(Items) /\ e.udp \in BOOLEAN /\ em \in Seq(Items)
    BY <1>1, ExtraFields
  <1>4. ASSUME e.udp, v = GoTo([tls_client_send_data(u, u.data.deque) EXCEPT !.data.deque = <<>>], z)
        PROVE  Good(v)
    <2> DEFINE d == e.deque
               g == SaidOut(e, d)
               n == SendOn(m, d)
               f == DequeTo(g, em)
               a == Line(i, o, st, g, n)
               b == Line(i, o, st, f, n)
    <2>1. tls_client_send_data(u, u.data.deque) = a
      <3>1. tls_client_send_data(u, d) = a
        <4> HIDE DEF d
        <4> QED BY <1>1, LineSend
      <3> HIDE DEF u, a
      <3> QED BY <1>3, <3>1
    <2>2. g \in Extra
      <3> HIDE DEF g, d
      <3> QED BY <1>1, <1>9, SaidFacts DEF g, d
    <2>3. Flows(f) /\ f.udp = e.udp
      BY <1>4, FlushedFlows DEF Flushed
    <2>4. f \in Extra
      BY <2>3 DEF Flows
    <2> HIDE DEF g, n
    <2>5. [a EXCEPT !.data.deque = <<>>] = b
      <3>1. [a EXCEPT !.data.deque = <<>>] = WithDeque(a, em)
        BY DEF WithDeque
      <3> HIDE DEF em
      <3>2. WithDeque(a, em) = b
        BY <2>2, LineOps
      <3> QED BY <3>1, <3>2
    <2> HIDE DEF f
    <2>6. GoTo(b, z) = Line(i, o, z, f, n)
      <3> HIDE DEF z
      <3> QED BY <2>4, LineOps
    <2>7. LiveConn(n, 0, 0)
      <3>1. 0 \in Nat
        OBVIOUS
      <3> QED BY <1>1, <1>9, <3>1, LSend DEF n
    <2>8. Opened(n)
      BY <1>1, <1>9, SendOpened DEF n
    <2>9. Streams(i, f)
      BY <1>4, <2>3 DEF Streams, Waits
    <2>10. Connected(z, i, f, n)
      BY <2>3, <2>8, <2>9 DEF Connected
    <2> HIDE DEF z, a, b, u
    <2>11. Good(Line(i, o, z, f, n))
      BY <2>7, <2>10, LineGood
    <2> QED BY <1>4, <2>1, <2>5, <2>6, <2>11
  <1>5. ASSUME ~e.udp, v \in tunnel_tls_do_launch_streaming(GoTo(u, ac))
        PROVE  Good(v)
    <2> DEFINE w == Line(i, o, ac, e, m)
               g == FirstTo(e, em)
               a == Line(i, o, ac, g, m)
               d == e.first
               f == SaidOut(g, d)
               n == SendOn(m, d)
               b == Line(i, o, ac, f, n)
               k == socket_ctx_read(i, TRUE)
               y == TRUE
    <2>1. GoTo(u, ac) = w
      <3> HIDE DEF ac
      <3> QED BY <1>1, LineOps
    <2>2. Idle(w, {"incoming"}) = w
      <3>1. AtRest(i) /\ AtRest(o)
        BY RestFacts
      <3>2. {"incoming"} \in SUBSET Side
        BY DEF Side
      <3> HIDE DEF ac
      <3> QED BY <3>1, <3>2, LineIdle
    <2>3. [w EXCEPT !.data.first = <<>>] = a
      <3>1. [w EXCEPT !.data.first = <<>>] = WithFirst(w, em)
        BY DEF WithFirst
      <3> HIDE DEF em, ac
      <3>2. WithFirst(w, em) = a
        BY <1>1, LineOps
      <3> QED BY <3>1, <3>2
    <2>4. w.data.first = d
      <3> HIDE DEF w
      <3> QED BY LineData DEF w
    <2>5. g \in Extra
      <3> HIDE DEF em
      <3> QED BY <1>1, <1>9, ExtraFirst
    <2>6. Flows(f) /\ f.udp = e.udp
      BY <1>5, LaunchedFlows DEF Launched
    <2>7. f \in Extra
      BY <2>6 DEF Flows
    <2>8. tls_client_send_data(a, d) = b
      <3> HIDE DEF g, ac, d
      <3> QED BY <1>1, <2>5, LineSend
    <2>9. CanRead(i) /\ Streams(k, f)
      <3>1. Quiet(i) /\ ~f.udp
        BY <1>5, <2>6 DEF Waits
      <3> HIDE DEF f
      <3> QED BY <3>1, ReadStreams
    <2>10. Read(b, "incoming", TRUE) = Line(k, o, ac, f, n)
      <3>1. Read(b, "incoming", y) = Line(socket_ctx_read(i, y), o, ac, f, n)
        <4> HIDE DEF f, n, ac, y
        <4> QED BY <2>9, LineRead
      <3> QED BY <3>1
    <2>11. GoTo(Line(k, o, ac, f, n), z) = Line(k, o, z, f, n)
      <3> HIDE DEF k, f, n, ac, z
      <3> QED BY <2>7, LineOps
    <2>12. Good(Shutdown(a))
      <3>1. Settled(i, o, ac, g)
        BY <1>1, <2>5 DEF Settled, tls_stage, tunnel_stage
      <3> HIDE DEF g, ac
      <3> QED BY <3>1, LineShutGood
    <2>13. LiveConn(n, 0, 0)
      <3>1. 0 \in Nat
        OBVIOUS
      <3> HIDE DEF n, d
      <3> QED BY <1>1, <1>9, <3>1, LSend DEF n, d
    <2>14. Opened(n)
      <3> HIDE DEF n, d
      <3> QED BY <1>1, <1>9, SendOpened DEF n, d
    <2>15. Connected(z, k, f, n)
      <3> HIDE DEF k, f, n
      <3> QED BY <2>6, <2>9, <2>14 DEF Connected
    <2>16. Good(Line(k, o, z, f, n))
      <3> HIDE DEF k, f, n, z
      <3> QED BY <2>13, <2>15, LineGood
    <2>17. tunnel_tls_do_launch_streaming(w) = {Shutdown(a), GoTo(Read(b, "incoming", TRUE), z)}
      <3> HIDE DEF w, a, b, d
      <3> QED BY <2>2, <2>3, <2>4, <2>8 DEF tunnel_tls_do_launch_streaming
    <2> HIDE DEF u, w, a, b, k, f, n, z, ac
    <2> QED BY <1>5, <2>1, <2>10, <2>11, <2>12, <2>16, <2>17
  <1>6. \/ v = Shutdown(u)
        \/ e.udp /\ v = GoTo([tls_client_send_data(u, u.data.deque) EXCEPT !.data.deque = <<>>], z)
        \/ ~e.udp /\ v \in tunnel_tls_do_launch_streaming(GoTo(u, ac))
    <2>1. v \in OnUpgradeAnswer(u)
      OBVIOUS
    <2> HIDE DEF u
    <2> QED BY <1>3, <1>9, <2>1 DEF OnUpgradeAnswer
  <1> HIDE DEF u
  <1> QED BY <1>2, <1>4, <1>5, <1>6


-----------------------------------------------------------------------------
(* Frames of the server. *)

FramesOut(e, d) == [j \in 1 .. (e.half + d) \div 2 |-> SrvData((e.got - e.half) \div 2 + j)]
EofAfter(e, cl) == e.eof \/ cl
Took(e, d, cl) == EofTo(GotTo(HalfTo(e, (e.half + d) % 2), e.got + d), EofAfter(e, cl))
FramesIn(u, d, cl) ==
    [u EXCEPT !.data.half = (@ + d) % 2, !.data.got = @ + d, !.data.eof = @ \/ cl]

LEMMA Halves ==
    ASSUME NEW g \in Nat, NEW h \in 0 .. 1, h = g % 2, NEW d \in 0 .. 3
    PROVE  /\ (g - h) \div 2 = g \div 2 /\ g \div 2 \in Nat
           /\ (g + d) \div 2 = g \div 2 + (h + d) \div 2
           /\ (g + d) % 2 = (h + d) % 2 /\ (h + d) % 2 \in 0 .. 1
           /\ (h + d) \div 2 \in Nat /\ g + d \in Nat
  OBVIOUS

LEMMA TookFacts ==
    ASSUME NEW e \in Extra, NEW d \in 0 .. 3, NEW cl, EofAfter(e, cl) \in BOOLEAN,
           e.got + d <= 2 * MaxData, NEW f, f = Took(e, d, cl)
    PROVE  /\ f \in Extra /\ f.first = e.first /\ f.app = e.app /\ f.sent = e.sent
           /\ f.bad = e.bad /\ f.udp = e.udp /\ f.deque = e.deque
           /\ f.half = (e.half + d) % 2 /\ f.got = e.got + d
  <1> DEFINE x == (e.half + d) % 2
             y == e.got + d
             z == EofAfter(e, cl)
             a == HalfTo(e, x)
             b == GotTo(a, y)
             k == EofTo(b, z)
  <1>0. e.half \in 0 .. 1 /\ e.got \in 0 .. 2 * MaxData /\ e.eof \in BOOLEAN /\ MaxData \in Nat
    BY ExtraFields, MaxDataAssumption
  <1>1. x \in 0 .. 1 /\ y \in 0 .. 2 * MaxData /\ z \in BOOLEAN
    <2>1. x \in 0 .. 1
      BY <1>0
    <2>2. y \in 0 .. 2 * MaxData
      BY <1>0
    <2>3. z \in BOOLEAN
      OBVIOUS
    <2> QED BY <2>1, <2>2, <2>3
  <1>2. f = k
    BY DEF Took
  <1>6. x = (e.half + d) % 2 /\ y = e.got + d
    OBVIOUS
  <1> HIDE DEF x, y, z
  <1>3. /\ a \in Extra /\ a.first = e.first /\ a.app = e.app /\ a.sent = e.sent
        /\ a.bad = e.bad /\ a.udp = e.udp /\ a.deque = e.deque /\ a.half = x
    BY <1>1, ExtraHalf
  <1> HIDE DEF a
  <1>4. /\ b \in Extra /\ b.first = a.first /\ b.app = a.app /\ b.sent = a.sent
        /\ b.bad = a.bad /\ b.udp = a.udp /\ b.deque = a.deque /\ b.half = a.half
        /\ b.got = y
    BY <1>1, <1>3, ExtraGot
  <1> HIDE DEF b
  <1>5. /\ k \in Extra /\ k.first = b.first /\ k.app = b.app /\ k.sent = b.sent
        /\ k.bad = b.bad /\ k.udp = b.udp /\ k.deque = b.deque /\ k.half = b.half
        /\ k.got = b.got
    BY <1>1, <1>4, ExtraEof
  <1> HIDE DEF k
  <1> QED BY <1>2, <1>3, <1>4, <1>5, <1>6

Fits(e, d) == e \in Extra /\ d \in 0 .. 3 /\ e.got + d <= 2 * MaxData

LEMMA FormFrames ==
    ASSUME NEW i, NEW o, NEW st, NEW e, NEW m, NEW d, NEW cl, Fits(e, d)
    PROVE  FramesIn(Line(i, o, st, e, m), d, cl) = Line(i, o, st, Took(e, d, cl), m)
  <1> DEFINE u == Line(i, o, st, e, m)
             x == (e.half + d) % 2
             y == e.got + d
             z == EofAfter(e, cl)
             a == HalfTo(e, x)
             b == GotTo(a, y)
  <1>0. e \in Extra /\ d \in 0 .. 3 /\ e.got + d <= 2 * MaxData
    BY DEF Fits
  <1>1. u.data.half = e.half /\ u.data.got = e.got /\ u.data.eof = e.eof
    <2> HIDE DEF u
    <2> QED BY LineData DEF u
  <1>2. FramesIn(u, d, cl) = WithEof(WithGot(WithHalf(u, x), y), z)
    <2> HIDE DEF u
    <2> QED BY <1>1 DEF FramesIn, WithEof, WithGot, WithHalf, EofAfter
  <1>3. a \in Extra /\ b \in Extra
    <2>0. e.half \in 0 .. 1 /\ e.got \in 0 .. 2 * MaxData /\ MaxData \in Nat
      BY <1>0, ExtraFields, MaxDataAssumption
    <2>1. x \in 0 .. 1 /\ y \in 0 .. 2 * MaxData
      <3>1. x \in 0 .. 1
        BY <1>0, <2>0
      <3>2. y \in 0 .. 2 * MaxData
        BY <1>0, <2>0
      <3> QED BY <3>1, <3>2
    <2> HIDE DEF x, y
    <2>2. a \in Extra
      BY <1>0, <2>1, ExtraHalf
    <2> HIDE DEF a
    <2>3. b \in Extra
      BY <2>1, <2>2, ExtraGot
    <2> QED BY <2>2, <2>3 DEF a
  <1>4. EofTo(b, z) = Took(e, d, cl)
    BY DEF Took
  <1> HIDE DEF x, y, z
  <1>5. WithHalf(u, x) = Line(i, o, st, a, m)
    BY <1>0, LineOps
  <1>6. WithGot(Line(i, o, st, a, m), y) = Line(i, o, st, b, m)
    <2> HIDE DEF a
    <2> QED BY <1>3, LineOps DEF b
  <1>7. WithEof(Line(i, o, st, b, m), z) = Line(i, o, st, EofTo(b, z), m)
    <2> HIDE DEF b
    <2> QED BY <1>3, LineOps
  <1> HIDE DEF u, a, b
  <1> QED BY <1>2, <1>4, <1>5, <1>6, <1>7 DEF u

LEMMA ConcatFacts ==
    ASSUME NEW p \in Seq(Items), NEW q \in Seq(Items)
    PROVE  /\ p \o q \in Seq(Items) /\ Len(p \o q) = Len(p) + Len(q)
           /\ \A j \in 1 .. Len(p) : (p \o q)[j] = p[j]
           /\ \A j \in 1 .. Len(q) : (p \o q)[Len(p) + j] = q[j]
  OBVIOUS

\* The frames that became whole continue those that were passed on.
LEMMA FramesDown ==
    ASSUME NEW e \in Extra, Down(e), NEW d \in 0 .. 3, e.got + d <= 2 * MaxData
    PROVE  /\ FramesOut(e, d) \in Seq(Items)
           /\ \A f \in Extra : f.half = (e.half + d) % 2 /\ f.got = e.got + d
                 /\ f.sent["incoming"] = e.sent["incoming"] \o FramesOut(e, d) => Down(f)
  <1> DEFINE in == e.sent["incoming"]
             q == e.got \div 2
             n == (e.half + d) \div 2
             k == Len(in) - q
             out == FramesOut(e, d)
             all == in \o out
  <1>0. /\ e.half \in 0 .. 1 /\ e.got \in 0 .. 2 * MaxData /\ MaxData \in Nat /\ e.got \in Nat
        /\ in \in Seq(Items)
    BY ExtraFields, MaxDataAssumption
  <1>1. e.half = e.got % 2 /\ k >= 0 /\ (\A j \in 1 .. k : in[j].kind # "srv")
        /\ (\A j \in 1 .. q : in[k + j] = SrvData(j))
    BY DEF Down
  <1>2. /\ (e.got - e.half) \div 2 = q /\ q \in Nat /\ n \in Nat
        /\ (e.got + d) \div 2 = q + n /\ (e.got + d) % 2 = (e.half + d) % 2
    BY <1>0, <1>1, Halves
  <1>3. q + n <= MaxData
    <2>1. e.got + d \in Nat
      BY <1>0
    <2> QED BY <1>0, <1>2, <2>1
  <1>4. out = [j \in 1 .. n |-> SrvData(q + j)]
    BY <1>2 DEF FramesOut
  <1> HIDE DEF q, n, in
  <1>5. \A j \in 1 .. n : SrvData(q + j) \in Items
    <2> TAKE j \in 1 .. n
    <2> DEFINE w == q + j
    <2>1. w \in 1 .. MaxData
      BY <1>0, <1>2, <1>3
    <2> HIDE DEF w
    <2>2. SrvData(w) \in Items
      BY <2>1 DEF Items
    <2> QED BY <2>2 DEF w
  <1> HIDE DEF out
  <1>6. out \in Seq(Items) /\ Len(out) = n /\ \A j \in 1 .. n : out[j] = SrvData(q + j)
    <2> DEFINE G(j) == SrvData(q + j)
    <2>1. out = [j \in 1 .. n |-> G(j)] /\ \A j \in 1 .. n : G(j) \in Items
      BY <1>4, <1>5
    <2> HIDE DEF G
    <2>2. out \in Seq(Items) /\ Len(out) = n /\ \A j \in 1 .. n : out[j] = G(j)
      BY <1>2, <2>1
    <2> QED BY <2>2 DEF G
  <1>7. /\ all \in Seq(Items) /\ Len(all) = Len(in) + n
        /\ \A j \in 1 .. Len(in) : all[j] = in[j]
        /\ \A j \in 1 .. n : all[Len(in) + j] = out[j]
    <2>1. in \in Seq(Items) /\ out \in Seq(Items) /\ Len(out) = n
      BY <1>0, <1>6
    <2> QED BY <2>1, ConcatFacts
  <1> HIDE DEF all
  <1>8. Len(in) \in Nat /\ Len(in) = k + q /\ k \in Nat /\ Len(all) - (q + n) = k
    BY <1>0, <1>1, <1>2, <1>7
  <1> HIDE DEF k
  <1>9. \A j \in 1 .. k : all[j].kind # "srv"
    BY <1>1, <1>2, <1>7, <1>8
  <1>10. \A j \in 1 .. q + n : all[k + j] = SrvData(j)
    <2> TAKE j \in 1 .. q + n
    <2>1. CASE j <= q
      <3>1. j \in 1 .. q /\ k + j \in 1 .. Len(in)
        BY <1>2, <1>8, <2>1
      <3> QED BY <1>1, <1>7, <3>1
    <2>2. CASE j > q
      <3> DEFINE l == j - q
      <3>1. l \in 1 .. n /\ Len(in) + l = k + j /\ q + l = j
        BY <1>2, <1>8, <2>2
      <3> HIDE DEF l
      <3>2. all[Len(in) + l] = out[l] /\ out[l] = SrvData(q + l)
        BY <1>6, <1>7, <3>1
      <3> QED BY <3>1, <3>2
    <2> QED BY <1>2, <2>1, <2>2
  <1>11. ASSUME NEW f \in Extra, f.half = (e.half + d) % 2, f.got = e.got + d,
                f.sent["incoming"] = all
         PROVE  Down(f)
    <2>1. f.got \div 2 = q + n /\ f.half = f.got % 2
      BY <1>2, <1>11
    <2>2. Len(all) - f.got \div 2 = k
      BY <1>8, <2>1
    <2>3. k >= 0
      BY <1>8
    <2>4. \A j \in 1 .. f.got \div 2 : all[k + j] = SrvData(j)
      BY <1>10, <2>1
    <2> QED BY <1>9, <1>11, <2>1, <2>2, <2>3, <2>4 DEF Down
  <1> QED BY <1>6, <1>11 DEF out, all, in


LEMMA LineWrite ==
    ASSUME NEW i, NEW o, NEW e \in Extra, NEW m, NEW buf, CanWrite(i), NEW st,
           st = "tls_streaming"
    PROVE  Write(Line(i, o, st, e, m), "incoming", buf)
             = Line(socket_ctx_write(i, buf), o, st, SaidIn(e, buf), m)
  <1> DEFINE h == TRUE
             k == socket_ctx_write(i, buf)
             f == SaidIn(e, buf)
  <1>1. h \in BOOLEAN /\ Line(i, o, st, e, m) = Live(i, o, st, h, e, m)
        /\ Line(k, o, st, f, m) = Live(k, o, st, h, f, m)
    BY DEF Line
  <1> HIDE DEF h
  <1>2. Write(Live(i, o, st, h, e, m), "incoming", buf) = Live(k, o, st, h, f, m)
    BY <1>1, LiveWrite
  <1> HIDE DEF k, f
  <1> QED BY <1>1, <1>2 DEF k, f

LEMMA WriteStreams ==
    ASSUME NEW i, Flow(i), i.reading, NEW buf \in Seq(Items), NEW k, k = socket_ctx_write(i, buf)
    PROVE  CanWrite(i) /\ Flow(k) /\ k.reading
  <1> DEFINE rd == i.rdstate
             wr == i.wrstate
             rg == i.reading
             ws == i.writes
             no == FALSE
             none == "none"
             x == Append(ws, buf)
             b == "busy"
  <1>1. Sock(i, rd, wr, rg, ws, TRUE, no, none) /\ rd \in {"stop", "busy"} /\ buf \in Payload
        /\ rg
    BY TlsStagesAssumption DEF Flow
  <1>4. no = FALSE /\ none = "none" /\ b = "busy"
    OBVIOUS
  <1> HIDE DEF rd, wr, rg, ws, no, none
  <1>2. CanWrite(i) /\ Sock(k, rd, "busy", rg, x, TRUE, no, none)
    BY <1>1, SockWrite
  <1> HIDE DEF x
  <1>3. k.reading /\ k.rdstate = rd /\ k.wrstate = b
    BY <1>1, <1>2 DEF Sock
  <1>5. Sock(k, k.rdstate, k.wrstate, k.reading, k.writes, TRUE, FALSE, "none")
    BY <1>2, <1>4 DEF Sock
  <1> QED BY <1>1, <1>2, <1>3, <1>4, <1>5 DEF Flow

Delivered(u, a, out) ==
    IF out = <<>> /\ a.data.eof THEN Shutdown(a)
    ELSE IF out = <<>> THEN a
    ELSE IF u.data.udp THEN [a EXCEPT !.data.sent["incoming"] = @ \o out]
    ELSE Write(a, "incoming", out)
Cached(u, d) ==
    [j \in 1 .. (u.data.half + d) \div 2 |-> SrvData((u.data.got - u.data.half) \div 2 + j)]

LEMMA FormOnFrames ==
    ASSUME NEW u, NEW d, NEW cl
    PROVE  OnFrames(u, d, cl) = Delivered(u, FramesIn(u, d, cl), Cached(u, d))
  BY Zenon DEF OnFrames, Delivered, FramesIn, Cached

\* Frames of the server in a live tunnel.
LEMMA LineFrames ==
    ASSUME NEW i, NEW o, NEW st, NEW e, NEW m, Unused(o), LiveConn(m, 0, 0),
           st = "tls_streaming", Streams(i, e), Flows(e), Opened(m),
           NEW d \in 0 .. 3, NEW cl, EofAfter(e, cl) \in BOOLEAN, e.got + d <= 2 * MaxData
    PROVE  Good(OnFrames(Line(i, o, st, e, m), d, cl))
  <1> DEFINE u == Line(i, o, st, e, m)
             g == Took(e, d, cl)
             a == Line(i, o, st, g, m)
             out == FramesOut(e, d)
             f == SaidIn(g, out)
             k == socket_ctx_write(i, out)
  <1>0. Connected(st, i, e, m) /\ e \in Extra /\ Down(e) /\ e.first = <<>> /\ e.deque = <<>>
        /\ e.bad = {}
    BY DEF Connected, Flows
  <1>1. Settled(i, o, st, e)
    BY <1>0, ConnectedSettled
  <1>2. /\ g \in Extra /\ g.first = e.first /\ g.app = e.app /\ g.sent = e.sent
        /\ g.bad = e.bad /\ g.udp = e.udp /\ g.deque = e.deque
        /\ g.half = (e.half + d) % 2 /\ g.got = e.got + d
    <2> HIDE DEF g
    <2> QED BY <1>0, TookFacts DEF g
  <1>3. FramesIn(u, d, cl) = a
    <2>1. Fits(e, d)
      BY <1>0 DEF Fits
    <2> HIDE DEF u, a, g
    <2>2. FramesIn(Line(i, o, st, e, m), d, cl) = Line(i, o, st, Took(e, d, cl), m)
      BY <2>1, FormFrames
    <2> QED BY <2>2 DEF u, a, g
  <1>4. /\ out \in Seq(Items)
        /\ \A z \in Extra : z.half = (e.half + d) % 2 /\ z.got = e.got + d
              /\ z.sent["incoming"] = e.sent["incoming"] \o out => Down(z)
    BY <1>0, FramesDown
  <1>5. u.data.half = e.half /\ u.data.got = e.got /\ u.data.udp = e.udp
    <2> HIDE DEF u
    <2> QED BY LineData DEF u
  <1>16. Cached(u, d) = out
    BY <1>5 DEF FramesOut, Cached
  <1> HIDE DEF g, out
  <1>6. Good(Shutdown(a))
    <2>1. Settled(i, o, st, g)
      BY <1>1, <1>2 DEF Settled
    <2> QED BY <2>1, LineShutGood
  <1>7. ASSUME out = <<>> PROVE Good(a)
    <2>1. e.sent["incoming"] \o out = e.sent["incoming"]
      <3>1. e.sent["incoming"] \in Seq(Items)
        BY <1>0, ExtraFields
      <3> QED BY <1>7, <3>1, Assoc
    <2>2. Down(g)
      BY <1>2, <1>4, <2>1
    <2>3. Flows(g)
      BY <1>0, <1>2, <2>2 DEF Flows
    <2>4. Streams(i, g)
      BY <1>2 DEF Streams
    <2>5. Connected(st, i, g, m)
      BY <2>3, <2>4 DEF Connected
    <2> QED BY <2>5, LineGood
  <1>8. /\ f \in Extra /\ f.first = g.first /\ f.app = g.app /\ f.bad = g.bad /\ f.udp = g.udp
        /\ f.deque = g.deque /\ f.half = g.half /\ f.eof = g.eof /\ f.got = g.got
        /\ f.sent["incoming"] = g.sent["incoming"] \o out
        /\ f.sent["outgoing"] = g.sent["outgoing"]
    <2>1. /\ f \in Extra /\ f.first = g.first /\ f.app = g.app /\ f.bad = g.bad /\ f.udp = g.udp
          /\ f.deque = g.deque /\ f.half = g.half /\ f.eof = g.eof /\ f.got = g.got
      <3> HIDE DEF f
      <3> QED BY <1>2, <1>4, SaidFacts DEF f
    <2>2. /\ f.sent["incoming"] = g.sent["incoming"] \o out
          /\ f.sent["outgoing"] = g.sent["outgoing"]
      <3> HIDE DEF f
      <3> QED BY <1>2, <1>4, SaidFacts DEF f
    <2> HIDE DEF f
    <2> QED BY <2>1, <2>2
  <1>9. Flows(f)
    <2> HIDE DEF f
    <2>1. Down(f)
      BY <1>2, <1>4, <1>8
    <2> QED BY <1>0, <1>2, <1>8, <2>1 DEF Flows
  <1>10. ASSUME e.udp PROVE Good([a EXCEPT !.data.sent["incoming"] = @ \o out])
    <2> DEFINE y == [g.sent EXCEPT !["incoming"] = @ \o out]
    <2>1. a.data.sent = g.sent
      <3> HIDE DEF a
      <3> QED BY LineData DEF a
    <2>2. [a EXCEPT !.data.sent["incoming"] = @ \o out] = WithSent(a, y)
      <3> HIDE DEF a
      <3> QED BY <2>1 DEF WithSent
    <2>3. WithSent(a, y) = Line(i, o, st, f, m)
      <3> HIDE DEF y
      <3> QED BY <1>2, LineOps DEF SaidIn, y
    <2> HIDE DEF f
    <2>4. Streams(i, f)
      BY <1>2, <1>8, <1>10 DEF Streams
    <2>5. Connected(st, i, f, m)
      BY <1>9, <2>4 DEF Connected
    <2>6. Good(Line(i, o, st, f, m))
      BY <2>5, LineGood
    <2> HIDE DEF a
    <2> QED BY <2>2, <2>3, <2>6
  <1>11. ASSUME ~e.udp PROVE Good(Write(a, "incoming", out))
    <2>1. CanWrite(i) /\ Flow(k) /\ k.reading
      <3>1. Flow(i) /\ i.reading
        BY <1>11 DEF Streams
      <3> HIDE DEF k
      <3> QED BY <1>4, <3>1, WriteStreams DEF k
    <2>2. Write(a, "incoming", out) = Line(k, o, st, f, m)
      BY <1>2, <2>1, LineWrite
    <2> HIDE DEF f, k
    <2>3. Streams(k, f)
      BY <1>2, <1>8, <1>11, <2>1 DEF Streams
    <2>4. Connected(st, k, f, m)
      BY <1>9, <2>3 DEF Connected
    <2>5. Good(Line(k, o, st, f, m))
      BY <2>4, LineGood
    <2> QED BY <2>2, <2>5
  <1>12. OnFrames(u, d, cl) = Delivered(u, a, out)
    <2> HIDE DEF u, a
    <2> QED BY <1>3, <1>16, FormOnFrames
  <1>13. e.udp \in BOOLEAN
    BY <1>0, ExtraFields
  <1> HIDE DEF u, a
  <1>14. Good(OnFrames(u, d, cl))
    BY <1>5, <1>6, <1>7, <1>10, <1>11, <1>12, <1>13 DEF Delivered
  <1> QED BY <1>14 DEF u

LEMMA LineProcess ==
    ASSUME NEW i, NEW o, NEW st, NEW e, NEW m, Running(i, o, st, e, m),
           t = Line(i, o, st, e, m), mbed_ssl_process_in
    PROVE  Good(t')
  <1>0. LiveConn(m, 0, 0) /\ Unused(o) /\ Connected(st, i, e, m) /\ e \in Extra
    BY RunningFacts
  <1>1. Tls(t) = m /\ ~t.is_terminated /\ t.stage = st
    BY LineFacts
  <1>2. m.reading /\ m.handshake = "over"
    BY <1>1 DEF mbed_ssl_process_in
  <1>3. \/ st = "tls_websocket_upgrade" /\ Waits(i, e) /\ Asked(e) /\ Opened(m)
        \/ st = "tls_streaming" /\ Streams(i, e) /\ Flows(e) /\ Opened(m)
    BY <1>0, <1>2, ConnectedCases
  <1>4. t' \in tls_cli_on_data_received(t, "data")
    BY DEF mbed_ssl_process_in
  <1>5. CASE st = "tls_websocket_upgrade" /\ Waits(i, e) /\ Asked(e) /\ Opened(m)
    <2>1. t' \in OnUpgradeAnswer(Line(i, o, st, e, m))
      BY <1>1, <1>4, <1>5 DEF tls_cli_on_data_received
    <2> QED BY <1>0, <1>5, <2>1, LineUpgrade
  <1>6. CASE st = "tls_streaming" /\ Streams(i, e) /\ Flows(e) /\ Opened(m)
    <2>1. ClientAssert(t, t.stage = "tls_streaming", "stage") = t
      BY <1>1, <1>6, ClientAssertTrue
    <2>2. t.data.got = e.got
      BY LineData
    <2>3. PICK r \in Deliveries(t) : t' = OnFrames(t, r.halves, r.close)
      BY <1>1, <1>4, <1>6, <2>1 DEF tls_cli_on_data_received
    <2>4. r.halves \in 0 .. 3 /\ r.close \in BOOLEAN /\ e.got + r.halves <= 2 * MaxData
      BY <2>2 DEF Deliveries
    <2> DEFINE d == r.halves
               cl == r.close
    <2>6. d \in 0 .. 3 /\ EofAfter(e, cl) \in BOOLEAN /\ e.got + d <= 2 * MaxData
      <3>1. e.eof \in BOOLEAN
        BY <1>0, ExtraFields
      <3> QED BY <2>4, <3>1 DEF EofAfter
    <2> HIDE DEF d, cl
    <2>7. Good(OnFrames(Line(i, o, st, e, m), d, cl))
      BY <1>0, <1>6, <2>6, LineFrames
    <2>5. Good(OnFrames(Line(i, o, st, e, m), r.halves, r.close))
      BY <2>7 DEF d, cl
    <2> QED BY <2>3, <2>5
  <1> QED BY <1>3, <1>5, <1>6


LEMMA LineReadDone ==
    ASSUME NEW i, NEW o, NEW st, NEW e, NEW m, Running(i, o, st, e, m),
           t = Line(i, o, st, e, m), uv_tcp_read_done_cb
    PROVE  Good(t')
  <1> DEFINE c == LineCore(i, o, st)
  <1>0. LiveConn(m, 0, 0) /\ Handles(m) /\ m \in Connection /\ Settled(i, o, st, e)
    BY RunningFacts
  <1>1. IsCore(c) /\ t = State(c, e, m)
    BY LineFacts
  <1>2. m.reading
    BY <1>0, <1>1, FormReadDone
  <1>3. PICK b \in BOOLEAN, x \in {"eof", "error"} :
           t' \in IF m.connect_cb
                  THEN {do_uv_mbeb_connect_cb(State(c, e, ReadTo(m, b)), "err")}
                  ELSE tls_cli_on_data_received(State(c, e, ReadTo(m, b)), x)
    BY <1>0, <1>1, FormReadDone
  <1> DEFINE n == ReadTo(m, b)
             u == Line(i, o, st, e, n)
  <1>4. LiveConn(n, 0, 0)
    <2> HIDE DEF n
    <2> QED BY <1>0, <1>2, LRead DEF n
  <1>5. /\ n \in Connection /\ n.ctx = m.ctx /\ n.cref = m.cref /\ n.cfreed = m.cfreed
        /\ n.ref = m.ref /\ n.freed = m.freed /\ n.mref = m.mref /\ n.mfreed = m.mfreed
        /\ n.connect_cb = m.connect_cb /\ n.on_shutting_down = m.on_shutting_down
        /\ n.dns = m.dns /\ n.sock = m.sock /\ n.close_cb = m.close_cb
        /\ n.connecting = m.connecting /\ n.timer = m.timer /\ ~n.reading /\ n.writable = b
        /\ n.writes = m.writes /\ n.shutting = m.shutting /\ n.handshake = m.handshake
        /\ n.left = m.left
    <2> HIDE DEF n
    <2> QED BY <1>0, ConnReadTo DEF n
  <1>6. ~m.dns /\ ~m.connecting
    BY <1>0, <1>2 DEF Handles
  <1> HIDE DEF n
  <1>7. ~n.dns /\ ~n.connecting /\ ~n.reading /\ n.connect_cb = m.connect_cb
    BY <1>5, <1>6
  <1>8. State(c, e, n) = u /\ ~u.is_terminated
    BY LineFacts
  <1>9. m.connect_cb => Good(do_uv_mbeb_connect_cb(u, "err"))
    BY <1>0, <1>4, <1>7, LineCalled
  <1>10. Good(Shutdown(u))
    BY <1>0, <1>4, LineShutGood
  <1> HIDE DEF u
  <1>11. tls_cli_on_data_received(u, x) = {Shutdown(u)}
    BY <1>8 DEF tls_cli_on_data_received
  <1>12. t' \in IF m.connect_cb THEN {do_uv_mbeb_connect_cb(u, "err")} ELSE {Shutdown(u)}
    <2>1. t' \in IF m.connect_cb THEN {do_uv_mbeb_connect_cb(u, "err")}
                                 ELSE tls_cli_on_data_received(u, x)
      BY <1>3, <1>8 DEF n
    <2> QED BY <1>11, <2>1
  <1> QED BY <1>9, <1>10, <1>12

LEMMA FormWrote ==
    ASSUME NEW u
    PROVE  WriteDone(u, "ok") = GaveBack(u) /\ WriteDone(u, "err") = GaveBack(Shutdown(u))
  BY DEF WriteDone, GaveBack

LEMMA LineWriteDone ==
    ASSUME NEW i, NEW o, NEW st, NEW e, NEW m, Running(i, o, st, e, m),
           t = Line(i, o, st, e, m), uv_mbed_tcp_write_done_cb
    PROVE  Good(t')
  <1> DEFINE c == LineCore(i, o, st)
             q == Tail(m.writes)
             n == WritesTo(m, q)
             a == State(c, e, n)
             k == tls_cli_ctx_release(n)
             u == Line(i, o, st, e, n)
  <1>0. LiveConn(m, 0, 0) /\ m \in Connection /\ Unused(o) /\ Settled(i, o, st, e)
        /\ e \in Extra /\ Connected(st, i, e, m)
    BY RunningFacts
  <1>1. IsCore(c) /\ t = State(c, e, m)
    BY LineFacts
  <1>2. /\ m.writes # <<>>
        /\ \/ Head(m.writes) = "handshake" /\ t' = a
           \/ Head(m.writes) = "data" /\ \E x \in {"ok", "err"} : t' = WriteDone(a, x)
           \/ Head(m.writes) = "notify" /\ t' = State(c, e, close_ssl_process_cb(n))
    BY <1>0, <1>1, FormWriteDone
  <1>3. m.writes \in Seq(WriteKinds) /\ ~Notified(m)
    BY <1>0, LiveConnFacts
  <1>4. q \in Seq(WriteKinds) /\ Head(m.writes) # "notify"
    <2>1. 1 \in DOMAIN m.writes /\ Head(m.writes) = m.writes[1]
      BY <1>2, <1>3
    <2>2. q \in Seq(WriteKinds)
      BY <1>2, <1>3
    <2> QED BY <1>3, <2>1, <2>2 DEF Notified
  <1>5. LiveConn(n, One(Head(m.writes) = "data"), 0)
    <2> HIDE DEF n
    <2> QED BY <1>0, <1>2, LWrote DEF n
  <1> HIDE DEF q
  <1>6. /\ n \in Connection /\ n.ctx = m.ctx /\ n.cref = m.cref /\ n.cfreed = m.cfreed
        /\ n.ref = m.ref /\ n.freed = m.freed /\ n.mref = m.mref /\ n.mfreed = m.mfreed
        /\ n.connect_cb = m.connect_cb /\ n.on_shutting_down = m.on_shutting_down
        /\ n.dns = m.dns /\ n.sock = m.sock /\ n.close_cb = m.close_cb
        /\ n.connecting = m.connecting /\ n.timer = m.timer /\ n.reading = m.reading
        /\ n.writable = m.writable /\ n.writes = q /\ n.shutting = m.shutting
        /\ n.handshake = m.handshake /\ n.left = m.left
    <2> HIDE DEF n
    <2> QED BY <1>0, <1>4, ConnWritesTo DEF n
  <1> HIDE DEF n
  <1>7. Connected(st, i, e, n)
    BY <1>0, <1>6, ConnectedKept
  <1>8. a = u
    BY LineFacts
  <1>9. CASE Head(m.writes) = "handshake" /\ t' = a
    <2>1. LiveConn(n, 0, 0)
      BY <1>5, <1>9 DEF One
    <2> QED BY <1>0, <1>7, <1>8, <1>9, <2>1, LineGood
  <1>10. CASE Head(m.writes) = "data" /\ \E x \in {"ok", "err"} : t' = WriteDone(a, x)
    <2>1. LiveConn(n, 1, 0)
      BY <1>5, <1>10 DEF One
    <2>2. SameConn(n, k) /\ LiveConn(k, 1 - 1, 0)
      <3> HIDE DEF k
      <3> QED BY <2>1, LiveConnCli DEF k
    <2>3. 1 - 1 = 0
      OBVIOUS
    <2>4. Tls(u) = n
      BY LineFacts
    <2>5. GaveBack(u) = Line(i, o, st, e, k)
      <3>1. WithTls(u, k) = Line(i, o, st, e, k)
        BY <1>0, LineOps
      <3> HIDE DEF u
      <3> QED BY <2>4, <3>1 DEF GaveBack
    <2> HIDE DEF k
    <2>6. LiveConn(k, 0, 0)
      BY <2>2, <2>3
    <2>7. Connected(st, i, e, k)
      BY <1>7, <2>2, SameConnected
    <2>8. Good(GaveBack(u))
      BY <1>0, <2>5, <2>6, <2>7, LineGood
    <2>9. Good(GaveBack(Shutdown(u)))
      <3>1. Ends(Shutdown(u), e, 1, 0)
        BY <1>0, <2>1, LineShut
      <3> HIDE DEF u
      <3> QED BY <1>0, <3>1, EndsWrote
    <2> HIDE DEF u, a
    <2> QED BY <1>8, <1>10, <2>8, <2>9, FormWrote
  <1> HIDE DEF a
  <1> QED BY <1>2, <1>4, <1>9, <1>10


LEMMA LineStreams ==
    ASSUME NEW i, NEW o, NEW st, NEW e, NEW m
    PROVE  is_in_streaming(Line(i, o, st, e, m)) <=> st \in {"streaming", "tls_streaming"}
  <1> DEFINE h == TRUE
  <1>1. h \in BOOLEAN /\ Line(i, o, st, e, m) = Live(i, o, st, h, e, m)
    BY DEF Line
  <1> HIDE DEF h
  <1> QED BY <1>1, LiveStreams

\* A packet in a live stream: it may not be encrypted, or is sent.
LEMMA LineCarried ==
    ASSUME NEW i, NEW o, NEW st, NEW e, NEW m, Unused(o), LiveConn(m, 0, 0),
           st = "tls_streaming", Streams(i, e), Flows(e), Opened(m), e.app + 1 \in 1 .. MaxData,
           NEW a, a = Line(i, o, st, AppTo(e, e.app + 1), m)
    PROVE  /\ Good(Shutdown(a))
           /\ Good(tls_client_send_data(a, <<AppData(e.app + 1)>>))
           /\ AppTo(e, e.app + 1) \in Extra
  <1> DEFINE k == e.app + 1
             f == AppTo(e, k)
             p == <<AppData(k)>>
             n == SendOn(m, p)
             g == SaidOut(f, p)
  <1>0. Connected(st, i, e, m) /\ m \in Connection /\ m.writable
    <2>1. Handles(m) /\ m \in Connection
      BY LiveConnFacts
    <2>2. m.writable
      BY <2>1 DEF Opened, Handles
    <2>3. Connected(st, i, e, m)
      BY DEF Connected
    <2> QED BY <2>1, <2>2, <2>3
  <1>1. Settled(i, o, st, e)
    BY <1>0, ConnectedSettled
  <1>2. Flows(g) /\ f \in Extra /\ g.udp = e.udp
    BY CarriedFlows DEF Carried
  <1>3. p \in Seq(Items)
    <2>1. k \in 1 .. MaxData
      OBVIOUS
    <2> HIDE DEF k
    <2> QED BY <2>1, AppItems
  <1> HIDE DEF k, f, p
  <1>4. Settled(i, o, st, f)
    BY <1>1, <1>2 DEF Settled
  <1>5. Good(Shutdown(Line(i, o, st, f, m)))
    BY <1>4, LineShutGood
  <1>6. tls_client_send_data(Line(i, o, st, f, m), p) = Line(i, o, st, g, n)
    BY <1>0, <1>2, LineSend
  <1>7. LiveConn(n, 0, 0) /\ Opened(n)
    <2> HIDE DEF n
    <2>1. LiveConn(n, 0, 0)
      BY <1>0, <1>3, LSend DEF n
    <2>2. Opened(n)
      BY <1>0, <1>3, SendOpened DEF n
    <2> QED BY <2>1, <2>2
  <1> HIDE DEF n, g
  <1>8. Streams(i, g)
    BY <1>2 DEF Streams
  <1>9. Connected(st, i, g, n)
    BY <1>2, <1>7, <1>8 DEF Connected
  <1>10. Good(Line(i, o, st, g, n))
    BY <1>7, <1>9, LineGood
  <1> QED BY <1>2, <1>5, <1>6, <1>10 DEF f, p, k

LEMMA LineDatagram ==
    ASSUME NEW i, NEW o, NEW st, NEW e, NEW m, Running(i, o, st, e, m),
           t = Line(i, o, st, e, m), udp_on_recv_data
    PROVE  Good(t')
  <1> DEFINE c == LineCore(i, o, st)
             k == e.app + 1
             f == AppTo(e, k)
             a == State(c, f, m)
             z == Queued(e)
  <1>0. LiveConn(m, 0, 0) /\ m \in Connection /\ Unused(o) /\ Settled(i, o, st, e)
        /\ e \in Extra /\ Connected(st, i, e, m)
    BY RunningFacts
  <1>1. IsCore(c) /\ t = State(c, e, m)
    BY LineFacts
  <1>2. /\ e.udp /\ k \in 1 .. MaxData
        /\ is_in_streaming(t) => t' \in {Shutdown(a), tls_client_send_data(a, <<AppData(k)>>)}
        /\ ~is_in_streaming(t) => t' = State(c, z, m)
    BY <1>0, <1>1, FormDatagram DEF Queued
  <1>3. is_in_streaming(t) <=> st \in {"streaming", "tls_streaming"}
    BY LineStreams
  <1>4. CASE st = "tls_streaming" /\ Streams(i, e) /\ Flows(e) /\ Opened(m)
    <2>1. a = Line(i, o, st, f, m)
      BY LineFacts
    <2> HIDE DEF a
    <2>2. Good(Shutdown(a)) /\ Good(tls_client_send_data(a, <<AppData(k)>>))
      BY <1>0, <1>2, <1>4, <2>1, LineCarried
    <2>3. is_in_streaming(t)
      BY <1>3, <1>4
    <2> QED BY <1>2, <2>2, <2>3
  <1>5. ASSUME st # "tls_streaming", st # "streaming", Connected(st, i, z, m) PROVE Good(t')
    <2>1. State(c, z, m) = Line(i, o, st, z, m)
      BY LineFacts
    <2> HIDE DEF z
    <2>2. Good(Line(i, o, st, z, m))
      BY <1>0, <1>5, LineGood
    <2> QED BY <1>2, <1>3, <1>5, <2>1, <2>2
  <1>6. CASE st = "tls_connecting" /\ Waits(i, e) /\ Stored(e)
             /\ (Resolving(m) \/ Connecting(m) \/ Shaking(m))
    <2>1. Stored(z) /\ z.udp = e.udp
      BY <1>2, <1>6, QueuedKept
    <2> HIDE DEF z
    <2>2. Waits(i, z)
      BY <1>6, <2>1 DEF Waits
    <2>3. Connected(st, i, z, m)
      BY <1>6, <2>1, <2>2 DEF Connected
    <2> QED BY <1>5, <1>6, <2>3
  <1>7. CASE st = "tls_websocket_upgrade" /\ Waits(i, e) /\ Asked(e) /\ Opened(m)
    <2>1. Asked(z) /\ z.udp = e.udp
      BY <1>2, <1>7, QueuedKept
    <2> HIDE DEF z
    <2>2. Waits(i, z)
      BY <1>7, <2>1 DEF Waits
    <2>3. Connected(st, i, z, m)
      BY <1>7, <2>1, <2>2 DEF Connected
    <2> QED BY <1>5, <1>7, <2>3
  <1> QED BY <1>0, <1>4, <1>6, <1>7 DEF Connected

\* The events of the connection of a live tunnel.
LEMMA LineEvent ==
    ASSUME NEW i, NEW o, NEW st, NEW e, NEW m, Running(i, o, st, e, m),
           t = Line(i, o, st, e, m), TlsEvent
    PROVE  Good(t')
  <1>0. LiveConn(m, 0, 0) /\ Connected(st, i, e, m)
    BY RunningFacts
  <1>1. Tls(t) = m
    BY LineFacts
  <1>2. ~uv_tcp_shutdown_cb
    <2>1. ~m.shutting
      BY <1>0, LiveConnFacts
    <2> QED BY <1>1, <2>1 DEF uv_tcp_shutdown_cb
  <1>3. ~uv_tcp_close_done_cb
    <2>1. m.sock = "closing" => m.connecting
      BY <1>0, ConnectedCases
    <2> QED BY <1>1, <2>1 DEF uv_tcp_close_done_cb
  <1>4. CASE uv_dns_resolve_done_cb
    BY <1>4, LineDns
  <1>5. CASE connect_timeout_cb
    BY <1>5, LineTimeout
  <1>6. CASE uv_tcp_connect_established_cb
    BY <1>6, LineEstablished
  <1>7. CASE connect_timeout_close_cb
    BY <1>7, LineTimerClosed
  <1>8. CASE mbed_continue_handshake
    BY <1>8, LineHandshake
  <1>9. CASE mbed_ssl_process_in
    BY <1>9, LineProcess
  <1>10. CASE uv_tcp_read_done_cb
    BY <1>10, LineReadDone
  <1>11. CASE uv_mbed_tcp_write_done_cb
    BY <1>11, LineWriteDone
  <1>12. CASE udp_on_recv_data
    BY <1>12, LineDatagram
  <1> QED BY <1>2, <1>3, <1>4, <1>5, <1>6, <1>7, <1>8, <1>9, <1>10, <1>11, <1>12 DEF TlsEvent

\* Before the connection there are no such events.
LEMMA NoEvent ==
    ASSUME NEW i, NEW o, NEW st, NEW h \in BOOLEAN, NEW e, NEW m, m = NoTls,
           t = Live(i, o, st, h, e, m), ~e.udp
    PROVE  ~TlsEvent
  <1>2. /\ ~m.dns /\ ~m.connecting /\ ~m.reading /\ ~m.shutting /\ m.writes = <<>>
        /\ m.timer = "none" /\ m.sock = "none"
    BY DEF NoTls
  <1>3. Tls(t) = m /\ t.data.udp = e.udp
    <2>1. Tls(t) = m
      BY LiveFields
    <2>2. t.data.udp = e.udp
      BY LiveExtra
    <2> QED BY <2>1, <2>2
  <1>4. ~uv_dns_resolve_done_cb /\ ~connect_timeout_cb /\ ~uv_tcp_connect_established_cb
        /\ ~connect_timeout_close_cb /\ ~mbed_continue_handshake /\ ~mbed_ssl_process_in
    BY <1>2, <1>3 DEF uv_dns_resolve_done_cb, connect_timeout_cb, uv_tcp_connect_established_cb,
                      connect_timeout_close_cb, mbed_continue_handshake, mbed_ssl_process_in
  <1>5. ~uv_tcp_read_done_cb /\ ~uv_mbed_tcp_write_done_cb /\ ~uv_tcp_shutdown_cb
    BY <1>2, <1>3 DEF uv_tcp_read_done_cb, uv_mbed_tcp_write_done_cb, uv_tcp_shutdown_cb
  <1>6. ~uv_tcp_close_done_cb /\ ~udp_on_recv_data
    BY <1>2, <1>3 DEF uv_tcp_close_done_cb, udp_on_recv_data
  <1> QED BY <1>4, <1>5, <1>6 DEF TlsEvent


(* The launch of a connection. *)

AllocTo(m, r, k) == [m EXCEPT !.ref = r, !.mref = k, !.connect_cb = TRUE]

LEMMA ConnAllocTo ==
    ASSUME NEW m \in Connection, NEW r \in Nat, NEW k \in Nat, NEW n, n = AllocTo(m, r, k)
    PROVE  /\ n \in Connection /\ n.ctx = m.ctx /\ n.cref = m.cref /\ n.cfreed = m.cfreed
           /\ n.ref = r /\ n.freed = m.freed /\ n.mref = k /\ n.mfreed = m.mfreed
           /\ n.connect_cb /\ n.on_shutting_down = m.on_shutting_down /\ n.dns = m.dns
           /\ n.sock = m.sock /\ n.close_cb = m.close_cb /\ n.connecting = m.connecting
           /\ n.timer = m.timer /\ n.reading = m.reading /\ n.writable = m.writable
           /\ n.writes = m.writes /\ n.shutting = m.shutting /\ n.handshake = m.handshake
           /\ n.left = m.left
  BY ZenonT(60) DEF Connection, SockStates, CloseCbs, TimerStates, ShakeStates, AllocTo, WriteKinds, Leftovers

LookTo(m) == [m EXCEPT !.dns = TRUE]

LEMMA ConnLookTo ==
    ASSUME NEW m \in Connection, NEW n, n = LookTo(m)
    PROVE  /\ n \in Connection /\ n.ctx = m.ctx /\ n.cref = m.cref /\ n.cfreed = m.cfreed
           /\ n.ref = m.ref /\ n.freed = m.freed /\ n.mref = m.mref
           /\ n.mfreed = m.mfreed /\ n.connect_cb = m.connect_cb
           /\ n.on_shutting_down = m.on_shutting_down /\ n.dns /\ n.sock = m.sock
           /\ n.close_cb = m.close_cb /\ n.connecting = m.connecting /\ n.timer = m.timer
           /\ n.reading = m.reading /\ n.writable = m.writable /\ n.writes = m.writes
           /\ n.shutting = m.shutting /\ n.handshake = m.handshake /\ n.left = m.left
  BY ZenonT(60) DEF Connection, SockStates, CloseCbs, TimerStates, ShakeStates, LookTo, WriteKinds, Leftovers

CtxTo(m) == [m EXCEPT !.ctx = TRUE]

LEMMA ConnCtxTo ==
    ASSUME NEW m \in Connection, NEW n, n = CtxTo(m)
    PROVE  /\ n \in Connection /\ n.ctx /\ n.cref = m.cref /\ n.cfreed = m.cfreed
           /\ n.ref = m.ref /\ n.freed = m.freed /\ n.mref = m.mref
           /\ n.mfreed = m.mfreed /\ n.connect_cb = m.connect_cb
           /\ n.on_shutting_down = m.on_shutting_down /\ n.dns = m.dns /\ n.sock = m.sock
           /\ n.close_cb = m.close_cb /\ n.connecting = m.connecting /\ n.timer = m.timer
           /\ n.reading = m.reading /\ n.writable = m.writable /\ n.writes = m.writes
           /\ n.shutting = m.shutting /\ n.handshake = m.handshake /\ n.left = m.left
  BY ZenonT(60) DEF Connection, SockStates, CloseCbs, TimerStates, ShakeStates, CtxTo, WriteKinds, Leftovers

\* A connection on which nothing goes on.
Bare(m, r, k, s) ==
    /\ m \in Connection /\ ~m.ctx /\ ~m.on_shutting_down
    /\ ~m.dns /\ ~m.connecting /\ ~m.reading /\ ~m.writable /\ ~m.shutting
    /\ m.writes = <<>> /\ m.left = {} /\ m.timer = "none"
    /\ m.cref = 1 /\ ~m.cfreed /\ ~m.freed /\ ~m.mfreed
    /\ m.ref = r /\ m.mref = k /\ m.sock = s

LEMMA BareNone == Bare(NoTls, 0, 0, "none") /\ ~NoTls.connect_cb
  <1>1. NoTls \in Connection
    BY LostNone
  <1> QED BY <1>1 DEF Bare, NoTls

Alloc(m) == AllocTo(m, 2, 1)
Unreached(m) == SockTo(m, "failed")

LEMMA BareAlloc ==
    ASSUME NEW m, Bare(m, 0, 0, "none"), NEW n, n = Alloc(m)
    PROVE  Bare(n, 2, 1, "none") /\ n.connect_cb
  <1> DEFINE r == 2
             k == 1
  <1>1. r \in Nat /\ k \in Nat /\ m \in Connection /\ n = AllocTo(m, r, k)
    BY DEF Bare, Alloc
  <1> HIDE DEF r, k
  <1>2. /\ n \in Connection /\ n.ctx = m.ctx /\ n.cref = m.cref /\ n.cfreed = m.cfreed
        /\ n.ref = r /\ n.freed = m.freed /\ n.mref = k /\ n.mfreed = m.mfreed
        /\ n.connect_cb /\ n.on_shutting_down = m.on_shutting_down /\ n.dns = m.dns
        /\ n.sock = m.sock /\ n.close_cb = m.close_cb /\ n.connecting = m.connecting
        /\ n.timer = m.timer /\ n.reading = m.reading /\ n.writable = m.writable
        /\ n.writes = m.writes /\ n.shutting = m.shutting /\ n.handshake = m.handshake
        /\ n.left = m.left
    <2>1. m \in Connection
      BY <1>1
    <2>2. r \in Nat
      BY <1>1
    <2>3. k \in Nat
      BY <1>1
    <2> DEFINE p == AllocTo(m, r, k)
    <2>4. /\ p \in Connection /\ p.ctx = m.ctx /\ p.cref = m.cref /\ p.cfreed = m.cfreed
          /\ p.ref = r /\ p.freed = m.freed /\ p.mref = k /\ p.mfreed = m.mfreed
          /\ p.connect_cb /\ p.on_shutting_down = m.on_shutting_down /\ p.dns = m.dns
          /\ p.sock = m.sock /\ p.close_cb = m.close_cb /\ p.connecting = m.connecting
          /\ p.timer = m.timer /\ p.reading = m.reading /\ p.writable = m.writable
          /\ p.writes = m.writes /\ p.shutting = m.shutting /\ p.handshake = m.handshake
          /\ p.left = m.left
      BY <2>1, <2>2, <2>3, ConnAllocTo
    <2>5. n = p
      BY <1>1
    <2> HIDE DEF p
    <2> QED BY <2>4, <2>5
  <1> QED BY <1>2 DEF Bare, r, k

LEMMA BareFailed ==
    ASSUME NEW m, Bare(m, 2, 1, "none"), NEW n, n = Unreached(m)
    PROVE  Bare(n, 2, 1, "failed") /\ (m.connect_cb => n.connect_cb)
  <1> DEFINE x == "failed"
  <1>1. x \in SockStates /\ m \in Connection /\ n = SockTo(m, x)
    BY DEF Bare, SockStates, Unreached
  <1> HIDE DEF x
  <1>2. /\ n \in Connection /\ n.ctx = m.ctx /\ n.cref = m.cref /\ n.cfreed = m.cfreed
        /\ n.ref = m.ref /\ n.freed = m.freed /\ n.mref = m.mref /\ n.mfreed = m.mfreed
        /\ n.connect_cb = m.connect_cb /\ n.on_shutting_down = m.on_shutting_down
        /\ n.dns = m.dns /\ n.sock = x /\ n.close_cb = m.close_cb
        /\ n.connecting = m.connecting /\ n.timer = m.timer /\ n.reading = m.reading
        /\ n.writable = m.writable /\ n.writes = m.writes /\ n.shutting = m.shutting
        /\ n.handshake = m.handshake /\ n.left = m.left
    <2>1. m \in Connection
      BY <1>1
    <2>2. x \in SockStates
      BY <1>1
    <2> DEFINE p == SockTo(m, x)
    <2>3. /\ p \in Connection /\ p.ctx = m.ctx /\ p.cref = m.cref /\ p.cfreed = m.cfreed
          /\ p.ref = m.ref /\ p.freed = m.freed /\ p.mref = m.mref /\ p.mfreed = m.mfreed
          /\ p.connect_cb = m.connect_cb /\ p.on_shutting_down = m.on_shutting_down
          /\ p.dns = m.dns /\ p.sock = x /\ p.close_cb = m.close_cb
          /\ p.connecting = m.connecting /\ p.timer = m.timer /\ p.reading = m.reading
          /\ p.writable = m.writable /\ p.writes = m.writes /\ p.shutting = m.shutting
          /\ p.handshake = m.handshake /\ p.left = m.left
      BY <2>1, <2>2, ConnSockTo
    <2>4. n = p
      BY <1>1
    <2> HIDE DEF p
    <2> QED BY <2>3, <2>4
  <1> QED BY <1>2 DEF Bare, x

LEMMA BareCalled ==
    ASSUME NEW m, NEW s, Bare(m, 2, 1, s), NEW n, n = CalledTo(m, m.mref + 1)
    PROVE  Bare(n, 2, 2, s) /\ ~n.connect_cb
  <1> DEFINE r == m.mref + 1
  <1>1. r \in Nat /\ r = 2 /\ m \in Connection /\ n = CalledTo(m, r)
    BY DEF Bare
  <1> HIDE DEF r
  <1>2. /\ n \in Connection /\ n.ctx = m.ctx /\ n.cref = m.cref /\ n.cfreed = m.cfreed
        /\ n.ref = m.ref /\ n.freed = m.freed /\ n.mref = r /\ n.mfreed = m.mfreed
        /\ ~n.connect_cb /\ n.on_shutting_down = m.on_shutting_down /\ n.dns = m.dns
        /\ n.sock = m.sock /\ n.close_cb = m.close_cb /\ n.connecting = m.connecting
        /\ n.timer = m.timer /\ n.reading = m.reading /\ n.writable = m.writable
        /\ n.writes = m.writes /\ n.shutting = m.shutting /\ n.handshake = m.handshake
        /\ n.left = m.left
    BY <1>1, ConnCalledTo
  <1> QED BY <1>1, <1>2 DEF Bare

LEMMA BareReturned ==
    ASSUME NEW m, NEW s, Bare(m, 2, 2, s), NEW n, n = uv_mbed_release(tls_cli_ctx_release(m))
    PROVE  Bare(n, 1, 1, s) /\ (n.connect_cb <=> m.connect_cb)
  <1> DEFINE k == tls_cli_ctx_release(m)
  <1>1. m \in Connection /\ m.ref = 2 /\ m.mref = 2 /\ ~m.freed /\ ~m.mfreed
    BY DEF Bare
  <1>2. /\ SameConn(m, k) /\ k.cref = m.cref /\ k.cfreed = m.cfreed
        /\ k.ref = 2 - 1 /\ ~k.freed /\ k.mref = 2 /\ ~k.mfreed
    <2> HIDE DEF k
    <2> QED BY <1>1, CliReleased DEF k
  <1> HIDE DEF k
  <1>3. /\ SameConn(k, n) /\ n.cref = k.cref /\ n.cfreed = k.cfreed /\ n.ref = k.ref
        /\ n.freed = k.freed /\ n.mref = 2 - 1 /\ ~n.mfreed
    <2>1. k \in Connection /\ k.mref # 0 /\ n = uv_mbed_release(k)
      BY <1>2 DEF SameConn, k
    <2> QED BY <1>2, <2>1, MbedReleased
  <1>4. SameConn(m, n)
    BY <1>2, <1>3, SameTrans
  <1> QED BY <1>2, <1>3, <1>4 DEF Bare, SameConn

LEMMA BareAdded ==
    ASSUME NEW m, NEW s, Bare(m, 1, 1, s), NEW n, n = tls_cli_ctx_add_ref(m)
    PROVE  Bare(n, 2, 1, s) /\ (n.connect_cb <=> m.connect_cb)
  <1> DEFINE r == 2
             f == FALSE
  <1>1. r \in Nat /\ f \in BOOLEAN /\ m \in Connection /\ r = m.ref + 1 /\ ~m.freed
    BY DEF Bare
  <1>2. n = RefTo(m, r, f)
    <2>1. m.freed = f
      BY <1>1, ConnFields
    <2>2. [m EXCEPT !.ref = r, !.freed = m.freed] = [m EXCEPT !.ref = m.ref + 1]
      <3> HIDE DEF r
      <3> QED BY <1>1 DEF Connection
    <2> HIDE DEF f
    <2> QED BY <2>1, <2>2 DEF RefTo, tls_cli_ctx_add_ref
  <1> HIDE DEF r, f
  <1>3. /\ n \in Connection /\ n.ctx = m.ctx /\ n.cref = m.cref /\ n.cfreed = m.cfreed
        /\ n.ref = r /\ n.freed = f /\ n.mref = m.mref /\ n.mfreed = m.mfreed
        /\ n.connect_cb = m.connect_cb /\ n.on_shutting_down = m.on_shutting_down
        /\ n.dns = m.dns /\ n.sock = m.sock /\ n.close_cb = m.close_cb
        /\ n.connecting = m.connecting /\ n.timer = m.timer /\ n.reading = m.reading
        /\ n.writable = m.writable /\ n.writes = m.writes /\ n.shutting = m.shutting
        /\ n.handshake = m.handshake /\ n.left = m.left
    BY <1>1, <1>2, ConnRefTo
  <1> QED BY <1>3 DEF Bare, r, f

\* The close of a connection that has no socket, and of one that could not
\* connect.
LEMMA BareGone ==
    ASSUME NEW m, Bare(m, 2, 1, "none"), ~m.connect_cb, NEW n,
           n = tls_cli_ctx_release(tls_cli_ctx_release(LeftTo(m, {})))
    PROVE  Lost(n, FALSE)
  <1> DEFINE l == {}
             j == LeftTo(m, l)
             k == tls_cli_ctx_release(j)
  <1>1. m \in Connection /\ l \in SUBSET Leftovers /\ n = tls_cli_ctx_release(k)
    BY DEF Bare
  <1> HIDE DEF l
  <1>2. /\ j \in Connection /\ j.ctx = m.ctx /\ j.cref = m.cref /\ j.cfreed = m.cfreed
        /\ j.ref = m.ref /\ j.freed = m.freed /\ j.mref = m.mref /\ j.mfreed = m.mfreed
        /\ j.connect_cb = m.connect_cb /\ j.on_shutting_down = m.on_shutting_down
        /\ j.dns = m.dns /\ j.sock = m.sock /\ j.close_cb = m.close_cb
        /\ j.connecting = m.connecting /\ j.timer = m.timer /\ j.reading = m.reading
        /\ j.writable = m.writable /\ j.writes = m.writes /\ j.shutting = m.shutting
        /\ j.handshake = m.handshake /\ j.left = l
    <2> HIDE DEF j
    <2> QED BY <1>1, ConnLeftTo DEF j
  <1>3. Bare(j, 2, 1, "none") /\ ~j.connect_cb
    <2> HIDE DEF j
    <2> QED BY <1>2 DEF Bare, l
  <1> HIDE DEF j
  <1>4. /\ SameConn(j, k) /\ k.cref = j.cref /\ k.cfreed = j.cfreed
        /\ k.ref = 1 /\ ~k.freed /\ k.mref = 1 /\ ~k.mfreed
    <2>1. j \in Connection /\ j.ref = 2 /\ j.mref = 1 /\ ~j.freed /\ ~j.mfreed
      BY <1>3 DEF Bare
    <2> HIDE DEF k
    <2> QED BY <2>1, CliReleased DEF k
  <1> HIDE DEF k
  <1>5. /\ SameConn(k, n) /\ n.cref = k.cref /\ n.cfreed = k.cfreed
        /\ n.ref = 0 /\ n.freed /\ n.mref = 0 /\ n.mfreed
    <2>1. k \in Connection
      BY <1>4 DEF SameConn
    <2> QED BY <1>1, <1>4, <2>1, CliReleased
  <1>6. SameConn(j, n)
    BY <1>4, <1>5, SameTrans
  <1> QED BY <1>3, <1>4, <1>5, <1>6 DEF Bare, SameConn, Lost, One

LEMMA BareClosing ==
    ASSUME NEW m, Bare(m, 2, 1, "failed"), ~m.connect_cb, NEW n,
           n = tls_cli_ctx_release(CloseTo(m, m.mref + 1, "close_done"))
    PROVE  Lost(n, FALSE)
  <1> DEFINE r == m.mref + 1
             b == "close_done"
             j == CloseTo(m, r, b)
  <1>1. m \in Connection /\ r \in Nat /\ r = 2 /\ b \in CloseCbs /\ n = tls_cli_ctx_release(j)
    BY DEF Bare, CloseCbs
  <1> HIDE DEF r, b
  <1>2. /\ j \in Connection /\ j.ctx = m.ctx /\ j.cref = m.cref /\ j.cfreed = m.cfreed
        /\ j.ref = m.ref /\ j.freed = m.freed /\ j.mref = r /\ j.mfreed = m.mfreed
        /\ j.connect_cb = m.connect_cb /\ j.on_shutting_down = m.on_shutting_down
        /\ j.dns = m.dns /\ j.sock = "closing" /\ j.close_cb = b
        /\ j.connecting = m.connecting /\ j.timer = m.timer /\ ~j.reading /\ ~j.writable
        /\ j.writes = m.writes /\ j.shutting = m.shutting /\ j.handshake = m.handshake
        /\ j.left = m.left
    <2> HIDE DEF j
    <2> QED BY <1>1, ConnCloseTo DEF j
  <1> HIDE DEF j
  <1>3. j \in Connection /\ j.ref = 2 /\ j.mref = 2 /\ ~j.freed /\ ~j.mfreed
    BY <1>1, <1>2 DEF Bare
  <1>4. /\ SameConn(j, n) /\ n.cref = j.cref /\ n.cfreed = j.cfreed
        /\ n.ref = 1 /\ ~n.freed /\ n.mref = 2 /\ ~n.mfreed
    BY <1>1, <1>3, CliReleased
  <1> QED BY <1>2, <1>4 DEF Bare, SameConn, Lost, One, b

\* A launched connection: the lookup, or the connect, is in progress.
LEMMA BareLook ==
    ASSUME NEW m, Bare(m, 2, 1, "none"), m.connect_cb, NEW a, a = LookTo(m), NEW n, n = CtxTo(a)
    PROVE  LiveConn(n, 0, 0) /\ Resolving(n)
  <1>1. m \in Connection
    BY DEF Bare
  <1>2. /\ a \in Connection /\ a.ctx = m.ctx /\ a.cref = m.cref /\ a.cfreed = m.cfreed
        /\ a.ref = m.ref /\ a.freed = m.freed /\ a.mref = m.mref /\ a.mfreed = m.mfreed
        /\ a.connect_cb = m.connect_cb /\ a.on_shutting_down = m.on_shutting_down /\ a.dns
        /\ a.sock = m.sock /\ a.close_cb = m.close_cb /\ a.connecting = m.connecting
        /\ a.timer = m.timer /\ a.reading = m.reading /\ a.writable = m.writable
        /\ a.writes = m.writes /\ a.shutting = m.shutting /\ a.handshake = m.handshake
        /\ a.left = m.left
    BY <1>1, ConnLookTo
  <1>3. a \in Connection
    BY <1>2
  <1>4. /\ n \in Connection /\ n.ctx /\ n.cref = a.cref /\ n.cfreed = a.cfreed
        /\ n.ref = a.ref /\ n.freed = a.freed /\ n.mref = a.mref /\ n.mfreed = a.mfreed
        /\ n.connect_cb = a.connect_cb /\ n.on_shutting_down = a.on_shutting_down
        /\ n.dns = a.dns /\ n.sock = a.sock /\ n.close_cb = a.close_cb
        /\ n.connecting = a.connecting /\ n.timer = a.timer /\ n.reading = a.reading
        /\ n.writable = a.writable /\ n.writes = a.writes /\ n.shutting = a.shutting
        /\ n.handshake = a.handshake /\ n.left = a.left
    BY <1>3, ConnCtxTo
  <1>5. DataWrites(<<>>) = 0
    BY DataNone
  <1>6. Handles(n) /\ Resolving(n)
    BY <1>2, <1>4 DEF Handles, Bare, Resolving
  <1>7. Counts(n, FALSE, TRUE, 0, 0)
    BY <1>2, <1>4, <1>5 DEF Counts, Bare, One
  <1>8. ~n.on_shutting_down /\ n.left = {} /\ ~n.shutting /\ ~Notified(n) /\ n.sock = "none"
    BY <1>2, <1>4 DEF Bare, Notified
  <1> QED BY <1>6, <1>7, <1>8 DEF LiveConn

LEMMA BareDial ==
    ASSUME NEW m, Bare(m, 2, 1, "none"), NEW a, a = DialTo(m), NEW n, n = CtxTo(a)
    PROVE  m.connect_cb => LiveConn(n, 0, 0) /\ Connecting(n)
  <1>1. m \in Connection
    BY DEF Bare
  <1>2. /\ a \in Connection /\ a.ctx = m.ctx /\ a.cref = m.cref /\ a.cfreed = m.cfreed
        /\ a.ref = m.ref /\ a.freed = m.freed /\ a.mref = m.mref /\ a.mfreed = m.mfreed
        /\ a.connect_cb = m.connect_cb /\ a.on_shutting_down = m.on_shutting_down
        /\ a.dns = m.dns /\ a.sock = "connecting" /\ a.close_cb = m.close_cb /\ a.connecting
        /\ a.timer = "running" /\ a.reading = m.reading /\ a.writable = m.writable
        /\ a.writes = m.writes /\ a.shutting = m.shutting /\ a.handshake = m.handshake
        /\ a.left = m.left
    <2>1. m \in Connection
      BY <1>1
    <2> DEFINE p == DialTo(m)
    <2>2. /\ p \in Connection /\ p.ctx = m.ctx /\ p.cref = m.cref /\ p.cfreed = m.cfreed
          /\ p.ref = m.ref /\ p.freed = m.freed /\ p.mref = m.mref /\ p.mfreed = m.mfreed
          /\ p.connect_cb = m.connect_cb /\ p.on_shutting_down = m.on_shutting_down
          /\ p.dns = m.dns /\ p.sock = "connecting" /\ p.close_cb = m.close_cb
          /\ p.connecting /\ p.timer = "running" /\ p.reading = m.reading
          /\ p.writable = m.writable /\ p.writes = m.writes /\ p.shutting = m.shutting
          /\ p.handshake = m.handshake /\ p.left = m.left
      BY <2>1, ConnDialTo
    <2>3. a = p
      OBVIOUS
    <2> HIDE DEF p
    <2> QED BY <2>2, <2>3
  <1>3. a \in Connection
    BY <1>2
  <1>4. /\ n \in Connection /\ n.ctx /\ n.cref = a.cref /\ n.cfreed = a.cfreed
        /\ n.ref = a.ref /\ n.freed = a.freed /\ n.mref = a.mref /\ n.mfreed = a.mfreed
        /\ n.connect_cb = a.connect_cb /\ n.on_shutting_down = a.on_shutting_down
        /\ n.dns = a.dns /\ n.sock = a.sock /\ n.close_cb = a.close_cb
        /\ n.connecting = a.connecting /\ n.timer = a.timer /\ n.reading = a.reading
        /\ n.writable = a.writable /\ n.writes = a.writes /\ n.shutting = a.shutting
        /\ n.handshake = a.handshake /\ n.left = a.left
    BY <1>3, ConnCtxTo
  <1>9. SUFFICES ASSUME m.connect_cb PROVE LiveConn(n, 0, 0) /\ Connecting(n)
    OBVIOUS
  <1>5. DataWrites(<<>>) = 0
    BY DataNone
  <1>6. Handles(n) /\ Connecting(n)
    BY <1>9, <1>2, <1>4 DEF Handles, Bare, Connecting
  <1>7. Counts(n, FALSE, TRUE, 0, 0)
    BY <1>9, <1>2, <1>4, <1>5 DEF Counts, Bare, One
  <1>8. /\ ~n.on_shutting_down /\ n.left = {} /\ ~n.shutting /\ ~Notified(n)
        /\ n.sock = "connecting"
    BY <1>9, <1>2, <1>4 DEF Bare, Notified
  <1> QED BY <1>6, <1>7, <1>8 DEF LiveConn


\* The launch failed: the tunnel was shut down, the connection goes.
Dropped(v, e) ==
    \E c, m : /\ v = State(c, e, m) /\ CoreOver(c) /\ c.freed = FALSE /\ c.held = FALSE
              /\ Lost(m, FALSE)

\* Without a connection the shutdown is that of the tunnel.
Unlaunched(i, o, st, h) ==
    /\ i \in OpenSocket /\ o \in OpenSocket /\ st \in tls_stage /\ h \in BOOLEAN
    /\ NoDial(i) /\ NoDial(o)
Fell(c, h) == CoreOver(c) /\ c.freed = FALSE /\ c.held = h /\ IsCore(c)

LEMMA ShutBare ==
    ASSUME NEW i, NEW o, NEW st, NEW h, NEW e, NEW m, Unlaunched(i, o, st, h),
           NEW w, w = tunnel_shutdown(Alive(i, o, st, h)), NEW v, v = Live(i, o, st, h, e, m)
    PROVE  (~m.ctx => Shutdown(v) = State(w, e, m)) /\ Fell(w, h)
  <1> DEFINE c == Alive(i, o, st, h)
             x == State(w, e, m)
  <1>0. /\ i \in OpenSocket /\ o \in OpenSocket /\ st \in tls_stage /\ h \in BOOLEAN
        /\ NoDial(i) /\ NoDial(o)
    BY DEF Unlaunched
  <1>1. IsCore(c)
    BY <1>0, AliveFacts
  <1>2. v = Whole(c, Data(e, m))
    BY DEF Live, State
  <1>3. CoreOver(w) /\ w.freed = FALSE /\ w.held = h
    <2>1. CoreOver(w) /\ ~w.freed /\ w.held = h
      BY <1>0, CoreShut
    <2>2. w.freed \in BOOLEAN
      BY <2>1, CoreOverFacts
    <2> QED BY <2>1, <2>2
  <1>4. tunnel_shutdown(v) = x
    <2> HIDE DEF c
    <2> QED BY <1>1, <1>2, WholeShutdown DEF State, c
  <1>5. ~v.is_terminated /\ ~v.freed
    BY <1>0, LiveFields
  <1>6. x.is_terminated = w.is_terminated /\ Tls(x) = m /\ x.freed = w.freed
    BY StateFields
  <1>7. IsCore(w) /\ w.is_terminated = TRUE
    BY <1>3, CoreOverFacts
  <1> HIDE DEF x
  <1>8. ~m.ctx => client_tunnel_shutdown(x) = x
    BY <1>6 DEF client_tunnel_shutdown
  <1>9. Destroying(v, x) = x
    BY <1>3, <1>6 DEF Destroying
  <1>10. ~m.ctx => Shutdown(v) = x
    BY <1>4, <1>5, <1>6, <1>7, <1>8, <1>9 DEF Shutdown, Overrides
  <1> QED BY <1>3, <1>7, <1>10 DEF x, Fell

LEMMA ConnectFails ==
    ASSUME NEW i, NEW o, NEW st, NEW h, NEW e, NEW m, NEW s, Unlaunched(i, o, st, h),
           Bare(m, 2, 1, s),
           NEW w, w = tunnel_shutdown(Alive(i, o, st, h)), NEW v, v = Live(i, o, st, h, e, m),
           NEW n, n = uv_mbed_release(tls_cli_ctx_release(CalledTo(m, m.mref + 1)))
    PROVE  /\ m.connect_cb => do_uv_mbeb_connect_cb(v, "err") = State(w, e, n)
           /\ Fell(w, h) /\ Bare(n, 1, 1, s) /\ ~n.connect_cb
  <1> DEFINE c == Alive(i, o, st, h)
             b == CalledTo(m, m.mref + 1)
             x == State(c, e, b)
             y == State(w, e, b)
  <1>1. IsCore(c) /\ v = State(c, e, m)
    <2>1. h \in BOOLEAN
      BY DEF Unlaunched
    <2> QED BY <2>1, AliveFacts DEF Live
  <1>2. m.connect_cb => do_uv_mbeb_connect_cb(v, "err")
                          = Returned(tls_cli_on_connection_established(x, "err"))
    <2> HIDE DEF c
    <2> QED BY <1>1, FormConnect
  <1>3. Bare(b, 2, 2, s) /\ ~b.connect_cb
    <2> HIDE DEF b
    <2> QED BY BareCalled DEF b
  <1>4. n = uv_mbed_release(tls_cli_ctx_release(b))
    OBVIOUS
  <1> HIDE DEF b
  <1>5. Bare(n, 1, 1, s) /\ ~n.connect_cb
    BY <1>3, <1>4, BareReturned
  <1>6. x = Live(i, o, st, h, e, b) /\ ~b.ctx
    BY <1>3 DEF Live, Bare
  <1> HIDE DEF c, x
  <1>7. Shutdown(x) = y /\ Fell(w, h)
    BY <1>6, ShutBare
  <1>8. tls_cli_on_connection_established(x, "err") = y
    BY <1>7 DEF tls_cli_on_connection_established
  <1>9. Returned(y) = State(w, e, n)
    <2>1. Tls(y) = b
      BY StateFields
    <2>2. WithTls(y, n) = State(w, e, n)
      BY <1>7, StateTls DEF Fell
    <2> HIDE DEF y
    <2> QED BY <1>4, <2>1, <2>2 DEF Returned
  <1> HIDE DEF y
  <1> QED BY <1>2, <1>5, <1>7, <1>8, <1>9

LEMMA LaunchDropped ==
    ASSUME NEW w, CoreOver(w), w.freed = FALSE, w.held = FALSE, NEW e, NEW m, NEW s,
           s \in {"none", "failed"}, Bare(m, 1, 1, s)
    PROVE  ~m.connect_cb => Dropped(LaunchFailed(State(w, e, m)), e)
  <1> DEFINE u == State(w, e, m)
             k == tls_cli_ctx_add_ref(m)
             x == State(w, e, k)
             l == LeftTo(k, {})
             y == State(w, e, l)
             j == CloseTo(k, k.mref + 1, "close_done")
             z == State(w, e, j)
  <1>0. SUFFICES ASSUME ~m.connect_cb PROVE Dropped(LaunchFailed(u), e)
    OBVIOUS
  <1>1. IsCore(w)
    BY CoreOverFacts
  <1>2. Bare(k, 2, 1, s) /\ ~k.connect_cb
    <2> HIDE DEF k
    <2> QED BY <1>0, BareAdded DEF k
  <1>3. WithTls(u, k) = x /\ Tls(u) = m
    BY <1>1, StateFields, StateTls
  <1> HIDE DEF u
  <1>4. LaunchFailed(u) = WithTls(uv_mbed_close(x), tls_cli_ctx_release(Tls(uv_mbed_close(x))))
    <2> HIDE DEF x
    <2> QED BY <1>3 DEF LaunchFailed
  <1> HIDE DEF k
  <1>5. k \in Connection /\ k.sock = s
    BY <1>2 DEF Bare
  <1>6. /\ s = "none" => uv_mbed_close(x) = mbed_close_done_cb(y)
        /\ s = "failed" => uv_mbed_close(x) = z
    <2>1. /\ k.sock \in {"none", "closing", "closed"} =>
               uv_mbed_close(x) = mbed_close_done_cb(
                        State(w, e, LeftTo(k, IF k.connect_cb THEN {"early"} ELSE {})))
          /\ k.sock \in {"connecting", "failed"} => uv_mbed_close(x) = z
      BY <1>1, <1>5, CloseForms
    <2> HIDE DEF x, z
    <2> QED BY <1>2, <1>5, <2>1
  <1>7. CASE s = "none"
    <2> DEFINE p == tls_cli_ctx_release(l)
               q == tls_cli_ctx_release(p)
    <2>1. ~l.on_shutting_down
      <3> DEFINE ls == {}
      <3>1. k \in Connection /\ ls \in SUBSET Leftovers
        BY <1>5
      <3> HIDE DEF ls
      <3> DEFINE ll == LeftTo(k, ls)
      <3>2. /\ ll \in Connection /\ ll.ctx = k.ctx /\ ll.cref = k.cref
            /\ ll.cfreed = k.cfreed /\ ll.ref = k.ref /\ ll.freed = k.freed
            /\ ll.mref = k.mref /\ ll.mfreed = k.mfreed /\ ll.connect_cb = k.connect_cb
            /\ ll.on_shutting_down = k.on_shutting_down /\ ll.dns = k.dns
            /\ ll.sock = k.sock /\ ll.close_cb = k.close_cb /\ ll.connecting = k.connecting
            /\ ll.timer = k.timer /\ ll.reading = k.reading /\ ll.writable = k.writable
            /\ ll.writes = k.writes /\ ll.shutting = k.shutting
            /\ ll.handshake = k.handshake /\ ll.left = ls
        <4> HIDE DEF ll
        <4> QED BY <3>1, ConnLeftTo DEF ll
      <3>3. l = ll
        BY DEF ls
      <3> HIDE DEF ll, l
      <3> QED BY <1>2, <3>2, <3>3 DEF Bare
    <2>2. Lost(q, FALSE)
      <3> HIDE DEF q
      <3> QED BY <1>2, <1>7, BareGone DEF q
    <2> HIDE DEF l
    <2>3. Tls(y) = l /\ WithTls(y, p) = State(w, e, p)
      BY <1>1, StateFields, StateTls
    <2>4. mbed_close_done_cb(y) = State(w, e, p)
      <3> HIDE DEF y
      <3> QED BY <2>1, <2>3 DEF mbed_close_done_cb
    <2> HIDE DEF p
    <2>5. Tls(State(w, e, p)) = p /\ WithTls(State(w, e, p), q) = State(w, e, q)
      BY <1>1, StateFields, StateTls
    <2> HIDE DEF q, x, y
    <2>6. LaunchFailed(u) = State(w, e, q)
      BY <1>4, <1>6, <1>7, <2>4, <2>5 DEF q
    <2> QED BY <2>2, <2>6 DEF Dropped
  <1>8. CASE s = "failed"
    <2> DEFINE q == tls_cli_ctx_release(j)
    <2>1. Lost(q, FALSE)
      <3> HIDE DEF q
      <3> QED BY <1>2, <1>8, BareClosing DEF q
    <2> HIDE DEF j
    <2>2. Tls(z) = j /\ WithTls(z, q) = State(w, e, q)
      BY <1>1, StateFields, StateTls
    <2> HIDE DEF q, x, z
    <2>3. LaunchFailed(u) = State(w, e, q)
      BY <1>4, <1>6, <1>8, <2>2 DEF q
    <2> QED BY <2>1, <2>3 DEF Dropped
  <1> QED BY <1>7, <1>8


NotHeld(h) == h = FALSE
Launch(v) == Hold([v EXCEPT !.data.tls.ctx = TRUE])

LEMMA FormLaunch ==
    ASSUME NEW i, NEW o, NEW st, NEW h, NotHeld(h), NEW e, NEW m,
           NEW v, v = Live(i, o, st, h, e, m)
    PROVE  Launch(v) = Line(i, o, st, e, CtxTo(m))
  <1> DEFINE n == CtxTo(m)
             k == TRUE
             c == Alive(i, o, st, h)
  <1>1. h \in BOOLEAN
    BY DEF NotHeld
  <1>7. Hold(Live(i, o, st, h, e, n)) = Line(i, o, st, e, n)
    BY LiveHold DEF Line, NotHeld
  <1>2. Tls(v) = m /\ v.data.tls = m
    BY <1>1, LiveFields
  <1>3. IsCore(c) /\ v = State(c, e, m) /\ Live(i, o, st, h, e, n) = State(c, e, n)
    <2>1. IsCore(c)
      BY <1>1, AliveFacts
    <2> QED BY <2>1 DEF Live
  <1>4. WithTls(v, n) = Live(i, o, st, h, e, n)
    <2> HIDE DEF c, n
    <2>1. WithTls(State(c, e, m), n) = State(c, e, n)
      BY <1>3, StateTls
    <2> QED BY <1>3, <2>1
  <1>5. [v EXCEPT !.data.tls.ctx = k] = WithTls(v, [m EXCEPT !.ctx = k])
    <2> HIDE DEF k
    <2> QED BY <1>2 DEF WithTls
  <1>6. Launch(v) = Hold(WithTls(v, n))
    BY <1>5 DEF Launch, CtxTo
  <1> HIDE DEF n
  <1> QED BY <1>4, <1>6, <1>7 DEF n

LEMMA FormTry ==
    ASSUME NEW c, IsCore(c), NEW e, NEW n
    PROVE  try_connect_remote_svr(State(c, e, n))
             = {State(c, e, DialTo(n)),
                do_uv_mbeb_connect_cb(State(c, e, Unreached(n)), "err")}
  <1> DEFINE a == State(c, e, n)
             d == DialTo(n)
             k == Unreached(n)
  <1>1. [a EXCEPT !.data.tls.sock = "connecting", !.data.tls.connecting = TRUE,
                  !.data.tls.timer = "running"] = State(c, e, d)
    <2> HIDE DEF d, a
    <2> QED BY FormDial DEF d, a
  <1>2. [a EXCEPT !.data.tls.sock = "failed"] = State(c, e, k)
    BY FormSock DEF Unreached
  <1> HIDE DEF a, d, k
  <1>3. try_connect_remote_svr(a) = {State(c, e, d), do_uv_mbeb_connect_cb(State(c, e, k), "err")}
    BY <1>1, <1>2 DEF try_connect_remote_svr
  <1> QED BY <1>3 DEF a, d, k

LEMMA FormCreator ==
    ASSUME NEW u, NEW a, a = tls_client_allocate(GoTo(u, "tls_connecting")), NEW d, NEW f,
           try_connect_remote_svr(a) = {d, f}, Tls(d).connecting, ~Tls(f).connecting,
           NEW v \in tls_client_creator(u)
    PROVE  v \in {Launch([a EXCEPT !.data.tls.dns = TRUE]),
                  LaunchFailed(do_uv_mbeb_connect_cb(a, "err")), Launch(d), LaunchFailed(f)}
  <1>1. tls_client_creator(u)
          = {Launch([a EXCEPT !.data.tls.dns = TRUE]),
             LaunchFailed(do_uv_mbeb_connect_cb(a, "err"))}
            \cup {Launch(x) : x \in {w \in try_connect_remote_svr(a) : Tls(w).connecting}}
            \cup {LaunchFailed(x) : x \in {w \in try_connect_remote_svr(a) : ~Tls(w).connecting}}
    BY Zenon DEF tls_client_creator, Launch
  <1>2. {w \in try_connect_remote_svr(a) : Tls(w).connecting} = {d}
    OBVIOUS
  <1>3. {w \in try_connect_remote_svr(a) : ~Tls(w).connecting} = {f}
    OBVIOUS
  <1> QED BY <1>1, <1>2, <1>3

\* A tunnel whose connection is launched, or could not be.
Created(v, i, o, st, e) ==
    \/ \E m : /\ v = Line(i, o, st, e, m) /\ LiveConn(m, 0, 0)
              /\ Resolving(m) \/ Connecting(m)
    \/ Dropped(v, e)

LEMMA CreatorDone ==
    ASSUME NEW i, NEW o, NEW st, NEW h, NotHeld(h), NEW e, NEW m, m = NoTls,
           NEW sc, sc = "tls_connecting", Unlaunched(i, o, sc, h), e \in Extra,
           NEW u, u = Live(i, o, st, h, e, m), NEW v \in tls_client_creator(u)
    PROVE  Created(v, i, o, sc, e)
  <1> DEFINE c == Alive(i, o, sc, h)
             n == Alloc(m)
             a == Live(i, o, sc, h, e, n)
             nl == LookTo(n)
             al == Live(i, o, sc, h, e, nl)
             nd == DialTo(n)
             ad == Live(i, o, sc, h, e, nd)
             nf == Unreached(n)
             af == Live(i, o, sc, h, e, nf)
             w == tunnel_shutdown(c)
             rl == uv_mbed_release(tls_cli_ctx_release(CalledTo(n, n.mref + 1)))
             rf == uv_mbed_release(tls_cli_ctx_release(CalledTo(nf, nf.mref + 1)))
             fl == State(w, e, rl)
             ff == State(w, e, rf)
  <1>0. h \in BOOLEAN
    BY DEF Unlaunched
  <1>1. IsCore(c) /\ a = State(c, e, n) /\ al = State(c, e, nl) /\ ad = State(c, e, nd)
        /\ af = State(c, e, nf)
    <2>1. IsCore(c)
      BY <1>0, AliveFacts
    <2> QED BY <2>1 DEF Live
  <1>2. Bare(n, 2, 1, "none") /\ n.connect_cb
    <2> HIDE DEF n
    <2> QED BY BareNone, BareAlloc DEF n
  <1>3. tls_client_allocate(GoTo(u, sc)) = a
    <2>1. GoTo(u, sc) = Live(i, o, sc, h, e, m)
      BY <1>0, LiveGoTo
    <2>2. WithTls(Live(i, o, sc, h, e, m), n) = a
      BY <1>0, LiveData
    <2>3. Tls(Live(i, o, sc, h, e, m)) = m
      BY <1>0, LiveFields
    <2> HIDE DEF a
    <2> QED BY <2>1, <2>2, <2>3 DEF tls_client_allocate, Alloc, AllocTo
  <1> HIDE DEF n
  <1>4. [a EXCEPT !.data.tls.dns = TRUE] = al
    <2>1. a.data.tls = n
      BY <1>0, LiveFields
    <2>2. WithTls(a, nl) = al
      BY <1>0, LiveData
    <2> HIDE DEF a, al
    <2> QED BY <2>1, <2>2 DEF WithTls, LookTo
  <1>5. try_connect_remote_svr(a) = {ad, do_uv_mbeb_connect_cb(af, "err")}
    <2>1. IsCore(c)
      BY <1>1
    <2> HIDE DEF c
    <2>2. try_connect_remote_svr(State(c, e, n))
            = {State(c, e, nd), do_uv_mbeb_connect_cb(State(c, e, nf), "err")}
      BY <2>1, FormTry
    <2> HIDE DEF a, ad, af, nd, nf
    <2> QED BY <1>1, <2>2
  <1>7. Bare(nf, 2, 1, "failed") /\ nf.connect_cb
    <2> HIDE DEF nf
    <2> QED BY <1>2, BareFailed DEF nf
  <1> HIDE DEF nf, nd, nl
  <1>8. do_uv_mbeb_connect_cb(a, "err") = fl /\ Fell(w, h) /\ Bare(rl, 1, 1, "none")
        /\ ~rl.connect_cb
    <2> DEFINE s == "none"
    <2>1. Bare(n, 2, 1, s)
      BY <1>2
    <2> HIDE DEF s, a, w, rl
    <2>2. /\ n.connect_cb => do_uv_mbeb_connect_cb(a, "err") = State(w, e, rl)
          /\ Fell(w, h) /\ Bare(rl, 1, 1, s) /\ ~rl.connect_cb
      BY <2>1, ConnectFails DEF a, w, rl
    <2> QED BY <1>2, <2>2 DEF s
  <1>9. do_uv_mbeb_connect_cb(af, "err") = ff /\ Bare(rf, 1, 1, "failed") /\ ~rf.connect_cb
    <2> DEFINE s == "failed"
    <2>1. Bare(nf, 2, 1, s)
      BY <1>7
    <2> HIDE DEF s, af, w, rf
    <2>2. /\ nf.connect_cb => do_uv_mbeb_connect_cb(af, "err") = State(w, e, rf)
          /\ Fell(w, h) /\ Bare(rf, 1, 1, s) /\ ~rf.connect_cb
      BY <2>1, ConnectFails DEF af, w, rf
    <2> QED BY <1>7, <2>2 DEF s
  <1> HIDE DEF rl, rf
  <1>10. Tls(ad).connecting /\ ~Tls(ff).connecting
    <2>1. Tls(ad) = nd
      BY <1>0, LiveFields
    <2>2. Tls(ff) = rf
      BY StateFields
    <2>3. nd.connecting
      <3>1. n \in Connection
        BY <1>2 DEF Bare
      <3> DEFINE p == DialTo(n)
      <3>2. /\ p \in Connection /\ p.ctx = n.ctx /\ p.cref = n.cref /\ p.cfreed = n.cfreed
            /\ p.ref = n.ref /\ p.freed = n.freed /\ p.mref = n.mref /\ p.mfreed = n.mfreed
            /\ p.connect_cb = n.connect_cb /\ p.on_shutting_down = n.on_shutting_down
            /\ p.dns = n.dns /\ p.sock = "connecting" /\ p.close_cb = n.close_cb
            /\ p.connecting /\ p.timer = "running" /\ p.reading = n.reading
            /\ p.writable = n.writable /\ p.writes = n.writes /\ p.shutting = n.shutting
            /\ p.handshake = n.handshake /\ p.left = n.left
        BY <3>1, ConnDialTo
      <3> HIDE DEF p
      <3> QED BY <3>2 DEF p, nd
    <2>4. ~rf.connecting
      BY <1>9 DEF Bare
    <2> HIDE DEF ad, ff
    <2> QED BY <2>1, <2>2, <2>3, <2>4
  <1>11. try_connect_remote_svr(a) = {ad, ff}
    <2> HIDE DEF a, ad, af, ff
    <2> QED BY <1>5, <1>9
  <1>12. v \in {Launch(al), LaunchFailed(fl), Launch(ad), LaunchFailed(ff)}
    <2> HIDE DEF a, ad, al, fl, ff
    <2> QED BY <1>3, <1>4, <1>8, <1>10, <1>11, FormCreator
  <1>13. CASE v = Launch(al)
    <2> DEFINE k == CtxTo(nl)
    <2>1. Launch(al) = Line(i, o, sc, e, k)
      <3>1. al = Live(i, o, sc, h, e, nl)
        OBVIOUS
      <3> HIDE DEF al, k
      <3> QED BY <3>1, FormLaunch DEF k
    <2>2. LiveConn(k, 0, 0) /\ Resolving(k)
      <3> HIDE DEF k
      <3> QED BY <1>2, BareLook DEF k, nl
    <2> HIDE DEF k, al
    <2> QED BY <1>13, <2>1, <2>2 DEF Created
  <1>14. CASE v = Launch(ad)
    <2> DEFINE k == CtxTo(nd)
    <2>1. Launch(ad) = Line(i, o, sc, e, k)
      <3>1. ad = Live(i, o, sc, h, e, nd)
        OBVIOUS
      <3> HIDE DEF ad, k
      <3> QED BY <3>1, FormLaunch DEF k
    <2>2. LiveConn(k, 0, 0) /\ Connecting(k)
      <3> HIDE DEF k
      <3> QED BY <1>2, BareDial DEF k, nd
    <2> HIDE DEF k, ad
    <2> QED BY <1>14, <2>1, <2>2 DEF Created
  <1>15. CoreOver(w) /\ w.freed = FALSE /\ w.held = FALSE
    <2> HIDE DEF w
    <2> QED BY <1>8 DEF Fell, NotHeld
  <1> HIDE DEF w
  <1>16. CASE v = LaunchFailed(fl)
    <2>1. Dropped(LaunchFailed(fl), e)
      BY <1>8, <1>15, LaunchDropped
    <2> HIDE DEF fl
    <2> QED BY <1>16, <2>1 DEF Created
  <1>17. CASE v = LaunchFailed(ff)
    <2>1. Dropped(LaunchFailed(ff), e)
      BY <1>9, <1>15, LaunchDropped
    <2> HIDE DEF ff
    <2> QED BY <1>17, <2>1 DEF Created
  <1> HIDE DEF al, ad, fl, ff
  <1> QED BY <1>12, <1>13, <1>14, <1>16, <1>17


-----------------------------------------------------------------------------
(* What a handler of the tunnel's sockets leaves, before client.c's own part. *)

Fine(v) ==
    \/ Good(v) /\ ~v.is_terminated /\ ~v.freed
    \/ \E i, o, st, h, e, m : /\ Unlaunched(i, o, st, h) /\ Kept(h, m, 0, 0) /\ e \in Extra
                              /\ v = tunnel_shutdown(Live(i, o, st, h, e, m))
    \/ \E e \in Extra : Dropped(v, e)

LEMMA OverridesDropped ==
    ASSUME NEW u, ~u.is_terminated, ~u.freed, NEW v, NEW e \in Extra, Dropped(v, e)
    PROVE  Good(Overrides(u, v)) /\ v.is_terminated
  <1>1. PICK c, m : /\ v = State(c, e, m) /\ CoreOver(c) /\ c.freed = FALSE /\ c.held = FALSE
                    /\ Lost(m, FALSE)
    BY DEF Dropped
  <1>2. c.is_terminated = TRUE
    BY <1>1, CoreOverFacts
  <1>3. v.is_terminated = c.is_terminated /\ v.freed = c.freed /\ Tls(v) = m
    BY <1>1, StateFields
  <1>4. ~m.ctx
    BY <1>1 DEF Lost
  <1>5. client_tunnel_shutdown(v) = v
    BY <1>3, <1>4 DEF client_tunnel_shutdown
  <1>6. Overrides(u, v) = v
    BY <1>1, <1>2, <1>3, <1>5 DEF Overrides, Destroying
  <1>7. Over(m, c.freed, c.held, 0, 0)
    BY <1>1 DEF Over
  <1>8. Good(v)
    BY <1>1, <1>7, DeadIntro
  <1> QED BY <1>2, <1>3, <1>6, <1>8

LEMMA UnlaunchedShut ==
    ASSUME NEW u, ~u.is_terminated, ~u.freed, NEW i, NEW o, NEW st, NEW h, NEW e \in Extra,
           NEW m, Unlaunched(i, o, st, h), Kept(h, m, 0, 0), NEW v, v = Live(i, o, st, h, e, m)
    PROVE  /\ Good(Overrides(u, tunnel_shutdown(v)))
           /\ tunnel_shutdown(v).is_terminated
  <1> DEFINE c == Alive(i, o, st, h)
             w == tunnel_shutdown(c)
             z == 0
  <1>0. /\ i \in OpenSocket /\ o \in OpenSocket /\ st \in tls_stage /\ h \in BOOLEAN
        /\ NoDial(i) /\ NoDial(o)
    BY DEF Unlaunched
  <1>1. z \in Nat /\ Kept(h, m, z, z)
    OBVIOUS
  <1>2. Ends(Overrides(u, tunnel_shutdown(v)), e, z, z)
    <2> HIDE DEF z
    <2> QED BY <1>0, <1>1, ShutLive
  <1>3. Good(Overrides(u, tunnel_shutdown(v)))
    BY <1>2, EndsGood
  <1>4. IsCore(c)
    BY <1>0, AliveFacts
  <1>5. tunnel_shutdown(Whole(c, Data(e, m))) = Whole(w, Data(e, m))
    <2> HIDE DEF c
    <2> QED BY <1>4, WholeShutdown
  <1>6. CoreOver(w)
    <2> HIDE DEF w
    <2> QED BY <1>0, CoreShut DEF w
  <1> HIDE DEF w
  <1>7. w.is_terminated = TRUE
    BY <1>6, CoreOverFacts
  <1>8. Whole(w, Data(e, m)).is_terminated = w.is_terminated
    BY WholeFields
  <1> QED BY <1>3, <1>5, <1>7, <1>8 DEF Live, State

LEMMA TimerStreams ==
    ASSUME NEW i, NEW e, Streams(i, e), NEW j, j = socket_ctx_timer_start(i)
    PROVE  Streams(j, e)
  <1> DEFINE y == TRUE
             no == FALSE
             dn == "none"
             nil == <<>>
             sp == "stop"
  <1>1. ASSUME Flow(i), i.reading PROVE Flow(j) /\ j.reading
    <2> DEFINE rd == i.rdstate
               wr == i.wrstate
               rg == i.reading
               ws == i.writes
    <2>1. Sock(i, rd, wr, rg, ws, y, no, dn) /\ rd \in {"stop", "busy"} /\ wr \in {"stop", "busy"}
      BY <1>1 DEF Flow
    <2> HIDE DEF rd, wr, rg, ws, y, no, dn
    <2>2. Sock(j, rd, wr, rg, ws, y, no, dn)
      BY <2>1, SockTimer
    <2>3. j.rdstate = rd /\ j.wrstate = wr /\ j.reading = rg /\ j.writes = ws
      BY <2>2 DEF Sock
    <2>4. Sock(j, j.rdstate, j.wrstate, j.reading, j.writes, y, no, dn)
      BY <2>2, <2>3
    <2> QED BY <1>1, <2>1, <2>3, <2>4 DEF Flow, y, no, dn, rg
  <1>2. ASSUME Unused(i) PROVE Unused(j)
    <2>1. Sock(i, sp, sp, no, nil, no, no, dn)
      BY <1>2 DEF Unused
    <2> HIDE DEF sp, no, nil, dn
    <2>2. Sock(j, sp, sp, no, nil, no, no, dn)
      BY <2>1, SockTimer
    <2> QED BY <2>2 DEF Unused, sp, no, nil, dn
  <1> QED BY <1>1, <1>2 DEF Streams

\* The timer is started again behind a read.
LEMMA LiveLeave ==
    ASSUME NEW v, Good(v), ~v.is_terminated, ~v.freed,
           NEW w, w = ReadLeave(v, "incoming")
    PROVE  Good(w) /\ ~w.is_terminated /\ ~w.freed
  <1>0. LiveOK(v)
    BY DEF Good, DeadOK, CoreOver, CoreOf, Core
  <1>1. PICK i, o, st, e, m, h : /\ h \in BOOLEAN /\ v = Live(i, o, st, h, e, m)
                                 /\ StageOK(st, i, o, h, e, m)
    BY <1>0, LiveElim
  <1> DEFINE j == socket_ctx_timer_start(i)
             x == Live(j, o, st, h, e, m)
  <1>2. v.sock["incoming"] = i /\ (is_in_streaming(v) <=> st \in {"streaming", "tls_streaming"})
    <2>1. v.sock["incoming"] = i
      BY <1>1, LiveFields
    <2>2. is_in_streaming(Live(i, o, st, h, e, m)) <=> st \in {"streaming", "tls_streaming"}
      BY <1>1, LiveStreams
    <2> QED BY <1>1, <2>1, <2>2
  <1>3. Put(v, "incoming", j) = x
    BY <1>1, LivePut
  <1>4. w = v \/ (is_in_streaming(v) /\ w = x)
    <2> HIDE DEF x
    <2> QED BY <1>2, <1>3 DEF ReadLeave
  <1>5. st # "streaming"
    BY <1>1, StageFacts
  <1>6. ASSUME st = "tls_streaming" PROVE StageOK(st, j, o, h, e, m)
    <2>1. Streams(i, e) => Streams(j, e)
      <3> HIDE DEF j
      <3> QED BY TimerStreams DEF j
    <2> HIDE DEF j
    <2>2. Connected(st, i, e, m) /\ h /\ LiveConn(m, 0, 0) /\ Unused(o)
      BY <1>1, <1>6 DEF StageOK, Unconnected
    <2>3. Connected(st, j, e, m)
      BY <1>6, <2>1, <2>2 DEF Connected
    <2> QED BY <2>2, <2>3 DEF StageOK
  <1>7. ASSUME st = "tls_streaming" PROVE Good(x)
    <2> HIDE DEF j
    <2> QED BY <1>1, <1>6, <1>7, LiveIntro
  <1>8. ~x.is_terminated /\ ~x.freed
    BY <1>1, LiveFields
  <1> HIDE DEF x
  <1> QED BY <1>2, <1>4, <1>5, <1>7, <1>8

LEMMA FineGood ==
    ASSUME NEW u, ~u.is_terminated, ~u.freed, NEW v, Fine(v)
    PROVE  Good(Overrides(u, v)) /\ Good(Overrides(u, ReadLeave(v, "incoming")))
  <1> DEFINE w == ReadLeave(v, "incoming")
  <1>1. CASE Good(v) /\ ~v.is_terminated /\ ~v.freed
    <2>1. Good(w) /\ ~w.is_terminated /\ ~w.freed
      <3> HIDE DEF w
      <3> QED BY <1>1, LiveLeave DEF w
    <2> HIDE DEF w
    <2>2. Overrides(u, w) = w /\ Overrides(u, v) = v
      BY <1>1, <2>1, OverridesLive
    <2> QED BY <1>1, <2>1, <2>2 DEF w
  <1>2. ASSUME v.is_terminated PROVE w = v
    BY <1>2 DEF ReadLeave
  <1>3. CASE \E i, o, st, h, e, m :
                /\ Unlaunched(i, o, st, h) /\ Kept(h, m, 0, 0) /\ e \in Extra
                /\ v = tunnel_shutdown(Live(i, o, st, h, e, m))
    <2>1. PICK i, o, st, h, e, m :
                /\ Unlaunched(i, o, st, h) /\ Kept(h, m, 0, 0) /\ e \in Extra
                /\ v = tunnel_shutdown(Live(i, o, st, h, e, m))
      BY <1>3
    <2>2. Good(Overrides(u, v)) /\ v.is_terminated
      BY <2>1, UnlaunchedShut
    <2> HIDE DEF w
    <2> QED BY <1>2, <2>2 DEF w
  <1>4. CASE \E e \in Extra : Dropped(v, e)
    <2>1. Good(Overrides(u, v)) /\ v.is_terminated
      BY <1>4, OverridesDropped
    <2> HIDE DEF w
    <2> QED BY <1>2, <2>1 DEF w
  <1> QED BY <1>1, <1>3, <1>4 DEF Fine


-----------------------------------------------------------------------------
(* The SOCKS handshake, before there is a connection. *)

\* What was read, or written, and is not acknowledged yet.
Fed(k)     == Sock(k, "done", "stop", FALSE, <<>>, TRUE, FALSE, "none")
Emptied(k) == Sock(k, "stop", "done", FALSE, <<>>, TRUE, FALSE, "none")

LEMMA FedFacts ==
    ASSUME NEW k, Fed(k)
    PROVE  k \in OpenSocket /\ NoDial(k) /\ k.rdstate = "done" /\ Quiet(RdStop(k))
  <1> DEFINE rd == "done"
             wr == "stop"
             no == FALSE
             nil == <<>>
             y == TRUE
             dn == "none"
  <1>1. Sock(k, rd, wr, no, nil, y, no, dn)
    BY DEF Fed
  <1>2. k \in OpenSocket /\ NoDial(k) /\ k.rdstate = "done"
    BY <1>1 DEF Sock, NoDial
  <1>3. Sock(RdStop(k), "stop", wr, no, nil, y, no, dn)
    <2> HIDE DEF rd, wr, no, nil, y, dn
    <2> QED BY <1>1, SockStop
  <1> QED BY <1>2, <1>3 DEF Quiet

LEMMA DrainedFacts ==
    ASSUME NEW k, Emptied(k)
    PROVE  k \in OpenSocket /\ NoDial(k) /\ k.wrstate = "done" /\ Quiet(WrStop(k))
  <1> DEFINE rd == "stop"
             wr == "done"
             no == FALSE
             nil == <<>>
             y == TRUE
             dn == "none"
  <1>1. Sock(k, rd, wr, no, nil, y, no, dn)
    BY DEF Emptied
  <1>2. k \in OpenSocket /\ NoDial(k) /\ k.wrstate = "done"
    BY <1>1 DEF Sock, NoDial
  <1>3. Sock(WrStop(k), rd, "stop", no, nil, y, no, dn)
    <2> HIDE DEF rd, wr, no, nil, y, dn
    <2> QED BY <1>1, SockStop
  <1> QED BY <1>2, <1>3 DEF Quiet

LEMMA QuietFacts ==
    ASSUME NEW k, Quiet(k)
    PROVE  /\ k \in OpenSocket /\ NoDial(k) /\ AtRest(k) /\ k.wrstate = "stop"
           /\ CanRead(k) /\ Reading(socket_ctx_read(k, TRUE)) /\ CanWrite(k)
  <1> DEFINE sp == "stop"
             no == FALSE
             nil == <<>>
             y == TRUE
             dn == "none"
  <1>1. Sock(k, "stop", sp, FALSE, nil, TRUE, no, dn)
    BY DEF Quiet
  <1>2. k \in OpenSocket /\ NoDial(k) /\ AtRest(k) /\ k.wrstate = "stop"
    BY <1>1 DEF Sock, NoDial, AtRest
  <1>3. CanRead(k) /\ Sock(socket_ctx_read(k, y), "busy", sp, TRUE, nil, TRUE, no, dn)
    <2>1. y \in BOOLEAN
      OBVIOUS
    <2> HIDE DEF sp, no, nil, y, dn
    <2> QED BY <1>1, <2>1, SockRead
  <1>4. CanWrite(k)
    BY <1>1 DEF CanWrite, Sock, OpenSocket
  <1> QED BY <1>2, <1>3, <1>4 DEF Reading

LEMMA QuietWrite ==
    ASSUME NEW k, Quiet(k), NEW buf \in Seq(Items)
    PROVE  Writing(socket_ctx_write(k, buf))
  <1> DEFINE rd == "stop"
             wr == "stop"
             no == FALSE
             nil == <<>>
             dn == "none"
             n == socket_ctx_write(k, buf)
             ws == Append(nil, buf)
  <1>1. Sock(k, rd, wr, no, nil, TRUE, no, dn)
    BY DEF Quiet
  <1>2. buf \in Payload
    BY TlsStagesAssumption
  <1>3. Sock(n, rd, "busy", no, ws, TRUE, no, dn)
    <2> HIDE DEF rd, wr, no, nil, dn
    <2> QED BY <1>1, <1>2, SockWrite
  <1>4. ws # <<>> /\ Len(ws) = 1
    BY <1>2
  <1> HIDE DEF n, ws
  <1>5. n.writes = ws
    BY <1>3 DEF Sock
  <1>6. Sock(n, rd, "busy", no, n.writes, TRUE, no, dn)
    BY <1>3, <1>5
  <1> HIDE DEF n
  <1>7. Writing(n)
    BY <1>4, <1>5, <1>6 DEF Writing, Busy
  <1> QED BY <1>7 DEF n

LEMMA UnusedFacts ==
    ASSUME NEW k, Unused(k)
    PROVE  k \in OpenSocket /\ NoDial(k) /\ AtRest(k)
  BY DEF Unused, Sock, NoDial, AtRest

\* A tunnel without a connection.
Alone(o, h, m) == Unused(o) /\ NotHeld(h) /\ m = NoTls

LEMMA AloneLive ==
    ASSUME NEW i, NEW o, NEW st, NEW h, NEW e, NEW m, Alone(o, h, m), Unconnected(st, i, e),
           NEW v, v = Live(i, o, st, h, e, m)
    PROVE  Fine(v)
  <1>1. h \in BOOLEAN /\ StageOK(st, i, o, h, e, m)
    BY DEF Alone, NotHeld, StageOK
  <1>2. Good(v)
    BY <1>1, LiveIntro
  <1>3. ~v.is_terminated /\ ~v.freed
    BY <1>1, LiveFields
  <1> QED BY <1>2, <1>3 DEF Fine

LEMMA AloneShut ==
    ASSUME NEW i, NEW o, NEW st, NEW h, NEW e, NEW m, Alone(o, h, m), i \in OpenSocket,
           NoDial(i), st \in tls_stage, e \in Extra, NEW v, v = Live(i, o, st, h, e, m)
    PROVE  Fine(tunnel_shutdown(v))
  <1>1. Unlaunched(i, o, st, h)
    BY UnusedFacts DEF Unlaunched, Alone, NotHeld
  <1>2. Kept(h, m, 0, 0)
    BY LostNone DEF Kept, Alone, NotHeld
  <1> QED BY <1>1, <1>2 DEF Fine

\* The connection is asked for.
LEMMA AloneCreates ==
    ASSUME NEW i, NEW o, NEW st, NEW h, NEW e, NEW m, Alone(o, h, m), Quiet(i), Stored(e), ~e.udp,
           NEW u, u = Live(i, o, st, h, e, m), NEW v \in tls_client_creator(u)
    PROVE  Fine(v)
  <1> DEFINE sc == "tls_connecting"
  <1>1. e \in Extra
    BY DEF Stored, Fresh
  <1>2. Unlaunched(i, o, sc, h)
    BY QuietFacts, UnusedFacts DEF Unlaunched, Alone, NotHeld, tls_stage
  <1>3. Waits(i, e)
    BY DEF Waits
  <1>4. Created(v, i, o, sc, e)
    <2>1. NotHeld(h) /\ m = NoTls
      BY DEF Alone
    <2>2. sc = "tls_connecting"
      OBVIOUS
    <2> HIDE DEF sc
    <2> QED BY <1>1, <1>2, <2>1, <2>2, CreatorDone
  <1>5. CASE Dropped(v, e)
    BY <1>1, <1>5 DEF Fine
  <1>6. CASE \E n : /\ v = Line(i, o, sc, e, n) /\ LiveConn(n, 0, 0)
                    /\ Resolving(n) \/ Connecting(n)
    <2>1. PICK n : /\ v = Line(i, o, sc, e, n) /\ LiveConn(n, 0, 0)
                   /\ Resolving(n) \/ Connecting(n)
      BY <1>6
    <2>2. Connected(sc, i, e, n)
      BY <1>3, <2>1 DEF Connected
    <2>3. Unused(o)
      BY DEF Alone
    <2> HIDE DEF sc
    <2>4. Good(v)
      BY <2>1, <2>2, <2>3, LineGood
    <2>5. ~v.is_terminated /\ ~v.freed
      BY <2>1, LineFacts
    <2> QED BY <2>4, <2>5 DEF Fine
  <1> QED BY <1>4, <1>5, <1>6 DEF Created


Replies == {"method", "no_method", "success", "assoc"}

LEMMA ReplyItems ==
    ASSUME NEW x \in Replies
    PROVE  Reply(x) \in Items /\ <<Reply(x)>> \in Seq(Items) /\ <<Reply(x)>>[1].kind # "srv"
           /\ Len(<<Reply(x)>>) = 1
  <1>1. Reply(x) \in Items
    BY DEF Items, Replies
  <1>2. Reply(x).kind # "srv"
    BY DEF Reply, Item, Replies
  <1> HIDE DEF Reply
  <1> QED BY <1>1, <1>2

\* A reply leaves the rest of client_ctx as it is.
LEMMA Replied ==
    ASSUME NEW e, Greeted(e), NEW x \in Replies, NEW f, f = SaidIn(e, <<Reply(x)>>)
    PROVE  Greeted(f) /\ f.app = e.app /\ f.shortcut = e.shortcut /\ f.udp = e.udp
  <1> DEFINE p == <<Reply(x)>>
             q == e.sent["incoming"]
             r == f.sent["incoming"]
  <1>0. e \in Extra /\ p \in Seq(Items) /\ p[1].kind # "srv" /\ Len(p) = 1
    BY ReplyItems DEF Greeted, Fresh
  <1> HIDE DEF p
  <1>1. /\ f \in Extra /\ f.shortcut = e.shortcut /\ f.first = e.first
        /\ f.app = e.app /\ f.bad = e.bad /\ f.udp = e.udp /\ f.deque = e.deque
        /\ f.half = e.half /\ f.eof = e.eof /\ f.got = e.got
        /\ f.sent["incoming"] = e.sent["incoming"] \o p
        /\ f.sent["outgoing"] = e.sent["outgoing"]
    BY <1>0, SaidFacts DEF p
  <1>2. q \in Seq(Items)
    BY <1>0, ExtraFields
  <1>3. e.half = 0 /\ e.got = 0 /\ Down(e)
    BY DEF Greeted, Fresh
  <1>4. \A j \in 1 .. Len(q) : q[j].kind # "srv"
    <2>1. e.got \div 2 = 0 /\ Len(q) \in Nat
      BY <1>2, <1>3
    <2> QED BY <1>3, <2>1 DEF Down
  <1>5. /\ Len(r) = Len(q) + 1 /\ Len(q) \in Nat
        /\ \A j \in 1 .. Len(q) : r[j] = q[j]
        /\ r[Len(q) + 1] = p[1]
    <2>1. r = q \o p
      BY <1>1
    <2>2. /\ Len(q \o p) = Len(q) + Len(p)
          /\ \A j \in 1 .. Len(q) : (q \o p)[j] = q[j]
          /\ \A j \in 1 .. Len(p) : (q \o p)[Len(q) + j] = p[j]
      <3> HIDE DEF q
      <3> QED BY <1>0, <1>2, ConcatFacts
    <2> HIDE DEF q, r
    <2> QED BY <1>0, <1>2, <2>1, <2>2
  <1>6. \A j \in 1 .. Len(r) : r[j].kind # "srv"
    <2> HIDE DEF q, r
    <2>1. ASSUME NEW j \in 1 .. Len(r) PROVE r[j].kind # "srv"
      <3>1. j \in 1 .. Len(q) \/ j = Len(q) + 1
        BY <1>5
      <3> QED BY <1>0, <1>4, <1>5, <3>1
    <2> QED BY <2>1
  <1>7. Down(f)
    <2>1. f.got \div 2 = 0 /\ f.got % 2 = 0 /\ f.half = 0 /\ Len(r) \in Nat
      BY <1>1, <1>3, <1>5
    <2>2. Len(r) - 0 = Len(r)
      BY <2>1
    <2> QED BY <1>6, <2>1, <2>2 DEF Down
  <1>8. Fresh(f)
    BY <1>1, <1>7 DEF Fresh, Greeted
  <1> QED BY <1>1, <1>8 DEF Greeted

\* The request came behind the greeting, perhaps with data.
Short(e, q) == AppTo(FirstTo(ShortcutTo(e, TRUE), q), Len(q))

LEMMA Shortened ==
    ASSUME NEW e, Greeting(e), NEW q \in {<<>>, <<AppData(1)>>}, NEW f, f = Short(e, q)
    PROVE  Greeted(f) /\ f.shortcut /\ q \in Seq(Items) /\ Len(q) \in 0 .. MaxData
           /\ ShortcutTo(e, TRUE) \in Extra /\ FirstTo(ShortcutTo(e, TRUE), q) \in Extra
  <1> DEFINE y == TRUE
             n == Len(q)
             a == ShortcutTo(e, y)
             b == FirstTo(a, q)
             c == AppTo(b, n)
  <1>0. e \in Extra /\ MaxData \in Nat /\ MaxData > 0 /\ y \in BOOLEAN
    BY MaxDataAssumption DEF Greeting, Greeted, Fresh
  <1>1. AppData(1) \in Items /\ <<AppData(1)>> \in Seq(Items)
    <2>1. 1 \in 1 .. MaxData
      BY <1>0
    <2> QED BY <2>1, AppItems
  <1>2. q \in Seq(Items) /\ n \in 0 .. MaxData /\ q = Apps(n)
    <2>1. Apps(0) = <<>> /\ <<>> \in Seq(Items)
      BY AppsStep
    <2>2. Apps(0) \o <<AppData(1)>> = Apps(1)
      <3>1. 0 \in 0 .. MaxData /\ 0 + 1 \in 1 .. MaxData /\ 0 + 1 = 1
        BY <1>0
      <3> QED BY <3>1, AppsStep
    <2>3. <<>> \o <<AppData(1)>> = <<AppData(1)>>
      <3> DEFINE p == <<AppData(1)>>
      <3>1. p \in Seq(Items)
        BY <1>1
      <3> HIDE DEF p
      <3>2. <<>> \o p = p
        BY <3>1, ConcatEmptySeq
      <3> QED BY <3>2 DEF p
    <2>4. <<AppData(1)>> = Apps(1)
      BY <2>1, <2>2, <2>3
    <2>5. Len(<<>>) = 0 /\ Len(<<AppData(1)>>) = 1
      OBVIOUS
    <2>6. CASE q = <<>>
      <3>1. n = 0 /\ n \in 0 .. MaxData
        BY <1>0, <2>5, <2>6
      <3> QED BY <2>1, <2>6, <3>1
    <2>7. CASE q = <<AppData(1)>>
      <3>1. n = 1 /\ n \in 0 .. MaxData
        BY <1>0, <2>5, <2>7
      <3> HIDE DEF Apps
      <3> QED BY <1>1, <2>4, <2>7, <3>1
    <2> QED BY <2>6, <2>7
  <1> HIDE DEF y, n
  <1>3. /\ a \in Extra /\ a.shortcut = y /\ a.first = e.first
        /\ a.app = e.app /\ a.sent = e.sent /\ a.bad = e.bad /\ a.udp = e.udp
        /\ a.deque = e.deque /\ a.half = e.half /\ a.eof = e.eof /\ a.got = e.got
    BY <1>0, ExtraShortcut
  <1> HIDE DEF a
  <1>4. /\ b \in Extra /\ b.shortcut = a.shortcut /\ b.first = q
        /\ b.app = a.app /\ b.sent = a.sent /\ b.bad = a.bad /\ b.udp = a.udp
        /\ b.deque = a.deque /\ b.half = a.half /\ b.eof = a.eof /\ b.got = a.got
    BY <1>2, <1>3, ExtraFirst
  <1> HIDE DEF b
  <1>5. /\ c \in Extra /\ c.shortcut = b.shortcut /\ c.first = b.first
        /\ c.app = n /\ c.sent = b.sent /\ c.bad = b.bad /\ c.udp = b.udp
        /\ c.deque = b.deque /\ c.half = b.half /\ c.eof = b.eof /\ c.got = b.got
    BY <1>2, <1>4, ExtraApp
  <1> HIDE DEF c
  <1>6. Fresh(e) => Fresh(c)
    BY <1>0, <1>3, <1>4, <1>5, FreshKept
  <1>7. Greeted(c) /\ c.shortcut
    BY <1>2, <1>3, <1>4, <1>5, <1>6 DEF Greeted, Greeting, y
  <1> QED BY <1>2, <1>3, <1>4, <1>7 DEF Short, a, b, c, n, y

\* The first packet of the application.
FirstIn(e, n) == AppTo(FirstTo(e, <<AppData(n)>>), n)

LEMMA FirstStored ==
    ASSUME NEW e, Greeting(e), NEW n, n = e.app + 1, n \in 1 .. MaxData, NEW f, f = FirstIn(e, n)
    PROVE  Stored(f) /\ ~f.udp /\ FirstTo(e, <<AppData(n)>>) \in Extra
  <1> DEFINE q == <<AppData(n)>>
             b == FirstTo(e, q)
             c == AppTo(b, n)
  <1>0. e \in Extra /\ MaxData \in Nat /\ e.app = 0 /\ n = 1
    BY MaxDataAssumption DEF Greeting, Greeted, Fresh
  <1>1. q \in Seq(Items)
    BY AppItems
  <1>2. q = Apps(n)
    <2>1. Apps(0) = <<>>
      BY AppsStep
    <2>2. Apps(0) \o <<AppData(1)>> = Apps(1)
      <3>1. 0 \in 0 .. MaxData /\ 0 + 1 \in 1 .. MaxData /\ 0 + 1 = 1
        BY <1>0
      <3> QED BY <3>1, AppsStep
    <2>3. <<>> \o q = q
      <3> HIDE DEF q
      <3> QED BY <1>1, ConcatEmptySeq
    <2> HIDE DEF Apps
    <2> QED BY <1>0, <2>1, <2>2, <2>3
  <1>3. n \in 0 .. MaxData
    BY <1>0
  <1> HIDE DEF q
  <1>4. /\ b \in Extra /\ b.shortcut = e.shortcut /\ b.first = q
        /\ b.app = e.app /\ b.sent = e.sent /\ b.bad = e.bad /\ b.udp = e.udp
        /\ b.deque = e.deque /\ b.half = e.half /\ b.eof = e.eof /\ b.got = e.got
    BY <1>0, <1>1, ExtraFirst
  <1> HIDE DEF b
  <1>5. /\ c \in Extra /\ c.shortcut = b.shortcut /\ c.first = b.first
        /\ c.app = n /\ c.sent = b.sent /\ c.bad = b.bad /\ c.udp = b.udp
        /\ c.deque = b.deque /\ c.half = b.half /\ c.eof = b.eof /\ c.got = b.got
    BY <1>3, <1>4, ExtraApp
  <1> HIDE DEF c
  <1>6. Fresh(e) => Fresh(c)
    BY <1>0, <1>4, <1>5, FreshKept
  <1>7. Stored(c) /\ ~c.udp
    BY <1>2, <1>4, <1>5, <1>6 DEF Stored, Greeted, Greeting
  <1> QED BY <1>4, <1>7 DEF FirstIn, b, c, q

LEMMA GreetedStored ==
    ASSUME NEW e, Greeted(e)
    PROVE  Stored(e) /\ ~e.udp /\ e \in Extra /\ (e.first = <<>> => Greeting(e))
  <1>1. Stored(e) /\ ~e.udp /\ e \in Extra
    BY DEF Greeted, Stored, Fresh
  <1>2. e.app \in 0 .. MaxData /\ MaxData \in Nat
    BY <1>1, ExtraFields, MaxDataAssumption
  <1>3. ASSUME e.first = <<>> PROVE e.app = 0
    <2>1. Apps(e.app) = <<>>
      BY <1>3 DEF Greeted
    <2>2. \A n \in 0 .. MaxData : n > 0 => Apps(n) # <<>>
      BY AppsStep
    <2> HIDE DEF Apps
    <2> QED BY <1>2, <2>1, <2>2
  <1> QED BY <1>1, <1>3 DEF Greeting


\* A reply is written, and the stage left.
After(nx, e) ==
    \/ nx \in {"s5_udp_accoc", "s5_response_done", "kill"}
    \/ nx = "handshake_replied" /\ (e.shortcut \/ e.app = 0)

LEMMA AloneReplies ==
    ASSUME NEW i, NEW o, NEW st, NEW h, NEW e, NEW m, Alone(o, h, m), Quiet(i), Greeted(e),
           NEW x \in Replies, NEW nx, After(nx, e), NEW u, u = Live(i, o, st, h, e, m)
    PROVE  Fine(GoTo(Write(u, "incoming", <<Reply(x)>>), nx))
  <1> DEFINE p == <<Reply(x)>>
             f == SaidIn(e, p)
             k == socket_ctx_write(i, p)
             v == Live(k, o, nx, h, f, m)
  <1>0. h \in BOOLEAN /\ e \in Extra /\ p \in Seq(Items)
    BY ReplyItems DEF Alone, NotHeld, Greeted, Fresh
  <1>1. Greeted(f) /\ f.app = e.app /\ f.shortcut = e.shortcut
    <2> HIDE DEF f
    <2> QED BY Replied DEF f
  <1>2. CanWrite(i) /\ i.wrstate = "stop"
    BY QuietFacts
  <1> HIDE DEF p
  <1>3. Writing(k)
    BY <1>0, QuietWrite
  <1>4. Write(u, "incoming", p) = Live(k, o, st, h, f, m)
    BY <1>0, <1>2, LiveWrite
  <1> HIDE DEF k, f
  <1>5. GoTo(Live(k, o, st, h, f, m), nx) = v
    BY <1>0, LiveGoTo
  <1>6. Unconnected(nx, k, f)
    BY <1>1, <1>3 DEF Unconnected, After
  <1>7. Fine(v)
    BY <1>6, AloneLive
  <1> QED BY <1>4, <1>5, <1>7 DEF p

LEMMA AloneReads ==
    ASSUME NEW i, NEW o, NEW st, NEW h, NEW e, NEW m, Alone(o, h, m), Quiet(i), Greeting(e),
           NEW nx, nx \in {"s5_request_from_client_app", "client_first_pkg"},
           NEW u, u = Live(i, o, st, h, e, m)
    PROVE  Fine(GoTo(Read(u, "incoming", TRUE), nx))
  <1> DEFINE b == TRUE
             k == socket_ctx_read(i, b)
             v == Live(k, o, nx, h, e, m)
  <1>0. h \in BOOLEAN
    BY DEF Alone, NotHeld
  <1>1. CanRead(i) /\ Reading(k)
    BY QuietFacts
  <1> HIDE DEF b
  <1>2. Read(u, "incoming", b) = Live(k, o, st, h, e, m)
    BY <1>0, <1>1, LiveRead
  <1> HIDE DEF k
  <1>3. GoTo(Live(k, o, st, h, e, m), nx) = v
    BY <1>0, LiveGoTo
  <1>4. Unconnected(nx, k, e)
    BY <1>1 DEF Unconnected
  <1>5. Fine(v)
    BY <1>4, AloneLive
  <1> QED BY <1>2, <1>3, <1>5 DEF b

LEMMA AloneIdle ==
    ASSUME NEW i, NEW o, NEW st, NEW h, NEW e, NEW m, Alone(o, h, m), Quiet(i),
           NEW u, u = Live(i, o, st, h, e, m)
    PROVE  Idle(u, {"incoming"}) = u /\ Idle(u, Side) = u
  <1>1. h \in BOOLEAN /\ AtRest(i) /\ AtRest(o)
    BY QuietFacts, UnusedFacts DEF Alone, NotHeld
  <1>2. {"incoming"} \in SUBSET Side /\ Side \in SUBSET Side
    BY DEF Side
  <1> QED BY <1>1, <1>2, LiveIdle

ShortIn(u, q) == [u EXCEPT !.data.shortcut = TRUE, !.data.first = q, !.data.app = Len(q)]

LEMMA FormShort ==
    ASSUME NEW i, NEW o, NEW st, NEW h, NEW e, NEW m, Alone(o, h, m), Greeting(e),
           NEW q \in {<<>>, <<AppData(1)>>}, NEW u, u = Live(i, o, st, h, e, m)
    PROVE  ShortIn(u, q) = Live(i, o, st, h, Short(e, q), m)
  <1> DEFINE y == TRUE
             n == Len(q)
             a == ShortcutTo(e, y)
             b == FirstTo(a, q)
             c == AppTo(b, n)
  <1>0. h \in BOOLEAN /\ e \in Extra /\ a \in Extra /\ b \in Extra
    <2>1. h \in BOOLEAN /\ e \in Extra
      BY DEF Alone, NotHeld, Greeting, Greeted, Fresh
    <2> QED BY <2>1, Shortened
  <1>1. c = Short(e, q)
    BY DEF Short
  <1>2. ShortIn(u, q) = WithApp(WithFirst(WithShortcut(u, y), q), n)
    BY DEF ShortIn, WithApp, WithFirst, WithShortcut
  <1> HIDE DEF y, n
  <1>3. WithShortcut(u, y) = Live(i, o, st, h, a, m)
    BY <1>0, LiveData
  <1> HIDE DEF a
  <1>4. WithFirst(Live(i, o, st, h, a, m), q) = Live(i, o, st, h, b, m)
    BY <1>0, LiveData
  <1> HIDE DEF b
  <1>5. WithApp(Live(i, o, st, h, b, m), n) = Live(i, o, st, h, c, m)
    BY <1>0, LiveData
  <1> HIDE DEF c
  <1> QED BY <1>1, <1>2, <1>3, <1>4, <1>5

LEMMA AtGreeting ==
    ASSUME NEW i, NEW o, NEW st, NEW h, NEW e, NEW m, Alone(o, h, m), Quiet(i), Greeting(e),
           st \in tls_stage, NEW u, u = Live(i, o, st, h, e, m), NEW v \in do_s5_handshake(u)
    PROVE  Fine(v)
  <1> DEFINE Accept(w) == GoTo(Write(w, "incoming", <<Reply("method")>>), "handshake_replied")
             x == "method"
             z == "no_method"
             nx == "handshake_replied"
             nz == "kill"
  <1>0. x \in Replies /\ z \in Replies /\ After(nz, e)
    BY DEF Replies, After
  <1>1. e \in Extra /\ Greeted(e) /\ e.app = 0
    BY DEF Greeting, Greeted, Fresh
  <1>2. Idle(u, {"incoming"}) = u
    BY AloneIdle
  <1>3. i \in OpenSocket /\ NoDial(i)
    BY QuietFacts
  <1>4. v \in {tunnel_shutdown(u), GoTo(Write(u, "incoming", <<Reply(z)>>), nz), Accept(u)}
              \cup {Accept(ShortIn(u, q)) : q \in {<<>>, <<AppData(1)>>}}
    BY <1>2 DEF do_s5_handshake, ShortIn
  <1>5. Fine(tunnel_shutdown(u))
    BY <1>1, <1>3, AloneShut
  <1>6. Fine(GoTo(Write(u, "incoming", <<Reply(z)>>), nz))
    <2> HIDE DEF z, nz
    <2> QED BY <1>0, <1>1, AloneReplies
  <1>7. Fine(Accept(u))
    <2>1. After(nx, e)
      BY <1>1 DEF After
    <2> HIDE DEF x, nx
    <2>2. Fine(GoTo(Write(u, "incoming", <<Reply(x)>>), nx))
      BY <1>0, <1>1, <2>1, AloneReplies
    <2> QED BY <2>2 DEF x, nx
  <1>8. ASSUME NEW q \in {<<>>, <<AppData(1)>>} PROVE Fine(Accept(ShortIn(u, q)))
    <2> DEFINE f == Short(e, q)
               w == Live(i, o, st, h, f, m)
    <2>1. ShortIn(u, q) = w
      BY FormShort
    <2>2. Greeted(f) /\ f.shortcut
      <3> HIDE DEF f
      <3> QED BY Shortened DEF f
    <2> HIDE DEF f
    <2>3. After(nx, f)
      BY <2>2 DEF After
    <2> HIDE DEF x, nx
    <2>4. Fine(GoTo(Write(w, "incoming", <<Reply(x)>>), nx))
      BY <1>0, <2>2, <2>3, AloneReplies
    <2> HIDE DEF w
    <2> QED BY <2>1, <2>4 DEF x, nx
  <1> QED BY <1>4, <1>5, <1>6, <1>7, <1>8

\* The success reply; the wait for the request; the request.
LEMMA AtAccepted ==
    ASSUME NEW i, NEW o, NEW st, NEW h, NEW e, NEW m, Alone(o, h, m), Quiet(i), Greeted(e),
           NEW u, u = Live(i, o, st, h, e, m)
    PROVE  /\ Fine(do_socks5_reply_success(u))
           /\ Greeting(e) => Fine(do_wait_client_app_s5_request(u))
  <1> DEFINE x == "success"
             nx == "s5_response_done"
             nr == "s5_request_from_client_app"
  <1>0. x \in Replies /\ After(nx, e)
    BY DEF Replies, After
  <1>1. Idle(u, {"incoming"}) = u /\ Idle(u, Side) = u
    BY AloneIdle
  <1>2. Fine(GoTo(Write(u, "incoming", <<Reply(x)>>), nx))
    <2> HIDE DEF x, nx
    <2> QED BY <1>0, AloneReplies
  <1>3. ASSUME Greeting(e) PROVE Fine(GoTo(Read(u, "incoming", TRUE), nr))
    BY <1>3, AloneReads
  <1> QED BY <1>1, <1>2, <1>3 DEF do_socks5_reply_success, do_wait_client_app_s5_request

LEMMA AtRequest ==
    ASSUME NEW i, NEW o, NEW st, NEW h, NEW e, NEW m, Alone(o, h, m), Quiet(i), Greeted(e),
           st \in tls_stage, NEW u, u = Live(i, o, st, h, e, m),
           NEW v \in do_parse_s5_request_from_client_app(u)
    PROVE  Fine(v)
  <1> DEFINE x == "assoc"
             nx == "s5_udp_accoc"
  <1>0. x \in Replies /\ After(nx, e) /\ e \in Extra
    BY DEF Replies, After, Greeted, Fresh
  <1>1. Idle(u, Side) = u
    BY AloneIdle
  <1>2. v \in {tunnel_shutdown(u), GoTo(Write(u, "incoming", <<Reply(x)>>), nx),
               do_socks5_reply_success(u)}
    BY <1>1 DEF do_parse_s5_request_from_client_app
  <1>3. Fine(tunnel_shutdown(u))
    BY <1>0, QuietFacts, AloneShut
  <1>4. Fine(GoTo(Write(u, "incoming", <<Reply(x)>>), nx))
    <2> HIDE DEF x, nx
    <2> QED BY <1>0, AloneReplies
  <1>5. Fine(do_socks5_reply_success(u))
    BY AtAccepted
  <1> HIDE DEF x, nx
  <1> QED BY <1>2, <1>3, <1>4, <1>5


FirstPacket(u, p) == [u EXCEPT !.data.first = <<p>>, !.data.app = @ + 1]

LEMMA FormFirst ==
    ASSUME NEW i, NEW o, NEW st, NEW h, NEW e, NEW m, Alone(o, h, m), Greeting(e),
           NEW n, n = e.app + 1, n \in 1 .. MaxData, NEW p, p = AppData(n),
           NEW u, u = Live(i, o, st, h, e, m)
    PROVE  FirstPacket(u, p) = Live(i, o, st, h, FirstIn(e, n), m)
  <1> DEFINE q == <<p>>
             b == FirstTo(e, q)
             c == AppTo(b, n)
  <1>0. h \in BOOLEAN /\ e \in Extra
    BY DEF Alone, NotHeld, Greeting, Greeted, Fresh
  <1>1. b \in Extra
    BY FirstStored
  <1>2. c = FirstIn(e, n)
    BY DEF FirstIn
  <1>3. u.data.app = e.app
    BY LiveExtra
  <1>4. FirstPacket(u, p) = WithApp(WithFirst(u, q), n)
    BY <1>3 DEF FirstPacket, WithApp, WithFirst
  <1> HIDE DEF q
  <1>5. WithFirst(u, q) = Live(i, o, st, h, b, m)
    BY <1>0, LiveData
  <1> HIDE DEF b
  <1>6. WithApp(Live(i, o, st, h, b, m), n) = Live(i, o, st, h, c, m)
    BY <1>0, <1>1, LiveData
  <1> HIDE DEF c
  <1> QED BY <1>2, <1>4, <1>5, <1>6

LEMMA FormFirstPkg ==
    ASSUME NEW u, NEW st, st = "client_first_pkg", u.stage = st, NEW s,
           NEW v \in tunnel_tls_dispatcher(u, s)
    PROVE  \E p \in NextApp(u) : v \in tls_client_creator(FirstPacket(AckRead(u, "incoming"), p))
  <1> DEFINE F(p) == [AckRead(u, "incoming") EXCEPT !.data.first = <<p>>, !.data.app = @ + 1]
  <1>1. tunnel_tls_dispatcher(u, s) = UNION {tls_client_creator(F(p)) : p \in NextApp(u)}
    <2> HIDE DEF F
    <2> QED BY DEF tunnel_tls_dispatcher, F
  <1>2. \A p : F(p) = FirstPacket(AckRead(u, "incoming"), p)
    BY DEF FirstPacket
  <1> HIDE DEF F
  <1> QED BY <1>1, <1>2

\* The dispatcher behind a read of the handshake.
LEMMA DispatchFed ==
    ASSUME NEW j, NEW o, NEW st, NEW h, NEW e, NEW m, Alone(o, h, m), Fed(j), Greeting(e),
           st \in {"handshake", "s5_request_from_client_app", "client_first_pkg"},
           NEW u, u = Live(j, o, st, h, e, m), NEW v \in tunnel_tls_dispatcher(u, "incoming")
    PROVE  Fine(v)
  <1> DEFINE i == RdStop(j)
             a == Live(i, o, st, h, e, m)
  <1>0. h \in BOOLEAN /\ e \in Extra /\ Greeted(e) /\ st \in tls_stage
    BY DEF Alone, NotHeld, Greeting, Greeted, Fresh, tls_stage, tunnel_stage
  <1>1. Quiet(i) /\ j.rdstate = "done"
    BY FedFacts
  <1>2. u.stage = st
    BY <1>0, LiveFields
  <1>3. AckRead(u, "incoming") = a
    BY <1>0, <1>1, LiveAck
  <1>4. u.data.app = e.app
    BY LiveExtra
  <1> HIDE DEF i
  <1>5. CASE st = "handshake"
    <2>1. v \in tunnel_ssr_dispatcher(u, "incoming")
      BY <1>2, <1>5 DEF tunnel_tls_dispatcher
    <2>2. v \in do_s5_handshake(a)
      <3> HIDE DEF a
      <3> QED BY <1>2, <1>3, <1>5, <2>1 DEF tunnel_ssr_dispatcher
    <2> QED BY <1>0, <1>1, <2>2, AtGreeting
  <1>6. CASE st = "s5_request_from_client_app"
    <2>1. v \in tunnel_ssr_dispatcher(u, "incoming")
      BY <1>2, <1>6 DEF tunnel_tls_dispatcher
    <2>2. v \in do_parse_s5_request_from_client_app(a)
      <3> HIDE DEF a
      <3> QED BY <1>2, <1>3, <1>6, <2>1 DEF tunnel_ssr_dispatcher
    <2> QED BY <1>0, <1>1, <2>2, AtRequest
  <1>7. CASE st = "client_first_pkg"
    <2>1. PICK p \in NextApp(u) : v \in tls_client_creator(FirstPacket(a, p))
      <3> HIDE DEF a
      <3> QED BY <1>2, <1>3, <1>7, FormFirstPkg
    <2> DEFINE n == e.app + 1
               f == FirstIn(e, n)
               b == Live(i, o, st, h, f, m)
    <2>2. n \in 1 .. MaxData /\ p = AppData(n)
      BY <1>4 DEF NextApp
    <2>3. n = e.app + 1
      OBVIOUS
    <2> HIDE DEF n
    <2>4. FirstPacket(a, p) = b
      BY <2>2, <2>3, FormFirst
    <2>5. Stored(f) /\ ~f.udp
      <3> HIDE DEF f
      <3> QED BY <2>2, <2>3, FirstStored DEF f
    <2> HIDE DEF f
    <2>6. v \in tls_client_creator(b)
      <3> HIDE DEF a, b
      <3> QED BY <2>1, <2>4
    <2> QED BY <1>1, <2>5, <2>6, AloneCreates
  <1> QED BY <1>5, <1>6, <1>7

\* The dispatcher behind a write of the handshake.
LEMMA DispatchDrained ==
    ASSUME NEW j, NEW o, NEW st, NEW h, NEW e, NEW m, Alone(o, h, m), Emptied(j), Greeted(e),
           \/ st \in {"s5_udp_accoc", "s5_response_done", "kill"}
           \/ st = "handshake_replied" /\ (e.shortcut \/ e.app = 0),
           NEW u, u = Live(j, o, st, h, e, m), NEW v \in tunnel_tls_dispatcher(u, "incoming")
    PROVE  Fine(v)
  <1> DEFINE i == WrStop(j)
             a == Live(i, o, st, h, e, m)
  <1>0. h \in BOOLEAN /\ e \in Extra /\ st \in tls_stage
    BY DEF Alone, NotHeld, Greeted, Fresh, tls_stage, tunnel_stage
  <1>1. Quiet(i) /\ j.wrstate = "done" /\ j \in OpenSocket /\ NoDial(j)
    BY DrainedFacts
  <1>2. u.stage = st
    BY <1>0, LiveFields
  <1>3. AckWrite(u, "incoming") = a
    BY <1>0, <1>1, LiveAck
  <1>4. u.data.shortcut = e.shortcut /\ u.data.first = e.first
    BY LiveExtra
  <1>5. i \in OpenSocket /\ NoDial(i)
    BY <1>1, QuietFacts
  <1> HIDE DEF i
  <1>6. CASE st = "handshake_replied"
    <2>1. v \in tunnel_ssr_dispatcher(u, "incoming")
      BY <1>2, <1>6 DEF tunnel_tls_dispatcher
    <2>2. v = IF e.shortcut THEN do_socks5_reply_success(a) ELSE do_wait_client_app_s5_request(a)
      <3> HIDE DEF a
      <3> QED BY <1>2, <1>3, <1>4, <1>6, <2>1 DEF tunnel_ssr_dispatcher
    <2>3. ~e.shortcut => Greeting(e)
      BY <1>6 DEF Greeting
    <2>4. Fine(do_socks5_reply_success(a)) /\ (Greeting(e) => Fine(do_wait_client_app_s5_request(a)))
      BY <1>1, AtAccepted
    <2> HIDE DEF a
    <2> QED BY <2>2, <2>3, <2>4
  <1>7. CASE st = "s5_udp_accoc"
    <2>1. v \in tunnel_ssr_dispatcher(u, "incoming")
      BY <1>2, <1>7 DEF tunnel_tls_dispatcher
    <2>2. v = tunnel_shutdown(a)
      <3> HIDE DEF a
      <3> QED BY <1>2, <1>3, <1>7, <2>1 DEF tunnel_ssr_dispatcher
    <2>3. Fine(tunnel_shutdown(a))
      BY <1>0, <1>5, AloneShut
    <2> HIDE DEF a
    <2> QED BY <2>2, <2>3
  <1>8. CASE st = "kill"
    <2>1. v \in tunnel_ssr_dispatcher(u, "incoming")
      BY <1>2, <1>8 DEF tunnel_tls_dispatcher
    <2>2. v = tunnel_shutdown(u)
      BY <1>2, <1>8, <2>1 DEF tunnel_ssr_dispatcher
    <2>3. Fine(tunnel_shutdown(u))
      BY <1>0, <1>1, AloneShut
    <2> QED BY <2>2, <2>3
  <1>9. CASE st = "s5_response_done"
    <2> DEFINE nx == "client_first_pkg"
    <2>1. v \in IF e.first # <<>> THEN tls_client_creator(a)
                ELSE {GoTo(Read(a, "incoming", TRUE), nx)}
      <3> HIDE DEF a
      <3> QED BY <1>2, <1>3, <1>4, <1>9 DEF tunnel_tls_dispatcher
    <2>2. Stored(e) /\ ~e.udp /\ (e.first = <<>> => Greeting(e))
      BY GreetedStored
    <2>3. CASE e.first # <<>>
      <3>1. v \in tls_client_creator(a)
        BY <2>1, <2>3
      <3> QED BY <1>1, <2>2, <3>1, AloneCreates
    <2>4. CASE e.first = <<>>
      <3>1. v = GoTo(Read(a, "incoming", TRUE), nx)
        BY <2>1, <2>4
      <3>2. Fine(GoTo(Read(a, "incoming", TRUE), nx))
        BY <1>1, <2>2, <2>4, AloneReads
      <3> HIDE DEF a, nx
      <3> QED BY <3>1, <3>2
    <2> QED BY <2>3, <2>4
  <1> QED BY <1>6, <1>7, <1>8, <1>9


-----------------------------------------------------------------------------
(* The socket of the application while data flows. *)

FlowFed(k) ==
    /\ Sock(k, "done", k.wrstate, TRUE, k.writes, TRUE, FALSE, "none")
    /\ k.wrstate \in {"stop", "busy"}
FlowDrained(k) ==
    /\ Sock(k, k.rdstate, "done", TRUE, k.writes, TRUE, FALSE, "none")
    /\ k.rdstate \in {"stop", "busy"}

LEMMA FlowFedFacts ==
    ASSUME NEW k, FlowFed(k)
    PROVE  /\ Flow(RdStop(k)) /\ RdStop(k).reading /\ k.rdstate = "done" /\ k.wrstate # "done"
           /\ RdStop(k) \in OpenSocket /\ NoDial(RdStop(k))
  <1> DEFINE rd == "done"
             wr == k.wrstate
             y == TRUE
             ws == k.writes
             no == FALSE
             dn == "none"
             j == RdStop(k)
  <1>1. Sock(k, rd, wr, y, ws, y, no, dn) /\ k.rdstate = "done" /\ wr \in {"stop", "busy"}
    BY DEF FlowFed, Sock
  <1>2. Sock(j, "stop", wr, y, ws, y, no, dn)
    <2> HIDE DEF rd, wr, y, ws, no, dn
    <2> QED BY <1>1, SockStop
  <1> HIDE DEF j, wr, ws
  <1>3. j.rdstate = "stop" /\ j.wrstate = wr /\ j.reading = y /\ j.writes = ws /\ j \in OpenSocket
        /\ NoDial(j)
    BY <1>2 DEF Sock, NoDial
  <1>4. Sock(j, j.rdstate, j.wrstate, j.reading, j.writes, TRUE, FALSE, "none")
    BY <1>2, <1>3
  <1>5. Flow(j) /\ j.reading
    BY <1>1, <1>3, <1>4 DEF Flow
  <1> QED BY <1>1, <1>3, <1>5 DEF j, wr

LEMMA FlowDrainedFacts ==
    ASSUME NEW k, FlowDrained(k)
    PROVE  Flow(WrStop(k)) /\ WrStop(k).reading /\ k.wrstate = "done"
  <1> DEFINE rd == k.rdstate
             wr == "done"
             y == TRUE
             ws == k.writes
             no == FALSE
             dn == "none"
             j == WrStop(k)
  <1>1. Sock(k, rd, wr, y, ws, y, no, dn) /\ k.wrstate = "done" /\ rd \in {"stop", "busy"}
    BY DEF FlowDrained, Sock
  <1>2. Sock(j, rd, "stop", y, ws, y, no, dn)
    <2> HIDE DEF rd, wr, y, ws, no, dn
    <2> QED BY <1>1, SockStop
  <1> HIDE DEF j, rd, ws
  <1>3. j.rdstate = rd /\ j.wrstate = "stop" /\ j.reading = y /\ j.writes = ws
    BY <1>2 DEF Sock
  <1>4. Sock(j, j.rdstate, j.wrstate, j.reading, j.writes, TRUE, FALSE, "none")
    BY <1>2, <1>3
  <1>5. Flow(j) /\ j.reading
    BY <1>1, <1>3, <1>4 DEF Flow
  <1> QED BY <1>1, <1>5 DEF j

LEMMA LineAck ==
    ASSUME NEW i, NEW o, NEW st, NEW e, NEW m, NEW u, u = Line(i, o, st, e, m)
    PROVE  /\ i.rdstate = "done" => AckRead(u, "incoming") = Line(RdStop(i), o, st, e, m)
           /\ Put(u, "incoming", WrStop(i)) = Line(WrStop(i), o, st, e, m)
  <1> DEFINE h == TRUE
  <1>1. h \in BOOLEAN /\ u = Live(i, o, st, h, e, m)
    BY DEF Line
  <1>2. /\ Line(RdStop(i), o, st, e, m) = Live(RdStop(i), o, st, h, e, m)
        /\ Line(WrStop(i), o, st, e, m) = Live(WrStop(i), o, st, h, e, m)
    BY DEF Line
  <1> HIDE DEF h
  <1>3. i.rdstate = "done" => AckRead(u, "incoming") = Live(RdStop(i), o, st, h, e, m)
    BY <1>1, LiveAck
  <1>4. Put(u, "incoming", WrStop(i)) = Live(WrStop(i), o, st, h, e, m)
    BY <1>1, LivePut
  <1> QED BY <1>2, <1>3, <1>4

\* The connection is open and data flows.
Piped(o, st, e, m) ==
    Unused(o) /\ LiveConn(m, 0, 0) /\ st = "tls_streaming" /\ Flows(e) /\ Opened(m) /\ ~e.udp

Counted(u) == [u EXCEPT !.data.app = @ + 1]

LEMMA FormIncoming ==
    ASSUME NEW u, NEW st, st = "tls_streaming", u.stage = st, NEW s,
           NEW v \in tunnel_tls_dispatcher(u, s)
    PROVE  /\ u.sock["incoming"].wrstate = "done" =>
                 v = Put(u, "incoming", WrStop(u.sock["incoming"]))
           /\ u.sock["incoming"].wrstate # "done" =>
                 \E p \in NextApp(u) :
                    v \in {tunnel_shutdown(Counted(AckRead(u, "incoming"))),
                           tls_client_send_data(Counted(AckRead(u, "incoming")), <<p>>)}
  <1>1. v \in tunnel_tls_client_incoming_streaming(u)
    BY DEF tunnel_tls_dispatcher
  <1> DEFINE k == u.sock["incoming"]
             a == Counted(AckRead(u, "incoming"))
  <1>2. tunnel_tls_client_incoming_streaming(u)
          = IF k.wrstate = "done" THEN {Put(u, "incoming", WrStop(k))}
            ELSE UNION {{tunnel_shutdown(a), tls_client_send_data(a, <<p>>)} : p \in NextApp(u)}
    BY Zenon DEF tunnel_tls_client_incoming_streaming, Counted, WrStop
  <1> HIDE DEF k, a
  <1>3. /\ k.wrstate = "done" => v = Put(u, "incoming", WrStop(k))
        /\ k.wrstate # "done" =>
              \E p \in NextApp(u) : v \in {tunnel_shutdown(a), tls_client_send_data(a, <<p>>)}
    BY <1>1, <1>2
  <1> QED BY <1>3 DEF k, a

LEMMA PipedFed ==
    ASSUME NEW j, NEW o, NEW st, NEW e, NEW m, Piped(o, st, e, m), FlowFed(j),
           NEW u, u = Line(j, o, st, e, m), NEW v \in tunnel_tls_dispatcher(u, "incoming")
    PROVE  Fine(v)
  <1> DEFINE i == RdStop(j)
             n == e.app + 1
             f == AppTo(e, n)
             b == Line(i, o, st, e, m)
             a == Line(i, o, st, f, m)
             h == TRUE
  <1>0. /\ Unused(o) /\ LiveConn(m, 0, 0) /\ st = "tls_streaming" /\ Flows(e) /\ Opened(m)
        /\ ~e.udp
    BY DEF Piped
  <1>1. Flow(i) /\ i.reading /\ j.rdstate = "done" /\ j.wrstate # "done" /\ i \in OpenSocket
        /\ NoDial(i)
    BY FlowFedFacts
  <1>2. u.stage = st
    BY LineFacts
  <1>3. u.sock["incoming"] = j /\ u.data.app = e.app /\ b.data.app = e.app
    BY LineData
  <1>4. AckRead(u, "incoming") = b
    BY <1>1, LineAck
  <1> HIDE DEF i
  <1>5. PICK p \in NextApp(u) : v \in {tunnel_shutdown(Counted(b)),
                                       tls_client_send_data(Counted(b), <<p>>)}
    <2> HIDE DEF b
    <2> QED BY <1>0, <1>1, <1>2, <1>3, <1>4, FormIncoming
  <1>6. n \in 1 .. MaxData /\ p = AppData(n)
    BY <1>3 DEF NextApp
  <1>7. Counted(b) = a
    <2>0. e \in Extra
      BY <1>0 DEF Flows
    <2>1. Counted(b) = WithApp(b, n)
      <3> HIDE DEF b
      <3> QED BY <1>3 DEF Counted, WithApp
    <2> HIDE DEF n
    <2>2. WithApp(b, n) = a
      BY <2>0, LineOps
    <2> QED BY <2>1, <2>2
  <1>8. Streams(i, e)
    BY <1>0, <1>1 DEF Streams
  <1>9. /\ Good(tls_client_send_data(a, <<AppData(n)>>)) /\ f \in Extra
    <2>1. a = Line(i, o, st, AppTo(e, e.app + 1), m)
      OBVIOUS
    <2> HIDE DEF a
    <2> QED BY <1>0, <1>6, <1>8, <2>1, LineCarried
  <1> DEFINE w == tls_client_send_data(a, <<AppData(n)>>)
  <1>10. ~w.is_terminated /\ ~w.freed
    <2> DEFINE q == <<AppData(n)>>
               g == SaidOut(f, q)
               k == SendOn(m, q)
    <2>1. m.writable
      BY <1>0 DEF Opened, LiveConn, Handles
    <2> HIDE DEF q, f
    <2>2. tls_client_send_data(a, q) = Line(i, o, st, g, k)
      BY <1>9, <2>1, LineSend
    <2> HIDE DEF g, k, a
    <2>3. ~Line(i, o, st, g, k).is_terminated /\ ~Line(i, o, st, g, k).freed
      BY LineFacts
    <2> QED BY <2>2, <2>3 DEF q
  <1>11. Fine(w)
    <2> HIDE DEF w
    <2> QED BY <1>9, <1>10 DEF Fine, w
  <1>12. Fine(tunnel_shutdown(a))
    <2>1. Unlaunched(i, o, st, h)
      BY <1>0, <1>1, UnusedFacts DEF Unlaunched, tls_stage
    <2>2. Kept(h, m, 0, 0)
      BY <1>0 DEF Kept
    <2>3. a = Live(i, o, st, h, f, m)
      BY DEF Line
    <2> HIDE DEF a, f, h
    <2> QED BY <1>9, <2>1, <2>2, <2>3 DEF Fine
  <1> HIDE DEF a, b, n
  <1> QED BY <1>5, <1>6, <1>7, <1>11, <1>12

LEMMA PipedDrained ==
    ASSUME NEW j, NEW o, NEW st, NEW e, NEW m, Piped(o, st, e, m), FlowDrained(j),
           NEW u, u = Line(j, o, st, e, m), NEW v \in tunnel_tls_dispatcher(u, "incoming")
    PROVE  Fine(v)
  <1> DEFINE i == WrStop(j)
  <1>0. /\ Unused(o) /\ LiveConn(m, 0, 0) /\ st = "tls_streaming" /\ Flows(e) /\ Opened(m)
        /\ ~e.udp
    BY DEF Piped
  <1>1. Flow(i) /\ i.reading /\ j.wrstate = "done"
    BY FlowDrainedFacts
  <1>2. u.stage = st
    BY LineFacts
  <1>3. u.sock["incoming"] = j
    BY LineData
  <1>4. v = Put(u, "incoming", i)
    BY <1>0, <1>1, <1>2, <1>3, FormIncoming
  <1>5. Put(u, "incoming", i) = Line(i, o, st, e, m)
    BY LineAck
  <1> HIDE DEF i
  <1>6. Connected(st, i, e, m)
    BY <1>0, <1>1 DEF Connected, Streams
  <1>7. Good(v)
    BY <1>0, <1>4, <1>5, <1>6, LineGood
  <1>8. ~v.is_terminated /\ ~v.freed
    BY <1>4, <1>5, LineFacts
  <1> QED BY <1>7, <1>8 DEF Fine


-----------------------------------------------------------------------------
(* The read callback of a tunnel's socket. *)

LEMMA LiveEnter ==
    ASSUME NEW i, NEW o, NEW st, NEW h \in BOOLEAN, NEW e, NEW m, NEW x, NEW b,
           b = (st \in {"streaming", "tls_streaming"})
    PROVE  b \/ i.rdstate = "busy" =>
              ReadEnter(Live(i, o, st, h, e, m), "incoming", x)
                = Live(ReadIn(i, b, x), o, st, h, e, m)
  <1> DEFINE u == Live(i, o, st, h, e, m)
             j == ReadIn(i, b, x)
  <1>1. u.sock["incoming"] = i
    <2> HIDE DEF u
    <2> QED BY LiveFields DEF u
  <1>2. u.stage = st
    <2> HIDE DEF u
    <2> QED BY LiveFields DEF u
  <1>3. Put(u, "incoming", j) = Live(j, o, st, h, e, m)
    BY LivePut
  <1> HIDE DEF u
  <1>4. is_in_streaming(u) = b
    BY <1>2, TlsStagesAssumption, Zenon DEF is_in_streaming
  <1>5. ASSUME b \/ i.rdstate = "busy" PROVE ReadEnter(u, "incoming", x) = Put(u, "incoming", j)
    BY <1>1, <1>4, <1>5 DEF ReadEnter, Assert, ReadIn
  <1> QED BY <1>3, <1>5 DEF u

LEMMA TlsReadCases ==
    ASSUME NEW s, ~t.is_terminated, TlsOnRead(s)
    PROVE  /\ t.sock[s].reading
           /\ \/ \E w \in tunnel_tls_dispatcher(ReadEnter(t, s, "data"), s) :
                    t' = Overrides(t, ReadLeave(w, s))
              \/ \E x \in {"eof", "error"} :
                    t' = Overrides(t, tunnel_shutdown(ReadEnter(t, s, x)))
  <1>1. PICK x \in {"data", "eof", "error"} :
           \E v \in tunnel_socket_ctx_on_read_cb(t, s, x,
                       LAMBDA u : tunnel_tls_dispatcher(u, s),
                       LAMBDA u : {tunnel_shutdown(u)}) : t' = Overrides(t, v)
    BY DEF TlsOnRead
  <1>2. t.sock[s].reading
    BY DEF TlsOnRead
  <1>3. CASE x = "data"
    BY <1>1, <1>2, <1>3 DEF tunnel_socket_ctx_on_read_cb
  <1>4. CASE x = "eof"
    BY <1>1, <1>2, <1>4 DEF tunnel_socket_ctx_on_read_cb
  <1>5. CASE x = "error"
    BY <1>1, <1>2, <1>5 DEF tunnel_socket_ctx_on_read_cb
  <1> QED BY <1>3, <1>4, <1>5

\* Which stages read.
LEMMA StageReads ==
    ASSUME NEW st, NEW i, NEW o, NEW h \in BOOLEAN, NEW e, NEW m, StageOK(st, i, o, h, e, m)
    PROVE  /\ ~o.reading /\ o.writes = <<>>
           /\ i.reading =>
                 \/ /\ Alone(o, h, m) /\ Reading(i) /\ Greeting(e)
                    /\ st \in {"handshake", "s5_request_from_client_app", "client_first_pkg"}
                 \/ h /\ Piped(o, st, e, m) /\ Flow(i)
           /\ i.writes # <<>> =>
                 \/ /\ Alone(o, h, m) /\ Writing(i) /\ Greeted(e)
                    /\ \/ st \in {"s5_udp_accoc", "s5_response_done", "kill"}
                       \/ st = "handshake_replied" /\ (e.shortcut \/ e.app = 0)
                 \/ h /\ Piped(o, st, e, m) /\ Flow(i) /\ i.reading
  <1>0. Unused(o)
    BY DEF StageOK
  <1>1. ~o.reading /\ o.writes = <<>>
    BY <1>0 DEF Unused, Sock
  <1>2. /\ Unused(i) => ~i.reading /\ i.writes = <<>>
        /\ Quiet(i) => ~i.reading /\ i.writes = <<>>
        /\ Writing(i) => ~i.reading
        /\ Reading(i) => i.writes = <<>>
    BY DEF Unused, Quiet, Writing, Busy, Reading, Sock
  <1>3. CASE ~h /\ m = NoTls /\ Unconnected(st, i, e)
    <2>1. Alone(o, h, m)
      BY <1>0, <1>3 DEF Alone, NotHeld
    <2> QED
      BY <1>1, <1>2, <1>3, <2>1 DEF Unconnected
  <1>4. CASE h /\ LiveConn(m, 0, 0) /\ Connected(st, i, e, m)
    <2>1. CASE Waits(i, e)
      <3>1. ~i.reading /\ i.writes = <<>>
        BY <1>2, <2>1 DEF Waits
      <3> QED BY <1>1, <3>1
    <2>2. CASE st = "tls_streaming" /\ Streams(i, e) /\ Flows(e) /\ Opened(m)
      <3>1. i.reading \/ i.writes # <<>> => ~e.udp /\ Flow(i) /\ i.reading
        BY <1>2, <2>2 DEF Streams
      <3>2. ~e.udp => Piped(o, st, e, m)
        BY <1>0, <1>4, <2>2 DEF Piped
      <3> QED BY <1>1, <1>4, <3>1, <3>2
    <2> QED BY <1>4, <2>1, <2>2 DEF Connected
  <1> QED BY <1>3, <1>4 DEF StageOK

LEMMA ReadingFed ==
    ASSUME NEW i, Reading(i), NEW b, NotHeld(b), NEW j, j = ReadIn(i, b, "data")
    PROVE  Fed(j)
  <1> DEFINE rd == "busy"
             wr == "stop"
             y == TRUE
             no == FALSE
             nil == <<>>
             dn == "none"
  <1>1. Sock(i, rd, wr, y, nil, y, no, dn) /\ b \in BOOLEAN
    BY DEF Reading, NotHeld
  <1>2. Sock(j, "done", wr, b, nil, y, no, dn)
    <2> HIDE DEF rd, wr, y, no, nil, dn
    <2> QED BY <1>1, SockEnter
  <1> QED BY <1>2 DEF Fed, NotHeld

LEMMA FlowingFed ==
    ASSUME NEW i, Flow(i), NEW b, b = TRUE, NEW j, j = ReadIn(i, b, "data")
    PROVE  FlowFed(j)
  <1> DEFINE rd == i.rdstate
             wr == i.wrstate
             rg == i.reading
             ws == i.writes
             y == TRUE
             no == FALSE
             dn == "none"
  <1>1. Sock(i, rd, wr, rg, ws, y, no, dn) /\ b \in BOOLEAN /\ wr \in {"stop", "busy"}
    BY DEF Flow
  <1>2. Sock(j, "done", wr, b, ws, y, no, dn)
    <2> HIDE DEF rd, wr, rg, ws, y, no, dn
    <2> QED BY <1>1, SockEnter
  <1> HIDE DEF wr, ws
  <1>3. j.wrstate = wr /\ j.writes = ws
    BY <1>2 DEF Sock
  <1>4. Sock(j, "done", j.wrstate, TRUE, j.writes, TRUE, FALSE, "none")
    BY <1>2, <1>3
  <1> QED BY <1>1, <1>3, <1>4 DEF FlowFed

LEMMA EnteredOpen ==
    ASSUME NEW i \in OpenSocket, NoDial(i), NEW b \in BOOLEAN, NEW x \in {"eof", "error"}
    PROVE  ReadIn(i, b, x) \in OpenSocket /\ NoDial(ReadIn(i, b, x))
  <1> DEFINE rd == i.rdstate
             wr == i.wrstate
             rg == i.reading
             ws == i.writes
             co == i.connected
             cg == i.connecting
             dn == i.dns
             j == ReadIn(i, b, x)
  <1>1. Sock(i, rd, wr, rg, ws, co, cg, dn) /\ ~cg /\ dn = "none"
    BY SockOf DEF NoDial
  <1> HIDE DEF rd, wr, rg, ws, co, cg, dn
  <1>2. Sock(j, "stop", wr, FALSE, ws, co, cg, dn)
    BY <1>1, SockEnter
  <1> HIDE DEF j
  <1>3. j \in OpenSocket /\ NoDial(j)
    BY <1>1, <1>2 DEF Sock, NoDial
  <1> QED BY <1>3 DEF j


\* What such a read leaves: the dispatcher runs, or the tunnel is shut down.
LEMMA LiveReadStep ==
    ASSUME NEW i, NEW o, NEW st, NEW h \in BOOLEAN, NEW e, NEW m, StageOK(st, i, o, h, e, m),
           t = Live(i, o, st, h, e, m), TlsOnRead("incoming")
    PROVE  Good(t')
  <1> DEFINE b == st \in {"streaming", "tls_streaming"}
  <1>1. ~t.is_terminated /\ ~t.freed /\ t.sock["incoming"] = i
    BY LiveFields
  <1>2. /\ i.reading
        /\ \/ \E w \in tunnel_tls_dispatcher(ReadEnter(t, "incoming", "data"), "incoming") :
                 t' = Overrides(t, ReadLeave(w, "incoming"))
           \/ \E x \in {"eof", "error"} :
                 t' = Overrides(t, tunnel_shutdown(ReadEnter(t, "incoming", x)))
    BY <1>1, TlsReadCases
  <1>3. /\ i \in OpenSocket /\ o \in OpenSocket /\ NoDial(i) /\ NoDial(o)
        /\ st \in tls_stage /\ e \in Extra
    BY StageFacts
  <1>4. Kept(h, m, 0, 0)
    BY StageKept
  <1>5. \/ /\ Alone(o, h, m) /\ Reading(i) /\ Greeting(e)
           /\ st \in {"handshake", "s5_request_from_client_app", "client_first_pkg"}
        \/ h /\ Piped(o, st, e, m) /\ Flow(i)
    BY <1>2, StageReads
  <1>6. b \/ i.rdstate = "busy"
    <2>1. Reading(i) => i.rdstate = "busy"
      BY DEF Reading, Sock
    <2>2. Piped(o, st, e, m) => st = "tls_streaming"
      BY DEF Piped
    <2> QED BY <1>5, <2>1, <2>2
  <1>7. b \in BOOLEAN
    OBVIOUS
  <1>8. \A x : ReadEnter(t, "incoming", x) = Live(ReadIn(i, b, x), o, st, h, e, m)
    <2> TAKE x
    <2> DEFINE c == b
    <2>1. c = (st \in {"streaming", "tls_streaming"}) /\ (c \/ i.rdstate = "busy")
      BY <1>6
    <2> HIDE DEF c
    <2>2. c \/ i.rdstate = "busy" =>
             ReadEnter(Live(i, o, st, h, e, m), "incoming", x)
                = Live(ReadIn(i, c, x), o, st, h, e, m)
      BY <2>1, LiveEnter
    <2> QED BY <2>1, <2>2, Zenon DEF c
  <1>9. ASSUME NEW x \in {"eof", "error"},
               t' = Overrides(t, tunnel_shutdown(ReadEnter(t, "incoming", x)))
        PROVE  Good(t')
    <2> DEFINE j == ReadIn(i, b, x)
               v == Live(j, o, st, h, e, m)
    <2>1. j \in OpenSocket /\ NoDial(j)
      <3> HIDE DEF b
      <3> QED BY <1>3, <1>7, EnteredOpen
    <2>2. ReadEnter(t, "incoming", x) = v
      BY <1>8
    <2> HIDE DEF j
    <2>3. Unlaunched(j, o, st, h)
      BY <1>3, <2>1 DEF Unlaunched
    <2> HIDE DEF v
    <2>4. Good(Overrides(t, tunnel_shutdown(v)))
      BY <1>1, <1>3, <1>4, <2>3, UnlaunchedShut DEF v
    <2> QED BY <1>9, <2>2, <2>4
  <1>10. ASSUME NEW w \in tunnel_tls_dispatcher(ReadEnter(t, "incoming", "data"), "incoming"),
                t' = Overrides(t, ReadLeave(w, "incoming"))
         PROVE  Good(t')
    <2> DEFINE j == ReadIn(i, b, "data")
               v == Live(j, o, st, h, e, m)
    <2>1. w \in tunnel_tls_dispatcher(v, "incoming")
      BY <1>8, <1>10
    <2>2. Fine(w)
      <3>1. CASE /\ Alone(o, h, m) /\ Reading(i) /\ Greeting(e)
                 /\ st \in {"handshake", "s5_request_from_client_app", "client_first_pkg"}
        <4>1. NotHeld(b)
          BY <3>1 DEF NotHeld
        <4>2. Fed(j)
          <5> HIDE DEF b
          <5> QED BY <3>1, <4>1, ReadingFed
        <4> HIDE DEF j, v
        <4> QED BY <2>1, <3>1, <4>2, DispatchFed DEF v
      <3>2. CASE h /\ Piped(o, st, e, m) /\ Flow(i)
        <4>1. b = TRUE /\ h = TRUE
          BY <3>2 DEF Piped
        <4>2. FlowFed(j)
          <5> HIDE DEF b
          <5> QED BY <3>2, <4>1, FlowingFed
        <4> HIDE DEF j
        <4>3. v = Line(j, o, st, e, m)
          BY <4>1 DEF Line
        <4> HIDE DEF v
        <4> QED BY <2>1, <3>2, <4>2, <4>3, PipedFed
      <3> QED BY <1>5, <3>1, <3>2
    <2>3. Good(Overrides(t, ReadLeave(w, "incoming")))
      BY <1>1, <2>2, FineGood
    <2> QED BY <1>10, <2>3
  <1> QED BY <1>2, <1>9, <1>10


-----------------------------------------------------------------------------
(* The write callback of a tunnel's socket. *)

LEMMA TlsWrittenCases ==
    ASSUME NEW s, ~t.is_terminated, TlsOnWritten(s), NEW k \in OpenSocket, k = t.sock[s],
           is_in_streaming(t) \/ k.wrstate = "busy"
    PROVE  /\ k.writes # <<>>
           /\ \/ \E w \in tunnel_tls_dispatcher(Put(t, s, Wrote(k)), s) : t' = Overrides(t, w)
              \/ t' = Overrides(t, tunnel_shutdown(Put(t, s, WroteNot(k))))
  <1>1. k.writes # <<>>
    BY DEF TlsOnWritten
  <1>2. PICK x \in {"ok", "err"} :
           \E v \in tunnel_socket_ctx_on_written_cb(t, s, x,
                       LAMBDA u : tunnel_tls_dispatcher(u, s)) : t' = Overrides(t, v)
    BY DEF TlsOnWritten
  <1>3. PICK v \in tunnel_socket_ctx_on_written_cb(t, s, x,
                       LAMBDA u : tunnel_tls_dispatcher(u, s)) : t' = Overrides(t, v)
    BY <1>2
  <1>4. CASE x = "ok"
    <2>1. WroteTo(k, "ok").wrstate = k.wrstate
      <3>1. Sock(k, k.rdstate, k.wrstate, k.reading, k.writes, k.connected, k.connecting, k.dns)
        BY SockOf
      <3>2. Sock(WroteTo(k, "ok"), k.rdstate, k.wrstate, k.reading, Tail(k.writes),
                 k.connected, k.connecting, k.dns)
        BY <1>1, <3>1, SockWrote
      <3> QED BY <3>2 DEF Sock
    <2>2. v \in tunnel_tls_dispatcher(Assert(Put(t, s, WrDone(WroteTo(k, "ok"))),
                   is_in_streaming(t) \/ WroteTo(k, "ok").wrstate = "busy", "on_written"), s)
      BY <1>3, <1>4 DEF tunnel_socket_ctx_on_written_cb, WrDone, WroteTo
    <2>3. is_in_streaming(t) \/ WroteTo(k, "ok").wrstate = "busy"
      BY <2>1
    <2>4. v \in tunnel_tls_dispatcher(Put(t, s, Wrote(k)), s)
      BY <2>2, <2>3 DEF Assert, Wrote
    <2> QED BY <1>1, <1>3, <2>4
  <1>5. CASE x = "err"
    <2>1. v = tunnel_shutdown(Put(t, s, WroteNot(k)))
      BY <1>3, <1>5 DEF tunnel_socket_ctx_on_written_cb, WrStop, WroteTo, WroteNot
    <2> QED BY <1>1, <1>3, <2>1
  <1> QED BY <1>4, <1>5

LEMMA WritingEmptied ==
    ASSUME NEW i, Writing(i), NEW j, j = Wrote(i)
    PROVE  Emptied(j)
  <1> DEFINE rd == "stop"
             wr == "busy"
             y == TRUE
             no == FALSE
             ws == i.writes
             dn == "none"
  <1>1. Sock(i, rd, wr, no, ws, y, no, dn) /\ ws # <<>> /\ Len(ws) = 1 /\ ws \in Seq(Payload)
    BY SockOf DEF Writing, Busy, Sock
  <1>2. Tail(ws) = <<>>
    <2> HIDE DEF ws
    <2> QED BY <1>1, TailOK
  <1>3. Sock(j, rd, "done", no, Tail(ws), y, no, dn)
    <2> HIDE DEF rd, wr, y, no, ws, dn
    <2> QED BY <1>1, SockWrote
  <1> QED BY <1>2, <1>3 DEF Emptied

LEMMA FlowingEmptied ==
    ASSUME NEW i, Flow(i), i.writes # <<>>, NEW j, j = Wrote(i)
    PROVE  i.reading => FlowDrained(j)
  <1> DEFINE rd == i.rdstate
             wr == i.wrstate
             rg == i.reading
             ws == i.writes
             y == TRUE
             no == FALSE
             dn == "none"
  <1>1. Sock(i, rd, wr, rg, ws, y, no, dn) /\ rd \in {"stop", "busy"} /\ ws # <<>>
        /\ rg \in BOOLEAN
    BY DEF Flow, Sock, OpenSocket
  <1>2. Sock(j, rd, "done", rg, Tail(ws), y, no, dn)
    <2> HIDE DEF rd, wr, rg, ws, y, no, dn
    <2> QED BY <1>1, SockWrote
  <1> SUFFICES ASSUME rg PROVE FlowDrained(j)
    OBVIOUS
  <1>3. rg = TRUE
    BY <1>1
  <1> HIDE DEF rd, rg, ws
  <1>4. j.rdstate = rd /\ j.writes = Tail(ws)
    BY <1>2 DEF Sock
  <1>5. Sock(j, j.rdstate, "done", TRUE, j.writes, TRUE, FALSE, "none")
    BY <1>2, <1>3, <1>4
  <1> QED BY <1>1, <1>4, <1>5 DEF FlowDrained

LEMMA FailedOpen ==
    ASSUME NEW i \in OpenSocket, NoDial(i), i.writes # <<>>
    PROVE  WroteNot(i) \in OpenSocket /\ NoDial(WroteNot(i))
  <1> DEFINE rd == i.rdstate
             wr == i.wrstate
             rg == i.reading
             ws == i.writes
             co == i.connected
             cg == i.connecting
             dn == i.dns
             j == WroteNot(i)
  <1>1. Sock(i, rd, wr, rg, ws, co, cg, dn) /\ ~cg /\ dn = "none" /\ ws # <<>>
    BY SockOf DEF NoDial
  <1> HIDE DEF rd, wr, rg, ws, co, cg, dn
  <1>2. Sock(j, rd, "stop", rg, Tail(ws), co, cg, dn)
    BY <1>1, SockWrote
  <1> HIDE DEF j
  <1>3. j \in OpenSocket /\ NoDial(j)
    BY <1>1, <1>2 DEF Sock, NoDial
  <1> QED BY <1>3 DEF j

LEMMA LiveWrittenStep ==
    ASSUME NEW i, NEW o, NEW st, NEW h \in BOOLEAN, NEW e, NEW m, StageOK(st, i, o, h, e, m),
           t = Live(i, o, st, h, e, m), TlsOnWritten("incoming")
    PROVE  Good(t')
  <1>1. ~t.is_terminated /\ ~t.freed /\ t.sock["incoming"] = i /\ t.stage = st
    BY LiveFields
  <1>2. i.writes # <<>>
    BY <1>1 DEF TlsOnWritten
  <1>3. /\ i \in OpenSocket /\ o \in OpenSocket /\ NoDial(i) /\ NoDial(o)
        /\ st \in tls_stage /\ e \in Extra
    BY StageFacts
  <1>4. Kept(h, m, 0, 0)
    BY StageKept
  <1>5. \/ /\ Alone(o, h, m) /\ Writing(i) /\ Greeted(e)
           /\ \/ st \in {"s5_udp_accoc", "s5_response_done", "kill"}
              \/ st = "handshake_replied" /\ (e.shortcut \/ e.app = 0)
        \/ h /\ Piped(o, st, e, m) /\ Flow(i) /\ i.reading
    BY <1>2, StageReads
  <1>6. is_in_streaming(t) \/ i.wrstate = "busy"
    <2>1. Writing(i) => i.wrstate = "busy"
      BY DEF Writing, Busy, Sock
    <2>2. Piped(o, st, e, m) => st = "tls_streaming"
      BY DEF Piped
    <2>3. st = "tls_streaming" => is_in_streaming(t)
      BY <1>1, TlsStagesAssumption DEF is_in_streaming
    <2> QED BY <1>5, <2>1, <2>2, <2>3
  <1>7. \/ \E w \in tunnel_tls_dispatcher(Put(t, "incoming", Wrote(i)), "incoming") :
              t' = Overrides(t, w)
        \/ t' = Overrides(t, tunnel_shutdown(Put(t, "incoming", WroteNot(i))))
    BY <1>1, <1>3, <1>6, TlsWrittenCases
  <1>8. /\ Put(t, "incoming", Wrote(i)) = Live(Wrote(i), o, st, h, e, m)
        /\ Put(t, "incoming", WroteNot(i)) = Live(WroteNot(i), o, st, h, e, m)
    BY LivePut
  <1>9. CASE t' = Overrides(t, tunnel_shutdown(Put(t, "incoming", WroteNot(i))))
    <2> DEFINE j == WroteNot(i)
               v == Live(j, o, st, h, e, m)
    <2>1. j \in OpenSocket /\ NoDial(j)
      BY <1>2, <1>3, FailedOpen
    <2> HIDE DEF j
    <2>2. Unlaunched(j, o, st, h)
      BY <1>3, <2>1 DEF Unlaunched
    <2> HIDE DEF v
    <2>3. Good(Overrides(t, tunnel_shutdown(v)))
      BY <1>1, <1>3, <1>4, <2>2, UnlaunchedShut DEF v
    <2> QED BY <1>8, <1>9, <2>3 DEF v, j
  <1>10. ASSUME NEW w \in tunnel_tls_dispatcher(Put(t, "incoming", Wrote(i)), "incoming"),
                t' = Overrides(t, w)
         PROVE  Good(t')
    <2> DEFINE j == Wrote(i)
               v == Live(j, o, st, h, e, m)
    <2>1. w \in tunnel_tls_dispatcher(v, "incoming")
      BY <1>8, <1>10
    <2>2. Fine(w)
      <3>1. CASE /\ Alone(o, h, m) /\ Writing(i) /\ Greeted(e)
                 /\ \/ st \in {"s5_udp_accoc", "s5_response_done", "kill"}
                    \/ st = "handshake_replied" /\ (e.shortcut \/ e.app = 0)
        <4>1. Emptied(j)
          BY <3>1, WritingEmptied
        <4> HIDE DEF j, v
        <4> QED BY <2>1, <3>1, <4>1, DispatchDrained DEF v
      <3>2. CASE h /\ Piped(o, st, e, m) /\ Flow(i) /\ i.reading
        <4>1. h = TRUE
          BY <3>2
        <4>2. FlowDrained(j)
          BY <1>2, <3>2, FlowingEmptied
        <4> HIDE DEF j
        <4>3. v = Line(j, o, st, e, m)
          BY <4>1 DEF Line
        <4> HIDE DEF v
        <4> QED BY <2>1, <3>2, <4>2, <4>3, PipedDrained
      <3> QED BY <1>5, <3>1, <3>2
    <2>3. Good(Overrides(t, w))
      BY <1>1, <2>2, FineGood
    <2> QED BY <1>10, <2>3
  <1> QED BY <1>7, <1>9, <1>10


-----------------------------------------------------------------------------
(* The steps of a live tunnel. *)

LEMMA LiveTimeoutStep ==
    ASSUME NEW i, NEW o, NEW st, NEW h \in BOOLEAN, NEW e, NEW m, StageOK(st, i, o, h, e, m),
           t = Live(i, o, st, h, e, m), NEW s \in Side, TlsOnTimeout(s)
    PROVE  Good(t')
  <1> DEFINE a == Alive(i, o, st, h)
             c == tunnel_socket_ctx_on_timeout_cb(a, s)
             v == State(c, e, m)
  <1>1. ~t.is_terminated /\ ~t.freed
    BY LiveFields
  <1>2. /\ i \in OpenSocket /\ o \in OpenSocket /\ NoDial(i) /\ NoDial(o)
        /\ st \in tls_stage /\ e \in Extra
    BY StageFacts
  <1>3. Kept(h, m, 0, 0)
    BY StageKept
  <1>4. CoreOver(c) /\ c.freed = FALSE /\ c.held = h /\ c.ref = 2 + One(h)
    <2> HIDE DEF c
    <2>1. CoreOver(c) /\ IsCore(c) /\ ~c.freed /\ c.held = h /\ c.ref = 2 + One(h)
      BY <1>2, CoreTimeout DEF c
    <2> QED BY <2>1, CoreOverFacts
  <1>5. tunnel_socket_ctx_on_timeout_cb(t, s) = v
    <2>1. IsCore(a)
      <3> HIDE DEF a
      <3> QED BY AliveFacts DEF a
    <2>2. t = Whole(a, Data(e, m))
      BY DEF Live, State
    <2> HIDE DEF a
    <2> QED BY <2>1, <2>2, WholeTimeout DEF State
  <1> HIDE DEF c, v
  <1>6. Ends(Overrides(t, v), e, 0, 0)
    BY <1>1, <1>3, <1>4, OverridesShut DEF v
  <1>7. t' = Overrides(t, v)
    BY <1>5 DEF TlsOnTimeout
  <1> QED BY <1>2, <1>6, <1>7, EndsGood

LEMMA LiveQuitStep ==
    ASSUME NEW i, NEW o, NEW st, NEW h \in BOOLEAN, NEW e, NEW m, StageOK(st, i, o, h, e, m),
           t = Live(i, o, st, h, e, m), tls_client_env_shutdown
    PROVE  Good(t')
  <1>1. /\ i \in OpenSocket /\ o \in OpenSocket /\ NoDial(i) /\ NoDial(o)
        /\ st \in tls_stage /\ e \in Extra
    BY StageFacts
  <1>2. Kept(h, m, 0, 0)
    BY StageKept
  <1>3. Ends(Shutdown(t), e, 0, 0)
    BY <1>1, <1>2, ShutdownLive
  <1>4. t' = Shutdown(t)
    BY DEF tls_client_env_shutdown
  <1> QED BY <1>1, <1>3, <1>4, EndsGood

LEMMA LiveEventStep ==
    ASSUME NEW i, NEW o, NEW st, NEW h \in BOOLEAN, NEW e, NEW m, StageOK(st, i, o, h, e, m),
           t = Live(i, o, st, h, e, m), TlsEvent
    PROVE  Good(t')
  <1>1. CASE h /\ LiveConn(m, 0, 0) /\ Connected(st, i, e, m)
    <2>1. Running(i, o, st, e, m)
      BY <1>1 DEF Running, StageOK
    <2>2. t = Line(i, o, st, e, m)
      <3>1. h = TRUE
        BY <1>1
      <3> QED BY <3>1 DEF Line
    <2> QED BY <2>1, <2>2, LineEvent
  <1>2. CASE ~h /\ m = NoTls /\ Unconnected(st, i, e)
    <2>1. ~e.udp
      BY <1>2 DEF Unconnected, Greeting, Greeted
    <2>2. ~TlsEvent
      BY <1>2, <2>1, NoEvent
    <2> QED BY <2>2
  <1> QED BY <1>1, <1>2 DEF StageOK

LEMMA LiveStep ==
    ASSUME LiveOK(t), TlsNext
    PROVE  Good(t')
  <1>1. PICK i, o, st, e, m, h : /\ h \in BOOLEAN /\ t = Live(i, o, st, h, e, m)
                                 /\ StageOK(st, i, o, h, e, m)
    BY LiveElim
  <1>2. t.sock["incoming"] = i /\ t.sock["outgoing"] = o
    BY <1>1, LiveFields
  <1>3. i \in OpenSocket /\ o \in OpenSocket
    BY <1>1, StageFacts
  <1>4. ~o.reading /\ o.writes = <<>>
    BY <1>1, StageReads
  <1>5. CASE tls_client_env_shutdown
    BY <1>1, <1>5, LiveQuitStep
  <1>6. CASE TlsEvent
    BY <1>1, <1>6, LiveEventStep
  <1>7. ASSUME NEW s \in Side,
               \/ TlsOnRead(s) \/ TlsOnWritten(s) \/ TlsOnTimeout(s)
               \/ TlsOnTcpClosed(s) \/ TlsOnTimerClosed(s)
        PROVE  Good(t')
    <2>0. s = "incoming" \/ s = "outgoing"
      BY DEF Side
    <2>1. CASE TlsOnRead(s)
      <3>1. s = "incoming"
        BY <1>2, <1>4, <2>0, <2>1 DEF TlsOnRead
      <3> QED BY <1>1, <2>1, <3>1, LiveReadStep
    <2>2. CASE TlsOnWritten(s)
      <3>1. s = "incoming"
        BY <1>2, <1>4, <2>0, <2>2 DEF TlsOnWritten
      <3> QED BY <1>1, <2>2, <3>1, LiveWrittenStep
    <2>3. CASE TlsOnTimeout(s)
      BY <1>1, <2>3, LiveTimeoutStep
    <2>4. t.sock[s].tcp = "open" /\ t.sock[s].timer = "open"
      BY <1>2, <1>3, <2>0 DEF OpenSocket
    <2>5. ~TlsOnTcpClosed(s) /\ ~TlsOnTimerClosed(s)
      BY <2>4 DEF TlsOnTcpClosed, TlsOnTimerClosed
    <2> QED BY <1>7, <2>1, <2>2, <2>3, <2>5
  <1> QED BY <1>5, <1>6, <1>7 DEF TlsNext


-----------------------------------------------------------------------------
(* The steps of a tunnel that was shut down. *)

LEMMA DeadWritten ==
    ASSUME NEW c, CoreOver(c), NEW e \in Extra, NEW m, Over(m, c.freed, c.held, 0, 0),
           t = State(c, e, m), NEW s \in Side, TlsOnWritten(s)
    PROVE  Good(t')
  <1>1. /\ t.sock = c.sock /\ t.is_terminated = c.is_terminated /\ t.freed = c.freed
    BY StateFields
  <1>2. IsCore(c) /\ c.is_terminated = TRUE /\ c.freed \in BOOLEAN
    BY CoreOverFacts
  <1>3. PICK x \in {"ok", "err"} :
           \E v \in tunnel_socket_ctx_on_written_cb(t, s, x,
                       LAMBDA u : tunnel_tls_dispatcher(u, s)) : t' = Overrides(t, v)
    BY DEF TlsOnWritten
  <1> DEFINE k == [c.sock[s] EXCEPT !.writes = Tail(@), !.result = x]
             d == Put(c, s, k)
             v == State(d, e, m)
  <1>4. t' = Overrides(t, Put(t, s, k))
    BY <1>1, <1>2, <1>3 DEF tunnel_socket_ctx_on_written_cb
  <1>5. CoreOver(d) /\ IsCore(d) /\ d.freed = c.freed /\ d.held = c.held
    <2>1. c.sock[s].writes # <<>>
      BY <1>1 DEF TlsOnWritten
    <2> HIDE DEF d
    <2> QED BY <2>1, CoreWritten DEF d
  <1>6. Put(t, s, k) = v
    <2>1. t = Whole(c, Data(e, m))
      BY DEF State
    <2> HIDE DEF k
    <2> QED BY <1>2, <2>1, WholePut DEF State
  <1>7. Good(v)
    <2> HIDE DEF d
    <2> QED BY <1>5, DeadIntro
  <1>8. v.freed = t.freed /\ v.is_terminated = d.is_terminated
    <2> HIDE DEF v, d
    <2> QED BY <1>1, <1>5, StateFields DEF v
  <1> HIDE DEF v, d, k
  <1>9. Overrides(t, v) = v
    BY <1>1, <1>2, <1>8 DEF Overrides, Destroying
  <1> QED BY <1>4, <1>6, <1>7, <1>9

\* The close callback of a handle may free the tunnel, and client_ctx with it.
LEMMA OverGone ==
    ASSUME NEW m, Over(m, FALSE, FALSE, 0, 0), NEW n, n = client_ctx_release(m)
    PROVE  Over(n, TRUE, FALSE, 0, 0)
  <1>1. CASE Closed(m, FALSE, FALSE, 0, 0)
    <2>1. /\ Handles(m) /\ Counts(m, FALSE, FALSE, 0, 0) /\ m.on_shutting_down
          /\ \/ "early" \notin m.left /\ Ended(m)
             \/ Early(m)
      BY <1>1 DEF Closed
    <2>2. m \in Connection /\ m.ctx
      BY <2>1 DEF Handles
    <2>3. SameConn(m, n) /\ Counts(n, TRUE, FALSE, 0, 0)
      BY <2>1, <2>2, CountsGone
    <2>4. n.on_shutting_down = m.on_shutting_down /\ n.left = m.left
      BY <2>3 DEF SameConn
    <2>5. Handles(n) /\ (Ended(m) => Ended(n)) /\ (Early(m) => Early(n))
      BY <2>1, <2>3, SameFacts
    <2>6. Closed(n, TRUE, FALSE, 0, 0)
      BY <2>1, <2>3, <2>4, <2>5 DEF Closed
    <2> QED BY <2>6 DEF Over
  <1>2. CASE Lost(m, FALSE)
    BY <1>2, LostGone DEF Over
  <1> QED BY <1>1, <1>2 DEF Over

LEMMA DeadClosed ==
    ASSUME NEW c, CoreOver(c), NEW e \in Extra, NEW m, Over(m, c.freed, c.held, 0, 0),
           t = State(c, e, m), NEW s \in Side, TlsOnTcpClosed(s) \/ TlsOnTimerClosed(s)
    PROVE  Good(t')
  <1>1. /\ t.sock = c.sock /\ t.is_terminated = c.is_terminated /\ t.freed = c.freed
    BY StateFields
  <1>2. IsCore(c) /\ c.is_terminated = TRUE
    BY CoreOverFacts
  <1>3. PICK k : /\ \/ /\ c.sock[s].tcp = "closing" /\ c.sock[s].writes = <<>>
                       /\ k = [c.sock[s] EXCEPT !.tcp = "closed"]
                    \/ /\ c.sock[s].timer = "closing"
                       /\ k = [c.sock[s] EXCEPT !.timer = "closed"]
                 /\ t' = Overrides(t, uv_socket_close_done_cb(Put(t, s, k), s))
    <2>1. CASE TlsOnTcpClosed(s)
      BY <1>1, <2>1 DEF TlsOnTcpClosed
    <2>2. CASE TlsOnTimerClosed(s)
      BY <1>1, <2>2 DEF TlsOnTimerClosed
    <2> QED BY <2>1, <2>2
  <1> DEFINE p == Put(c, s, k)
             d == uv_socket_close_done_cb(p, s)
             v == State(d, e, m)
             n == client_ctx_release(m)
  <1>4. CoreOver(d) /\ IsCore(d) /\ c.freed = FALSE /\ d.held = c.held
    <2> HIDE DEF d
    <2> QED BY <1>3, CoreClosed DEF d
  <1>5. uv_socket_close_done_cb(Put(t, s, k), s) = v
    <2>1. t = Whole(c, Data(e, m))
      BY DEF State
    <2>2. Put(t, s, k) = Whole(p, Data(e, m)) /\ IsCore(p)
      BY <1>2, <2>1, WholePut
    <2> HIDE DEF p
    <2> QED BY <2>2, WholeCloseDone DEF State
  <1> HIDE DEF d
  <1>6. v.freed = d.freed /\ Tls(v) = m
    <2> HIDE DEF v
    <2> QED BY StateFields DEF v
  <1>7. d.freed \in BOOLEAN /\ (d.held => d.freed = FALSE) /\ d.held \in BOOLEAN
    BY <1>4, CoreOverFacts
  <1>8. t' = IF d.freed THEN WithTls(v, n) ELSE v
    BY <1>1, <1>2, <1>3, <1>4, <1>5, <1>6 DEF Overrides, Destroying
  <1>9. CASE ~d.freed
    <2>1. d.freed = FALSE /\ Over(m, d.freed, d.held, 0, 0)
      BY <1>4, <1>7, <1>9
    <2>2. Good(v)
      BY <1>4, <2>1, DeadIntro
    <2> QED BY <1>8, <1>9, <2>2
  <1>10. CASE d.freed
    <2>1. d.freed = TRUE /\ d.held = FALSE
      BY <1>7, <1>10
    <2>2. Over(m, FALSE, FALSE, 0, 0)
      BY <1>4, <2>1
    <2>3. Over(n, TRUE, FALSE, 0, 0)
      BY <2>2, OverGone
    <2> HIDE DEF n
    <2>4. WithTls(v, n) = State(d, e, n)
      BY <1>4, StateTls
    <2>5. Over(n, d.freed, d.held, 0, 0)
      BY <2>1, <2>3
    <2>6. Good(State(d, e, n))
      BY <1>4, <2>5, DeadIntro
    <2> QED BY <1>8, <1>10, <2>4, <2>6
  <1> QED BY <1>9, <1>10

LEMMA DeadStep ==
    ASSUME DeadOK(t), TlsNext
    PROVE  Good(t')
  <1>1. PICK c, e, m : /\ t = State(c, e, m) /\ CoreOver(c) /\ e \in Extra
                       /\ Over(m, c.freed, c.held, 0, 0) /\ t.is_terminated = TRUE
    BY DeadElim
  <1>2. \A s \in Side : ~t.sock[s].reading /\ ~t.sock[s].ticking
    <2>1. t.sock = c.sock
      BY <1>1, StateFields
    <2> QED BY <1>1, <2>1, CoreOverFacts
  <1>3. ~tls_client_env_shutdown
    BY <1>1 DEF tls_client_env_shutdown
  <1>4. CASE TlsEvent
    BY <1>4, DeadEvent
  <1>5. ASSUME NEW s \in Side,
               \/ TlsOnRead(s) \/ TlsOnWritten(s) \/ TlsOnTimeout(s)
               \/ TlsOnTcpClosed(s) \/ TlsOnTimerClosed(s)
        PROVE  Good(t')
    <2>1. ~TlsOnRead(s) /\ ~TlsOnTimeout(s)
      BY <1>2 DEF TlsOnRead, TlsOnTimeout
    <2>2. CASE TlsOnWritten(s)
      BY <1>1, <2>2, DeadWritten
    <2>3. CASE TlsOnTcpClosed(s) \/ TlsOnTimerClosed(s)
      BY <1>1, <2>3, DeadClosed
    <2> QED BY <1>5, <2>1, <2>2, <2>3
  <1> QED BY <1>3, <1>4, <1>5 DEF TlsNext


-----------------------------------------------------------------------------
(* The initial states. *)

NewExtra(udp) ==
    [ shortcut |-> FALSE, first |-> <<>>, cipher |-> tunnel_cipher_create("plain"),
      app |-> 0, srv |-> 0, sent |-> [s \in Side |-> <<>>], bad |-> {},
      udp |-> udp, deque |-> <<>>, half |-> 0, eof |-> FALSE, got |-> 0 ]

LEMMA NewExtraFacts ==
    ASSUME NEW udp \in BOOLEAN, NEW e, e = NewExtra(udp)
    PROVE  /\ Fresh(e) /\ e.sent["outgoing"] = <<>> /\ e.first = <<>> /\ e.deque = <<>>
           /\ e.app = 0 /\ e.udp = udp
  <1> DEFINE c == tunnel_cipher_create("plain")
             nil == <<>>
             y == [s \in Side |-> nil]
             no == FALSE
             z == 0
             b == {}
  <1>1. /\ no \in BOOLEAN /\ nil \in Seq(Items) /\ z \in 0 .. MaxData /\ z \in 0 .. 2 * MaxData
        /\ z \in 0 .. 1 /\ b \in SUBSET {"uv_close"}
    BY MaxDataAssumption
  <1>2. y \in [Side -> Seq(Items)] /\ y["incoming"] = nil /\ y["outgoing"] = nil
    <2> HIDE DEF nil
    <2> QED BY <1>1 DEF Side
  <1>3. e = [ shortcut |-> no, first |-> nil, cipher |-> c, app |-> z, srv |-> 0, sent |-> y,
              bad |-> b, udp |-> udp, deque |-> nil, half |-> z, eof |-> no, got |-> z ]
    BY DEF NewExtra
  <1> HIDE DEF c, nil, y, no, b, z
  <1>4. e \in Extra
    BY <1>1, <1>2, <1>3 DEF Extra, c
  <1>5. /\ e.first = nil /\ e.app = z /\ e.sent = y /\ e.bad = b /\ e.udp = udp
        /\ e.deque = nil /\ e.half = z /\ e.eof = no /\ e.got = z
    BY <1>3
  <1>6. Down(e)
    <2>1. e.sent["incoming"] = nil /\ Len(nil) = 0
      BY <1>2, <1>5 DEF nil
    <2>2. e.got = 0 /\ e.half = 0
      BY <1>5 DEF z
    <2>3. e.got \div 2 = 0 /\ e.got % 2 = 0
      BY <2>2
    <2> QED BY <2>1, <2>2, <2>3 DEF Down
  <1>7. e.bad = {} /\ e.half = 0 /\ ~e.eof /\ e.got = 0
    BY <1>5 DEF b, z, no
  <1>8. Fresh(e)
    BY <1>4, <1>6, <1>7 DEF Fresh
  <1> QED BY <1>2, <1>5, <1>8 DEF nil, z

LEMMA InitForm ==
    ASSUME NEW c, NEW udp
    PROVE  tls_init_done_cb(c, udp) = State(c, NewExtra(udp), NoTls)
  <1> DEFINE d == Data(NewExtra(udp), NoTls)
             y == [s \in Side |-> <<>>]
             p == tunnel_cipher_create("plain")
             nt == NoTls
  <1>1. d = [ shortcut |-> FALSE, first |-> <<>>, cipher |-> p, app |-> 0, srv |-> 0,
              sent |-> y, bad |-> {}, udp |-> udp, deque |-> <<>>, half |-> 0, eof |-> FALSE,
              got |-> 0, tls |-> nt ]
    <2> HIDE DEF p, y, nt
    <2> QED BY DEF Data, NewExtra, p, y, nt
  <1>2. tls_init_done_cb(c, udp)
          = [ sock |-> c.sock, ref |-> c.ref, is_terminated |-> c.is_terminated,
              freed |-> c.freed, stage |-> c.stage, held |-> c.held, bad |-> c.bad,
              data |-> [ shortcut |-> FALSE, first |-> <<>>, cipher |-> p, app |-> 0, srv |-> 0,
                         sent |-> y, bad |-> {}, udp |-> udp, deque |-> <<>>, half |-> 0,
                         eof |-> FALSE, got |-> 0, tls |-> nt ] ]
    <2> HIDE DEF p, y, nt
    <2> QED BY DEF tls_init_done_cb, init_done_cb, p, y, nt
  <1> HIDE DEF d, p, y, nt
  <1>3. tls_init_done_cb(c, udp) = Whole(c, d)
    BY <1>1, <1>2 DEF Whole
  <1> QED BY <1>3 DEF State, d

\* NewTunnel, put together from its sockets.
Booted(k, o, st, h) ==
    /\ k = socket_ctx_read(socket_context_create(TRUE), TRUE)
    /\ o = socket_context_create(FALSE) /\ NotHeld(h) /\ st = "handshake"

LEMMA NewAlive ==
    ASSUME NEW k, NEW o, NEW h, NEW st, Booted(k, o, st, h)
    PROVE  /\ tunnel_initialize(TRUE, TRUE) = Alive(k, o, st, h)
           /\ tunnel_initialize(FALSE, TRUE) = Alive(o, o, st, h)
  <1> DEFINE x == [s \in Side |-> IF s = "incoming" /\ TRUE THEN k ELSE o]
             y == [s \in Side |-> IF s = "incoming" /\ FALSE THEN k ELSE o]
             T(z) == [ sock |-> z, ref |-> 1, is_terminated |-> FALSE, freed |-> FALSE,
                       stage |-> FirstStage, held |-> FALSE, bad |-> {} ]
  <1>0. /\ k = socket_ctx_read(socket_context_create(TRUE), TRUE)
        /\ o = socket_context_create(FALSE) /\ NotHeld(h) /\ st = "handshake"
    BY DEF Booted
  <1>1. x = Pair(k, o) /\ y = Pair(o, o)
    BY DEF Pair
  <1>2. tunnel_initialize(TRUE, TRUE) = T(x)
    BY <1>0 DEF NewTunnel, tunnel_initialize
  <1>3. tunnel_initialize(FALSE, TRUE) = T(y)
    BY <1>0 DEF NewTunnel, tunnel_initialize
  <1>4. 1 + One(h) = 1 /\ h = FALSE
    BY <1>0 DEF One, NotHeld
  <1> HIDE DEF x, y
  <1>5. T(x) = Core(x, 1 + One(h), FALSE, FALSE, st, h, {})
    BY <1>0, <1>4, ClientStagesAssumption DEF Core
  <1>6. T(y) = Core(y, 1 + One(h), FALSE, FALSE, st, h, {})
    BY <1>0, <1>4, ClientStagesAssumption DEF Core
  <1> HIDE DEF T
  <1> QED BY <1>1, <1>2, <1>3, <1>5, <1>6 DEF Alive

\* A tunnel for datagrams, with its first one.
WithOne(v, p) == [v EXCEPT !.data.deque = Append(@, p), !.data.app = 1]

First(e, p, n, q, f) ==
    /\ e \in Extra /\ e.deque = <<>> /\ p \in Items /\ n = 1 /\ n \in 0 .. MaxData
    /\ q = <<p>> /\ f = AppTo(DequeTo(e, q), n)

LEMMA FormOne ==
    ASSUME NEW c, IsCore(c), NEW e, NEW m, NEW p, NEW n, NEW q, NEW f, First(e, p, n, q, f)
    PROVE  /\ WithOne(State(c, e, m), p) = State(c, f, m)
           /\ f \in Extra /\ f.deque = q /\ f.app = n /\ f.first = e.first /\ f.sent = e.sent
           /\ f.udp = e.udp /\ f.bad = e.bad /\ f.half = e.half /\ f.eof = e.eof /\ f.got = e.got
  <1> DEFINE v == State(c, e, m)
             g == DequeTo(e, q)
  <1>0. /\ e \in Extra /\ e.deque = <<>> /\ p \in Items /\ n = 1 /\ n \in 0 .. MaxData
        /\ q = <<p>> /\ f = AppTo(DequeTo(e, q), n)
    BY DEF First
  <1>1. q \in Seq(Items)
    BY <1>0
  <1>2. /\ g \in Extra /\ g.first = e.first /\ g.app = e.app /\ g.sent = e.sent
        /\ g.bad = e.bad /\ g.udp = e.udp /\ g.deque = q /\ g.half = e.half
        /\ g.eof = e.eof /\ g.got = e.got
    BY <1>0, <1>1, ExtraDeque
  <1>3. v.data.deque = <<>>
    <2> HIDE DEF v
    <2> QED BY <1>0, StateFields DEF v
  <1>4. Append(v.data.deque, p) = q
    <2>1. Append(<<>>, p) = <<p>>
      OBVIOUS
    <2> HIDE DEF v
    <2> QED BY <1>0, <1>3, <2>1
  <1> HIDE DEF v
  <1>5. WithOne(v, p) = WithApp(WithDeque(v, q), n)
    BY <1>0, <1>4 DEF WithOne, WithApp, WithDeque
  <1>6. WithDeque(v, q) = State(c, g, m)
    BY <1>0, StateDeque DEF v
  <1> HIDE DEF g
  <1>7. WithApp(State(c, g, m), n) = State(c, AppTo(g, n), m)
    BY <1>2, StateApp
  <1>8. f = AppTo(g, n)
    BY <1>0 DEF g
  <1>9. /\ f \in Extra /\ f.first = g.first /\ f.app = n /\ f.sent = g.sent
        /\ f.bad = g.bad /\ f.udp = g.udp /\ f.deque = g.deque /\ f.half = g.half
        /\ f.eof = g.eof /\ f.got = g.got
    BY <1>0, <1>2, <1>8, ExtraApp
  <1>10. WithOne(v, p) = State(c, f, m)
    BY <1>5, <1>6, <1>7, <1>8
  <1> QED BY <1>2, <1>9, <1>10 DEF v


\* It is being connected, or its launch failed.
Unsent(e) ==
    /\ Fresh(e) /\ e.sent["outgoing"] = <<>> /\ e.first = <<>> /\ e.deque = <<>>
    /\ e.app = 0 /\ e.udp

LEMMA UdpGood ==
    ASSUME NEW o, NEW h, NEW m, Alone(o, h, m), NEW e, Unsent(e), NEW st,
           NEW v \in tls_client_creator(Live(o, o, st, h, e, m))
    PROVE  Good(WithOne(v, AppData(1)))
  <1> DEFINE sc == "tls_connecting"
             n == 1
             p == AppData(n)
             q == <<p>>
             f == AppTo(DequeTo(e, q), n)
  <1>1. /\ Fresh(e) /\ e.sent["outgoing"] = <<>> /\ e.first = <<>> /\ e.deque = <<>>
        /\ e.app = 0 /\ e.udp /\ e \in Extra
    BY DEF Unsent, Fresh
  <1>2. o \in OpenSocket /\ NoDial(o)
    BY UnusedFacts DEF Alone
  <1>3. sc \in tls_stage /\ h \in BOOLEAN
    BY DEF tls_stage, NotHeld, Alone
  <1>4. Unlaunched(o, o, sc, h)
    <2> HIDE DEF sc
    <2> QED BY <1>2, <1>3 DEF Unlaunched
  <1>5. Created(v, o, o, sc, e)
    <2>1. sc = "tls_connecting" /\ NotHeld(h) /\ m = NoTls
      BY DEF Alone
    <2> DEFINE u == Live(o, o, st, h, e, m)
    <2> HIDE DEF u, sc
    <2> QED BY <1>1, <1>4, <2>1, CreatorDone DEF u
  <1>6. n \in 1 .. MaxData /\ n \in 0 .. MaxData /\ p \in Items
    <2>1. n \in 1 .. MaxData /\ n \in 0 .. MaxData
      BY MaxDataAssumption
    <2> HIDE DEF n
    <2> QED BY <2>1, AppItems
  <1>7. q = Apps(n)
    <2>1. 0 \in 0 .. MaxData /\ 0 + 1 \in 1 .. MaxData
      BY MaxDataAssumption
    <2>2. Apps(0) \o <<AppData(0 + 1)>> = Apps(0 + 1) /\ Apps(0) = <<>>
      BY <2>1, AppsStep
    <2>3. <<>> \o q = q /\ 0 + 1 = 1
      OBVIOUS
    <2> QED BY <2>2, <2>3
  <1>8. \A c, k : IsCore(c) => WithOne(State(c, e, k), p) = State(c, f, k)
    <2> TAKE c, k
    <2> HAVE IsCore(c)
    <2>1. First(e, p, n, q, f)
      BY <1>1, <1>6 DEF First
    <2> HIDE DEF f, q, n, p
    <2> QED BY <2>1, FormOne
  <1>9. /\ f \in Extra /\ f.deque = q /\ f.app = n /\ f.first = e.first /\ f.sent = e.sent
        /\ f.udp = e.udp /\ f.bad = e.bad /\ f.half = e.half /\ f.eof = e.eof /\ f.got = e.got
    <2>1. First(e, p, n, q, f)
      BY <1>1, <1>6 DEF First
    <2> DEFINE c == Alive(o, o, st, h)
    <2>2. IsCore(c)
      <3> HIDE DEF c
      <3> QED BY <1>3, AliveFacts DEF c
    <2> DEFINE w == State(c, e, m)
    <2> HIDE DEF f, q, n, p, c
    <2> QED BY <2>1, <2>2, FormOne, w = w
  <1>10. n > 0
    OBVIOUS
  <1> HIDE DEF f, q, n, p
  <1>11. Stored(f) /\ f.udp
    <2>1. Fresh(f)
      BY <1>1, <1>9, FreshKept
    <2> QED BY <1>1, <1>7, <1>9, <1>10, <2>1 DEF Stored
  <1>12. CASE Dropped(v, e)
    <2>1. PICK c, k : /\ v = State(c, e, k) /\ CoreOver(c) /\ c.freed = FALSE /\ c.held = FALSE
                      /\ Lost(k, FALSE)
      BY <1>12 DEF Dropped
    <2>2. IsCore(c)
      BY <2>1, CoreOverFacts
    <2>3. WithOne(v, p) = State(c, f, k)
      BY <1>8, <2>1, <2>2
    <2>4. Over(k, c.freed, c.held, 0, 0)
      BY <2>1 DEF Over
    <2>5. Good(WithOne(v, p))
      BY <1>9, <2>1, <2>3, <2>4, DeadIntro
    <2> QED BY <2>5 DEF p, n
  <1>13. CASE \E k : v = Line(o, o, sc, e, k) /\ LiveConn(k, 0, 0) /\ (Resolving(k) \/ Connecting(k))
    <2>1. PICK k : v = Line(o, o, sc, e, k) /\ LiveConn(k, 0, 0) /\ (Resolving(k) \/ Connecting(k))
      BY <1>13
    <2> DEFINE on == TRUE
               c == Alive(o, o, sc, on)
    <2>2. v = State(c, e, k)
      BY <2>1 DEF Line, Live
    <2>3. on \in BOOLEAN /\ on
      OBVIOUS
    <2>4. IsCore(c)
      <3> HIDE DEF c, on
      <3> QED BY <2>3, AliveFacts DEF c
    <2>5. WithOne(v, p) = Live(o, o, sc, on, f, k)
      BY <1>8, <2>2, <2>4 DEF Live
    <2>6. Connected(sc, o, f, k)
      BY <1>11, <2>1 DEF Connected, Waits, Alone
    <2> HIDE DEF sc, on
    <2>7. StageOK(sc, o, o, on, f, k)
      BY <2>1, <2>3, <2>6 DEF StageOK, Alone
    <2>8. Good(WithOne(v, p))
      BY <2>3, <2>5, <2>7, LiveIntro
    <2> QED BY <2>8 DEF p, n
  <1> QED BY <1>5, <1>12, <1>13 DEF Created

LEMMA InitGood == TlsInit => TlsInv
  <1> SUFFICES ASSUME TlsInit PROVE Good(t)
    BY DEF TlsInv
  <1> DEFINE k == socket_ctx_read(socket_context_create(TRUE), TRUE)
             o == socket_context_create(FALSE)
             no == FALSE
             yes == TRUE
             st == "handshake"
             m == NoTls
  <1>1. /\ Unused(o) /\ Reading(k) /\ NotHeld(no) /\ no \in BOOLEAN /\ yes \in BOOLEAN /\ yes /\ ~no
        /\ st = "handshake" /\ yes = TRUE /\ no = FALSE
    BY NewSockets DEF NotHeld
  <1>2. /\ tunnel_initialize(TRUE, TRUE) = Alive(k, o, st, no)
        /\ tunnel_initialize(FALSE, TRUE) = Alive(o, o, st, no)
    <2>1. Booted(k, o, st, no)
      BY <1>1 DEF Booted
    <2> HIDE DEF no, st, k, o
    <2> QED BY <2>1, NewAlive
  <1>3. CASE t = tls_init_done_cb(tunnel_initialize(TRUE, TRUE), FALSE)
    <2> DEFINE e == NewExtra(no)
    <2>1. t = State(Alive(k, o, st, no), e, m)
      BY <1>2, <1>3, InitForm
    <2>2. /\ Fresh(e) /\ e.sent["outgoing"] = <<>> /\ e.first = <<>> /\ e.deque = <<>>
          /\ e.app = 0 /\ e.udp = no
      <3> HIDE DEF no, e
      <3> QED BY <1>1, NewExtraFacts DEF e
    <2> HIDE DEF e, k, o
    <2>3. Greeting(e)
      BY <2>2, AppsStep DEF Greeting, Greeted
    <2>4. Unconnected(st, k, e)
      BY <1>1, <2>3 DEF Unconnected
    <2>5. StageOK(st, k, o, no, e, m)
      BY <1>1, <2>4 DEF StageOK
    <2>6. t = Live(k, o, st, no, e, m)
      BY <2>1 DEF Live
    <2> HIDE DEF st, no, m
    <2> QED BY <1>1, <2>5, <2>6, LiveIntro
  <1>4. CASE t \in UdpTunnels
    <2> DEFINE e == NewExtra(TRUE)
               u == tls_init_done_cb(tunnel_initialize(FALSE, TRUE), TRUE)
    <2>1. PICK v \in tls_client_creator(u) : t = WithOne(v, AppData(1))
      BY <1>4 DEF UdpTunnels, WithOne
    <2>2. u = Live(o, o, st, no, e, m)
      BY <1>2, InitForm DEF Live
    <2>3. Unsent(e)
      <3> DEFINE y == TRUE
      <3>1. y \in BOOLEAN /\ y /\ e = NewExtra(y)
        OBVIOUS
      <3> HIDE DEF y, e
      <3> QED BY <3>1, NewExtraFacts DEF Unsent
    <2>4. Alone(o, no, m)
      BY <1>1 DEF Alone
    <2> HIDE DEF e, u, o, no, st, m
    <2>5. v \in tls_client_creator(Live(o, o, st, no, e, m))
      BY <2>1, <2>2
    <2>6. Good(WithOne(v, AppData(1)))
      BY <2>3, <2>4, <2>5, UdpGood
    <2> QED BY <2>1, <2>6
  <1> QED BY <1>3, <1>4 DEF TlsInit

-----------------------------------------------------------------------------
(* The theorems. *)

\* The inductive invariant holds in every behaviour of a tunnel over TLS.
THEOREM TlsInvariance == TlsSpec => []TlsInv
  <1>1. TlsInit => TlsInv
    BY InitGood
  <1>2. TlsInv /\ [TlsNext]_vars => TlsInv'
    <2> SUFFICES ASSUME Good(t), [TlsNext]_vars
                 PROVE  Good(t')
      BY DEF TlsInv, Good, LiveOK, DeadOK
    <2>1. CASE TlsNext
      BY <2>1, LiveStep, DeadStep DEF Good
    <2>2. CASE UNCHANGED vars
      BY <2>2 DEF vars
    <2> QED BY <2>1, <2>2
  <1> QED BY <1>1, <1>2, PTL DEF TlsSpec


\* What the invariant says of a tunnel, alive or not: its core counts its
\* references, and its connection is that of a live tunnel or one shut down.
Sound(c) ==
    /\ c.ref \in Nat /\ c.freed \in BOOLEAN /\ c.held \in BOOLEAN /\ c.stage \in tls_stage
    /\ c.bad = {} /\ c.is_terminated \in BOOLEAN
    /\ c.ref = One(~c.is_terminated) + One(c.sock["incoming"].on_closed)
             + One(c.sock["outgoing"].on_closed) + One(c.held)
    /\ c.freed <=> c.ref = 0
    /\ \A s \in Side :
          LET k == c.sock[s]
          IN  /\ k \in Socket(Payload)
              /\ k.ref = One(~c.freed) + CloseOwed(k)
              /\ k.freed <=> k.ref = 0
              /\ k.is_terminated = c.is_terminated
              /\ k.closing_count = CloseOwed(k)
              /\ k.on_closed <=> CloseOwed(k) > 0

ConnSound(m, gone, held) ==
    \/ gone = FALSE /\ held = TRUE /\ LiveConn(m, 0, 0)
    \/ Over(m, gone, held, 0, 0)

LEMMA AliveSound ==
    ASSUME NEW i \in OpenSocket, NEW o \in OpenSocket, NEW st \in tls_stage, NEW h \in BOOLEAN,
           NEW c, c = Alive(i, o, st, h)
    PROVE  Sound(c)
  <1>1. /\ c.ref = 1 + One(h) /\ c.is_terminated = FALSE /\ c.freed = FALSE
        /\ c.stage = st /\ c.held = h /\ c.bad = {}
        /\ c.sock["incoming"] = i /\ c.sock["outgoing"] = o
    <2> DEFINE no == FALSE
    <2>1. c = Core(Pair(i, o), 1 + One(h), no, no, st, h, {})
      BY DEF Alive
    <2> HIDE DEF no
    <2>2. c.is_terminated = no /\ c.freed = no
      BY <2>1 DEF Core
    <2>3. c.is_terminated = FALSE /\ c.freed = FALSE
      BY <2>2 DEF no
    <2>4. /\ c.ref = 1 + One(h) /\ c.stage = st /\ c.held = h /\ c.bad = {}
          /\ c.sock["incoming"] = i /\ c.sock["outgoing"] = o
      BY AliveFacts
    <2> QED BY <2>3, <2>4
  <1>2. \A k \in {i, o} :
           /\ k \in Socket(Payload) /\ k.ref = 1 /\ k.freed = FALSE /\ k.is_terminated = FALSE
           /\ k.closing_count = 0 /\ k.on_closed = FALSE /\ CloseOwed(k) = 0
    <2> TAKE k \in {i, o}
    <2>1. k \in OpenSocket
      OBVIOUS
    <2>2. k \in Socket(Payload)
      BY <2>1, SockOf
    <2>3. /\ k.ref = 1 /\ k.freed = FALSE /\ k.is_terminated = FALSE /\ k.closing_count = 0
          /\ k.on_closed = FALSE /\ k.tcp = "open" /\ k.timer = "open"
      BY <2>1 DEF OpenSocket
    <2>4. CloseOwed(k) = 0
      BY <2>3 DEF CloseOwed
    <2> QED BY <2>2, <2>3, <2>4
  <1>3. /\ c.ref \in Nat /\ c.ref # 0
        /\ c.ref = One(~c.is_terminated) + One(c.sock["incoming"].on_closed)
                 + One(c.sock["outgoing"].on_closed) + One(c.held)
    BY <1>1, <1>2 DEF One
  <1>4. \A s \in Side : c.sock[s] \in {i, o}
    BY <1>1 DEF Side
  <1>5. One(~c.freed) = 1
    BY <1>1 DEF One
  <1>6. \A s \in Side :
          LET k == c.sock[s]
          IN  /\ k \in Socket(Payload)
              /\ k.ref = One(~c.freed) + CloseOwed(k)
              /\ k.freed <=> k.ref = 0
              /\ k.is_terminated = c.is_terminated
              /\ k.closing_count = CloseOwed(k)
              /\ k.on_closed <=> CloseOwed(k) > 0
    <2> TAKE s \in Side
    <2> DEFINE k == c.sock[s]
    <2>1. k \in {i, o}
      BY <1>4
    <2> HIDE DEF k
    <2>2. /\ k \in Socket(Payload) /\ k.ref = 1 /\ k.freed = FALSE /\ k.is_terminated = FALSE
          /\ k.closing_count = 0 /\ k.on_closed = FALSE /\ CloseOwed(k) = 0
      BY <1>2, <2>1
    <2>3. k.ref = One(~c.freed) + CloseOwed(k) /\ k.closing_count = CloseOwed(k)
      BY <1>5, <2>2
    <2>4. (k.freed <=> k.ref = 0) /\ (k.on_closed <=> CloseOwed(k) > 0)
      BY <2>2
    <2>5. k.is_terminated = c.is_terminated
      BY <1>1, <2>2
    <2> QED BY <2>2, <2>3, <2>4, <2>5 DEF k
  <1> QED BY <1>1, <1>3, <1>6 DEF Sound

LEMMA OverSound ==
    ASSUME NEW c, CoreOver(c)
    PROVE  Sound(c)
  <1>1. TunnelOK(c) /\ c.is_terminated = TRUE /\ c.bad = {} /\ c.stage \in tls_stage
    BY DEF CoreOver
  <1>2. c.freed \in BOOLEAN /\ c.held \in BOOLEAN /\ c.ref \in Nat
    BY CoreOverFacts
  <1>3. \A s \in Side : SocketOK(c.sock[s], c.is_terminated, c.freed, is_in_streaming(c))
    BY <1>1 DEF TunnelOK
  <1>4. \A s \in Side :
          LET k == c.sock[s]
          IN  /\ k \in Socket(Payload)
              /\ k.ref = One(~c.freed) + CloseOwed(k)
              /\ k.freed <=> k.ref = 0
              /\ k.is_terminated = c.is_terminated
              /\ k.closing_count = CloseOwed(k)
              /\ k.on_closed <=> CloseOwed(k) > 0
    BY <1>3 DEF SocketOK
  <1>5. /\ c.ref = One(~c.is_terminated) + One(c.sock["incoming"].on_closed)
                 + One(c.sock["outgoing"].on_closed) + One(c.held)
        /\ c.freed <=> c.ref = 0
    BY <1>1 DEF TunnelOK
  <1> QED BY <1>1, <1>2, <1>4, <1>5 DEF Sound

LEMMA AnyState ==
    ASSUME TlsInv
    PROVE  \E c, e, m : /\ t = State(c, e, m) /\ Sound(c) /\ e \in Extra
                        /\ ConnSound(m, c.freed, c.held)
  <1>1. CASE LiveOK(t)
    <2>1. PICK i, o, st, e, m, h : /\ h \in BOOLEAN /\ t = Live(i, o, st, h, e, m)
                                   /\ StageOK(st, i, o, h, e, m)
      BY <1>1, LiveElim
    <2> DEFINE c == Alive(i, o, st, h)
    <2>2. i \in OpenSocket /\ o \in OpenSocket /\ st \in tls_stage /\ e \in Extra
      BY <2>1, StageFacts
    <2>3. Sound(c) /\ c.freed = FALSE /\ c.held = h
      <3> HIDE DEF c
      <3>1. Sound(c)
        BY <2>1, <2>2, AliveSound DEF c
      <3>2. c.held = h /\ ~c.freed
        BY <2>1, AliveFacts DEF c
      <3> QED BY <3>1, <3>2 DEF Sound
    <2>4. Kept(h, m, 0, 0)
      BY <2>1, StageKept
    <2>5. t = State(c, e, m)
      BY <2>1 DEF Live
    <2> HIDE DEF c
    <2>6. ConnSound(m, c.freed, c.held)
      <3>1. CASE h /\ LiveConn(m, 0, 0)
        BY <2>1, <2>3, <3>1 DEF ConnSound
      <3>2. CASE ~h /\ Lost(m, FALSE)
        BY <2>1, <2>3, <3>2 DEF ConnSound, Over
      <3> QED BY <2>4, <3>1, <3>2 DEF Kept
    <2> QED BY <2>2, <2>3, <2>5, <2>6
  <1>2. CASE DeadOK(t)
    <2>1. PICK c, e, m : /\ t = State(c, e, m) /\ CoreOver(c) /\ e \in Extra
                         /\ Over(m, c.freed, c.held, 0, 0)
      BY <1>2, DeadElim
    <2>2. Sound(c)
      BY <2>1, OverSound
    <2> QED BY <2>1, <2>2 DEF ConnSound
  <1> QED BY <1>1, <1>2 DEF TlsInv, Good

LEMMA ConnSoundType ==
    ASSUME NEW m, NEW gone, NEW held, ConnSound(m, gone, held)
    PROVE  m \in Connection
  BY DEF ConnSound, Over, Closed, Lost, LiveConn, Handles

\* Stages, counts, sockets and the connection stay inside their types.
THEOREM TlsTypeCorrect == TlsSpec => []TlsTypeOK
  <1>1. ASSUME TlsInv PROVE TlsTypeOK
    <2>1. PICK c, e, m : /\ t = State(c, e, m) /\ Sound(c) /\ e \in Extra
                         /\ ConnSound(m, c.freed, c.held)
      BY <1>1, AnyState
    <2>2. /\ t.sock = c.sock /\ t.ref = c.ref /\ t.stage = c.stage /\ Tls(t) = m
          /\ t.data.app = e.app /\ t.data.got = e.got /\ t.data.half = e.half
          /\ t.data.deque = e.deque
      BY <2>1, StateFields
    <2>3. m \in Connection
      BY <2>1, ConnSoundType
    <2>4. /\ e.app \in 0 .. MaxData /\ e.got \in 0 .. 2 * MaxData /\ e.half \in 0 .. 1
          /\ e.deque \in Seq(Items)
      BY <2>1, ExtraFields
    <2>5. /\ c.ref \in Nat /\ c.stage \in tls_stage
          /\ \A s \in Side : c.sock[s] \in Socket(Seq(Items))
      BY <2>1, TlsStagesAssumption DEF Sound
    <2> QED BY <2>2, <2>3, <2>4, <2>5 DEF TlsTypeOK
  <1>2. TlsInv => TlsTypeOK
    BY <1>1
  <1> QED BY <1>2, TlsInvariance, PTL

\* No assertion of the dispatcher, of the TLS callbacks and of tunnel.c fails,
\* the connect timer of a connection that is closing already apart.
THEOREM TlsAssertsCorrect == TlsSpec => []TlsAssertsHold
  <1>1. ASSUME TlsInv PROVE TlsAssertsHold
    <2>1. PICK c, e, m : /\ t = State(c, e, m) /\ Sound(c) /\ e \in Extra
                         /\ ConnSound(m, c.freed, c.held)
      BY <1>1, AnyState
    <2>2. t.bad = c.bad /\ t.data.bad = e.bad
      BY <2>1, StateFields
    <2>3. e.bad \in SUBSET {"uv_close"}
      BY <2>1, ExtraFields
    <2>4. c.bad = {}
      BY <2>1 DEF Sound
    <2> QED BY <2>2, <2>3, <2>4 DEF TlsAssertsHold
  <1>2. TlsInv => TlsAssertsHold
    BY <1>1
  <1> QED BY <1>2, TlsInvariance, PTL

\* The counts of a connection, whatever became of its tunnel.
LEMMA ConnCounts ==
    ASSUME NEW m, NEW gone \in BOOLEAN, NEW held \in BOOLEAN, ConnSound(m, gone, held)
    PROVE  LET closes == m.on_shutting_down /\ held
               opened == m.ref > 0 \/ m.freed
           IN  /\ m.cref = One(~gone) + One(closes)
               /\ m.cfreed <=> m.cref = 0
               /\ m.ctx => m.ref = One(~m.cfreed) + One(m.connect_cb) + One(closes)
                                   + DataWrites(m.writes)
               /\ m.ctx => (m.freed <=> m.ref = 0)
               /\ opened => m.mref = One(~m.freed) + One(m.sock = "closing")
                                     + One(m.timer = "closing")
               /\ opened => (m.mfreed <=> m.mref = 0)
  <1>0. m \in Connection
    BY ConnSoundType
  <1>1. CASE Counts(m, gone, held, 0, 0)
    <2> DEFINE d == DataWrites(m.writes)
    <2>1. /\ d \in Nat /\ m.cref = One(~gone) + One(m.on_shutting_down /\ held)
          /\ m.cfreed <=> m.cref = 0
          /\ m.ref = One(~m.cfreed) + One(m.connect_cb) + One(m.on_shutting_down /\ held) + d + 0
          /\ m.freed <=> m.ref = 0
          /\ m.mref = One(~m.freed) + One(m.sock = "closing") + One(m.timer = "closing") + 0
          /\ m.mfreed <=> m.mref = 0
      BY <1>0, <1>1, CountsOf
    <2>2. m.ref = One(~m.cfreed) + One(m.connect_cb) + One(m.on_shutting_down /\ held) + d
      BY <2>1 DEF One
    <2>3. m.mref = One(~m.freed) + One(m.sock = "closing") + One(m.timer = "closing")
      BY <2>1 DEF One
    <2> QED BY <2>1, <2>2, <2>3
  <1>2. CASE Lost(m, gone)
    <2>1. /\ ~m.ctx /\ ~m.on_shutting_down /\ m.timer = "none"
          /\ m.cref = One(~gone) /\ (m.cfreed <=> gone)
      BY <1>2 DEF Lost
    <2>2. m.cref = One(~gone) + One(m.on_shutting_down /\ held) /\ (m.cfreed <=> m.cref = 0)
      BY <2>1 DEF One
    <2>3. m.ref > 0 \/ m.freed =>
             /\ m.mref = One(~m.freed) + One(m.sock = "closing") + One(m.timer = "closing")
             /\ m.mfreed <=> m.mref = 0
      <3>1. CASE m.ref = 0 /\ ~m.freed
        BY <3>1
      <3>2. CASE m.mref = 0 /\ m.freed /\ m.mfreed /\ m.sock \in {"none", "closed"}
        BY <2>1, <3>2 DEF One
      <3>3. CASE m.mref = 2 /\ ~m.freed /\ ~m.mfreed /\ m.sock = "closing"
        BY <2>1, <3>3 DEF One
      <3> QED BY <1>2, <3>1, <3>2, <3>3 DEF Lost
    <2> QED BY <2>1, <2>2, <2>3
  <1>3. CASE gone = FALSE /\ held = TRUE /\ LiveConn(m, 0, 0)
    BY <1>1, <1>3 DEF LiveConn
  <1>4. CASE Closed(m, gone, held, 0, 0)
    BY <1>1, <1>4 DEF Closed
  <1> QED BY <1>2, <1>3, <1>4 DEF ConnSound, Over

\* The four reference counts are exact: of the tunnel, of client_ctx, of
\* tls_cli_ctx and of uv_mbed_t.
THEOREM TlsRefCountsCorrect == TlsSpec => []TlsRefCounts
  <1>1. ASSUME TlsInv PROVE TlsRefCounts
    <2>1. PICK c, e, m : /\ t = State(c, e, m) /\ Sound(c) /\ e \in Extra
                         /\ ConnSound(m, c.freed, c.held)
      BY <1>1, AnyState
    <2>2. /\ t.sock = c.sock /\ t.ref = c.ref /\ t.is_terminated = c.is_terminated
          /\ t.freed = c.freed /\ t.held = c.held /\ Tls(t) = m
      BY <2>1, StateFields
    <2>3. RefCounts
      BY <2>1, <2>2 DEF Sound, RefCounts
    <2>4. c.freed \in BOOLEAN /\ c.held \in BOOLEAN
      BY <2>1 DEF Sound
    <2>5. LET closes == m.on_shutting_down /\ c.held
              opened == m.ref > 0 \/ m.freed
          IN  /\ m.cref = One(~c.freed) + One(closes)
              /\ m.cfreed <=> m.cref = 0
              /\ m.ctx => m.ref = One(~m.cfreed) + One(m.connect_cb) + One(closes)
                                  + DataWrites(m.writes)
              /\ m.ctx => (m.freed <=> m.ref = 0)
              /\ opened => m.mref = One(~m.freed) + One(m.sock = "closing")
                                    + One(m.timer = "closing")
              /\ opened => (m.mfreed <=> m.mref = 0)
      BY <2>1, <2>4, ConnCounts
    <2> QED BY <2>2, <2>3, <2>5 DEF TlsRefCounts
  <1>2. TlsInv => TlsRefCounts
    BY <1>1
  <1> QED BY <1>2, TlsInvariance, PTL

\* Of a connection whose close was not reported before its time, what may still
\* report has the objects it needs.
LEMMA ConnAlive ==
    ASSUME NEW m, NEW gone \in BOOLEAN, NEW held \in BOOLEAN, ConnSound(m, gone, held),
           "early" \notin m.left
    PROVE  LET reports == \/ m.connect_cb /\ (m.dns \/ m.connecting)
                          \/ m.reading \/ DataWrites(m.writes) > 0
               pending == m.dns \/ m.connecting \/ m.shutting \/ m.reading \/ m.writes # <<>>
           IN  /\ reports \/ (m.on_shutting_down /\ held) => ~m.cfreed
               /\ reports => ~m.freed
               /\ pending \/ m.sock = "closing" \/ m.timer \in {"running", "closing"} => ~m.mfreed
  <1>0. m \in Connection
    BY ConnSoundType
  <1>1. DataWrites(<<>>) = 0
    BY DataNone
  <1>2. CASE Counts(m, gone, held, 0, 0) /\ (m.on_shutting_down => held) /\ (~m.on_shutting_down => ~gone)
    <2> DEFINE d == DataWrites(m.writes)
    <2>1. /\ d \in Nat /\ m.cref = One(~gone) + One(m.on_shutting_down /\ held)
          /\ m.cfreed <=> m.cref = 0
          /\ m.ref = One(~m.cfreed) + One(m.connect_cb) + One(m.on_shutting_down /\ held) + d + 0
          /\ m.freed <=> m.ref = 0
          /\ m.mref = One(~m.freed) + One(m.sock = "closing") + One(m.timer = "closing") + 0
          /\ m.mfreed <=> m.mref = 0
      BY <1>0, <1>2, CountsOf
    <2>2. ~m.cfreed
      BY <1>2, <2>1 DEF One
    <2>3. ~m.freed
      BY <2>1, <2>2 DEF One
    <2>4. ~m.mfreed
      BY <2>1, <2>3 DEF One
    <2> QED BY <2>2, <2>3, <2>4
  <1>3. CASE Handles(m) /\ Counts(m, gone, held, 0, 0) /\ ~held /\ Ended(m)
    <2>1. /\ ~m.dns /\ ~m.connecting /\ ~m.shutting /\ ~m.reading /\ m.writes = <<>>
          /\ m.timer # "running"
      BY <1>3 DEF Ended, Handles
    <2>2. m.sock = "closing" \/ m.timer = "closing" => ~m.mfreed
      <3>1. /\ m.mref = One(~m.freed) + One(m.sock = "closing") + One(m.timer = "closing") + 0
            /\ m.mfreed <=> m.mref = 0
        BY <1>0, <1>3, CountsOf
      <3> QED BY <3>1 DEF One
    <2> QED BY <1>1, <1>3, <2>1, <2>2
  <1>4. CASE Lost(m, gone)
    <2>1. /\ ~m.on_shutting_down /\ ~m.dns /\ ~m.connecting /\ ~m.shutting /\ ~m.reading
          /\ m.writes = <<>> /\ m.timer = "none" /\ (m.sock = "closing" => ~m.mfreed)
      BY <1>4 DEF Lost
    <2> QED BY <1>1, <2>1
  <1>5. CASE gone = FALSE /\ held = TRUE /\ LiveConn(m, 0, 0)
    BY <1>2, <1>5 DEF LiveConn
  <1>6. CASE Closed(m, gone, held, 0, 0)
    <2>1. Handles(m) /\ Counts(m, gone, held, 0, 0) /\ m.on_shutting_down
      BY <1>6 DEF Closed
    <2>2. CASE held
      BY <1>2, <2>1, <2>2
    <2>3. CASE ~held /\ Ended(m)
      BY <1>3, <2>1, <2>3
    <2>4. ~Early(m)
      BY DEF Early
    <2> QED BY <1>6, <2>2, <2>3, <2>4 DEF Closed
  <1> QED BY <1>4, <1>5, <1>6 DEF ConnSound, Over

\* No callback of the TLS connection runs on returned memory, a tunnel apart
\* that was closed before its connection had a socket to close.
THEOREM ContextAliveCorrect == TlsSpec => []ContextAlive
  <1>1. ASSUME TlsInv PROVE ContextAlive
    <2>1. PICK c, e, m : /\ t = State(c, e, m) /\ Sound(c) /\ e \in Extra
                         /\ ConnSound(m, c.freed, c.held)
      BY <1>1, AnyState
    <2>2. t.held = c.held /\ Tls(t) = m
      BY <2>1, StateFields
    <2>3. c.freed \in BOOLEAN /\ c.held \in BOOLEAN
      BY <2>1 DEF Sound
    <2>4. ASSUME "early" \notin m.left
          PROVE  LET reports == \/ m.connect_cb /\ (m.dns \/ m.connecting)
                                \/ m.reading \/ DataWrites(m.writes) > 0
                     pending == \/ m.dns \/ m.connecting \/ m.shutting \/ m.reading
                                \/ m.writes # <<>>
                 IN  /\ reports \/ (m.on_shutting_down /\ c.held) => ~m.cfreed
                     /\ reports => ~m.freed
                     /\ pending \/ m.sock = "closing" \/ m.timer \in {"running", "closing"}
                           => ~m.mfreed
      BY <2>1, <2>3, <2>4, ConnAlive
    <2> QED BY <2>2, <2>4 DEF ContextAlive
  <1>2. TlsInv => ContextAlive
    BY <1>1
  <1> QED BY <1>2, TlsInvariance, PTL

\* The empty sequence adds nothing.
LEMMA EmptyConcat ==
    ASSUME NEW p \in Seq(Items)
    PROVE  <<>> \o p = p /\ p \o <<>> = p
  OBVIOUS

\* What the application sent makes up what went on, what is queued and what is
\* stored, at each stage.
Uplink(e) ==
    LET header == IF e.udp \/ e.sent["outgoing"] = <<>> THEN <<>> ELSE <<Address>>
    IN  e.sent["outgoing"] \o e.deque \o e.first = header \o Apps(e.app)

LEMMA UplinkStage ==
    ASSUME NEW e, Greeted(e) \/ Stored(e) \/ Asked(e) \/ Flows(e)
    PROVE  Uplink(e)
  <1>0. e \in Extra
    BY DEF Greeted, Stored, Asked, Flows, Fresh
  <1> DEFINE s == e.sent["outgoing"]
             q == e.deque
             f == e.first
             a == Apps(e.app)
             z == <<>>
             h == <<Address>>
  <1>1. /\ s \in Seq(Items) /\ q \in Seq(Items) /\ f \in Seq(Items)
        /\ e.app \in 0 .. MaxData /\ e.udp \in BOOLEAN
    BY <1>0, ExtraFields
  <1>2. a \in Seq(Items) /\ z \in Seq(Items) /\ h \in Seq(Items) /\ h # z
    <2>1. a \in Seq(Items)
      BY <1>1, AppsFacts
    <2>2. z \in Seq(Items) /\ Address \in Items
      BY AppsStep
    <2> QED BY <2>1, <2>2
  <1>3. \A p \in Seq(Items) : z \o p = p /\ p \o z = p
    BY EmptyConcat
  <1>4. /\ s \o q \in Seq(Items) /\ h \o a \in Seq(Items)
    BY <1>1, <1>2, ConcatProperties
  <1>5. \/ /\ e.udp /\ f = z /\ s \o q = a
        \/ /\ ~e.udp /\ q = z /\ s = z /\ f = a
        \/ /\ ~e.udp /\ q = z /\ s = h /\ f = a
        \/ /\ ~e.udp /\ f = z /\ q = z /\ s = h \o a
    <2>1. CASE Greeted(e)
      BY <2>1 DEF Greeted
    <2>2. CASE Stored(e)
      <3>1. CASE e.udp
        <4>1. f = z /\ q = a /\ s = z
          BY <2>2, <3>1 DEF Stored
        <4> HIDE DEF s, q, f, a, z
        <4>2. s \o q = a
          BY <1>2, <1>3, <4>1
        <4> QED BY <3>1, <4>1, <4>2
      <3>2. CASE ~e.udp
        BY <2>2, <3>2 DEF Stored
      <3> QED BY <3>1, <3>2
    <2>3. CASE Asked(e)
      BY <2>3 DEF Asked
    <2>4. CASE Flows(e)
      <3>1. CASE e.udp
        <4>1. f = z /\ q = z /\ s = a
          BY <2>4, <3>1 DEF Flows
        <4> HIDE DEF s, q, f, a, z
        <4>2. s \o q = a
          BY <1>2, <1>3, <4>1
        <4> QED BY <3>1, <4>1, <4>2
      <3>2. CASE ~e.udp
        BY <2>4, <3>2 DEF Flows
      <3> QED BY <3>1, <3>2
    <2> QED BY <2>1, <2>2, <2>3, <2>4
  <1>6. (s = h \o a) => s # z
    <2>1. Len(h \o a) = Len(h) + Len(a) /\ Len(h) = 1 /\ Len(a) \in Nat /\ Len(z) = 0
      BY <1>2, ConcatProperties
    <2> QED BY <2>1
  <1>7. s \o q \o f = (IF e.udp \/ s = z THEN z ELSE h) \o a
    <2> HIDE DEF s, q, f, a, z, h
    <2>1. CASE e.udp /\ f = z /\ s \o q = a
      <3>1. (s \o q) \o f = a /\ z \o a = a
        BY <1>2, <1>3, <2>1
      <3> QED BY <2>1, <3>1
    <2>2. CASE ~e.udp /\ q = z /\ s = z /\ f = a
      <3>1. s \o q = z
        BY <1>2, <1>3, <2>2
      <3> QED BY <2>2, <3>1
    <2>3. CASE ~e.udp /\ q = z /\ s = h /\ f = a
      <3>1. s \o q = h
        BY <1>2, <1>3, <2>3
      <3> QED BY <1>2, <2>3, <3>1
    <2>4. CASE ~e.udp /\ f = z /\ q = z /\ s = h \o a
      <3>1. s \o q = s
        BY <1>1, <1>3, <2>4
      <3>2. s \o f = s
        BY <1>1, <1>3, <2>4
      <3> QED BY <1>6, <2>4, <3>1, <3>2
    <2> QED BY <1>5, <2>1, <2>2, <2>3, <2>4
  <1> QED BY <1>7 DEF Uplink

\* A live tunnel is in one of these stages.
LEMMA LivePackets ==
    ASSUME TlsInv, ~t.is_terminated
    PROVE  \E c, e, m : t = State(c, e, m) /\ Uplink(e) /\ Down(e)
  <1>1. ASSUME DeadOK(t) PROVE FALSE
    <2>1. PICK c, e, m : t = State(c, e, m) /\ CoreOver(c)
      BY <1>1, DeadElim
    <2>2. t.is_terminated = c.is_terminated
      BY <2>1, StateFields
    <2>3. c.is_terminated
      BY <2>1 DEF CoreOver
    <2> QED BY <2>2, <2>3
  <1>2. LiveOK(t)
    BY <1>1 DEF TlsInv, Good
  <1>3. PICK i, o, st, e, m, h : /\ h \in BOOLEAN /\ t = Live(i, o, st, h, e, m)
                                 /\ StageOK(st, i, o, h, e, m)
    BY <1>2, LiveElim
  <1>4. Greeted(e) \/ Stored(e) \/ Asked(e) \/ Flows(e)
    BY <1>3 DEF StageOK, Unconnected, Connected, Greeting
  <1>5. Uplink(e)
    BY <1>4, UplinkStage
  <1>6. Down(e)
    BY <1>4 DEF Greeted, Stored, Asked, Flows, Fresh
  <1>7. t = State(Alive(i, o, st, h), e, m)
    BY <1>3 DEF Live
  <1> QED BY <1>5, <1>6, <1>7

\* Nothing the application sent to a live tunnel is lost, duplicated or
\* reordered, from the first packet through the queue of datagrams to the
\* TLS connection.
THEOREM TlsUplinkCorrect == TlsSpec => []TlsUplink
  <1>1. ASSUME TlsInv, ~t.is_terminated
        PROVE  LET d      == t.data
                   header == IF d.udp \/ d.sent["outgoing"] = <<>> THEN <<>> ELSE <<Address>>
               IN  d.sent["outgoing"] \o d.deque \o d.first = header \o Numbered(AppData, d.app)
    <2>1. PICK c, e, m : t = State(c, e, m) /\ Uplink(e) /\ Down(e)
      BY <1>1, LivePackets
    <2>2. /\ t.data.sent = e.sent /\ t.data.deque = e.deque /\ t.data.first = e.first
          /\ t.data.app = e.app /\ t.data.udp = e.udp
      BY <2>1, StateFields
    <2> QED BY <2>1, <2>2 DEF Uplink, Apps
  <1>2. TlsInv => TlsUplink
    BY <1>1 DEF TlsUplink
  <1> QED BY <1>2, TlsInvariance, PTL

\* Every whole frame of the server reaches the application once and in order,
\* behind the replies of the SOCKS handshake.
THEOREM TlsDownlinkCorrect == TlsSpec => []TlsDownlink
  <1>1. ASSUME TlsInv, ~t.is_terminated
        PROVE  LET in == t.data.sent["incoming"]
                   n  == t.data.got \div 2
                   k  == Len(in) - n
               IN  /\ k >= 0
                   /\ \A i \in 1 .. k : in[i].kind # "srv"
                   /\ \A i \in 1 .. n : in[k + i] = SrvData(i)
    <2>1. PICK c, e, m : t = State(c, e, m) /\ Uplink(e) /\ Down(e)
      BY <1>1, LivePackets
    <2>2. t.data.sent = e.sent /\ t.data.got = e.got
      BY <2>1, StateFields
    <2> QED BY <2>1, <2>2 DEF Down
  <1>2. TlsInv => TlsDownlink
    BY <1>1 DEF TlsDownlink
  <1> QED BY <1>2, TlsInvariance, PTL

=============================================================================
