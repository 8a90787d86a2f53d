---------------------------- MODULE TunnelParts -----------------------------
(***************************************************************************)
(* A tunnel of an owner is a tunnel of module Tunnel, its core, with the   *)
(* owner's context.  The operations of tunnel.c act on the core alone and  *)
(* leave the context as it is.  The owners' proofs share these facts.      *)
(***************************************************************************)
EXTENDS TunnelProofs


\* The two sockets; a tunnel without its owner's context; and with it.
Pair(i, o) == [s \in Side |-> IF s = "incoming" THEN i ELSE o]

Core(x, n, term, gone, st, held, b) ==
    [ sock |-> x, ref |-> n, is_terminated |-> term, freed |-> gone,
      stage |-> st, held |-> held, bad |-> b ]

CoreOf(u) == Core(u.sock, u.ref, u.is_terminated, u.freed, u.stage, u.held, u.bad)

Whole(c, d) ==
    [ sock |-> c.sock, ref |-> c.ref, is_terminated |-> c.is_terminated,
      freed |-> c.freed, stage |-> c.stage, held |-> c.held, bad |-> c.bad,
      data |-> d ]

\* A socket of a live tunnel, and what it is doing.
OpenSocket ==
    [ rdstate : {"stop", "busy", "done"}, wrstate : {"stop", "busy", "done"},
      result : {"ok", "err"}, is_terminated : {FALSE}, check_timeout : BOOLEAN,
      ref : {1}, closing_count : {0}, on_closed : {FALSE},
      connected : BOOLEAN, reading : BOOLEAN, writes : Seq(Payload),
      connecting : BOOLEAN, dns : DnsState, ticking : BOOLEAN,
      tcp : {"open"}, timer : {"open"}, freed : {FALSE} ]

Sock(k, rd, wr, rg, ws, co, cg, dn) ==
    /\ k \in OpenSocket /\ k.rdstate = rd /\ k.wrstate = wr /\ k.reading = rg
    /\ k.writes = ws /\ k.connected = co /\ k.connecting = cg /\ k.dns = dn

Unused(k)   == Sock(k, "stop", "stop", FALSE, <<>>, FALSE, FALSE, "none")
Looking(k)  == Sock(k, "stop", "stop", FALSE, <<>>, FALSE, FALSE, k.dns) /\ k.dns # "none"
Dialling(k) == Sock(k, "stop", "stop", FALSE, <<>>, FALSE, TRUE, "none")
Quiet(k)    == Sock(k, "stop", "stop", FALSE, <<>>, TRUE, FALSE, "none")
Reading(k)  == Sock(k, "busy", "stop", TRUE, <<>>, TRUE, FALSE, "none")
Busy(k)     == Sock(k, "stop", "busy", FALSE, k.writes, TRUE, FALSE, "none")
               /\ k.writes # <<>>
Writing(k)  == Busy(k) /\ Len(k.writes) = 1
Flow(k)     == /\ Sock(k, k.rdstate, k.wrstate, k.reading, k.writes, TRUE, FALSE, "none")
               /\ k.rdstate \in {"stop", "busy"} /\ k.wrstate \in {"stop", "busy"}

\* A socket whose read, or write, is acknowledged.
RdStop(k) == [k EXCEPT !.rdstate = "stop"]
WrStop(k) == [k EXCEPT !.wrstate = "stop"]

AtRest(k) == k.rdstate = "stop" /\ k.wrstate = "stop"

-----------------------------------------------------------------------------
(* Tunnels as values. *)

\* The two sockets of a pair.
LEMMA PairFacts ==
    ASSUME NEW i, NEW o, NEW k
    PROVE  /\ Pair(i, o)["incoming"] = i /\ Pair(i, o)["outgoing"] = o
           /\ [Pair(i, o) EXCEPT !["incoming"] = k] = Pair(k, o)
           /\ [Pair(i, o) EXCEPT !["outgoing"] = k] = Pair(i, k)
  BY DEF Pair, Side

\* A record that is nothing but a core.
IsCore(c) == c = CoreOf(c)

\* The fields of a core.
LEMMA CoreFields ==
    ASSUME NEW x, NEW n, NEW term, NEW gone, NEW st, NEW held, NEW b, NEW c,
           c = Core(x, n, term, gone, st, held, b)
    PROVE  /\ c.sock = x /\ c.ref = n /\ c.is_terminated = term /\ c.freed = gone
           /\ c.stage = st /\ c.held = held /\ c.bad = b /\ IsCore(c)
  BY DEF Core, CoreOf, IsCore

CoreSet(x, n, term, gone, st, held, b) ==
    [ sock : {x}, ref : {n}, is_terminated : {term}, freed : {gone},
      stage : {st}, held : {held}, bad : {b} ]

\* A record with these fields is that core.
LEMMA CoreEq ==
    ASSUME NEW x, NEW n, NEW term, NEW gone, NEW st, NEW held, NEW b,
           NEW c \in CoreSet(x, n, term, gone, st, held, b)
    PROVE  c = Core(x, n, term, gone, st, held, b)
  BY DEF Core, CoreSet

\* A tunnel of module Tunnel is a core.
LEMMA CoreType ==
    ASSUME NEW c \in TunnelType
    PROVE  IsCore(c)
  <1>1. c \in CoreSet(c.sock, c.ref, c.is_terminated, c.freed, c.stage, c.held, c.bad)
    <2> DEFINE S == [Side -> Socket(Payload)]
    <2> HIDE DEF S
    <2>1. c \in [ sock : S, ref : Nat, is_terminated : BOOLEAN,
                  freed : BOOLEAN, stage : Stages, held : BOOLEAN,
                  bad : SUBSET {"read", "write", "connect", "getaddrinfo", "close",
                                "on_read", "on_written", "stale"} ]
      BY DEF TunnelType, S
    <2> QED BY <2>1, ZenonT(60) DEF CoreSet
  <1> QED BY <1>1, CoreEq DEF CoreOf, IsCore

\* Assignments to the fields of a core.
LEMMA CoreUpdate ==
    ASSUME NEW x, NEW n, NEW term, NEW gone, NEW st, NEW held, NEW b, NEW y, NEW c,
           c = Core(x, n, term, gone, st, held, b)
    PROVE  /\ [c EXCEPT !.sock = y] = Core(y, n, term, gone, st, held, b)
           /\ [c EXCEPT !.ref = y] = Core(x, y, term, gone, st, held, b)
           /\ [c EXCEPT !.is_terminated = y] = Core(x, n, y, gone, st, held, b)
           /\ [c EXCEPT !.stage = y] = Core(x, n, term, gone, y, held, b)
           /\ [c EXCEPT !.bad = y] = Core(x, n, term, gone, st, held, y)
  <1>1. [c EXCEPT !.sock = y] \in CoreSet(y, n, term, gone, st, held, b)
    BY DEF Core, CoreSet
  <1>2. [c EXCEPT !.ref = y] \in CoreSet(x, y, term, gone, st, held, b)
    BY DEF Core, CoreSet
  <1>3. [c EXCEPT !.is_terminated = y] \in CoreSet(x, n, y, gone, st, held, b)
    BY DEF Core, CoreSet
  <1>4. [c EXCEPT !.stage = y] \in CoreSet(x, n, term, gone, y, held, b)
    BY DEF Core, CoreSet
  <1>5. [c EXCEPT !.bad = y] \in CoreSet(x, n, term, gone, st, held, y)
    BY DEF Core, CoreSet
  <1> QED BY <1>1, <1>2, <1>3, <1>4, <1>5, CoreEq

\* The fields of a whole tunnel.
LEMMA WholeFields ==
    ASSUME NEW c, NEW d, NEW u, u = Whole(c, d)
    PROVE  /\ u.sock = c.sock /\ u.ref = c.ref /\ u.is_terminated = c.is_terminated
           /\ u.freed = c.freed /\ u.stage = c.stage /\ u.held = c.held /\ u.bad = c.bad
           /\ u.data = d /\ CoreOf(u) = CoreOf(c)
  BY DEF Whole, CoreOf, Core

WholeSet(c, d) ==
    [ sock : {c.sock}, ref : {c.ref}, is_terminated : {c.is_terminated}, freed : {c.freed},
      stage : {c.stage}, held : {c.held}, bad : {c.bad}, data : {d} ]

\* A record with these fields is that tunnel.
LEMMA WholeEq ==
    ASSUME NEW c, NEW d, NEW u \in WholeSet(c, d)
    PROVE  u = Whole(c, d)
  BY DEF Whole, WholeSet

\* Assignments, by name.
SetSock(c, y) == [c EXCEPT !.sock = y]
SetRef(c, y) == [c EXCEPT !.ref = y]
SetTerm(c, y) == [c EXCEPT !.is_terminated = y]
SetStage(c, y) == [c EXCEPT !.stage = y]
SetBad(c, y) == [c EXCEPT !.bad = y]
SetData(c, y) == [c EXCEPT !.data = y]

\* Assignments to the fields of a whole tunnel.
LEMMA WholeUpdate ==
    ASSUME NEW c, NEW d, NEW y, IsCore(c)
    PROVE  /\ SetSock(Whole(c, d), y) = Whole(SetSock(c, y), d)
           /\ SetRef(Whole(c, d), y) = Whole(SetRef(c, y), d)
           /\ SetTerm(Whole(c, d), y) = Whole(SetTerm(c, y), d)
           /\ SetStage(Whole(c, d), y) = Whole(SetStage(c, y), d)
           /\ SetBad(Whole(c, d), y) = Whole(SetBad(c, y), d)
           /\ SetData(Whole(c, d), y) = Whole(c, y)
  <1> DEFINE x == c.sock
             n == c.ref
             term == c.is_terminated
             gone == c.freed
             st == c.stage
             held == c.held
             b == c.bad
  <1>0. c = Core(x, n, term, gone, st, held, b)
    BY DEF CoreOf, IsCore
  <1>1. [Whole(c, d) EXCEPT !.sock = y] \in WholeSet([c EXCEPT !.sock = y], d)
    <2>1. [c EXCEPT !.sock = y] = Core(y, n, term, gone, st, held, b)
      <3> HIDE DEF x, n, term, gone, st, held, b
      <3>1. [c EXCEPT !.sock = y] \in CoreSet(y, n, term, gone, st, held, b)
        BY <1>0 DEF Core, CoreSet
      <3> QED BY <3>1, CoreEq
    <2> QED BY <2>1, CoreFields DEF Whole, WholeSet
  <1>2. [Whole(c, d) EXCEPT !.ref = y] \in WholeSet([c EXCEPT !.ref = y], d)
    <2>1. [c EXCEPT !.ref = y] = Core(x, y, term, gone, st, held, b)
      <3> HIDE DEF x, n, term, gone, st, held, b
      <3>1. [c EXCEPT !.ref = y] \in CoreSet(x, y, term, gone, st, held, b)
        BY <1>0 DEF Core, CoreSet
      <3> QED BY <3>1, CoreEq
    <2> QED BY <2>1, CoreFields DEF Whole, WholeSet
  <1>3. [Whole(c, d) EXCEPT !.is_terminated = y] \in WholeSet([c EXCEPT !.is_terminated = y], d)
    <2>1. [c EXCEPT !.is_terminated = y] = Core(x, n, y, gone, st, held, b)
      <3> HIDE DEF x, n, term, gone, st, held, b
      <3>1. [c EXCEPT !.is_terminated = y] \in CoreSet(x, n, y, gone, st, held, b)
        BY <1>0 DEF Core, CoreSet
      <3> QED BY <3>1, CoreEq
    <2> QED BY <2>1, CoreFields DEF Whole, WholeSet
  <1>4. [Whole(c, d) EXCEPT !.stage = y] \in WholeSet([c EXCEPT !.stage = y], d)
    <2>1. [c EXCEPT !.stage = y] = Core(x, n, term, gone, y, held, b)
      <3> HIDE DEF x, n, term, gone, st, held, b
      <3>1. [c EXCEPT !.stage = y] \in CoreSet(x, n, term, gone, y, held, b)
        BY <1>0 DEF Core, CoreSet
      <3> QED BY <3>1, CoreEq
    <2> QED BY <2>1, CoreFields DEF Whole, WholeSet
  <1>5. [Whole(c, d) EXCEPT !.bad = y] \in WholeSet([c EXCEPT !.bad = y], d)
    <2>1. [c EXCEPT !.bad = y] = Core(x, n, term, gone, st, held, y)
      <3> HIDE DEF x, n, term, gone, st, held, b
      <3>1. [c EXCEPT !.bad = y] \in CoreSet(x, n, term, gone, st, held, y)
        BY <1>0 DEF Core, CoreSet
      <3> QED BY <3>1, CoreEq
    <2> QED BY <2>1, CoreFields DEF Whole, WholeSet
  <1>6. [Whole(c, d) EXCEPT !.data = y] \in WholeSet(c, y)
    BY DEF Whole, WholeSet
  <1> QED BY <1>1, <1>2, <1>3, <1>4, <1>5, <1>6, WholeEq
         DEF SetSock, SetRef, SetTerm, SetStage, SetBad, SetData

\* Assignments to a core leave a core.
LEMMA CoreKept ==
    ASSUME NEW c, NEW y, IsCore(c)
    PROVE  /\ IsCore(SetSock(c, y)) /\ IsCore(SetRef(c, y))
           /\ IsCore(SetTerm(c, y)) /\ IsCore(SetStage(c, y))
           /\ IsCore(SetBad(c, y))
  <1> DEFINE x == c.sock
             n == c.ref
             term == c.is_terminated
             gone == c.freed
             st == c.stage
             held == c.held
             b == c.bad
  <1>0. c = Core(x, n, term, gone, st, held, b)
    BY DEF CoreOf, IsCore
  <1> HIDE DEF x, n, term, gone, st, held, b
  <1>1. [c EXCEPT !.sock = y] \in CoreSet(y, n, term, gone, st, held, b)
    BY <1>0 DEF Core, CoreSet
  <1>2. [c EXCEPT !.ref = y] \in CoreSet(x, y, term, gone, st, held, b)
    BY <1>0 DEF Core, CoreSet
  <1>3. [c EXCEPT !.is_terminated = y] \in CoreSet(x, n, y, gone, st, held, b)
    BY <1>0 DEF Core, CoreSet
  <1>4. [c EXCEPT !.stage = y] \in CoreSet(x, n, term, gone, y, held, b)
    BY <1>0 DEF Core, CoreSet
  <1>5. [c EXCEPT !.bad = y] \in CoreSet(x, n, term, gone, st, held, y)
    BY <1>0 DEF Core, CoreSet
  <1>6. /\ [c EXCEPT !.sock = y] = Core(y, n, term, gone, st, held, b)
        /\ [c EXCEPT !.ref = y] = Core(x, y, term, gone, st, held, b)
        /\ [c EXCEPT !.is_terminated = y] = Core(x, n, y, gone, st, held, b)
        /\ [c EXCEPT !.stage = y] = Core(x, n, term, gone, y, held, b)
        /\ [c EXCEPT !.bad = y] = Core(x, n, term, gone, st, held, y)
    BY <1>1, <1>2, <1>3, <1>4, <1>5, CoreEq
  <1> QED BY <1>6, CoreFields DEF SetSock, SetRef, SetTerm, SetStage, SetBad

\* Put, on a whole tunnel.
LEMMA WholePut ==
    ASSUME NEW c, NEW d, IsCore(c), NEW s, NEW k
    PROVE  Put(Whole(c, d), s, k) = Whole(Put(c, s, k), d) /\ IsCore(Put(c, s, k))
  <1> DEFINE y == [c.sock EXCEPT ![s] = k]
  <1>1. Put(Whole(c, d), s, k) = SetSock(Whole(c, d), y)
    BY WholeFields DEF Put, SetSock
  <1>2. Put(c, s, k) = SetSock(c, y)
    BY DEF Put, SetSock
  <1> HIDE DEF y
  <1> QED BY <1>1, <1>2, WholeUpdate, CoreKept

\* Assert, on a whole tunnel.
LEMMA WholeAssert ==
    ASSUME NEW c, NEW d, IsCore(c), NEW p, NEW what
    PROVE  /\ Assert(Whole(c, d), p, what) = Whole(Assert(c, p, what), d)
           /\ IsCore(Assert(c, p, what))
  <1> DEFINE y == c.bad \cup {what}
  <1>1. [Whole(c, d) EXCEPT !.bad = @ \cup {what}] = SetBad(Whole(c, d), y)
    BY WholeFields DEF SetBad
  <1>2. [c EXCEPT !.bad = @ \cup {what}] = SetBad(c, y)
    BY DEF SetBad
  <1> HIDE DEF y
  <1>3. SetBad(Whole(c, d), y) = Whole(SetBad(c, y), d) /\ IsCore(SetBad(c, y))
    BY WholeUpdate, CoreKept
  <1>4. /\ Assert(Whole(c, d), p, what) = IF p THEN Whole(c, d) ELSE SetBad(Whole(c, d), y)
        /\ Assert(c, p, what) = IF p THEN c ELSE SetBad(c, y)
    BY <1>1, <1>2, Zenon DEF Assert
  <1>5. CASE p
    BY <1>4, <1>5
  <1>6. CASE ~p
    BY <1>3, <1>4, <1>6
  <1> QED BY <1>5, <1>6

\* tunnel_ctx_add_ref, on a whole tunnel.
LEMMA WholeAddRef ==
    ASSUME NEW c, NEW d, IsCore(c)
    PROVE  /\ tunnel_ctx_add_ref(Whole(c, d)) = Whole(tunnel_ctx_add_ref(c), d)
           /\ IsCore(tunnel_ctx_add_ref(c))
  <1> DEFINE y == c.ref + 1
  <1>1. tunnel_ctx_add_ref(Whole(c, d)) = SetRef(Whole(c, d), y)
    BY WholeFields DEF tunnel_ctx_add_ref, SetRef
  <1>2. tunnel_ctx_add_ref(c) = SetRef(c, y)
    BY DEF tunnel_ctx_add_ref, SetRef
  <1> HIDE DEF y
  <1> QED BY <1>1, <1>2, WholeUpdate, CoreKept

\* tunnel_destroy_internal, on a whole tunnel.
LEMMA WholeDestroy ==
    ASSUME NEW c, NEW d, IsCore(c)
    PROVE  /\ tunnel_destroy_internal(Whole(c, d)) = Whole(tunnel_destroy_internal(c), d)
           /\ IsCore(tunnel_destroy_internal(c))
  <1> DEFINE x == c.sock
             n == c.ref
             term == c.is_terminated
             gone == c.freed
             st == c.stage
             held == c.held
             b == c.bad
             y == [s \in Side |-> socket_ctx_release(c.sock[s])]
             e == tunnel_destroy_internal(c)
             u == Whole(c, d)
  <1>0. c = Core(x, n, term, gone, st, held, b)
    BY DEF CoreOf, IsCore
  <1>1. e = [c EXCEPT !.freed = TRUE, !.sock = y]
    BY DEF tunnel_destroy_internal
  <1>2. tunnel_destroy_internal(u) = [u EXCEPT !.freed = TRUE, !.sock = y]
    <2>1. u.sock = c.sock
      BY WholeFields
    <2> QED BY <2>1, Zenon DEF tunnel_destroy_internal
  <1> DEFINE yes == TRUE
  <1> HIDE DEF y, e
  <1>3. /\ e.sock = y /\ e.ref = c.ref /\ e.is_terminated = c.is_terminated
        /\ e.freed = TRUE /\ e.stage = c.stage /\ e.held = c.held /\ e.bad = c.bad
        /\ IsCore(e)
    <2>1. yes = TRUE /\ x = c.sock /\ n = c.ref /\ term = c.is_terminated /\ gone = c.freed
          /\ st = c.stage /\ held = c.held /\ b = c.bad
      OBVIOUS
    <2> HIDE DEF x, n, term, gone, st, held, b, yes
    <2>2. e \in CoreSet(y, n, term, yes, st, held, b)
      BY <1>0, <1>1, <2>1 DEF Core, CoreSet
    <2>3. e = Core(y, n, term, yes, st, held, b)
      BY <2>2, CoreEq
    <2>4. /\ e.sock = y /\ e.ref = n /\ e.is_terminated = term /\ e.freed = yes
          /\ e.stage = st /\ e.held = held /\ e.bad = b /\ IsCore(e)
      BY <2>3, CoreFields
    <2> QED BY <2>1, <2>4
  <1>4. [u EXCEPT !.freed = TRUE, !.sock = y] \in WholeSet(e, d)
    BY <1>3 DEF Whole, WholeSet
  <1>5. [u EXCEPT !.freed = TRUE, !.sock = y] = Whole(e, d)
    BY <1>4, WholeEq
  <1> QED BY <1>2, <1>3, <1>5 DEF e

\* tunnel_ctx_release, on a whole tunnel.
LEMMA WholeRelease ==
    ASSUME NEW c, NEW d, IsCore(c)
    PROVE  /\ tunnel_ctx_release(Whole(c, d)) = Whole(tunnel_ctx_release(c), d)
           /\ IsCore(tunnel_ctx_release(c))
  <1> DEFINE y == c.ref - 1
             e == SetRef(c, y)
  <1>1. [Whole(c, d) EXCEPT !.ref = @ - 1] = SetRef(Whole(c, d), y)
    BY WholeFields DEF SetRef
  <1>2. [c EXCEPT !.ref = @ - 1] = e /\ Whole(c, d).ref = c.ref
    BY WholeFields DEF SetRef
  <1>3. SetRef(Whole(c, d), y) = Whole(e, d) /\ IsCore(e)
    <2> HIDE DEF y
    <2> QED BY WholeUpdate, CoreKept
  <1> HIDE DEF y, e
  <1>4. /\ tunnel_destroy_internal(Whole(e, d)) = Whole(tunnel_destroy_internal(e), d)
        /\ IsCore(tunnel_destroy_internal(e))
    BY <1>3, WholeDestroy
  <1>5. /\ tunnel_ctx_release(Whole(c, d)) =
              IF c.ref <= 1 THEN tunnel_destroy_internal(Whole(e, d)) ELSE Whole(e, d)
        /\ tunnel_ctx_release(c) = IF c.ref <= 1 THEN tunnel_destroy_internal(e) ELSE e
    BY <1>1, <1>2, <1>3 DEF tunnel_ctx_release
  <1> QED BY <1>3, <1>4, <1>5

\* CloseSocket, on a whole tunnel.
LEMMA WholeClose ==
    ASSUME NEW c, NEW d, IsCore(c), NEW s
    PROVE  /\ CloseSocket(Whole(c, d), s) = Whole(CloseSocket(c, s), d)
           /\ IsCore(CloseSocket(c, s))
  <1> DEFINE k == socket_ctx_close(c.sock[s])
             p == c.sock[s].rdstate # "dead" /\ c.sock[s].wrstate # "dead"
             a == Put(c, s, k)
  <1>1. /\ CloseSocket(Whole(c, d), s) =
              IF c.sock[s].is_terminated THEN tunnel_ctx_release(Whole(c, d))
              ELSE Assert(Put(Whole(c, d), s, k), p, "close")
        /\ CloseSocket(c, s) = IF c.sock[s].is_terminated THEN tunnel_ctx_release(c)
                               ELSE Assert(a, p, "close")
    BY WholeFields DEF CloseSocket
  <1>2. Put(Whole(c, d), s, k) = Whole(a, d) /\ IsCore(a)
    BY WholePut
  <1> HIDE DEF k, p, a
  <1>3. Assert(Whole(a, d), p, "close") = Whole(Assert(a, p, "close"), d)
        /\ IsCore(Assert(a, p, "close"))
    BY <1>2, WholeAssert
  <1> QED BY <1>1, <1>2, <1>3, WholeRelease

\* tunnel_shutdown, on a whole tunnel.
LEMMA WholeShutdown ==
    ASSUME NEW c, NEW d, IsCore(c)
    PROVE  /\ tunnel_shutdown(Whole(c, d)) = Whole(tunnel_shutdown(c), d)
           /\ IsCore(tunnel_shutdown(c))
  <1> DEFINE u  == Whole(c, d)
             c0 == SetTerm(c, TRUE)
             c1 == tunnel_ctx_add_ref(c0)
             c2 == CloseSocket(c1, "incoming")
             c3 == tunnel_ctx_add_ref(c2)
             c4 == CloseSocket(c3, "outgoing")
             c5 == tunnel_ctx_release(c4)
             u0 == SetTerm(u, TRUE)
             u1 == tunnel_ctx_add_ref(u0)
             u2 == CloseSocket(u1, "incoming")
             u3 == tunnel_ctx_add_ref(u2)
             u4 == CloseSocket(u3, "outgoing")
             u5 == tunnel_ctx_release(u4)
  <1>1. /\ tunnel_shutdown(u) = IF c.is_terminated THEN u ELSE u5
        /\ tunnel_shutdown(c) = IF c.is_terminated THEN c ELSE c5
    BY WholeFields DEF tunnel_shutdown, SetTerm
  <1>2. u0 = Whole(c0, d) /\ IsCore(c0)
    <2> DEFINE yes == TRUE
    <2>1. u0 = SetTerm(u, yes) /\ c0 = SetTerm(c, yes)
      OBVIOUS
    <2> HIDE DEF yes, u0, c0
    <2> QED BY <2>1, WholeUpdate, CoreKept
  <1> HIDE DEF u0, c0
  <1>3. u1 = Whole(c1, d) /\ IsCore(c1)
    BY <1>2, WholeAddRef
  <1> HIDE DEF u1, c1
  <1>4. u2 = Whole(c2, d) /\ IsCore(c2)
    BY <1>3, WholeClose
  <1> HIDE DEF u2, c2
  <1>5. u3 = Whole(c3, d) /\ IsCore(c3)
    BY <1>4, WholeAddRef
  <1> HIDE DEF u3, c3
  <1>6. u4 = Whole(c4, d) /\ IsCore(c4)
    BY <1>5, WholeClose
  <1> HIDE DEF u4, c4
  <1>7. u5 = Whole(c5, d) /\ IsCore(c5)
    BY <1>6, WholeRelease
  <1> HIDE DEF u5, c5
  <1> QED BY <1>1, <1>7

\* uv_socket_close_done_cb, on a whole tunnel.
LEMMA WholeCloseDone ==
    ASSUME NEW c, NEW d, IsCore(c), NEW s
    PROVE  /\ uv_socket_close_done_cb(Whole(c, d), s) = Whole(uv_socket_close_done_cb(c, s), d)
           /\ IsCore(uv_socket_close_done_cb(c, s))
  <1> DEFINE u == Whole(c, d)
             k == c.sock[s]
             j == [k EXCEPT !.closing_count = @ - 1]
             a == Put(c, s, j)
             b == tunnel_ctx_release(a)
             m == [b.sock[s] EXCEPT !.on_closed = FALSE]
             e == Put(b, s, m)
             f == IF k.closing_count <= 1 /\ k.on_closed THEN e ELSE a
  <1>1. Put(u, s, j) = Whole(a, d) /\ IsCore(a)
    BY WholePut
  <1>2. tunnel_ctx_release(Whole(a, d)) = Whole(b, d) /\ IsCore(b)
    <2> HIDE DEF a
    <2> QED BY <1>1, WholeRelease
  <1>3. Put(Whole(b, d), s, m) = Whole(e, d) /\ IsCore(e) /\ Whole(b, d).sock = b.sock
    <2> HIDE DEF b, m
    <2> QED BY <1>2, WholePut, WholeFields
  <1>4. Whole(f, d) = (IF k.closing_count <= 1 /\ k.on_closed THEN Whole(e, d) ELSE Whole(a, d))
        /\ IsCore(f)
    <2> HIDE DEF k, a, e
    <2> QED BY <1>1, <1>3
  <1>5. /\ Put(Whole(f, d), s, socket_ctx_release(f.sock[s])) =
              Whole(Put(f, s, socket_ctx_release(f.sock[s])), d)
        /\ IsCore(Put(f, s, socket_ctx_release(f.sock[s])))
        /\ Whole(f, d).sock = f.sock /\ u.sock = c.sock
    <2> HIDE DEF f
    <2> QED BY <1>4, WholePut, WholeFields
  <1>6. uv_socket_close_done_cb(c, s) = Put(f, s, socket_ctx_release(f.sock[s]))
    BY Zenon DEF uv_socket_close_done_cb
  <1>7. uv_socket_close_done_cb(u, s) = Put(Whole(f, d), s, socket_ctx_release(Whole(f, d).sock[s]))
    <2> DEFINE U(w) == uv_socket_close_done_cb(w, s)
               ua == Put(u, s, [u.sock[s] EXCEPT !.closing_count = @ - 1])
               ub == tunnel_ctx_release(ua)
               uc == Put(ub, s, [ub.sock[s] EXCEPT !.on_closed = FALSE])
               ud == IF u.sock[s].closing_count <= 1 /\ u.sock[s].on_closed THEN uc ELSE ua
    <2>1. U(u) = Put(ud, s, socket_ctx_release(ud.sock[s]))
      BY Zenon DEF uv_socket_close_done_cb
    <2>2. u.sock[s] = k
      BY <1>5
    <2>3. ua = Whole(a, d)
      BY <1>1, <2>2
    <2> HIDE DEF ua, a
    <2>4. ub = Whole(b, d)
      BY <1>2, <2>3
    <2> HIDE DEF ub, b
    <2>5. uc = Whole(e, d)
      BY <1>3, <2>4
    <2> HIDE DEF uc, e
    <2>6. ud = Whole(f, d)
      BY <1>4, <2>2, <2>3, <2>5
    <2> HIDE DEF ud, f
    <2> QED BY <2>1, <2>6
  <1> HIDE DEF f
  <1> QED BY <1>5, <1>6, <1>7

\* tunnel_socket_ctx_on_timeout_cb, on a whole tunnel.
LEMMA WholeTimeout ==
    ASSUME NEW c, NEW d, IsCore(c), NEW s
    PROVE  /\ tunnel_socket_ctx_on_timeout_cb(Whole(c, d), s)
                = Whole(tunnel_socket_ctx_on_timeout_cb(c, s), d)
           /\ IsCore(tunnel_socket_ctx_on_timeout_cb(c, s))
  <1> DEFINE u == Whole(c, d)
             k == [c.sock[s] EXCEPT !.ticking = FALSE, !.result = "err", !.ref = @ + 1]
             a == Put(c, s, k)
             b == IF c.is_terminated THEN a ELSE tunnel_shutdown(a)
             e == Put(b, s, socket_ctx_release(b.sock[s]))
  <1>1. Put(u, s, k) = Whole(a, d) /\ IsCore(a) /\ u.sock = c.sock
        /\ u.is_terminated = c.is_terminated
    BY WholePut, WholeFields
  <1>2. (IF c.is_terminated THEN Whole(a, d) ELSE tunnel_shutdown(Whole(a, d))) = Whole(b, d)
        /\ IsCore(b)
    <2> HIDE DEF a
    <2> QED BY <1>1, WholeShutdown
  <1>3. /\ Put(Whole(b, d), s, socket_ctx_release(b.sock[s])) = Whole(e, d)
        /\ IsCore(e) /\ Whole(b, d).sock = b.sock
    <2> HIDE DEF b
    <2> QED BY <1>2, WholePut, WholeFields
  <1>4. tunnel_socket_ctx_on_timeout_cb(c, s) = e
    BY Zenon DEF tunnel_socket_ctx_on_timeout_cb
  <1>5. tunnel_socket_ctx_on_timeout_cb(u, s)
          = Put(Whole(b, d), s, socket_ctx_release(Whole(b, d).sock[s]))
    <2> DEFINE ua == Put(u, s, [u.sock[s] EXCEPT !.ticking = FALSE, !.result = "err",
                                                 !.ref = @ + 1])
               ub == IF u.is_terminated THEN ua ELSE tunnel_shutdown(ua)
    <2>1. tunnel_socket_ctx_on_timeout_cb(u, s) = Put(ub, s, socket_ctx_release(ub.sock[s]))
      BY Zenon DEF tunnel_socket_ctx_on_timeout_cb
    <2>2. ua = Whole(a, d)
      BY <1>1
    <2> HIDE DEF ua, a
    <2>3. ub = Whole(b, d)
      BY <1>1, <1>2, <2>2
    <2> HIDE DEF ub, b
    <2> QED BY <2>1, <2>3
  <1> HIDE DEF b, e
  <1> QED BY <1>3, <1>4, <1>5

-----------------------------------------------------------------------------
(* Sockets of a live tunnel. *)

\* socket_ctx_read.
LEMMA SockRead ==
    ASSUME NEW k, NEW wr, NEW ws, NEW cg, NEW dn,
           Sock(k, "stop", wr, FALSE, ws, TRUE, cg, dn), NEW b \in BOOLEAN
    PROVE  /\ CanRead(k)
           /\ Sock(socket_ctx_read(k, b), "busy", wr, TRUE, ws, TRUE, cg, dn)
  <1> DEFINE x == k.ticking \/ b
             r == "busy"
  <1>1. x \in BOOLEAN /\ r \in {"stop", "busy", "done"} /\ TRUE \in BOOLEAN
    BY DEF Sock, OpenSocket
  <1>2. socket_ctx_read(k, b) = [k EXCEPT !.rdstate = r, !.reading = TRUE,
                                          !.check_timeout = b, !.ticking = x]
    BY DEF socket_ctx_read
  <1>3. CanRead(k)
    BY DEF CanRead, Sock, OpenSocket
  <1> HIDE DEF x, r
  <1>4. Sock(socket_ctx_read(k, b), r, wr, TRUE, ws, TRUE, cg, dn)
    BY <1>1, <1>2, ZenonT(60) DEF Sock, OpenSocket
  <1> QED BY <1>3, <1>4 DEF r

\* socket_ctx_write.
LEMMA SockWrite ==
    ASSUME NEW k, NEW rd, NEW wr, NEW rg, NEW ws, NEW cg, NEW dn,
           Sock(k, rd, wr, rg, ws, TRUE, cg, dn), NEW w \in Payload
    PROVE  /\ CanWrite(k)
           /\ Sock(socket_ctx_write(k, w), rd, "busy", rg, Append(ws, w), TRUE, cg, dn)
  <1> DEFINE x == Append(ws, w)
             r == "busy"
  <1>1. x \in Seq(Payload) /\ r \in {"stop", "busy", "done"}
    BY DEF Sock, OpenSocket
  <1>2. socket_ctx_write(k, w) = [k EXCEPT !.wrstate = r, !.writes = x]
    BY DEF socket_ctx_write, Sock
  <1>3. CanWrite(k)
    BY DEF CanWrite, Sock, OpenSocket
  <1> HIDE DEF x, r
  <1>4. Sock(socket_ctx_write(k, w), rd, r, rg, x, TRUE, cg, dn)
    BY <1>1, <1>2, ZenonT(60) DEF Sock, OpenSocket
  <1> QED BY <1>3, <1>4 DEF r, x

\* socket_ctx_connect.
LEMMA SockConnect ==
    ASSUME NEW k, Unused(k)
    PROVE  CanConnect(k) /\ Dialling(socket_ctx_connect(k))
  <1>1. CanConnect(k)
    BY DEF CanConnect, Unused, Sock, OpenSocket
  <1>2. Dialling(socket_ctx_connect(k))
    BY ZenonT(60) DEF Dialling, Unused, Sock, OpenSocket, socket_ctx_connect
  <1> QED BY <1>1, <1>2

\* socket_ctx_getaddrinfo.
LEMMA SockLookup ==
    ASSUME NEW k, Unused(k)
    PROVE  CanGetaddrinfo(k) /\ Looking(socket_ctx_getaddrinfo(k))
  <1>1. CanGetaddrinfo(k)
    BY DEF CanGetaddrinfo, Unused, Sock, OpenSocket
  <1> DEFINE q == "queued"
             n == [k EXCEPT !.dns = q, !.ticking = TRUE]
  <1>2. q \in DnsState /\ q # "none"
    BY DEF DnsState
  <1> HIDE DEF q
  <1>3. Sock(n, "stop", "stop", FALSE, <<>>, FALSE, FALSE, q)
    BY <1>2, ZenonT(60) DEF Unused, Sock, OpenSocket
  <1>4. n = socket_ctx_getaddrinfo(k)
    BY DEF socket_ctx_getaddrinfo, q
  <1> HIDE DEF n
  <1>5. n.dns = q
    BY <1>3 DEF Sock
  <1>6. Looking(n)
    BY <1>2, <1>3, <1>5 DEF Looking
  <1> QED BY <1>1, <1>4, <1>6

\* What a completed write makes of a socket.
LEMMA SockWritten ==
    ASSUME NEW k, NEW rd, NEW wr, NEW rg, NEW ws, NEW co, NEW cg, NEW dn,
           Sock(k, rd, wr, rg, ws, co, cg, dn), ws # <<>>, NEW res \in {"ok", "err"}
    PROVE  Sock([k EXCEPT !.writes = Tail(@), !.result = res],
                rd, wr, rg, Tail(ws), co, cg, dn)
  <1> DEFINE x == Tail(ws)
  <1>1. x \in Seq(Payload)
    BY DEF Sock, OpenSocket
  <1>2. [k EXCEPT !.writes = Tail(@), !.result = res] = [k EXCEPT !.writes = x, !.result = res]
    BY DEF Sock
  <1> HIDE DEF x
  <1>3. Sock([k EXCEPT !.writes = x, !.result = res], rd, wr, rg, x, co, cg, dn)
    BY <1>1, ZenonT(60) DEF Sock, OpenSocket
  <1> QED BY <1>2, <1>3 DEF x

\* The thread pool.
LEMMA SockDns ==
    ASSUME NEW k, NEW rd, NEW wr, NEW rg, NEW ws, NEW co, NEW cg, NEW dn,
           Sock(k, rd, wr, rg, ws, co, cg, dn), NEW x \in DnsState
    PROVE  Sock([k EXCEPT !.dns = x], rd, wr, rg, ws, co, cg, x)
  BY ZenonT(60) DEF Sock, OpenSocket

\* The timer.
LEMMA SockTimer ==
    ASSUME NEW k, NEW rd, NEW wr, NEW rg, NEW ws, NEW co, NEW cg, NEW dn,
           Sock(k, rd, wr, rg, ws, co, cg, dn)
    PROVE  Sock(socket_ctx_timer_start(k), rd, wr, rg, ws, co, cg, dn)
  BY ZenonT(60) DEF Sock, OpenSocket, socket_ctx_timer_start

\* Acknowledgements.
LEMMA SockStop ==
    ASSUME NEW k, NEW rd, NEW wr, NEW rg, NEW ws, NEW co, NEW cg, NEW dn,
           Sock(k, rd, wr, rg, ws, co, cg, dn)
    PROVE  /\ Sock(RdStop(k), "stop", wr, rg, ws, co, cg, dn)
           /\ Sock(WrStop(k), rd, "stop", rg, ws, co, cg, dn)
  <1> DEFINE x == "stop"
  <1>1. x \in {"stop", "busy", "done"}
    OBVIOUS
  <1> HIDE DEF x
  <1>2. Sock([k EXCEPT !.rdstate = x], x, wr, rg, ws, co, cg, dn)
    BY <1>1, ZenonT(60) DEF Sock, OpenSocket
  <1>3. Sock([k EXCEPT !.wrstate = x], rd, x, rg, ws, co, cg, dn)
    BY <1>1, ZenonT(60) DEF Sock, OpenSocket
  <1> QED BY <1>2, <1>3 DEF RdStop, WrStop, x

\* What the completion of a write that is acknowledged makes of a socket.
LEMMA SockDone ==
    ASSUME NEW k, NEW rd, NEW wr, NEW rg, NEW ws, NEW co, NEW cg, NEW dn,
           Sock(k, rd, wr, rg, ws, co, cg, dn), NEW x \in {"stop", "busy", "done"}
    PROVE  Sock([k EXCEPT !.wrstate = x], rd, x, rg, ws, co, cg, dn)
  BY ZenonT(60) DEF Sock, OpenSocket

\* Every open socket is one of them, and is a socket of tunnel.c.
LEMMA SockOf ==
    ASSUME NEW k \in OpenSocket
    PROVE  /\ Sock(k, k.rdstate, k.wrstate, k.reading, k.writes, k.connected,
                   k.connecting, k.dns)
           /\ k \in Socket(Payload) /\ k.writes \in Seq(Payload)
           /\ SocketOK(k, FALSE, FALSE, TRUE)
  <1>1. k \in Socket(Payload)
    <2>1. 1 \in Nat /\ 0 \in Nat
      OBVIOUS
    <2> QED BY <2>1, ZenonT(60) DEF OpenSocket, Socket, socket_state, HandleState
  <1>2. /\ k.is_terminated = FALSE /\ k.ref = 1 /\ k.freed = FALSE /\ k.closing_count = 0
        /\ k.on_closed = FALSE /\ k.tcp = "open" /\ k.timer = "open"
        /\ k.rdstate # "dead" /\ k.wrstate # "dead" /\ k.writes \in Seq(Payload)
    BY DEF OpenSocket
  <1>3. SocketOK(k, FALSE, FALSE, TRUE)
    BY <1>1, <1>2 DEF SocketOK, CloseOwed, One
  <1> QED BY <1>1, <1>2, <1>3 DEF Sock

\* What the beginning of the read callback makes of a socket.
ReadIn(k, str, status) ==
    [k EXCEPT !.result  = IF status = "data" THEN "ok" ELSE "err",
              !.reading = str /\ status = "data",
              !.ticking = FALSE,
              !.rdstate = IF status = "data" THEN "done" ELSE "stop"]

\* On an open socket.
LEMMA SockEnter ==
    ASSUME NEW k, NEW rd, NEW wr, NEW rg, NEW ws, NEW co, NEW cg, NEW dn,
           Sock(k, rd, wr, rg, ws, co, cg, dn), NEW str \in BOOLEAN
    PROVE  /\ Sock(ReadIn(k, str, "data"), "done", wr, str, ws, co, cg, dn)
           /\ \A x \in {"eof", "error"} :
                 Sock(ReadIn(k, str, x), "stop", wr, FALSE, ws, co, cg, dn)
  <1>1. ReadIn(k, str, "data")
          = [k EXCEPT !.result = "ok", !.reading = str, !.ticking = FALSE, !.rdstate = "done"]
    BY DEF ReadIn
  <1>2. \A x \in {"eof", "error"} :
           ReadIn(k, str, x)
             = [k EXCEPT !.result = "err", !.reading = FALSE, !.ticking = FALSE, !.rdstate = "stop"]
    BY DEF ReadIn
  <1>3. Sock([k EXCEPT !.result = "ok", !.reading = str, !.ticking = FALSE, !.rdstate = "done"],
             "done", wr, str, ws, co, cg, dn)
    BY ZenonT(60) DEF Sock, OpenSocket
  <1>4. Sock([k EXCEPT !.result = "err", !.reading = FALSE, !.ticking = FALSE, !.rdstate = "stop"],
             "stop", wr, FALSE, ws, co, cg, dn)
    BY ZenonT(60) DEF Sock, OpenSocket
  <1> QED BY <1>1, <1>2, <1>3, <1>4

\* A socket whose first write is completed.
WrDone(k) == [k EXCEPT !.wrstate = "done"]
WroteTo(k, status) == [k EXCEPT !.writes = Tail(@), !.result = status]
Wrote(k) == WrDone(WroteTo(k, "ok"))
WroteNot(k) == WrStop(WroteTo(k, "err"))

\* On an open socket.
LEMMA SockWrote ==
    ASSUME NEW k, NEW rd, NEW wr, NEW rg, NEW ws, NEW co, NEW cg, NEW dn,
           Sock(k, rd, wr, rg, ws, co, cg, dn), ws # <<>>
    PROVE  /\ Sock(WroteTo(k, "ok"), rd, wr, rg, Tail(ws), co, cg, dn)
           /\ Sock(WroteTo(k, "err"), rd, wr, rg, Tail(ws), co, cg, dn)
           /\ Sock(Wrote(k), rd, "done", rg, Tail(ws), co, cg, dn)
           /\ Sock(WroteNot(k), rd, "stop", rg, Tail(ws), co, cg, dn)
  <1> DEFINE g == "ok"
             b == "err"
             x == "done"
             p == WroteTo(k, g)
             q == WroteTo(k, b)
             tl == Tail(ws)
  <1>1. g \in {"ok", "err"} /\ b \in {"ok", "err"} /\ x \in {"stop", "busy", "done"}
    OBVIOUS
  <1> HIDE DEF g, b, x
  <1>2. Sock(p, rd, wr, rg, tl, co, cg, dn) /\ Sock(q, rd, wr, rg, tl, co, cg, dn)
    BY <1>1, SockWritten DEF WroteTo
  <1> HIDE DEF p, q, tl
  <1>3. Sock([p EXCEPT !.wrstate = x], rd, x, rg, tl, co, cg, dn)
    <2>1. Sock(p, rd, wr, rg, tl, co, cg, dn) /\ x \in {"stop", "busy", "done"}
      BY <1>1, <1>2
    <2> QED BY <2>1, SockDone, Zenon
  <1>4. Sock(WrStop(q), rd, "stop", rg, tl, co, cg, dn)
    BY <1>2, SockStop
  <1>5. Sock(Wrote(k), rd, "done", rg, tl, co, cg, dn)
    BY <1>3 DEF Wrote, WrDone, x, p, g
  <1>6. Sock(WroteNot(k), rd, "stop", rg, tl, co, cg, dn)
    BY <1>4 DEF WroteNot, q, b
  <1> QED BY <1>2, <1>5, <1>6 DEF p, q, g, b, tl

\* The sockets of a new tunnel.
LEMMA NewSockets ==
    /\ Quiet(socket_context_create(TRUE)) /\ Unused(socket_context_create(FALSE))
    /\ Reading(socket_ctx_read(socket_context_create(TRUE), TRUE))
  <1> DEFINE a == socket_context_create(TRUE)
             b == socket_context_create(FALSE)
             k == socket_ctx_read(a, TRUE)
  <1>1. Quiet(a) /\ Unused(b)
    BY DEF socket_context_create, Quiet, Unused, Sock, OpenSocket, DnsState
  <1>2. Reading(k)
    <2> DEFINE s == "stop"
               e == <<>>
               no == FALSE
               dn == "none"
               yes == TRUE
    <2>1. Sock(a, "stop", s, FALSE, e, TRUE, no, dn) /\ yes \in BOOLEAN
      BY <1>1 DEF Quiet
    <2>2. Sock(socket_ctx_read(a, yes), "busy", s, TRUE, e, TRUE, no, dn)
      <3> HIDE DEF s, e, no, dn, a, yes
      <3> QED BY <2>1, SockRead
    <2> HIDE DEF a
    <2> QED BY <2>2 DEF Reading
  <1> QED BY <1>1, <1>2
=============================================================================
