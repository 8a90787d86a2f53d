-------------------------- MODULE UdpSessionProofs ---------------------------
(***************************************************************************)
(* Theorems about UdpSession, for every number of pairs, sessions, replies *)
(* and sends.                                                              *)
(***************************************************************************)
EXTENDS UdpSession, SequenceTheorems, TLAPS

\* The closed handles libuv has still to call back, in the order of the calls.
Queue == pass \o closing

Entries(q) == {q[i] : i \in DOMAIN q}

Distinct(q) == \A i, j \in DOMAIN q : q[i] = q[j] => i = j

Closed(x) == IF x = "closing" THEN 1 ELSE 0

\* A session that does not exist yet, one the listener knows, and one that was
\* shut down: its references are those of its handles on their way out.
Absent(r) == r = Unused
Known(r) ==
    /\ r.on /\ ~r.shutting_down /\ ~r.freed /\ r.ticking
    /\ r.ref = 1 /\ r.udp = "open" /\ r.timer = "open"
Ending(r) ==
    /\ r.on /\ r.shutting_down /\ ~r.ticking
    /\ r.udp # "open" /\ r.timer # "open"
    /\ r.ref = Closed(r.udp) + Closed(r.timer)
    /\ r.freed <=> r.ref = 0

SessionsOK ==
    \A s \in Session : /\ Absent(sess[s]) \/ Known(sess[s]) \/ Ending(sess[s])
                       /\ s \in connections <=> Known(sess[s])

\* A handle is queued once, and exactly while it is being closed.
QueueOK ==
    /\ Distinct(Queue)
    /\ \A s \in Session : /\ sess[s].udp = "closing" <=> <<s, "udp">> \in Entries(Queue)
                          /\ sess[s].timer = "closing" <=> <<s, "timer">> \in Entries(Queue)
    /\ listener = "closing" <=> <<NULL, "udp">> \in Entries(Queue)

\* The shutdown of the listener takes every session out of the set.
ListenerOK == listener # "open" => connections = {}

\* The slot of a session holds a buffer that is allocated, and that no other
\* session holds.
SlotsOK ==
    /\ \A s \in Session : sess[s].request_data # NULL => buf[sess[s].request_data] = "live"
    /\ \A s, u \in Session :
          sess[s].request_data = sess[u].request_data /\ sess[s].request_data # NULL => s = u

NeverBad == "listener" \notin bad /\ "double_free" \notin bad

UdpInv ==
    /\ UdpTypeOK /\ SessionsOK /\ QueueOK /\ ListenerOK /\ OneSessionPerPair
    /\ SlotsOK /\ NeverBad

-----------------------------------------------------------------------------
(* Facts about the queue. *)

\* Handles that are put in front of the queue, or taken from its front, leave
\* it without a duplicate (uv__make_close_pending, uv__run_closing_handles).
LEMMA Prepend ==
    ASSUME NEW a \in Seq(Handle), NEW q \in Seq(Handle), Distinct(a), Distinct(q),
           Entries(a) \cap Entries(q) = {}
    PROVE  /\ a \o q \in Seq(Handle)
           /\ Distinct(a \o q)
           /\ Entries(a \o q) = Entries(a) \cup Entries(q)
  <1>1. /\ a \o q \in Seq(Handle) /\ Len(a \o q) = Len(a) + Len(q)
        /\ \A i \in 1 .. Len(a) + Len(q) :
              (a \o q)[i] = IF i <= Len(a) THEN a[i] ELSE q[i - Len(a)]
    BY ConcatProperties
  <1>2. /\ DOMAIN a = 1 .. Len(a) /\ DOMAIN q = 1 .. Len(q) /\ Len(a) \in Nat /\ Len(q) \in Nat
        /\ DOMAIN (a \o q) = 1 .. Len(a) + Len(q)
    BY <1>1
  <1>3. Distinct(a \o q)
    <2> SUFFICES ASSUME NEW i \in 1 .. Len(a) + Len(q), NEW j \in 1 .. Len(a) + Len(q),
                        (a \o q)[i] = (a \o q)[j]
                 PROVE  i = j
      BY <1>2 DEF Distinct
    <2>1. \A k \in 1 .. Len(a), m \in 1 .. Len(q) : a[k] # q[m]
      BY <1>2 DEF Entries
    <2>2. CASE i <= Len(a) /\ j <= Len(a)
      BY <1>1, <1>2, <2>2 DEF Distinct
    <2>3. CASE i > Len(a) /\ j > Len(a)
      <3>1. i - Len(a) \in DOMAIN q /\ j - Len(a) \in DOMAIN q
        BY <1>2, <2>3
      <3>2. q[i - Len(a)] = q[j - Len(a)]
        BY <1>1, <1>2, <2>3
      <3>3. i - Len(a) = j - Len(a)
        BY <3>1, <3>2 DEF Distinct
      <3> QED BY <3>3, <1>2
    <2>4. CASE i <= Len(a) /\ j > Len(a)
      BY <1>1, <1>2, <2>1, <2>4
    <2>5. CASE i > Len(a) /\ j <= Len(a)
      BY <1>1, <1>2, <2>1, <2>5
    <2> QED BY <1>2, <2>2, <2>3, <2>4, <2>5
  <1>4. Range(a \o q) = Range(a) \cup Range(q)
    BY RangeConcatenation
  <1> QED BY <1>1, <1>3, <1>4 DEF Range, Entries

\* The same for the handle that is taken from the front.
LEMMA Dequeue ==
    ASSUME NEW q \in Seq(Handle), Distinct(q), q # <<>>
    PROVE  /\ Tail(q) \in Seq(Handle) /\ Head(q) \in Handle
           /\ Distinct(Tail(q))
           /\ Head(q) \in Entries(q)
           /\ Entries(Tail(q)) = Entries(q) \ {Head(q)}
  <1>1. /\ Head(q) \in Handle /\ Tail(q) \in Seq(Handle)
        /\ Len(Tail(q)) = Len(q) - 1
        /\ \A i \in 1 .. Len(Tail(q)) : Tail(q)[i] = q[i + 1]
    BY HeadTailProperties
  <1>2. \A e \in Seq(Handle) : e # <<>> => Len(e) \in Nat \ {0}
    BY EmptySeq, Zenon
  <1>3. Len(q) \in Nat \ {0} /\ DOMAIN q = 1 .. Len(q) /\ Head(q) = q[1]
    BY <1>2
  <1>4. DOMAIN Tail(q) = 1 .. Len(q) - 1
    BY <1>1, <1>3
  <1>5. \A i, j \in 1 .. Len(q) : q[i] = q[j] => i = j
    BY <1>3 DEF Distinct
  <1>6. Distinct(Tail(q))
    <2> SUFFICES ASSUME NEW i \in 1 .. Len(q) - 1, NEW j \in 1 .. Len(q) - 1, q[i + 1] = q[j + 1]
                 PROVE  i = j
      BY <1>1, <1>3, <1>4 DEF Distinct
    <2>1. i + 1 \in 1 .. Len(q) /\ j + 1 \in 1 .. Len(q)
      BY <1>3
    <2>2. i + 1 = j + 1
      BY <1>5, <2>1
    <2> QED BY <2>2
  <1>7. Head(q) \in Entries(q)
    BY <1>3 DEF Entries
  <1>8. Entries(Tail(q)) \subseteq Entries(q) \ {Head(q)}
    <2> SUFFICES ASSUME NEW i \in 1 .. Len(q) - 1
                 PROVE  q[i + 1] \in Entries(q) /\ q[i + 1] # q[1]
      BY <1>1, <1>3, <1>4 DEF Entries
    <2>1. i + 1 \in 1 .. Len(q) /\ 1 \in 1 .. Len(q) /\ i + 1 # 1
      BY <1>3
    <2> QED BY <1>3, <1>5, <2>1 DEF Entries
  <1>9. Entries(q) \ {Head(q)} \subseteq Entries(Tail(q))
    <2> SUFFICES ASSUME NEW i \in 1 .. Len(q), q[i] # q[1]
                 PROVE  q[i] \in Entries(Tail(q))
      BY <1>3 DEF Entries
    <2>1. i - 1 \in 1 .. Len(q) - 1
      BY <1>3
    <2>2. Tail(q)[i - 1] = q[i]
      BY <1>1, <1>3, <2>1
    <2> QED BY <1>4, <2>1, <2>2 DEF Entries
  <1> QED BY <1>1, <1>6, <1>7, <1>8, <1>9

\* Taking the front of the pass takes the front of the queue.
LEMMA QueueTail ==
    ASSUME NEW a \in Seq(Handle), NEW q \in Seq(Handle), a # <<>>
    PROVE  a \o q # <<>> /\ Head(a \o q) = Head(a) /\ Tail(a \o q) = Tail(a) \o q
  <1>1. \A e \in Seq(Handle) : e # <<>> => Len(e) \in Nat \ {0}
    BY EmptySeq, Zenon
  <1>2. Len(a) \in Nat \ {0} /\ Len(q) \in Nat
    BY <1>1
  <1>3. a \o q \in Seq(Handle) /\ Len(a \o q) = Len(a) + Len(q)
    BY ConcatProperties
  <1>4. a \o q # <<>>
    <2>1. Len(a \o q) # 0
      BY <1>2, <1>3
    <2> QED BY <2>1
  <1>5. Head(a \o q) = Head(a)
    BY <1>2, <1>3, <1>4, ConcatProperties
  <1>6. Tail(a) \in Seq(Handle) /\ Len(Tail(a)) = Len(a) - 1
        /\ \A i \in 1 .. Len(a) - 1 : Tail(a)[i] = a[i + 1]
    BY HeadTailProperties
  <1>7. Tail(a \o q) \in Seq(Handle) /\ Len(Tail(a \o q)) = Len(a) + Len(q) - 1
        /\ \A i \in 1 .. Len(a) + Len(q) - 1 : Tail(a \o q)[i] = (a \o q)[i + 1]
    BY <1>3, <1>4, HeadTailProperties
  <1>8. Tail(a) \o q \in Seq(Handle) /\ Len(Tail(a) \o q) = Len(a) + Len(q) - 1
        /\ \A i \in 1 .. Len(a) + Len(q) - 1 :
             (Tail(a) \o q)[i] = IF i <= Len(a) - 1 THEN a[i + 1] ELSE q[i - (Len(a) - 1)]
    BY <1>2, <1>6, ConcatProperties
  <1>9. \A i \in 1 .. Len(a) + Len(q) - 1 : Tail(a \o q)[i] = (Tail(a) \o q)[i]
    <2> SUFFICES ASSUME NEW i \in 1 .. Len(a) + Len(q) - 1
                 PROVE  (a \o q)[i + 1] = (Tail(a) \o q)[i]
      BY <1>7
    <2>1. i + 1 \in 1 .. Len(a) + Len(q)
      BY <1>2
    <2>2. (a \o q)[i + 1] = IF i + 1 <= Len(a) THEN a[i + 1] ELSE q[i + 1 - Len(a)]
      BY <2>1, ConcatProperties
    <2> QED BY <1>2, <1>8, <2>2
  <1> QED BY <1>4, <1>5, <1>7, <1>8, <1>9, SeqEqual

\* The index that ClosingsOf computes is half of i, rounded up.
RoundsUp(i) ==
    \/ i = 2 * ((i + 1) \div 2) - 1 /\ i % 2 = 1
    \/ i = 2 * ((i + 1) \div 2) /\ i % 2 = 0

\* That is so for every number (the index of ClosingsOf).
LEMMA Halves ==
    ASSUME NEW i \in Int
    PROVE  RoundsUp(i)
  <1>1. PICK m \in Int : i = 2 * m \/ i = 2 * m - 1
    <2>1. i - 2 * (i \div 2) \in 0 .. 1 /\ i \div 2 \in Int
      OBVIOUS
    <2>2. PICK d \in Int : i - 2 * d \in 0 .. 1
      BY <2>1
    <2>3. CASE i = 2 * d
      BY <2>3
    <2>4. CASE i = 2 * (d + 1) - 1
      <3> DEFINE e == d + 1
      <3>1. e \in Int
        OBVIOUS
      <3>2. i = 2 * e - 1
        BY <2>4
      <3> HIDE DEF e
      <3> QED BY <3>1, <3>2
    <2> QED BY <2>2, <2>3, <2>4
  <1>2. /\ (2 * m + 1) \div 2 = m /\ (2 * m) % 2 = 0
        /\ (2 * m - 1 + 1) \div 2 = m /\ (2 * m - 1) % 2 = 1
    OBVIOUS
  <1>3. CASE i = 2 * m
    BY <1>2, <1>3 DEF RoundsUp
  <1>4. CASE i = 2 * m - 1
    BY <1>2, <1>4 DEF RoundsUp
  <1> QED BY <1>1, <1>3, <1>4

\* The handles of sessions that differ are listed once each (ClosingsOf).
LEMMA ClosingsListed ==
    ASSUME NEW S \in SUBSET Session, NEW q \in Orders(S)
    PROVE  /\ ClosingsOf(q) \in Seq(Handle)
           /\ Distinct(ClosingsOf(q))
           /\ Entries(ClosingsOf(q)) = S \X {"udp", "timer"}
  <1>1. PICK n \in 0 .. MaxSessions : /\ q \in [1 .. n -> S]
                                      /\ \A i, j \in 1 .. n : q[i] = q[j] => i = j
                                      /\ \A s \in S : \E i \in 1 .. n : q[i] = s
    BY DEF Orders
  <1>2. n \in Nat /\ Len(q) = n
    BY <1>1, UdpAssumption
  <1> DEFINE c == ClosingsOf(q)
             at(i) == Closings(q[(i + 1) \div 2])[2 - (i % 2)]
  <1>3. c = [i \in 1 .. 2 * n |-> at(i)]
    BY <1>2 DEF ClosingsOf
  <1>4. \A i \in 1 .. 2 * n :
          \E k \in 1 .. n : \/ i = 2 * k - 1 /\ at(i) = <<q[k], "udp">>
                            \/ i = 2 * k /\ at(i) = <<q[k], "timer">>
    <2> SUFFICES ASSUME NEW i \in 1 .. 2 * n
                 PROVE  \E k \in 1 .. n : \/ i = 2 * k - 1 /\ at(i) = <<q[k], "udp">>
                                          \/ i = 2 * k /\ at(i) = <<q[k], "timer">>
      OBVIOUS
    <2> DEFINE k == (i + 1) \div 2
    <2>1. k \in 1 .. n
      BY <1>2
    <2>2. (i = 2 * k - 1 /\ i % 2 = 1) \/ (i = 2 * k /\ i % 2 = 0)
      <3>1. i \in Int
        BY <1>2
      <3>2. RoundsUp(i)
        BY <3>1, Halves
      <3> QED BY <3>2 DEF RoundsUp
    <2>3. CASE i = 2 * k - 1 /\ i % 2 = 1
      <3>1. 2 - (i % 2) = 1
        BY <2>3
      <3>2. at(i) = <<q[k], "udp">>
        BY <3>1 DEF Closings
      <3> QED BY <2>1, <2>3, <3>2
    <2>4. CASE i = 2 * k /\ i % 2 = 0
      <3>1. 2 - (i % 2) = 2
        BY <2>4
      <3>2. at(i) = <<q[k], "timer">>
        BY <3>1 DEF Closings
      <3> QED BY <2>1, <2>4, <3>2
    <2> QED BY <2>2, <2>3, <2>4
  <1>5. \A k \in 1 .. n : /\ at(2 * k - 1) = <<q[k], "udp">> /\ 2 * k - 1 \in 1 .. 2 * n
                          /\ at(2 * k) = <<q[k], "timer">> /\ 2 * k \in 1 .. 2 * n
    <2> SUFFICES ASSUME NEW k \in 1 .. n
                 PROVE  /\ at(2 * k - 1) = <<q[k], "udp">> /\ 2 * k - 1 \in 1 .. 2 * n
                        /\ at(2 * k) = <<q[k], "timer">> /\ 2 * k \in 1 .. 2 * n
      OBVIOUS
    <2>1. 2 * k - 1 \in 1 .. 2 * n /\ 2 * k \in 1 .. 2 * n /\ k \in Int
      BY <1>2
    <2>2. /\ (2 * k - 1 + 1) \div 2 = k /\ (2 * k + 1) \div 2 = k
          /\ (2 * k - 1) % 2 = 1 /\ (2 * k) % 2 = 0
      BY <2>1
    <2>3. 2 - ((2 * k - 1) % 2) = 1 /\ 2 - ((2 * k) % 2) = 2
      BY <2>2
    <2> QED BY <2>1, <2>2, <2>3 DEF Closings
  <1> HIDE DEF at, c
  <1>6. DOMAIN c = 1 .. 2 * n /\ \A i \in 1 .. 2 * n : c[i] = at(i)
    BY <1>3
  <1>7. \A k \in 1 .. n : q[k] \in S /\ q[k] \in Session
    BY <1>1
  <1>8. c \in Seq(Handle)
    <2>1. \A i \in 1 .. 2 * n : at(i) \in Handle
      BY <1>4, <1>7 DEF Handle
    <2>2. c \in [1 .. 2 * n -> Handle]
      BY <1>3, <2>1
    <2> QED BY <2>2, <1>2, IsASeq
  <1>9. Distinct(c)
    <2> SUFFICES ASSUME NEW i \in 1 .. 2 * n, NEW j \in 1 .. 2 * n, at(i) = at(j)
                 PROVE  i = j
      BY <1>6 DEF Distinct
    <2>1. PICK k \in 1 .. n : \/ i = 2 * k - 1 /\ at(i) = <<q[k], "udp">>
                              \/ i = 2 * k /\ at(i) = <<q[k], "timer">>
      BY <1>4
    <2>2. PICK m \in 1 .. n : \/ j = 2 * m - 1 /\ at(j) = <<q[m], "udp">>
                              \/ j = 2 * m /\ at(j) = <<q[m], "timer">>
      BY <1>4
    <2>3. q[k] = q[m]
      BY <2>1, <2>2
    <2>4. k = m
      BY <1>1, <2>3
    <2> QED BY <2>1, <2>2, <2>4
  <1>10. Entries(c) = S \X {"udp", "timer"}
    <2>1. Entries(c) = {at(i) : i \in 1 .. 2 * n}
      BY <1>6 DEF Entries
    <2>2. ASSUME NEW e \in Entries(c) PROVE e \in S \X {"udp", "timer"}
      BY <1>4, <1>7, <2>1, <2>2
    <2>3. ASSUME NEW s \in S PROVE <<s, "udp">> \in Entries(c) /\ <<s, "timer">> \in Entries(c)
      <3>1. PICK k \in 1 .. n : q[k] = s
        BY <1>1
      <3> QED BY <1>5, <2>1, <3>1
    <2>4. ASSUME NEW e \in S \X {"udp", "timer"} PROVE e \in Entries(c)
      <3>1. PICK s \in S : e = <<s, "udp">> \/ e = <<s, "timer">>
        OBVIOUS
      <3> QED BY <2>3, <3>1
    <2> QED BY <2>2, <2>4
  <1> QED BY <1>8, <1>9, <1>10 DEF c

-----------------------------------------------------------------------------
(* Facts about one session. *)

\* What udp_remote_ctx_release does to a session that has a reference.
LEMMA Released ==
    ASSUME NEW r \in Remote, r.ref > 0
    PROVE  LET q == udp_remote_ctx_release(r)
           IN  /\ q \in Remote
               /\ q.ref = r.ref - 1 /\ (q.freed <=> r.freed \/ r.ref = 1)
               /\ q.on = r.on /\ q.shutting_down = r.shutting_down /\ q.ticking = r.ticking
               /\ q.udp = r.udp /\ q.timer = r.timer /\ q.pair = r.pair
               /\ q.request_data = r.request_data
  <1> DEFINE n == r.ref - 1
             f == r.freed \/ r.ref <= 1
             q == udp_remote_ctx_release(r)
  <1>1. n \in 0 .. 3 /\ (r.ref <= 1 <=> r.ref = 1)
    BY DEF Remote
  <1>2. f \in BOOLEAN
    BY DEF Remote
  <1>3. q = [r EXCEPT !.ref = n, !.freed = f]
    BY DEF udp_remote_ctx_release
  <1> HIDE DEF n, f, q
  <1>4. /\ q \in Remote
        /\ q.ref = n /\ q.freed = f
        /\ q.on = r.on /\ q.shutting_down = r.shutting_down /\ q.ticking = r.ticking
        /\ q.udp = r.udp /\ q.timer = r.timer /\ q.pair = r.pair
        /\ q.request_data = r.request_data
    BY <1>1, <1>2, <1>3 DEF Remote
  <1>5. f <=> r.freed \/ r.ref = 1
    BY <1>1 DEF f
  <1> QED BY <1>4, <1>5 DEF n, q

\* A session that is not shut down becomes one that is: two references for the
\* close callbacks, none for the set (udp_remote_ctx_shutdown).
LEMMA ShutDown ==
    ASSUME NEW r \in Remote, Known(r)
    PROVE  LET q == udp_remote_ctx_shutdown(r)
           IN  /\ q \in Remote /\ Ending(q)
               /\ q.udp = "closing" /\ q.timer = "closing"
               /\ q.request_data = r.request_data
  <1> DEFINE q == [r EXCEPT !.shutting_down = TRUE, !.ticking = FALSE, !.ref = 3,
                            !.timer = "closing", !.udp = "closing"]
  <1>1. udp_remote_ctx_shutdown(r) = udp_remote_ctx_release(q)
    BY DEF udp_remote_ctx_shutdown, Known
  <1>2. q \in Remote
    <2>1. 3 \in 0 .. 3
      OBVIOUS
    <2> QED BY <2>1, Zenon DEF Remote
  <1>3. /\ q.ref = 3 /\ q.shutting_down /\ ~q.ticking /\ q.timer = "closing"
        /\ q.udp = "closing" /\ q.on /\ ~q.freed /\ q.request_data = r.request_data
    BY DEF Remote, Known
  <1> HIDE DEF q
  <1> QED BY <1>1, <1>2, <1>3, Released DEF Ending, Closed

\* A datagram that is forwarded leaves the session known, with its timer
\* running (common_restart_timer).
LEMMA Forwarded ==
    ASSUME NEW r \in Remote, r.on, ~r.shutting_down, ~r.freed, r.ref = 1, r.udp = "open",
           r.timer = "open", r.sends < MaxSends
    PROVE  /\ Forward(r) \in Remote /\ Known(Forward(r))
           /\ Forward(r).pair = r.pair /\ Forward(r).request_data = r.request_data
  <1> DEFINE q == [r EXCEPT !.sends = @ + 1]
  <1>1. r.sends + 1 \in 0 .. MaxSends
    BY UdpAssumption DEF Remote
  <1>2. q \in Remote
    BY <1>1 DEF Remote
  <1>3. /\ q.on /\ ~q.shutting_down /\ ~q.freed /\ q.ref = 1 /\ q.udp = "open"
        /\ q.timer = "open" /\ q.pair = r.pair /\ q.request_data = r.request_data
    BY DEF Remote
  <1> HIDE DEF q
  <1>4. Forward(r) = [q EXCEPT !.ticking = TRUE]
    BY <1>3 DEF Forward, common_restart_timer, q
  <1> QED BY <1>2, <1>3, <1>4 DEF Remote, Known

\* The session of a pair's first datagram (create_udp_remote).
LEMMA Created ==
    ASSUME NEW p \in Pairs
    PROVE  LET q == Forward(create_udp_remote(p))
           IN  q \in Remote /\ Known(q) /\ q.pair = p /\ q.request_data = NULL
  <1> DEFINE r == create_udp_remote(p)
  <1>1. r \in Remote
    <2>1. 1 \in 0 .. 3 /\ 0 \in 0 .. 3 /\ 0 \in 0 .. MaxSends
      BY UdpAssumption
    <2>2. Unused \in Remote
      BY <2>1 DEF Unused, Remote
    <2> QED BY <2>1, <2>2, Zenon DEF create_udp_remote, Remote
  <1>2. /\ r.on /\ ~r.shutting_down /\ ~r.freed /\ r.ref = 1 /\ r.udp = "open"
        /\ r.timer = "open" /\ r.sends = 0 /\ r.pair = p /\ r.request_data = NULL
    BY DEF create_udp_remote, Unused
  <1>3. r.sends < MaxSends
    BY <1>2, UdpAssumption
  <1> HIDE DEF r
  <1>4. /\ Forward(r) \in Remote /\ Known(Forward(r))
        /\ Forward(r).pair = r.pair /\ Forward(r).request_data = r.request_data
    BY <1>1, <1>2, <1>3, Forwarded
  <1> QED BY <1>2, <1>4 DEF r

\* What the kind of a session says of its fields.
LEMMA Kinds ==
    ASSUME NEW r
    PROVE  /\ Absent(r) => /\ ~r.on /\ r.udp = "closed" /\ r.timer = "closed"
                           /\ r.request_data = NULL /\ ~r.ticking
           /\ Known(r) => r.on /\ r.udp = "open" /\ r.timer = "open" /\ r.ticking
           /\ Ending(r) => r.on /\ r.udp # "open" /\ r.timer # "open" /\ ~r.ticking
           /\ ~(Known(r) /\ Ending(r)) /\ ~(Known(r) /\ Absent(r))
  BY DEF Absent, Known, Ending, Unused

-----------------------------------------------------------------------------
(* The invariant. *)

\* The invariant holds when the listener is bound (udprelay_begin).
LEMMA UdpInit == Init => UdpInv
  <1> SUFFICES ASSUME Init PROVE UdpInv
    OBVIOUS
  <1>1. 0 \in 0 .. 3 /\ 0 \in 0 .. MaxSends
    BY UdpAssumption
  <1>2. Unused \in Remote
    BY <1>1 DEF Unused, Remote
  <1>3. UdpTypeOK
    <2>1. <<>> \in Seq(Request) /\ <<>> \in Seq(Handle)
      OBVIOUS
    <2>2. sess \in [Session -> Remote]
      BY <1>2 DEF Init
    <2>3. buf \in [Buffer -> {"none", "live", "leaked", "freed"}]
      BY DEF Init
    <2> QED BY <2>1, <2>2, <2>3, Zenon DEF Init, UdpTypeOK
  <1>4. \A s \in Session : sess[s] = Unused
    BY DEF Init
  <1>5. SessionsOK
    BY <1>4, Kinds DEF Init, SessionsOK, Absent
  <1>6. Queue = <<>>
    BY DEF Init, Queue
  <1>7. Entries(Queue) = {} /\ Distinct(Queue)
    BY <1>6 DEF Entries, Distinct
  <1>8. QueueOK
    BY <1>4, <1>7 DEF QueueOK, Init, Unused
  <1>9. SlotsOK
    BY <1>4 DEF SlotsOK, Unused
  <1> QED BY <1>3, <1>5, <1>8, <1>9 DEF Init, UdpInv, ListenerOK, OneSessionPerPair, NeverBad

\* A known session that stays known, and what becomes of the rest.
LEMMA Keeps ==
    ASSUME UdpInv, NEW s \in Session, NEW r \in Remote, Known(sess[s]), Known(r),
           r.pair = sess[s].pair, sess' = [sess EXCEPT ![s] = r],
           UNCHANGED <<role, listener, connections, closing, pass>>
    PROVE  /\ sess' \in [Session -> Remote] /\ SessionsOK' /\ QueueOK' /\ ListenerOK'
           /\ OneSessionPerPair' /\ listener = "open" /\ s \in connections
  <1>1. sess \in [Session -> Remote] /\ connections \subseteq Session
    BY DEF UdpInv, UdpTypeOK
  <1>2. sess' \in [Session -> Remote]
    BY <1>1
  <1>3. \A u \in Session : sess'[u] = IF u = s THEN r ELSE sess[u]
    BY <1>1
  <1>4. SessionsOK'
    BY <1>3 DEF UdpInv, SessionsOK
  <1>5. \A u \in Session : /\ sess'[u].udp = sess[u].udp /\ sess'[u].timer = sess[u].timer
                           /\ sess'[u].pair = sess[u].pair
    BY <1>3, Kinds
  <1>6. Queue' = Queue
    BY DEF Queue
  <1>7. QueueOK'
    BY <1>5, <1>6 DEF UdpInv, QueueOK
  <1>8. s \in connections /\ listener = "open"
    BY DEF UdpInv, SessionsOK, ListenerOK
  <1>9. OneSessionPerPair'
    BY <1>1, <1>5 DEF UdpInv, OneSessionPerPair
  <1> QED BY <1>2, <1>4, <1>7, <1>8, <1>9 DEF UdpInv, ListenerOK

\* The slots of the sessions and the buffers, when neither changes.
LEMMA SlotsKept ==
    ASSUME UdpInv, buf' = buf,
           \A s \in Session : sess'[s].request_data = sess[s].request_data
    PROVE  SlotsOK'
  BY DEF UdpInv, SlotsOK

\* A datagram for a session that exists.
LEMMA RecvOld ==
    ASSUME UdpInv, NEW s \in Session, s \in connections, sess[s].sends < MaxSends,
           sess' = [sess EXCEPT ![s] = Forward(@)],
           UNCHANGED <<role, listener, connections, buf, waiting, completed, processing,
                       closing, pass, bad>>
    PROVE  UdpInv'
  <1>1. sess \in [Session -> Remote] /\ sess[s] \in Remote
    BY DEF UdpInv, UdpTypeOK
  <1>2. Known(sess[s])
    BY DEF UdpInv, SessionsOK
  <1> DEFINE r == Forward(sess[s])
  <1>3. r \in Remote /\ Known(r) /\ r.pair = sess[s].pair /\ r.request_data = sess[s].request_data
    BY <1>1, <1>2, Forwarded DEF Known
  <1>4. sess' = [sess EXCEPT ![s] = r]
    OBVIOUS
  <1> HIDE DEF r
  <1>5. /\ sess' \in [Session -> Remote] /\ SessionsOK' /\ QueueOK' /\ ListenerOK'
        /\ OneSessionPerPair'
    BY <1>2, <1>3, <1>4, Keeps
  <1>6. SlotsOK'
    BY <1>1, <1>3, <1>4, SlotsKept
  <1> QED BY <1>5, <1>6 DEF UdpInv, UdpTypeOK, NeverBad

\* A datagram for which a session is made: on the server there is none for
\* the pair yet.
LEMMA RecvNew ==
    ASSUME UdpInv, NEW p \in Pairs, NEW s \in Session,
           find_matching_connection(p) = {} \/ role = "client",
           listener = "open", ~sess[s].on,
           sess' = [sess EXCEPT ![s] = Forward(create_udp_remote(p))],
           connections' = connections \cup {s},
           UNCHANGED <<role, listener, buf, waiting, completed, processing, closing, pass, bad>>
    PROVE  UdpInv'
  <1>1. sess \in [Session -> Remote] /\ sess[s] \in Remote /\ connections \subseteq Session
    BY DEF UdpInv, UdpTypeOK
  <1>2. Absent(sess[s])
    BY Kinds DEF UdpInv, SessionsOK
  <1> DEFINE r == Forward(create_udp_remote(p))
  <1>3. r \in Remote /\ Known(r) /\ r.pair = p /\ r.request_data = NULL
    BY Created
  <1> HIDE DEF r
  <1>4. sess' = [sess EXCEPT ![s] = r]
    BY DEF r
  <1>5. \A u \in Session : sess'[u] = IF u = s THEN r ELSE sess[u]
    BY <1>1, <1>4
  <1>6. UdpTypeOK'
    BY <1>1, <1>3, <1>4 DEF UdpInv, UdpTypeOK
  <1>7. SessionsOK'
    BY <1>3, <1>5 DEF UdpInv, SessionsOK
  <1>8. QueueOK'
    <2>1. \A u \in Session : /\ sess'[u].udp = "closing" <=> sess[u].udp = "closing"
                             /\ sess'[u].timer = "closing" <=> sess[u].timer = "closing"
      BY <1>2, <1>3, <1>5, Kinds
    <2>2. Queue' = Queue
      BY DEF Queue
    <2> QED BY <2>1, <2>2 DEF UdpInv, QueueOK
  <1>9. OneSessionPerPair'
    BY <1>1, <1>3, <1>5 DEF UdpInv, OneSessionPerPair, find_matching_connection
  <1>10. SlotsOK'
    <2>1. sess[s].request_data = NULL
      BY <1>2, Kinds
    <2> QED BY <1>3, <1>5, <2>1, SlotsKept
  <1> QED BY <1>6, <1>7, <1>8, <1>9, <1>10 DEF UdpInv, ListenerOK, NeverBad

\* A send of a session is over.
LEMMA SendDone ==
    ASSUME UdpInv, NEW s \in Session, udp_send_done_cb(s)
    PROVE  UdpInv'
  <1> USE DEF udp_send_done_cb
  <1>1. sess \in [Session -> Remote] /\ sess[s] \in Remote
    BY DEF UdpInv, UdpTypeOK
  <1>2. Known(sess[s])
    BY Kinds DEF UdpInv, SessionsOK
  <1> DEFINE r == [sess[s] EXCEPT !.sends = @ - 1]
  <1>3. r \in Remote
    <2>1. sess[s].sends - 1 \in 0 .. MaxSends
      BY <1>1, UdpAssumption DEF Remote
    <2> QED BY <1>1, <2>1, Zenon DEF Remote
  <1>4. Known(r) /\ r.pair = sess[s].pair /\ r.request_data = sess[s].request_data
    BY <1>1, <1>2 DEF Known, Remote
  <1>5. sess' = [sess EXCEPT ![s] = r]
    BY <1>1
  <1> HIDE DEF r
  <1>6. /\ sess' \in [Session -> Remote] /\ SessionsOK' /\ QueueOK' /\ ListenerOK'
        /\ OneSessionPerPair'
    BY <1>2, <1>3, <1>4, <1>5, Keeps
  <1>7. SlotsOK'
    BY <1>1, <1>4, <1>5, SlotsKept
  <1> QED BY <1>6, <1>7 DEF UdpInv, UdpTypeOK, NeverBad

\* A session that has its socket open is known, and its timer is restarted.
LEMMA Restarted ==
    ASSUME NEW q \in Remote, Known(q)
    PROVE  common_restart_timer(q) = q
  <1>1. (q.timer = "open") = TRUE /\ q.ticking = TRUE
    BY DEF Known, Remote
  <1>2. common_restart_timer(q) = [q EXCEPT !.ticking = TRUE]
    BY <1>1 DEF common_restart_timer
  <1> QED BY <1>1, <1>2 DEF Remote

\* A reply from the target: a buffer takes the slot of the session, the one that
\* was there is lost.
LEMMA Reply ==
    ASSUME UdpInv, NEW s \in Session, NEW b \in Buffer, sess[s].udp = "open", RemoteReply(s, b),
           UNCHANGED <<role, listener, connections, processing, closing, pass>>
    PROVE  UdpInv'
  <1>1. /\ sess \in [Session -> Remote] /\ sess[s] \in Remote
        /\ buf \in [Buffer -> {"none", "live", "leaked", "freed"}]
        /\ waiting \in Seq(Request) /\ completed \in Seq(Request)
    BY DEF UdpInv, UdpTypeOK
  <1>2. Known(sess[s])
    BY Kinds DEF UdpInv, SessionsOK
  <1> DEFINE r == [sess[s] EXCEPT !.request_data = b]
  <1>3. r \in Remote
    BY <1>1, Zenon DEF Remote
  <1>4. Known(r) /\ r.pair = sess[s].pair /\ r.request_data = b
    BY <1>1, <1>2 DEF Known, Remote
  <1>5. sess' = [sess EXCEPT ![s] = r]
    BY <1>3, <1>4, Restarted DEF RemoteReply
  <1> HIDE DEF r
  <1>6. /\ sess' \in [Session -> Remote] /\ SessionsOK' /\ QueueOK' /\ ListenerOK'
        /\ OneSessionPerPair' /\ listener = "open"
    BY <1>2, <1>3, <1>4, <1>5, Keeps
  <1>7. \A u \in Session : sess'[u].request_data = IF u = s THEN b ELSE sess[u].request_data
    BY <1>1, <1>4, <1>5
  <1>8. buf' \in [Buffer -> {"none", "live", "leaked", "freed"}]
    BY <1>1 DEF RemoteReply
  <1>9. \A u \in Session : sess[u].request_data \in Buffer \cup {NULL}
    BY <1>1 DEF Remote
  <1>10. b # NULL /\ NULL \notin Buffer
    BY UdpAssumption DEF Buffer, NULL
  <1>11. SlotsOK'
    <2>1. buf[b] = "none" /\ \A c \in Buffer :
             buf'[c] = IF c = b THEN "live" ELSE IF c = sess[s].request_data THEN "leaked" ELSE buf[c]
      BY DEF RemoteReply
    <2>2. \A u \in Session : sess[u].request_data # b
      BY <1>10, <2>1 DEF UdpInv, SlotsOK
    <2>3. ASSUME NEW u \in Session, sess'[u].request_data # NULL
          PROVE  buf'[sess'[u].request_data] = "live"
      <3>1. CASE u = s
        BY <1>7, <2>1, <3>1
      <3>2. CASE u # s
        <4>1. sess'[u].request_data = sess[u].request_data /\ sess[u].request_data \in Buffer
          BY <1>7, <1>9, <2>3, <3>2
        <4>2. sess[u].request_data # sess[s].request_data /\ buf[sess[u].request_data] = "live"
          BY <2>3, <3>2, <4>1 DEF UdpInv, SlotsOK
        <4> QED BY <2>1, <2>2, <4>1, <4>2
      <3> QED BY <3>1, <3>2
    <2>4. ASSUME NEW u \in Session, NEW v \in Session,
                 sess'[u].request_data = sess'[v].request_data, sess'[u].request_data # NULL
          PROVE  u = v
      BY <1>7, <2>2, <2>4 DEF UdpInv, SlotsOK
    <2> QED BY <2>3, <2>4 DEF SlotsOK
  <1>12. waiting' \in Seq(Request) /\ completed' \in Seq(Request)
    <2>1. <<s, b>> \in Request
      BY DEF Request
    <2>2. << <<s, b>> >> \in Seq(Request) /\ Append(waiting, <<s, b>>) \in Seq(Request)
      BY <1>1, <2>1
    <2> QED BY <1>1, <2>2, Zenon DEF RemoteReply, uv_udp_send
  <1>13. bad' = bad
    BY <1>6 DEF RemoteReply, UseListener
  <1> QED BY <1>6, <1>8, <1>11, <1>12, <1>13 DEF UdpInv, UdpTypeOK, NeverBad

\* A reply that is dropped.
LEMMA Drop ==
    ASSUME UdpInv, NEW s \in Session, sess[s].udp = "open", RemoteDrop(s),
           UNCHANGED <<role, listener, connections, processing, closing, pass>>
    PROVE  UdpInv'
  <1>1. sess \in [Session -> Remote] /\ sess[s] \in Remote
    BY DEF UdpInv, UdpTypeOK
  <1>2. Known(sess[s])
    BY Kinds DEF UdpInv, SessionsOK
  <1>3. sess' = sess
    BY <1>1, <1>2, Restarted DEF RemoteDrop
  <1>4. UNCHANGED vars
    BY <1>3 DEF RemoteDrop, vars
  <1> QED BY <1>4 DEF vars, UdpInv, UdpTypeOK, SessionsOK, QueueOK, Queue, ListenerOK,
                      OneSessionPerPair, SlotsOK, NeverBad

\* While no pass over the closed handles is under way the queue is closing.
LEMMA IdleQueue ==
    ASSUME UdpInv, pass = <<>>
    PROVE  Queue = closing /\ closing \in Seq(Handle)
  BY DEF Queue, UdpInv, UdpTypeOK

\* A session's timer expires: it leaves the set and its two handles are queued.
LEMMA Timeout ==
    ASSUME UdpInv, NEW s \in Session, udp_remote_timeout_cb(s)
    PROVE  UdpInv'
  <1> USE DEF udp_remote_timeout_cb
  <1>1. /\ sess \in [Session -> Remote] /\ sess[s] \in Remote /\ connections \subseteq Session
        /\ pass = <<>>
    BY DEF UdpInv, UdpTypeOK, Idle
  <1>2. Known(sess[s])
    BY Kinds DEF UdpInv, SessionsOK
  <1> DEFINE r == udp_remote_ctx_shutdown(sess[s])
  <1>3. /\ r \in Remote /\ Ending(r) /\ r.udp = "closing" /\ r.timer = "closing"
        /\ r.request_data = sess[s].request_data
    BY <1>1, <1>2, ShutDown
  <1> HIDE DEF r
  <1>4. \A u \in Session : sess'[u] = IF u = s THEN r ELSE sess[u]
    BY <1>1 DEF r
  <1>5. sess' \in [Session -> Remote]
    BY <1>1, <1>3 DEF r
  <1>6. SessionsOK'
    BY <1>3, <1>4, Kinds DEF UdpInv, SessionsOK
  <1>7. /\ closing' \in Seq(Handle) /\ Distinct(Queue')
        /\ Entries(Queue') = {<<s, "udp">>, <<s, "timer">>} \cup Entries(Queue)
    <2> DEFINE c == Closings(s)
    <2>1. c \in Seq(Handle) /\ DOMAIN c = 1 .. 2 /\ c[1] = <<s, "udp">> /\ c[2] = <<s, "timer">>
      BY DEF Closings, Handle
    <2> HIDE DEF c
    <2>2. Entries(c) = {<<s, "udp">>, <<s, "timer">>} /\ Distinct(c)
      <3>1. 1 .. 2 = {1, 2}
        OBVIOUS
      <3>2. <<s, "udp">> # <<s, "timer">>
        OBVIOUS
      <3>3. Distinct(c)
        BY <2>1, <3>1, <3>2 DEF Distinct
      <3>4. Entries(c) = {c[i] : i \in {1, 2}}
        BY <2>1, <3>1 DEF Entries
      <3> QED BY <2>1, <3>3, <3>4
    <2>3. Entries(c) \cap Entries(Queue) = {}
      BY <1>2, <2>2, Kinds DEF UdpInv, QueueOK
    <2>4. Queue = closing /\ closing \in Seq(Handle) /\ Distinct(closing)
      BY <1>1, IdleQueue DEF UdpInv, QueueOK
    <2>5. c \o closing \in Seq(Handle) /\ Distinct(c \o closing)
          /\ Entries(c \o closing) = Entries(c) \cup Entries(closing)
      BY <2>1, <2>2, <2>3, <2>4, Prepend
    <2>6. closing' = c \o closing /\ Queue' = closing'
      BY <1>1, <2>5 DEF Queue, c
    <2> QED BY <2>2, <2>4, <2>5, <2>6
  <1>8. QueueOK'
    <2>1. \A u \in Session : /\ sess'[u].udp = "closing" <=> u = s \/ sess[u].udp = "closing"
                             /\ sess'[u].timer = "closing" <=> u = s \/ sess[u].timer = "closing"
      BY <1>3, <1>4
    <2>2. NULL # s
      BY DEF Session, NULL
    <2> QED BY <1>7, <2>1, <2>2 DEF UdpInv, QueueOK
  <1>9. listener = "open"
    BY <1>2 DEF UdpInv, SessionsOK, ListenerOK
  <1>10. bad' = bad
    BY <1>9 DEF UseListener
  <1>11. OneSessionPerPair'
    BY <1>1, <1>4 DEF UdpInv, OneSessionPerPair
  <1>12. SlotsOK'
    BY <1>3, <1>4, SlotsKept
  <1>13. UdpTypeOK'
    BY <1>5, <1>7, <1>10 DEF UdpInv, UdpTypeOK
  <1> QED BY <1>6, <1>8, <1>9, <1>10, <1>11, <1>12, <1>13 DEF UdpInv, ListenerOK, NeverBad

\* The listener is closed, with every session that it knows.
LEMMA Shutdown ==
    ASSUME UdpInv, udprelay_shutdown
    PROVE  UdpInv'
  <1>1. /\ sess \in [Session -> Remote] /\ connections \subseteq Session
        /\ pass = <<>> /\ listener = "open" /\ listener' = "closing" /\ connections' = {}
        /\ UNCHANGED <<role, buf, waiting, completed, processing, pass, bad>>
    BY DEF UdpInv, UdpTypeOK, Idle, udprelay_shutdown
  <1>2. PICK q \in Orders(connections) :
           closing' = << <<NULL, "udp">> >> \o ClosingsOf(q) \o closing
    BY DEF udprelay_shutdown
  <1>3. \A s \in connections : s \in Session /\ sess[s] \in Remote /\ Known(sess[s])
    BY <1>1 DEF UdpInv, SessionsOK
  <1>4. \A s \in connections :
           /\ udp_remote_ctx_shutdown(sess[s]) \in Remote
           /\ Ending(udp_remote_ctx_shutdown(sess[s]))
           /\ udp_remote_ctx_shutdown(sess[s]).udp = "closing"
           /\ udp_remote_ctx_shutdown(sess[s]).timer = "closing"
           /\ udp_remote_ctx_shutdown(sess[s]).request_data = sess[s].request_data
    BY <1>3, ShutDown
  <1>5. \A s \in Session : sess'[s] = IF s \in connections THEN udp_remote_ctx_shutdown(sess[s])
                                                         ELSE sess[s]
    BY DEF udprelay_shutdown
  <1>6. sess' \in [Session -> Remote]
    BY <1>1, <1>4 DEF udprelay_shutdown
  <1>7. SessionsOK'
    BY <1>1, <1>4, <1>5, Kinds DEF UdpInv, SessionsOK
  <1>8. SlotsOK'
    BY <1>1, <1>4, <1>5, SlotsKept
  <1>9. /\ closing' \in Seq(Handle) /\ Distinct(Queue')
        /\ Entries(Queue') = {<<NULL, "udp">>} \cup (connections \X {"udp", "timer"})
                               \cup Entries(Queue)
    <2> DEFINE l == << <<NULL, "udp">> >>
               c == ClosingsOf(q)
    <2>1. c \in Seq(Handle) /\ Distinct(c) /\ Entries(c) = connections \X {"udp", "timer"}
      BY <1>1, ClosingsListed
    <2>2. l \in Seq(Handle) /\ DOMAIN l = {1} /\ l[1] = <<NULL, "udp">>
      BY DEF Handle
    <2> HIDE DEF l, c
    <2>3. Distinct(l) /\ Entries(l) = {<<NULL, "udp">>}
      BY <2>2 DEF Distinct, Entries
    <2>4. NULL \notin connections
      BY <1>1 DEF Session, NULL
    <2>5. Entries(l) \cap Entries(c) = {}
      BY <2>1, <2>3, <2>4
    <2>6. l \o c \in Seq(Handle) /\ Distinct(l \o c) /\ Entries(l \o c) = Entries(l) \cup Entries(c)
      BY <2>1, <2>2, <2>3, <2>5, Prepend
    <2>7. Queue = closing /\ closing \in Seq(Handle) /\ Distinct(closing)
      BY <1>1, IdleQueue DEF UdpInv, QueueOK
    <2>8. Entries(l \o c) \cap Entries(closing) = {}
      <3>1. \A s \in connections : /\ <<s, "udp">> \notin Entries(closing)
                                   /\ <<s, "timer">> \notin Entries(closing)
        BY <1>3, <2>7, Kinds DEF UdpInv, QueueOK
      <3>2. <<NULL, "udp">> \notin Entries(closing)
        BY <1>1, <2>7 DEF UdpInv, QueueOK
      <3>3. ASSUME NEW e \in Entries(l \o c) PROVE e \notin Entries(closing)
        <4>1. CASE e \in Entries(l)
          BY <2>3, <3>2, <4>1
        <4>2. CASE e \in Entries(c)
          <5>1. PICK s \in connections : e = <<s, "udp">> \/ e = <<s, "timer">>
            BY <2>1, <4>2
          <5> QED BY <3>1, <5>1
        <4> QED BY <2>6, <3>3, <4>1, <4>2
      <3> QED BY <3>3
    <2>9. /\ (l \o c) \o closing \in Seq(Handle) /\ Distinct((l \o c) \o closing)
          /\ Entries((l \o c) \o closing) = Entries(l \o c) \cup Entries(closing)
      BY <2>6, <2>7, <2>8, Prepend
    <2>10. closing' = (l \o c) \o closing
      BY <1>2 DEF l, c
    <2>11. Queue' = closing'
      BY <1>1, <2>9, <2>10 DEF Queue
    <2> QED BY <2>1, <2>3, <2>6, <2>7, <2>9, <2>10, <2>11
  <1>10. QueueOK'
    <2>1. \A s \in Session :
             /\ sess'[s].udp = "closing" <=> s \in connections \/ sess[s].udp = "closing"
             /\ sess'[s].timer = "closing" <=> s \in connections \/ sess[s].timer = "closing"
      BY <1>4, <1>5
    <2>2. NULL \notin Session
      BY DEF Session, NULL
    <2>3. \A s \in Session : /\ <<s, "udp">> \in Entries(Queue') <=>
                                   s \in connections \/ <<s, "udp">> \in Entries(Queue)
                             /\ <<s, "timer">> \in Entries(Queue') <=>
                                   s \in connections \/ <<s, "timer">> \in Entries(Queue)
      BY <1>9, <2>2
    <2>4. <<NULL, "udp">> \in Entries(Queue')
      BY <1>9
    <2> QED BY <1>1, <1>9, <2>1, <2>3, <2>4 DEF UdpInv, QueueOK
  <1>11. UdpTypeOK'
    BY <1>1, <1>6, <1>9 DEF UdpInv, UdpTypeOK
  <1> QED BY <1>1, <1>7, <1>8, <1>10, <1>11 DEF UdpInv, ListenerOK, OneSessionPerPair, NeverBad

\* Sending on the listener's socket concerns no session.
LEMMA Sending ==
    ASSUME UdpInv, uv__udp_io
    PROVE  UdpInv'
  <1>1. /\ waiting \in Seq(Request) /\ completed \in Seq(Request)
        /\ bad \subseteq {"listener", "sent", "session", "double_free"}
    BY DEF UdpInv, UdpTypeOK
  <1>2. PICK k \in 0 .. Len(waiting) :
         /\ completed' = completed \o SubSeq(waiting, 1, k)
         /\ waiting' = SubSeq(waiting, k + 1, Len(waiting))
         /\ bad' = bad \cup {"sent" : i \in {j \in 1 .. k : buf[waiting[j][2]] = "freed"}}
    BY DEF uv__udp_io
  <1>3. SubSeq(waiting, 1, k) \in Seq(Request) /\ SubSeq(waiting, k + 1, Len(waiting)) \in Seq(Request)
    <2>1. k \in Nat /\ k <= Len(waiting) /\ Len(waiting) \in Nat
      BY <1>1
    <2>2. ASSUME NEW m \in 1 .. Len(waiting) + 1, NEW n \in 0 .. Len(waiting)
          PROVE  SubSeq(waiting, m, n) \in Seq(Request)
      BY <1>1, SubSeqProperties
    <2> QED BY <2>1, <2>2
  <1>4. completed' \in Seq(Request) /\ waiting' \in Seq(Request)
    BY <1>1, <1>2, <1>3, ConcatProperties
  <1>5. bad' \subseteq bad \cup {"sent"}
    BY <1>2
  <1> USE DEF uv__udp_io
  <1>6. UdpTypeOK'
    BY <1>1, <1>4, <1>5 DEF UdpInv, UdpTypeOK
  <1>7. NeverBad'
    BY <1>5 DEF UdpInv, NeverBad
  <1> QED BY <1>6, <1>7 DEF UdpInv, SessionsOK, QueueOK, Queue, ListenerOK, OneSessionPerPair, SlotsOK

\* The callback of a request empties the slot of its session, once.
LEMMA Incoming ==
    ASSUME UdpInv, udp_request_incoming_cb
    PROVE  UdpInv'
  <1>1. /\ sess \in [Session -> Remote] /\ waiting \in Seq(Request) /\ completed \in Seq(Request)
        /\ buf \in [Buffer -> {"none", "live", "leaked", "freed"}] /\ completed # <<>>
    BY DEF UdpInv, UdpTypeOK, udp_request_incoming_cb
  <1>2. Tail(completed) \in Seq(Request) /\ Head(completed) \in Request
    BY <1>1, HeadTailProperties
  <1>3. PICK s \in Session : s = Head(completed)[1]
    BY <1>2 DEF Request
  <1> DEFINE r == [sess[s] EXCEPT !.request_data = NULL]
             b == sess[s].request_data
  <1>4. RequestDone(Head(completed))
    BY DEF udp_request_incoming_cb
  <1>5. /\ sess' = [sess EXCEPT ![s].request_data = NULL]
        /\ buf' = [c \in Buffer |-> IF c = b THEN "freed" ELSE buf[c]]
        /\ bad' = bad \cup (IF sess[s].freed THEN {"session"} ELSE {})
                       \cup (IF b # NULL /\ buf[b] = "freed" THEN {"double_free"} ELSE {})
    BY <1>3, <1>4 DEF RequestDone
  <1>6. sess[s] \in Remote
    BY <1>1
  <1>7. r \in Remote
    BY <1>6, Zenon DEF Remote
  <1>8. /\ r.on = sess[s].on /\ r.shutting_down = sess[s].shutting_down /\ r.freed = sess[s].freed
        /\ r.ticking = sess[s].ticking /\ r.ref = sess[s].ref /\ r.udp = sess[s].udp
        /\ r.timer = sess[s].timer /\ r.pair = sess[s].pair /\ r.request_data = NULL
    BY <1>6 DEF Remote
  <1>9. Absent(sess[s]) => r = sess[s]
    BY <1>6, Kinds DEF Remote
  <1>10. \A u \in Session : sess'[u] = IF u = s THEN r ELSE sess[u]
    BY <1>1, <1>5
  <1>11. sess' \in [Session -> Remote]
    BY <1>1, <1>5, <1>7
  <1> HIDE DEF r
  <1>12. (Known(r) <=> Known(sess[s])) /\ (Ending(r) <=> Ending(sess[s]))
    BY <1>8 DEF Known, Ending
  <1>13. SessionsOK'
    BY <1>9, <1>10, <1>12 DEF UdpInv, SessionsOK, udp_request_incoming_cb
  <1>14. \A u \in Session : /\ sess'[u].udp = sess[u].udp /\ sess'[u].timer = sess[u].timer
                            /\ sess'[u].pair = sess[u].pair
                            /\ sess'[u].request_data = IF u = s THEN NULL ELSE sess[u].request_data
    BY <1>8, <1>10
  <1>15. QueueOK'
    BY <1>14 DEF UdpInv, QueueOK, Queue, udp_request_incoming_cb
  <1>16. OneSessionPerPair'
    <2>1. connections \subseteq Session
      BY DEF UdpInv, UdpTypeOK
    <2>2. UNCHANGED <<role, connections>>
      BY DEF udp_request_incoming_cb
    <2> QED BY <1>14, <2>1, <2>2 DEF UdpInv, OneSessionPerPair
  <1>17. \A u \in Session : sess[u].request_data \in Buffer \cup {NULL}
    BY <1>1 DEF Remote
  <1>18. SlotsOK'
    <2>1. ASSUME NEW u \in Session, sess'[u].request_data # NULL
          PROVE  buf'[sess'[u].request_data] = "live"
      <3>1. /\ u # s /\ sess'[u].request_data = sess[u].request_data
            /\ sess[u].request_data \in Buffer
        BY <1>14, <1>17, <2>1
      <3>2. sess[u].request_data # b /\ buf[sess[u].request_data] = "live"
        BY <2>1, <3>1 DEF UdpInv, SlotsOK
      <3> QED BY <1>5, <3>1, <3>2
    <2>2. ASSUME NEW u \in Session, NEW v \in Session,
                 sess'[u].request_data = sess'[v].request_data, sess'[u].request_data # NULL
          PROVE  u = v
      BY <1>14, <2>2 DEF UdpInv, SlotsOK
    <2> QED BY <2>1, <2>2 DEF SlotsOK
  <1>19. b # NULL => buf[b] = "live"
    BY DEF UdpInv, SlotsOK
  <1>20. bad' \subseteq bad \cup {"session"}
    BY <1>5, <1>19
  <1>21. buf' \in [Buffer -> {"none", "live", "leaked", "freed"}]
    BY <1>1, <1>5
  <1>22. UdpTypeOK'
    BY <1>1, <1>2, <1>11, <1>20, <1>21 DEF UdpInv, UdpTypeOK, udp_request_incoming_cb
  <1>23. NeverBad'
    BY <1>20 DEF UdpInv, NeverBad
  <1> QED BY <1>13, <1>15, <1>16, <1>18, <1>22, <1>23
             DEF UdpInv, ListenerOK, udp_request_incoming_cb

\* A pass over the closed handles starts.
LEMMA PassBegins ==
    ASSUME UdpInv, uv__run_closing_handles
    PROVE  UdpInv'
  <1> USE DEF uv__run_closing_handles
  <1>1. pass = <<>>
    BY DEF Idle
  <1>2. Queue' = Queue
    <2>1. Queue = closing /\ closing \in Seq(Handle)
      BY <1>1, IdleQueue
    <2>2. Queue' = closing
      BY <2>1 DEF Queue
    <2> QED BY <2>1, <2>2
  <1>3. <<>> \in Seq(Handle)
    OBVIOUS
  <1>4. UdpTypeOK'
    BY <1>3 DEF UdpInv, UdpTypeOK
  <1> QED BY <1>2, <1>4 DEF UdpInv, SessionsOK, QueueOK, ListenerOK, OneSessionPerPair, SlotsOK,
                            NeverBad

\* The requests of the closed listener are cancelled.
LEMMA Cancelled ==
    ASSUME UdpInv, uv__udp_finish_close
    PROVE  UdpInv'
  <1> USE DEF uv__udp_finish_close
  <1>1. waiting \in Seq(Request) /\ completed \in Seq(Request)
    BY DEF UdpInv, UdpTypeOK
  <1>2. completed \o waiting \in Seq(Request)
    BY <1>1, ConcatProperties
  <1>3. UdpTypeOK'
    <2>1. <<>> \in Seq(Request)
      OBVIOUS
    <2> QED BY <1>1, <1>2, <2>1 DEF UdpInv, UdpTypeOK
  <1> QED BY <1>3 DEF UdpInv, SessionsOK, QueueOK, Queue, ListenerOK, OneSessionPerPair, SlotsOK,
                      NeverBad

\* The front of the pass is called back, which takes it from the queue.
LEMMA CalledBack ==
    ASSUME UdpInv, pass # <<>>, pass' = Tail(pass), closing' = closing
    PROVE  /\ pass' \in Seq(Handle) /\ Distinct(Queue') /\ Head(pass) \in Handle
           /\ Head(pass) \in Entries(Queue)
           /\ Entries(Queue') = Entries(Queue) \ {Head(pass)}
  <1>1. pass \in Seq(Handle) /\ closing \in Seq(Handle) /\ Distinct(Queue)
    BY DEF UdpInv, UdpTypeOK, QueueOK
  <1>2. Queue \in Seq(Handle)
    BY <1>1, ConcatProperties DEF Queue
  <1>3. Queue # <<>> /\ Head(Queue) = Head(pass) /\ Queue' = Tail(Queue)
    BY <1>1, QueueTail DEF Queue
  <1>4. Tail(pass) \in Seq(Handle)
    BY <1>1, HeadTailProperties
  <1> QED BY <1>1, <1>2, <1>3, <1>4, Dequeue

\* The listener is freed.
LEMMA ListenerClosed ==
    ASSUME UdpInv, udp_listener_close_cb
    PROVE  UdpInv'
  <1> USE DEF udp_listener_close_cb
  <1>1. /\ pass' \in Seq(Handle) /\ Distinct(Queue')
        /\ <<NULL, "udp">> \in Entries(Queue)
        /\ Entries(Queue') = Entries(Queue) \ {<<NULL, "udp">>}
    BY CalledBack
  <1>2. NULL \notin Session
    BY DEF Session, NULL
  <1>3. QueueOK'
    BY <1>1, <1>2 DEF UdpInv, QueueOK
  <1>4. listener = "closing"
    BY <1>1 DEF UdpInv, QueueOK
  <1>5. UdpTypeOK'
    BY <1>1 DEF UdpInv, UdpTypeOK
  <1> QED BY <1>3, <1>4, <1>5 DEF UdpInv, SessionsOK, ListenerOK, OneSessionPerPair, SlotsOK, NeverBad

\* A handle of a session is closed: its reference goes, and the session with
\* the last one.
LEMMA CloseDone ==
    ASSUME UdpInv, NEW s \in Session, udp_remote_close_done_cb(s)
    PROVE  UdpInv'
  <1> USE DEF udp_remote_close_done_cb
  <1>1. /\ sess \in [Session -> Remote] /\ sess[s] \in Remote /\ connections \subseteq Session
    BY DEF UdpInv, UdpTypeOK
  <1>2. /\ pass' \in Seq(Handle) /\ Distinct(Queue') /\ Head(pass) \in Handle
        /\ Head(pass) \in Entries(Queue)
        /\ Entries(Queue') = Entries(Queue) \ {Head(pass)}
    BY CalledBack
  <1>3. NULL \notin Session
    BY DEF Session, NULL
  <1>4. Head(pass) = <<s, "udp">> \/ Head(pass) = <<s, "timer">>
    BY <1>2, <1>3 DEF Handle
  <1> DEFINE q == IF Head(pass)[2] = "udp" THEN [sess[s] EXCEPT !.udp = "closed", !.sends = 0]
                                           ELSE [sess[s] EXCEPT !.timer = "closed"]
             r == udp_remote_ctx_release(q)
  <1>5. Ending(sess[s]) /\ s \notin connections
    <2>1. sess[s].udp = "closing" \/ sess[s].timer = "closing"
      BY <1>2, <1>4 DEF UdpInv, QueueOK
    <2> QED BY <2>1, Kinds DEF UdpInv, SessionsOK
  <1>6. /\ q \in Remote /\ q.on = sess[s].on /\ q.shutting_down = sess[s].shutting_down
        /\ q.ticking = sess[s].ticking /\ q.ref = sess[s].ref /\ q.freed = sess[s].freed
        /\ q.request_data = sess[s].request_data
        /\ Head(pass) = <<s, "udp">> => q.udp = "closed" /\ q.timer = sess[s].timer
        /\ Head(pass) = <<s, "timer">> => q.timer = "closed" /\ q.udp = sess[s].udp
    <2>1. 0 \in 0 .. MaxSends
      BY UdpAssumption
    <2>2. CASE Head(pass) = <<s, "udp">>
      <3>1. q = [sess[s] EXCEPT !.udp = "closed", !.sends = 0]
        BY <2>2
      <3>2. Head(pass) # <<s, "timer">>
        BY <2>2
      <3> HIDE DEF q
      <3> QED BY <1>1, <2>1, <2>2, <3>1, <3>2 DEF Remote
    <2>3. CASE Head(pass) = <<s, "timer">>
      <3>1. q = [sess[s] EXCEPT !.timer = "closed"]
        BY <2>3
      <3>2. Head(pass) # <<s, "udp">>
        BY <2>3
      <3> HIDE DEF q
      <3> QED BY <1>1, <2>3, <3>1, <3>2 DEF Remote
    <2> QED BY <1>4, <2>2, <2>3
  <1> HIDE DEF q
  <1>7. /\ Head(pass) = <<s, "udp">> => sess[s].udp = "closing"
        /\ Head(pass) = <<s, "timer">> => sess[s].timer = "closing"
    BY <1>2 DEF UdpInv, QueueOK
  <1>8. sess[s].ref \in Nat /\ sess[s].ref > 0
    BY <1>1, <1>4, <1>5, <1>7 DEF Ending, Closed, Remote
  <1>9. /\ r \in Remote /\ r.ref = q.ref - 1 /\ (r.freed <=> q.freed \/ q.ref = 1)
        /\ r.on = q.on /\ r.shutting_down = q.shutting_down /\ r.ticking = q.ticking
        /\ r.udp = q.udp /\ r.timer = q.timer /\ r.request_data = q.request_data
    BY <1>6, <1>8, Released
  <1> HIDE DEF r
  <1>10. sess' = [sess EXCEPT ![s] = r]
    BY DEF r, q
  <1>11. \A u \in Session : sess'[u] = IF u = s THEN r ELSE sess[u]
    BY <1>1, <1>10
  <1>12. Ending(r)
    <2>1. r.ref = Closed(r.udp) + Closed(r.timer)
      BY <1>4, <1>5, <1>6, <1>7, <1>8, <1>9 DEF Ending, Closed
    <2>2. r.freed <=> r.ref = 0
      BY <1>5, <1>6, <1>8, <1>9 DEF Ending
    <2> QED BY <1>4, <1>5, <1>6, <1>9, <2>1, <2>2 DEF Ending
  <1>13. SessionsOK'
    BY <1>5, <1>11, <1>12, Kinds DEF UdpInv, SessionsOK
  <1>14. QueueOK'
    <2>1. \A u \in Session :
             /\ sess'[u].udp = "closing" <=> sess[u].udp = "closing" /\ Head(pass) # <<u, "udp">>
             /\ sess'[u].timer = "closing" <=> sess[u].timer = "closing" /\ Head(pass) # <<u, "timer">>
      BY <1>4, <1>6, <1>9, <1>11
    <2>2. Head(pass) # <<NULL, "udp">>
      BY <1>3, <1>4
    <2> QED BY <1>2, <2>1, <2>2 DEF UdpInv, QueueOK
  <1>15. OneSessionPerPair'
    BY <1>1, <1>5, <1>11 DEF UdpInv, OneSessionPerPair
  <1>16. SlotsOK'
    BY <1>6, <1>9, <1>11, SlotsKept
  <1>17. sess' \in [Session -> Remote]
    BY <1>1, <1>9, <1>10
  <1>18. bad' \subseteq bad \cup {"session"}
    OBVIOUS
  <1>19. UdpTypeOK'
    BY <1>2, <1>17, <1>18 DEF UdpInv, UdpTypeOK
  <1>20. NeverBad'
    BY <1>18 DEF UdpInv, NeverBad
  <1> QED BY <1>13, <1>14, <1>15, <1>16, <1>19, <1>20 DEF UdpInv, ListenerOK

\* Every callback of the loop keeps the invariant.
LEMMA UdpStep == UdpInv /\ [Next]_vars => UdpInv'
  <1> SUFFICES ASSUME UdpInv, [Next]_vars PROVE UdpInv'
    OBVIOUS
  <1>1. ASSUME NEW p \in Pairs, udp_listener_recv_cb(p) PROVE UdpInv'
    <2>1. connections \subseteq Session
      BY DEF UdpInv, UdpTypeOK
    <2>2. CASE \E s \in find_matching_connection(p) :
                 /\ sess[s].sends < MaxSends
                 /\ sess' = [sess EXCEPT ![s] = Forward(@)]
                 /\ UNCHANGED connections
      <3>1. PICK s \in find_matching_connection(p) :
                 /\ sess[s].sends < MaxSends
                 /\ sess' = [sess EXCEPT ![s] = Forward(@)]
                 /\ UNCHANGED connections
        BY <2>2
      <3>2. s \in connections /\ s \in Session
        BY <2>1 DEF find_matching_connection
      <3> QED BY <1>1, <3>1, <3>2, RecvOld DEF udp_listener_recv_cb
    <2>3. CASE /\ find_matching_connection(p) = {} \/ role = "client"
               /\ \E s \in Session :
                    /\ ~sess[s].on /\ \A u \in 1 .. s - 1 : sess[u].on
                    /\ sess' = [sess EXCEPT ![s] = Forward(create_udp_remote(p))]
                    /\ connections' = connections \cup {s}
      <3>1. PICK s \in Session :
                    /\ ~sess[s].on
                    /\ sess' = [sess EXCEPT ![s] = Forward(create_udp_remote(p))]
                    /\ connections' = connections \cup {s}
        BY <2>3
      <3> QED BY <1>1, <2>3, <3>1, RecvNew DEF udp_listener_recv_cb
    <2> QED BY <1>1, <2>2, <2>3 DEF udp_listener_recv_cb
  <1>2. ASSUME NEW s \in Session, udp_remote_recv_cb(s) PROVE UdpInv'
    BY <1>2, Reply, Drop DEF udp_remote_recv_cb
  <1>3. CASE UNCHANGED vars
    BY <1>3 DEF vars, UdpInv, UdpTypeOK, SessionsOK, QueueOK, Queue, ListenerOK,
                OneSessionPerPair, SlotsOK, NeverBad
  <1> QED BY <1>1, <1>2, <1>3, SendDone, Timeout, CloseDone, Sending, Incoming, Shutdown,
             PassBegins, Cancelled, ListenerClosed DEF Next

\* The invariant holds in every state.
LEMMA UdpInvariant == Spec => []UdpInv
  BY UdpInit, UdpStep, PTL DEF Spec

\* The queue's entries are those of the loop's list and of the pass.
LEMMA QueueEntries ==
    ASSUME UdpInv
    PROVE  Entries(Queue) = {closing[i] : i \in DOMAIN closing} \cup {pass[i] : i \in DOMAIN pass}
  <1>1. pass \in Seq(Handle) /\ closing \in Seq(Handle)
    BY DEF UdpInv, UdpTypeOK
  <1>2. Range(pass \o closing) = Range(pass) \cup Range(closing)
    BY <1>1, RangeConcatenation
  <1> QED BY <1>2 DEF Range, Entries, Queue

-----------------------------------------------------------------------------
(* The theorems. *)

\* The variables of the relay keep their types; a count of references is never
\* negative and never above three.
THEOREM UdpTypeCorrect == Spec => []UdpTypeOK
  <1>1. UdpInv => UdpTypeOK
    BY DEF UdpInv
  <1> QED BY <1>1, UdpInvariant, PTL

\* The references of a session are one for the set and one per handle that is
\* being closed, it is freed exactly at zero, and libuv then has no handle of
\* it left to call back (udp_remote_ctx_release, udp_remote_close_done_cb).
THEOREM SessionRefsCorrect == Spec => []SessionRefs
  <1>1. ASSUME UdpInv PROVE SessionRefs
    <2> SUFFICES ASSUME NEW s \in Session, sess[s].on
                 PROVE  /\ sess[s].ref = (IF sess[s].shutting_down THEN 0 ELSE 1)
                                           + (IF sess[s].udp = "closing" THEN 1 ELSE 0)
                                           + (IF sess[s].timer = "closing" THEN 1 ELSE 0)
                        /\ sess[s].freed <=> sess[s].ref = 0
                        /\ \A h \in {"udp", "timer"} :
                              sess[s][h] = "closing" <=>
                                  <<s, h>> \in {closing[i] : i \in DOMAIN closing}
                                                 \cup {pass[i] : i \in DOMAIN pass}
      BY DEF SessionRefs
    <2>1. Known(sess[s]) \/ Ending(sess[s])
      BY <1>1, Kinds DEF UdpInv, SessionsOK
    <2>2. /\ sess[s].ref = (IF sess[s].shutting_down THEN 0 ELSE 1)
                            + (IF sess[s].udp = "closing" THEN 1 ELSE 0)
                            + (IF sess[s].timer = "closing" THEN 1 ELSE 0)
          /\ sess[s].freed <=> sess[s].ref = 0
      BY <2>1 DEF Known, Ending, Closed
    <2>3. /\ sess[s]["udp"] = "closing" <=> <<s, "udp">> \in Entries(Queue)
          /\ sess[s]["timer"] = "closing" <=> <<s, "timer">> \in Entries(Queue)
      BY <1>1 DEF UdpInv, QueueOK
    <2> QED BY <1>1, <2>2, <2>3, QueueEntries
  <1> QED BY <1>1, UdpInvariant, PTL

\* The set holds exactly the sessions that are not shut down, and the timer of
\* every one of them runs (udp_listener_recv_cb, udp_remote_timeout_cb).
THEOREM ConnectionsExactCorrect == Spec => []ConnectionsExact
  <1>1. ASSUME UdpInv PROVE ConnectionsExact
    <2>1. connections \subseteq Session
      BY <1>1 DEF UdpInv, UdpTypeOK
    <2>2. \A s \in Session :
             s \in connections <=> sess[s].on /\ ~sess[s].shutting_down /\ sess[s].ticking
      BY <1>1, Kinds DEF UdpInv, SessionsOK, Known
    <2> QED BY <2>1, <2>2 DEF ConnectionsExact
  <1> QED BY <1>1, UdpInvariant, PTL

\* The server has at most one session for a sender and a target
\* (find_matching_connection).
THEOREM OneSessionPerPairCorrect == Spec => []OneSessionPerPair
  <1>1. UdpInv => OneSessionPerPair
    BY DEF UdpInv
  <1> QED BY <1>1, UdpInvariant, PTL

\* No session uses its listener, a weak pointer, once that is freed, and no
\* reply's buffer is freed twice (udprelay_shutdown, udp_request_incoming_cb).
THEOREM SessionMemoryCorrect == Spec => []SessionMemory
  <1>1. ASSUME UdpInv PROVE SessionMemory
    <2>1. ASSUME listener = "freed", NEW s \in Session PROVE sess[s].udp # "open"
      BY <1>1, <2>1, Kinds DEF UdpInv, SessionsOK, ListenerOK
    <2>2. bad \cap {"listener", "double_free"} = {}
      BY <1>1 DEF UdpInv, NeverBad
    <2> QED BY <2>1, <2>2 DEF SessionMemory
  <1> QED BY <1>1, UdpInvariant, PTL
=============================================================================
