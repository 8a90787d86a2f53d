----------------------------- MODULE UdpSession ------------------------------
(***************************************************************************)
(* The UDP relay without TLS: src/shadowsocksr-native/src/udp_ssr_client.c *)
(* and udp_ssr_server.c, two files of the same shape.  A listener receives *)
(* datagrams, keeps one session (struct *_udp_remote_ctx) per pair of a    *)
(* sender and a target in the set connections, forwards through a socket   *)
(* of the session's own, and sends the replies back through the listener's *)
(* socket.  A timer per session ends it when it has been silent.           *)
(*                                                                         *)
(* One action is one callback of libuv's loop.  A datagram that is refused *)
(* (too long, not decrypted, no header, a fragment) is freed and leaves no *)
(* trace; its contents are otherwise no part of the model.                 *)
(***************************************************************************)
EXTENDS Integers, Sequences, FiniteSets

CONSTANTS
    Roles,       \* which of the two files: a subset of {"client", "server"}
    Pairs,       \* (incoming_addr, target_addr)
    MaxSessions, \* bound of the model on sessions ever created
    MaxReplies,  \* bound on replies relayed through the listener
    MaxSends     \* bound on datagrams sent by one session to its target

ASSUME UdpAssumption ==
    /\ Roles \subseteq {"client", "server"}
    /\ 0 \notin Pairs
    /\ {MaxSessions, MaxReplies, MaxSends} \subseteq Nat
    /\ MaxSends > 0

VARIABLES
    role,        \* which file
    listener,    \* "open", "closing" or "freed": struct *_udp_listener_ctx
    connections, \* the set of sessions the listener knows
    sess,        \* the sessions, by number; Unused ones do not exist yet
    buf,         \* the buffers of the replies: "none", "live", "leaked", "freed"
    waiting,     \* libuv: requests of the listener's socket not sent yet
    completed,   \* libuv: requests whose callback is due
    processing,  \* libuv: the callbacks of completed are being run
    closing,     \* libuv: handles to close, last closed first
    pass,        \* libuv: the rest of the current pass over closed handles
    bad          \* history: uses of freed memory

vars == <<role, listener, connections, sess, buf, waiting, completed, processing,
          closing, pass, bad>>

Session == 1 .. MaxSessions
Buffer == 1 .. MaxReplies
NULL == 0

Unused == [ on |-> FALSE, pair |-> NULL, ref |-> 0, shutting_down |-> FALSE,
            freed |-> FALSE, request_data |-> NULL, udp |-> "closed",
            timer |-> "closed", ticking |-> FALSE, sends |-> 0 ]

Alive(s) == sess[s].on /\ ~sess[s].freed

\* No run over the completed requests or the closed handles is under way.
Idle == ~processing /\ pass = <<>>

-----------------------------------------------------------------------------
(* Maps from a session to the session after the call. *)

udp_remote_ctx_release(r) == [r EXCEPT !.ref = @ - 1, !.freed = @ \/ r.ref <= 1]

common_restart_timer(r) == [r EXCEPT !.ticking = r.timer = "open"]

\* With the add_ref of the caller, bound and receiving.
create_udp_remote(p) ==
    [Unused EXCEPT !.on = TRUE, !.pair = p, !.ref = 1, !.udp = "open", !.timer = "open"]

\* Mutant: no reference for the close callback of the socket.
ShutdownOneRef(r) ==
    IF r.shutting_down THEN r
    ELSE udp_remote_ctx_release(
             [r EXCEPT !.shutting_down = TRUE, !.ticking = FALSE, !.ref = @ + 1,
                       !.timer = "closing", !.udp = "closing"])

\* The part of ctx_shutdown that changes the session itself.
udp_remote_ctx_shutdown(r) ==
    IF r.shutting_down THEN r
    ELSE udp_remote_ctx_release(
             [r EXCEPT !.shutting_down = TRUE, !.ticking = FALSE, !.ref = @ + 2,
                       !.timer = "closing", !.udp = "closing"])

\* The handles that ctx_shutdown of session s closes: the socket, which it
\* closes after the timer, is in front.
Closings(s) == << <<s, "udp">>, <<s, "timer">> >>

\* Reports a use of the listener by a session when it is already freed.
UseListener == IF listener = "freed" THEN bad \cup {"listener"} ELSE bad

-----------------------------------------------------------------------------
(* uv_udp_send on the listener's socket.  It tries to send at once when no
   request is pending; otherwise, or when the socket would block, the request
   waits.  A request is <<session, buffer>>. *)
uv_udp_send(req) ==
    \/ /\ waiting = <<>> /\ completed = <<>>
       /\ completed' = <<req>>
       /\ UNCHANGED waiting
    \/ /\ waiting' = Append(waiting, req)
       /\ UNCHANGED completed

\* The listener's socket is writable, or has requests completed: the waiting
\* ones are sent until the socket would block, then the callbacks run.
uv__udp_io ==
    /\ Idle /\ listener = "open"
    /\ \E k \in 0 .. Len(waiting) :
         /\ completed' = completed \o SubSeq(waiting, 1, k)
         /\ waiting' = SubSeq(waiting, k + 1, Len(waiting))
         /\ completed' # <<>>
         /\ bad' = bad \cup {"sent" : i \in {j \in 1 .. k : buf[waiting[j][2]] = "freed"}}
    /\ processing' = TRUE
    /\ UNCHANGED <<role, listener, connections, sess, buf, closing, pass>>

-----------------------------------------------------------------------------
(* The callbacks. *)

\* Mutant: the listener does not look for a session of the pair.
MatchNothing(p) == {}

\* find_matching_connection, by memcmp.  The client compares a target_addr
\* whose bytes behind the parsed address are uninitialised.
find_matching_connection(p) == {s \in connections : sess[s].pair = p}

\* Mutant: the timer is left as it is.
ForwardOnly(r) == [r EXCEPT !.sends = @ + 1]

\* The datagram is sent from the socket of the session.
Forward(r) == common_restart_timer([r EXCEPT !.sends = @ + 1])

\* A good datagram of pair p.
udp_listener_recv_cb(p) ==
    /\ Idle /\ listener = "open"
    /\ \/ \E s \in find_matching_connection(p) :
            /\ sess[s].sends < MaxSends
            /\ sess' = [sess EXCEPT ![s] = Forward(@)]
            /\ UNCHANGED connections
       \/ /\ find_matching_connection(p) = {} \/ role = "client"
          /\ \E s \in Session :
               /\ ~sess[s].on /\ \A u \in 1 .. s - 1 : sess[u].on
               /\ sess' = [sess EXCEPT ![s] = Forward(create_udp_remote(p))]
               /\ connections' = connections \cup {s}
    /\ UNCHANGED <<role, listener, buf, waiting, completed, processing, closing, pass, bad>>

\* The send of session s is over; its datagram is freed.
udp_send_done_cb(s) ==
    /\ Idle /\ sess[s].udp = "open" /\ sess[s].sends > 0
    /\ sess' = [sess EXCEPT ![s].sends = @ - 1]
    /\ UNCHANGED <<role, listener, connections, buf, waiting, completed, processing,
                   closing, pass, bad>>

\* A reply that is relayed: a new buffer in the slot of the session.  The one
\* that was there has no other pointer to it.
RemoteReply(s, b) ==
    /\ buf[b] = "none" /\ \A c \in 1 .. b - 1 : buf[c] # "none"
    /\ buf' = [c \in Buffer |-> IF c = b THEN "live"
                               ELSE IF c = sess[s].request_data THEN "leaked" ELSE buf[c]]
    /\ sess' = [sess EXCEPT ![s] = common_restart_timer([@ EXCEPT !.request_data = b])]
    /\ bad' = UseListener
    /\ uv_udp_send(<<s, b>>)

\* A reply that is dropped, or a receive error: the client restarts the timer.
RemoteDrop(s) ==
    /\ role = "client"
    /\ sess' = [sess EXCEPT ![s] = common_restart_timer(@)]
    /\ UNCHANGED <<buf, waiting, completed, bad>>

udp_remote_recv_cb(s) ==
    /\ Idle /\ sess[s].udp = "open"
    /\ (\E b \in Buffer : RemoteReply(s, b)) \/ RemoteDrop(s)
    /\ UNCHANGED <<role, listener, connections, processing, closing, pass>>

udp_remote_timeout_cb(s) ==
    /\ Idle /\ sess[s].ticking
    /\ sess' = [sess EXCEPT ![s] = udp_remote_ctx_shutdown(@)]
    /\ connections' = connections \ {s}
    /\ closing' = Closings(s) \o closing
    /\ bad' = UseListener
    /\ UNCHANGED <<role, listener, buf, waiting, completed, processing, pass>>

\* client_udp_request_incoming_cb on request req: it frees whatever the slot
\* of the session holds, which may belong to a later request.
RequestDone(req) ==
    LET s == req[1]
        b == sess[s].request_data
    IN  /\ sess' = [sess EXCEPT ![s].request_data = NULL]
        /\ buf' = [c \in Buffer |-> IF c = b THEN "freed" ELSE buf[c]]
        /\ bad' = bad \cup (IF sess[s].freed THEN {"session"} ELSE {})
                       \cup (IF b # NULL /\ buf[b] = "freed" THEN {"double_free"} ELSE {})

\* The next callback of a run over the completed requests, or of the requests
\* cancelled because the listener's socket is closed.
udp_request_incoming_cb ==
    /\ completed # <<>>
    /\ \/ processing
       \/ pass # <<>> /\ Head(pass) = <<NULL, "udp">> /\ waiting = <<>>
    /\ RequestDone(Head(completed))
    /\ completed' = Tail(completed)
    /\ processing' = (processing /\ Len(completed) > 1)
    /\ UNCHANGED <<role, listener, connections, waiting, closing, pass>>

\* The orders in which the set S may be traversed: it is sorted by address.
Orders(S) ==
    UNION {{q \in [1 .. n -> S] : /\ \A i, j \in 1 .. n : q[i] = q[j] => i = j
                                  /\ \A s \in S : \E i \in 1 .. n : q[i] = s}
           : n \in 0 .. MaxSessions}

\* The handles of the sessions in q, as the loop's closing list has them.
ClosingsOf(q) ==
    [i \in 1 .. 2 * Len(q) |-> Closings(q[(i + 1) \div 2])[2 - (i % 2)]]

\* Mutant: the listener is closed and its sessions are left to their timers.
ShutdownListenerOnly ==
    /\ Idle /\ listener = "open"
    /\ closing' = << <<NULL, "udp">> >> \o closing
    /\ listener' = "closing"
    /\ UNCHANGED <<role, connections, sess, buf, waiting, completed, processing, pass, bad>>

\* Every session is removed from the set while the set is traversed.  The
\* iterator then reads a node that was freed: either its memory is intact, and
\* the traversal goes on to the next session, or the program ends there.
udprelay_shutdown ==
    /\ Idle /\ listener = "open"
    /\ sess' = [s \in Session |-> IF s \in connections THEN udp_remote_ctx_shutdown(sess[s])
                                                        ELSE sess[s]]
    /\ connections' = {}
    /\ \E q \in Orders(connections) :
          closing' = << <<NULL, "udp">> >> \o ClosingsOf(q) \o closing
    /\ listener' = "closing"
    /\ UNCHANGED <<role, buf, waiting, completed, processing, pass, bad>>

-----------------------------------------------------------------------------
(* libuv's pass over the handles that were closed. *)

uv__run_closing_handles ==
    /\ Idle /\ closing # <<>>
    /\ pass' = closing
    /\ closing' = <<>>
    /\ UNCHANGED <<role, listener, connections, sess, buf, waiting, completed, processing, bad>>

\* The requests that still wait on a closed socket are cancelled.
uv__udp_finish_close ==
    /\ pass # <<>> /\ Head(pass) = <<NULL, "udp">> /\ waiting # <<>>
    /\ completed' = completed \o waiting
    /\ waiting' = <<>>
    /\ UNCHANGED <<role, listener, connections, sess, buf, processing, closing, pass, bad>>

udp_listener_close_cb ==
    /\ pass # <<>> /\ Head(pass) = <<NULL, "udp">>
    /\ waiting = <<>> /\ completed = <<>>
    /\ listener' = "freed"
    /\ pass' = Tail(pass)
    /\ UNCHANGED <<role, connections, sess, buf, waiting, completed, processing, closing, bad>>

\* A handle of session s is closed; the sends of a socket are cancelled first.
udp_remote_close_done_cb(s) ==
    /\ pass # <<>> /\ Head(pass)[1] = s
    /\ sess' = [sess EXCEPT ![s] = udp_remote_ctx_release(
                    IF Head(pass)[2] = "udp" THEN [@ EXCEPT !.udp = "closed", !.sends = 0]
                                             ELSE [@ EXCEPT !.timer = "closed"])]
    /\ bad' = bad \cup (IF sess[s].freed THEN {"session"} ELSE {})
    /\ pass' = Tail(pass)
    /\ UNCHANGED <<role, listener, connections, buf, waiting, completed, processing, closing>>

-----------------------------------------------------------------------------
\* udprelay_begin has bound the listener's socket.
Init ==
    /\ role \in Roles
    /\ listener = "open" /\ connections = {}
    /\ sess = [s \in Session |-> Unused]
    /\ buf = [b \in Buffer |-> "none"]
    /\ waiting = <<>> /\ completed = <<>> /\ processing = FALSE
    /\ closing = <<>> /\ pass = <<>> /\ bad = {}

Next ==
    \/ \E p \in Pairs : udp_listener_recv_cb(p)
    \/ \E s \in Session :
         udp_send_done_cb(s) \/ udp_remote_recv_cb(s) \/ udp_remote_timeout_cb(s)
           \/ udp_remote_close_done_cb(s)
    \/ uv__udp_io \/ udp_request_incoming_cb \/ udprelay_shutdown
    \/ uv__run_closing_handles \/ uv__udp_finish_close \/ udp_listener_close_cb

Spec == Init /\ [][Next]_vars

\* The loop turns, every session is silent for the length of its timeout at
\* some time, and the listener's socket becomes writable again.  Nothing says
\* that datagrams arrive or that the relay is shut down.
Fairness ==
    /\ \A s \in Session : WF_vars(udp_remote_timeout_cb(s))
                         /\ WF_vars(udp_remote_close_done_cb(s))
    /\ WF_vars(uv__udp_io) /\ WF_vars(udp_request_incoming_cb)
    /\ WF_vars(uv__run_closing_handles) /\ WF_vars(uv__udp_finish_close)
    /\ WF_vars(udp_listener_close_cb)

FairSpec == Spec /\ Fairness

-----------------------------------------------------------------------------
(* Properties. *)

Remote ==
    [ on : BOOLEAN, pair : Pairs \cup {NULL}, ref : 0 .. 3, shutting_down : BOOLEAN,
      freed : BOOLEAN, request_data : Buffer \cup {NULL},
      udp : {"open", "closing", "closed"}, timer : {"open", "closing", "closed"},
      ticking : BOOLEAN, sends : 0 .. MaxSends ]

Request == Session \X Buffer
Handle == (Session \X {"udp", "timer"}) \cup {<<NULL, "udp">>}

\* The types of the variables.
UdpTypeOK ==
    /\ role \in Roles /\ listener \in {"open", "closing", "freed"}
    /\ connections \subseteq Session
    /\ sess \in [Session -> Remote]
    /\ buf \in [Buffer -> {"none", "live", "leaked", "freed"}]
    /\ waiting \in Seq(Request) /\ completed \in Seq(Request)
    /\ processing \in BOOLEAN
    /\ closing \in Seq(Handle) /\ pass \in Seq(Handle)
    /\ bad \subseteq {"listener", "sent", "session", "double_free"}

\* A session's reference count is what ctx_shutdown and close_done_cb make of
\* it: one for the set, one per handle that is being closed; it is freed at
\* zero, and libuv then has no handle of it left to call back.
SessionRefs ==
    \A s \in Session : sess[s].on =>
        /\ sess[s].ref = (IF sess[s].shutting_down THEN 0 ELSE 1)
                         + (IF sess[s].udp = "closing" THEN 1 ELSE 0)
                         + (IF sess[s].timer = "closing" THEN 1 ELSE 0)
        /\ sess[s].freed <=> sess[s].ref = 0
        /\ \A h \in {"udp", "timer"} :
              sess[s][h] = "closing" <=>
                  <<s, h>> \in {closing[i] : i \in DOMAIN closing}
                                 \cup {pass[i] : i \in DOMAIN pass}

\* The set connections holds exactly the sessions that are not shut down, and
\* every one of them has its timer running: none is left to stay for ever.
ConnectionsExact ==
    connections = {s \in Session : sess[s].on /\ ~sess[s].shutting_down /\ sess[s].ticking}

\* The server never has two sessions for one sender and target, between which
\* find_matching_connection would choose arbitrarily.
OneSessionPerPair ==
    role = "server" =>
        \A s, u \in connections : sess[s].pair = sess[u].pair => s = u

\* No session is alive and able to use its listener_ctx, a weak pointer, when
\* the listener is freed; and no buffer of a reply is freed twice, although one
\* completion may free the buffer of another request of its session.
SessionMemory ==
    /\ listener = "freed" => \A s \in Session : Alive(s) => sess[s].udp # "open"
    /\ bad \cap {"listener", "double_free"} = {}

\* Every request on the listener's socket has its session allocated until its
\* callback, udp_request_incoming_cb, which asserts what it finds there, and
\* its buffer until it is sent, as libuv's documentation requires.
RequestsOwnTheirMemory ==
    /\ \A q \in {waiting, completed} : \A i \in DOMAIN q : ~sess[q[i][1]].freed
    /\ \A i \in DOMAIN waiting : buf[waiting[i][2]] # "freed"

\* Every session that falls silent expires and is freed, whether the relay is
\* shut down or not, and so is every buffer that is still known to a session.
SessionsEnd ==
    /\ \A s \in Session : sess[s].on ~> sess[s].freed
    /\ \A b \in Buffer : buf[b] = "live" ~> buf[b] # "live"
=============================================================================
