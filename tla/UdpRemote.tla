------------------------------ MODULE UdpRemote ------------------------------
(***************************************************************************)
(* One struct udp_remote_ctx_t of src/shadowsocksr-native/src/udprelay.c:  *)
(* the UDP socket through which the server relays datagrams for one        *)
(* tunnel, and its expiry timer.  As in SocketCtx every operator maps the  *)
(* record to the record after the call; the callbacks to the owner are     *)
(* made by the module that composes it.                                    *)
(*   on         the object exists                                          *)
(*   dying_cb   the owner is still to be told of the end                   *)
(* libuv's view (external): receiving, ticking, the two handles udp and    *)
(* timer, and sends, the number of uv_udp_send requests in progress.       *)
(***************************************************************************)
EXTENDS Integers

NoRelay ==
    [ on |-> FALSE, ref |-> 0, shutting_down |-> FALSE, dying_cb |-> FALSE,
      receiving |-> FALSE, ticking |-> FALSE, udp |-> "closed",
      timer |-> "closed", sends |-> 0, freed |-> FALSE ]

\* With both callbacks registered, as server.c does next.
udp_remote_launch_begin ==
    [ on |-> TRUE, ref |-> 1, shutting_down |-> FALSE, dying_cb |-> TRUE,
      receiving |-> TRUE, ticking |-> TRUE, udp |-> "open",
      timer |-> "open", sends |-> 0, freed |-> FALSE ]

udp_remote_ctx_t_release(r) == [r EXCEPT !.ref = @ - 1, !.freed = @ \/ r.ref <= 1]

\* uv_timer_start refuses a handle that is closing.
udp_remote_reset_timer(r) == [r EXCEPT !.ticking = r.timer = "open"]

\* Mutant: one reference for the two close callbacks.
ShutdownRemoteOneRef(r) ==
    IF ~r.on \/ r.shutting_down THEN r
    ELSE [r EXCEPT !.shutting_down = TRUE, !.receiving = FALSE, !.ticking = FALSE,
                   !.udp = "closing", !.timer = "closing", !.ref = @ + 1]

\* The dying callback is due when DyingOwed holds before the call.
udp_remote_shutdown(r) ==
    IF ~r.on \/ r.shutting_down THEN r
    ELSE [r EXCEPT !.shutting_down = TRUE, !.receiving = FALSE, !.ticking = FALSE,
                   !.udp = "closing", !.timer = "closing", !.ref = @ + 2]

DyingOwed(r) == r.on /\ ~r.shutting_down /\ r.dying_cb

udp_remote_set_dying_callback(r) == [r EXCEPT !.dying_cb = FALSE]

udp_remote_destroy(r) ==
    IF r.on THEN udp_remote_ctx_t_release(udp_remote_shutdown(r)) ELSE r

udp_remote_send_data(r, n) == [r EXCEPT !.sends = @ + n]

upd_remote_sent_cb(r) == udp_remote_reset_timer([r EXCEPT !.sends = @ - 1])

udp_remote_close_done_cb(r) == udp_remote_ctx_t_release(r)

Remote ==
    [ on : BOOLEAN, ref : 0 .. 3, shutting_down : BOOLEAN, dying_cb : BOOLEAN,
      receiving : BOOLEAN, ticking : BOOLEAN, udp : {"open", "closing", "closed"},
      timer : {"open", "closing", "closed"}, sends : Nat, freed : BOOLEAN ]
=============================================================================
