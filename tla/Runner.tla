------------------------------- MODULE Runner --------------------------------
(***************************************************************************)
(* The macOS application around the client: the main thread, with its      *)
(* dispatch queue and the menu (src/ssrMac/SWBAppDelegate.m), and the      *)
(* thread of the queue "proxy", which runs the client's event loop again   *)
(* and again (src/ShadowWeb/ShadowsocksRunner.m, listener.c).  The threads *)
(* share, without a lock, the pointer g_state to the loop's state and the  *)
(* port the listener got, and both change the proxy settings of the system *)
(* by running a helper.                                                    *)
(*                                                                         *)
(* A configuration is its number: 0 is one that is not complete, and every *)
(* save makes the next one.  A loop and the port of its listener are       *)
(* likewise their number.  The tunnels of a loop are modelled elsewhere;   *)
(* here they end when the loop is told to quit.                            *)
(***************************************************************************)
EXTENDS Integers, Sequences

CONSTANTS
    MaxConfig,   \* bound of the model on the configurations saved
    MaxLoops     \* bound on the loops run

ASSUME RunnerAssumption == MaxConfig \in Nat \ {0} /\ MaxLoops \in Nat

VARIABLES
    config,            \* the saved settings
    useProxy,          \* the switch in the menu
    workingListenPort, \* the port shown and used; 0 when there is none
    system,            \* the system's proxy: a port (0 is one too) or Off
    mainq,             \* the blocks queued for the main thread
    ui,                \* where the main thread is, and its local values
    pc,                \* where the proxy thread is
    g_state,           \* the pointer: the number of a loop, or NULL
    st,                \* struct ssr_client_state of the last loop
    deaf               \* history: a reload came too late for the loop that was
                       \* being started, or a loop can hear none any more

vars == <<config, useProxy, workingListenPort, system, mainq, ui, pc, g_state, st, deaf>>

NULL == 0
Off == -1
Idle == [at |-> "idle", g |-> NULL, port |-> NULL]

\* The state is allocated; nothing ends the process but applicationWillTerminate.
Alive == pc \in {"loop", "feedback"}
Running == ui.at # "gone"

NoLoop == [n |-> 0, flag |-> "dead", built |-> 0, dns |-> "done", listener |-> "none"]

settingsAreNotComplete == config = 0

-----------------------------------------------------------------------------
(* The main thread. *)

\* A configuration is saved, or the local port is changed: the save and the
\* read of g_state in ssr_stop.
SaveAndReload ==
    /\ ui = Idle /\ config < MaxConfig
    /\ config' = config + 1
    /\ ui' = [at |-> "reload", g |-> g_state, port |-> NULL]
    /\ UNCHANGED <<useProxy, workingListenPort, system, mainq, pc, g_state, st, deaf>>

\* Mutant of ssr_run_loop_shutdown: the state is marked as shut down already.
StopMarksDead(g) ==
    IF Alive /\ g = st.n /\ st.flag = "living" THEN [st EXCEPT !.flag = "dead"] ELSE st

\* ssr_run_loop_shutdown on the pointer g.  A loop that was freed since is
\* written to in vain.
ssr_run_loop_shutdown(g) ==
    IF Alive /\ g = st.n /\ st.flag = "living" THEN [st EXCEPT !.flag = "quit"] ELSE st

\* The rest of reloadConfig on the main thread, with the g_state read before.
reloadConfig ==
    /\ ui.at = "reload"
    /\ st' = ssr_run_loop_shutdown(ui.g)
    /\ mainq' = Append(mainq, "port0")
    /\ deaf' = (deaf \/ pc \in {"sync", "config"} \/ (Alive /\ ui.g # st.n))
    /\ ui' = Idle
    /\ UNCHANGED <<config, useProxy, workingListenPort, system, pc, g_state>>

\* The next block: reloadConfig's, or the one runProxy waits for.
MainQueue ==
    /\ ui = Idle /\ mainq # <<>>
    /\ IF Head(mainq) = "port0"
       THEN workingListenPort' = 0 /\ UNCHANGED pc
       ELSE pc' = "config" /\ UNCHANGED workingListenPort
    /\ mainq' = Tail(mainq)
    /\ UNCHANGED <<config, useProxy, system, ui, g_state, st, deaf>>

\* The switch in the menu, up to the start of the helper.
toggleRunning ==
    /\ ui = Idle
    /\ useProxy' = ~useProxy
    /\ ui' = [at |-> "helper", g |-> NULL,
              port |-> IF useProxy' THEN workingListenPort ELSE Off]
    /\ UNCHANGED <<config, workingListenPort, system, mainq, pc, g_state, st, deaf>>

\* The PAC file has changed: the proxy is switched off, then on again.
reloadSystemProxy ==
    /\ ui = Idle /\ useProxy
    /\ system' = Off
    /\ ui' = [at |-> "helper", g |-> NULL, port |-> workingListenPort]
    /\ UNCHANGED <<config, useProxy, workingListenPort, mainq, pc, g_state, st, deaf>>

\* The helper started by one of the two has changed the system's settings.
modifySystemProxySettings ==
    /\ ui.at = "helper"
    /\ system' = ui.port
    /\ ui' = Idle
    /\ UNCHANGED <<config, useProxy, workingListenPort, mainq, pc, g_state, st, deaf>>

applicationWillTerminate ==
    /\ ui = Idle
    /\ system' = IF useProxy THEN Off ELSE system
    /\ ui' = [Idle EXCEPT !.at = "gone"]
    /\ UNCHANGED <<config, useProxy, workingListenPort, mainq, pc, g_state, st, deaf>>

-----------------------------------------------------------------------------
(* The thread of the queue "proxy". *)

\* doRunProxyLoop: reloadConfig, when there is no loop yet.
doRunProxyLoop ==
    /\ Running /\ pc = "start"
    /\ mainq' = IF settingsAreNotComplete THEN mainq ELSE Append(mainq, "port0")
    /\ pc' = "run"
    /\ UNCHANGED <<config, useProxy, workingListenPort, system, ui, g_state, st, deaf>>

\* Mutant of runProxy: it does not wait for the main thread.
RunWithoutSync ==
    /\ Running /\ pc = "run"
    /\ pc' = "config"
    /\ UNCHANGED <<config, useProxy, workingListenPort, system, mainq, ui, g_state, st, deaf>>

\* runProxy up to its dispatch_sync, which the main thread ends.
runProxy ==
    /\ Running /\ pc = "run"
    /\ mainq' = Append(mainq, "sync")
    /\ pc' = "sync"
    /\ UNCHANGED <<config, useProxy, workingListenPort, system, ui, g_state, st, deaf>>

\* The rest of runProxy: ssr_main_loop reads the settings and starts the loop,
\* or the thread sleeps.
ssr_main_loop ==
    /\ Running /\ pc = "config"
    /\ IF settingsAreNotComplete
       THEN pc' = "run" /\ UNCHANGED st
       ELSE /\ st.n < MaxLoops
            /\ pc' = "loop"
            /\ st' = [n |-> st.n + 1, flag |-> "living", built |-> config,
                      dns |-> "pending", listener |-> "none"]
    /\ UNCHANGED <<config, useProxy, workingListenPort, system, mainq, ui, g_state, deaf>>

\* The lookup of listen_host is over.  Every outcome but "none", no address,
\* reports to feedback_state, which publishes the state and the port.
getaddrinfo_done_cb(outcome) ==
    /\ Running /\ pc = "loop" /\ st.dns = "pending"
    /\ st' = [st EXCEPT !.dns = "done",
                        !.listener = CASE outcome = "ok" -> "up"
                                       [] outcome = "bind" -> "failed"
                                       [] OTHER -> "none"]
    /\ IF outcome = "none"
       THEN UNCHANGED <<pc, g_state, workingListenPort>>
       ELSE /\ pc' = "feedback"
            /\ g_state' = st.n
            /\ workingListenPort' = IF outcome = "ok" THEN st.n ELSE 0
    /\ deaf' = (deaf \/ (outcome = "ok" /\ st.flag = "dead"))
    /\ UNCHANGED <<config, useProxy, system, mainq, ui>>

\* The second half of feedback_state: the helper is run with the port.  An
\* address that could not be bound then makes the loop quit.
feedback_state ==
    /\ Running /\ pc = "feedback"
    /\ system' = IF st.listener = "up" THEN st.n ELSE 0
    /\ st' = IF st.listener = "failed" THEN ssr_run_loop_shutdown(st.n) ELSE st
    /\ pc' = "loop"
    /\ UNCHANGED <<config, useProxy, workingListenPort, mainq, ui, g_state, deaf>>

\* SIGINT or SIGTERM; the watchers are open until the shutdown.
signal_quit ==
    /\ Running /\ pc = "loop" /\ st.flag = "living"
    /\ st' = ssr_run_loop_shutdown(st.n)
    /\ UNCHANGED <<config, useProxy, workingListenPort, system, mainq, ui, pc, g_state, deaf>>

\* Mutant of ShutdownState: the listeners stay open.
ShutdownKeepsListener(s) == [s EXCEPT !.flag = "dead"]

\* _ssr_run_loop_shutdown: watchers, timer, listeners and tunnels are closed.
ShutdownState(s) ==
    [s EXCEPT !.flag = "dead", !.listener = IF @ = "none" THEN @ ELSE "closed"]

\* The timer of 500 ms, closed by the shutdown.
timer_quit_watcher_cb ==
    /\ Running /\ pc = "loop" /\ st.flag = "quit"
    /\ st' = ShutdownState(st)
    /\ UNCHANGED <<config, useProxy, workingListenPort, system, mainq, ui, pc, g_state, deaf>>

\* uv_run returns when nothing is active any more, and the state is freed.
LoopEnds ==
    /\ Running /\ pc = "loop" /\ st.flag = "dead"
    /\ st.dns = "done" /\ st.listener # "up"
    /\ pc' = "freed"
    /\ UNCHANGED <<config, useProxy, workingListenPort, system, mainq, ui, g_state, st, deaf>>

\* Mutant of ForgetState: the pointer is kept.
KeepState ==
    /\ Running /\ pc = "freed"
    /\ pc' = "run"
    /\ UNCHANGED <<config, useProxy, workingListenPort, system, mainq, ui, g_state, st, deaf>>

\* ssr_main_loop after the loop: g_state = NULL, and the thread sleeps.
ForgetState ==
    /\ Running /\ pc = "freed"
    /\ g_state' = NULL
    /\ pc' = "run"
    /\ UNCHANGED <<config, useProxy, workingListenPort, system, mainq, ui, st, deaf>>

-----------------------------------------------------------------------------
\* applicationDidFinishLaunching: initializeProxy has run.  When started by
\* the end-to-end test a link has been imported, which reloads twice.
Init ==
    /\ config \in {0, 1} /\ useProxy \in BOOLEAN
    /\ workingListenPort = 0
    /\ system = IF useProxy THEN 0 ELSE Off
    /\ mainq \in {<<>>} \cup (IF config = 1 /\ useProxy THEN {<<"port0", "port0">>} ELSE {})
    /\ ui = Idle /\ pc = "start" /\ g_state = NULL /\ st = NoLoop /\ deaf = FALSE

Main ==
    \/ SaveAndReload \/ reloadConfig \/ MainQueue \/ toggleRunning
    \/ reloadSystemProxy \/ modifySystemProxySettings \/ applicationWillTerminate

Proxy ==
    \/ doRunProxyLoop \/ runProxy \/ ssr_main_loop
    \/ \E o \in {"ok", "bind", "fail", "none"} : getaddrinfo_done_cb(o)
    \/ feedback_state \/ signal_quit \/ timer_quit_watcher_cb \/ LoopEnds \/ ForgetState

Next == Main \/ Proxy

Spec == Init /\ [][Next]_vars

\* Both threads run; the main thread gets to its queue although the user may
\* go on clicking.  Nothing says that the user does anything, or that a signal
\* arrives.
Fairness ==
    /\ WF_vars(reloadConfig) /\ WF_vars(modifySystemProxySettings) /\ SF_vars(MainQueue)
    /\ WF_vars(doRunProxyLoop \/ runProxy \/ ssr_main_loop \/ feedback_state
                 \/ timer_quit_watcher_cb \/ LoopEnds \/ ForgetState)
    /\ WF_vars(\E o \in {"ok", "bind", "fail", "none"} : getaddrinfo_done_cb(o))

FairSpec == Spec /\ Fairness

-----------------------------------------------------------------------------
(* Properties. *)

\* The types of the variables.  g_state, which other threads dereference, is
\* NULL or the last loop's: ssr_main_loop forgets one before it starts another.
RunnerTypeOK ==
    /\ config \in 0 .. MaxConfig /\ useProxy \in BOOLEAN
    /\ workingListenPort \in 0 .. MaxLoops /\ system \in {Off} \cup 0 .. MaxLoops
    /\ mainq \in Seq({"port0", "sync"})
    /\ ui \in [at : {"idle", "reload", "helper", "gone"}, g : 0 .. MaxLoops,
               port : {Off} \cup 0 .. MaxLoops]
    /\ pc \in {"start", "run", "sync", "config", "loop", "feedback", "freed"}
    /\ g_state \in {NULL, st.n} /\ deaf \in BOOLEAN
    /\ st \in [n : 0 .. MaxLoops, flag : {"living", "quit", "dead"}, built : 0 .. MaxConfig,
               dns : {"pending", "done"}, listener : {"none", "up", "failed", "closed"}]

\* The port shown in the menu, and given to the helper, is the port of the
\* loop that runs: no block "workingListenPort = 0" of an earlier reload is
\* left in the main queue to hide it, because runProxy waits for that queue
\* before it starts a loop.  (A reload that came while the loop was being
\* started is the exception; it was not heard either.)
PortIsCurrent ==
    (pc = "loop" /\ st.listener = "up" /\ st.flag = "living" /\ ~deaf)
        => workingListenPort = st.n

\* A loop told to quit when its lookup is over ends, and the next one starts.
QuitRestarts ==
    \A n \in 1 .. MaxLoops - 1 :
        (st.n = n /\ st.flag = "quit" /\ st.dns = "done") ~> (st.n > n \/ ~Running)

\* A configuration that was saved is in use in the end, unless a later one was
\* saved.  There are two exceptions: a reload that came while a loop was being
\* started, which found g_state still NULL; and a loop shut down by a signal
\* before its lookup was over, which then opens its listener all the same.
ReloadHonoured ==
    \A c \in 1 .. MaxConfig :
        (config = c) ~> \/ config > c \/ (Alive /\ st.built = c)
                        \/ deaf \/ st.n = MaxLoops \/ ~Running

\* A configuration that was saved is the one the client runs with, or a later
\* one is: "Reloading ShadowsocksR after settings change".
ReloadTakesEffect ==
    \A c \in 1 .. MaxConfig :
        (config = c) ~> \/ config > c \/ (Alive /\ st.built = c)
                        \/ st.n = MaxLoops \/ ~Running
=============================================================================
