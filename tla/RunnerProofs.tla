---------------------------- MODULE RunnerProofs -----------------------------
(***************************************************************************)
(* Theorems about Runner, for every number of configurations and loops.    *)
(***************************************************************************)
EXTENDS Runner, SequenceTheorems, TLAPS

\* The pointer is forgotten before the next loop is made.
PointerForgotten == pc \in {"start", "run", "sync", "config"} => g_state = NULL

\* The block that runProxy waits for is queued while it waits, and only then,
\* and once.
SyncQueued ==
    \A i \in DOMAIN mainq : mainq[i] = "sync" =>
        /\ pc = "sync"
        /\ \A j \in DOMAIN mainq : mainq[j] = "sync" => j = i

\* As long as no reload came too late, the blocks of the reloads are in front
\* of that block, so that none is left when a loop is started, nor while it
\* runs and was not told to quit.
QueueDrained ==
    ~deaf =>
        /\ pc = "sync" => Len(mainq) > 0 /\ mainq[Len(mainq)] = "sync"
        /\ pc = "config" => mainq = <<>>
        /\ pc \in {"loop", "feedback"} /\ st.flag = "living" => mainq = <<>>

\* What feedback_state published is the port of the loop.
PortPublished ==
    (pc \in {"loop", "feedback"} /\ st.listener = "up" /\ st.flag = "living" /\ ~deaf)
        => workingListenPort = st.n

IInv == RunnerTypeOK /\ PointerForgotten /\ SyncQueued /\ QueueDrained /\ PortPublished

-----------------------------------------------------------------------------
(* Facts about the main thread's queue. *)

\* Append puts a block behind the ones that wait (DispatchQueue.main.async).
LEMMA QueueAppend ==
    ASSUME NEW q \in Seq({"port0", "sync"}), NEW b \in {"port0", "sync"}
    PROVE  /\ Append(q, b) \in Seq({"port0", "sync"})
           /\ Len(Append(q, b)) = Len(q) + 1
           /\ DOMAIN Append(q, b) = 1 .. Len(q) + 1
           /\ DOMAIN q = 1 .. Len(q)
           /\ \A i \in 1 .. Len(q) : Append(q, b)[i] = q[i]
           /\ Append(q, b)[Len(q) + 1] = b
  OBVIOUS

\* Taking the first block moves the others up by one.
LEMMA QueueTail ==
    ASSUME NEW q \in Seq({"port0", "sync"}), q # <<>>
    PROVE  /\ Tail(q) \in Seq({"port0", "sync"})
           /\ Len(q) \in Nat /\ Len(q) > 0
           /\ DOMAIN Tail(q) = 1 .. Len(q) - 1
           /\ DOMAIN q = 1 .. Len(q)
           /\ \A i \in 1 .. Len(q) - 1 : Tail(q)[i] = q[i + 1]
           /\ Len(Tail(q)) = Len(q) - 1
           /\ Head(q) = q[1] /\ Head(q) \in {"port0", "sync"}
           /\ Len(q) = 1 => Tail(q) = <<>>
  <1>1. /\ Head(q) \in {"port0", "sync"} /\ Tail(q) \in Seq({"port0", "sync"})
        /\ Len(Tail(q)) = Len(q) - 1
        /\ \A i \in 1 .. Len(Tail(q)) : Tail(q)[i] = q[i + 1]
    BY HeadTailProperties
  <1>2. \A e \in Seq({"port0", "sync"}) : e # <<>> => Len(e) \in Nat \ {0}
    BY EmptySeq, Zenon
  <1>3. Len(q) \in Nat \ {0}
    BY <1>2
  <1>4. Len(q) = 1 => Tail(q) = <<>>
    <2>1. Len(q) = 1 => ~(Len(Tail(q)) \in Nat \ {0})
      BY <1>1
    <2> QED BY <1>1, <1>2, <2>1, Zenon
  <1>5. Head(q) = q[1] /\ DOMAIN q = 1 .. Len(q) /\ DOMAIN Tail(q) = 1 .. Len(Tail(q))
    BY <1>1
  <1> QED BY <1>1, <1>3, <1>4, <1>5

-----------------------------------------------------------------------------
(* The invariant. *)

\* The invariant holds when the application has started.
LEMMA InitOK == Init => IInv
  <1> SUFFICES ASSUME Init PROVE IInv
    OBVIOUS
  <1>1. mainq \in Seq({"port0", "sync"})
    <2>1. <<>> \in Seq({"port0", "sync"}) /\ <<"port0", "port0">> \in Seq({"port0", "sync"})
      OBVIOUS
    <2>2. mainq = <<>> \/ mainq = <<"port0", "port0">>
      BY DEF Init
    <2> QED BY <2>1, <2>2
  <1>2. RunnerTypeOK
    <2>1. st \in [n : 0 .. MaxLoops, flag : {"living", "quit", "dead"},
                  built : 0 .. MaxConfig, dns : {"pending", "done"},
                  listener : {"none", "up", "failed", "closed"}]
      BY RunnerAssumption DEF Init, NoLoop
    <2>2. ui \in [at : {"idle", "reload", "helper", "gone"}, g : 0 .. MaxLoops,
                  port : {Off} \cup 0 .. MaxLoops]
      BY RunnerAssumption DEF Init, Idle, NULL, Off
    <2>3. config \in 0 .. MaxConfig /\ workingListenPort \in 0 .. MaxLoops
          /\ system \in {Off} \cup 0 .. MaxLoops /\ g_state = NULL
      BY RunnerAssumption DEF Init, NULL, Off
    <2> QED BY <1>1, <2>1, <2>2, <2>3 DEF Init, RunnerTypeOK, NULL
  <1>3. PointerForgotten /\ QueueDrained /\ PortPublished
    BY DEF Init, PointerForgotten, QueueDrained, PortPublished
  <1>4. SyncQueued
    BY DEF Init, SyncQueued
  <1> QED BY <1>2, <1>3, <1>4 DEF IInv

\* Each action preserves the type invariant and the fact about the pointer.
LEMMA TypeStep == IInv /\ Next => RunnerTypeOK' /\ PointerForgotten'
  <1> SUFFICES ASSUME IInv, Next PROVE RunnerTypeOK' /\ PointerForgotten'
    OBVIOUS
  <1> USE RunnerAssumption DEF IInv, RunnerTypeOK, PointerForgotten
  <1>1. CASE SaveAndReload
    BY <1>1 DEF SaveAndReload, Idle, NULL
  <1>2. CASE reloadConfig
    <2>1. mainq' \in Seq({"port0", "sync"})
      BY <1>2, QueueAppend DEF reloadConfig
    <2>2. st' \in [n : 0 .. MaxLoops, flag : {"living", "quit", "dead"},
                   built : 0 .. MaxConfig, dns : {"pending", "done"},
                   listener : {"none", "up", "failed", "closed"}]
          /\ st'.n = st.n
      BY <1>2 DEF reloadConfig, ssr_run_loop_shutdown
    <2>3. deaf' \in BOOLEAN
      BY <1>2 DEF reloadConfig
    <2> QED BY <1>2, <2>1, <2>2, <2>3 DEF reloadConfig, Idle, NULL
  <1>3. CASE MainQueue
    <2>1. mainq' \in Seq({"port0", "sync"})
      BY <1>3, QueueTail DEF MainQueue
    <2>2. g_state = NULL \/ pc' = pc
      <3>1. mainq # <<>> /\ Head(mainq) = mainq[1] /\ 1 \in DOMAIN mainq
        BY <1>3, QueueTail DEF MainQueue
      <3> QED BY <1>3, <3>1 DEF MainQueue, SyncQueued
    <2> QED BY <1>3, <2>1, <2>2 DEF MainQueue
  <1>4. CASE toggleRunning
    BY <1>4 DEF toggleRunning, NULL
  <1>5. CASE reloadSystemProxy
    BY <1>5 DEF reloadSystemProxy, NULL
  <1>6. CASE modifySystemProxySettings
    BY <1>6 DEF modifySystemProxySettings, Idle, NULL
  <1>7. CASE applicationWillTerminate
    BY <1>7 DEF applicationWillTerminate, Idle, NULL
  <1>8. CASE doRunProxyLoop
    BY <1>8, QueueAppend DEF doRunProxyLoop
  <1>9. CASE runProxy
    BY <1>9, QueueAppend DEF runProxy
  <1>10. CASE ssr_main_loop
    BY <1>10 DEF ssr_main_loop, NULL
  <1>11. ASSUME NEW o \in {"ok", "bind", "fail", "none"}, getaddrinfo_done_cb(o)
         PROVE  RunnerTypeOK' /\ PointerForgotten'
    <2>1. st' \in [n : 0 .. MaxLoops, flag : {"living", "quit", "dead"},
                   built : 0 .. MaxConfig, dns : {"pending", "done"},
                   listener : {"none", "up", "failed", "closed"}]
          /\ st'.n = st.n
      BY <1>11 DEF getaddrinfo_done_cb
    <2>2. deaf' \in BOOLEAN
      BY <1>11 DEF getaddrinfo_done_cb
    <2> QED BY <1>11, <2>1, <2>2 DEF getaddrinfo_done_cb
  <1>12. CASE feedback_state
    BY <1>12 DEF feedback_state, ssr_run_loop_shutdown, Alive
  <1>13. CASE signal_quit
    BY <1>13 DEF signal_quit, ssr_run_loop_shutdown, Alive
  <1>14. CASE timer_quit_watcher_cb
    BY <1>14 DEF timer_quit_watcher_cb, ShutdownState
  <1>15. CASE LoopEnds
    BY <1>15 DEF LoopEnds
  <1>16. CASE ForgetState
    BY <1>16 DEF ForgetState
  <1> QED
    BY <1>1, <1>2, <1>3, <1>4, <1>5, <1>6, <1>7, <1>8, <1>9, <1>10, <1>11, <1>12,
       <1>13, <1>14, <1>15, <1>16 DEF Next, Main, Proxy

\* Each action preserves what is known of the main thread's queue.
LEMMA QueueStep == IInv /\ Next => SyncQueued' /\ QueueDrained'
  <1> SUFFICES ASSUME IInv, Next PROVE SyncQueued' /\ QueueDrained'
    OBVIOUS
  <1>0. mainq \in Seq({"port0", "sync"}) /\ DOMAIN mainq = 1 .. Len(mainq) /\ Len(mainq) \in Nat
    BY DEF IInv, RunnerTypeOK
  <1> USE <1>0 DEF IInv, SyncQueued, QueueDrained
  <1>1. CASE SaveAndReload
    BY <1>1 DEF SaveAndReload
  <1>2. CASE reloadConfig
    <2>1. mainq' = Append(mainq, "port0") /\ pc' = pc
      BY <1>2 DEF reloadConfig
    <2>2. SyncQueued'
      BY <2>1, QueueAppend
    <2>3. ~deaf' => ~deaf /\ pc \notin {"sync", "config"}
      BY <1>2 DEF reloadConfig
    <2>4. ~deaf' /\ pc \in {"loop", "feedback"} => st'.flag # "living"
      BY <1>2 DEF reloadConfig, ssr_run_loop_shutdown, Alive, RunnerTypeOK
    <2> QED BY <2>1, <2>2, <2>3, <2>4
  <1>3. CASE MainQueue
    <2>1. mainq # <<>> /\ mainq' = Tail(mainq) /\ deaf' = deaf /\ st' = st
      BY <1>3 DEF MainQueue
    <2>2. CASE Head(mainq) = "port0"
      BY <1>3, <2>1, <2>2, QueueTail DEF MainQueue
    <2>3. CASE Head(mainq) # "port0"
      <3>1. Head(mainq) = "sync" /\ mainq[1] = "sync" /\ 1 \in DOMAIN mainq /\ pc' = "config"
        BY <1>3, <2>1, <2>3, QueueTail DEF MainQueue
      <3>2. pc = "sync" /\ \A j \in DOMAIN mainq : mainq[j] = "sync" => j = 1
        BY <3>1
      <3>3. SyncQueued'
        BY <2>1, <3>1, <3>2, QueueTail
      <3>4. ~deaf => mainq' = <<>>
        BY <2>1, <3>2, QueueTail
      <3> QED BY <2>1, <3>1, <3>3, <3>4
    <2> QED BY <2>2, <2>3
  <1>4. CASE toggleRunning
    BY <1>4 DEF toggleRunning
  <1>5. CASE reloadSystemProxy
    BY <1>5 DEF reloadSystemProxy
  <1>6. CASE modifySystemProxySettings
    BY <1>6 DEF modifySystemProxySettings
  <1>7. CASE applicationWillTerminate
    BY <1>7 DEF applicationWillTerminate
  <1>8. CASE doRunProxyLoop
    <2>1. pc = "start" /\ pc' = "run" /\ mainq' \in {mainq, Append(mainq, "port0")}
      BY <1>8 DEF doRunProxyLoop
    <2> QED BY <2>1, QueueAppend
  <1>9. CASE runProxy
    <2>1. pc = "run" /\ pc' = "sync" /\ mainq' = Append(mainq, "sync") /\ deaf' = deaf
      BY <1>9 DEF runProxy
    <2> QED BY <2>1, QueueAppend
  <1>10. CASE ssr_main_loop
    BY <1>10 DEF ssr_main_loop
  <1>11. ASSUME NEW o \in {"ok", "bind", "fail", "none"}, getaddrinfo_done_cb(o)
         PROVE  SyncQueued' /\ QueueDrained'
    BY <1>11 DEF getaddrinfo_done_cb, RunnerTypeOK
  <1>12. CASE feedback_state
    BY <1>12 DEF feedback_state, ssr_run_loop_shutdown, Alive, RunnerTypeOK
  <1>13. CASE signal_quit
    BY <1>13 DEF signal_quit, ssr_run_loop_shutdown, Alive, RunnerTypeOK
  <1>14. CASE timer_quit_watcher_cb
    BY <1>14 DEF timer_quit_watcher_cb, ShutdownState, RunnerTypeOK
  <1>15. CASE LoopEnds
    BY <1>15 DEF LoopEnds
  <1>16. CASE ForgetState
    BY <1>16 DEF ForgetState
  <1> QED
    BY <1>1, <1>2, <1>3, <1>4, <1>5, <1>6, <1>7, <1>8, <1>9, <1>10, <1>11, <1>12,
       <1>13, <1>14, <1>15, <1>16 DEF Next, Main, Proxy

\* Each action preserves what is known of the port.
LEMMA PortStep == IInv /\ Next => PortPublished'
  <1> SUFFICES ASSUME IInv, Next PROVE PortPublished'
    OBVIOUS
  <1> USE DEF IInv, PortPublished
  <1>1. CASE SaveAndReload
    BY <1>1 DEF SaveAndReload
  <1>2. CASE reloadConfig
    <2>1. pc' = pc
      BY <1>2 DEF reloadConfig
    <2>2. ~deaf' /\ pc \in {"loop", "feedback"} => st'.flag # "living"
      BY <1>2 DEF reloadConfig, ssr_run_loop_shutdown, Alive, RunnerTypeOK
    <2> QED BY <2>1, <2>2
  <1>3. CASE MainQueue
    <2>1. mainq # <<>> /\ deaf' = deaf /\ st' = st /\ (pc' = pc \/ pc' = "config")
      BY <1>3 DEF MainQueue
    <2> QED BY <2>1 DEF QueueDrained
  <1>4. CASE toggleRunning
    BY <1>4 DEF toggleRunning
  <1>5. CASE reloadSystemProxy
    BY <1>5 DEF reloadSystemProxy
  <1>6. CASE modifySystemProxySettings
    BY <1>6 DEF modifySystemProxySettings
  <1>7. CASE applicationWillTerminate
    BY <1>7 DEF applicationWillTerminate
  <1>8. CASE doRunProxyLoop
    BY <1>8 DEF doRunProxyLoop
  <1>9. CASE runProxy
    BY <1>9 DEF runProxy
  <1>10. CASE ssr_main_loop
    BY <1>10 DEF ssr_main_loop
  <1>11. ASSUME NEW o \in {"ok", "bind", "fail", "none"}, getaddrinfo_done_cb(o)
         PROVE  PortPublished'
    BY <1>11 DEF getaddrinfo_done_cb, RunnerTypeOK
  <1>12. CASE feedback_state
    BY <1>12 DEF feedback_state, ssr_run_loop_shutdown, RunnerTypeOK
  <1>13. CASE signal_quit
    BY <1>13 DEF signal_quit, ssr_run_loop_shutdown, Alive, RunnerTypeOK
  <1>14. CASE timer_quit_watcher_cb
    BY <1>14 DEF timer_quit_watcher_cb, ShutdownState, RunnerTypeOK
  <1>15. CASE LoopEnds
    BY <1>15 DEF LoopEnds
  <1>16. CASE ForgetState
    BY <1>16 DEF ForgetState
  <1> QED
    BY <1>1, <1>2, <1>3, <1>4, <1>5, <1>6, <1>7, <1>8, <1>9, <1>10, <1>11, <1>12,
       <1>13, <1>14, <1>15, <1>16 DEF Next, Main, Proxy

\* Every step of the application preserves the invariant.
LEMMA NextOK == IInv /\ [Next]_vars => IInv'
  <1> SUFFICES ASSUME IInv, [Next]_vars PROVE IInv'
    OBVIOUS
  <1>1. CASE Next
    BY <1>1, TypeStep, QueueStep, PortStep DEF IInv
  <1>2. CASE UNCHANGED vars
    BY <1>2 DEF vars, IInv, RunnerTypeOK, PointerForgotten, SyncQueued, QueueDrained,
                PortPublished
  <1> QED BY <1>1, <1>2

\* The inductive invariant holds in every state the application reaches.
THEOREM RunnerInvariance == Spec => []IInv
  BY InitOK, NextOK, PTL DEF Spec

\* The types, for any number of settings saved and loops run; the pointer
\* g_state, which the main thread hands to ssr_run_loop_shutdown, is NULL or that
\* of the last loop.
THEOREM RunnerTypeCorrect == Spec => []RunnerTypeOK
  <1>1. IInv => RunnerTypeOK
    BY DEF IInv
  <1> QED BY <1>1, RunnerInvariance, PTL

\* No reload's "workingListenPort = 0" hides the port of a loop that runs.
THEOREM PortIsCurrentCorrect == Spec => []PortIsCurrent
  <1>1. IInv => PortIsCurrent
    BY DEF IInv, PortPublished, PortIsCurrent
  <1> QED BY <1>1, RunnerInvariance, PTL
=============================================================================
