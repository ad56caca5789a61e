------------------------ MODULE AgentProcess_proofs -------------------------
(***************************************************************************)
(* AgentProcess: the invariant is preserved by the steps of the main       *)
(* threads, so by every step, for any number of processes, cpus and        *)
(* clients; and what follows from it.                                      *)
(***************************************************************************)
EXTENDS AgentProcess_steps

-----------------------------------------------------------------------------
(* The main thread. *)

\* What a step of the main thread does not change.
MainStays(p, N) ==
    /\ pc'[Parent(p)] = pc[Parent(p)]
    /\ phase'[Parent(p)] = Running <=> phase[Parent(p)] = Running
    /\ \A c \in Cpus : /\ pc'[<<p, c>>] = pc[<<p, c>>]
                       /\ phase'[<<p, c>>] = Running <=> phase[<<p, c>>] = Running
    /\ \A a \in {"agent_ready_", "kill_agent_"} : <<p, a>> \notin N =>
         (notified'[<<p, a>>] = "kNotified" <=> notified[<<p, a>>] = "kNotified")
    /\ \A a \in {"ready_", "enclave_ready_", "finished_", "do_exit_"}, c \in Cpus :
         <<p, a, c>> \notin N =>
           (notified'[<<p, a, c>>] = "kNotified" <=> notified[<<p, a, c>>] = "kNotified")
    /\ ProcessAt(p)

\* What a step of the main thread leaves as it was in its own process.
LEMMA MainLocal ==
    ASSUME IInv, NEW p \in Procs, NEW N, Kept(Main(p), N)
    PROVE  MainStays(p, N)
  <1>1. Main(p) # Parent(p) /\ \A c \in Cpus : <<p, c>> # Main(p)
    BY ProcessAssumption DEF Main, Parent
  <1>2. /\ \A a \in {"agent_ready_", "kill_agent_"} : <<p, a>> \in Notifs
        /\ \A a \in {"ready_", "enclave_ready_", "finished_", "do_exit_"}, c \in Cpus :
             <<p, a, c>> \in Notifs
    BY NotifIds, Zenon
  <1>3. /\ pc'[Parent(p)] = pc[Parent(p)]
        /\ phase'[Parent(p)] = Running <=> phase[Parent(p)] = Running
        /\ \A c \in Cpus : /\ pc'[<<p, c>>] = pc[<<p, c>>]
                           /\ phase'[<<p, c>>] = Running <=> phase[<<p, c>>] = Running
    BY <1>1, ThreadIds, Zenon DEF Kept
  <1>4. \A a \in {"agent_ready_", "kill_agent_"} : <<p, a>> \notin N =>
          (notified'[<<p, a>>] = "kNotified" <=> notified[<<p, a>>] = "kNotified")
    BY <1>2, Zenon DEF Kept
  <1>5. \A a \in {"ready_", "enclave_ready_", "finished_", "do_exit_"}, c \in Cpus :
          <<p, a, c>> \notin N =>
            (notified'[<<p, a, c>>] = "kNotified" <=> notified[<<p, a, c>>] = "kNotified")
    BY <1>2, Zenon DEF Kept
  <1>6. ProcessAt(p)
    BY Processes, Zenon DEF IInv
  <1> QED  BY <1>3, <1>4, <1>5, <1>6, Zenon DEF MainStays

\* What a step of the main thread can disturb.
MainAt(p) ==
    /\ ShapeAt(p) /\ ParentAt(p)
    /\ \A c \in Cpus : AgentAt(p, c)
    /\ \A i \in 1 .. Last : ReadyAt(p, i) /\ SignalAt(p, i)

\* A step of the main thread preserves the invariant if it preserves what it is about: its
\* parent, its agents, and which process may schedule.
LEMMA MainFrame ==
    ASSUME IInv, NEW p \in Procs, NEW N, Kept(Main(p), N),
           \A m \in N : m[1] = p /\ m[2] \notin {"rpc_pending_", "rpc_done_"},
           Core', TypeOK', NoCheckFails', UNCHANGED <<agents, agentOn, cvars>>,
           \A q \in Procs : q # p => is_online'[q] = is_online[q],
           MainAt(p)', ServingAt(p)', Succession', OneProcessSchedules'
    PROVE  IInv'
  <1> DEFINE th == Main(p)
  <1>1. /\ \A m \in N : m[1] = p
        /\ <<p, "rpc_pending_">> \notin N /\ <<p, "rpc_done_">> \notin N
    OBVIOUS
  <1>2. /\ th \in Threads /\ th[1] = p /\ th # Parent(p) /\ th # RpcThread(p)
        /\ \A k \in Clients : th # <<p, k>>
    BY ProcessAssumption DEF Main, Parent, RpcThread, Threads
  <1>3. Kept(th, N) /\ UNCHANGED <<mutex, rpc_req, rpc_res>>
    BY Zenon DEF cvars
  <1> HIDE DEF th
  <1>4. QuietAt(p)' /\ \A k \in Clients : CallAt(p, k)'
    <2>1. /\ QuietAt(p) /\ \A k \in Clients : CallAt(p, k)
          /\ mutex'[p] = mutex[p] /\ rpc_req'[p] = rpc_req[p] /\ rpc_res'[p] = rpc_res[p]
      BY <1>3, Zenon DEF IInv, Calls
    <2> QED  BY <1>1, <1>2, <1>3, <2>1, CallKept, Zenon
  <1>5. ASSUME NEW k \in Clients  PROVE MutualAt(p, k)'
    <2>1. pc'[<<p, k>>] = pc[<<p, k>>] /\ MutualAt(p, k)
      BY <1>2, <1>3, ThreadIds, Zenon DEF Kept, IInv, Mutual
    <2> QED  BY <1>3, <2>1, Zenon DEF MutualAt
  <1>6. ProcessAt(p)'
    BY <1>4, <1>5, Zenon DEF ProcessAt, MainAt
  <1>7. KeptBut(p)
    BY <1>1, <1>2, <1>3, KeptButs, Zenon
  <1>8. \A q \in Procs : q # p => KeptVars(q)
    BY <1>3, Zenon DEF KeptVars
  <1> QED  BY <1>6, <1>7, <1>8, ProcessFrame, Zenon

\* The main thread stays in its part of the program: before, while or after it is online.
SameStage(p) ==
    \/ pc[Main(p)][1] \in StartLabels /\ pc'[Main(p)][1] \in StartLabels
    \/ pc[Main(p)][1] \in ServeLabels /\ pc'[Main(p)][1] \in ServeLabels
    \/ pc[Main(p)][1] \in EndLabels /\ pc'[Main(p)][1] \in EndLabels

\* A step within a stage changes nothing for the RPC thread or for other processes.
LEMMA StageKept ==
    ASSUME IInv, NEW p \in Procs, NEW N, Kept(Main(p), N), SameStage(p),
           UNCHANGED <<is_online, online, agentOn>>
    PROVE  ServingAt(p)' /\ Succession' /\ OneProcessSchedules'
  <1>0. Succession /\ OneProcessSchedules /\ ServingAt(p) /\ online \in Procs \cup {None}
    BY DEF IInv, Calls, TypeOK
  <1>1. /\ Main(p) # RpcThread(p) /\ \A q \in Procs : q # p => Main(q) # Main(p)
        /\ \A q \in Procs, c \in Cpus : <<q, c>> # Main(p)
    BY ProcessAssumption DEF Main, RpcThread
  <1>2. /\ pc'[RpcThread(p)] = pc[RpcThread(p)]
        /\ \A q \in Procs : q # p => pc'[Main(q)] = pc[Main(q)]
        /\ \A q \in Procs, c \in Cpus : pc'[<<q, c>>] = pc[<<q, c>>]
    BY <1>1, ThreadIds, Zenon DEF Kept
  <1>3. /\ pc'[Main(p)][1] \in StartLabels <=> pc[Main(p)][1] \in StartLabels
        /\ pc'[Main(p)][1] \in ServeLabels <=> pc[Main(p)][1] \in ServeLabels
        /\ pc'[Main(p)][1] \notin {"none", "exited", "gone"}
        /\ pc[Main(p)][1] \notin {"none", "exited", "gone"}
    BY DEF SameStage, StartLabels, ServeLabels, EndLabels
  <1>4. ServingAt(p)'
    BY ONLY <1>0, <1>2, <1>3, UNCHANGED <<is_online, online, agentOn>> DEF ServingAt
  <1>5. Succession'
    BY ONLY <1>0, <1>2, <1>3, UNCHANGED <<is_online, online, agentOn>>, p \in Procs DEF Succession
  <1>6. OneProcessSchedules'
    <2>1. CASE online = p
      <3>1. pc[Main(p)] # <<"gone">>
        BY <1>3
      <3> QED  BY ONLY <1>0, <2>1, <3>1, UNCHANGED <<is_online, online, agentOn>>, Zenon
               DEF OneProcessSchedules
    <2>2. CASE online # p
      <3>1. online # None => pc'[Main(online)] = pc[Main(online)]
        BY <1>0, <1>2, <2>2
      <3> QED  BY ONLY <1>0, <3>1, UNCHANGED <<is_online, online, agentOn>>, Zenon
               DEF OneProcessSchedules
    <2> QED  BY <2>1, <2>2
  <1> QED  BY <1>4, <1>5, <1>6

\* A step that changes no variable but those of Notification.
LEMMA MainStep ==
    ASSUME IInv, NEW p \in Procs, NEW N, Kept(Main(p), N), SameStage(p),
           \A m \in N : m[1] = p /\ m[2] \notin {"rpc_pending_", "rpc_done_"},
           Core', fault' = FALSE, UNCHANGED <<evars, cvars>>, MainAt(p)'
    PROVE  IInv'
  <1>1. UNCHANGED <<is_online, online, agents, agentOn>> /\ UNCHANGED <<agents, agentOn, cvars>>
    BY Zenon DEF evars
  <1>2. TypeOK' /\ NoCheckFails'
    BY Types, Zenon DEF IInv
  <1>3. ServingAt(p)' /\ Succession' /\ OneProcessSchedules'
    BY <1>1, StageKept, Zenon
  <1> QED  BY <1>1, <1>2, <1>3, MainFrame, Zenon

\* The loops over agents_.
LEMMA LoopFacts ==
    ASSUME NEW p \in Procs, NEW i \in 1 .. Last,
           NEW a \in {"ready_", "enclave_ready_", "finished_", "do_exit_"}
    PROVE  /\ Main(p) \in Threads /\ <<p, a, CpuList[i]>> \in Notifs
           /\ <<a, i>>[1] = a /\ <<a, i>>[2] = i /\ a \notin {"rpc_pending_", "rpc_done_"}
           /\ <<p, a, CpuList[i]>>[1] = p /\ <<p, a, CpuList[i]>>[2] = a
           /\ Calling(Main(p), <<p, a, CpuList[i]>>, <<a, i>>)
  <1>1. CpuList[i] \in Cpus
    BY CpuFacts, Zenon
  <1>2. /\ <<p, a, CpuList[i]>> \in Notifs /\ <<p, a, CpuList[i]>>[1] = p
        /\ <<p, a, CpuList[i]>>[2] = a
    BY <1>1, NotifIds, Zenon
  <1>3. Main(p) \in Threads /\ Main(p)[1] = p /\ \A q : Main(p) = Main(q) => p = q
    BY ThreadIds DEF Main
  <1>4. <<a, i>>[1] = a /\ <<a, i>>[2] = i /\ a \notin {"rpc_pending_", "rpc_done_"}
    OBVIOUS
  <1>5. Calling(Main(p), <<p, a, CpuList[i]>>, <<a, i>>)
    BY ONLY <1>2, <1>3, <1>4 DEF Calling
  <1> QED  BY <1>2, <1>3, <1>4, <1>5

\* Where the loop over agents_ goes.
LEMMA FollowingFacts ==
    ASSUME NEW i \in 1 .. Last, NEW a \in LoopLabels, NEW after \in Places
    PROVE  /\ Following(a, i, after) \in Places
           /\ \/ i = Last /\ Following(a, i, after) = after
              \/ /\ i < Last /\ i + 1 \in 1 .. Last /\ Following(a, i, after) = <<a, i + 1>>
                 /\ Following(a, i, after)[1] = a /\ Following(a, i, after)[2] = i + 1
  BY CpuFacts DEF Following, Places

\* Notify inside a loop: the main thread posts what it has not posted, at the agent it is at.
LoopOutcome(p, a, i, to) ==
    /\ Kept(Main(p), {<<p, a, CpuList[i]>>}) /\ pc[Main(p)][1] = a /\ pc[Main(p)][2] = i
    /\ notified'[<<p, a, CpuList[i]>>] = "kNotified"
    /\ \/ pc'[Main(p)] = pc[Main(p)] /\ phase'[Main(p)] # Running
       \/ pc'[Main(p)] = to /\ phase'[Main(p)] = Running

\* What a Notify in one of the main thread's loops over its agents does.
LEMMA LoopNotify ==
    ASSUME IInv, NEW p \in Procs, NEW i \in 1 .. Last, NEW to \in Places,
           NEW a \in {"enclave_ready_", "finished_", "do_exit_"},
           Notify(Main(p), <<p, a, CpuList[i]>>, <<a, i>>, to)
    PROVE  Core' /\ fault' = FALSE /\ LoopOutcome(p, a, i, to)
  <1> DEFINE th == Main(p)
             n == <<p, a, CpuList[i]>>
  <1>0. TypeOK /\ Phased /\ Waits /\ NoLostWakeup /\ NoCheckFails
    BY Zenon DEF IInv
  <1>1. /\ th \in Threads /\ n \in Notifs /\ Calling(th, n, <<a, i>>)
        /\ <<a, i>>[1] = a /\ <<a, i>>[2] = i
    BY LoopFacts, ZenonT(60)
  <1>2. SignalAt(p, i) /\ ShapeAt(p)
    BY Zenon DEF IInv, Signals, Shapes
  <1>3. pc[th][1] = a /\ pc[th][2] = i => (notified[n] = "kNotified" <=> phase[th] # Running)
    BY ONLY <1>2, i \in 1 .. Last, CpuFacts, a \in {"enclave_ready_", "finished_", "do_exit_"}
    DEF SignalAt, EnclaveReadyOK, FinishedOK, DoExitOK, EndLabels, TurnLabels, ServeLabels
  <1>4. pc[th] = <<a, i>> /\ phase[th] = Running => notified[n] # "kNotified"
    BY <1>3
  <1>o. Core' /\ fault' = FALSE /\ NotifyOutcome(th, n, <<a, i>>, to)
    <2>1. Notify(th, n, <<a, i>>, to)
      OBVIOUS
    <2> HIDE DEF th, n
    <2> QED  BY ONLY <1>0, <1>1, <1>4, <2>1, to \in Places, NotifyStep, Zenon
  <1>5. CASE pc[th] = <<a, i>> /\ phase[th] = Running
    BY <1>1, <1>5, <1>o, Zenon DEF NotifyOutcome, LoopOutcome
  <1>6. CASE ~(pc[th] = <<a, i>> /\ phase[th] = Running)
    <2>1. /\ pc[th][1] = a /\ phase[th] # Running /\ phase[th][2] = n
          /\ pc'[th] = to /\ phase'[th] = Running /\ notified' = notified /\ Kept(th, {n})
      BY <1>1, <1>6, <1>o, Zenon DEF NotifyOutcome
    <2>2. phase[th][2] = <<p, a, CpuList[pc[th][2]]>>
      BY <1>0, <2>1, Zenon DEF Phased, LoopLabels
    <2>3. CpuList[pc[th][2]] = CpuList[i]
      BY ONLY <2>1, <2>2
    <2>4. pc[th][2] \in 1 .. Last
      BY ONLY <1>2, <2>1, a \in {"enclave_ready_", "finished_", "do_exit_"}
      DEF ShapeAt, LoopLabels
    <2>5. pc[th][2] = i
      BY <2>3, <2>4, CpuFacts, Zenon
    <2> QED  BY <1>3, <1>o, <2>1, <2>5, Zenon DEF LoopOutcome
  <1> QED  BY <1>5, <1>6, ZenonT(60)

\* One notification of the i-th agent is posted.
LEMMA LoopPosts ==
    ASSUME NEW p \in Procs, NEW i \in 1 .. Last,
           NEW a \in {"enclave_ready_", "finished_", "do_exit_"},
           MainStays(p, {<<p, a, CpuList[i]>>}),
           notified'[<<p, a, CpuList[i]>>] = "kNotified",
           NEW x \in 1 .. Last, NEW b \in {"ready_", "enclave_ready_", "finished_", "do_exit_"}
    PROVE  notified'[<<p, b, CpuList[x]>>] = "kNotified"
             <=> \/ b = a /\ x = i
                 \/ notified[<<p, b, CpuList[x]>>] = "kNotified"
  <1>1. CpuList[x] \in Cpus
    BY CpuFacts, Zenon
  <1>2. CASE b = a /\ x = i
    BY <1>2, Zenon
  <1>3. CASE ~(b = a /\ x = i)
    <2>1. b # a \/ CpuList[x] # CpuList[i]
      BY <1>3, CpuFacts, Zenon
    <2>2. <<p, b, CpuList[x]>> \notin {<<p, a, CpuList[i]>>}
      BY <2>1
    <2>3. notified'[<<p, b, CpuList[x]>>] = "kNotified"
            <=> notified[<<p, b, CpuList[x]>>] = "kNotified"
      BY ONLY <1>1, <2>2, MainStays(p, {<<p, a, CpuList[i]>>}),
              b \in {"ready_", "enclave_ready_", "finished_", "do_exit_"}, Zenon DEF MainStays
    <2> QED  BY <1>3, <2>3, Zenon
  <1> QED  BY <1>2, <1>3

\* StartComplete: the main thread has waited for an agent before it goes on to the next.
LEMMA StartCompleteStep ==
    ASSUME IInv, NEW p \in Procs, StartComplete(p)
    PROVE  IInv'
  <1>0. TypeOK /\ Phased /\ Waits /\ NoLostWakeup /\ NoCheckFails
    BY Zenon DEF IInv
  <1>1. PICK i \in 1 .. Last :
          WaitForNotification(Main(p), <<p, "ready_", CpuList[i]>>, <<"ready_", i>>,
                              Following("ready_", i, <<"attached">>))
    BY Zenon DEF StartComplete
  <1> DEFINE th == Main(p)
             n == <<p, "ready_", CpuList[i]>>
             to == Following("ready_", i, <<"attached">>)
  <1>2. /\ th \in Threads /\ n \in Notifs /\ Calling(th, n, <<"ready_", i>>)
        /\ <<"ready_", i>>[1] = "ready_" /\ <<"ready_", i>>[2] = i
        /\ n[1] = p /\ n[2] = "ready_"
        /\ n[2] # "rpc_pending_" /\ n[2] # "rpc_done_"
    BY LoopFacts, ZenonT(60)
  <1>3. to \in Places /\ \/ i = Last /\ to = <<"attached">>
                         \/ /\ i < Last /\ i + 1 \in 1 .. Last /\ to = <<"ready_", i + 1>>
                            /\ to[1] = "ready_" /\ to[2] = i + 1
    <2>1. <<"attached">> \in Places /\ "ready_" \in LoopLabels
      BY DEF Places, Labels, LoopLabels
    <2> QED  BY <2>1, FollowingFacts
  <1>o. Core' /\ fault' = FALSE /\ WaitOutcome(th, n, <<"ready_", i>>, to)
    <2>1. WaitForNotification(th, n, <<"ready_", i>>, to)
      BY <1>1, Zenon
    <2> HIDE DEF th, n, to
    <2> QED  BY ONLY <1>0, <1>2, <1>3, <2>1, WaitStep, Zenon
  <1>4. Kept(th, {n})
    BY <1>o, Zenon DEF WaitOutcome, Kept
  <1>5. /\ pc[th] = <<"ready_", i>> /\ pc[th][1] = "ready_" /\ pc[th][2] = i
        /\ \/ pc'[th] = <<"ready_", i>> /\ pc'[th][1] = "ready_" /\ pc'[th][2] = i
           \/ /\ i = Last /\ pc'[th] = <<"attached">> /\ pc'[th][1] = "attached"
              /\ notified[n] = "kNotified"
           \/ /\ i + 1 \in 1 .. Last /\ pc'[th] = <<"ready_", i + 1>> /\ pc'[th][1] = "ready_"
              /\ pc'[th][2] = i + 1 /\ notified[n] = "kNotified"
    BY <1>2, <1>3, <1>o DEF WaitOutcome
  <1>6. MainStays(p, {})
    BY <1>o, MainLocal, Zenon DEF WaitOutcome
  <1>7. UNCHANGED <<evars, cvars>>
    BY Zenon DEF StartComplete
  <1>8. UNCHANGED <<agents, agentOn>>
    BY <1>7, Zenon DEF evars
  <1> HIDE DEF to
  <1>9. MainAt(p)'
    <2>1. ShapeAt(p)'
      BY ONLY <1>5, i \in 1 .. Last DEF ShapeAt, Labels, LoopLabels
    <2>2. ParentAt(p)'
      <3>1. ParentAt(p)
        BY <1>6, Zenon DEF MainStays, ProcessAt
      <3> QED  BY ONLY <1>5, <1>6, <3>1 DEF MainStays, ParentAt, ParentOK, EndLabels
    <2>3. ASSUME NEW c \in Cpus  PROVE AgentAt(p, c)'
      <3>1. AgentAt(p, c) /\ pc'[<<p, c>>] = pc[<<p, c>>]
        BY <1>6, Zenon DEF MainStays, ProcessAt
      <3> QED  BY ONLY <1>5, <1>8, <3>1 DEF AgentAt, AgentOK, EndLabels, ServeLabels
    <2>4. ASSUME NEW x \in 1 .. Last  PROVE ReadyAt(p, x)' /\ SignalAt(p, x)'
      <3>1. ReadyAt(p, x) /\ SignalAt(p, x) /\ CpuList[x] \in Cpus
        BY <1>6, CpuFacts, Zenon DEF MainStays, ProcessAt
      <3>2. /\ pc'[<<p, CpuList[x]>>] = pc[<<p, CpuList[x]>>]
            /\ phase'[<<p, CpuList[x]>>] = Running <=> phase[<<p, CpuList[x]>>] = Running
            /\ \A a \in {"ready_", "enclave_ready_", "finished_", "do_exit_"} :
                 notified'[<<p, a, CpuList[x]>>] = "kNotified"
                   <=> notified[<<p, a, CpuList[x]>>] = "kNotified"
        BY <1>6, <3>1, Zenon DEF MainStays
      <3>3. ReadyAt(p, x)'
        <4>1. \/ pc'[th][1] = "ready_" /\ pc'[th][2] = i
              \/ notified[<<p, "ready_", CpuList[i]>>] = "kNotified" /\ pc'[th][1] = "attached"
                   /\ (x < i \/ x = i)
              \/ notified[<<p, "ready_", CpuList[i]>>] = "kNotified" /\ pc'[th][1] = "ready_"
                   /\ (x < pc'[th][2] => x < i \/ x = i)
          BY ONLY <1>5, x \in 1 .. Last, i \in 1 .. Last, CpuFacts
        <4>2. /\ pc[th][1] = "ready_" /\ pc[th][2] = i
              /\ pc'[th][1] = "ready_" \/ pc'[th][1] = "attached"
          BY ONLY <1>5
        <4> QED  BY ONLY <3>1, <3>2, <4>1, <4>2 DEF ReadyAt, ReadyOK, ServeLabels, EndLabels
      <3>4. SignalAt(p, x)'
        BY ONLY <1>5, <3>1, <3>2
        DEF SignalAt, EnclaveReadyOK, FinishedOK, DoExitOK, ServeLabels, EndLabels, TurnLabels
      <3> QED  BY <3>3, <3>4
    <2> QED  BY <2>1, <2>2, <2>3, <2>4, Zenon DEF MainAt
  <1>10. SameStage(p)
    BY ONLY <1>5 DEF SameStage, StartLabels
  <1> DEFINE N == {n}
  <1>11. Kept(Main(p), N) /\ \A m \in N : m[1] = p /\ m[2] \notin {"rpc_pending_", "rpc_done_"}
    BY <1>2, <1>4
  <1> HIDE DEF N
  <1> QED  BY <1>o, <1>7, <1>9, <1>10, <1>11, MainStep, Zenon

\* The main thread's labels once every agent has attached.
PastLabels == {"enclave_ready_", "online"} \cup ServeLabels \cup EndLabels

\* Once every agent has attached, the main thread's moves matter to an agent only by when
\* it may be told to exit.
LEMMA Onward ==
    ASSUME NEW p \in Procs, NEW N, MainStays(p, N), \A c : <<p, "ready_", c>> \notin N,
           UNCHANGED <<agents, agentOn>>,
           pc[Main(p)][1] \in PastLabels, pc'[Main(p)][1] \in PastLabels,
           pc[Main(p)][1] \in EndLabels => pc'[Main(p)][1] \in EndLabels
    PROVE  (\A c \in Cpus : AgentAt(p, c)') /\ (\A i \in 1 .. Last : ReadyAt(p, i)')
  <1>0. /\ pc[Main(p)][1] \notin {"none", "start", "ready_", "attached", "exited", "gone"}
        /\ pc'[Main(p)][1] \notin {"none", "start", "ready_", "attached", "exited", "gone"}
    BY DEF PastLabels, ServeLabels, EndLabels
  <1>1. ASSUME NEW c \in Cpus  PROVE AgentAt(p, c)'
    <2>1. AgentAt(p, c) /\ pc'[<<p, c>>] = pc[<<p, c>>]
      BY Zenon DEF MainStays, ProcessAt
    <2> QED  BY <1>0, <2>1 DEF AgentAt, AgentOK, PastLabels
  <1>2. ASSUME NEW i \in 1 .. Last  PROVE ReadyAt(p, i)'
    <2>1. ReadyAt(p, i) /\ CpuList[i] \in Cpus
      BY CpuFacts, Zenon DEF MainStays, ProcessAt
    <2>2. /\ pc'[<<p, CpuList[i]>>] = pc[<<p, CpuList[i]>>]
          /\ phase'[<<p, CpuList[i]>>] = Running <=> phase[<<p, CpuList[i]>>] = Running
          /\ notified'[<<p, "ready_", CpuList[i]>>] = "kNotified"
               <=> notified[<<p, "ready_", CpuList[i]>>] = "kNotified"
      BY <2>1, Zenon DEF MainStays
    <2> QED  BY ONLY <1>0, <2>1, <2>2, pc[Main(p)][1] \in PastLabels
             DEF ReadyAt, ReadyOK, PastLabels
  <1> QED  BY <1>1, <1>2

\* Ready: mu_ is taken when every agent has attached.
LEMMA ReadyLockWhenStep ==
    ASSUME IInv, NEW p \in Procs, ReadyLockWhen(p)
    PROVE  IInv'
  <1> DEFINE th == Main(p)
  <1>0. TypeOK /\ Phased /\ Waits /\ NoLostWakeup /\ NoCheckFails
    BY Zenon DEF IInv
  <1>1. /\ th \in Threads /\ <<"enclave_ready_", 1>> \in Places /\ <<"attached">>[1] \notin Names
        /\ 1 \in 1 .. Last
    BY ThreadIds, CpuFacts DEF Places, LoopLabels, Names
  <1>2. /\ Step(th, <<"attached">>, <<"enclave_ready_", 1>>) /\ agents[p] = Cpus
        /\ UNCHANGED <<fault, evars, cvars>>
    BY Zenon DEF ReadyLockWhen
  <1>o. Core' /\ StepOutcome(th, <<"attached">>, <<"enclave_ready_", 1>>)
    BY <1>0, <1>1, <1>2, PlainStep, Zenon
  <1>3. /\ Kept(th, {}) /\ pc[th] = <<"attached">> /\ pc'[th] = <<"enclave_ready_", 1>>
        /\ phase'[th] = Running /\ phase[th] = Running
    BY <1>o, Zenon DEF StepOutcome
  <1>4. pc[th][1] = "attached" /\ pc'[th][1] = "enclave_ready_" /\ pc'[th][2] = 1
    BY <1>3
  <1>5. MainStays(p, {})
    BY <1>3, MainLocal, Zenon
  <1>6. UNCHANGED <<agents, agentOn>>
    BY <1>2, Zenon DEF evars
  <1>7. MainAt(p)'
    <2>1. ShapeAt(p)'
      BY <1>1, <1>3 DEF ShapeAt, LoopLabels
    <2>2. ParentAt(p)'
      <3>1. ParentAt(p)
        BY <1>5, Zenon DEF MainStays, ProcessAt
      <3> QED  BY ONLY <1>4, <1>5, <3>1 DEF MainStays, ParentAt, ParentOK, EndLabels
    <2>3. ASSUME NEW c \in Cpus  PROVE AgentAt(p, c)'
      <3>1. AgentAt(p, c) /\ pc'[<<p, c>>] = pc[<<p, c>>] /\ c \in agents[p]
        BY <1>2, <1>5, Zenon DEF MainStays, ProcessAt
      <3> QED  BY ONLY <1>4, <1>6, <3>1 DEF AgentAt, AgentOK, EndLabels, ServeLabels
    <2>4. ASSUME NEW x \in 1 .. Last  PROVE ReadyAt(p, x)' /\ SignalAt(p, x)'
      <3>1. ReadyAt(p, x) /\ SignalAt(p, x) /\ CpuList[x] \in Cpus
        BY <1>5, CpuFacts, Zenon DEF MainStays, ProcessAt
      <3>2. /\ pc'[<<p, CpuList[x]>>] = pc[<<p, CpuList[x]>>]
            /\ phase'[<<p, CpuList[x]>>] = Running <=> phase[<<p, CpuList[x]>>] = Running
            /\ \A a \in {"ready_", "enclave_ready_", "finished_", "do_exit_"} :
                 notified'[<<p, a, CpuList[x]>>] = "kNotified"
                   <=> notified[<<p, a, CpuList[x]>>] = "kNotified"
        BY <1>5, <3>1, Zenon DEF MainStays
      <3>3. ReadyAt(p, x)'
        BY ONLY <1>4, <3>1, <3>2 DEF ReadyAt, ReadyOK, ServeLabels, EndLabels
      <3>4. SignalAt(p, x)'
        <4>1. ~(x < 1)
          OBVIOUS
        <4> QED  BY ONLY <1>3, <1>4, <3>1, <3>2, <4>1
                 DEF SignalAt, EnclaveReadyOK, FinishedOK, DoExitOK, ServeLabels, EndLabels,
                     TurnLabels
      <3> QED  BY <3>3, <3>4
    <2> QED  BY <2>1, <2>2, <2>3, <2>4, Zenon DEF MainAt
  <1>8. SameStage(p)
    BY ONLY <1>4 DEF SameStage, StartLabels
  <1>9. fault' = FALSE /\ UNCHANGED <<evars, cvars>>
    BY <1>0, <1>2 DEF NoCheckFails, TypeOK
  <1> DEFINE N == {<<p, "agent_ready_">>}
  <1>10. Kept(Main(p), N) /\ \A m \in N : m[1] = p /\ m[2] \notin {"rpc_pending_", "rpc_done_"}
    BY <1>3 DEF Kept
  <1> HIDE DEF N
  <1> QED  BY <1>o, <1>7, <1>8, <1>9, <1>10, MainStep, Zenon

\* Ready: the agents are told, one after the other.
LEMMA EnclaveReadyStep ==
    ASSUME IInv, NEW p \in Procs, EnclaveReady(p)
    PROVE  IInv'
  <1>1. PICK i \in 1 .. Last :
          Notify(Main(p), <<p, "enclave_ready_", CpuList[i]>>, <<"enclave_ready_", i>>,
                 Following("enclave_ready_", i, <<"online">>))
    BY Zenon DEF EnclaveReady
  <1> DEFINE th == Main(p)
             n == <<p, "enclave_ready_", CpuList[i]>>
             to == Following("enclave_ready_", i, <<"online">>)
  <1>2. /\ to \in Places
        /\ \/ i = Last /\ to = <<"online">>
           \/ /\ i < Last /\ i + 1 \in 1 .. Last /\ to = <<"enclave_ready_", i + 1>>
              /\ to[1] = "enclave_ready_" /\ to[2] = i + 1
    <2>1. <<"online">> \in Places /\ "enclave_ready_" \in LoopLabels
      BY DEF Places, Labels, LoopLabels
    <2> QED  BY <2>1, FollowingFacts
  <1>o. Core' /\ fault' = FALSE /\ LoopOutcome(p, "enclave_ready_", i, to)
    BY <1>1, <1>2, LoopNotify, ZenonT(60)
  <1>3. Kept(th, {n}) /\ notified'[n] = "kNotified"
    BY <1>o, Zenon DEF LoopOutcome
  <1>4. /\ pc[th][1] = "enclave_ready_" /\ pc[th][2] = i
        /\ \/ pc'[th] = pc[th] /\ phase'[th] # Running
           \/ i = Last /\ pc'[th] = <<"online">> /\ pc'[th][1] = "online" /\ phase'[th] = Running
           \/ /\ i < Last /\ i + 1 \in 1 .. Last /\ pc'[th] = <<"enclave_ready_", i + 1>>
              /\ pc'[th][1] = "enclave_ready_" /\ pc'[th][2] = i + 1 /\ phase'[th] = Running
    BY <1>2, <1>o DEF LoopOutcome
  <1> HIDE DEF to
  <1>5. MainStays(p, {n})
    BY <1>3, MainLocal, Zenon
  <1>6. UNCHANGED <<evars, cvars>>
    BY Zenon DEF EnclaveReady
  <1>7. UNCHANGED <<agents, agentOn>>
    BY <1>6, Zenon DEF evars
  <1>8. pc'[th][1] \in {"enclave_ready_", "online"}
    BY <1>4
  <1>9. MainAt(p)'
    <2>1. ShapeAt(p)'
      <3>1. ShapeAt(p)
        BY <1>5, Zenon DEF MainStays, ProcessAt
      <3> QED  BY ONLY <1>4, <3>1, ZenonT(60) DEF ShapeAt, Labels, LoopLabels
    <2>2. ParentAt(p)'
      <3>1. ParentAt(p) /\ <<p, "agent_ready_">> \notin {n} /\ <<p, "kill_agent_">> \notin {n}
        BY <1>5 DEF MainStays, ProcessAt
      <3>2. pc[th][1] = "enclave_ready_"
        BY <1>4
      <3> QED  BY ONLY <1>5, <1>8, <3>1, <3>2 DEF MainStays, ParentAt, ParentOK, EndLabels
    <2>3. (\A c \in Cpus : AgentAt(p, c)') /\ (\A x \in 1 .. Last : ReadyAt(p, x)')
      <3>1. /\ \A c : <<p, "ready_", c>> \notin {n}
            /\ pc[th][1] \in PastLabels /\ pc'[th][1] \in PastLabels /\ pc[th][1] \notin EndLabels
        BY <1>4, <1>8 DEF PastLabels, EndLabels
      <3> QED  BY <1>5, <1>7, <3>1, Onward
    <2>4. ASSUME NEW x \in 1 .. Last  PROVE SignalAt(p, x)'
      <3>1. SignalAt(p, x)
        BY <1>5, ZenonT(60) DEF MainStays, ProcessAt
      <3>2. \A b \in {"ready_", "enclave_ready_", "finished_", "do_exit_"} :
              notified'[<<p, b, CpuList[x]>>] = "kNotified"
                <=> \/ b = "enclave_ready_" /\ x = i
                    \/ notified[<<p, b, CpuList[x]>>] = "kNotified"
        BY <1>3, <1>5, LoopPosts, ZenonT(60)
      <3>3. /\ notified'[<<p, "finished_", CpuList[x]>>] = "kNotified"
                 <=> notified[<<p, "finished_", CpuList[x]>>] = "kNotified"
            /\ notified'[<<p, "do_exit_", CpuList[x]>>] = "kNotified"
                 <=> notified[<<p, "do_exit_", CpuList[x]>>] = "kNotified"
            /\ notified'[<<p, "enclave_ready_", CpuList[x]>>] = "kNotified"
                 <=> x = i \/ notified[<<p, "enclave_ready_", CpuList[x]>>] = "kNotified"
        BY <3>2
      <3> QED  BY ONLY <1>4, <3>1, <3>3, x \in 1 .. Last, i \in 1 .. Last, CpuFacts
               DEF SignalAt, EnclaveReadyOK, FinishedOK, DoExitOK, ServeLabels, EndLabels,
                   TurnLabels
    <2> QED  BY <2>1, <2>2, <2>3, <2>4, Zenon DEF MainAt
  <1>10. SameStage(p)
    BY ONLY <1>4, <1>8 DEF SameStage, StartLabels
  <1> DEFINE N == {n}
  <1>11. Kept(Main(p), N) /\ \A m \in N : m[1] = p /\ m[2] \notin {"rpc_pending_", "rpc_done_"}
    BY <1>3
  <1> HIDE DEF N
  <1> QED  BY <1>o, <1>6, <1>9, <1>10, <1>11, MainStep, Zenon

\* While the process is online, the agents have been told that the enclave is ready, and
\* nothing else.
LEMMA Serving ==
    ASSUME NEW p \in Procs, NEW N, MainStays(p, N), UNCHANGED <<agents, agentOn>>,
           \A a \in {"ready_", "enclave_ready_", "finished_", "do_exit_"}, c \in Cpus :
             <<p, a, c>> \notin N,
           pc[Main(p)][1] \in ServeLabels,
           \/ pc'[Main(p)][1] \in ServeLabels
           \/ pc'[Main(p)][1] = "finished_" /\ pc'[Main(p)][2] = 1 /\ phase'[Main(p)] = Running
    PROVE  (\A c \in Cpus : AgentAt(p, c)') /\ (\A i \in 1 .. Last : ReadyAt(p, i)' /\ SignalAt(p, i)')
  <1>1. /\ pc[Main(p)][1] \in {"agent_ready_", "kill_agent_", "prepare"}
        /\ pc'[Main(p)][1] \in {"agent_ready_", "kill_agent_", "prepare", "finished_"}
    BY DEF ServeLabels
  <1>2. ASSUME NEW c \in Cpus  PROVE AgentAt(p, c)'
    <2>1. AgentAt(p, c) /\ pc'[<<p, c>>] = pc[<<p, c>>]
      BY Zenon DEF MainStays, ProcessAt
    <2> QED  BY <1>1, <2>1 DEF AgentAt, AgentOK, EndLabels, ServeLabels
  <1>3. ASSUME NEW i \in 1 .. Last  PROVE ReadyAt(p, i)' /\ SignalAt(p, i)'
    <2>1. ReadyAt(p, i) /\ SignalAt(p, i) /\ CpuList[i] \in Cpus /\ ~(i < 1)
      BY CpuFacts DEF MainStays, ProcessAt
    <2>2. /\ pc'[<<p, CpuList[i]>>] = pc[<<p, CpuList[i]>>]
          /\ phase'[<<p, CpuList[i]>>] = Running <=> phase[<<p, CpuList[i]>>] = Running
          /\ \A a \in {"ready_", "enclave_ready_", "finished_", "do_exit_"} :
               notified'[<<p, a, CpuList[i]>>] = "kNotified"
                 <=> notified[<<p, a, CpuList[i]>>] = "kNotified"
      BY <2>1, Zenon DEF MainStays
    <2>3. ReadyAt(p, i)'
      BY ONLY <1>1, <2>1, <2>2, ZenonT(60) DEF ReadyAt, ReadyOK, ServeLabels, EndLabels
    <2>4. /\ notified'[<<p, "enclave_ready_", CpuList[i]>>] = "kNotified"
          /\ notified'[<<p, "finished_", CpuList[i]>>] # "kNotified"
          /\ notified'[<<p, "do_exit_", CpuList[i]>>] # "kNotified"
      BY ONLY <1>1, <2>1, <2>2
      DEF SignalAt, EnclaveReadyOK, FinishedOK, DoExitOK, ServeLabels, EndLabels, TurnLabels
    <2>5. SignalAt(p, i)'
      <3>1. CASE pc'[Main(p)][1] \in {"agent_ready_", "kill_agent_", "prepare"}
        BY ONLY <2>4, <3>1
        DEF SignalAt, EnclaveReadyOK, FinishedOK, DoExitOK, ServeLabels, EndLabels, TurnLabels
      <3>2. CASE pc'[Main(p)][1] = "finished_" /\ pc'[Main(p)][2] = 1 /\ phase'[Main(p)] = Running
        BY ONLY <2>1, <2>4, <3>2
        DEF SignalAt, EnclaveReadyOK, FinishedOK, DoExitOK, ServeLabels, EndLabels, TurnLabels
      <3> QED  BY <3>1, <3>2 DEF ServeLabels
    <2> QED  BY <2>3, <2>5
  <1> QED  BY <1>2, <1>3

\* agent_ready_ is posted once, when the RPC thread has started.
LEMMA NotifyAgentReadyStep ==
    ASSUME IInv, NEW p \in Procs, NotifyAgentReady(p)
    PROVE  IInv'
  <1> DEFINE th == Main(p)
             n == <<p, "agent_ready_">>
  <1>0. TypeOK /\ Phased /\ Waits /\ NoLostWakeup /\ NoCheckFails
    BY Zenon DEF IInv
  <1>1. /\ th \in Threads /\ n \in Notifs /\ th[1] = p /\ n[2] = "agent_ready_" /\ n[1] = p
        /\ <<"kill_agent_">> \in Places /\ <<"agent_ready_">>[1] = "agent_ready_"
        /\ "agent_ready_" \notin LoopLabels
    BY ThreadIds, NotifIds, ZenonT(60) DEF Places, Labels, LoopLabels, Main
  <1>2. /\ Notify(th, n, <<"agent_ready_">>, <<"kill_agent_">>) /\ UNCHANGED <<evars, cvars>>
        /\ Calling(th, n, <<"agent_ready_">>)
    BY <1>1, Zenon DEF NotifyAgentReady, Calling
  <1>3. ParentAt(p)
    BY Zenon DEF IInv, Parents
  <1>4. pc[th] = <<"agent_ready_">> /\ phase[th] = Running => notified[n] # "kNotified"
    BY ONLY <1>1, <1>3 DEF ParentAt, ParentOK, EndLabels
  <1>o. Core' /\ fault' = FALSE /\ NotifyOutcome(th, n, <<"agent_ready_">>, <<"kill_agent_">>)
    <2> HIDE DEF th, n
    <2> QED  BY ONLY <1>0, <1>1, <1>2, <1>4, NotifyStep, Zenon
  <1>5. Kept(th, {n})
    BY <1>o, Zenon DEF NotifyOutcome
  <1>6. /\ pc[th][1] = "agent_ready_"
        /\ \/ phase'[th] # Running /\ pc'[th] = pc[th] /\ pc'[th][1] = "agent_ready_"
           \/ pc'[th] = <<"kill_agent_">> /\ pc'[th][1] = "kill_agent_"
    BY <1>o DEF NotifyOutcome
  <1>7. /\ MainStays(p, {n}) /\ <<p, "kill_agent_">> \notin {n}
        /\ \A a, c : <<p, a, c>> \notin {n}
    BY <1>5, MainLocal
  <1>8. UNCHANGED <<agents, agentOn>>
    BY <1>2, Zenon DEF evars
  <1>9. pc[th][1] \in ServeLabels /\ pc'[th][1] \in ServeLabels
    BY <1>6 DEF ServeLabels
  <1>10. MainAt(p)'
    <2>1. ShapeAt(p)'
      <3>1. ShapeAt(p)
        BY <1>7, Zenon DEF MainStays, ProcessAt
      <3> QED  BY ONLY <1>6, <3>1 DEF ShapeAt, Labels, LoopLabels
    <2>2. ParentAt(p)'
      BY ONLY <1>3, <1>6, <1>7 DEF MainStays, ParentAt, ParentOK, EndLabels
    <2>3. /\ \A c \in Cpus : AgentAt(p, c)'
          /\ \A i \in 1 .. Last : ReadyAt(p, i)' /\ SignalAt(p, i)'
      <3> DEFINE N == {n}
      <3>1. MainStays(p, N) /\ \A a, c : <<p, a, c>> \notin N
        BY <1>7
      <3> HIDE DEF N
      <3> QED  BY <1>8, <1>9, <3>1, Serving, Zenon
    <2> QED  BY <2>1, <2>2, <2>3, Zenon DEF MainAt
  <1>11. SameStage(p)
    BY <1>9, Zenon DEF SameStage
  <1> DEFINE N == {n}
  <1>12. Kept(Main(p), N) /\ \A m \in N : m[1] = p /\ m[2] \notin {"rpc_pending_", "rpc_done_"}
    BY <1>5
  <1> HIDE DEF N
  <1> QED  BY <1>o, <1>2, <1>10, <1>11, <1>12, MainStep, Zenon

\* The main thread goes on to terminate the agents only if it was told to.
LEMMA AwaitKillAgentStep ==
    ASSUME IInv, NEW p \in Procs, AwaitKillAgent(p)
    PROVE  IInv'
  <1> DEFINE th == Main(p)
             n == <<p, "kill_agent_">>
  <1>0. TypeOK /\ Phased /\ Waits /\ NoLostWakeup /\ NoCheckFails
    BY Zenon DEF IInv
  <1>1. /\ th \in Threads /\ n \in Notifs /\ th[1] = p /\ n[2] = "kill_agent_" /\ n[1] = p
        /\ <<"prepare">> \in Places /\ <<"kill_agent_">>[1] = "kill_agent_"
        /\ "kill_agent_" \notin LoopLabels /\ n[2] # "rpc_pending_" /\ n[2] # "rpc_done_"
    BY ThreadIds, NotifIds, ZenonT(60) DEF Places, Labels, LoopLabels, Main
  <1>2. /\ WaitForNotification(th, n, <<"kill_agent_">>, <<"prepare">>)
        /\ UNCHANGED <<evars, cvars>> /\ Calling(th, n, <<"kill_agent_">>)
    BY <1>1, Zenon DEF AwaitKillAgent, Calling
  <1>o. Core' /\ fault' = FALSE /\ WaitOutcome(th, n, <<"kill_agent_">>, <<"prepare">>)
    <2> HIDE DEF th, n
    <2> QED  BY ONLY <1>0, <1>1, <1>2, WaitStep, Zenon
  <1>3. ParentAt(p)
    BY Zenon DEF IInv, Parents
  <1>5. Kept(th, {})
    BY <1>o, Zenon DEF WaitOutcome
  <1>6. /\ pc[th][1] = "kill_agent_"
        /\ \/ pc'[th] = pc[th] /\ pc'[th][1] = "kill_agent_"
           \/ pc'[th] = <<"prepare">> /\ pc'[th][1] = "prepare" /\ notified[n] = "kNotified"
    BY <1>o DEF WaitOutcome
  <1>7. MainStays(p, {})
    BY <1>5, MainLocal, Zenon
  <1>8. UNCHANGED <<agents, agentOn>>
    BY <1>2, Zenon DEF evars
  <1>9. pc[th][1] \in ServeLabels /\ pc'[th][1] \in ServeLabels
    BY <1>6 DEF ServeLabels
  <1>10. MainAt(p)'
    <2>1. ShapeAt(p)'
      <3>1. ShapeAt(p)
        BY <1>7, Zenon DEF MainStays, ProcessAt
      <3> QED  BY ONLY <1>6, <3>1 DEF ShapeAt, Labels, LoopLabels
    <2>2. ParentAt(p)'
      <3>1. phase[Parent(p)] # Running => pc[Parent(p)][1] # "up"
        <4>1. pc[Parent(p)][1] = "up" => phase[Parent(p)] = Running
          BY <1>0, ThreadIds, NotInside DEF Names
        <4> QED  BY <4>1
      <3> QED  BY ONLY <1>3, <1>6, <1>7, <3>1 DEF MainStays, ParentAt, ParentOK, EndLabels
    <2>3. /\ \A c \in Cpus : AgentAt(p, c)'
          /\ \A i \in 1 .. Last : ReadyAt(p, i)' /\ SignalAt(p, i)'
      <3> DEFINE N == {}
      <3>1. MainStays(p, N) /\ \A a, c : <<p, a, c>> \notin N
        BY <1>7
      <3> HIDE DEF N
      <3> QED  BY <1>8, <1>9, <3>1, Serving, Zenon
    <2> QED  BY <2>1, <2>2, <2>3, Zenon DEF MainAt
  <1>11. SameStage(p)
    BY <1>9, Zenon DEF SameStage
  <1> DEFINE N == {n}
  <1>12. Kept(Main(p), N) /\ \A m \in N : m[1] = p /\ m[2] \notin {"rpc_pending_", "rpc_done_"}
    BY <1>5 DEF Kept
  <1> HIDE DEF N
  <1> QED  BY <1>o, <1>2, <1>10, <1>11, <1>12, MainStep, Zenon

\* TerminateAgentTasks begins: the process is not online any more.
LEMMA PrepareToExitStep ==
    ASSUME IInv, NEW p \in Procs, PrepareToExit(p)
    PROVE  IInv'
  <1> DEFINE th == Main(p)
  <1>0. TypeOK /\ Phased /\ Waits /\ NoLostWakeup /\ NoCheckFails /\ Succession
    BY Zenon DEF IInv
  <1>1. /\ th \in Threads /\ <<"finished_", 1>> \in Places /\ <<"prepare">>[1] \notin Names
        /\ 1 \in 1 .. Last
    BY ThreadIds, CpuFacts DEF Places, LoopLabels, Names
  <1>2. /\ Step(th, <<"prepare">>, <<"finished_", 1>>) /\ online' = None
        /\ is_online' = [is_online EXCEPT ![p] = FALSE]
        /\ UNCHANGED <<fault, agents, agentOn, stale, cvars>>
    BY Zenon DEF PrepareToExit
  <1>o. Core' /\ StepOutcome(th, <<"prepare">>, <<"finished_", 1>>)
    BY <1>0, <1>1, <1>2, PlainStep, Zenon
  <1>3. /\ Kept(th, {}) /\ pc[th] = <<"prepare">> /\ pc'[th] = <<"finished_", 1>>
        /\ phase'[th] = Running
    BY <1>o, Zenon DEF StepOutcome
  <1>4. pc[th][1] = "prepare" /\ pc'[th][1] = "finished_" /\ pc'[th][2] = 1
    BY <1>3
  <1>5. MainStays(p, {})
    BY <1>3, MainLocal, Zenon
  <1>6. /\ UNCHANGED <<agents, agentOn>> /\ UNCHANGED <<agents, agentOn, cvars>>
        /\ UNCHANGED <<mutex, rpc_req, rpc_res, calls>>
    BY <1>2, Zenon DEF cvars
  <1>7. /\ is_online'[p] = FALSE /\ is_online' \in [Procs -> BOOLEAN]
        /\ \A q \in Procs : q # p => is_online'[q] = is_online[q]
    BY <1>0, <1>2 DEF TypeOK
  <1>8. TypeOK' /\ NoCheckFails'
    BY ONLY <1>0, <1>2, <1>6, <1>7, <1>o, Zenon DEF TypeOK, NoCheckFails, Core, Places
  <1>9. MainAt(p)'
    <2>1. ShapeAt(p)'
      BY <1>1, <1>3 DEF ShapeAt, LoopLabels
    <2>2. ParentAt(p)'
      <3>1. ParentAt(p)
        BY <1>5, Zenon DEF MainStays, ProcessAt
      <3> QED  BY ONLY <1>4, <1>5, <3>1 DEF MainStays, ParentAt, ParentOK, EndLabels
    <2>3. /\ \A c \in Cpus : AgentAt(p, c)'
          /\ \A i \in 1 .. Last : ReadyAt(p, i)' /\ SignalAt(p, i)'
      <3> DEFINE N == {}
      <3>1. /\ MainStays(p, N) /\ \A a, c : <<p, a, c>> \notin N
            /\ pc[th][1] \in ServeLabels
        BY <1>4, <1>5 DEF ServeLabels
      <3> HIDE DEF N
      <3> QED  BY <1>3, <1>4, <1>6, <3>1, Serving, Zenon
    <2> QED  BY <2>1, <2>2, <2>3, Zenon DEF MainAt
  <1>10. th # RpcThread(p) /\ \A q \in Procs : q # p => Main(q) # th
    BY DEF Main, RpcThread
  <1>11. /\ pc'[RpcThread(p)] = pc[RpcThread(p)]
         /\ \A q \in Procs : q # p => pc'[Main(q)] = pc[Main(q)]
    BY <1>3, <1>10, ThreadIds, Zenon DEF Kept
  <1>12. ServingAt(p)'
    <2>1. ServingAt(p)
      BY <1>5, Zenon DEF MainStays, ProcessAt
    <2> QED  BY ONLY <1>4, <1>7, <1>11, <2>1 DEF ServingAt, ServeLabels, StartLabels
  <1>13. Succession' /\ OneProcessSchedules'
    <2>1. None \notin Procs /\ pc'[th][1] \notin StartLabels
      BY <1>4, ProcessAssumption DEF StartLabels
    <2> QED  BY ONLY <1>0, <1>2, <1>11, <2>1, Zenon DEF Succession, OneProcessSchedules
  <1> DEFINE N == {<<p, "kill_agent_">>}
  <1>14. Kept(Main(p), N) /\ \A m \in N : m[1] = p /\ m[2] \notin {"rpc_pending_", "rpc_done_"}
    BY <1>3 DEF Kept
  <1> HIDE DEF N
  <1> QED  BY <1>o, <1>6, <1>7, <1>8, <1>9, <1>12, <1>13, <1>14, MainFrame, Zenon

\* While the agents are terminated, the parent waits for the child to exit.
LEMMA Ending ==
    ASSUME NEW p \in Procs, NEW N, MainStays(p, N), UNCHANGED <<agents, agentOn>>,
           \A c : <<p, "ready_", c>> \notin N,
           <<p, "agent_ready_">> \notin N, <<p, "kill_agent_">> \notin N,
           pc[Main(p)][1] \in EndLabels, pc'[Main(p)][1] \in EndLabels
    PROVE  /\ ParentAt(p)' /\ (\A c \in Cpus : AgentAt(p, c)') /\ (\A i \in 1 .. Last : ReadyAt(p, i)')
           /\ SameStage(p)
  <1>1. ParentAt(p)'
    <2>1. ParentAt(p)
      BY Zenon DEF MainStays, ProcessAt
    <2>2. /\ pc[Main(p)][1] \notin {"none", "agent_ready_", "kill_agent_"}
          /\ pc'[Main(p)][1] \notin {"none", "agent_ready_", "kill_agent_"}
      BY DEF EndLabels
    <2> QED  BY <2>1, <2>2 DEF MainStays, ParentAt, ParentOK
  <1>2. pc[Main(p)][1] \in PastLabels /\ pc'[Main(p)][1] \in PastLabels
    BY DEF PastLabels
  <1>3. (\A c \in Cpus : AgentAt(p, c)') /\ (\A i \in 1 .. Last : ReadyAt(p, i)')
    BY <1>2, Onward, Zenon
  <1> QED  BY <1>1, <1>3, Zenon DEF SameStage

\* TerminateBegin: finished_ of the agent it is at is posted.
LEMMA NotifyFinishedStep ==
    ASSUME IInv, NEW p \in Procs, NotifyFinished(p)
    PROVE  IInv'
  <1>1. PICK i \in 1 .. Last :
          Notify(Main(p), <<p, "finished_", CpuList[i]>>, <<"finished_", i>>, <<"ping", i>>)
    BY Zenon DEF NotifyFinished
  <1> DEFINE th == Main(p)
             n == <<p, "finished_", CpuList[i]>>
  <1>2. <<"ping", i>> \in Places
    BY DEF Places, LoopLabels
  <1>o. Core' /\ fault' = FALSE /\ LoopOutcome(p, "finished_", i, <<"ping", i>>)
    BY <1>1, <1>2, LoopNotify, ZenonT(60)
  <1>3. Kept(th, {n}) /\ notified'[n] = "kNotified"
    BY <1>o, Zenon DEF LoopOutcome
  <1>4. /\ pc[th][1] = "finished_" /\ pc[th][2] = i
        /\ \/ pc'[th] = pc[th] /\ phase'[th] # Running
           \/ pc'[th] = <<"ping", i>> /\ pc'[th][1] = "ping" /\ pc'[th][2] = i
    BY <1>o DEF LoopOutcome
  <1>5. MainStays(p, {n})
    BY <1>3, MainLocal, Zenon
  <1>6. UNCHANGED <<evars, cvars>> /\ UNCHANGED <<agents, agentOn>>
    BY Zenon DEF NotifyFinished, evars
  <1> DEFINE N == {n}
  <1>7. /\ MainStays(p, N) /\ Kept(th, N)
        /\ \A m \in N : m[1] = p /\ m[2] \notin {"rpc_pending_", "rpc_done_"}
        /\ \A c : <<p, "ready_", c>> \notin N
        /\ <<p, "agent_ready_">> \notin N /\ <<p, "kill_agent_">> \notin N
        /\ pc[th][1] \in EndLabels /\ pc'[th][1] \in EndLabels
    BY <1>3, <1>4, <1>5 DEF EndLabels
  <1>8. /\ ParentAt(p)' /\ (\A c \in Cpus : AgentAt(p, c)') /\ (\A x \in 1 .. Last : ReadyAt(p, x)')
        /\ SameStage(p)
    <2> HIDE DEF N
    <2> QED  BY <1>6, <1>7, Ending, Zenon
  <1>9. ShapeAt(p)'
    <2>1. ShapeAt(p)
      BY <1>5, ZenonT(60) DEF MainStays, ProcessAt
    <2> QED  BY ONLY <1>4, <2>1, i \in 1 .. Last DEF ShapeAt, Labels, LoopLabels
  <1>10. ASSUME NEW x \in 1 .. Last  PROVE SignalAt(p, x)'
    <2>1. SignalAt(p, x)
      BY <1>5, ZenonT(60) DEF MainStays, ProcessAt
    <2>2. \A b \in {"ready_", "enclave_ready_", "finished_", "do_exit_"} :
            notified'[<<p, b, CpuList[x]>>] = "kNotified"
              <=> \/ b = "finished_" /\ x = i
                  \/ notified[<<p, b, CpuList[x]>>] = "kNotified"
      BY <1>3, <1>5, LoopPosts, ZenonT(60)
    <2>3. /\ notified'[<<p, "enclave_ready_", CpuList[x]>>] = "kNotified"
               <=> notified[<<p, "enclave_ready_", CpuList[x]>>] = "kNotified"
          /\ notified'[<<p, "do_exit_", CpuList[x]>>] = "kNotified"
               <=> notified[<<p, "do_exit_", CpuList[x]>>] = "kNotified"
          /\ notified'[<<p, "finished_", CpuList[x]>>] = "kNotified"
               <=> x = i \/ notified[<<p, "finished_", CpuList[x]>>] = "kNotified"
      BY <2>2
    <2> QED  BY ONLY <1>4, <2>1, <2>3, x \in 1 .. Last, i \in 1 .. Last, CpuFacts
             DEF SignalAt, EnclaveReadyOK, FinishedOK, DoExitOK, ServeLabels, EndLabels,
                 TurnLabels
  <1>11. MainAt(p)'
    BY <1>8, <1>9, <1>10, Zenon DEF MainAt
  <1> HIDE DEF N
  <1> QED  BY <1>o, <1>6, <1>7, <1>8, <1>11, MainStep, Zenon

\* Inside the loop the main thread moves without a notification.
LEMMA LoopMoves ==
    ASSUME IInv, NEW p \in Procs, Core', Kept(Main(p), {}), TypeOK', NoCheckFails',
           UNCHANGED <<is_online, online, agents, agentOn, cvars>>,
           ShapeAt(p)', pc[Main(p)][1] \in EndLabels, pc'[Main(p)][1] \in EndLabels,
           \A x \in 1 .. Last : SignalAt(p, x)'
    PROVE  IInv'
  <1>1. MainStays(p, {})
    BY MainLocal, Zenon
  <1> DEFINE N == {<<p, "enclave_ready_", CpuList[1]>>}
  <1>2. /\ MainStays(p, N) /\ Kept(Main(p), N)
        /\ \A m \in N : m[1] = p /\ m[2] \notin {"rpc_pending_", "rpc_done_"}
        /\ \A c : <<p, "ready_", c>> \notin N
        /\ <<p, "agent_ready_">> \notin N /\ <<p, "kill_agent_">> \notin N
    BY MainLocal DEF Kept
  <1> HIDE DEF N
  <1>3. UNCHANGED <<agents, agentOn>> /\ UNCHANGED <<agents, agentOn, cvars>>
    OBVIOUS
  <1>4. /\ ParentAt(p)' /\ (\A c \in Cpus : AgentAt(p, c)') /\ (\A x \in 1 .. Last : ReadyAt(p, x)')
        /\ SameStage(p)
    BY <1>2, <1>3, Ending, Zenon
  <1>5. MainAt(p)'
    BY <1>4, Zenon DEF MainAt
  <1>6. ServingAt(p)' /\ Succession' /\ OneProcessSchedules'
    <2>1. UNCHANGED <<is_online, online, agentOn>>
      OBVIOUS
    <2> QED  BY <1>2, <1>4, <2>1, StageKept, Zenon
  <1> QED  BY <1>2, <1>3, <1>5, <1>6, MainFrame, Zenon

\* No notification of an agent is posted.
LEMMA LoopSilent ==
    ASSUME NEW p \in Procs, MainStays(p, {}), NEW x \in 1 .. Last
    PROVE  /\ notified'[<<p, "enclave_ready_", CpuList[x]>>] = "kNotified"
                <=> notified[<<p, "enclave_ready_", CpuList[x]>>] = "kNotified"
           /\ notified'[<<p, "finished_", CpuList[x]>>] = "kNotified"
                <=> notified[<<p, "finished_", CpuList[x]>>] = "kNotified"
           /\ notified'[<<p, "do_exit_", CpuList[x]>>] = "kNotified"
                <=> notified[<<p, "do_exit_", CpuList[x]>>] = "kNotified"
  <1>1. CpuList[x] \in Cpus
    BY CpuFacts, Zenon
  <1> QED  BY <1>1, Zenon DEF MainStays

\* TerminateBegin: the agent is pinged.
LEMMA PingStep ==
    ASSUME IInv, NEW p \in Procs, Ping(p)
    PROVE  IInv'
  <1>1. PICK i \in 1 .. Last : /\ Step(Main(p), <<"ping", i>>, <<"do_exit_", i>>)
                               /\ stale' = [stale EXCEPT ![<<p, CpuList[i]>>] = TRUE]
    BY Zenon DEF Ping
  <1>2. UNCHANGED <<fault, is_online, online, agents, agentOn, cvars>>
    BY Zenon DEF Ping
  <1> DEFINE th == Main(p)
  <1>0. TypeOK /\ Phased /\ Waits /\ NoLostWakeup /\ NoCheckFails
    BY Zenon DEF IInv
  <1>3. th \in Threads /\ <<"do_exit_", i>> \in Places /\ <<"ping", i>>[1] \notin Names
    BY ThreadIds DEF Places, LoopLabels, Names
  <1>o. Core' /\ StepOutcome(th, <<"ping", i>>, <<"do_exit_", i>>)
    BY <1>0, <1>1, <1>3, PlainStep, Zenon
  <1>4. /\ Kept(th, {}) /\ pc[th] = <<"ping", i>> /\ pc'[th] = <<"do_exit_", i>>
        /\ phase'[th] = Running
    BY <1>o, Zenon DEF StepOutcome
  <1>5. pc[th][1] = "ping" /\ pc[th][2] = i /\ pc'[th][1] = "do_exit_" /\ pc'[th][2] = i
    BY <1>4
  <1>6. stale' \in [Procs \X Cpus -> BOOLEAN]
    BY <1>0, <1>1, ZenonT(60) DEF TypeOK
  <1>7. TypeOK' /\ NoCheckFails'
    <2>1. UNCHANGED <<mutex, rpc_req, rpc_res, calls>>
      BY <1>2, Zenon DEF cvars
    <2> QED  BY ONLY <1>0, <1>2, <1>6, <1>o, <2>1, Zenon DEF TypeOK, NoCheckFails, Core, Places
  <1>8. ShapeAt(p)' /\ pc[th][1] \in EndLabels /\ pc'[th][1] \in EndLabels
    BY <1>4, <1>5, ZenonT(60) DEF ShapeAt, LoopLabels, EndLabels
  <1>9. ASSUME NEW x \in 1 .. Last  PROVE SignalAt(p, x)'
    <2>1. MainStays(p, {})
      BY <1>4, MainLocal, ZenonT(60)
    <2>2. /\ SignalAt(p, x)
          /\ notified'[<<p, "enclave_ready_", CpuList[x]>>] = "kNotified"
               <=> notified[<<p, "enclave_ready_", CpuList[x]>>] = "kNotified"
          /\ notified'[<<p, "finished_", CpuList[x]>>] = "kNotified"
               <=> notified[<<p, "finished_", CpuList[x]>>] = "kNotified"
          /\ notified'[<<p, "do_exit_", CpuList[x]>>] = "kNotified"
               <=> notified[<<p, "do_exit_", CpuList[x]>>] = "kNotified"
      BY <2>1, LoopSilent, ZenonT(60) DEF MainStays, ProcessAt
    <2> QED  BY ONLY <1>4, <1>5, <2>2, x \in 1 .. Last, i \in 1 .. Last, CpuFacts
             DEF SignalAt, EnclaveReadyOK, FinishedOK, DoExitOK, ServeLabels, EndLabels,
                 TurnLabels
  <1>10. UNCHANGED <<is_online, online, agents, agentOn, cvars>>
    BY <1>2, Zenon
  <1> QED  BY <1>o, <1>4, <1>7, <1>8, <1>9, <1>10, LoopMoves, Zenon

\* TerminateBegin: do_exit_ of the agent it is at is posted; then the next agent's turn.
LEMMA NotifyDoExitStep ==
    ASSUME IInv, NEW p \in Procs, NotifyDoExit(p)
    PROVE  IInv'
  <1>1. PICK i \in 1 .. Last :
          Notify(Main(p), <<p, "do_exit_", CpuList[i]>>, <<"do_exit_", i>>,
                 Following("finished_", i, <<"join", 1>>))
    BY Zenon DEF NotifyDoExit
  <1> DEFINE th == Main(p)
             n == <<p, "do_exit_", CpuList[i]>>
             to == Following("finished_", i, <<"join", 1>>)
  <1>2. /\ to \in Places
        /\ \/ i = Last /\ to = <<"join", 1>> /\ to[1] = "join" /\ 1 \in 1 .. Last
           \/ /\ i < Last /\ i + 1 \in 1 .. Last /\ to = <<"finished_", i + 1>>
              /\ to[1] = "finished_" /\ to[2] = i + 1
    <2>1. <<"join", 1>> \in Places /\ "finished_" \in LoopLabels /\ 1 \in 1 .. Last
      BY CpuFacts DEF Places, LoopLabels
    <2> QED  BY <2>1, FollowingFacts
  <1>o. Core' /\ fault' = FALSE /\ LoopOutcome(p, "do_exit_", i, to)
    BY <1>1, <1>2, LoopNotify, ZenonT(60)
  <1>3. Kept(th, {n}) /\ notified'[n] = "kNotified"
    BY <1>o, Zenon DEF LoopOutcome
  <1>4. /\ pc[th][1] = "do_exit_" /\ pc[th][2] = i
        /\ \/ pc'[th] = pc[th] /\ phase'[th] # Running
           \/ i = Last /\ pc'[th] = <<"join", 1>> /\ pc'[th][1] = "join" /\ 1 \in 1 .. Last
           \/ /\ i < Last /\ i + 1 \in 1 .. Last /\ pc'[th] = <<"finished_", i + 1>>
              /\ pc'[th][1] = "finished_" /\ pc'[th][2] = i + 1 /\ phase'[th] = Running
    BY <1>2, <1>o DEF LoopOutcome
  <1> HIDE DEF to
  <1>5. MainStays(p, {n})
    BY <1>3, MainLocal, Zenon
  <1>6. UNCHANGED <<evars, cvars>> /\ UNCHANGED <<agents, agentOn>>
    BY Zenon DEF NotifyDoExit, evars
  <1> DEFINE N == {n}
  <1>7. /\ MainStays(p, N) /\ Kept(th, N)
        /\ \A m \in N : m[1] = p /\ m[2] \notin {"rpc_pending_", "rpc_done_"}
        /\ \A c : <<p, "ready_", c>> \notin N
        /\ <<p, "agent_ready_">> \notin N /\ <<p, "kill_agent_">> \notin N
        /\ pc[th][1] \in EndLabels /\ pc'[th][1] \in EndLabels
    BY <1>3, <1>4, <1>5 DEF EndLabels
  <1>8. /\ ParentAt(p)' /\ (\A c \in Cpus : AgentAt(p, c)') /\ (\A x \in 1 .. Last : ReadyAt(p, x)')
        /\ SameStage(p)
    <2> HIDE DEF N
    <2> QED  BY <1>6, <1>7, Ending, Zenon
  <1>9. ShapeAt(p)'
    <2>1. ShapeAt(p)
      BY <1>5, Zenon DEF MainStays, ProcessAt
    <2> QED  BY ONLY <1>4, <2>1 DEF ShapeAt, Labels, LoopLabels
  <1>10. ASSUME NEW x \in 1 .. Last  PROVE SignalAt(p, x)'
    <2>1. SignalAt(p, x)
      BY <1>5, ZenonT(60) DEF MainStays, ProcessAt
    <2>2. \A b \in {"ready_", "enclave_ready_", "finished_", "do_exit_"} :
            notified'[<<p, b, CpuList[x]>>] = "kNotified"
              <=> \/ b = "do_exit_" /\ x = i
                  \/ notified[<<p, b, CpuList[x]>>] = "kNotified"
      BY <1>3, <1>5, LoopPosts, ZenonT(60)
    <2>3. /\ notified'[<<p, "enclave_ready_", CpuList[x]>>] = "kNotified"
               <=> notified[<<p, "enclave_ready_", CpuList[x]>>] = "kNotified"
          /\ notified'[<<p, "finished_", CpuList[x]>>] = "kNotified"
               <=> notified[<<p, "finished_", CpuList[x]>>] = "kNotified"
          /\ notified'[<<p, "do_exit_", CpuList[x]>>] = "kNotified"
               <=> x = i \/ notified[<<p, "do_exit_", CpuList[x]>>] = "kNotified"
      BY <2>2
    <2> QED  BY ONLY <1>4, <2>1, <2>3, x \in 1 .. Last, i \in 1 .. Last, CpuFacts
             DEF SignalAt, EnclaveReadyOK, FinishedOK, DoExitOK, ServeLabels, EndLabels,
                 TurnLabels
  <1>11. MainAt(p)'
    BY <1>8, <1>9, <1>10, Zenon DEF MainAt
  <1> HIDE DEF N
  <1> QED  BY <1>o, <1>6, <1>7, <1>8, <1>11, MainStep, Zenon

\* TerminateComplete: the agent it is at is joined; then the next one.
LEMMA TerminateCompleteStep ==
    ASSUME IInv, NEW p \in Procs, TerminateComplete(p)
    PROVE  IInv'
  <1>1. PICK i \in 1 .. Last : Step(Main(p), <<"join", i>>, Following("join", i, <<"clear">>))
    BY Zenon DEF TerminateComplete
  <1>2. UNCHANGED <<fault, evars, cvars>>
    BY Zenon DEF TerminateComplete
  <1> DEFINE th == Main(p)
             to == Following("join", i, <<"clear">>)
  <1>0. TypeOK /\ Phased /\ Waits /\ NoLostWakeup /\ NoCheckFails
    BY Zenon DEF IInv
  <1>3. /\ to \in Places
        /\ \/ to = <<"clear">>
           \/ i + 1 \in 1 .. Last /\ to = <<"join", i + 1>>
    <2>1. <<"clear">> \in Places /\ "join" \in LoopLabels
      BY DEF Places, Labels, LoopLabels
    <2> QED  BY <2>1, FollowingFacts
  <1>4. th \in Threads /\ <<"join", i>>[1] \notin Names
    BY ThreadIds DEF Names
  <1> HIDE DEF to
  <1>o. Core' /\ StepOutcome(th, <<"join", i>>, to)
    <2>1. Step(th, <<"join", i>>, to)
      BY <1>1 DEF to
    <2> QED  BY <1>0, <1>3, <1>4, <2>1, PlainStep, Zenon
  <1>5. Kept(th, {}) /\ pc[th] = <<"join", i>> /\ pc'[th] = to
    BY <1>o, Zenon DEF StepOutcome
  <1>6. pc[th][1] = "join" /\ pc'[th][1] \in {"join", "clear"}
    BY <1>3, <1>5
  <1>7. TypeOK' /\ NoCheckFails' /\ UNCHANGED <<is_online, online, agents, agentOn, cvars>>
    <2>1. fault' = FALSE /\ UNCHANGED <<evars, cvars>>
      BY <1>0, <1>2 DEF NoCheckFails, TypeOK
    <2>2. TypeOK' /\ NoCheckFails'
      BY <1>0, <1>o, <2>1, Types, Zenon
    <2> QED  BY <2>1, <2>2, Zenon DEF evars
  <1>8. ShapeAt(p)' /\ pc[th][1] \in EndLabels /\ pc'[th][1] \in EndLabels
    BY <1>3, <1>5, <1>6, JoinPlaces, Zenon DEF ShapeAt
  <1>9. ASSUME NEW x \in 1 .. Last  PROVE SignalAt(p, x)'
    <2>1. MainStays(p, {})
      BY <1>5, MainLocal, ZenonT(60)
    <2>2. /\ SignalAt(p, x)
          /\ notified'[<<p, "enclave_ready_", CpuList[x]>>] = "kNotified"
               <=> notified[<<p, "enclave_ready_", CpuList[x]>>] = "kNotified"
          /\ notified'[<<p, "finished_", CpuList[x]>>] = "kNotified"
               <=> notified[<<p, "finished_", CpuList[x]>>] = "kNotified"
          /\ notified'[<<p, "do_exit_", CpuList[x]>>] = "kNotified"
               <=> notified[<<p, "do_exit_", CpuList[x]>>] = "kNotified"
      BY <2>1, LoopSilent, ZenonT(60) DEF MainStays, ProcessAt
    <2> QED  BY ONLY <1>6, <2>2, ZenonT(60)
             DEF SignalAt, EnclaveReadyOK, FinishedOK, DoExitOK, ServeLabels, EndLabels,
                 TurnLabels
  <1> QED  BY <1>o, <1>5, <1>7, <1>8, <1>9, LoopMoves, Zenon

\* StartBegin: the agents' threads start.
LEMMA StartAgentTasksStep ==
    ASSUME IInv, NEW p \in Procs, StartAgentTasks(p)
    PROVE  IInv'
  <1>0. /\ TypeOK /\ Phased /\ Waits /\ NoLostWakeup /\ NoCheckFails /\ Succession /\ ProcessAt(p)
        /\ OneProcessSchedules
    BY Processes, Zenon DEF IInv
  <1>1. /\ pc[Main(p)] = <<"start">> /\ UNCHANGED <<notified, phase>>
        /\ UNCHANGED <<fault, evars, cvars>>
        /\ pc' = [th \in Threads |->
                    IF th = Main(p) THEN <<"ready_", 1>>
                    ELSE IF th[1] = p /\ th[2] \in Cpus THEN <<"old">> ELSE pc[th]]
    BY Zenon DEF StartAgentTasks
  <1>2. /\ Main(p) \in Threads /\ Main(p)[1] = p
        /\ \A q \in Procs : q # p => Main(q) # Main(p) /\ Main(q)[1] # p
        /\ \A q \in Procs, c \in Cpus : <<q, c>> # Main(p) /\ <<q, c>>[1] = q /\ <<q, c>>[2] = c
        /\ RpcThread(p) # Main(p) /\ RpcThread(p)[2] \notin Cpus
        /\ Parent(p) # Main(p) /\ Parent(p)[2] \notin Cpus
        /\ \A k \in Clients : <<p, k>> # Main(p) /\ <<p, k>>[2] \notin Cpus
    BY ThreadIds, ProcessAssumption, ZenonT(60) DEF Main, RpcThread, Parent
  <1>3. /\ pc'[Main(p)] = <<"ready_", 1>> /\ \A c \in Cpus : pc'[<<p, c>>] = <<"old">>
        /\ \A u \in Threads : u # Main(p) /\ (u[1] # p \/ u[2] \notin Cpus) => pc'[u] = pc[u]
    BY <1>1, <1>2, ThreadIds
  <1>4. /\ \A q \in Procs : q # p => pc'[Main(q)] = pc[Main(q)]
        /\ \A q \in Procs, c \in Cpus : q # p => pc'[<<q, c>>] = pc[<<q, c>>]
        /\ pc'[RpcThread(p)] = pc[RpcThread(p)] /\ pc'[Parent(p)] = pc[Parent(p)]
        /\ \A k \in Clients : pc'[<<p, k>>] = pc[<<p, k>>]
    BY <1>2, <1>3, ThreadIds, Zenon
  <1>5. /\ pc[Main(p)][1] = "start" /\ pc'[Main(p)][1] = "ready_" /\ pc'[Main(p)][2] = 1
        /\ \A c \in Cpus : pc'[<<p, c>>][1] = "old"
    BY <1>1, <1>3
  <1>6. UNCHANGED <<is_online, online, agents, agentOn, mutex, rpc_req, rpc_res>>
    BY <1>1, Zenon DEF evars, cvars
  <1>7. ASSUME NEW c \in Cpus
        PROVE  pc[<<p, c>>][1] = "none" /\ phase[<<p, c>>] = Running /\ c \notin agents[p]
    <2>1. AgentAt(p, c)
      BY <1>0, Zenon DEF ProcessAt
    <2>2. pc[<<p, c>>][1] = "none" /\ c \notin agents[p]
      BY ONLY <1>5, <2>1 DEF AgentAt, AgentOK
    <2> QED  BY <1>0, <2>2, ThreadIds, NotInside DEF Names
  <1>8. Core'
    <2>1. pc' \in [Threads -> Places]
      <3>1. <<"ready_", 1>> \in Places /\ <<"old">> \in Places /\ pc \in [Threads -> Places]
        BY <1>0, CpuFacts DEF TypeOK, Places, Labels, LoopLabels
      <3> QED  BY ONLY <1>1, <3>1
    <2>2. phase[Main(p)] = Running
      BY <1>0, <1>2, <1>5, NotInside DEF Names
    <2>3. ASSUME NEW u \in Threads  PROVE pc'[u] = pc[u] \/ phase[u] = Running
      <3>1. CASE u # Main(p) /\ (u[1] # p \/ u[2] \notin Cpus)
        BY <1>3, <3>1, Zenon
      <3>2. CASE u[1] = p /\ u[2] \in Cpus
        <4>1. u = <<p, u[2]>>
          BY <3>2 DEF Threads
        <4> QED  BY <1>7, <3>2, <4>1
      <3> QED  BY <2>2, <3>1, <3>2, Zenon
    <2> QED  BY <1>0, <1>1, <2>1, <2>3, MovesCore, Zenon
  <1>9. TypeOK' /\ NoCheckFails'
    <2>1. fault' = FALSE /\ UNCHANGED <<evars, cvars>>
      BY <1>0, <1>1 DEF NoCheckFails, TypeOK
    <2> QED  BY <1>0, <1>8, <2>1, Types, Zenon
  <1>10. ProcessAt(p)'
    <2>1. ShapeAt(p)'
      BY <1>3, FirstAgent, Zenon DEF ShapeAt
    <2>2. ParentAt(p)'
      <3>1. ParentAt(p)
        BY <1>0, Zenon DEF ProcessAt
      <3> QED  BY ONLY <1>1, <1>4, <1>5, <3>1 DEF ParentAt, ParentOK, EndLabels
    <2>3. ServingAt(p)'
      <3>1. ServingAt(p)
        BY <1>0, Zenon DEF ProcessAt
      <3> QED  BY ONLY <1>4, <1>5, <1>6, <3>1 DEF ServingAt, StartLabels, ServeLabels
    <2>4. QuietAt(p)'
      BY <1>0, <1>1, <1>4, <1>6, Zenon DEF ProcessAt, QuietAt
    <2>5. ASSUME NEW k \in Clients  PROVE MutualAt(p, k)' /\ CallAt(p, k)'
      BY <1>0, <1>1, <1>4, <1>6, Zenon DEF ProcessAt, MutualAt, CallAt
    <2>6. ASSUME NEW c \in Cpus  PROVE AgentAt(p, c)'
      BY ONLY <1>5, <1>6, <1>7, c \in Cpus, Zenon DEF AgentAt, AgentOK, ServeLabels, EndLabels
    <2>7. ASSUME NEW i \in 1 .. Last  PROVE ReadyAt(p, i)' /\ SignalAt(p, i)'
      <3>1. /\ ReadyAt(p, i) /\ SignalAt(p, i) /\ pc'[<<p, CpuList[i]>>][1] = "old"
            /\ pc[<<p, CpuList[i]>>][1] = "none" /\ ~(i < 1)
        BY <1>0, <1>5, <1>7, CpuFacts, FirstAgent, Zenon DEF ProcessAt
      <3>2. ReadyAt(p, i)'
        BY ONLY <1>1, <1>5, <3>1, ZenonT(60) DEF ReadyAt, ReadyOK, ServeLabels, EndLabels
      <3>3. SignalAt(p, i)'
        BY ONLY <1>1, <1>5, <3>1
        DEF SignalAt, EnclaveReadyOK, FinishedOK, DoExitOK, ServeLabels, EndLabels, TurnLabels
      <3> QED  BY <3>2, <3>3
    <2> QED  BY <2>1, <2>2, <2>3, <2>4, <2>5, <2>6, <2>7, Zenon DEF ProcessAt
  <1>11. KeptBut(p) /\ \A q \in Procs : q # p => KeptVars(q)
    BY <1>1, <1>2, <1>3, <1>6, ZenonT(60) DEF KeptBut, KeptVars
  <1>12. online # p
    BY <1>0, <1>5, ZenonT(60) DEF Succession, ServeLabels
  <1>13. Succession'
    BY ONLY <1>0, <1>4, <1>5, <1>6, <1>12, p \in Procs DEF Succession, StartLabels
  <1>14. OneProcessSchedules'
    <2>1. online # None => pc'[Main(online)] = pc[Main(online)]
      BY <1>0, <1>4, <1>12 DEF TypeOK
    <2> QED  BY ONLY <1>0, <1>6, <2>1, ZenonT(60) DEF OneProcessSchedules
  <1> QED  BY <1>8, <1>9, <1>10, <1>11, <1>13, <1>14, ProcessFrame, Zenon

\* AdvertiseOnline: nobody holds agent_online, and the process has an agent on every cpu.
LEMMA AdvertiseOnlineStep ==
    ASSUME IInv, NEW p \in Procs, AdvertiseOnline(p)
    PROVE  IInv'
  <1>0. /\ TypeOK /\ Phased /\ Waits /\ NoLostWakeup /\ NoCheckFails /\ Succession /\ ProcessAt(p)
        /\ OneProcessSchedules
    BY Processes, Zenon DEF IInv
  <1>1. /\ pc[Main(p)] = <<"online">> /\ UNCHANGED <<notified, phase>>
        /\ fault' = (fault \/ online # None) /\ online' = p
        /\ is_online' = [is_online EXCEPT ![p] = TRUE]
        /\ pc' = [pc EXCEPT ![Main(p)] = <<"agent_ready_">>, ![RpcThread(p)] = <<"rpc_pending_">>]
        /\ UNCHANGED <<agents, agentOn, stale, cvars>>
    BY Zenon DEF AdvertiseOnline
  <1>2. /\ Main(p) \in Threads /\ RpcThread(p) \in Threads /\ Main(p) # RpcThread(p)
        /\ Main(p)[1] = p /\ RpcThread(p)[1] = p
        /\ \A q \in Procs : q # p => Main(q) \notin {Main(p), RpcThread(p)}
        /\ \A q \in Procs, c \in Cpus \cup Clients \cup {"parent"} :
             <<q, c>> \notin {Main(p), RpcThread(p)}
    BY ThreadIds, ProcessAssumption, Zenon DEF Main, RpcThread
  <1>3. /\ pc' \in [Threads -> Places] /\ pc'[Main(p)] = <<"agent_ready_">>
        /\ pc'[RpcThread(p)] = <<"rpc_pending_">>
        /\ \A u \in Threads : u \notin {Main(p), RpcThread(p)} => pc'[u] = pc[u]
    BY <1>0, <1>1, <1>2, ZenonT(60) DEF TypeOK, Places, Labels
  <1>4. /\ pc[Main(p)][1] = "online" /\ pc'[Main(p)][1] = "agent_ready_"
        /\ pc'[RpcThread(p)][1] = "rpc_pending_"
    <2>1. /\ pc[Main(p)] = <<"online">> /\ pc'[Main(p)] = <<"agent_ready_">>
          /\ pc'[RpcThread(p)] = <<"rpc_pending_">>
      BY <1>1, <1>3, Zenon
    <2> QED  BY ONLY <2>1
  <1>5. pc[RpcThread(p)][1] = "none"
    <2>1. ServingAt(p)
      BY <1>0, Zenon DEF ProcessAt
    <2> QED  BY ONLY <1>4, <2>1 DEF ServingAt, StartLabels
  <1>6. phase[Main(p)] = Running /\ phase[RpcThread(p)] = Running
    BY <1>0, <1>2, <1>4, <1>5, NotInside DEF Names
  <1>7. Core'
    <2>1. \A u \in Threads : pc'[u] = pc[u] \/ phase[u] = Running
      BY <1>3, <1>6, Zenon
    <2> QED  BY <1>0, <1>1, <1>3, <2>1, MovesCore, Zenon
  <1>8. /\ \A q \in Procs : q # p => pc'[Main(q)] = pc[Main(q)]
        /\ \A q \in Procs, c \in Cpus \cup Clients : pc'[<<q, c>>] = pc[<<q, c>>]
        /\ pc'[Parent(p)] = pc[Parent(p)]
    <2>1. Parent(p) \notin {Main(p), RpcThread(p)}
      BY DEF Parent, Main, RpcThread
    <2> QED  BY <1>2, <1>3, <2>1, ThreadIds, Zenon
  <1>9. ASSUME NEW c \in Cpus
        PROVE  agentOn[c] = p /\ pc[<<p, c>>][1] \notin {"none", "old", "edge"}
    <2>1. AgentAt(p, c)
      BY <1>0, Zenon DEF ProcessAt
    <2> QED  BY ONLY <1>4, <2>1 DEF AgentAt, AgentOK, EndLabels
  <1>10. online = None
    <2>1. CpuList[1] \in Cpus /\ pc[Main(p)][1] \in StartLabels
      BY <1>4, FirstAgent, Zenon DEF StartLabels
    <2> QED  BY <1>0, <1>9, <2>1, Zenon DEF Succession
  <1>11. /\ is_online'[p] = TRUE /\ is_online' \in [Procs -> BOOLEAN]
         /\ \A q \in Procs : q # p => is_online'[q] = is_online[q]
    BY <1>0, <1>1 DEF TypeOK
  <1>12. UNCHANGED <<mutex, rpc_req, rpc_res, calls>>
    BY <1>1, Zenon DEF cvars
  <1>13. TypeOK' /\ NoCheckFails'
    <2>1. fault' = FALSE
      BY <1>0, <1>1, <1>10 DEF TypeOK, NoCheckFails
    <2>2. online' \in Procs \cup {None} /\ fault' \in BOOLEAN
      BY <1>1, <2>1, ZenonT(60)
    <2> QED  BY ONLY <1>0, <1>1, <1>7, <1>11, <1>12, <2>1, <2>2, Zenon
             DEF TypeOK, NoCheckFails, Core, Places
  <1>14. \A k \in Clients : mutex[p] # k
    <2> TAKE k \in Clients
    <2>1. CallAt(p, k) /\ ParentAt(p)
      BY <1>0, Zenon DEF ProcessAt
    <2> QED  BY ONLY <1>4, <2>1 DEF CallAt, ParentAt, ParentOK
  <1>15. ProcessAt(p)'
    <2>1. ShapeAt(p)'
      BY <1>3, ZenonT(60) DEF ShapeAt, Labels, LoopLabels
    <2>2. ParentAt(p)'
      <3>1. ParentAt(p)
        BY <1>0, Zenon DEF ProcessAt
      <3> QED  BY ONLY <1>1, <1>4, <1>8, <3>1, ZenonT(60) DEF ParentAt, ParentOK, EndLabels
    <2>3. ServingAt(p)'
      BY ONLY <1>4, <1>11 DEF ServingAt, StartLabels, ServeLabels
    <2>4. QuietAt(p)'
      <3>1. QuietAt(p) /\ mutex'[p] = mutex[p]
        BY <1>0, <1>12, Zenon DEF ProcessAt
      <3> QED  BY ONLY <1>1, <1>4, <3>1 DEF QuietAt, Quiet, Rests
    <2>5. ASSUME NEW k \in Clients  PROVE MutualAt(p, k)' /\ CallAt(p, k)'
      BY <1>0, <1>8, <1>12, <1>14, Zenon DEF ProcessAt, MutualAt, CallAt
    <2>6. (\A c \in Cpus : AgentAt(p, c)') /\ (\A i \in 1 .. Last : ReadyAt(p, i)')
      <3> DEFINE N == {}
      <3>1. MainStays(p, N) /\ (\A c : <<p, "ready_", c>> \notin N) /\ UNCHANGED <<agents, agentOn>>
        BY <1>0, <1>1, <1>8, ZenonT(60) DEF MainStays
      <3>2. /\ pc[Main(p)][1] \in PastLabels /\ pc'[Main(p)][1] \in PastLabels
            /\ pc[Main(p)][1] \notin EndLabels
        BY <1>4, ZenonT(60) DEF PastLabels, ServeLabels, EndLabels
      <3> HIDE DEF N
      <3> QED  BY <3>1, <3>2, Onward, ZenonT(60)
    <2>7. ASSUME NEW i \in 1 .. Last  PROVE SignalAt(p, i)'
      <3>1. SignalAt(p, i)
        BY <1>0, Zenon DEF ProcessAt
      <3> QED  BY ONLY <1>1, <1>4, <3>1
               DEF SignalAt, EnclaveReadyOK, FinishedOK, DoExitOK, ServeLabels, EndLabels,
                   TurnLabels
    <2> QED  BY <2>1, <2>2, <2>3, <2>4, <2>5, <2>6, <2>7, Zenon DEF ProcessAt
  <1>16. KeptBut(p) /\ \A q \in Procs : q # p => KeptVars(q)
    BY <1>1, <1>2, <1>3, <1>11, <1>12, Zenon DEF KeptBut, KeptVars
  <1>17. Succession'
    <2>1. \A q \in Procs : pc'[Main(q)][1] \notin StartLabels
      <3>1. pc[Main(p)][1] \in StartLabels /\ pc'[Main(p)][1] \notin StartLabels
        BY <1>4 DEF StartLabels
      <3> QED  BY <1>0, <1>8, <3>1, Zenon DEF Succession
    <2>2. pc'[Main(p)][1] \in ServeLabels
      BY <1>4 DEF ServeLabels
    <2> QED  BY ONLY <1>1, <2>1, <2>2, Zenon DEF Succession
  <1>18. OneProcessSchedules'
    BY <1>1, <1>9, Zenon DEF OneProcessSchedules
  <1> QED  BY <1>7, <1>13, <1>15, <1>16, <1>17, <1>18, ProcessFrame, Zenon

\* agents_.clear(): every agent's notifications have been posted, so nobody waits for one
\* that is destroyed; then the process exits.
LEMMA ClearAndExitStep ==
    ASSUME IInv, NEW p \in Procs, ClearAndExit(p)
    PROVE  IInv'
  <1>0. /\ TypeOK /\ Phased /\ Waits /\ NoLostWakeup /\ NoCheckFails /\ Succession /\ ProcessAt(p)
        /\ OneProcessSchedules
    BY Processes, Zenon DEF IInv
  <1>1. /\ pc[Main(p)] = <<"clear">>
        /\ fault' = (fault \/ \E n \in Notifs : Len(n) = 3 /\ n[1] = p /\ notified[n] = "kWaiter")
        /\ agents' = [agents EXCEPT ![p] = {}]
        /\ pc' = [pc EXCEPT ![Main(p)] = <<"exited">>, ![RpcThread(p)] = <<"gone">>]
        /\ phase' = [phase EXCEPT ![RpcThread(p)] = Running]
        /\ UNCHANGED <<notified, is_online, online, agentOn, stale, cvars>>
    BY Zenon DEF ClearAndExit
  <1>2. /\ Main(p) \in Threads /\ RpcThread(p) \in Threads /\ Main(p) # RpcThread(p)
        /\ Main(p)[1] = p /\ RpcThread(p)[1] = p
        /\ \A q \in Procs : q # p => Main(q) \notin {Main(p), RpcThread(p)}
        /\ \A q \in Procs : Main(q) # RpcThread(p)
        /\ \A q \in Procs, c \in Cpus \cup Clients : <<q, c>> \notin {Main(p), RpcThread(p)}
        /\ Parent(p) \notin {Main(p), RpcThread(p)}
    BY ThreadIds, ProcessAssumption, ZenonT(60) DEF Main, RpcThread, Parent
  <1>3. /\ pc' \in [Threads -> Places] /\ pc'[Main(p)] = <<"exited">>
        /\ pc'[RpcThread(p)] = <<"gone">>
        /\ \A u \in Threads : u \notin {Main(p), RpcThread(p)} => pc'[u] = pc[u]
    BY <1>0, <1>1, <1>2, ZenonT(60) DEF TypeOK, Places, Labels
  <1>4. /\ phase' \in [Threads -> Phases] /\ phase'[RpcThread(p)] = Running
        /\ \A u \in Threads : u # RpcThread(p) => phase'[u] = phase[u]
    BY <1>0, <1>1, <1>2 DEF TypeOK, Phases
  <1>5. /\ pc[Main(p)][1] = "clear" /\ pc'[Main(p)][1] = "exited"
        /\ pc'[RpcThread(p)][1] = "gone"
    <2>1. /\ pc[Main(p)] = <<"clear">> /\ pc'[Main(p)] = <<"exited">>
          /\ pc'[RpcThread(p)] = <<"gone">>
      BY <1>1, <1>3, Zenon
    <2> QED  BY ONLY <2>1
  <1>6. phase[Main(p)] = Running
    BY <1>0, <1>2, <1>5, NotInside DEF Names
  <1>7. mutex[p] = None /\ \A k \in Clients : mutex[p] # k /\ phase[<<p, k>>] = Running
    <2>1. ASSUME NEW k \in Clients  PROVE mutex[p] # k /\ phase[<<p, k>>] = Running
      <3>1. CallAt(p, k) /\ ParentAt(p) /\ MutualAt(p, k)
        BY <1>0, Zenon DEF ProcessAt
      <3>2. mutex[p] # k
        BY ONLY <1>5, <3>1 DEF CallAt, ParentAt, ParentOK, EndLabels
      <3>3. pc[<<p, k>>][1] \notin Names
        BY ONLY <3>1, <3>2 DEF MutualAt, Names
      <3> QED  BY <1>0, <3>2, <3>3, ThreadIds, NotInside
    <2> QED  BY <1>0, <2>1, ZenonT(60) DEF TypeOK
  <1>8. /\ notified[<<p, "rpc_pending_">>] # "kNotified"
        /\ notified[<<p, "rpc_done_">>] # "kNotified"
        /\ pc[RpcThread(p)][1] \in {"none", "rpc_pending_", "gone", "rpc_done_"}
    <2>1. QuietAt(p)
      BY <1>0, Zenon DEF ProcessAt
    <2> QED  BY ONLY <1>7, <2>1 DEF QuietAt, Quiet, Rests
  <1>9. Core'
    <2>1. Phased'
      <3>1. ASSUME NEW u \in Threads, phase'[u] # Running
            PROVE  pc'[u] = pc[u] /\ phase'[u] = phase[u]
        BY <1>3, <1>4, <1>6, <3>1, Zenon
      <3> QED  BY <1>0, <3>1, ThreadIds, Zenon DEF Phased
    <2>2. \A a \in {"calling", "asleep", "waking"} : \A m : phase'[RpcThread(p)] # <<a, m>>
      BY ONLY <1>4 DEF Running
    <2>3. Waits'
      BY <1>0, <1>1, <1>4, <2>2, Zenon DEF Waits
    <2>4. NoLostWakeup'
      <3> SUFFICES ASSUME NEW u \in Threads, NEW m \in Notifs, phase'[u] = <<"asleep", m>>
                   PROVE  \/ notified'[m] = "kWaiter"
                          \/ \E v \in Threads : phase'[v] = <<"waking", m>>
        BY Zenon DEF NoLostWakeup
      <3>1. u # RpcThread(p) /\ phase[u] = <<"asleep", m>> /\ notified' = notified
        BY <1>1, <1>4, <2>2, Zenon
      <3>2. \/ notified[m] = "kWaiter"
            \/ \E v \in Threads : phase[v] = <<"waking", m>>
        BY <1>0, <3>1, Zenon DEF NoLostWakeup
      <3>3. phase[RpcThread(p)] # <<"waking", m>>
        <4> SUFFICES ASSUME phase[RpcThread(p)] = <<"waking", m>>  PROVE FALSE
          OBVIOUS
        <4>1. /\ phase[RpcThread(p)] # Running /\ phase[RpcThread(p)][2] = m
              /\ phase[u] # Running /\ phase[u][2] = m
          BY ONLY <3>1, phase[RpcThread(p)] = <<"waking", m>> DEF Running
        <4>2. m[1] = p /\ m[2] = pc[RpcThread(p)][1] /\ u[1] = p
          <5>1. \A th \in Threads :
                  phase[th] # Running => phase[th][2][1] = th[1] /\ phase[th][2][2] = pc[th][1]
            BY <1>0, Zenon DEF Phased
          <5>2. RpcThread(p) \in Threads /\ RpcThread(p)[1] = p
            BY <1>2
          <5>3. m[1] = RpcThread(p)[1] /\ m[2] = pc[RpcThread(p)][1]
            BY ONLY <4>1, <5>1, <5>2
          <5>4. m[1] = u[1]
            BY ONLY <4>1, <5>1, u \in Threads
          <5> QED  BY ONLY <5>2, <5>3, <5>4
        <4>3. m[2] \in {"rpc_pending_", "rpc_done_"}
          BY <1>8, <4>2, NotifFacts DEF Names
        <4>4. u[2] = "rpc" \/ u[2] \in Clients
          BY <1>0, <3>1, <4>3, ZenonT(60) DEF Waits
        <4>5. u = <<p, u[2]>>
          BY <4>2 DEF Threads
        <4> QED  BY <1>7, <3>1, <4>1, <4>4, <4>5, ZenonT(60) DEF RpcThread
      <3> QED  BY <1>4, <3>1, <3>2, <3>3, Zenon
    <2>5. notified' \in [Notifs -> NotifiedState]
      BY <1>0, <1>1 DEF TypeOK
    <2> QED  BY <1>3, <1>4, <2>1, <2>3, <2>4, <2>5, Zenon DEF Core
  <1>10. fault' = FALSE
    <2>1. ASSUME NEW n \in Notifs, Len(n) = 3, n[1] = p  PROVE notified[n] # "kWaiter"
      <3>1. PICK a \in {"ready_", "enclave_ready_", "finished_", "do_exit_"}, c \in Cpus :
              n = <<p, a, c>>
        BY <2>1 DEF Notifs
      <3>2. PICK i \in 1 .. Last : CpuList[i] = c
        BY CpuFacts, Zenon
      <3>3. ReadyAt(p, i) /\ SignalAt(p, i)
        BY <1>0, Zenon DEF ProcessAt
      <3>4. notified[<<p, a, CpuList[i]>>] = "kNotified"
        BY ONLY <1>5, <3>3, a \in {"ready_", "enclave_ready_", "finished_", "do_exit_"}, ZenonT(60)
        DEF ReadyAt, ReadyOK, SignalAt, EnclaveReadyOK, FinishedOK, DoExitOK, EndLabels,
            TurnLabels, ServeLabels
      <3> QED  BY <3>1, <3>2, <3>4
    <2> QED  BY <1>0, <1>1, <2>1, Zenon DEF NoCheckFails
  <1>11. /\ agents' \in [Procs -> SUBSET Cpus] /\ agents'[p] = {}
         /\ \A q \in Procs : q # p => agents'[q] = agents[q]
    BY <1>0, <1>1 DEF TypeOK
  <1>12. UNCHANGED <<mutex, rpc_req, rpc_res, calls>>
    BY <1>1, Zenon DEF cvars
  <1>13. TypeOK' /\ NoCheckFails'
    <2>1. fault' \in BOOLEAN
      BY <1>10, ZenonT(60)
    <2> QED  BY ONLY <1>0, <1>1, <1>9, <1>10, <1>11, <1>12, <2>1, Zenon
             DEF TypeOK, NoCheckFails, Core, Places

  <1>14. /\ \A q \in Procs : q # p => pc'[Main(q)] = pc[Main(q)]
         /\ \A q \in Procs, c \in Cpus \cup Clients :
              pc'[<<q, c>>] = pc[<<q, c>>] /\ phase'[<<q, c>>] = phase[<<q, c>>]
         /\ pc'[Parent(p)] = pc[Parent(p)] /\ phase'[Parent(p)] = phase[Parent(p)]
    BY <1>2, <1>3, <1>4, ThreadIds, Zenon
  <1>15. ProcessAt(p)'
    <2>1. ShapeAt(p)'
      BY <1>3, ZenonT(60) DEF ShapeAt, Labels, LoopLabels
    <2>2. ParentAt(p)'
      <3>1. ParentAt(p)
        BY <1>0, ZenonT(60) DEF ProcessAt
      <3> QED  BY ONLY <1>1, <1>5, <1>14, <3>1, ZenonT(60) DEF ParentAt, ParentOK, EndLabels
    <2>3. ServingAt(p)'
      <3>1. ServingAt(p)
        BY <1>0, ZenonT(60) DEF ProcessAt
      <3> QED  BY ONLY <1>1, <1>5, <3>1 DEF ServingAt, StartLabels, ServeLabels
    <2>4. QuietAt(p)'
      BY ONLY <1>1, <1>5, <1>8 DEF QuietAt, Quiet, Rests
    <2>5. ASSUME NEW k \in Clients  PROVE MutualAt(p, k)' /\ CallAt(p, k)'
      BY <1>0, <1>7, <1>12, <1>14, ZenonT(60) DEF ProcessAt, MutualAt, CallAt
    <2>6. ASSUME NEW c \in Cpus  PROVE AgentAt(p, c)'
      <3>1. AgentAt(p, c) /\ pc'[<<p, c>>] = pc[<<p, c>>]
        BY <1>0, <1>14, Zenon DEF ProcessAt
      <3> QED  BY ONLY <1>5, <1>11, <3>1 DEF AgentAt, AgentOK, ServeLabels, EndLabels
    <2>7. ASSUME NEW i \in 1 .. Last  PROVE ReadyAt(p, i)' /\ SignalAt(p, i)'
      <3>1. /\ ReadyAt(p, i) /\ pc'[<<p, CpuList[i]>>] = pc[<<p, CpuList[i]>>]
            /\ phase'[<<p, CpuList[i]>>] = phase[<<p, CpuList[i]>>]
        BY <1>0, <1>14, CpuFacts, ZenonT(60) DEF ProcessAt
      <3>2. ReadyAt(p, i)'
        BY ONLY <1>1, <1>5, <3>1, Zenon DEF ReadyAt, ReadyOK, ServeLabels, EndLabels
      <3>3. SignalAt(p, i)'
        BY ONLY <1>5, ZenonT(60) DEF SignalAt, EnclaveReadyOK, FinishedOK, DoExitOK
      <3> QED  BY <3>2, <3>3
    <2> QED  BY <2>1, <2>2, <2>3, <2>4, <2>5, <2>6, <2>7, Zenon DEF ProcessAt
  <1>16. KeptBut(p) /\ \A q \in Procs : q # p => KeptVars(q)
    BY <1>1, <1>2, <1>3, <1>4, <1>11, <1>12, ZenonT(60) DEF KeptBut, KeptVars
  <1>17. online # p
    BY <1>0, <1>5 DEF Succession, ServeLabels
  <1>18. Succession'
    <2>1. /\ pc'[Main(p)][1] \notin StartLabels /\ online' = online
          /\ \A q \in Procs, c \in Cpus : pc'[<<q, c>>] = pc[<<q, c>>]
      BY <1>1, <1>5, <1>14, ZenonT(60) DEF StartLabels
    <2> QED  BY ONLY <1>0, <1>14, <1>17, <2>1, ZenonT(60) DEF Succession
  <1>19. OneProcessSchedules'
    <2>1. online # None => pc'[Main(online)] = pc[Main(online)]
      BY <1>0, <1>14, <1>17 DEF TypeOK
    <2> QED  BY ONLY <1>0, <1>1, <2>1, Zenon DEF OneProcessSchedules
  <1> QED  BY <1>9, <1>13, <1>15, <1>16, <1>18, <1>19, ProcessFrame, Zenon

-----------------------------------------------------------------------------
(* The theorems. *)

\* The invariant holds before the first process is started.
LEMMA InitIInv ==
    ASSUME Init
    PROVE  IInv
  <1>0. /\ notified = [n \in Notifs |-> "kNoWaiter"] /\ phase = [th \in Threads |-> Running]
        /\ pc = [th \in Threads |-> IF th[2] \in {"parent"} \cup Clients THEN <<"idle">>
                                                                         ELSE <<"none">>]
        /\ fault = FALSE /\ online = None
        /\ is_online = [p \in Procs |-> FALSE]
        /\ agents = [p \in Procs |-> {}] /\ agentOn = [c \in Cpus |-> None]
        /\ stale = [a \in Procs \X Cpus |-> FALSE]
        /\ mutex = [p \in Procs |-> None]
        /\ rpc_req = [p \in Procs |-> NoCall] /\ rpc_res = [p \in Procs |-> NoCall]
        /\ calls = [p \in Procs |-> 0]
    BY Zenon DEF Init
  <1>1. TypeOK
    <2>1. notified \in [Notifs -> NotifiedState] /\ phase \in [Threads -> Phases]
      BY <1>0, ZenonT(60) DEF NotifiedState, Phases
    <2>2. pc \in [Threads -> {<<l>> : l \in Labels} \cup (LoopLabels \X (1 .. Last))]
      <3>1. /\ <<"idle">> \in {<<l>> : l \in Labels} \cup (LoopLabels \X (1 .. Last))
            /\ <<"none">> \in {<<l>> : l \in Labels} \cup (LoopLabels \X (1 .. Last))
        BY DEF Labels
      <3> HIDE DEF Labels, LoopLabels
      <3> QED  BY <1>0, <3>1, ZenonT(60)
    <2>3. /\ fault \in BOOLEAN /\ online \in Procs \cup {None}
          /\ is_online \in [Procs -> BOOLEAN] /\ agents \in [Procs -> SUBSET Cpus]
          /\ agentOn \in [Cpus -> Procs \cup {None}] /\ stale \in [Procs \X Cpus -> BOOLEAN]
          /\ mutex \in [Procs -> Clients \cup {None}] /\ calls \in [Procs -> Nat]
      BY <1>0, ZenonT(60)
    <2>4. /\ rpc_req \in [Procs -> (Clients \X (Nat \ {0})) \cup {NoCall}]
          /\ rpc_res \in [Procs -> (Clients \X (Nat \ {0})) \cup {NoCall, ENODEV}]
      BY <1>0
    <2> QED  BY <2>1, <2>2, <2>3, <2>4, Zenon DEF TypeOK
  <1>2. /\ \A th \in Threads : phase[th] = Running
        /\ \A n \in Notifs : notified[n] = "kNoWaiter"
    BY <1>0, Zenon
  <1>3. Phased /\ Waits /\ NoLostWakeup /\ NoCheckFails
    <2>1. \A a \in {"calling", "asleep", "waking"} : \A m : Running # <<a, m>>
      BY DEF Running
    <2> QED  BY <1>0, <1>2, <2>1, ThreadIds, Zenon DEF Phased, Waits, NoLostWakeup, NoCheckFails
  <1>4. /\ \A p \in Procs : /\ pc[Main(p)] = <<"none">> /\ pc[RpcThread(p)] = <<"none">>
                            /\ pc[Parent(p)] = <<"idle">>
        /\ \A p \in Procs, c \in Cpus : pc[<<p, c>>] = <<"none">>
        /\ \A p \in Procs, k \in Clients : pc[<<p, k>>] = <<"idle">>
    <2>1. /\ \A p : Main(p)[2] = "main" /\ RpcThread(p)[2] = "rpc" /\ Parent(p)[2] = "parent"
          /\ \A p, c : <<p, c>>[2] = c
      BY DEF Main, RpcThread, Parent
    <2>2. /\ "main" \notin {"parent"} \cup Clients /\ "rpc" \notin {"parent"} \cup Clients
          /\ \A c \in Cpus : c \notin {"parent"} \cup Clients
      BY ProcessAssumption
    <2> QED  BY <1>0, <2>1, <2>2, ThreadIds
  <1>5. ASSUME NEW p \in Procs  PROVE ProcessAt(p)
    <2>1. /\ pc[Main(p)][1] = "none" /\ pc[RpcThread(p)][1] = "none" /\ pc[Parent(p)][1] = "idle"
          /\ \A c \in Cpus : pc[<<p, c>>][1] = "none"
          /\ \A k \in Clients : pc[<<p, k>>][1] = "idle"
      BY <1>4
    <2>2. /\ \A a \in {"agent_ready_", "kill_agent_", "rpc_pending_", "rpc_done_"} :
               notified[<<p, a>>] # "kNotified"
          /\ \A a \in {"ready_", "enclave_ready_", "finished_", "do_exit_"}, c \in Cpus :
               notified[<<p, a, c>>] # "kNotified"
      <3>1. \A n \in Notifs : notified[n] # "kNotified"
        BY <1>2
      <3>2. /\ \A a \in {"agent_ready_", "kill_agent_", "rpc_pending_", "rpc_done_"} :
                 <<p, a>> \in Notifs
            /\ \A a \in {"ready_", "enclave_ready_", "finished_", "do_exit_"}, c \in Cpus :
                 <<p, a, c>> \in Notifs
        BY Zenon DEF Notifs
      <3> QED  BY <3>1, <3>2, Zenon
    <2>3. is_online[p] = FALSE /\ agents[p] = {} /\ mutex[p] = None /\ None \notin Clients
      BY <1>0, ProcessAssumption
    <2>4. ShapeAt(p)
      BY <1>4 DEF ShapeAt, Labels, LoopLabels
    <2>5. ParentAt(p)
      BY ONLY <2>1, <2>2 DEF ParentAt, ParentOK, EndLabels
    <2>6. ServingAt(p) /\ QuietAt(p)
      BY ONLY <2>1, <2>2, <2>3, ZenonT(60) DEF ServingAt, QuietAt, Quiet, Rests, ServeLabels
    <2>7. ASSUME NEW k \in Clients  PROVE MutualAt(p, k) /\ CallAt(p, k)
      BY ONLY <2>1, <2>3, k \in Clients, ZenonT(60) DEF MutualAt, CallAt
    <2>8. ASSUME NEW c \in Cpus  PROVE AgentAt(p, c)
      BY ONLY <2>1, <2>3, c \in Cpus, ZenonT(60) DEF AgentAt, AgentOK, ServeLabels, EndLabels
    <2>9. ASSUME NEW i \in 1 .. Last  PROVE ReadyAt(p, i) /\ SignalAt(p, i)
      <3>1. /\ CpuList[i] \in Cpus /\ pc[<<p, CpuList[i]>>][1] = "none"
            /\ \A a \in {"ready_", "enclave_ready_", "finished_", "do_exit_"} :
                 notified[<<p, a, CpuList[i]>>] # "kNotified"
        BY <2>1, <2>2, CpuFacts, ZenonT(60)
      <3> QED  BY ONLY <2>1, <3>1
               DEF ReadyAt, ReadyOK, SignalAt, EnclaveReadyOK, FinishedOK, DoExitOK,
                   ServeLabels, EndLabels, TurnLabels
    <2> QED  BY <2>4, <2>5, <2>6, <2>7, <2>8, <2>9, Zenon DEF ProcessAt
  <1>6. Succession /\ OneProcessSchedules
    <2>1. None \notin Procs /\ \A p \in Procs : pc[Main(p)][1] \notin StartLabels
      BY <1>4, ProcessAssumption DEF StartLabels
    <2> QED  BY <1>0, <2>1, Zenon DEF Succession, OneProcessSchedules
  <1> QED  BY <1>1, <1>3, <1>5, <1>6, Processes, Zenon DEF IInv

\* Every step of every thread preserves the invariant.
LEMMA StepIInv ==
    ASSUME IInv, [Next]_vars
    PROVE  IInv'
  <1>1. ASSUME NEW p \in Procs, ParentNext(p)  PROVE IInv'
    BY <1>1, AwaitAgentReadyStep, KillAgentStep, WaitForChildExitStep, NotifyRpcPendingStep,
       AwaitRpcDoneStep, ResetRpcDoneStep, RpcReturnsStep, Zenon DEF ParentNext
  <1>2. ASSUME NEW p \in Procs, MainNext(p)  PROVE IInv'
    BY <1>2, StartAgentTasksStep, StartCompleteStep, ReadyLockWhenStep, EnclaveReadyStep,
       AdvertiseOnlineStep, NotifyAgentReadyStep, AwaitKillAgentStep, PrepareToExitStep,
       NotifyFinishedStep, PingStep, NotifyDoExitStep, TerminateCompleteStep,
       ClearAndExitStep, Zenon DEF MainNext
  <1>3. ASSUME NEW p \in Procs, NEW c \in Cpus, AgentNext(p, c)  PROVE IInv'
    BY <1>3, WaitForOldAgentStep, EnterGhostStep, SignalReadyStep, AgentWaitStep,
       TestFinishedStep, LoopStep, Zenon DEF AgentNext
  <1>4. ASSUME NEW p \in Procs, Program(p)  PROVE IInv'
    BY <1>1, <1>2, <1>3, <1>4, RpcStep, CloseAgentOnlineStep, AgentDeadStep, Zenon DEF Program
  <1>5. ASSUME NEW p \in Procs,
               Fork(p) \/ Destroy(p) \/ Crash(p) \/ \E k \in Clients : PerformRpc(p, k)
        PROVE  IInv'
    BY <1>5, ForkStep, DestroyStep, CrashStep, PerformRpcStep, Zenon
  <1>6. CASE UNCHANGED vars
    <2>1. UNCHANGED <<notified, phase, pc, fault, is_online, online, agents, agentOn, stale,
                      mutex, rpc_req, rpc_res, calls>>
      BY <1>6, Zenon DEF vars, evars, cvars
    <2>2. TypeOK' /\ Shapes' /\ Phased' /\ Waits' /\ NoLostWakeup' /\ NoCheckFails'
      BY <2>1, ZenonT(60) DEF IInv, TypeOK, Shapes, ShapeAt, Phased, Waits, NoLostWakeup, NoCheckFails
    <2>3. Mutual' /\ Parents' /\ Manned' /\ Readies' /\ Signals'
      BY <2>1, Zenon DEF IInv, Mutual, MutualAt, Parents, ParentAt, Manned, AgentAt, Readies,
                         ReadyAt, Signals, SignalAt
    <2>4. Calls'
      <3> SUFFICES ASSUME NEW p \in Procs
                   PROVE  ServingAt(p)' /\ QuietAt(p)' /\ \A k \in Clients : CallAt(p, k)'
        BY Zenon DEF Calls
      <3>1. ServingAt(p) /\ QuietAt(p) /\ \A k \in Clients : CallAt(p, k)
        BY Zenon DEF IInv, Calls
      <3>2. ServingAt(p)' /\ QuietAt(p)'
        BY ONLY <2>1, <3>1, Zenon DEF ServingAt, QuietAt
      <3>3. \A k \in Clients : CallAt(p, k)'
        BY ONLY <2>1, <3>1, ZenonT(60) DEF CallAt
      <3> QED  BY <3>2, <3>3
    <2>5. Succession' /\ OneProcessSchedules'
      BY <2>1 DEF IInv, Succession, OneProcessSchedules
    <2> QED  BY <2>2, <2>3, <2>4, <2>5, Zenon DEF IInv
  <1> QED  BY <1>4, <1>5, <1>6, SpuriousStep, Zenon DEF Next, Interrupt

\* The conjuncts of IInv, for any number of processes, cpus, clients and calls, with
\* crashes or without: where the threads of a process are relative to each other, which of
\* its notifications were posted, which call is under way, and who is online.
THEOREM Inductive == Spec => []IInv
  <1>1. Init => IInv
    BY InitIInv
  <1>2. IInv /\ [Next]_vars => IInv'
    BY StepIInv
  <1> QED  BY <1>1, <1>2, PTL DEF Spec

\* Every variable keeps its type: the threads' places and what each does inside a
\* Notification, agents_, agent_online and the shared memory of the RPCs.
THEOREM TypeCorrect == Spec => []TypeOK
  <1>1. IInv => TypeOK
    BY Zenon DEF IInv
  <1> QED  BY <1>1, Inductive, PTL

\* No thread sleeps in Futex::Wait without a wakeup to come, although rpc_pending_ and
\* rpc_done_ are Reset and used again, the process may exit while its RPC thread is inside
\* Notify, and sleeping threads may wake up without a cause.
THEOREM NoLostWakeupHolds == Spec => []NoLostWakeup
  <1>1. IInv => NoLostWakeup
    BY Zenon DEF IInv
  <1> QED  BY <1>1, Inductive, PTL

\* No CHECK fails: no notification is posted twice or destroyed with a waiter, and
\* AdvertiseOnline always finds agent_online closed, whoever crashed before.
THEOREM NoCheckFailsHolds == Spec => []NoCheckFails
  <1>1. IInv => NoCheckFails
    BY Zenon DEF IInv
  <1> QED  BY <1>1, Inductive, PTL

\* The client that has seen rpc_done_ posted finds the answer to its own request in shared
\* memory, whatever other clients are about to call.
THEOREM RpcAnswersItsCallerHolds == Spec => []RpcAnswersItsCaller
  <1>1. IInv => RpcAnswersItsCaller
    <2> SUFFICES ASSUME IInv, NEW p \in Procs, NEW k \in Clients,
                        pc[<<p, k>>] \in {<<"reset">>, <<"return">>}
                 PROVE  rpc_res[p] = rpc_req[p] /\ rpc_req[p][1] = k
      BY Zenon DEF RpcAnswersItsCaller
    <2>1. MutualAt(p, k) /\ CallAt(p, k)
      BY Zenon DEF IInv, Mutual, Calls
    <2>2. pc[<<p, k>>][1] \in {"reset", "return"}
      OBVIOUS
    <2> QED  BY ONLY <2>1, <2>2, ZenonT(60) DEF MutualAt, CallAt, CallOK, Answered
  <1> QED  BY <1>1, Inductive, PTL

\* Two processes never schedule the enclave's cpus at the same time, and one that is online
\* has an agent on every cpu until it is told to exit or killed.
THEOREM OneProcessSchedulesHolds == Spec => []OneProcessSchedules
  <1>1. IInv => OneProcessSchedules
    BY Zenon DEF IInv
  <1> QED  BY <1>1, Inductive, PTL
=============================================================================
