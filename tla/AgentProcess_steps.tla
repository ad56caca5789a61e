------------------------- MODULE AgentProcess_steps -------------------------
(***************************************************************************)
(* The inductive invariant of AgentProcess, what the operations of         *)
(* Notification do to it, and that it is preserved by the steps of the RPC *)
(* threads, of the clients and parents that call them, by a process that   *)
(* is forked, crashes or is gone, by the kernel's own steps, and by the    *)
(* agents.  The parts that speak of one process are predicates on the      *)
(* labels of its threads, on whether those threads are inside an           *)
(* operation, and on whether a notification was posted.                    *)
(***************************************************************************)
EXTENDS AgentProcess, TLAPS

\* The main thread's labels, in the order it passes them.
StartLabels == {"start", "ready_", "attached", "enclave_ready_", "online"}
ServeLabels == {"agent_ready_", "kill_agent_", "prepare"}
EndLabels == {"finished_", "ping", "do_exit_", "join", "clear"}
TurnLabels == {"finished_", "ping", "do_exit_"}

\* The main thread's place has an index in its loops only.
ShapeAt(p) ==
    pc[Main(p)] \in {<<l>> : l \in Labels \ LoopLabels} \cup (LoopLabels \X (1 .. Last))

Shapes == \A p \in Procs : ShapeAt(p)

\* A thread inside an operation on a notification is at the label named for it; the
\* main thread, in a loop, on the notification of the agent it is at.
Phased ==
    /\ \A th \in Threads :
         phase[th] # Running => phase[th][2][1] = th[1] /\ phase[th][2][2] = pc[th][1]
    /\ \A p \in Procs :
         phase[Main(p)] # Running /\ pc[Main(p)][1] \in LoopLabels
           => phase[Main(p)][2] = <<p, pc[Main(p)][1], CpuList[pc[Main(p)][2]]>>

\* A thread inside Wait saw to it that the word is not kNoWaiter; only the RPC thread
\* waits for requests, only clients wait for answers.
Waits == \A th \in Threads, n \in Notifs :
    phase[th] \in {<<"calling", n>>, <<"asleep", n>>}
      => /\ notified[n] # "kNoWaiter"
         /\ n[2] = "rpc_pending_" => th[2] = "rpc"
         /\ n[2] = "rpc_done_" => th[2] \in Clients

\* rpc_mutex_ is held by the client that is inside Rpc.
MutualAt(p, k) == pc[<<p, k>>][1] \in {"idle", "gone"} <=> mutex[p] # k

Mutual == \A p \in Procs, k \in Clients : MutualAt(p, k)

\* The parent and the main thread, at pl and ml, inside an operation if pb, mb.
ParentOK(pl, pb, ml, mb, ready, kill) ==
    /\ pl = "idle" => ml = "none"
    /\ ready => \/ ml \in {"kill_agent_", "prepare", "exited"} \cup EndLabels
                \/ ml = "agent_ready_" /\ mb
    /\ kill => pl \in {"reap", "done"} \/ (pl = "kill_agent_" /\ pb)
    /\ pl = "up" => ml \in {"agent_ready_", "kill_agent_"}
    /\ ml \in {"prepare", "exited"} \cup EndLabels => pl \in {"kill_agent_", "reap", "done"}

ParentAt(p) ==
    ParentOK(pc[Parent(p)][1], phase[Parent(p)] # Running,
             pc[Main(p)][1], phase[Main(p)] # Running,
             notified[<<p, "agent_ready_">>] = "kNotified",
             notified[<<p, "kill_agent_">>] = "kNotified")

Parents == \A p \in Procs : ParentAt(p)

\* The agent of a cpu, at al: started by the main thread, attached or not, on its cpu.
AgentOK(ml, al, attached, on) ==
    /\ al = "none" <=> ml \in {"none", "start"}
    /\ al \in {"none", "old", "edge", "enter"} => ~attached
    /\ al \in {"old", "edge", "enter"} => ml \in {"ready_", "attached"}
    /\ attached => on \/ al = "gone"
    /\ al \in {"do_exit_", "gone"} => ml \in EndLabels \cup {"exited", "gone"}
    /\ ml \in {"enclave_ready_", "online"} \cup ServeLabels \cup EndLabels => attached

AgentAt(p, c) == AgentOK(pc[Main(p)][1], pc[<<p, c>>][1], c \in agents[p], agentOn[c] = p)

Manned == \A p \in Procs, c \in Cpus : AgentAt(p, c)

\* The notifications of the i-th agent, and the main thread, at ml, in a loop at the
\* j-th agent: posted once, where the code posts them.
ReadyOK(ml, j, i, al, ab, posted) ==
    /\ posted => \/ al \notin {"none", "old", "edge", "enter", "ready_"}
                 \/ al = "ready_" /\ ab
    /\ al = "ready_" /\ ab => posted
    /\ ml = "ready_" /\ i < j => posted
    /\ ml \in {"attached", "enclave_ready_", "online"} \cup ServeLabels \cup EndLabels => posted

EnclaveReadyOK(ml, mb, j, i, posted) ==
    \/ ml = "exited"
    \/ posted <=> \/ ml = "enclave_ready_" /\ (i < j \/ (i = j /\ mb))
                  \/ ml \in {"online"} \cup ServeLabels \cup EndLabels

FinishedOK(ml, mb, j, i, posted) ==
    \/ ml = "exited"
    \/ posted <=> \/ ml \in TurnLabels /\ i < j
                  \/ ml \in {"ping", "do_exit_"} /\ i = j
                  \/ ml = "finished_" /\ i = j /\ mb
                  \/ ml \in {"join", "clear"}

DoExitOK(ml, mb, j, i, posted) ==
    \/ ml = "exited"
    \/ posted <=> \/ ml \in TurnLabels /\ i < j
                  \/ ml = "do_exit_" /\ i = j /\ mb
                  \/ ml \in {"join", "clear"}

ReadyAt(p, i) ==
    ReadyOK(pc[Main(p)][1], pc[Main(p)][2], i, pc[<<p, CpuList[i]>>][1],
            phase[<<p, CpuList[i]>>] # Running,
            notified[<<p, "ready_", CpuList[i]>>] = "kNotified")

Readies == \A p \in Procs, i \in 1 .. Last : ReadyAt(p, i)

SignalAt(p, i) ==
    /\ EnclaveReadyOK(pc[Main(p)][1], phase[Main(p)] # Running, pc[Main(p)][2], i,
                      notified[<<p, "enclave_ready_", CpuList[i]>>] = "kNotified")
    /\ FinishedOK(pc[Main(p)][1], phase[Main(p)] # Running, pc[Main(p)][2], i,
                  notified[<<p, "finished_", CpuList[i]>>] = "kNotified")
    /\ DoExitOK(pc[Main(p)][1], phase[Main(p)] # Running, pc[Main(p)][2], i,
                notified[<<p, "do_exit_", CpuList[i]>>] = "kNotified")

Signals == \A p \in Procs, i \in 1 .. Last : SignalAt(p, i)

\* The RPC thread, at rl, inside an operation if rb, has at most to return from Notify.
Rests(rl, rb) == rl \in {"none", "rpc_pending_", "gone"} \/ (rl = "rpc_done_" /\ rb)

\* rpc_pending_ and rpc_done_, posted or not: no call is under way; a request was posted
\* and is not taken; it is being handled; it is answered, and the answer is the right one.
Quiet(rl, rb, pending, done) == ~pending /\ ~done /\ Rests(rl, rb)
Asked(rl, rb, pending, done) == pending /\ ~done /\ (rl = "reset" \/ Rests(rl, rb))
Handled(rl, rb, pending, done, right) ==
    /\ ~pending /\ ~done
    /\ rl = "handle" \/ (rl = "rpc_done_" /\ ~rb /\ right)
Answered(rl, rb, pending, done, right) == ~pending /\ done /\ Rests(rl, rb) /\ right

\* The client inside Rpc is at cl, inside an operation if cb.
CallOK(cl, cb, rl, rb, pending, done, right) ==
    /\ cl = "rpc_pending_" /\ ~cb => Quiet(rl, rb, pending, done)
    /\ (cl = "rpc_pending_" /\ cb) \/ cl = "rpc_done_"
         => \/ Asked(rl, rb, pending, done)
            \/ Handled(rl, rb, pending, done, right)
            \/ Answered(rl, rb, pending, done, right)
    /\ cl = "reset" => Answered(rl, rb, pending, done, right)
    /\ cl = "return" => Quiet(rl, rb, pending, done) /\ right
    /\ cl \in {"rpc_pending_", "rpc_done_", "reset", "return"}

ServingAt(p) ==
    /\ is_online[p] <=> pc[Main(p)][1] \in ServeLabels
    /\ pc[RpcThread(p)][1] = "none" <=> pc[Main(p)][1] \in {"none"} \cup StartLabels
    /\ pc[Main(p)][1] = "exited" => pc[RpcThread(p)][1] = "gone"

QuietAt(p) ==
    mutex[p] = None => Quiet(pc[RpcThread(p)][1], phase[RpcThread(p)] # Running,
                             notified[<<p, "rpc_pending_">>] = "kNotified",
                             notified[<<p, "rpc_done_">>] = "kNotified")

CallAt(p, k) ==
    mutex[p] = k => /\ pc[Parent(p)][1] = "up" /\ rpc_req[p][1] = k
                    /\ CallOK(pc[<<p, k>>][1], phase[<<p, k>>] # Running,
                              pc[RpcThread(p)][1], phase[RpcThread(p)] # Running,
                              notified[<<p, "rpc_pending_">>] = "kNotified",
                              notified[<<p, "rpc_done_">>] = "kNotified",
                              rpc_res[p] = rpc_req[p])

Calls == \A p \in Procs : ServingAt(p) /\ QuietAt(p) /\ \A k \in Clients : CallAt(p, k)

\* One process starts at a time; once one of its agents is past WaitForOldAgent, nobody
\* is online.
Succession ==
    /\ \A p, q \in Procs :
         pc[Main(p)][1] \in StartLabels /\ pc[Main(q)][1] \in StartLabels => p = q
    /\ \A p \in Procs : online = p => pc[Main(p)][1] \in ServeLabels \cup {"gone"}
    /\ \A p \in Procs, c \in Cpus :
         pc[Main(p)][1] \in StartLabels /\ pc[<<p, c>>][1] \notin {"none", "old", "edge"}
           => online = None

IInv == /\ TypeOK /\ Shapes /\ Phased /\ Waits /\ NoLostWakeup /\ NoCheckFails
        /\ Mutual /\ Parents /\ Manned /\ Readies /\ Signals /\ Calls
        /\ Succession /\ OneProcessSchedules

-----------------------------------------------------------------------------
(* Cpus, threads and notifications. *)

\* The enclave's cpus are the elements of CpuList, each of them once.
LEMMA CpuFacts ==
    /\ Last \in Nat \ {0} /\ DOMAIN CpuList = 1 .. Last
    /\ \A i \in 1 .. Last : CpuList[i] \in Cpus
    /\ \A i, j \in 1 .. Last : CpuList[i] = CpuList[j] => i = j
    /\ \A c \in Cpus : \E i \in 1 .. Last : CpuList[i] = c
  BY ProcessAssumption DEF Cpus, Last

\* A loop over agents_ starts at the first agent.
LEMMA FirstAgent ==
    /\ 1 \in 1 .. Last /\ CpuList[1] \in Cpus /\ \A i \in 1 .. Last : ~(i < 1)
    /\ <<"ready_", 1>> \in LoopLabels \X (1 .. Last)
  BY CpuFacts DEF LoopLabels

\* The places of TerminateComplete.
LEMMA JoinPlaces ==
    /\ <<"clear">> \in {<<l>> : l \in Labels \ LoopLabels} /\ "join" \in LoopLabels
    /\ "join" \in EndLabels /\ "clear" \in EndLabels
    /\ \A i \in 1 .. Last : <<"join", i>> \in LoopLabels \X (1 .. Last)
  BY DEF Labels, LoopLabels, EndLabels

\* The threads of a process are different ones, and no other process's.
LEMMA ThreadFacts ==
    ASSUME NEW p \in Procs, NEW c \in Cpus \cup Clients
    PROVE  /\ Parent(p) \in Threads /\ Main(p) \in Threads /\ RpcThread(p) \in Threads
           /\ <<p, c>> \in Threads
           /\ Parent(p)[1] = p /\ Main(p)[1] = p /\ RpcThread(p)[1] = p
           /\ \A q \in Procs :
                /\ Parent(p) # Main(q) /\ Parent(p) # RpcThread(q) /\ Main(p) # RpcThread(q)
                /\ Main(p) # Parent(q) /\ RpcThread(p) # Parent(q) /\ RpcThread(p) # Main(q)
                /\ <<p, c>> \notin {Parent(q), Main(q), RpcThread(q)}
                /\ Parent(p) = Parent(q) => p = q
                /\ Main(p) = Main(q) => p = q
                /\ RpcThread(p) = RpcThread(q) => p = q
                /\ \A d \in Cpus \cup Clients : <<p, c>> = <<q, d>> => p = q /\ c = d
  BY ProcessAssumption DEF Threads, Parent, Main, RpcThread

\* The names of threads are threads.
LEMMA ThreadIds ==
    /\ \A p \in Procs : Parent(p) \in Threads /\ Main(p) \in Threads /\ RpcThread(p) \in Threads
    /\ \A p \in Procs, c \in Cpus \cup Clients : <<p, c>> \in Threads
  BY DEF Threads, Parent, Main, RpcThread

\* The labels at which a thread may be inside an operation.
Names == {"agent_ready_", "kill_agent_", "rpc_pending_", "rpc_done_",
          "ready_", "enclave_ready_", "finished_", "do_exit_"}

\* A notification belongs to a process, and has one of the names.
LEMMA NotifFacts ==
    ASSUME NEW n \in Notifs
    PROVE  n[1] \in Procs /\ n[2] \in Names
  BY DEF Notifs, Names

\* What a thread may be doing.
LEMMA PhaseFacts ==
    ASSUME TypeOK, NEW th \in Threads
    PROVE  \/ phase[th] = Running
           \/ /\ phase[th] # Running /\ phase[th][2] \in Notifs
              /\ phase[th][1] \in {"calling", "asleep", "waking"}
              /\ phase[th] = <<phase[th][1], phase[th][2]>>
  BY DEF TypeOK, Phases, Running

\* A thread that is at no notification's label is inside no operation.
LEMMA NotInside ==
    ASSUME TypeOK, Phased, NEW th \in Threads, pc[th][1] \notin Names
    PROVE  phase[th] = Running
  BY PhaseFacts, NotifFacts DEF Phased

-----------------------------------------------------------------------------
(* The operations of Notification. *)

Places == {<<l>> : l \in Labels} \cup (LoopLabels \X (1 .. Last))

\* The part of the invariant that speaks of notifications in general.
Core == /\ notified \in [Notifs -> NotifiedState] /\ phase \in [Threads -> Phases]
        /\ pc \in [Threads -> Places]
        /\ Phased /\ Waits /\ NoLostWakeup

\* Thread th calls an operation on its process's notification n where the label is n's.
Calling(th, n, from) ==
    /\ n[1] = th[1] /\ n[2] = from[1]
    /\ \A p \in Procs : th = Main(p) /\ from[1] \in LoopLabels
                          => n = <<p, from[1], CpuList[from[2]]>>

\* Nothing happens to other threads than th, but that they may be woken up, and no
\* notification is posted or reset but those of N.
Kept(th, N) ==
    /\ \A u \in Threads : u # th =>
         pc'[u] = pc[u] /\ (phase'[u] = Running <=> phase[u] = Running)
    /\ \A m \in Notifs : m \notin N =>
         (notified'[m] = "kNotified" <=> notified[m] = "kNotified")

\* What an operation comes to, apart from who sleeps and who is woken up.
WaitOutcome(th, n, from, to) ==
    /\ Kept(th, {}) /\ pc[th] = from
    /\ \/ pc'[th] = pc[th]
       \/ /\ pc'[th] = to /\ phase'[th] = Running
          /\ notified[n] = "kNotified"

NotifyOutcome(th, n, from, to) ==
    /\ Kept(th, {n})
    /\ \/ /\ pc[th] = from /\ phase[th] = Running /\ pc'[th] = pc[th] /\ phase'[th] # Running
          /\ notified'[n] = "kNotified"
       \/ /\ pc[th] = from /\ phase[th] = Running
          /\ pc'[th] = to /\ phase'[th] = Running
          /\ notified'[n] = "kNotified"
       \/ /\ pc[th][1] = from[1] /\ phase[th] # Running /\ phase[th][2] = n
          /\ pc'[th] = to /\ phase'[th] = Running
          /\ notified' = notified

ResetOutcome(th, n, from, to) ==
    /\ Kept(th, {n}) /\ notified'[n] = "kNoWaiter"
    /\ pc[th] = from /\ phase' = phase /\ phase[th] = Running
    /\ pc'[th] = to

StepOutcome(th, from, to) ==
    /\ Kept(th, {}) /\ phase[th] = Running /\ phase'[th] = Running
    /\ pc[th] = from /\ pc'[th] = to

\* Phases differ if the operation or the notification does.
LEMMA PhasesApart ==
    ASSUME NEW n, NEW m
    PROVE  /\ \A a, b \in {"calling", "asleep", "waking"} :
                <<a, n>> = <<b, m>> <=> a = b /\ n = m
           /\ \A a \in {"calling", "asleep", "waking"} :
                <<a, n>> # Running /\ <<a, n>>[1] = a /\ <<a, n>>[2] = n
  BY DEF Running

\* WaitForNotification: the thread moves on only if the notification was posted.
LEMMA WaitStep ==
    ASSUME TypeOK, Phased, Waits, NoLostWakeup, NoCheckFails,
           NEW th \in Threads, NEW n \in Notifs, NEW from, NEW to \in Places,
           Calling(th, n, from),
           n[2] = "rpc_pending_" => th[2] = "rpc",
           n[2] = "rpc_done_" => th[2] \in Clients,
           WaitForNotification(th, n, from, to)
    PROVE  Core' /\ fault' = FALSE /\ WaitOutcome(th, n, from, to)
  <1>0. /\ notified \in [Notifs -> NotifiedState] /\ phase \in [Threads -> Phases]
        /\ pc \in [Threads -> Places]
    BY DEF TypeOK, Places
  <1>g. pc' = [pc EXCEPT ![th] = to] => pc'[th] = to
    BY <1>0
  <1>1. pc[th] = from /\ fault' = FALSE
    BY DEF WaitForNotification, TypeOK, NoCheckFails
  <1>2. ASSUME phase[th] = Running, notified[n] = "kNotified",
               pc' = [pc EXCEPT ![th] = to], UNCHANGED <<notified, phase>>
        PROVE  Core' /\ Kept(th, {}) /\ phase'[th] = Running
    <2>1. Phased'
      BY <1>0, <1>2 DEF Phased
    <2>2. Waits' /\ NoLostWakeup'
      BY <1>2, ZenonT(60) DEF Waits, NoLostWakeup
    <2> QED  BY <1>0, <1>2, <2>1, <2>2 DEF Core, Kept
  <1>3. ASSUME phase[th] = Running, notified[n] # "kNotified", pc' = pc,
               notified' = [notified EXCEPT ![n] = "kWaiter"],
               phase' = [phase EXCEPT ![th] = <<"calling", n>>]
        PROVE  Core' /\ Kept(th, {})
    <2>1. /\ phase'[th] = <<"calling", n>> /\ \A u \in Threads : u # th => phase'[u] = phase[u]
          /\ notified'[n] = "kWaiter" /\ \A m \in Notifs : m # n => notified'[m] = notified[m]
          /\ phase' \in [Threads -> Phases] /\ notified' \in [Notifs -> NotifiedState]
      BY <1>0, <1>3 DEF Phases, NotifiedState
    <2>2. Phased'
      BY <1>1, <1>3, <2>1, PhasesApart DEF Phased, Calling
    <2>3. Waits'
      BY <1>3, <2>1, PhasesApart DEF Waits
    <2>4. NoLostWakeup'
      BY <1>3, <2>1, PhasesApart DEF NoLostWakeup
    <2> QED  BY <1>0, <1>3, <2>1, <2>2, <2>3, <2>4 DEF Core, Kept
  <1>4. ASSUME phase[th] = <<"calling", n>>, notified[n] = "kWaiter",
               phase' = [phase EXCEPT ![th] = <<"asleep", n>>], UNCHANGED <<notified, pc>>
        PROVE  Core' /\ Kept(th, {})
    <2>1. /\ phase'[th] = <<"asleep", n>> /\ \A u \in Threads : u # th => phase'[u] = phase[u]
          /\ phase' \in [Threads -> Phases]
      BY <1>0, <1>4 DEF Phases
    <2>2. Phased'
      BY <1>1, <1>4, <2>1, PhasesApart DEF Phased, Calling
    <2>3. Waits'
      BY <1>4, <2>1, PhasesApart DEF Waits
    <2>4. NoLostWakeup'
      BY <1>4, <2>1, PhasesApart DEF NoLostWakeup
    <2> QED  BY <1>0, <1>4, <2>1, <2>2, <2>3, <2>4 DEF Core, Kept
  <1>5. ASSUME phase[th] = <<"calling", n>>, notified[n] # "kWaiter",
               phase' = [phase EXCEPT ![th] = Running], pc' = [pc EXCEPT ![th] = to],
               UNCHANGED notified
        PROVE  Core' /\ Kept(th, {}) /\ phase'[th] = Running /\ notified[n] = "kNotified"
    <2>1. /\ phase'[th] = Running /\ \A u \in Threads : u # th => phase'[u] = phase[u]
          /\ phase' \in [Threads -> Phases]
          /\ \A u \in Threads : u # th => pc'[u] = pc[u]
          /\ pc' \in [Threads -> Places]
      BY <1>0, <1>5 DEF Phases
    <2>2. Phased'
      <3>1. \A p \in Procs : Main(p) \in Threads
        BY DEF Main, Threads
      <3> QED  BY <2>1, <3>1, Zenon DEF Phased
    <2>3. notified[n] = "kNotified"
      BY <1>0, <1>5, ZenonT(60) DEF Waits, NotifiedState
    <2>4. \A a \in {"calling", "asleep", "waking"} : \A m : phase'[th] # <<a, m>>
      BY ONLY <2>1 DEF Running
    <2>5. Waits'
      BY <1>5, <2>1, <2>4 DEF Waits
    <2>6. NoLostWakeup'
      <3> SUFFICES ASSUME NEW u \in Threads, NEW m \in Notifs, phase'[u] = <<"asleep", m>>
                   PROVE  \/ notified'[m] = "kWaiter"
                          \/ \E v \in Threads : phase'[v] = <<"waking", m>>
        BY DEF NoLostWakeup
      <3>1. u # th /\ phase[u] = <<"asleep", m>>
        BY <2>1, <2>4, Zenon
      <3>2. \/ notified[m] = "kWaiter"
            \/ \E v \in Threads : phase[v] = <<"waking", m>>
        BY <3>1, Zenon DEF NoLostWakeup
      <3>3. phase[th] # <<"waking", m>>
        BY ONLY <1>5, PhasesApart
      <3> QED  BY <1>5, <2>1, <3>2, <3>3, Zenon
    <2> QED  BY <1>0, <1>5, <2>1, <2>2, <2>3, <2>5, <2>6 DEF Core, Kept
  <1> QED  BY <1>g, <1>1, <1>2, <1>3, <1>4, <1>5, Zenon
           DEF WaitForNotification, WaitIsOver, Goto, WaitOutcome

\* A thread that is about to call Wake has posted its notification.
LEMMA StoreCore ==
    ASSUME TypeOK, Phased, Waits, NoLostWakeup,
           NEW th \in Threads, NEW n \in Notifs, Calling(th, n, pc[th]), phase[th] = Running,
           pc' = pc, notified[n] = "kWaiter",
           notified' = [notified EXCEPT ![n] = "kNotified"],
           phase' = [phase EXCEPT ![th] = <<"waking", n>>]
    PROVE  Core' /\ Kept(th, {n}) /\ phase'[th] # Running
  <1>0. /\ notified \in [Notifs -> NotifiedState] /\ phase \in [Threads -> Phases]
        /\ pc \in [Threads -> Places]
    BY DEF TypeOK, Places
  <1>1. /\ phase'[th] = <<"waking", n>> /\ \A u \in Threads : u # th => phase'[u] = phase[u]
        /\ notified'[n] = "kNotified" /\ \A m \in Notifs : m # n => notified'[m] = notified[m]
        /\ phase' \in [Threads -> Phases] /\ notified' \in [Notifs -> NotifiedState]
    BY <1>0 DEF Phases, NotifiedState
  <1>2. Phased'
    BY <1>1, PhasesApart DEF Phased, Calling
  <1>3. Waits'
    BY <1>1, PhasesApart DEF Waits
  <1>4. NoLostWakeup'
    <2> SUFFICES ASSUME NEW u \in Threads, NEW m \in Notifs, phase'[u] = <<"asleep", m>>
                 PROVE  \/ notified'[m] = "kWaiter"
                        \/ \E v \in Threads : phase'[v] = <<"waking", m>>
      BY Zenon DEF NoLostWakeup
    <2>1. CASE m = n
      BY <1>1, <2>1, Zenon
    <2>2. CASE m # n
      <3>1. phase[u] = <<"asleep", m>> /\ notified'[m] = notified[m]
        BY <1>1, <2>2, PhasesApart
      <3>2. \/ notified[m] = "kWaiter"
            \/ \E v \in Threads : phase[v] = <<"waking", m>>
        BY <3>1, Zenon DEF NoLostWakeup
      <3>3. phase[th] # <<"waking", m>>
        BY PhasesApart
      <3> QED  BY <1>1, <3>1, <3>2, <3>3, Zenon
    <2> QED  BY <2>1, <2>2, Zenon
  <1> QED  BY <1>0, <1>1, <1>2, <1>3, <1>4, PhasesApart DEF Core, Kept

\* A notification is posted that nobody has waited for.
LEMMA PostCore ==
    ASSUME TypeOK, Phased, Waits, NoLostWakeup,
           NEW th \in Threads, NEW n \in Notifs, NEW to \in Places, phase[th] = Running,
           pc' = [pc EXCEPT ![th] = to], notified[n] # "kWaiter",
           notified' = [notified EXCEPT ![n] = "kNotified"], phase' = phase
    PROVE  Core' /\ Kept(th, {n}) /\ phase'[th] = Running
  <1>0. /\ notified \in [Notifs -> NotifiedState] /\ phase \in [Threads -> Phases]
        /\ pc \in [Threads -> Places]
    BY DEF TypeOK, Places
  <1>1. /\ notified'[n] = "kNotified" /\ \A m \in Notifs : m # n => notified'[m] = notified[m]
        /\ notified' \in [Notifs -> NotifiedState]
        /\ pc' \in [Threads -> Places] /\ \A u \in Threads : u # th => pc'[u] = pc[u]
    BY <1>0 DEF NotifiedState
  <1>2. Phased'
    <2>1. \A p \in Procs : Main(p) \in Threads
      BY DEF Main, Threads
    <2> QED  BY <1>1, <2>1, Zenon DEF Phased
  <1>3. Waits'
    BY <1>1 DEF Waits
  <1>4. NoLostWakeup'
    BY <1>1 DEF NoLostWakeup
  <1> QED  BY <1>0, <1>1, <1>2, <1>3, <1>4 DEF Core, Kept

\* Wake: whoever sleeps is about to look at the word again.
LEMMA WakeCore ==
    ASSUME TypeOK, Phased, Waits, NoLostWakeup,
           NEW th \in Threads, NEW n \in Notifs, NEW to \in Places, NotifyWake(th, n, to)
    PROVE  /\ Core' /\ Kept(th, {}) /\ phase'[th] = Running /\ pc' = [pc EXCEPT ![th] = to]
           /\ phase[th] # Running /\ pc[th][1] = n[2] /\ phase[th][2] = n
  <1>0. /\ notified \in [Notifs -> NotifiedState] /\ phase \in [Threads -> Phases]
        /\ pc \in [Threads -> Places]
    BY DEF TypeOK, Places
  <1>1. /\ phase[th] = <<"waking", n>> /\ notified' = notified
        /\ phase' = [u \in Threads |-> IF u = th THEN Running
                                       ELSE IF phase[u] = <<"asleep", n>> THEN <<"calling", n>>
                                       ELSE phase[u]]
        /\ pc' = [pc EXCEPT ![th] = to]
    BY DEF NotifyWake, Goto
  <1>2. phase[th] # Running /\ phase[th][2] = n /\ pc[th][1] = n[2]
    <2>1. phase[th] # Running /\ phase[th][2] = n
      BY ONLY <1>1, PhasesApart
    <2> QED  BY <2>1, Zenon DEF Phased
  <1>3. /\ phase'[th] = Running /\ phase' \in [Threads -> Phases]
        /\ \A u \in Threads : u # th => phase'[u] = IF phase[u] = <<"asleep", n>>
                                                    THEN <<"calling", n>> ELSE phase[u]
        /\ pc' \in [Threads -> Places] /\ \A u \in Threads : u # th => pc'[u] = pc[u]
    BY <1>0, <1>1 DEF Phases
  <1>4. \A u \in Threads : u # th =>
          /\ phase'[u] = Running <=> phase[u] = Running
          /\ phase[u] # Running => phase'[u][2] = phase[u][2]
    BY <1>3, PhasesApart
  <1>5. Phased'
    <2>1. \A p \in Procs : Main(p) \in Threads
      BY DEF Main, Threads
    <2> QED  BY <1>3, <1>4, <2>1 DEF Phased
  <1>6. \A a \in {"calling", "asleep", "waking"} : \A m : phase'[th] # <<a, m>>
    BY ONLY <1>3 DEF Running
  <1>7. Waits'
    <2> SUFFICES ASSUME NEW u \in Threads, NEW m \in Notifs,
                        phase'[u] \in {<<"calling", m>>, <<"asleep", m>>}
                 PROVE  /\ notified[m] # "kNoWaiter"
                        /\ m[2] = "rpc_pending_" => u[2] = "rpc"
                        /\ m[2] = "rpc_done_" => u[2] \in Clients
      BY <1>1, Zenon DEF Waits
    <2>1. phase[u] \in {<<"calling", m>>, <<"asleep", m>>}
      BY <1>3, <1>6, PhasesApart
    <2> QED  BY <2>1, Zenon DEF Waits
  <1>8. NoLostWakeup'
    <2> SUFFICES ASSUME NEW u \in Threads, NEW m \in Notifs, phase'[u] = <<"asleep", m>>
                 PROVE  \/ notified[m] = "kWaiter"
                        \/ \E v \in Threads : phase'[v] = <<"waking", m>>
      BY <1>1, Zenon DEF NoLostWakeup
    <2>1. phase[u] = <<"asleep", m>> /\ m # n
      BY <1>3, <1>6, PhasesApart
    <2>2. \/ notified[m] = "kWaiter"
          \/ \E v \in Threads : phase[v] = <<"waking", m>>
      BY <2>1, Zenon DEF NoLostWakeup
    <2>3. ASSUME NEW v \in Threads, phase[v] = <<"waking", m>>
          PROVE  phase'[v] = <<"waking", m>>
      BY <1>1, <1>3, <2>1, <2>3, PhasesApart
    <2> QED  BY <2>2, <2>3, Zenon
  <1> QED  BY <1>0, <1>1, <1>2, <1>3, <1>4, <1>5, <1>7, <1>8 DEF Core, Kept

\* Notify: the word is stored, then the waiter is woken up if there was one.
LEMMA NotifyStep ==
    ASSUME TypeOK, Phased, Waits, NoLostWakeup, NoCheckFails,
           NEW th \in Threads, NEW n \in Notifs, NEW from, NEW to \in Places,
           Calling(th, n, from),
           pc[th] = from /\ phase[th] = Running => notified[n] # "kNotified",
           Notify(th, n, from, to)
    PROVE  Core' /\ fault' = FALSE /\ NotifyOutcome(th, n, from, to)
  <1>00. fault = FALSE
    BY DEF TypeOK, NoCheckFails
  <1>0. notified \in [Notifs -> NotifiedState]
    BY DEF TypeOK
  <1>g. pc' = [pc EXCEPT ![th] = to] => pc'[th] = to
    BY DEF TypeOK
  <1>1. CASE NotifyStore(th, n, from, to)
    <2>0. /\ pc[th] = from /\ phase[th] = Running
          /\ notified' = [notified EXCEPT ![n] = "kNotified"] /\ notified'[n] = "kNotified"
      BY <1>0, <1>1 DEF NotifyStore
    <2>1. fault' = FALSE
      BY <1>1, <2>0, <1>00, ZenonT(60) DEF NotifyStore
    <2>2. CASE MustWake(n)
      <3>1. phase' = [phase EXCEPT ![th] = <<"waking", n>>] /\ pc' = pc
        BY <1>1, <2>2, Zenon DEF NotifyStore
      <3> QED  BY <2>0, <2>1, <2>2, <3>1, StoreCore, Zenon DEF MustWake, NotifyOutcome
    <2>3. CASE ~MustWake(n)
      <3>1. pc' = [pc EXCEPT ![th] = to] /\ phase' = phase
        BY <1>1, <2>3, Zenon DEF NotifyStore, Goto
      <3> QED  BY <1>g, <2>0, <2>1, <2>3, <3>1, PostCore, Zenon DEF MustWake, NotifyOutcome
    <2> QED  BY <2>2, <2>3, Zenon
  <1>2. CASE NotifyWake(th, n, to)
    <2>1. fault' = fault /\ notified' = notified
      BY <1>2, Zenon DEF NotifyWake
    <2>2. Kept(th, {}) => Kept(th, {n})
      BY Zenon DEF Kept
    <2>3. /\ Core' /\ Kept(th, {}) /\ phase'[th] = Running /\ pc' = [pc EXCEPT ![th] = to]
          /\ phase[th] # Running /\ pc[th][1] = n[2] /\ phase[th][2] = n
      BY <1>2, WakeCore
    <2>4. fault' = FALSE
      BY <1>00, <2>1, Zenon
    <2> QED  BY <1>g, <2>1, <2>2, <2>3, <2>4, Zenon DEF Calling, NotifyOutcome
  <1> QED  BY <1>1, <1>2, Zenon DEF Notify

\* Reset of a notification that nobody else waits for.
LEMMA ResetStep ==
    ASSUME TypeOK, Phased, Waits, NoLostWakeup, NoCheckFails,
           NEW th \in Threads, NEW n \in Notifs, NEW from, NEW to \in Places,
           Reset(th, n, from, to),
           \A u \in Threads : phase[u] \notin {<<"calling", n>>, <<"asleep", n>>}
    PROVE  Core' /\ fault' = FALSE /\ ResetOutcome(th, n, from, to)
  <1>0. /\ notified \in [Notifs -> NotifiedState] /\ phase \in [Threads -> Phases]
        /\ pc \in [Threads -> Places]
    BY DEF TypeOK, Places
  <1>1. /\ pc[th] = from /\ phase[th] = Running /\ phase' = phase /\ fault' = fault
        /\ notified' = [notified EXCEPT ![n] = "kNoWaiter"]
        /\ pc' = [pc EXCEPT ![th] = to]
    BY Zenon DEF Reset, Goto
  <1>2. /\ notified'[n] = "kNoWaiter" /\ \A m \in Notifs : m # n => notified'[m] = notified[m]
        /\ notified' \in [Notifs -> NotifiedState]
        /\ pc' \in [Threads -> Places] /\ \A u \in Threads : u # th => pc'[u] = pc[u]
    BY <1>0, <1>1 DEF NotifiedState
  <1>3. Phased'
    <2>1. \A p \in Procs : Main(p) \in Threads
      BY DEF Main, Threads
    <2> QED  BY <1>1, <1>2, <2>1, Zenon DEF Phased
  <1>4. Waits'
    BY <1>1, <1>2 DEF Waits
  <1>5. NoLostWakeup'
    BY <1>1, <1>2, ZenonT(60) DEF NoLostWakeup
  <1>6. fault' = FALSE
    BY <1>1 DEF TypeOK, NoCheckFails
  <1> QED  BY <1>0, <1>1, <1>2, <1>3, <1>4, <1>5, <1>6 DEF Core, Kept, ResetOutcome

\* A step outside any operation.
LEMMA PlainStep ==
    ASSUME TypeOK, Phased, Waits, NoLostWakeup,
           NEW th \in Threads, NEW from, NEW to \in Places,
           Step(th, from, to), from[1] \notin Names
    PROVE  Core' /\ StepOutcome(th, from, to)
  <1>0. /\ notified \in [Notifs -> NotifiedState] /\ phase \in [Threads -> Phases]
        /\ pc \in [Threads -> Places]
    BY DEF TypeOK, Places
  <1>1. /\ pc[th] = from /\ phase' = phase /\ notified' = notified
        /\ pc' = [pc EXCEPT ![th] = to] /\ phase[th] = Running
    BY NotInside, Zenon DEF Step, Goto
  <1>2. pc' \in [Threads -> Places] /\ \A u \in Threads : u # th => pc'[u] = pc[u]
    BY <1>0, <1>1
  <1>3. Phased'
    <2>1. \A p \in Procs : Main(p) \in Threads
      BY DEF Main, Threads
    <2> QED  BY <1>1, <1>2, <2>1, Zenon DEF Phased
  <1>4. Waits' /\ NoLostWakeup'
    BY <1>1, Zenon DEF Waits, NoLostWakeup
  <1> QED  BY <1>0, <1>1, <1>2, <1>3, <1>4, Zenon DEF Core, Kept, StepOutcome

-----------------------------------------------------------------------------
(* What a step of one thread leaves alone. *)

\* The names of notifications, and which of them are a process's.
LEMMA NotifIds ==
    ASSUME NEW p \in Procs
    PROVE  /\ \A a \in {"agent_ready_", "kill_agent_", "rpc_pending_", "rpc_done_"} :
                /\ <<p, a>> \in Notifs /\ <<p, a>>[1] = p /\ <<p, a>>[2] = a
                /\ \A q, b : <<p, a>> = <<q, b>> => p = q /\ a = b
           /\ \A a \in {"ready_", "enclave_ready_", "finished_", "do_exit_"}, c \in Cpus :
                /\ <<p, a, c>> \in Notifs /\ <<p, a, c>>[1] = p /\ <<p, a, c>>[2] = a
                /\ \A q, b, d : <<p, a, c>> = <<q, b, d>> => p = q /\ a = b /\ c = d
  BY DEF Notifs

\* The parent and the main thread, if the step is neither's.
LEMMA ParentKept ==
    ASSUME NEW q \in Procs, NEW th, NEW N, Kept(th, N), ParentAt(q),
           th # Main(q), th # Parent(q),
           <<q, "agent_ready_">> \notin N, <<q, "kill_agent_">> \notin N
    PROVE  ParentAt(q)'
  <1>1. /\ pc'[Main(q)] = pc[Main(q)] /\ (phase'[Main(q)] = Running <=> phase[Main(q)] = Running)
        /\ pc'[Parent(q)] = pc[Parent(q)]
        /\ phase'[Parent(q)] = Running <=> phase[Parent(q)] = Running
    BY ThreadIds, Zenon DEF Kept
  <1>ids. /\ <<q, "agent_ready_">> \in Notifs
        /\ <<q, "kill_agent_">> \in Notifs
    BY NotifIds, Zenon
  <1>2. /\ notified'[<<q, "agent_ready_">>] = "kNotified"
             <=> notified[<<q, "agent_ready_">>] = "kNotified"
        /\ notified'[<<q, "kill_agent_">>] = "kNotified"
             <=> notified[<<q, "kill_agent_">>] = "kNotified"
    BY <1>ids, Zenon DEF Kept
  <1> QED  BY ONLY <1>1, <1>2, ParentAt(q), Zenon DEF ParentAt, ParentOK

\* An agent of process q, if the step is neither its nor its main thread's.
LEMMA AgentKept ==
    ASSUME NEW q \in Procs, NEW c \in Cpus, NEW th, NEW N, Kept(th, N), AgentAt(q, c),
           th # Main(q), th # <<q, c>>, agents'[q] = agents[q],
           agentOn'[c] = q <=> agentOn[c] = q
    PROVE  AgentAt(q, c)'
  <1>1. pc'[Main(q)] = pc[Main(q)] /\ pc'[<<q, c>>] = pc[<<q, c>>]
    BY ThreadIds, Zenon DEF Kept
  <1> QED  BY <1>1, Zenon DEF AgentAt, AgentOK

\* ReadyAt, if the step is neither the main thread's nor that agent's.
LEMMA ReadyKept ==
    ASSUME NEW q \in Procs, NEW i \in 1 .. Last, NEW th, NEW N, Kept(th, N), ReadyAt(q, i),
           th # Main(q), th # <<q, CpuList[i]>>, <<q, "ready_", CpuList[i]>> \notin N
    PROVE  ReadyAt(q, i)'
  <1>0. CpuList[i] \in Cpus
    BY CpuFacts, Zenon
  <1>1. /\ pc'[Main(q)] = pc[Main(q)] /\ pc'[<<q, CpuList[i]>>] = pc[<<q, CpuList[i]>>]
        /\ phase'[<<q, CpuList[i]>>] = Running <=> phase[<<q, CpuList[i]>>] = Running
    BY <1>0, ThreadIds, Zenon DEF Kept
  <1>ids. <<q, "ready_", CpuList[i]>> \in Notifs
    BY <1>0, NotifIds, Zenon
  <1>2. notified'[<<q, "ready_", CpuList[i]>>] = "kNotified"
          <=> notified[<<q, "ready_", CpuList[i]>>] = "kNotified"
    BY <1>ids, Zenon DEF Kept
  <1> QED  BY ONLY <1>1, <1>2, ReadyAt(q, i), Zenon DEF ReadyAt, ReadyOK

\* The notifications that the main thread posts, if the step is not its.
LEMMA SignalKept ==
    ASSUME NEW q \in Procs, NEW i \in 1 .. Last, NEW th, NEW N, Kept(th, N), SignalAt(q, i),
           th # Main(q), <<q, "enclave_ready_", CpuList[i]>> \notin N,
           <<q, "finished_", CpuList[i]>> \notin N, <<q, "do_exit_", CpuList[i]>> \notin N
    PROVE  SignalAt(q, i)'
  <1>0. CpuList[i] \in Cpus
    BY CpuFacts, Zenon
  <1>1. pc'[Main(q)] = pc[Main(q)] /\ (phase'[Main(q)] = Running <=> phase[Main(q)] = Running)
    BY ThreadIds, Zenon DEF Kept
  <1>ids. /\ <<q, "enclave_ready_", CpuList[i]>> \in Notifs
        /\ <<q, "finished_", CpuList[i]>> \in Notifs
        /\ <<q, "do_exit_", CpuList[i]>> \in Notifs
    BY <1>0, NotifIds, Zenon
  <1>2. /\ notified'[<<q, "enclave_ready_", CpuList[i]>>] = "kNotified"
             <=> notified[<<q, "enclave_ready_", CpuList[i]>>] = "kNotified"
        /\ notified'[<<q, "finished_", CpuList[i]>>] = "kNotified"
             <=> notified[<<q, "finished_", CpuList[i]>>] = "kNotified"
        /\ notified'[<<q, "do_exit_", CpuList[i]>>] = "kNotified"
             <=> notified[<<q, "do_exit_", CpuList[i]>>] = "kNotified"
    BY <1>ids, Zenon DEF Kept
  <1> QED  BY ONLY <1>1, <1>2, SignalAt(q, i), Zenon
           DEF SignalAt, EnclaveReadyOK, FinishedOK, DoExitOK

\* ServingAt, if the step is neither the main thread's nor the RPC thread's.
LEMMA ServingKept ==
    ASSUME NEW q \in Procs, NEW th, NEW N, Kept(th, N), ServingAt(q),
           th # Main(q), th # RpcThread(q), is_online'[q] = is_online[q]
    PROVE  ServingAt(q)'
  <1>1. pc'[Main(q)] = pc[Main(q)] /\ pc'[RpcThread(q)] = pc[RpcThread(q)]
    BY ThreadIds, Zenon DEF Kept
  <1> QED  BY <1>1, Zenon DEF ServingAt

\* The calls of process q, if the step is none of a thread that takes part in them.
LEMMA CallKept ==
    ASSUME NEW q \in Procs, NEW th, NEW N, Kept(th, N),
           QuietAt(q), \A k \in Clients : CallAt(q, k),
           th # Parent(q), th # RpcThread(q), \A k \in Clients : th # <<q, k>>,
           <<q, "rpc_pending_">> \notin N, <<q, "rpc_done_">> \notin N,
           mutex'[q] = mutex[q], rpc_req'[q] = rpc_req[q], rpc_res'[q] = rpc_res[q]
    PROVE  QuietAt(q)' /\ \A k \in Clients : CallAt(q, k)'
  <1>1. /\ pc'[Parent(q)] = pc[Parent(q)] /\ pc'[RpcThread(q)] = pc[RpcThread(q)]
        /\ phase'[RpcThread(q)] = Running <=> phase[RpcThread(q)] = Running
    BY ThreadIds, Zenon DEF Kept
  <1>ids. /\ <<q, "rpc_pending_">> \in Notifs
        /\ <<q, "rpc_done_">> \in Notifs
    BY NotifIds, Zenon
  <1>2. /\ notified'[<<q, "rpc_pending_">>] = "kNotified"
             <=> notified[<<q, "rpc_pending_">>] = "kNotified"
        /\ notified'[<<q, "rpc_done_">>] = "kNotified"
             <=> notified[<<q, "rpc_done_">>] = "kNotified"
    BY <1>ids, Zenon DEF Kept
  <1>3. QuietAt(q)'
    BY <1>1, <1>2, Zenon DEF QuietAt, Quiet, Rests
  <1>4. ASSUME NEW k \in Clients  PROVE CallAt(q, k)'
    <2>1. pc'[<<q, k>>] = pc[<<q, k>>] /\ (phase'[<<q, k>>] = Running <=> phase[<<q, k>>] = Running)
      BY ThreadIds, Zenon DEF Kept
    <2>2. CallAt(q, k) /\ rpc_req'[q] = rpc_req[q] /\ rpc_res'[q] = rpc_res[q] /\ mutex'[q] = mutex[q]
      OBVIOUS
    <2> QED  BY ONLY <1>1, <1>2, <2>1, <2>2, Zenon
             DEF CallAt, CallOK, Quiet, Rests, Asked, Handled, Answered
  <1> QED  BY <1>3, <1>4

\* What the invariant says of one process.
ProcessAt(p) ==
    /\ ShapeAt(p) /\ ParentAt(p) /\ ServingAt(p) /\ QuietAt(p)
    /\ \A k \in Clients : MutualAt(p, k) /\ CallAt(p, k)
    /\ \A c \in Cpus : AgentAt(p, c)
    /\ \A i \in 1 .. Last : ReadyAt(p, i) /\ SignalAt(p, i)

\* The parts of the invariant that speak of one process, put together.
LEMMA Processes ==
    (\A p \in Procs : ProcessAt(p))
      <=> Shapes /\ Parents /\ Calls /\ Mutual /\ Manned /\ Readies /\ Signals
  BY Zenon DEF ProcessAt, Shapes, Parents, Calls, Mutual, Manned, Readies, Signals

\* Nothing happens to the threads and notifications of other processes than p.
KeptBut(p) ==
    /\ \A u \in Threads : u[1] # p =>
         pc'[u] = pc[u] /\ (phase'[u] = Running <=> phase[u] = Running)
    /\ \A m \in Notifs : m[1] # p =>
         (notified'[m] = "kNotified" <=> notified[m] = "kNotified")

\* A step of a thread of p, on notifications of p, does nothing to the others.
LEMMA KeptButs ==
    ASSUME NEW p, NEW th, NEW N, Kept(th, N), th[1] = p, \A m \in N : m[1] = p
    PROVE  KeptBut(p)
  BY Zenon DEF Kept, KeptBut

\* The variables of process q, and whether its agents are on their cpus.
KeptVars(q) ==
    /\ is_online'[q] = is_online[q] /\ mutex'[q] = mutex[q] /\ agents'[q] = agents[q]
    /\ rpc_req'[q] = rpc_req[q] /\ rpc_res'[q] = rpc_res[q]
    /\ \A c \in Cpus : agentOn'[c] = q <=> agentOn[c] = q

\* A step of process p leaves the others alone.
LEMMA Others ==
    ASSUME NEW p, KeptBut(p), NEW q \in Procs, q # p, ProcessAt(q), KeptVars(q)
    PROVE  ProcessAt(q)'
  <1> DEFINE Same(n) == notified'[n] = "kNotified" <=> notified[n] = "kNotified"
             Stays(u) == pc'[u] = pc[u] /\ (phase'[u] = Running <=> phase[u] = Running)
  <1>1. /\ Stays(Main(q)) /\ Stays(Parent(q)) /\ Stays(RpcThread(q))
        /\ \A c \in Cpus \cup Clients : Stays(<<q, c>>)
    <2>1. /\ Main(q)[1] = q /\ Parent(q)[1] = q /\ RpcThread(q)[1] = q /\ \A c : <<q, c>>[1] = q
      BY DEF Main, Parent, RpcThread
    <2> QED  BY <2>1, ThreadIds, Zenon DEF KeptBut
  <1>2. /\ \A a \in {"agent_ready_", "kill_agent_", "rpc_pending_", "rpc_done_"} : Same(<<q, a>>)
        /\ \A a \in {"ready_", "enclave_ready_", "finished_", "do_exit_"}, c \in Cpus :
             Same(<<q, a, c>>)
    <2>1. ASSUME NEW a \in {"agent_ready_", "kill_agent_", "rpc_pending_", "rpc_done_"}
          PROVE  Same(<<q, a>>)
      <3>1. <<q, a>> \in Notifs /\ <<q, a>>[1] = q
        BY NotifIds, Zenon
      <3> QED  BY <3>1, Zenon DEF KeptBut
    <2>2. ASSUME NEW a \in {"ready_", "enclave_ready_", "finished_", "do_exit_"}, NEW c \in Cpus
          PROVE  Same(<<q, a, c>>)
      <3>1. <<q, a, c>> \in Notifs /\ <<q, a, c>>[1] = q
        BY NotifIds, Zenon
      <3> QED  BY <3>1, Zenon DEF KeptBut
    <2> QED  BY <2>1, <2>2
  <1>3. ShapeAt(q)'
    BY <1>1, Zenon DEF ShapeAt, ProcessAt
  <1>4. ParentAt(q)'
    <2>1. ParentAt(q)
      BY Zenon DEF ProcessAt
    <2> QED  BY ONLY <1>1, <1>2, <2>1, Zenon DEF ParentAt, ParentOK
  <1>5. ServingAt(q)' /\ QuietAt(q)'
    <2>1. ServingAt(q) /\ QuietAt(q) /\ is_online'[q] = is_online[q] /\ mutex'[q] = mutex[q]
      BY Zenon DEF ProcessAt, KeptVars
    <2> QED  BY ONLY <1>1, <1>2, <2>1, Zenon DEF ServingAt, QuietAt, Quiet, Rests
  <1>6. ASSUME NEW k \in Clients  PROVE MutualAt(q, k)' /\ CallAt(q, k)'
    <2>1. /\ MutualAt(q, k) /\ CallAt(q, k) /\ mutex'[q] = mutex[q]
          /\ rpc_req'[q] = rpc_req[q] /\ rpc_res'[q] = rpc_res[q] /\ Stays(<<q, k>>)
      BY <1>1, Zenon DEF ProcessAt, KeptVars
    <2>2. MutualAt(q, k)'
      BY ONLY <2>1, Zenon DEF MutualAt
    <2>3. CallAt(q, k)'
      BY ONLY <1>1, <1>2, <2>1, Zenon DEF CallAt, CallOK, Quiet, Rests, Asked, Handled, Answered
    <2> QED  BY <2>2, <2>3
  <1>7. ASSUME NEW c \in Cpus  PROVE AgentAt(q, c)'
    <2>1. /\ AgentAt(q, c) /\ Stays(<<q, c>>) /\ agents'[q] = agents[q]
          /\ agentOn'[c] = q <=> agentOn[c] = q
      BY <1>1, Zenon DEF ProcessAt, KeptVars
    <2> QED  BY ONLY <1>1, <2>1, Zenon DEF AgentAt, AgentOK
  <1>8. ASSUME NEW i \in 1 .. Last  PROVE ReadyAt(q, i)' /\ SignalAt(q, i)'
    <2>1. ReadyAt(q, i) /\ SignalAt(q, i) /\ CpuList[i] \in Cpus
      BY CpuFacts, Zenon DEF ProcessAt
    <2>2. /\ Stays(<<q, CpuList[i]>>) /\ Same(<<q, "ready_", CpuList[i]>>)
          /\ Same(<<q, "enclave_ready_", CpuList[i]>>) /\ Same(<<q, "finished_", CpuList[i]>>)
          /\ Same(<<q, "do_exit_", CpuList[i]>>)
      BY <1>1, <1>2, <2>1, Zenon
    <2>3. ReadyAt(q, i)'
      BY ONLY <1>1, <2>1, <2>2, Zenon DEF ReadyAt, ReadyOK
    <2>4. SignalAt(q, i)'
      BY ONLY <1>1, <2>1, <2>2, Zenon DEF SignalAt, EnclaveReadyOK, FinishedOK, DoExitOK
    <2> QED  BY <2>3, <2>4
  <1> QED  BY <1>3, <1>4, <1>5, <1>6, <1>7, <1>8, Zenon DEF ProcessAt

\* What remains to be shown of a step of process p.
LEMMA ProcessFrame ==
    ASSUME IInv, NEW p \in Procs, KeptBut(p), \A q \in Procs : q # p => KeptVars(q),
           Core', TypeOK', NoCheckFails', ProcessAt(p)', Succession', OneProcessSchedules'
    PROVE  IInv'
  <1>1. \A q \in Procs : ProcessAt(q)
    BY Processes, Zenon DEF IInv
  <1>2. \A q \in Procs : ProcessAt(q)'
    BY <1>1, Others, Zenon
  <1>3. Shapes' /\ Parents' /\ Calls' /\ Mutual' /\ Manned' /\ Readies' /\ Signals'
    BY <1>2, Zenon DEF ProcessAt, Shapes, Parents, Calls, Mutual, Manned, Readies, Signals
  <1> QED  BY <1>3, Zenon DEF IInv, Core

\* The types, if a step changes nothing else.
LEMMA Types ==
    ASSUME TypeOK, Core', fault' = FALSE, UNCHANGED <<evars, cvars>>
    PROVE  TypeOK' /\ NoCheckFails'
  <1>1. NoCheckFails' /\ fault' \in BOOLEAN
    BY ZenonT(60) DEF NoCheckFails
  <1>2. UNCHANGED <<is_online, online, agents, agentOn, stale, mutex, rpc_req, rpc_res, calls>>
    BY Zenon DEF evars, cvars
  <1>3. TypeOK'
    BY ONLY TypeOK, Core', <1>1, <1>2, Zenon DEF Core, Places, TypeOK
  <1> QED  BY <1>1, <1>3

-----------------------------------------------------------------------------
(* Steps of the RPC threads, the clients and parents, the kernel and the agents. *)

\* What only main threads and agents can disturb.
AgentsAt(p) ==
    /\ Succession /\ OneProcessSchedules /\ ShapeAt(p)
    /\ \A c \in Cpus : AgentAt(p, c)
    /\ \A i \in 1 .. Last : ReadyAt(p, i) /\ SignalAt(p, i)

\* A step of a thread that is neither a main thread nor an agent.
LEMMA Aside ==
    ASSUME IInv, NEW p \in Procs, NEW th, NEW N, Kept(th, N), th[1] = p,
           th # Main(p), \A c \in Cpus : th # <<p, c>>,
           \A m \in N : m[2] \notin {"ready_", "enclave_ready_", "finished_", "do_exit_"},
           UNCHANGED evars
    PROVE  AgentsAt(p)'
  <1>0. \A q \in Procs : th # Main(q) /\ \A c \in Cpus : th # <<q, c>>
    BY DEF Main
  <1>1. /\ \A q \in Procs : pc'[Main(q)] = pc[Main(q)]
        /\ \A q \in Procs, c \in Cpus : pc'[<<q, c>>] = pc[<<q, c>>]
    BY <1>0, ThreadIds, Zenon DEF Kept
  <1>2. UNCHANGED <<is_online, online, agents, agentOn>>
    BY Zenon DEF evars
  <1>3. ShapeAt(p)'
    BY <1>1, Zenon DEF IInv, Shapes, ShapeAt
  <1>4. Succession'
    BY <1>1, <1>2, Zenon DEF IInv, Succession
  <1>5. OneProcessSchedules'
    <2>1. OneProcessSchedules /\ (online # None => online \in Procs)
      BY DEF IInv, TypeOK
    <2> QED  BY ONLY <1>1, <1>2, <2>1, Zenon DEF OneProcessSchedules
  <1>6. ASSUME NEW c \in Cpus  PROVE AgentAt(p, c)'
    <2>1. AgentAt(p, c)
      BY Zenon DEF IInv, Manned
    <2> QED  BY <1>0, <1>2, <2>1, AgentKept, Zenon
  <1>7. \A q, a, c : a \in {"ready_", "enclave_ready_", "finished_", "do_exit_"}
                       => <<q, a, c>> \notin N
    OBVIOUS
  <1>8. ASSUME NEW i \in 1 .. Last  PROVE ReadyAt(p, i)' /\ SignalAt(p, i)'
    <2>1. ReadyAt(p, i) /\ SignalAt(p, i) /\ CpuList[i] \in Cpus
      BY CpuFacts, Zenon DEF IInv, Readies, Signals
    <2>2. <<p, "ready_", CpuList[i]>> \notin N
      BY <1>7, Zenon
    <2>3. /\ <<p, "enclave_ready_", CpuList[i]>> \notin N
          /\ <<p, "finished_", CpuList[i]>> \notin N /\ <<p, "do_exit_", CpuList[i]>> \notin N
      BY <1>7, Zenon
    <2>4. ReadyAt(p, i)'
      BY <1>0, <2>1, <2>2, ReadyKept, Zenon
    <2>5. SignalAt(p, i)'
      BY <1>0, <2>1, <2>3, SignalKept, Zenon
    <2> QED  BY <2>4, <2>5
  <1> QED  BY <1>3, <1>4, <1>5, <1>6, <1>8, Zenon DEF AgentsAt

-----------------------------------------------------------------------------
(* The RPC thread. *)

\* A step of the RPC thread or of a client can disturb the calls of its process only.
LEMMA CallFrame ==
    ASSUME IInv, NEW p \in Procs, NEW th \in Threads, th[1] = p,
           th # Main(p), th # Parent(p), \A c \in Cpus : th # <<p, c>>,
           NEW N, Kept(th, N), \A m \in N : m \in {<<p, "rpc_pending_">>, <<p, "rpc_done_">>},
           Core', TypeOK', NoCheckFails', UNCHANGED evars,
           \A q \in Procs : q # p => /\ mutex'[q] = mutex[q] /\ rpc_req'[q] = rpc_req[q]
                                     /\ rpc_res'[q] = rpc_res[q],
           ServingAt(p)', QuietAt(p)', \A k \in Clients : MutualAt(p, k)' /\ CallAt(p, k)'
    PROVE  IInv'
  <1>1. /\ \A m \in N : m[1] = p
        /\ \A m \in N : m[2] \notin {"ready_", "enclave_ready_", "finished_", "do_exit_"}
        /\ <<p, "agent_ready_">> \notin N /\ <<p, "kill_agent_">> \notin N
    OBVIOUS
  <1>2. AgentsAt(p)'
    BY <1>1, Aside, Zenon
  <1>3. ParentAt(p)'
    BY <1>1, ParentKept, Zenon DEF IInv, Parents
  <1>4. ProcessAt(p)'
    BY <1>2, <1>3, Zenon DEF ProcessAt, AgentsAt
  <1>5. KeptBut(p)
    BY <1>1, KeptButs, Zenon
  <1>6. \A q \in Procs : q # p => KeptVars(q)
    BY Zenon DEF KeptVars, evars
  <1> QED  BY <1>2, <1>4, <1>5, <1>6, ProcessFrame, Zenon DEF AgentsAt

\* A step of the RPC thread once it runs.
LEMMA RpcFrame ==
    ASSUME IInv, NEW p \in Procs, NEW N, Kept(RpcThread(p), N),
           \A m \in N : m \in {<<p, "rpc_pending_">>, <<p, "rpc_done_">>},
           Core', TypeOK', NoCheckFails', UNCHANGED <<evars, mutex, rpc_req>>,
           \A q \in Procs : q # p => rpc_res'[q] = rpc_res[q],
           pc[RpcThread(p)][1] \notin {"none", "gone"}, pc'[RpcThread(p)][1] # "none",
           QuietAt(p)', \A k \in Clients : CallAt(p, k)'
    PROVE  IInv'
  <1> DEFINE th == RpcThread(p)
  <1>1. /\ th \in Threads /\ th[1] = p /\ th # Main(p) /\ th # Parent(p)
        /\ \A c \in Cpus \cup Clients : th # <<p, c>>
    BY ProcessAssumption DEF Main, Parent, RpcThread, Threads
  <1>2. Kept(th, N) /\ UNCHANGED <<mutex, rpc_req>> /\ UNCHANGED evars
    OBVIOUS
  <1>3. ServingAt(p)'
    <2> HIDE DEF th
    <2>1. pc'[Main(p)] = pc[Main(p)] /\ is_online' = is_online
      BY <1>1, <1>2, ThreadIds, Zenon DEF Kept, evars
    <2> QED  BY <2>1, Zenon DEF ServingAt, IInv, Calls
  <1>4. ASSUME NEW k \in Clients  PROVE MutualAt(p, k)'
    <2> HIDE DEF th
    <2>1. pc'[<<p, k>>] = pc[<<p, k>>]
      BY <1>1, <1>2, ThreadIds, Zenon DEF Kept
    <2>2. MutualAt(p, k)
      BY Zenon DEF IInv, Mutual
    <2> QED  BY ONLY <1>2, <2>1, <2>2, Zenon DEF MutualAt
  <1> HIDE DEF th
  <1>5. /\ \A c \in Cpus : th # <<p, c>>
        /\ \A k \in Clients : MutualAt(p, k)' /\ CallAt(p, k)'
        /\ \A q \in Procs : q # p => /\ mutex'[q] = mutex[q] /\ rpc_req'[q] = rpc_req[q]
                                     /\ rpc_res'[q] = rpc_res[q]
    BY <1>1, <1>2, <1>4, Zenon
  <1> QED  BY <1>1, <1>2, <1>3, <1>5, CallFrame, Zenon

\* What a step of the RPC thread does not change of a call.
CallersStay(p, N) ==
    /\ pc'[Parent(p)] = pc[Parent(p)]
    /\ \A k \in Clients : /\ pc'[<<p, k>>] = pc[<<p, k>>]
                          /\ phase'[<<p, k>>] = Running <=> phase[<<p, k>>] = Running
    /\ \A a \in {"rpc_pending_", "rpc_done_"} : <<p, a>> \notin N =>
         (notified'[<<p, a>>] = "kNotified" <=> notified[<<p, a>>] = "kNotified")
    /\ QuietAt(p) /\ \A k \in Clients : CallAt(p, k)
    /\ mutex[p] = None \/ mutex[p] \in Clients
    /\ \A k \in Clients : mutex[p] = k => is_online[p]

\* What the invariant and Kept say of the calls of its process.
LEMMA RpcLocal ==
    ASSUME IInv, NEW p \in Procs, NEW N, Kept(RpcThread(p), N)
    PROVE  CallersStay(p, N)
  <1>1. /\ Parent(p) # RpcThread(p) /\ \A k \in Clients : <<p, k>> # RpcThread(p)
        /\ Parent(p) \in Threads /\ \A k \in Clients : <<p, k>> \in Threads
    BY ProcessAssumption DEF Parent, RpcThread, Threads
  <1>2. <<p, "rpc_pending_">> \in Notifs /\ <<p, "rpc_done_">> \in Notifs
    BY NotifIds, Zenon
  <1>3. QuietAt(p) /\ \A k \in Clients : CallAt(p, k)
    BY Zenon DEF IInv, Calls
  <1>4. mutex[p] = None \/ mutex[p] \in Clients
    BY DEF IInv, TypeOK
  <1>5. ASSUME NEW k \in Clients, mutex[p] = k  PROVE is_online[p]
    <2>1. pc[Parent(p)][1] = "up"
      BY <1>3, <1>5, Zenon DEF CallAt
    <2>2. ParentAt(p) /\ ServingAt(p)
      BY Zenon DEF IInv, Parents, Calls
    <2> QED  BY ONLY <2>1, <2>2, Zenon DEF ParentAt, ParentOK, ServingAt, ServeLabels
  <1>6. pc'[Parent(p)] = pc[Parent(p)]
    BY <1>1, Zenon DEF Kept
  <1>7. \A k \in Clients : /\ pc'[<<p, k>>] = pc[<<p, k>>]
                           /\ phase'[<<p, k>>] = Running <=> phase[<<p, k>>] = Running
    BY <1>1, Zenon DEF Kept
  <1>8. \A a \in {"rpc_pending_", "rpc_done_"} : <<p, a>> \notin N =>
          (notified'[<<p, a>>] = "kNotified" <=> notified[<<p, a>>] = "kNotified")
    BY <1>2, Zenon DEF Kept
  <1> QED  BY <1>3, <1>4, <1>5, <1>6, <1>7, <1>8, Zenon DEF CallersStay

\* The RPC thread waits for a request, and takes it.
LEMMA AwaitRpcPendingStep ==
    ASSUME IInv, NEW p \in Procs, AwaitRpcPending(p)
    PROVE  IInv'
  <1> DEFINE th == RpcThread(p)
             n == <<p, "rpc_pending_">>
  <1>1. /\ th \in Threads /\ n \in Notifs /\ th[2] = "rpc" /\ th[1] = p /\ n[2] = "rpc_pending_"
        /\ n[1] = p /\ <<"reset">> \in Places /\ <<"rpc_pending_">>[1] = "rpc_pending_"
        /\ \A q \in Procs : th # Main(q)
    BY ThreadIds, NotifIds, ZenonT(60) DEF RpcThread, Places, Labels, Main
  <1>2. Calling(th, n, <<"rpc_pending_">>)
    BY <1>1, Zenon DEF Calling
  <1>3. /\ WaitForNotification(th, n, <<"rpc_pending_">>, <<"reset">>)
        /\ UNCHANGED <<evars, cvars>>
    BY Zenon DEF AwaitRpcPending
  <1>0. TypeOK /\ Phased /\ Waits /\ NoLostWakeup /\ NoCheckFails
    BY Zenon DEF IInv
  <1>h. n[2] # "rpc_done_"
    BY <1>1
  <1>o. Core' /\ fault' = FALSE /\ WaitOutcome(th, n, <<"rpc_pending_">>, <<"reset">>)
    BY <1>0, <1>1, <1>2, <1>3, <1>h, WaitStep, Zenon
  <1>4. Kept(th, {}) /\ pc[th] = <<"rpc_pending_">>
    BY <1>o, Zenon DEF WaitOutcome
  <1>5. TypeOK' /\ NoCheckFails'
    BY <1>0, <1>3, <1>o, Types, Zenon
  <1>6. UNCHANGED <<mutex, rpc_req, rpc_res>>
    BY <1>3, Zenon DEF cvars
  <1>7. \/ pc'[th] = pc[th]
        \/ pc'[th] = <<"reset">> /\ phase'[th] = Running /\ notified[n] = "kNotified"
    BY <1>o, Zenon DEF WaitOutcome
  <1>8. pc[th][1] = "rpc_pending_" /\ pc'[th][1] \in {"rpc_pending_", "reset"}
    BY <1>4, <1>7
  <1>l. CallersStay(p, {})
    BY <1>4, RpcLocal, Zenon
  <1>9. QuietAt(p)'
    BY ONLY <1>6, <1>7, <1>8, <1>l, Zenon DEF CallersStay, QuietAt, Quiet, Rests
  <1>10. ASSUME NEW k \in Clients  PROVE CallAt(p, k)'
    BY ONLY <1>6, <1>7, <1>8, <1>l, k \in Clients, Zenon
    DEF CallersStay, CallAt, CallOK, Quiet, Rests, Asked, Handled, Answered
  <1>11. \A m \in {} : m \in {<<p, "rpc_pending_">>, <<p, "rpc_done_">>}
    OBVIOUS
  <1>12. pc[th][1] \notin {"none", "gone"} /\ pc'[th][1] # "none"
    BY <1>8
  <1>13. UNCHANGED <<evars, mutex, rpc_req>> /\ \A q \in Procs : q # p => rpc_res'[q] = rpc_res[q]
    BY <1>3, <1>6, Zenon
  <1> QED  BY <1>o, <1>4, <1>5, <1>9, <1>10, <1>11, <1>12, <1>13, RpcFrame

\* rpc_pending_ is reset: nobody else waits for it.
LEMMA ResetRpcPendingStep ==
    ASSUME IInv, NEW p \in Procs, ResetRpcPending(p)
    PROVE  IInv'
  <1> DEFINE th == RpcThread(p)
             n == <<p, "rpc_pending_">>
  <1>1. /\ th \in Threads /\ n \in Notifs /\ th[2] = "rpc" /\ th[1] = p /\ n[2] = "rpc_pending_"
        /\ n[1] = p /\ <<"handle">> \in Places
    BY ThreadIds, NotifIds, ZenonT(60) DEF RpcThread, Places, Labels
  <1>0. TypeOK /\ Phased /\ Waits /\ NoLostWakeup /\ NoCheckFails
    BY Zenon DEF IInv
  <1>2. Reset(th, n, <<"reset">>, <<"handle">>) /\ UNCHANGED <<evars, cvars>>
    BY Zenon DEF ResetRpcPending
  <1>3. ASSUME NEW u \in Threads  PROVE phase[u] \notin {<<"calling", n>>, <<"asleep", n>>}
    <2> SUFFICES ASSUME phase[u] \in {<<"calling", n>>, <<"asleep", n>>}  PROVE FALSE
      OBVIOUS
    <2>1. phase[u] # Running /\ phase[u][2] = n
      BY PhasesApart
    <2>2. u[1] = p /\ u[2] = "rpc"
      BY <1>0, <1>1, <2>1, Zenon DEF Phased, Waits
    <2>3. u = th
      BY <2>2 DEF Threads, RpcThread
    <2> QED  BY <1>2, <2>1, <2>3, Zenon DEF Reset
  <1>o. Core' /\ fault' = FALSE /\ ResetOutcome(th, n, <<"reset">>, <<"handle">>)
    <2>1. \A u \in Threads : phase[u] \notin {<<"calling", n>>, <<"asleep", n>>}
      BY <1>3
    <2>2. <<"handle">> \in Places
      BY <1>1
    <2> HIDE DEF th, n
    <2> QED  BY ONLY <1>0, <1>1, <1>2, <2>1, <2>2, ResetStep, Zenon
  <1>4. /\ Kept(th, {n}) /\ notified'[n] = "kNoWaiter" /\ pc[th] = <<"reset">>
        /\ pc'[th] = <<"handle">>
    BY <1>o, Zenon DEF ResetOutcome
  <1>5. TypeOK' /\ NoCheckFails'
    BY <1>0, <1>2, <1>o, Types, Zenon
  <1>6. UNCHANGED <<mutex, rpc_req, rpc_res>> /\ notified'[n] # "kNotified"
    BY <1>2, <1>4 DEF cvars
  <1>7. pc'[th][1] = "handle" /\ pc[th][1] = "reset"
    BY <1>4
  <1>8. CallersStay(p, {n}) /\ <<p, "rpc_done_">> \notin {n}
    BY <1>4, RpcLocal
  <1>9. QuietAt(p)'
    BY ONLY <1>6, <1>7, <1>8, Zenon DEF CallersStay, QuietAt, Quiet, Rests
  <1>10. ASSUME NEW k \in Clients  PROVE CallAt(p, k)'
    BY ONLY <1>6, <1>7, <1>8, k \in Clients, Zenon
    DEF CallersStay, CallAt, CallOK, Quiet, Rests, Asked, Handled, Answered
  <1>11. pc[th][1] \notin {"none", "gone"} /\ pc'[th][1] # "none"
    BY <1>7
  <1>12. UNCHANGED <<evars, mutex, rpc_req>> /\ \A q \in Procs : q # p => rpc_res'[q] = rpc_res[q]
    BY <1>2, <1>6, Zenon
  <1> QED  BY <1>o, <1>4, <1>5, <1>9, <1>10, <1>11, <1>12, RpcFrame

\* The handler answers the request of the caller that holds rpc_mutex_.
LEMMA RpcHandlerStep ==
    ASSUME IInv, NEW p \in Procs, RpcHandler(p)
    PROVE  IInv'
  <1> DEFINE th == RpcThread(p)
  <1>1. th \in Threads /\ <<"rpc_done_">> \in Places /\ <<"handle">>[1] \notin Names
    BY ThreadIds DEF Places, Labels, Names
  <1>0. TypeOK /\ Phased /\ Waits /\ NoLostWakeup /\ NoCheckFails
    BY Zenon DEF IInv
  <1>2. /\ Step(th, <<"handle">>, <<"rpc_done_">>)
        /\ rpc_res' = [rpc_res EXCEPT ![p] = IF is_online[p] THEN rpc_req[p] ELSE ENODEV]
        /\ UNCHANGED <<fault, evars, mutex, rpc_req, calls>>
    BY Zenon DEF RpcHandler
  <1>o. Core' /\ StepOutcome(th, <<"handle">>, <<"rpc_done_">>)
    BY <1>0, <1>1, <1>2, PlainStep, Zenon
  <1>3. /\ Core' /\ Kept(th, {}) /\ phase[th] = Running /\ phase'[th] = Running
        /\ pc[th] = <<"handle">> /\ pc'[th] = <<"rpc_done_">>
    BY <1>o, Zenon DEF StepOutcome
  <1>4. pc[th][1] = "handle" /\ pc'[th][1] = "rpc_done_"
    BY <1>3
  <1>5. /\ rpc_res' \in [Procs -> (Clients \X (Nat \ {0})) \cup {NoCall, ENODEV}]
        /\ is_online[p] => rpc_res'[p] = rpc_req[p]
        /\ \A q \in Procs : q # p => rpc_res'[q] = rpc_res[q]
    BY <1>0, <1>2 DEF TypeOK
  <1>6. TypeOK' /\ NoCheckFails'
    <2>1. UNCHANGED <<fault, is_online, online, agents, agentOn, stale, mutex, rpc_req, calls>>
      BY <1>2, Zenon DEF evars
    <2> QED  BY ONLY <1>0, <1>3, <1>5, <2>1, Zenon DEF TypeOK, Core, Places, NoCheckFails
  <1>7. CallersStay(p, {}) /\ UNCHANGED <<mutex, rpc_req>>
    BY <1>2, <1>3, RpcLocal, Zenon
  <1>8. QuietAt(p)'
    BY ONLY <1>3, <1>4, <1>7, Zenon DEF CallersStay, QuietAt, Quiet, Rests
  <1>9. ASSUME NEW k \in Clients  PROVE CallAt(p, k)'
    <2> SUFFICES ASSUME mutex[p] = k  PROVE CallAt(p, k)'
      BY <1>7, Zenon DEF CallAt
    <2>1. rpc_res'[p] = rpc_req'[p]
      BY <1>5, <1>7, Zenon DEF CallersStay
    <2> QED  BY ONLY <1>3, <1>4, <1>7, <2>1, mutex[p] = k, k \in Clients, Zenon
             DEF CallersStay, CallAt, CallOK, Quiet, Rests, Asked, Handled, Answered
  <1>10. pc[th][1] \notin {"none", "gone"} /\ pc'[th][1] # "none"
    BY <1>4
  <1>11. UNCHANGED <<evars, mutex, rpc_req>>
    BY <1>2, Zenon
  <1>12. \A m \in {} : m \in {<<p, "rpc_pending_">>, <<p, "rpc_done_">>}
    OBVIOUS
  <1> QED  BY <1>3, <1>5, <1>6, <1>8, <1>9, <1>10, <1>11, <1>12, RpcFrame

\* The answer is posted, and the caller woken up.
LEMMA NotifyRpcDoneStep ==
    ASSUME IInv, NEW p \in Procs, NotifyRpcDone(p)
    PROVE  IInv'
  <1> DEFINE th == RpcThread(p)
             n == <<p, "rpc_done_">>
  <1>1. /\ th \in Threads /\ n \in Notifs /\ th[1] = p /\ n[2] = "rpc_done_" /\ n[1] = p
        /\ <<"rpc_pending_">> \in Places /\ <<"rpc_done_">>[1] = "rpc_done_"
        /\ \A q \in Procs : th # Main(q)
    BY ThreadIds, NotifIds, ZenonT(60) DEF RpcThread, Places, Labels, Main
  <1>0. TypeOK /\ Phased /\ Waits /\ NoLostWakeup /\ NoCheckFails
    BY Zenon DEF IInv
  <1>2. /\ Notify(th, n, <<"rpc_done_">>, <<"rpc_pending_">>) /\ UNCHANGED <<evars, cvars>>
        /\ Calling(th, n, <<"rpc_done_">>)
    BY <1>1, Zenon DEF NotifyRpcDone, Calling
  <1>3. /\ QuietAt(p) /\ \A k \in Clients : CallAt(p, k)
        /\ mutex[p] = None \/ mutex[p] \in Clients
    BY DEF IInv, Calls, TypeOK
  <1>4. pc[th] = <<"rpc_done_">> /\ phase[th] = Running => notified[n] # "kNotified"
    BY ONLY <1>1, <1>3, Zenon DEF QuietAt, CallAt, CallOK, Quiet, Rests, Asked, Handled, Answered
  <1>o. Core' /\ fault' = FALSE /\ NotifyOutcome(th, n, <<"rpc_done_">>, <<"rpc_pending_">>)
    <2> HIDE DEF th, n
    <2> QED  BY ONLY <1>0, <1>1, <1>2, <1>4, NotifyStep, Zenon
  <1>5. Kept(th, {n})
    BY <1>o, Zenon DEF NotifyOutcome
  <1>6. TypeOK' /\ NoCheckFails'
    BY <1>0, <1>2, <1>o, Types, Zenon
  <1>7. /\ pc[th][1] = "rpc_done_"
        /\ \/ /\ phase[th] = Running /\ pc'[th][1] = "rpc_done_"
              /\ phase'[th] # Running /\ notified'[n] = "kNotified"
           \/ /\ phase[th] = Running /\ pc'[th][1] = "rpc_pending_" /\ notified'[n] = "kNotified"
           \/ /\ phase[th] # Running /\ pc'[th][1] = "rpc_pending_"
              /\ notified'[n] = "kNotified" <=> notified[n] = "kNotified"
    BY <1>o DEF NotifyOutcome
  <1>8. CallersStay(p, {n}) /\ <<p, "rpc_pending_">> \notin {n}
    BY <1>5, RpcLocal
  <1>9. UNCHANGED <<mutex, rpc_req, rpc_res>>
    BY <1>2, Zenon DEF cvars
  <1>10. QuietAt(p)'
    BY ONLY <1>7, <1>8, <1>9, Zenon DEF CallersStay, QuietAt, Quiet, Rests
  <1>11. ASSUME NEW k \in Clients  PROVE CallAt(p, k)'
    BY ONLY <1>7, <1>8, <1>9, k \in Clients, Zenon
    DEF CallersStay, CallAt, CallOK, Quiet, Rests, Asked, Handled, Answered
  <1>12. pc[th][1] \notin {"none", "gone"} /\ pc'[th][1] # "none"
    BY <1>7
  <1>13. UNCHANGED <<evars, mutex, rpc_req>> /\ \A q \in Procs : q # p => rpc_res'[q] = rpc_res[q]
    BY <1>2, <1>9, Zenon
  <1> QED  BY <1>o, <1>5, <1>6, <1>10, <1>11, <1>12, <1>13, RpcFrame

\* Every step of the RPC thread.
LEMMA RpcStep ==
    ASSUME IInv, NEW p \in Procs, RpcNext(p)
    PROVE  IInv'
  BY AwaitRpcPendingStep, ResetRpcPendingStep, RpcHandlerStep, NotifyRpcDoneStep, Zenon DEF RpcNext

-----------------------------------------------------------------------------
(* The clients. *)

\* What a step of client k does not change of a call, and what it knows before it.
CallStays(p, k, N) ==
    /\ pc'[Parent(p)] = pc[Parent(p)] /\ pc'[RpcThread(p)] = pc[RpcThread(p)]
    /\ phase'[RpcThread(p)] = Running <=> phase[RpcThread(p)] = Running
    /\ \A j \in Clients : j # k => pc'[<<p, j>>] = pc[<<p, j>>]
    /\ \A a \in {"rpc_pending_", "rpc_done_"} : <<p, a>> \notin N =>
         (notified'[<<p, a>>] = "kNotified" <=> notified[<<p, a>>] = "kNotified")
    /\ QuietAt(p) /\ \A j \in Clients : MutualAt(p, j) /\ CallAt(p, j)
    /\ k \in Clients /\ None \notin Clients

\* What a client's step leaves as it was in its own process.
LEMMA ClientLocal ==
    ASSUME IInv, NEW p \in Procs, NEW k \in Clients, NEW N, Kept(<<p, k>>, N)
    PROVE  CallStays(p, k, N)
  <1>1. /\ <<p, k>> # RpcThread(p) /\ <<p, k>> # Parent(p) /\ None \notin Clients
        /\ \A j \in Clients : <<p, j>> = <<p, k>> => j = k
    BY ProcessAssumption DEF Parent, RpcThread
  <1>2. <<p, "rpc_pending_">> \in Notifs /\ <<p, "rpc_done_">> \in Notifs
    BY NotifIds, Zenon
  <1>3. QuietAt(p) /\ \A j \in Clients : MutualAt(p, j) /\ CallAt(p, j)
    BY Zenon DEF IInv, Calls, Mutual
  <1>4. /\ pc'[Parent(p)] = pc[Parent(p)] /\ pc'[RpcThread(p)] = pc[RpcThread(p)]
        /\ phase'[RpcThread(p)] = Running <=> phase[RpcThread(p)] = Running
        /\ \A j \in Clients : j # k => pc'[<<p, j>>] = pc[<<p, j>>]
    BY <1>1, ThreadIds, Zenon DEF Kept
  <1>5. \A a \in {"rpc_pending_", "rpc_done_"} : <<p, a>> \notin N =>
          (notified'[<<p, a>>] = "kNotified" <=> notified[<<p, a>>] = "kNotified")
    BY <1>2, Zenon DEF Kept
  <1> QED  BY <1>1, <1>3, <1>4, <1>5, Zenon DEF CallStays

\* A client's step preserves the invariant if it preserves what it is about: the calls of
\* its process and who holds rpc_mutex_.
LEMMA ClientFrame ==
    ASSUME IInv, NEW p \in Procs, NEW k \in Clients, NEW N, Kept(<<p, k>>, N),
           \A m \in N : m \in {<<p, "rpc_pending_">>, <<p, "rpc_done_">>},
           Core', TypeOK', NoCheckFails', UNCHANGED evars,
           \A q \in Procs : q # p => /\ mutex'[q] = mutex[q] /\ rpc_req'[q] = rpc_req[q]
                                     /\ rpc_res'[q] = rpc_res[q],
           QuietAt(p)', \A j \in Clients : MutualAt(p, j)' /\ CallAt(p, j)'
    PROVE  IInv'
  <1> DEFINE th == <<p, k>>
  <1>1. /\ th \in Threads /\ th[1] = p /\ th # Main(p) /\ th # Parent(p) /\ th # RpcThread(p)
        /\ \A c \in Cpus : th # <<p, c>>
    BY ProcessAssumption DEF Main, Parent, RpcThread, Threads
  <1>2. Kept(th, N)
    OBVIOUS
  <1> HIDE DEF th
  <1>3. ServingAt(p)'
    <2>1. is_online'[p] = is_online[p] /\ ServingAt(p)
      BY Zenon DEF evars, IInv, Calls
    <2> QED  BY <1>1, <1>2, <2>1, ServingKept, Zenon
  <1> QED  BY <1>1, <1>2, <1>3, CallFrame, Zenon

\* A step inside Rpc.
LEMMA InsideRpc ==
    ASSUME IInv, NEW p \in Procs, NEW k \in Clients, NEW N, Kept(<<p, k>>, N),
           \A m \in N : m \in {<<p, "rpc_pending_">>, <<p, "rpc_done_">>},
           Core', fault' = FALSE, UNCHANGED <<evars, cvars>>, mutex[p] = k,
           pc'[<<p, k>>][1] \notin {"idle", "gone"}, CallAt(p, k)'
    PROVE  IInv'
  <1>1. TypeOK' /\ NoCheckFails' /\ UNCHANGED evars /\ UNCHANGED <<mutex, rpc_req, rpc_res>>
    BY Types, Zenon DEF IInv, cvars
  <1>2. CallStays(p, k, N)
    BY ClientLocal, Zenon
  <1>3. QuietAt(p)'
    BY ONLY <1>1, <1>2, mutex[p] = k, Zenon DEF QuietAt, CallStays
  <1>4. ASSUME NEW j \in Clients  PROVE MutualAt(p, j)' /\ CallAt(p, j)'
    <2>1. CASE j = k
      BY <1>1, <2>1, Zenon DEF MutualAt
    <2>2. CASE j # k
      BY ONLY <1>1, <1>2, <2>2, mutex[p] = k, j \in Clients, Zenon
      DEF MutualAt, CallAt, CallStays
    <2> QED  BY <2>1, <2>2
  <1>5. \A q \in Procs : q # p => /\ mutex'[q] = mutex[q] /\ rpc_req'[q] = rpc_req[q]
                                  /\ rpc_res'[q] = rpc_res[q]
    BY <1>1, Zenon
  <1> QED  BY <1>1, <1>3, <1>4, <1>5, ClientFrame, Zenon

\* A request enters shared memory under rpc_mutex_.
LEMMA PerformRpcStep ==
    ASSUME IInv, NEW p \in Procs, NEW k \in Clients, PerformRpc(p, k)
    PROVE  IInv'
  <1> DEFINE th == <<p, k>>
  <1>0. TypeOK /\ Phased /\ Waits /\ NoLostWakeup /\ NoCheckFails
    BY Zenon DEF IInv
  <1>1. th \in Threads /\ <<"rpc_pending_">> \in Places /\ <<"idle">>[1] \notin Names
    BY ThreadIds DEF Places, Labels, Names
  <1>2. /\ Step(th, <<"idle">>, <<"rpc_pending_">>) /\ pc[Parent(p)] = <<"up">> /\ mutex[p] = None
        /\ mutex' = [mutex EXCEPT ![p] = k] /\ calls' = [calls EXCEPT ![p] = @ + 1]
        /\ rpc_req' = [rpc_req EXCEPT ![p] = <<k, calls[p] + 1>>]
        /\ UNCHANGED <<fault, evars, rpc_res>>
    BY Zenon DEF PerformRpc
  <1>o. Core' /\ StepOutcome(th, <<"idle">>, <<"rpc_pending_">>)
    BY <1>0, <1>1, <1>2, PlainStep, Zenon
  <1>3. Kept(th, {}) /\ phase'[th] = Running /\ pc'[th] = <<"rpc_pending_">>
    BY <1>o, Zenon DEF StepOutcome
  <1>4. /\ mutex' \in [Procs -> Clients \cup {None}] /\ mutex'[p] = k
        /\ rpc_req' \in [Procs -> (Clients \X (Nat \ {0})) \cup {NoCall}] /\ rpc_req'[p][1] = k
        /\ calls' \in [Procs -> Nat]
        /\ \A q \in Procs : q # p => /\ mutex'[q] = mutex[q] /\ rpc_req'[q] = rpc_req[q]
                                     /\ rpc_res'[q] = rpc_res[q]
    BY <1>0, <1>2 DEF TypeOK
  <1>5. TypeOK' /\ NoCheckFails'
    <2>1. UNCHANGED <<fault, is_online, online, agents, agentOn, stale, rpc_res>>
      BY <1>2, Zenon DEF evars
    <2> QED  BY ONLY <1>0, <1>o, <1>4, <2>1, Zenon DEF TypeOK, Core, Places, NoCheckFails
  <1>6. CallStays(p, k, {})
    BY <1>3, ClientLocal, Zenon
  <1>7. pc'[th][1] = "rpc_pending_" /\ pc[Parent(p)][1] = "up"
    BY <1>2, <1>3
  <1>8. QuietAt(p)'
    BY ONLY <1>4, <1>6, Zenon DEF QuietAt, CallStays
  <1>9. ASSUME NEW j \in Clients  PROVE MutualAt(p, j)' /\ CallAt(p, j)'
    <2>1. CASE j = k
      BY ONLY <1>2, <1>3, <1>4, <1>6, <1>7, <2>1, Zenon
      DEF MutualAt, CallAt, CallStays, CallOK, QuietAt, Quiet, Rests
    <2>2. CASE j # k
      BY ONLY <1>2, <1>4, <1>6, <2>2, j \in Clients, Zenon DEF MutualAt, CallAt, CallStays
    <2> QED  BY <2>1, <2>2
  <1>10. UNCHANGED evars
    BY <1>2, Zenon
  <1> QED  BY <1>o, <1>3, <1>4, <1>5, <1>8, <1>9, <1>10, ClientFrame

\* The request is posted, and the RPC thread woken up.
LEMMA NotifyRpcPendingStep ==
    ASSUME IInv, NEW p \in Procs, NEW k \in Clients, NotifyRpcPending(p, k)
    PROVE  IInv'
  <1> DEFINE th == <<p, k>>
             n == <<p, "rpc_pending_">>
  <1>0. TypeOK /\ Phased /\ Waits /\ NoLostWakeup /\ NoCheckFails
    BY Zenon DEF IInv
  <1>1. /\ th \in Threads /\ n \in Notifs /\ th[1] = p /\ n[2] = "rpc_pending_" /\ n[1] = p
        /\ <<"rpc_done_">> \in Places /\ <<"rpc_pending_">>[1] = "rpc_pending_"
        /\ \A q \in Procs : th # Main(q)
    <2>1. \A q \in Procs : th # Main(q)
      BY ProcessAssumption DEF Main
    <2> QED  BY <2>1, ThreadIds, NotifIds, ZenonT(60) DEF Places, Labels
  <1>2. /\ Notify(th, n, <<"rpc_pending_">>, <<"rpc_done_">>) /\ UNCHANGED <<evars, cvars>>
        /\ Calling(th, n, <<"rpc_pending_">>)
    BY <1>1, Zenon DEF NotifyRpcPending, Calling
  <1>3. MutualAt(p, k) /\ CallAt(p, k)
    BY Zenon DEF IInv, Mutual, Calls
  <1>4. pc[th] = <<"rpc_pending_">> /\ phase[th] = Running => notified[n] # "kNotified"
    BY ONLY <1>1, <1>3 DEF MutualAt, CallAt, CallOK, Quiet
  <1>o. Core' /\ fault' = FALSE /\ NotifyOutcome(th, n, <<"rpc_pending_">>, <<"rpc_done_">>)
    <2> HIDE DEF th, n
    <2> QED  BY ONLY <1>0, <1>1, <1>2, <1>4, NotifyStep, Zenon
  <1>5. Kept(th, {n})
    BY <1>o, Zenon DEF NotifyOutcome
  <1>6. /\ pc[th][1] = "rpc_pending_"
        /\ \/ /\ phase[th] = Running /\ pc'[th][1] = "rpc_pending_"
              /\ phase'[th] # Running /\ notified'[n] = "kNotified"
           \/ /\ phase[th] = Running /\ pc'[th][1] = "rpc_done_" /\ notified'[n] = "kNotified"
           \/ /\ phase[th] # Running /\ pc'[th][1] = "rpc_done_"
              /\ notified'[n] = "kNotified" <=> notified[n] = "kNotified"
    BY <1>o DEF NotifyOutcome
  <1>7. CallStays(p, k, {n}) /\ <<p, "rpc_done_">> \notin {n}
    BY <1>5, ClientLocal, ZenonT(60)
  <1>8. mutex[p] = k /\ pc'[th][1] \notin {"idle", "gone"}
    BY <1>3, <1>6 DEF MutualAt
  <1>9. UNCHANGED <<mutex, rpc_req, rpc_res>>
    BY <1>2, Zenon DEF cvars
  <1>10. CallAt(p, k)'
    BY ONLY <1>6, <1>7, <1>8, <1>9, Zenon
    DEF CallStays, CallAt, CallOK, Quiet, Rests, Asked, Handled, Answered
  <1> QED  BY <1>o, <1>2, <1>5, <1>8, <1>10, InsideRpc, ZenonT(60)

\* The caller waits for the answer, and takes it.
LEMMA AwaitRpcDoneStep ==
    ASSUME IInv, NEW p \in Procs, NEW k \in Clients, AwaitRpcDone(p, k)
    PROVE  IInv'
  <1> DEFINE th == <<p, k>>
             n == <<p, "rpc_done_">>
  <1>0. TypeOK /\ Phased /\ Waits /\ NoLostWakeup /\ NoCheckFails
    BY Zenon DEF IInv
  <1>1. /\ th \in Threads /\ n \in Notifs /\ th[1] = p /\ n[2] = "rpc_done_" /\ n[1] = p
        /\ th[2] \in Clients /\ n[2] # "rpc_pending_"
        /\ <<"reset">> \in Places /\ <<"rpc_done_">>[1] = "rpc_done_"
        /\ \A q \in Procs : th # Main(q)
    <2>1. \A q \in Procs : th # Main(q)
      BY ProcessAssumption DEF Main
    <2> QED  BY <2>1, ThreadIds, NotifIds, ZenonT(60) DEF Places, Labels
  <1>2. /\ WaitForNotification(th, n, <<"rpc_done_">>, <<"reset">>) /\ UNCHANGED <<evars, cvars>>
        /\ Calling(th, n, <<"rpc_done_">>)
    BY <1>1, Zenon DEF AwaitRpcDone, Calling
  <1>o. Core' /\ fault' = FALSE /\ WaitOutcome(th, n, <<"rpc_done_">>, <<"reset">>)
    <2> HIDE DEF th, n
    <2> QED  BY ONLY <1>0, <1>1, <1>2, WaitStep, Zenon
  <1>3. MutualAt(p, k) /\ CallAt(p, k)
    BY Zenon DEF IInv, Mutual, Calls
  <1>4. Kept(th, {})
    BY <1>o, Zenon DEF WaitOutcome
  <1>5. /\ pc[th][1] = "rpc_done_"
        /\ \/ pc'[th][1] = "rpc_done_"
           \/ pc'[th][1] = "reset" /\ notified[n] = "kNotified"
    BY <1>o DEF WaitOutcome
  <1>6. CallStays(p, k, {})
    BY <1>4, ClientLocal, Zenon
  <1>7. mutex[p] = k /\ pc'[th][1] \notin {"idle", "gone"}
    BY <1>3, <1>5 DEF MutualAt
  <1>8. UNCHANGED <<mutex, rpc_req, rpc_res>>
    BY <1>2, Zenon DEF cvars
  <1>9. CallAt(p, k)'
    BY ONLY <1>5, <1>6, <1>7, <1>8, Zenon
    DEF CallStays, CallAt, CallOK, Quiet, Rests, Asked, Handled, Answered
  <1>10. Kept(th, {n})
    BY <1>4, Zenon DEF Kept
  <1> QED  BY <1>o, <1>2, <1>7, <1>9, <1>10, InsideRpc, ZenonT(60)

\* rpc_done_ is reset: another client that waited for it would hold rpc_mutex_.
LEMMA ResetRpcDoneStep ==
    ASSUME IInv, NEW p \in Procs, NEW k \in Clients, ResetRpcDone(p, k)
    PROVE  IInv'
  <1> DEFINE th == <<p, k>>
             n == <<p, "rpc_done_">>
  <1>0. TypeOK /\ Phased /\ Waits /\ NoLostWakeup /\ NoCheckFails
    BY Zenon DEF IInv
  <1>1. /\ th \in Threads /\ n \in Notifs /\ n[2] = "rpc_done_" /\ n[1] = p
        /\ <<"return">> \in Places
    BY ThreadIds, NotifIds, ZenonT(60) DEF Places, Labels
  <1>2. Reset(th, n, <<"reset">>, <<"return">>) /\ UNCHANGED <<evars, cvars>>
    BY Zenon DEF ResetRpcDone
  <1>3. /\ \A j \in Clients : MutualAt(p, j)
        /\ CallAt(p, k) /\ pc[th] = <<"reset">> /\ phase[th] = Running
    BY <1>2, Zenon DEF IInv, Mutual, Calls, Reset
  <1>4. mutex[p] = k
    BY <1>3 DEF MutualAt
  <1>5. ASSUME NEW u \in Threads  PROVE phase[u] \notin {<<"calling", n>>, <<"asleep", n>>}
    <2> SUFFICES ASSUME phase[u] \in {<<"calling", n>>, <<"asleep", n>>}  PROVE FALSE
      OBVIOUS
    <2>1. phase[u] # Running /\ phase[u][2] = n
      BY PhasesApart
    <2>2. u[1] = p /\ u[2] \in Clients /\ pc[u][1] = "rpc_done_"
      BY <1>0, <1>1, <2>1, Zenon DEF Phased, Waits
    <2>3. u = <<p, u[2]>>
      BY <2>2 DEF Threads
    <2>4. mutex[p] = u[2]
      BY <1>3, <2>2, <2>3 DEF MutualAt
    <2> QED  BY <1>3, <1>4, <2>1, <2>3, <2>4, Zenon
  <1>o. Core' /\ fault' = FALSE /\ ResetOutcome(th, n, <<"reset">>, <<"return">>)
    <2>1. \A u \in Threads : phase[u] \notin {<<"calling", n>>, <<"asleep", n>>}
      BY <1>5
    <2> HIDE DEF th, n
    <2> QED  BY ONLY <1>0, <1>1, <1>2, <2>1, ResetStep, Zenon
  <1>6. Kept(th, {n}) /\ notified'[n] = "kNoWaiter" /\ pc'[th] = <<"return">>
    BY <1>o, Zenon DEF ResetOutcome
  <1>7. /\ pc[th][1] = "reset" /\ pc'[th][1] = "return" /\ notified'[n] # "kNotified"
        /\ pc'[th][1] \notin {"idle", "gone"}
    BY <1>3, <1>6
  <1>8. CallStays(p, k, {n}) /\ <<p, "rpc_pending_">> \notin {n}
    BY <1>6, ClientLocal
  <1>9. UNCHANGED <<mutex, rpc_req, rpc_res>>
    BY <1>2, Zenon DEF cvars
  <1>10. CallAt(p, k)'
    BY ONLY <1>4, <1>7, <1>8, <1>9, Zenon
    DEF CallStays, CallAt, CallOK, Quiet, Rests, Answered
  <1> QED  BY <1>o, <1>2, <1>4, <1>6, <1>7, <1>10, InsideRpc, ZenonT(60)

\* The mutex is released when no request and no answer is left posted.
LEMMA RpcReturnsStep ==
    ASSUME IInv, NEW p \in Procs, NEW k \in Clients, RpcReturns(p, k)
    PROVE  IInv'
  <1> DEFINE th == <<p, k>>
  <1>0. TypeOK /\ Phased /\ Waits /\ NoLostWakeup /\ NoCheckFails
    BY Zenon DEF IInv
  <1>1. th \in Threads /\ <<"idle">> \in Places /\ <<"return">>[1] \notin Names
    BY ThreadIds DEF Places, Labels, Names
  <1>2. /\ Step(th, <<"return">>, <<"idle">>) /\ mutex' = [mutex EXCEPT ![p] = None]
        /\ UNCHANGED <<fault, evars, rpc_req, rpc_res, calls>>
    BY Zenon DEF RpcReturns
  <1>o. Core' /\ StepOutcome(th, <<"return">>, <<"idle">>)
    BY <1>0, <1>1, <1>2, PlainStep, Zenon
  <1>3. Kept(th, {}) /\ pc[th] = <<"return">> /\ pc'[th] = <<"idle">>
    BY <1>o, Zenon DEF StepOutcome
  <1>4. /\ mutex' \in [Procs -> Clients \cup {None}] /\ mutex'[p] = None
        /\ \A q \in Procs : q # p => mutex'[q] = mutex[q]
    BY <1>0, <1>2 DEF TypeOK
  <1>5. TypeOK' /\ NoCheckFails'
    <2>1. UNCHANGED <<fault, is_online, online, agents, agentOn, stale, rpc_req, rpc_res, calls>>
      BY <1>2, Zenon DEF evars
    <2> QED  BY ONLY <1>0, <1>o, <1>4, <2>1, Zenon DEF TypeOK, Core, Places, NoCheckFails
  <1>6. CallStays(p, k, {})
    BY <1>3, ClientLocal, Zenon
  <1>7. pc[th][1] = "return" /\ pc'[th][1] = "idle"
    BY <1>3
  <1>8. mutex[p] = k
    BY <1>6, <1>7 DEF MutualAt, CallStays
  <1>9. QuietAt(p)'
    BY ONLY <1>6, <1>7, <1>8, Zenon DEF QuietAt, CallStays, CallAt, CallOK, Quiet, Rests
  <1>10. ASSUME NEW j \in Clients  PROVE MutualAt(p, j)' /\ CallAt(p, j)'
    <2>1. mutex'[p] # j
      BY <1>4, <1>6, Zenon DEF CallStays
    <2>2. pc'[<<p, j>>][1] \in {"idle", "gone"}
      BY ONLY <1>6, <1>7, <1>8, j \in Clients, Zenon DEF MutualAt, CallStays
    <2> QED  BY <2>1, <2>2, Zenon DEF MutualAt, CallAt
  <1>11. /\ UNCHANGED evars
         /\ \A q \in Procs : q # p => /\ mutex'[q] = mutex[q] /\ rpc_req'[q] = rpc_req[q]
                                      /\ rpc_res'[q] = rpc_res[q]
    BY <1>2, <1>4, Zenon
  <1> QED  BY <1>o, <1>3, <1>5, <1>9, <1>10, <1>11, ClientFrame

-----------------------------------------------------------------------------
(* The parent. *)

\* What a step of the parent does not change.
ChildStays(p, N) ==
    /\ pc'[Main(p)] = pc[Main(p)] /\ (phase'[Main(p)] = Running <=> phase[Main(p)] = Running)
    /\ \A a \in {"agent_ready_", "kill_agent_"} : <<p, a>> \notin N =>
         (notified'[<<p, a>>] = "kNotified" <=> notified[<<p, a>>] = "kNotified")
    /\ ParentAt(p)

\* What a step of the parent leaves as it was in its own process.
LEMMA ParentLocal ==
    ASSUME IInv, NEW p \in Procs, NEW N, Kept(Parent(p), N)
    PROVE  ChildStays(p, N)
  <1>1. Main(p) # Parent(p) /\ Main(p) \in Threads
    BY ThreadIds DEF Main, Parent
  <1>2. \A a \in {"agent_ready_", "kill_agent_"} : <<p, a>> \in Notifs
    BY NotifIds, Zenon
  <1>3. /\ pc'[Main(p)] = pc[Main(p)] /\ (phase'[Main(p)] = Running <=> phase[Main(p)] = Running)
        /\ ParentAt(p)
    BY <1>1, Zenon DEF Kept, IInv, Parents
  <1>4. \A a \in {"agent_ready_", "kill_agent_"} : <<p, a>> \notin N =>
          (notified'[<<p, a>>] = "kNotified" <=> notified[<<p, a>>] = "kNotified")
    BY <1>2, Zenon DEF Kept
  <1> QED  BY <1>3, <1>4, Zenon DEF ChildStays

\* The parent takes a step while no client is inside Rpc.
LEMMA ParentFrame ==
    ASSUME IInv, NEW p \in Procs, NEW N, Kept(Parent(p), N),
           \A m \in N : m \in {<<p, "agent_ready_">>, <<p, "kill_agent_">>},
           Core', fault' = FALSE, UNCHANGED <<evars, cvars>>,
           ParentAt(p)', \A k \in Clients : mutex[p] # k
    PROVE  IInv'
  <1> DEFINE th == Parent(p)
  <1>1. /\ \A m \in N : m[1] = p
        /\ \A m \in N : m[2] \notin {"ready_", "enclave_ready_", "finished_", "do_exit_"}
        /\ <<p, "rpc_pending_">> \notin N /\ <<p, "rpc_done_">> \notin N
    OBVIOUS
  <1>2. /\ th \in Threads /\ th[1] = p /\ th # Main(p) /\ th # RpcThread(p)
        /\ \A c \in Cpus : th # <<p, c>>
        /\ \A k \in Clients : th # <<p, k>>
    BY ProcessAssumption DEF Main, Parent, RpcThread, Threads
  <1>3. Kept(th, N) /\ UNCHANGED evars /\ UNCHANGED <<mutex, rpc_req, rpc_res>>
    BY Zenon DEF cvars
  <1> HIDE DEF th
  <1>4. AgentsAt(p)'
    BY <1>1, <1>2, <1>3, Aside, Zenon
  <1>5. ServingAt(p)'
    <2>1. is_online'[p] = is_online[p] /\ ServingAt(p)
      BY Zenon DEF evars, IInv, Calls
    <2> QED  BY <1>2, <1>3, <2>1, ServingKept, Zenon
  <1>6. QuietAt(p)'
    <2>1. /\ pc'[RpcThread(p)] = pc[RpcThread(p)]
          /\ phase'[RpcThread(p)] = Running <=> phase[RpcThread(p)] = Running
      BY <1>2, <1>3, ThreadIds, Zenon DEF Kept
    <2>2. <<p, "rpc_pending_">> \in Notifs /\ <<p, "rpc_done_">> \in Notifs
      BY NotifIds, Zenon
    <2>3. /\ notified'[<<p, "rpc_pending_">>] = "kNotified"
               <=> notified[<<p, "rpc_pending_">>] = "kNotified"
          /\ notified'[<<p, "rpc_done_">>] = "kNotified"
               <=> notified[<<p, "rpc_done_">>] = "kNotified"
      BY <1>1, <1>3, <2>2, Zenon DEF Kept
    <2>4. QuietAt(p)
      BY Zenon DEF IInv, Calls
    <2> QED  BY ONLY <1>3, <2>1, <2>3, <2>4, Zenon DEF QuietAt, Quiet, Rests
  <1>7. ASSUME NEW k \in Clients  PROVE MutualAt(p, k)' /\ CallAt(p, k)'
    <2>1. pc'[<<p, k>>] = pc[<<p, k>>] /\ MutualAt(p, k)
      BY <1>2, <1>3, ThreadIds, Zenon DEF Kept, IInv, Mutual
    <2> QED  BY <1>3, <2>1, Zenon DEF MutualAt, CallAt
  <1>8. ProcessAt(p)'
    BY <1>4, <1>5, <1>6, <1>7, Zenon DEF ProcessAt, AgentsAt
  <1>9. KeptBut(p)
    BY <1>1, <1>2, <1>3, KeptButs, Zenon
  <1>10. \A q \in Procs : q # p => KeptVars(q)
    BY <1>3, Zenon DEF KeptVars, evars
  <1>11. TypeOK' /\ NoCheckFails'
    BY Types, Zenon DEF IInv
  <1> QED  BY <1>4, <1>8, <1>9, <1>10, <1>11, ProcessFrame, Zenon DEF AgentsAt

\* The constructor waits until the main thread has advertised itself.
LEMMA AwaitAgentReadyStep ==
    ASSUME IInv, NEW p \in Procs, AwaitAgentReady(p)
    PROVE  IInv'
  <1> DEFINE th == Parent(p)
             n == <<p, "agent_ready_">>
  <1>0. TypeOK /\ Phased /\ Waits /\ NoLostWakeup /\ NoCheckFails
    BY Zenon DEF IInv
  <1>1. /\ th \in Threads /\ n \in Notifs /\ th[1] = p /\ n[2] = "agent_ready_" /\ n[1] = p
        /\ n[2] \notin {"rpc_pending_", "rpc_done_"}
        /\ <<"up">> \in Places /\ <<"agent_ready_">>[1] = "agent_ready_"
        /\ \A q \in Procs : th # Main(q)
    BY ThreadIds, NotifIds, ZenonT(60) DEF Places, Labels, Main, Parent
  <1>2. /\ WaitForNotification(th, n, <<"agent_ready_">>, <<"up">>) /\ UNCHANGED <<evars, cvars>>
        /\ Calling(th, n, <<"agent_ready_">>)
    BY <1>1, Zenon DEF AwaitAgentReady, Calling
  <1>o. Core' /\ fault' = FALSE /\ WaitOutcome(th, n, <<"agent_ready_">>, <<"up">>)
    <2>1. n[2] # "rpc_pending_" /\ n[2] # "rpc_done_"
      BY <1>1
    <2> HIDE DEF th, n
    <2> QED  BY ONLY <1>0, <1>1, <1>2, <2>1, WaitStep, Zenon
  <1>3. Kept(th, {n})
    BY <1>o, Zenon DEF WaitOutcome, Kept
  <1>4. /\ pc[th][1] = "agent_ready_"
        /\ \/ pc'[th][1] = "agent_ready_"
           \/ pc'[th][1] = "up" /\ notified[n] = "kNotified"
    BY <1>o DEF WaitOutcome
  <1>5. ChildStays(p, {})
    BY <1>o, ParentLocal, Zenon DEF WaitOutcome
  <1>6. ParentAt(p)'
    BY ONLY <1>4, <1>5, ZenonT(60) DEF ChildStays, ParentAt, ParentOK, EndLabels
  <1>7. ASSUME NEW k \in Clients  PROVE mutex[p] # k
    <2>1. CallAt(p, k)
      BY Zenon DEF IInv, Calls
    <2> QED  BY ONLY <1>4, <2>1 DEF CallAt
  <1> QED  BY <1>o, <1>2, <1>3, <1>6, <1>7, ParentFrame, ZenonT(60)

\* The destructor begins when no client is inside Rpc.
LEMMA DestroyStep ==
    ASSUME IInv, NEW p \in Procs, Destroy(p)
    PROVE  IInv'
  <1> DEFINE th == Parent(p)
  <1>0. TypeOK /\ Phased /\ Waits /\ NoLostWakeup /\ NoCheckFails
    BY Zenon DEF IInv
  <1>1. th \in Threads /\ <<"kill_agent_">> \in Places /\ <<"up">>[1] \notin Names
    BY ThreadIds DEF Places, Labels, Names
  <1>2. /\ Step(th, <<"up">>, <<"kill_agent_">>) /\ UNCHANGED <<fault, evars, cvars>>
        /\ \A k \in Clients : pc[<<p, k>>] = <<"idle">>
    BY Zenon DEF Destroy
  <1>o. Core' /\ StepOutcome(th, <<"up">>, <<"kill_agent_">>)
    BY <1>0, <1>1, <1>2, PlainStep, Zenon
  <1>3. Kept(th, {}) /\ pc[th] = <<"up">> /\ pc'[th] = <<"kill_agent_">>
    BY <1>o, Zenon DEF StepOutcome
  <1>4. Kept(th, {<<p, "kill_agent_">>})
    BY <1>3, Zenon DEF Kept
  <1>5. pc[th][1] = "up" /\ pc'[th][1] = "kill_agent_"
    BY <1>3
  <1>6. ChildStays(p, {})
    BY <1>3, ParentLocal, Zenon
  <1>7. ParentAt(p)'
    BY ONLY <1>5, <1>6 DEF ChildStays, ParentAt, ParentOK, EndLabels
  <1>8. ASSUME NEW k \in Clients  PROVE mutex[p] # k
    <2>1. MutualAt(p, k)
      BY Zenon DEF IInv, Mutual
    <2> QED  BY <1>2, <2>1 DEF MutualAt
  <1>9. fault' = FALSE
    BY <1>0, <1>2 DEF NoCheckFails, TypeOK
  <1>10. Core' /\ UNCHANGED <<evars, cvars>>
    BY <1>o, <1>2, Zenon
  <1> QED  BY <1>4, <1>7, <1>8, <1>9, <1>10, ParentFrame, ZenonT(60)

\* kill_agent_ is posted once.
LEMMA KillAgentStep ==
    ASSUME IInv, NEW p \in Procs, KillAgent(p)
    PROVE  IInv'
  <1> DEFINE th == Parent(p)
             n == <<p, "kill_agent_">>
  <1>0. TypeOK /\ Phased /\ Waits /\ NoLostWakeup /\ NoCheckFails
    BY Zenon DEF IInv
  <1>1. /\ th \in Threads /\ n \in Notifs /\ th[1] = p /\ n[2] = "kill_agent_" /\ n[1] = p
        /\ <<"reap">> \in Places /\ <<"kill_agent_">>[1] = "kill_agent_"
        /\ \A q \in Procs : th # Main(q)
    BY ThreadIds, NotifIds, ZenonT(60) DEF Places, Labels, Main, Parent
  <1>2. /\ Notify(th, n, <<"kill_agent_">>, <<"reap">>) /\ UNCHANGED <<evars, cvars>>
        /\ Calling(th, n, <<"kill_agent_">>)
    BY <1>1, Zenon DEF KillAgent, Calling
  <1>3. ParentAt(p)
    BY Zenon DEF IInv, Parents
  <1>4. pc[th] = <<"kill_agent_">> /\ phase[th] = Running => notified[n] # "kNotified"
    BY ONLY <1>1, <1>3 DEF ParentAt, ParentOK
  <1>o. Core' /\ fault' = FALSE /\ NotifyOutcome(th, n, <<"kill_agent_">>, <<"reap">>)
    <2> HIDE DEF th, n
    <2> QED  BY ONLY <1>0, <1>1, <1>2, <1>4, NotifyStep, Zenon
  <1>5. Kept(th, {n})
    BY <1>o, Zenon DEF NotifyOutcome
  <1>6. /\ pc[th][1] = "kill_agent_"
        /\ \/ phase'[th] # Running /\ pc'[th][1] = "kill_agent_"
           \/ pc'[th][1] = "reap"
    BY <1>o DEF NotifyOutcome
  <1>7. ChildStays(p, {n}) /\ <<p, "agent_ready_">> \notin {n}
    BY <1>5, ParentLocal, ZenonT(60)
  <1>8. ParentAt(p)'
    BY ONLY <1>6, <1>7, ZenonT(60) DEF ChildStays, ParentAt, ParentOK, EndLabels
  <1>9. ASSUME NEW k \in Clients  PROVE mutex[p] # k
    <2>1. CallAt(p, k)
      BY Zenon DEF IInv, Calls
    <2> QED  BY ONLY <1>6, <2>1, ZenonT(60) DEF CallAt
  <1> QED  BY <1>o, <1>2, <1>5, <1>8, <1>9, ParentFrame, ZenonT(60)

-----------------------------------------------------------------------------
(* Steps that move several threads. *)

\* Threads that are inside no operation are moved.
LEMMA MovesCore ==
    ASSUME TypeOK, Phased, Waits, NoLostWakeup, UNCHANGED <<notified, phase>>,
           pc' \in [Threads -> Places],
           \A u \in Threads : pc'[u] = pc[u] \/ phase[u] = Running
    PROVE  Core'
  <1>1. notified \in [Notifs -> NotifiedState] /\ phase \in [Threads -> Phases]
    BY DEF TypeOK
  <1>2. Phased'
    BY ThreadIds, Zenon DEF Phased
  <1>3. Waits' /\ NoLostWakeup'
    BY Zenon DEF Waits, NoLostWakeup
  <1> QED  BY <1>1, <1>2, <1>3, Zenon DEF Core

\* The memory of process p is gone, and its threads run nowhere.
LEMMA ForgetCore ==
    ASSUME TypeOK, Phased, Waits, NoLostWakeup, NEW p \in Procs, Forget(p),
           pc' \in [Threads -> Places], \A u \in Threads : u[1] # p => pc'[u] = pc[u]
    PROVE  /\ Core' /\ KeptBut(p)
           /\ \A u \in Threads : u[1] = p => phase'[u] = Running
           /\ \A m \in Notifs : m[1] = p => notified'[m] # "kNotified"
  <1>0. notified \in [Notifs -> NotifiedState] /\ phase \in [Threads -> Phases]
    BY DEF TypeOK
  <1>1. /\ \A m \in Notifs : notified'[m] = IF m[1] = p THEN "kNoWaiter" ELSE notified[m]
        /\ \A u \in Threads : phase'[u] = IF u[1] = p THEN Running ELSE phase[u]
        /\ notified' \in [Notifs -> NotifiedState] /\ phase' \in [Threads -> Phases]
    BY <1>0 DEF Forget, NotifiedState, Phases
  <1>2. Phased'
    <2>1. \A q \in Procs : Main(q)[1] = q
      BY DEF Main
    <2>2. \A u \in Threads : phase'[u] # Running => u[1] # p /\ phase'[u] = phase[u]
      BY <1>1, Zenon
    <2> QED  BY ONLY <2>1, <2>2, ThreadIds, Phased, \A u \in Threads : u[1] # p => pc'[u] = pc[u],
             Zenon DEF Phased
  <1>3. ASSUME NEW u \in Threads, NEW m \in Notifs, NEW a \in {"calling", "asleep", "waking"}
        PROVE  /\ phase'[u] = <<a, m>> => /\ u[1] # p /\ phase[u] = <<a, m>> /\ m[1] # p
                                          /\ notified'[m] = notified[m]
               /\ m[1] # p /\ phase[u] = <<a, m>> => phase'[u] = <<a, m>>
    <2>1. <<a, m>> # Running /\ <<a, m>>[2] = m
      BY PhasesApart
    <2>2. ASSUME phase[u] = <<a, m>>  PROVE m[1] = u[1]
      <3>1. phase[u] # Running /\ phase[u][2] = m
        BY <2>1, <2>2
      <3> QED  BY <3>1, Zenon DEF Phased
    <2> QED  BY <1>1, <2>1, <2>2, Zenon
  <1>4. Waits'
    BY <1>3, ZenonT(60) DEF Waits
  <1>5. NoLostWakeup'
    BY <1>3, Zenon DEF NoLostWakeup
  <1>6. KeptBut(p)
    BY <1>1, Zenon DEF KeptBut
  <1>7. /\ \A u \in Threads : u[1] = p => phase'[u] = Running
        /\ \A m \in Notifs : m[1] = p => notified'[m] # "kNotified"
    BY <1>1
  <1> QED  BY <1>1, <1>2, <1>4, <1>5, <1>6, <1>7, Zenon DEF Core

\* Nothing of process p is posted, held or attached, and no thread is inside an operation.
Blank(p) ==
    /\ \A u \in Threads : u[1] = p => phase[u] = Running
    /\ \A m \in Notifs : m[1] = p => notified[m] # "kNotified"
    /\ is_online[p] = FALSE /\ agents[p] = {} /\ mutex[p] = None

\* A process whose memory goes leaves nothing behind, and the others alone.
LEMMA ForgetVars ==
    ASSUME IInv, NEW p \in Procs, Forget(p), UNCHANGED <<fault, online, agentOn, calls>>,
           pc' \in [Threads -> Places], \A u \in Threads : u[1] # p => pc'[u] = pc[u]
    PROVE  /\ Core' /\ KeptBut(p) /\ Blank(p)' /\ TypeOK' /\ NoCheckFails'
           /\ \A q \in Procs : q # p => KeptVars(q)
  <1>0. TypeOK /\ Phased /\ Waits /\ NoLostWakeup /\ NoCheckFails
    BY Zenon DEF IInv
  <1>1. /\ Core' /\ KeptBut(p)
        /\ \A u \in Threads : u[1] = p => phase'[u] = Running
        /\ \A m \in Notifs : m[1] = p => notified'[m] # "kNotified"
    BY <1>0, ForgetCore
  <1>2. /\ is_online'[p] = FALSE /\ agents'[p] = {} /\ mutex'[p] = None
        /\ \A q \in Procs : q # p =>
             /\ is_online'[q] = is_online[q] /\ mutex'[q] = mutex[q] /\ agents'[q] = agents[q]
             /\ rpc_req'[q] = rpc_req[q] /\ rpc_res'[q] = rpc_res[q]
    BY <1>0 DEF Forget, TypeOK
  <1>3. /\ is_online' \in [Procs -> BOOLEAN] /\ agents' \in [Procs -> SUBSET Cpus]
        /\ stale' \in [Procs \X Cpus -> BOOLEAN] /\ mutex' \in [Procs -> Clients \cup {None}]
        /\ rpc_req' \in [Procs -> (Clients \X (Nat \ {0})) \cup {NoCall}]
        /\ rpc_res' \in [Procs -> (Clients \X (Nat \ {0})) \cup {NoCall, ENODEV}]
    BY <1>0 DEF Forget, TypeOK
  <1>4. TypeOK' /\ NoCheckFails'
    BY ONLY <1>0, <1>1, <1>3, UNCHANGED <<fault, online, agentOn, calls>>, Zenon
    DEF TypeOK, Core, Places, NoCheckFails
  <1>5. Blank(p)'
    BY <1>1, <1>2, Zenon DEF Blank
  <1>6. \A q \in Procs : q # p => KeptVars(q)
    BY <1>2, Zenon DEF KeptVars
  <1> QED  BY <1>1, <1>4, <1>5, <1>6

\* AgentProcess is constructed: the child starts, alone.
LEMMA ForkStep ==
    ASSUME IInv, NEW p \in Procs, Fork(p)
    PROVE  IInv'
  <1>0. TypeOK /\ Phased /\ Waits /\ NoLostWakeup /\ NoCheckFails /\ Succession /\ ProcessAt(p)
    BY Processes, Zenon DEF IInv
  <1>1. /\ pc[Parent(p)] = <<"idle">> /\ \A q \in Procs : ~Starting(q)
        /\ pc' = [pc EXCEPT ![Parent(p)] = <<"agent_ready_">>, ![Main(p)] = <<"start">>]
        /\ UNCHANGED <<notified, phase>> /\ UNCHANGED <<fault, evars, cvars>>
    BY Zenon DEF Fork
  <1>2. /\ Main(p) \in Threads /\ Parent(p) \in Threads /\ Main(p) # Parent(p)
        /\ Main(p)[1] = p /\ Parent(p)[1] = p
        /\ \A c \in Cpus \cup Clients \cup {"rpc"} : <<p, c>> \notin {Main(p), Parent(p)}
    BY ThreadIds, ProcessAssumption DEF Main, Parent
  <1>3. /\ pc' \in [Threads -> Places] /\ pc'[Parent(p)] = <<"agent_ready_">>
        /\ pc'[Main(p)] = <<"start">>
        /\ \A u \in Threads : u \notin {Main(p), Parent(p)} => pc'[u] = pc[u]
    BY <1>0, <1>1, <1>2, ZenonT(60) DEF TypeOK, Places, Labels
  <1>4. /\ pc[Main(p)][1] = "none" /\ pc[Parent(p)][1] = "idle"
        /\ pc'[Main(p)][1] = "start" /\ pc'[Parent(p)][1] = "agent_ready_"
        /\ pc[Main(p)] = <<"none">>
    <2>1. pc[Parent(p)][1] = "idle" /\ ParentAt(p) /\ ShapeAt(p)
      BY <1>0, <1>1 DEF ProcessAt
    <2>2. pc[Main(p)][1] = "none"
      BY ONLY <2>1 DEF ParentAt, ParentOK
    <2>3. pc[Main(p)] = <<"none">>
      BY ONLY <2>1, <2>2 DEF ShapeAt, LoopLabels
    <2> QED  BY <1>3, <2>1, <2>2, <2>3
  <1>5. phase[Main(p)] = Running /\ phase[Parent(p)] = Running
    BY <1>0, <1>2, <1>4, NotInside DEF Names
  <1>6. Core'
    <2>1. \A u \in Threads : pc'[u] = pc[u] \/ phase[u] = Running
      BY <1>3, <1>5, Zenon
    <2> QED  BY <1>0, <1>1, <1>3, <2>1, MovesCore, Zenon
  <1>7. TypeOK' /\ NoCheckFails'
    <2>1. fault' = FALSE /\ UNCHANGED <<evars, cvars>>
      BY <1>0, <1>1 DEF NoCheckFails, TypeOK
    <2> QED  BY <1>0, <1>6, <2>1, Types, Zenon
  <1>8. /\ pc'[RpcThread(p)] = pc[RpcThread(p)]
        /\ \A c \in Cpus \cup Clients : pc'[<<p, c>>] = pc[<<p, c>>]
    BY <1>2, <1>3, ThreadIds DEF RpcThread
  <1>9. UNCHANGED <<is_online, online, agents, agentOn, mutex, rpc_req, rpc_res>>
    BY <1>1, Zenon DEF evars, cvars
  <1>10. ProcessAt(p)'
    <2>1. ShapeAt(p)'
      BY <1>3, ZenonT(60) DEF ShapeAt, Labels, LoopLabels
    <2>2. ParentAt(p)'
      <3>1. ParentAt(p)
        BY <1>0, Zenon DEF ProcessAt
      <3> QED  BY ONLY <1>1, <1>4, <3>1 DEF ParentAt, ParentOK, EndLabels
    <2>3. ServingAt(p)'
      <3>1. ServingAt(p)
        BY <1>0, Zenon DEF ProcessAt
      <3> QED  BY ONLY <1>4, <1>8, <1>9, <3>1 DEF ServingAt, StartLabels, ServeLabels
    <2>4. QuietAt(p)'
      BY <1>0, <1>1, <1>8, <1>9, Zenon DEF ProcessAt, QuietAt
    <2>5. ASSUME NEW k \in Clients  PROVE MutualAt(p, k)' /\ CallAt(p, k)'
      <3>1. MutualAt(p, k) /\ CallAt(p, k)
        BY <1>0, Zenon DEF ProcessAt
      <3>2. mutex[p] # k
        BY ONLY <1>4, <3>1, ZenonT(60) DEF CallAt
      <3> QED  BY <1>8, <1>9, <3>1, <3>2, Zenon DEF MutualAt, CallAt
    <2>6. ASSUME NEW c \in Cpus  PROVE AgentAt(p, c)'
      <3>1. AgentAt(p, c) /\ pc'[<<p, c>>] = pc[<<p, c>>]
        BY <1>0, <1>8, Zenon DEF ProcessAt
      <3> QED  BY ONLY <1>4, <1>9, <3>1 DEF AgentAt, AgentOK, ServeLabels, EndLabels
    <2>7. ASSUME NEW i \in 1 .. Last  PROVE ReadyAt(p, i)' /\ SignalAt(p, i)'
      <3>1. /\ ReadyAt(p, i) /\ SignalAt(p, i)
            /\ pc'[<<p, CpuList[i]>>] = pc[<<p, CpuList[i]>>]
        BY <1>0, <1>8, CpuFacts, ZenonT(60) DEF ProcessAt
      <3>2. ReadyAt(p, i)'
        BY ONLY <1>1, <1>4, <3>1, ZenonT(60) DEF ReadyAt, ReadyOK, ServeLabels, EndLabels
      <3>3. SignalAt(p, i)'
        BY ONLY <1>1, <1>4, <3>1
        DEF SignalAt, EnclaveReadyOK, FinishedOK, DoExitOK, ServeLabels, EndLabels, TurnLabels
      <3> QED  BY <3>2, <3>3
    <2> QED  BY <2>1, <2>2, <2>3, <2>4, <2>5, <2>6, <2>7, Zenon DEF ProcessAt
  <1>11. KeptBut(p) /\ \A q \in Procs : q # p => KeptVars(q)
    BY <1>1, <1>2, <1>3, <1>9, Zenon DEF KeptBut, KeptVars
  <1>12. \A q \in Procs : /\ pc[Main(q)][1] \notin StartLabels
                          /\ q # p => pc'[Main(q)] = pc[Main(q)]
    <2>1. ASSUME NEW q \in Procs  PROVE pc[Main(q)][1] \notin StartLabels
      <3>1. ~Starting(q) /\ ShapeAt(q)
        BY <1>1, Zenon DEF IInv, Shapes
      <3> QED  BY <3>1 DEF Starting, ShapeAt, StartLabels, LoopLabels
    <2>2. \A q \in Procs : q # p => Main(q) \notin {Main(p), Parent(p)}
      BY ZenonT(60) DEF Main, Parent
    <2> QED  BY <1>3, <2>1, <2>2, ThreadIds, ZenonT(60)
  <1>13. \A c \in Cpus : pc'[<<p, c>>][1] = "none"
    <2> TAKE c \in Cpus
    <2>1. AgentAt(p, c) /\ pc'[<<p, c>>] = pc[<<p, c>>]
      BY <1>0, <1>8, Zenon DEF ProcessAt
    <2> QED  BY ONLY <1>4, <2>1, ZenonT(60) DEF AgentAt, AgentOK
  <1>14. online # p
    BY <1>0, <1>4 DEF Succession, ServeLabels
  <1>15. Succession'
    BY ONLY <1>0, <1>9, <1>12, <1>13, <1>14, p \in Procs DEF Succession
  <1>16. OneProcessSchedules'
    <2>1. OneProcessSchedules /\ (online # None => online \in Procs)
      BY DEF IInv, TypeOK
    <2>2. online # None => pc'[Main(online)] = pc[Main(online)]
      BY <1>12, <1>14, <2>1, Zenon
    <2> QED  BY ONLY <1>9, <2>1, <2>2, Zenon DEF OneProcessSchedules
  <1> QED  BY <1>6, <1>7, <1>10, <1>11, <1>15, <1>16, ProcessFrame, Zenon

\* The child has exited and is reaped; the shared memory goes.
LEMMA WaitForChildExitStep ==
    ASSUME IInv, NEW p \in Procs, WaitForChildExit(p)
    PROVE  IInv'
  <1>0. TypeOK /\ Succession /\ OneProcessSchedules /\ ProcessAt(p)
    BY Processes, Zenon DEF IInv
  <1>1. /\ pc[Parent(p)] = <<"reap">> /\ pc[Main(p)] = <<"exited">>
        /\ pc' = [pc EXCEPT ![Parent(p)] = <<"done">>] /\ Forget(p)
        /\ UNCHANGED <<fault, online, agentOn, calls>>
    BY Zenon DEF WaitForChildExit, Goto
  <1>2. /\ Parent(p) \in Threads /\ Parent(p)[1] = p /\ Parent(p) # RpcThread(p)
        /\ \A q \in Procs : Parent(p) # Main(q)
        /\ \A q \in Procs, c \in Cpus \cup Clients : <<q, c>> # Parent(p)
    BY ThreadIds, ProcessAssumption, ZenonT(60) DEF Main, Parent, RpcThread
  <1>3. /\ pc' \in [Threads -> Places] /\ pc'[Parent(p)] = <<"done">>
        /\ \A u \in Threads : u # Parent(p) => pc'[u] = pc[u]
    BY <1>0, <1>1, <1>2 DEF TypeOK, Places, Labels
  <1>4. /\ Core' /\ KeptBut(p) /\ Blank(p)' /\ TypeOK' /\ NoCheckFails'
        /\ \A q \in Procs : q # p => KeptVars(q)
    <2>1. \A u \in Threads : u[1] # p => pc'[u] = pc[u]
      BY <1>2, <1>3, Zenon
    <2> QED  BY <1>1, <1>3, <2>1, ForgetVars
  <1>5. /\ \A q \in Procs : pc'[Main(q)] = pc[Main(q)]
        /\ pc'[RpcThread(p)] = pc[RpcThread(p)]
        /\ \A q \in Procs, c \in Cpus \cup Clients : pc'[<<q, c>>] = pc[<<q, c>>]
    BY <1>2, <1>3, ThreadIds, Zenon
  <1>6. /\ pc[Main(p)][1] = "exited" /\ pc'[Main(p)][1] = "exited"
        /\ pc[Parent(p)][1] = "reap" /\ pc'[Parent(p)][1] = "done"
    BY <1>1, <1>3, <1>5
  <1>7. ProcessAt(p)'
    <2>b. /\ \A a \in {"agent_ready_", "kill_agent_", "rpc_pending_", "rpc_done_"} :
               notified'[<<p, a>>] # "kNotified"
          /\ \A c \in Cpus : notified'[<<p, "ready_", c>>] # "kNotified"
          /\ \A c \in Cpus : phase'[<<p, c>>] = Running
          /\ is_online'[p] = FALSE /\ agents'[p] = {} /\ mutex'[p] = None
      <3>1. \A c \in Cpus : <<p, c>> \in Threads /\ <<p, c>>[1] = p
        BY ThreadIds
      <3>2. /\ \A a \in {"agent_ready_", "kill_agent_", "rpc_pending_", "rpc_done_"} :
                 <<p, a>> \in Notifs /\ <<p, a>>[1] = p
            /\ \A c \in Cpus : <<p, "ready_", c>> \in Notifs /\ <<p, "ready_", c>>[1] = p
        BY NotifIds
      <3> QED  BY ONLY <1>4, <3>1, <3>2, Zenon DEF Blank
    <2>1. ShapeAt(p)'
      BY <1>0, <1>5, ZenonT(60) DEF ShapeAt, ProcessAt
    <2>2. ParentAt(p)'
      BY ONLY <1>6, <2>b, ZenonT(60) DEF ParentAt, ParentOK, EndLabels
    <2>3. ServingAt(p)' /\ QuietAt(p)'
      <3>1. ServingAt(p)
        BY <1>0, Zenon DEF ProcessAt
      <3> QED  BY ONLY <1>5, <1>6, <2>b, <3>1
               DEF ServingAt, StartLabels, ServeLabels, QuietAt, Quiet, Rests
    <2>4. ASSUME NEW k \in Clients  PROVE MutualAt(p, k)' /\ CallAt(p, k)'
      <3>1. MutualAt(p, k) /\ CallAt(p, k) /\ pc'[<<p, k>>] = pc[<<p, k>>] /\ k # None
        BY <1>0, <1>5, ProcessAssumption, ZenonT(60) DEF ProcessAt
      <3>2. mutex[p] # k
        BY ONLY <1>6, <3>1, ZenonT(60) DEF CallAt
      <3> QED  BY ONLY <2>b, <3>1, <3>2, ZenonT(60) DEF MutualAt, CallAt
    <2>5. ASSUME NEW c \in Cpus  PROVE AgentAt(p, c)'
      <3>1. AgentAt(p, c) /\ pc'[<<p, c>>] = pc[<<p, c>>]
        BY <1>0, <1>5, Zenon DEF ProcessAt
      <3> QED  BY ONLY <1>6, <2>b, <3>1 DEF AgentAt, AgentOK, ServeLabels, EndLabels
    <2>6. ASSUME NEW i \in 1 .. Last  PROVE ReadyAt(p, i)' /\ SignalAt(p, i)'
      <3>1. /\ notified'[<<p, "ready_", CpuList[i]>>] # "kNotified"
            /\ phase'[<<p, CpuList[i]>>] = Running
        BY <2>b, CpuFacts, ZenonT(60)
      <3>2. ReadyAt(p, i)'
        BY ONLY <1>6, <3>1 DEF ReadyAt, ReadyOK, ServeLabels, EndLabels
      <3>3. SignalAt(p, i)'
        BY ONLY <1>6, Zenon DEF SignalAt, EnclaveReadyOK, FinishedOK, DoExitOK
      <3> QED  BY <3>2, <3>3
    <2> QED  BY <2>1, <2>2, <2>3, <2>4, <2>5, <2>6, Zenon DEF ProcessAt
  <1>8. Succession'
    BY ONLY <1>0, <1>1, <1>5, ZenonT(60) DEF Succession
  <1>9. OneProcessSchedules'
    <2>1. OneProcessSchedules /\ (online # None => online \in Procs)
      BY <1>0 DEF TypeOK
    <2> QED  BY ONLY <1>1, <1>5, <2>1, Zenon DEF OneProcessSchedules
  <1> QED  BY <1>4, <1>7, <1>8, <1>9, ProcessFrame, Zenon

\* The process is killed: nothing of it is left but agent_online and its cpus.
LEMMA CrashStep ==
    ASSUME IInv, NEW p \in Procs, Crash(p)
    PROVE  IInv'
  <1>0. TypeOK /\ Succession /\ OneProcessSchedules
    BY Zenon DEF IInv
  <1>1. /\ pc' = [th \in Threads |-> IF th[1] = p THEN <<"gone">> ELSE pc[th]] /\ Forget(p)
        /\ UNCHANGED <<fault, online, agentOn, calls>>
    BY Zenon DEF Crash
  <1>2. /\ pc' \in [Threads -> Places]
        /\ \A u \in Threads : u[1] # p => pc'[u] = pc[u]
        /\ \A u \in Threads : u[1] = p => pc'[u] = <<"gone">>
    BY <1>0, <1>1, ZenonT(60) DEF TypeOK, Places, Labels
  <1>3. /\ Core' /\ KeptBut(p) /\ Blank(p)' /\ TypeOK' /\ NoCheckFails'
        /\ \A q \in Procs : q # p => KeptVars(q)
    BY <1>1, <1>2, ForgetVars
  <1>4. /\ Main(p)[1] = p /\ Parent(p)[1] = p /\ RpcThread(p)[1] = p /\ \A c : <<p, c>>[1] = p
        /\ \A q \in Procs : Main(q)[1] = q /\ \A c : <<q, c>>[1] = q
    BY DEF Main, Parent, RpcThread
  <1>5. /\ pc'[Main(p)] = <<"gone">> /\ pc'[Parent(p)] = <<"gone">>
        /\ pc'[RpcThread(p)] = <<"gone">>
        /\ \A c \in Cpus \cup Clients : pc'[<<p, c>>] = <<"gone">>
        /\ \A q \in Procs : q # p => /\ pc'[Main(q)] = pc[Main(q)]
                                     /\ \A c \in Cpus : pc'[<<q, c>>] = pc[<<q, c>>]
    BY <1>2, <1>4, ThreadIds, Zenon
  <1>6. /\ pc'[Main(p)][1] = "gone" /\ pc'[Parent(p)][1] = "gone" /\ pc'[RpcThread(p)][1] = "gone"
        /\ \A c \in Cpus \cup Clients : pc'[<<p, c>>][1] = "gone"
    BY <1>5
  <1>7. ProcessAt(p)'
    <2>b. /\ \A a \in {"agent_ready_", "kill_agent_", "rpc_pending_", "rpc_done_"} :
               notified'[<<p, a>>] # "kNotified"
          /\ \A a \in {"ready_", "enclave_ready_", "finished_", "do_exit_"}, c \in Cpus :
               notified'[<<p, a, c>>] # "kNotified"
          /\ is_online'[p] = FALSE /\ agents'[p] = {} /\ mutex'[p] = None
      <3>1. /\ \A a \in {"agent_ready_", "kill_agent_", "rpc_pending_", "rpc_done_"} :
                 <<p, a>> \in Notifs /\ <<p, a>>[1] = p
            /\ \A a \in {"ready_", "enclave_ready_", "finished_", "do_exit_"}, c \in Cpus :
                 <<p, a, c>> \in Notifs /\ <<p, a, c>>[1] = p
        BY NotifIds
      <3> QED  BY ONLY <1>3, <3>1, Zenon DEF Blank
    <2>1. ShapeAt(p)'
      BY <1>5 DEF ShapeAt, Labels, LoopLabels
    <2>2. ParentAt(p)'
      BY ONLY <1>6, <2>b DEF ParentAt, ParentOK, EndLabels
    <2>3. ServingAt(p)' /\ QuietAt(p)'
      BY ONLY <1>6, <2>b DEF ServingAt, StartLabels, ServeLabels, QuietAt, Quiet, Rests
    <2>4. ASSUME NEW k \in Clients  PROVE MutualAt(p, k)' /\ CallAt(p, k)'
      <3>1. k # None
        BY ProcessAssumption
      <3> QED  BY ONLY <1>6, <2>b, <3>1, k \in Clients, Zenon DEF MutualAt, CallAt
    <2>5. ASSUME NEW c \in Cpus  PROVE AgentAt(p, c)'
      BY ONLY <1>6, <2>b, c \in Cpus DEF AgentAt, AgentOK, ServeLabels, EndLabels
    <2>6. ASSUME NEW i \in 1 .. Last  PROVE ReadyAt(p, i)' /\ SignalAt(p, i)'
      <3>1. /\ \A a \in {"ready_", "enclave_ready_", "finished_", "do_exit_"} :
                 notified'[<<p, a, CpuList[i]>>] # "kNotified"
            /\ pc'[<<p, CpuList[i]>>][1] = "gone"
        BY <1>6, <2>b, CpuFacts, Zenon
      <3>2. ReadyAt(p, i)'
        BY ONLY <1>6, <3>1 DEF ReadyAt, ReadyOK, ServeLabels, EndLabels
      <3>3. SignalAt(p, i)'
        BY ONLY <1>6, <3>1, ZenonT(60)
        DEF SignalAt, EnclaveReadyOK, FinishedOK, DoExitOK, ServeLabels, EndLabels, TurnLabels
      <3> QED  BY <3>2, <3>3
    <2> QED  BY <2>1, <2>2, <2>3, <2>4, <2>5, <2>6, Zenon DEF ProcessAt
  <1>8. Succession'
    <2>1. pc'[Main(p)][1] \notin StartLabels
      BY <1>6 DEF StartLabels
    <2> QED  BY ONLY <1>0, <1>1, <1>5, <1>6, <2>1 DEF Succession
  <1>9. OneProcessSchedules'
    <2>1. OneProcessSchedules /\ (online # None => online \in Procs)
      BY <1>0 DEF TypeOK
    <2> QED  BY ONLY <1>1, <1>5, <2>1, ZenonT(60) DEF OneProcessSchedules
  <1> QED  BY <1>3, <1>7, <1>8, <1>9, ProcessFrame, Zenon

-----------------------------------------------------------------------------
(* The kernel. *)

\* agent_online is closed after a crash: nobody is online.
LEMMA CloseAgentOnlineStep ==
    ASSUME IInv, NEW p \in Procs, CloseAgentOnline(p)
    PROVE  IInv'
  <1>0. TypeOK /\ Phased /\ Waits /\ NoLostWakeup /\ NoCheckFails /\ Succession
    BY Zenon DEF IInv
  <1>1. /\ online' = None
        /\ UNCHANGED <<notified, phase, pc, fault, is_online, agents, agentOn, stale, cvars>>
    BY Zenon DEF CloseAgentOnline
  <1>2. UNCHANGED <<mutex, rpc_req, rpc_res, calls>>
    BY <1>1, Zenon DEF cvars
  <1>3. Core'
    <2>1. pc \in [Threads -> Places]
      BY <1>0 DEF TypeOK, Places
    <2> QED  BY <1>0, <1>1, <2>1, MovesCore
  <1>4. TypeOK' /\ NoCheckFails'
    BY ONLY <1>0, <1>1, <1>2, Zenon DEF TypeOK, NoCheckFails
  <1>5. KeptBut(p) /\ \A q \in Procs : KeptVars(q)
    BY <1>1, <1>2, Zenon DEF KeptBut, KeptVars
  <1>6. ProcessAt(p)'
    <2>1. ProcessAt(p) /\ KeptBut(None) /\ p # None
      BY <1>1, Processes, ProcessAssumption DEF IInv, KeptBut
    <2> QED  BY <1>5, <2>1, Others, Zenon
  <1>7. Succession' /\ OneProcessSchedules'
    <2>1. None \notin Procs
      BY ProcessAssumption
    <2> QED  BY <1>0, <1>1, <2>1, Zenon DEF Succession, OneProcessSchedules
  <1> QED  BY <1>3, <1>4, <1>5, <1>6, <1>7, ProcessFrame, Zenon

\* An agent whose thread has ended leaves its cpu: its process is not online, unless killed.
LEMMA AgentDeadStep ==
    ASSUME IInv, NEW p \in Procs, NEW c \in Cpus, AgentDead(p, c)
    PROVE  IInv'
  <1>0. /\ TypeOK /\ Phased /\ Waits /\ NoLostWakeup /\ NoCheckFails /\ Succession
        /\ OneProcessSchedules /\ ProcessAt(p)
    BY Processes, Zenon DEF IInv
  <1>1. /\ pc[<<p, c>>] = <<"gone">> /\ agentOn[c] = p /\ agentOn' = [agentOn EXCEPT ![c] = None]
        /\ UNCHANGED <<notified, phase, pc, fault, is_online, online, agents, stale, cvars>>
    BY Zenon DEF AgentDead
  <1>2. UNCHANGED <<mutex, rpc_req, rpc_res, calls>>
    BY <1>1, Zenon DEF cvars
  <1>3. Core'
    <2>1. pc \in [Threads -> Places]
      BY <1>0 DEF TypeOK, Places
    <2> QED  BY <1>0, <1>1, <2>1, MovesCore
  <1>4. /\ agentOn' \in [Cpus -> Procs \cup {None}] /\ agentOn'[c] = None
        /\ \A d \in Cpus : d # c => agentOn'[d] = agentOn[d]
    BY <1>0, <1>1 DEF TypeOK
  <1>5. TypeOK' /\ NoCheckFails'
    BY ONLY <1>0, <1>1, <1>2, <1>4, Zenon DEF TypeOK, NoCheckFails
  <1>6. KeptBut(p) /\ \A q \in Procs : q # p => KeptVars(q)
    <2>1. None \notin Procs
      BY ProcessAssumption
    <2> QED  BY <1>1, <1>2, <1>4, <2>1, Zenon DEF KeptBut, KeptVars
  <1>7. pc[<<p, c>>][1] = "gone"
    BY <1>1
  <1>8. ProcessAt(p)'
    <2>1. ASSUME NEW d \in Cpus  PROVE AgentAt(p, d)'
      <3>1. AgentAt(p, d)
        BY <1>0, Zenon DEF ProcessAt
      <3> QED  BY ONLY <1>1, <1>4, <1>7, <3>1, d \in Cpus, Zenon DEF AgentAt, AgentOK
    <2>2. ShapeAt(p)' /\ ParentAt(p)'
      BY <1>0, <1>1, Zenon DEF ProcessAt, ShapeAt, ParentAt
    <2>3. ServingAt(p)' /\ QuietAt(p)'
      BY <1>0, <1>1, <1>2, Zenon DEF ProcessAt, ServingAt, QuietAt
    <2>4. \A k \in Clients : MutualAt(p, k)' /\ CallAt(p, k)'
      BY <1>0, <1>1, <1>2, Zenon DEF ProcessAt, MutualAt, CallAt
    <2>5. \A i \in 1 .. Last : ReadyAt(p, i)' /\ SignalAt(p, i)'
      BY <1>0, <1>1, Zenon DEF ProcessAt, ReadyAt, SignalAt
    <2> QED  BY <2>1, <2>2, <2>3, <2>4, <2>5, Zenon DEF ProcessAt
  <1>9. Succession'
    BY <1>0, <1>1, Zenon DEF Succession
  <1>10. OneProcessSchedules'
    <2>1. ASSUME online = p  PROVE pc[Main(p)] = <<"gone">>
      <3>1. ShapeAt(p) /\ AgentAt(p, c) /\ pc[Main(p)][1] \in ServeLabels \cup {"gone"}
        BY <1>0, <2>1, Zenon DEF ProcessAt, Succession
      <3>2. pc[Main(p)][1] = "gone"
        BY ONLY <1>7, <3>1 DEF AgentAt, AgentOK, ServeLabels, EndLabels
      <3> QED  BY ONLY <3>1, <3>2 DEF ShapeAt, LoopLabels
    <2> QED  BY ONLY <1>0, <1>1, <1>4, <2>1, c \in Cpus, Zenon DEF OneProcessSchedules
  <1> QED  BY <1>3, <1>5, <1>6, <1>8, <1>9, <1>10, ProcessFrame, Zenon

\* A thread that wakes up without a cause is where it was when it called.
LEMMA SpuriousStep ==
    ASSUME IInv, NEW th \in Threads, Spurious(th)
    PROVE  IInv'
  <1>0. /\ TypeOK /\ Phased /\ Waits /\ NoLostWakeup /\ NoCheckFails /\ Succession
        /\ OneProcessSchedules
    BY Zenon DEF IInv
  <1>1. /\ phase[th][1] = "asleep" /\ phase' = [phase EXCEPT ![th] = <<"calling", phase[th][2]>>]
        /\ UNCHANGED <<notified, pc, fault>> /\ UNCHANGED <<evars, cvars>>
    BY Zenon DEF Spurious, SpuriousWakeup
  <1>2. PICK n \in Notifs : phase[th] = <<"asleep", n>>
    <2>1. phase[th] # Running
      BY <1>1 DEF Running
    <2> QED  BY <1>0, <1>1, <2>1, PhaseFacts
  <1>3. /\ phase'[th] = <<"calling", n>> /\ phase' \in [Threads -> Phases]
        /\ \A u \in Threads : u # th => phase'[u] = phase[u]
    BY <1>0, <1>1, <1>2 DEF TypeOK, Phases
  <1>4. /\ phase'[th] # Running /\ phase[th] # Running /\ phase'[th][2] = phase[th][2]
        /\ \A m : phase'[th] # <<"asleep", m>> /\ phase[th] # <<"waking", m>>
        /\ \A m \in Notifs : phase'[th] = <<"calling", m>> => phase[th] = <<"asleep", m>>
    BY <1>2, <1>3, PhasesApart
  <1>5. Phased'
    BY ONLY <1>0, <1>1, <1>3, <1>4, ThreadIds, ZenonT(60) DEF Phased
  <1>6. Waits'
    BY ONLY <1>0, <1>1, <1>3, <1>4, Zenon DEF Waits
  <1>7. NoLostWakeup'
    <2> SUFFICES ASSUME NEW u \in Threads, NEW m \in Notifs, phase'[u] = <<"asleep", m>>
                 PROVE  \/ notified[m] = "kWaiter"
                        \/ \E v \in Threads : phase'[v] = <<"waking", m>>
      BY <1>1, Zenon DEF NoLostWakeup
    <2>1. phase[u] = <<"asleep", m>>
      BY <1>3, <1>4, Zenon
    <2>2. \/ notified[m] = "kWaiter"
          \/ \E v \in Threads : phase[v] = <<"waking", m>>
      BY <1>0, <2>1, Zenon DEF NoLostWakeup
    <2> QED  BY <1>3, <1>4, <2>2, Zenon
  <1>8. Core'
    BY <1>0, <1>1, <1>3, <1>5, <1>6, <1>7 DEF Core, TypeOK, Places
  <1>9. TypeOK' /\ NoCheckFails'
    <2>1. fault' = FALSE
      BY <1>0, <1>1 DEF NoCheckFails, TypeOK
    <2> QED  BY <1>0, <1>1, <1>8, <2>1, Types, Zenon
  <1>10. UNCHANGED <<is_online, online, agents, agentOn, mutex, rpc_req, rpc_res>>
    BY <1>1, Zenon DEF evars, cvars
  <1>11. KeptBut(None) /\ \A q \in Procs : KeptVars(q) /\ ProcessAt(q) /\ q # None
    BY <1>1, <1>3, <1>4, <1>10, Processes, ProcessAssumption, Zenon DEF KeptBut, KeptVars, IInv
  <1>12. \A q \in Procs : ProcessAt(q)'
    BY <1>11, Others, Zenon
  <1>13. Shapes' /\ Parents' /\ Calls' /\ Mutual' /\ Manned' /\ Readies' /\ Signals'
    BY <1>12, Zenon DEF ProcessAt, Shapes, Parents, Calls, Mutual, Manned, Readies, Signals
  <1>14. Succession' /\ OneProcessSchedules'
    BY <1>0, <1>1, <1>10, Zenon DEF Succession, OneProcessSchedules
  <1> QED  BY <1>8, <1>9, <1>13, <1>14, Zenon DEF IInv, Core

-----------------------------------------------------------------------------
(* The agents. *)

\* A step of the agent of cpu c can disturb what is said of that agent only.
LEMMA AgentFrame ==
    ASSUME IInv, NEW p \in Procs, NEW c \in Cpus, NEW N, Kept(<<p, c>>, N),
           \A m \in N : m = <<p, "ready_", c>>,
           Core', TypeOK', NoCheckFails', UNCHANGED <<is_online, cvars>>,
           \A q \in Procs : q # p => /\ agents'[q] = agents[q]
                                     /\ \A d \in Cpus : agentOn'[d] = q <=> agentOn[d] = q,
           \A d \in Cpus : d # c => /\ d \in agents'[p] <=> d \in agents[p]
                                    /\ agentOn'[d] = p <=> agentOn[d] = p,
           AgentAt(p, c)', \A i \in 1 .. Last : CpuList[i] = c => ReadyAt(p, i)',
           Succession', OneProcessSchedules'
    PROVE  IInv'
  <1> DEFINE th == <<p, c>>
  <1>1. /\ \A m \in N : m[1] = p
        /\ \A a : a # "ready_" => \A d : <<p, a, d>> \notin N
        /\ <<p, "agent_ready_">> \notin N /\ <<p, "kill_agent_">> \notin N
        /\ \A d : d # c => <<p, "ready_", d>> \notin N
    <2>1. \A m \in N : m = <<p, "ready_", c>>
      BY ZenonT(60)
    <2> QED  BY ONLY <2>1, SMTT(30)
  <1>2. /\ th \in Threads /\ th[1] = p /\ th # Main(p) /\ th # Parent(p) /\ th # RpcThread(p)
        /\ (\A k \in Clients : th # <<p, k>>) /\ (\A d \in Cpus : d # c => th # <<p, d>>)
    BY ProcessAssumption DEF Main, Parent, RpcThread, Threads
  <1>3. Kept(th, N) /\ UNCHANGED <<is_online, mutex, rpc_req, rpc_res>>
    BY Zenon DEF cvars
  <1>4. ProcessAt(p)
    BY Processes, Zenon DEF IInv
  <1> HIDE DEF th
  <1>5. ShapeAt(p)' /\ ParentAt(p)' /\ ServingAt(p)'
    <2>1. ShapeAt(p) /\ ParentAt(p) /\ ServingAt(p) /\ is_online'[p] = is_online[p]
      BY <1>3, <1>4, Zenon DEF ProcessAt
    <2>2. ParentAt(p)'
      BY <1>1, <1>2, <1>3, <2>1, ParentKept, Zenon
    <2>3. ServingAt(p)'
      BY <1>2, <1>3, <2>1, ServingKept, Zenon
    <2>4. pc'[Main(p)] = pc[Main(p)]
      BY <1>2, <1>3, ThreadIds, Zenon DEF Kept
    <2> QED  BY <2>1, <2>2, <2>3, <2>4, Zenon DEF ShapeAt
  <1>6. QuietAt(p)' /\ \A k \in Clients : CallAt(p, k)'
    <2>1. /\ QuietAt(p) /\ \A k \in Clients : CallAt(p, k)
          /\ mutex'[p] = mutex[p] /\ rpc_req'[p] = rpc_req[p] /\ rpc_res'[p] = rpc_res[p]
      BY <1>3, <1>4, Zenon DEF ProcessAt
    <2>2. <<p, "rpc_pending_">> \notin N /\ <<p, "rpc_done_">> \notin N
      OBVIOUS
    <2> QED  BY ONLY <1>2, <1>3, <2>1, <2>2, p \in Procs, CallKept, Zenon
  <1>7. ASSUME NEW k \in Clients  PROVE MutualAt(p, k)'
    <2>1. pc'[<<p, k>>] = pc[<<p, k>>] /\ MutualAt(p, k)
      BY <1>2, <1>3, <1>4, ThreadIds, Zenon DEF Kept, ProcessAt
    <2> QED  BY <1>3, <2>1, Zenon DEF MutualAt
  <1>8. ASSUME NEW d \in Cpus  PROVE AgentAt(p, d)'
    <2>1. CASE d = c
      BY <2>1
    <2>2. CASE d # c
      <3>1. /\ AgentAt(p, d) /\ pc'[Main(p)] = pc[Main(p)] /\ pc'[<<p, d>>] = pc[<<p, d>>]
            /\ d \in agents'[p] <=> d \in agents[p]
            /\ agentOn'[d] = p <=> agentOn[d] = p
        BY <1>2, <1>3, <1>4, <2>2, ThreadIds, Zenon DEF Kept, ProcessAt
      <3> QED  BY ONLY <3>1, Zenon DEF AgentAt, AgentOK
    <2> QED  BY <2>1, <2>2
  <1>9. ASSUME NEW i \in 1 .. Last  PROVE ReadyAt(p, i)' /\ SignalAt(p, i)'
    <2>1. ReadyAt(p, i) /\ SignalAt(p, i) /\ CpuList[i] \in Cpus
      BY <1>4, CpuFacts, Zenon DEF ProcessAt
    <2>2. ReadyAt(p, i)'
      <3>1. CASE CpuList[i] = c
        BY <3>1, Zenon
      <3>2. CASE CpuList[i] # c
        BY <1>1, <1>2, <1>3, <2>1, <3>2, ReadyKept, Zenon
      <3> QED  BY <3>1, <3>2
    <2>3. /\ <<p, "enclave_ready_", CpuList[i]>> \notin N
          /\ <<p, "finished_", CpuList[i]>> \notin N /\ <<p, "do_exit_", CpuList[i]>> \notin N
      BY <1>1
    <2>4. SignalAt(p, i)'
      BY <1>2, <1>3, <2>1, <2>3, SignalKept, Zenon
    <2> QED  BY <2>2, <2>4
  <1>10. ProcessAt(p)'
    BY <1>5, <1>6, <1>7, <1>8, <1>9, Zenon DEF ProcessAt
  <1>11. KeptBut(p)
    <2>1. \A m \in N : m[1] = p
      BY <1>1, Zenon
    <2> QED  BY ONLY <1>2, <1>3, <2>1, KeptButs, Zenon
  <1>12. \A q \in Procs : q # p => KeptVars(q)
    BY <1>3, Zenon DEF KeptVars
  <1> QED  BY <1>10, <1>11, <1>12, ProcessFrame, Zenon

\* The agent goes past WaitForOldAgent only when nobody is online.
LEMMA AgentStep ==
    ASSUME IInv, NEW p \in Procs, NEW c \in Cpus, NEW N, Kept(<<p, c>>, N),
           \A m \in N : m = <<p, "ready_", c>>,
           Core', TypeOK', NoCheckFails',
           UNCHANGED <<is_online, online, agents, agentOn, cvars>>,
           \/ pc'[<<p, c>>][1] \in {"none", "old", "edge"}
           \/ pc[<<p, c>>][1] \notin {"none", "old", "edge"}
           \/ online = None,
           AgentAt(p, c)', \A i \in 1 .. Last : CpuList[i] = c => ReadyAt(p, i)'
    PROVE  IInv'
  <1>1. /\ \A q \in Procs : pc'[Main(q)] = pc[Main(q)]
        /\ \A q \in Procs, d \in Cpus : <<q, d>> # <<p, c>> => pc'[<<q, d>>] = pc[<<q, d>>]
    <2>1. \A q \in Procs : Main(q) # <<p, c>>
      BY ProcessAssumption DEF Main
    <2> QED  BY <2>1, ThreadIds, Zenon DEF Kept
  <1>2. Succession'
    <2>1. Succession /\ UNCHANGED online
      BY Zenon DEF IInv
    <2>2. ASSUME NEW q \in Procs, NEW d \in Cpus, pc'[Main(q)][1] \in StartLabels,
                 pc'[<<q, d>>][1] \notin {"none", "old", "edge"}
          PROVE  online = None
      <3>1. CASE <<q, d>> # <<p, c>>
        BY <1>1, <2>1, <2>2, <3>1, Zenon DEF Succession
      <3>2. CASE <<q, d>> = <<p, c>>
        BY <1>1, <2>1, <2>2, <3>2, Zenon DEF Succession
      <3> QED  BY <3>1, <3>2
    <2> QED  BY ONLY <1>1, <2>1, <2>2, Zenon DEF Succession
  <1>3. OneProcessSchedules'
    <2>1. OneProcessSchedules /\ (online # None => online \in Procs) /\ UNCHANGED <<online, agentOn>>
      BY Zenon DEF IInv, TypeOK
    <2> QED  BY ONLY <1>1, <2>1, Zenon DEF OneProcessSchedules
  <1>4. UNCHANGED <<is_online, cvars>> /\ UNCHANGED <<agents, agentOn>>
    OBVIOUS
  <1> QED  BY <1>2, <1>3, <1>4, AgentFrame, Zenon

\* What an agent's step leaves as it was.
AgentStays(p, c, N) ==
    /\ pc'[Main(p)] = pc[Main(p)]
    /\ <<p, "ready_", c>> \notin N =>
         (notified'[<<p, "ready_", c>>] = "kNotified" <=> notified[<<p, "ready_", c>>] = "kNotified")
    /\ AgentAt(p, c) /\ \A i \in 1 .. Last : CpuList[i] = c => ReadyAt(p, i) /\ SignalAt(p, i)

\* What an agent's step leaves as it was in its own process.
LEMMA AgentLocal ==
    ASSUME IInv, NEW p \in Procs, NEW c \in Cpus, NEW N, Kept(<<p, c>>, N)
    PROVE  AgentStays(p, c, N)
  <1>1. Main(p) # <<p, c>>
    BY ProcessAssumption DEF Main
  <1>2. <<p, "ready_", c>> \in Notifs
    BY NotifIds, Zenon
  <1> QED  BY <1>1, <1>2, ThreadIds, Zenon DEF Kept, AgentStays, IInv, Manned, Readies, Signals

\* An agent's labels once it has signalled that it is ready.
LateLabels == {"enclave_ready_", "Finished", "barrier", "LocalYield", "asleep", "do_exit_", "gone"}

\* Once it has signalled that it is ready, an agent ends only if the main thread ends it.
LEMMA Late ==
    ASSUME NEW p \in Procs, NEW c \in Cpus, AgentStays(p, c, {}), UNCHANGED <<agents, agentOn>>,
           pc[<<p, c>>][1] \in LateLabels \ {"gone"}, pc'[<<p, c>>][1] \in LateLabels,
           pc'[<<p, c>>][1] \in {"do_exit_", "gone"} /\ pc[<<p, c>>][1] # "do_exit_"
             => pc[Main(p)][1] \in EndLabels \cup {"exited", "gone"}
    PROVE  AgentAt(p, c)' /\ \A i \in 1 .. Last : CpuList[i] = c => ReadyAt(p, i)'
  <1>1. /\ pc[<<p, c>>][1] \notin {"none", "old", "edge", "enter", "ready_", "gone"}
        /\ pc'[<<p, c>>][1] \notin {"none", "old", "edge", "enter", "ready_"}
    BY ZenonT(60) DEF LateLabels
  <1>2. AgentAt(p, c)'
    BY <1>1, ZenonT(60) DEF AgentStays, AgentAt, AgentOK
  <1>3. ASSUME NEW i \in 1 .. Last, CpuList[i] = c  PROVE ReadyAt(p, i)'
    <2>1. /\ ReadyAt(p, i) /\ pc'[Main(p)] = pc[Main(p)]
          /\ notified'[<<p, "ready_", c>>] = "kNotified" <=> notified[<<p, "ready_", c>>] = "kNotified"
      BY <1>3 DEF AgentStays
    <2> QED  BY ONLY <1>1, <1>3, <2>1, Zenon DEF ReadyAt, ReadyOK
  <1> QED  BY <1>2, <1>3

\* A step of AgentThread's loop.
LEMMA LateStep ==
    ASSUME IInv, NEW p \in Procs, NEW c \in Cpus, NEW from, NEW to \in Places,
           Step(<<p, c>>, from, to), from[1] \notin Names,
           from[1] \in LateLabels \ {"gone"}, to[1] \in LateLabels,
           to[1] \in {"do_exit_", "gone"} => pc[Main(p)][1] \in EndLabels \cup {"exited", "gone"},
           UNCHANGED <<fault, is_online, online, agents, agentOn, cvars>>,
           stale' \in [Procs \X Cpus -> BOOLEAN]
    PROVE  IInv'
  <1> DEFINE th == <<p, c>>
  <1>0. TypeOK /\ Phased /\ Waits /\ NoLostWakeup /\ NoCheckFails /\ th \in Threads
    BY ThreadIds, Zenon DEF IInv
  <1>o. Core' /\ StepOutcome(th, from, to)
    BY <1>0, PlainStep, Zenon
  <1>1. Kept(th, {}) /\ pc[th] = from /\ pc'[th] = to
    BY <1>o, Zenon DEF StepOutcome
  <1>2. TypeOK' /\ NoCheckFails'
    <2>1. UNCHANGED <<mutex, rpc_req, rpc_res, calls>>
          /\ UNCHANGED <<fault, is_online, online, agents, agentOn, cvars>>
      BY Zenon DEF cvars
    <2> QED  BY ONLY <1>0, <1>o, <2>1, stale' \in [Procs \X Cpus -> BOOLEAN], Zenon
             DEF TypeOK, NoCheckFails, Core, Places
  <1>3. AgentAt(p, c)' /\ \A i \in 1 .. Last : CpuList[i] = c => ReadyAt(p, i)'
    <2>1. AgentStays(p, c, {}) /\ UNCHANGED <<agents, agentOn>>
      BY <1>1, AgentLocal
    <2> QED  BY <1>1, <2>1, Late, Zenon
  <1>4. pc[th][1] \notin {"none", "old", "edge"}
    BY <1>1, ZenonT(60) DEF LateLabels
  <1> DEFINE N == {<<p, "ready_", c>>}
  <1>5. Kept(<<p, c>>, N) /\ \A m \in N : m = <<p, "ready_", c>>
    BY <1>1 DEF Kept
  <1>6. UNCHANGED <<is_online, online, agents, agentOn, cvars>>
    BY Zenon
  <1> HIDE DEF N
  <1> QED  BY <1>o, <1>2, <1>3, <1>4, <1>5, <1>6, AgentStep, Zenon

\* An agent that sees finished_ is being terminated.
LEMMA TestFinishedStep ==
    ASSUME IInv, NEW p \in Procs, NEW c \in Cpus, TestFinished(p, c)
    PROVE  IInv'
  <1> DEFINE to == IF notified[<<p, "finished_", c>>] = "kNotified" THEN <<"do_exit_">>
                   ELSE IF BarrierFirst THEN <<"LocalYield">> ELSE <<"barrier">>
  <1>1. Step(<<p, c>>, <<"Finished">>, to) /\ UNCHANGED <<fault, evars, cvars>>
    BY Zenon DEF TestFinished
  <1>2. /\ to \in Places /\ to[1] \in LateLabels /\ <<"Finished">>[1] \notin Names
        /\ <<"Finished">>[1] \in LateLabels \ {"gone"}
        /\ to[1] \in {"do_exit_", "gone"} => notified[<<p, "finished_", c>>] = "kNotified"
    BY ZenonT(60) DEF Places, Labels, LateLabels, Names
  <1>3. ASSUME notified[<<p, "finished_", c>>] = "kNotified"
        PROVE  pc[Main(p)][1] \in EndLabels \cup {"exited", "gone"}
    <2>1. PICK i \in 1 .. Last : CpuList[i] = c
      BY CpuFacts, Zenon
    <2>2. SignalAt(p, i)
      BY Zenon DEF IInv, Signals
    <2> QED  BY ONLY <1>3, <2>1, <2>2, ZenonT(60) DEF SignalAt, FinishedOK, EndLabels, TurnLabels
  <1>4. /\ UNCHANGED <<fault, is_online, online, agents, agentOn, cvars>>
        /\ stale' \in [Procs \X Cpus -> BOOLEAN]
    BY <1>1 DEF evars, IInv, TypeOK
  <1> HIDE DEF to
  <1> QED  BY <1>1, <1>2, <1>3, <1>4, LateStep, Zenon

\* The agent's loop: it reads its barrier, yields, and wakes up.
LEMMA LoopStep ==
    ASSUME IInv, NEW p \in Procs, NEW c \in Cpus,
           ReadBarrier(p, c) \/ LocalYield(p, c) \/ AgentWakes(p, c)
    PROVE  IInv'
  <1>0. stale \in [Procs \X Cpus -> BOOLEAN] /\ LoopHead \in {<<"barrier">>, <<"Finished">>}
    BY DEF IInv, TypeOK, LoopHead
  <1>1. PICK from \in {<<"barrier">>, <<"LocalYield">>, <<"asleep">>},
             to \in {<<"barrier">>, <<"Finished">>, <<"LocalYield">>, <<"asleep">>} :
          Step(<<p, c>>, from, to)
    BY <1>0, Zenon DEF ReadBarrier, LocalYield, AgentWakes
  <1>2. /\ UNCHANGED <<fault, is_online, online, agents, agentOn, cvars>>
        /\ stale' \in [Procs \X Cpus -> BOOLEAN]
    <2>1. CASE ReadBarrier(p, c)
      BY <1>0, <2>1 DEF ReadBarrier
    <2>2. CASE LocalYield(p, c) \/ AgentWakes(p, c)
      BY <1>0, <2>2 DEF LocalYield, AgentWakes, evars
    <2> QED  BY <2>1, <2>2
  <1>3. /\ to \in Places /\ to[1] \in LateLabels \ {"do_exit_", "gone"} /\ from[1] \notin Names
        /\ from[1] \in LateLabels \ {"gone"}
    BY DEF Places, Labels, LateLabels, Names
  <1>4. to[1] \in LateLabels /\ to[1] \notin {"do_exit_", "gone"}
    BY <1>3
  <1> QED  BY <1>1, <1>2, <1>3, <1>4, LateStep, ZenonT(60)

\* The agent waits for the enclave to be ready, or to be told to exit.
LEMMA AgentWaitStep ==
    ASSUME IInv, NEW p \in Procs, NEW c \in Cpus,
           WaitForEnclaveReady(p, c) \/ WaitForExitNotification(p, c)
    PROVE  IInv'
  <1>1. PICK a \in {"enclave_ready_", "do_exit_"},
             to \in {<<"barrier">>, <<"Finished">>, <<"gone">>} :
          /\ WaitForNotification(<<p, c>>, <<p, a, c>>, <<a>>, to)
          /\ to = <<"gone">> => a = "do_exit_"
    <2>1. LoopHead \in {<<"barrier">>, <<"Finished">>} /\ LoopHead # <<"gone">>
      BY DEF LoopHead
    <2> QED  BY <2>1, Zenon DEF WaitForEnclaveReady, WaitForExitNotification
  <1>2. UNCHANGED <<evars, cvars>>
    BY Zenon DEF WaitForEnclaveReady, WaitForExitNotification
  <1> DEFINE th == <<p, c>>
             n == <<p, a, c>>
  <1>0. TypeOK /\ Phased /\ Waits /\ NoLostWakeup /\ NoCheckFails
    BY Zenon DEF IInv
  <1>3. /\ th \in Threads /\ n \in Notifs /\ to \in Places /\ to[1] \in LateLabels
        /\ <<a>>[1] = a /\ a \in LateLabels \ {"gone"}
        /\ to[1] \in {"do_exit_", "gone"} => a = "do_exit_"
    <2>1. th \in Threads /\ n \in Notifs
      BY ThreadIds, NotifIds, Zenon
    <2>2. /\ to \in Places /\ to[1] \in LateLabels /\ <<a>>[1] = a /\ a \in LateLabels \ {"gone"}
          /\ to[1] \in {"do_exit_", "gone"} => a = "do_exit_"
      BY <1>1 DEF Places, Labels, LateLabels
    <2> QED  BY <2>1, <2>2
  <1>4. n[2] # "rpc_pending_" /\ n[2] # "rpc_done_"
    OBVIOUS
  <1>5. Calling(th, n, <<a>>)
    <2>1. /\ n[1] = p /\ n[2] = a /\ th[1] = p /\ \A q \in Procs : th # Main(q)
      BY ProcessAssumption DEF Main
    <2> HIDE DEF th, n
    <2> QED  BY <1>3, <2>1, Zenon DEF Calling
  <1>o. Core' /\ fault' = FALSE /\ WaitOutcome(th, n, <<a>>, to)
    <2>1. WaitForNotification(th, n, <<a>>, to)
      BY <1>1
    <2> HIDE DEF th, n
    <2> QED  BY ONLY <1>0, <1>3, <1>4, <1>5, <2>1, WaitStep, Zenon
  <1>6. Kept(th, {}) /\ pc[th] = <<a>> /\ (pc'[th] = pc[th] \/ pc'[th] = to)
    BY <1>o, Zenon DEF WaitOutcome
  <1>7. TypeOK' /\ NoCheckFails'
    BY <1>0, <1>2, <1>o, Types, ZenonT(60)
  <1>8. /\ pc[th][1] = a /\ pc[th][1] \in LateLabels \ {"gone"} /\ pc'[th][1] \in LateLabels
        /\ pc'[th][1] \in {"do_exit_", "gone"} => pc[th][1] = "do_exit_"
    BY <1>3, <1>6
  <1>9. UNCHANGED <<is_online, online, agents, agentOn, cvars>> /\ UNCHANGED <<agents, agentOn>>
    BY <1>2, Zenon DEF evars
  <1>10. AgentAt(p, c)' /\ \A i \in 1 .. Last : CpuList[i] = c => ReadyAt(p, i)'
    <2>1. AgentStays(p, c, {})
      BY <1>6, AgentLocal, Zenon
    <2> QED  BY <1>8, <1>9, <2>1, Late, Zenon
  <1>11. pc[th][1] \notin {"none", "old", "edge"}
    BY <1>8 DEF LateLabels
  <1> DEFINE N == {<<p, "ready_", c>>}
  <1>12. Kept(<<p, c>>, N) /\ \A m \in N : m = <<p, "ready_", c>>
    BY <1>6 DEF Kept
  <1> HIDE DEF N
  <1> QED  BY <1>o, <1>7, <1>9, <1>10, <1>11, <1>12, AgentStep, Zenon

\* The agent waits for agent_online to be closed.
LEMMA WaitForOldAgentStep ==
    ASSUME IInv, NEW p \in Procs, NEW c \in Cpus,
           WaitForOldAgent(p, c) \/ OldAgentIsOffline(p, c)
    PROVE  IInv'
  <1>1. PICK from \in {<<"old">>, <<"edge">>}, to \in {<<"edge">>, <<"enter">>} :
          /\ Step(<<p, c>>, from, to)
          /\ to = <<"enter">> => online = None
    <2>1. <<"edge">> # <<"enter">>
      OBVIOUS
    <2> QED  BY <2>1, Zenon DEF WaitForOldAgent, OldAgentIsOffline
  <1>2. UNCHANGED <<fault, evars, cvars>>
    BY Zenon DEF WaitForOldAgent, OldAgentIsOffline
  <1> DEFINE th == <<p, c>>
  <1>0. TypeOK /\ Phased /\ Waits /\ NoLostWakeup /\ NoCheckFails /\ th \in Threads
    BY ThreadIds, Zenon DEF IInv
  <1>3. to \in Places /\ from[1] \notin Names
    BY DEF Places, Labels, Names
  <1>o. Core' /\ StepOutcome(th, from, to)
    BY <1>0, <1>1, <1>3, PlainStep, Zenon
  <1>4. Kept(th, {}) /\ pc[th] = from /\ pc'[th] = to
    BY <1>o, Zenon DEF StepOutcome
  <1>5. /\ pc[th][1] \in {"old", "edge"} /\ pc'[th][1] \in {"edge", "enter"}
        /\ pc'[th][1] = "edge" \/ online = None
    BY <1>1, <1>4
  <1>6. fault' = FALSE /\ UNCHANGED <<evars, cvars>>
    BY <1>0, <1>2 DEF NoCheckFails, TypeOK
  <1>7. TypeOK' /\ NoCheckFails'
    BY <1>0, <1>6, <1>o, Types, Zenon
  <1>8. UNCHANGED <<is_online, online, agents, agentOn, cvars>>
    BY <1>2, Zenon DEF evars
  <1>9. AgentStays(p, c, {}) /\ <<p, "ready_", c>> \notin {}
    BY <1>4, AgentLocal
  <1>10. AgentAt(p, c)'
    BY ONLY <1>5, <1>8, <1>9, Zenon DEF AgentStays, AgentAt, AgentOK
  <1>11. ASSUME NEW i \in 1 .. Last, CpuList[i] = c  PROVE ReadyAt(p, i)'
    <2>1. /\ ReadyAt(p, i) /\ pc'[Main(p)] = pc[Main(p)]
          /\ notified'[<<p, "ready_", c>>] = "kNotified" <=> notified[<<p, "ready_", c>>] = "kNotified"
      BY <1>9, <1>11, ZenonT(60) DEF AgentStays
    <2> QED  BY ONLY <1>5, <1>11, <2>1, ZenonT(60) DEF ReadyAt, ReadyOK
  <1> DEFINE N == {<<p, "ready_", c>>}
  <1>12. Kept(<<p, c>>, N) /\ \A m \in N : m = <<p, "ready_", c>>
    BY <1>4 DEF Kept
  <1>13. pc'[th][1] \in {"none", "old", "edge"} \/ online = None
    BY <1>5
  <1> HIDE DEF N
  <1> QED  BY <1>o, <1>7, <1>8, <1>10, <1>11, <1>12, <1>13, AgentStep, Zenon

\* ready_ is posted once, when the agent has attached.
LEMMA SignalReadyStep ==
    ASSUME IInv, NEW p \in Procs, NEW c \in Cpus, SignalReady(p, c)
    PROVE  IInv'
  <1> DEFINE th == <<p, c>>
             n == <<p, "ready_", c>>
  <1>0. TypeOK /\ Phased /\ Waits /\ NoLostWakeup /\ NoCheckFails
    BY Zenon DEF IInv
  <1>1. /\ th \in Threads /\ n \in Notifs /\ th[1] = p /\ n[2] = "ready_" /\ n[1] = p
        /\ <<"enclave_ready_">> \in Places /\ <<"ready_">>[1] = "ready_"
        /\ \A q \in Procs : th # Main(q)
    <2>1. th \in Threads /\ n \in Notifs
      BY ThreadIds, NotifIds, Zenon
    <2>2. /\ th[1] = p /\ n[2] = "ready_" /\ n[1] = p /\ <<"enclave_ready_">> \in Places
          /\ <<"ready_">>[1] = "ready_" /\ \A q \in Procs : th # Main(q)
      BY ProcessAssumption DEF Places, Labels, Main
    <2> QED  BY <2>1, <2>2
  <1>2. /\ Notify(th, n, <<"ready_">>, <<"enclave_ready_">>) /\ UNCHANGED <<evars, cvars>>
        /\ Calling(th, n, <<"ready_">>)
    BY <1>1, ZenonT(60) DEF SignalReady, Calling
  <1>3. pc[th][1] = "ready_" => (notified[n] = "kNotified" <=> phase[th] # Running)
    <2>1. PICK i \in 1 .. Last : CpuList[i] = c
      BY CpuFacts, Zenon
    <2>2. ReadyAt(p, i)
      BY Zenon DEF IInv, Readies
    <2> QED  BY ONLY <2>1, <2>2, ZenonT(60) DEF ReadyAt, ReadyOK
  <1>4. pc[th] = <<"ready_">> /\ phase[th] = Running => notified[n] # "kNotified"
    BY <1>1, <1>3, ZenonT(60)
  <1>o. Core' /\ fault' = FALSE /\ NotifyOutcome(th, n, <<"ready_">>, <<"enclave_ready_">>)
    <2> HIDE DEF th, n
    <2> QED  BY ONLY <1>0, <1>1, <1>2, <1>4, NotifyStep, Zenon
  <1>5. Kept(th, {n})
    BY <1>o, Zenon DEF NotifyOutcome
  <1>6. /\ pc[th][1] = "ready_" /\ notified'[n] = "kNotified"
        /\ \/ phase'[th] # Running /\ pc'[th][1] = "ready_"
           \/ pc'[th][1] = "enclave_ready_"
    BY <1>3, <1>o DEF NotifyOutcome
  <1>7. AgentStays(p, c, {n})
    BY <1>5, AgentLocal, Zenon
  <1>8. TypeOK' /\ NoCheckFails'
    BY <1>0, <1>2, <1>o, Types, Zenon
  <1>9. UNCHANGED <<is_online, online, agents, agentOn, cvars>>
    BY <1>2, ZenonT(60) DEF evars
  <1>10. AgentAt(p, c)'
    BY ONLY <1>6, <1>7, <1>9, ZenonT(60) DEF AgentStays, AgentAt, AgentOK
  <1>11. ASSUME NEW i \in 1 .. Last, CpuList[i] = c  PROVE ReadyAt(p, i)'
    BY ONLY <1>6, <1>11 DEF ReadyAt, ReadyOK
  <1>12. pc[th][1] \notin {"none", "old", "edge"}
    BY <1>6
  <1> DEFINE N == {n}
  <1>13. Kept(<<p, c>>, N) /\ \A m \in N : m = <<p, "ready_", c>>
    BY <1>5
  <1> HIDE DEF N
  <1> QED  BY <1>o, <1>8, <1>9, <1>10, <1>11, <1>12, <1>13, AgentStep, Zenon

\* The agent is on a cpu that no agent was on, and attached.
LEMMA EnterGhostStep ==
    ASSUME IInv, NEW p \in Procs, NEW c \in Cpus, EnterGhost(p, c)
    PROVE  IInv'
  <1> DEFINE th == <<p, c>>
  <1>0. /\ TypeOK /\ Phased /\ Waits /\ NoLostWakeup /\ NoCheckFails /\ Succession
        /\ OneProcessSchedules /\ th \in Threads
    BY ThreadIds, Zenon DEF IInv
  <1>1. /\ agentOn[c] = None /\ Step(th, <<"enter">>, <<"ready_">>)
        /\ agentOn' = [agentOn EXCEPT ![c] = p]
        /\ agents' = [agents EXCEPT ![p] = @ \cup {c}]
        /\ UNCHANGED <<fault, is_online, online, stale, cvars>>
    BY Zenon DEF EnterGhost
  <1>2. <<"ready_">> \in Places /\ <<"enter">>[1] \notin Names
    BY DEF Places, Labels, Names
  <1>o. Core' /\ StepOutcome(th, <<"enter">>, <<"ready_">>)
    BY <1>0, <1>1, <1>2, PlainStep, Zenon
  <1>3. Kept(th, {}) /\ pc[th] = <<"enter">> /\ pc'[th] = <<"ready_">> /\ phase'[th] = Running
    BY <1>o, Zenon DEF StepOutcome
  <1>4. pc[th][1] = "enter" /\ pc'[th][1] = "ready_"
    BY <1>3
  <1>5. /\ agentOn' \in [Cpus -> Procs \cup {None}] /\ agentOn'[c] = p
        /\ \A d \in Cpus : d # c => agentOn'[d] = agentOn[d]
    BY <1>0, <1>1, ZenonT(60) DEF TypeOK
  <1>6. /\ agents' \in [Procs -> SUBSET Cpus] /\ agents'[p] = agents[p] \cup {c}
        /\ \A q \in Procs : q # p => agents'[q] = agents[q]
    BY <1>0, <1>1 DEF TypeOK
  <1>7. UNCHANGED <<mutex, rpc_req, rpc_res, calls>> /\ UNCHANGED <<is_online, cvars>>
    BY <1>1, Zenon DEF cvars
  <1>8. TypeOK' /\ NoCheckFails'
    BY ONLY <1>0, <1>1, <1>5, <1>6, <1>7, <1>o, Zenon DEF TypeOK, NoCheckFails, Core, Places
  <1>9. AgentStays(p, c, {}) /\ <<p, "ready_", c>> \notin {}
    BY <1>3, AgentLocal, ZenonT(60)
  <1>10. AgentAt(p, c)'
    <2>1. c \in agents'[p]
      BY <1>6, ZenonT(60)
    <2> QED  BY ONLY <1>4, <1>5, <1>9, <2>1, ZenonT(60) DEF AgentStays, AgentAt, AgentOK
  <1>11. ASSUME NEW i \in 1 .. Last, CpuList[i] = c  PROVE ReadyAt(p, i)'
    <2>1. /\ ReadyAt(p, i) /\ pc'[Main(p)] = pc[Main(p)]
          /\ notified'[<<p, "ready_", c>>] = "kNotified" <=> notified[<<p, "ready_", c>>] = "kNotified"
      BY <1>9, <1>11, ZenonT(60) DEF AgentStays
    <2> QED  BY ONLY <1>3, <1>4, <1>11, <2>1, ZenonT(60) DEF ReadyAt, ReadyOK
  <1>12. online = None
    <2>1. pc[Main(p)][1] \in StartLabels
      BY ONLY <1>4, <1>9, ZenonT(60) DEF AgentStays, AgentAt, AgentOK, StartLabels
    <2>2. pc[th][1] \notin {"none", "old", "edge"}
      BY <1>4
    <2> QED  BY <1>0, <2>1, <2>2, ZenonT(60) DEF Succession
  <1>13. /\ Succession' /\ OneProcessSchedules'
    <2>1. online' = None /\ None \notin Procs
      BY <1>1, <1>12, ProcessAssumption
    <2>2. \A q \in Procs : pc'[Main(q)] = pc[Main(q)]
      <3>1. \A q \in Procs : Main(q) # th
        BY ProcessAssumption DEF Main
      <3> QED  BY <1>3, <3>1, ThreadIds, Zenon DEF Kept
    <2> QED  BY ONLY <1>0, <2>1, <2>2, Zenon DEF Succession, OneProcessSchedules
  <1>14. /\ \A q \in Procs : q # p => /\ agents'[q] = agents[q]
                                      /\ \A d \in Cpus : agentOn'[d] = q <=> agentOn[d] = q
         /\ \A d \in Cpus : d # c => /\ d \in agents'[p] <=> d \in agents[p]
                                     /\ agentOn'[d] = p <=> agentOn[d] = p
    BY <1>1, <1>5, <1>6, ProcessAssumption
  <1> DEFINE N == {<<p, "ready_", c>>}
  <1>15. Kept(<<p, c>>, N) /\ \A m \in N : m = <<p, "ready_", c>>
    BY <1>3 DEF Kept
  <1> HIDE DEF N
  <1> QED  BY <1>o, <1>7, <1>8, <1>10, <1>11, <1>13, <1>14, <1>15, AgentFrame, Zenon
=============================================================================
