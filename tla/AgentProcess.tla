---------------------------- MODULE AgentProcess ----------------------------
(***************************************************************************)
(* The life of an agent process, lib/agent and lib/enclave: the parent     *)
(* forks it (AgentProcess), its main thread starts one agent thread per    *)
(* cpu and makes the enclave ready (FullAgent, Enclave::Ready), a thread   *)
(* answers the parent's RPCs, and the parent's destructor makes it end its *)
(* agents and exit.  A second process may take over the enclave of a       *)
(* first one: its agents wait until agent_online is closed and the old     *)
(* agents have left their cpus.                                            *)
(*                                                                         *)
(* Every process p has the threads <<p, "parent">>, <<p, "main">>,         *)
(* <<p, "rpc">>, one agent <<p, c>> per cpu and RPC callers <<p, k>>.      *)
(***************************************************************************)
EXTENDS Naturals, Sequences

CONSTANTS NumProcs,      \* agent processes of one enclave, in the order they start
          CpuList,       \* the enclave's cpus, in order
          Clients,       \* threads of the parent that call Rpc
          MaxRpcs,       \* bound: calls of each process's clients
          Crashes,       \* may a process be killed?
          BarrierFirst,  \* does AgentThread read its barrier before Finished()?
          None

Procs == 1 .. NumProcs
Cpus == {CpuList[i] : i \in DOMAIN CpuList}
Last == Len(CpuList)

ASSUME ProcessAssumption ==
    /\ CpuList \in Seq(Cpus) /\ CpuList # << >>
    /\ \A i, j \in DOMAIN CpuList : CpuList[i] = CpuList[j] => i = j
    /\ Cpus \cap ({"parent", "main", "rpc"} \cup Clients) = {}
    /\ Clients \cap {"parent", "main", "rpc"} = {}
    /\ None \notin Procs \cup Clients /\ NumProcs \in Nat /\ MaxRpcs \in [Procs -> Nat]
    /\ Crashes \in BOOLEAN /\ BarrierFirst \in BOOLEAN

Threads == Procs \X ({"parent", "main", "rpc"} \cup Cpus \cup Clients)

\* SharedBlob's notifications, and those of each Agent.
Notifs == (Procs \X {"agent_ready_", "kill_agent_", "rpc_pending_", "rpc_done_"})
          \cup (Procs \X {"ready_", "enclave_ready_", "finished_", "do_exit_"} \X Cpus)

VARIABLES
    notified, phase, pc, fault,
    is_online,  \* Enclave::is_online_
    online,     \* the process that holds agent_online open, or None
    agents,     \* Enclave::agents_
    agentOn,    \* whose agent the kernel has on each cpu
    stale,      \* the agent barrier moved since the agent read it; with no task in the
                \* enclave, only a ping moves it
    mutex,      \* rpc_mutex_
    rpc_req, rpc_res,
    calls       \* calls made to each process

INSTANCE Notification

evars == <<is_online, online, agents, agentOn, stale>>
cvars == <<mutex, rpc_req, rpc_res, calls>>
vars == <<notified, phase, pc, fault, evars, cvars>>

NoCall == <<None, 0>>
ENODEV == <<None, 1>>

\* Where a thread is in its program: <<label>>, or <<label, i>> in a loop over
\* agents_ that is at CpuList[i].
Labels == {"none", "idle", "start", "agent_ready_", "up", "kill_agent_", "reap", "done",
           "attached", "online", "prepare", "exited", "rpc_pending_", "rpc_done_",
           "reset", "handle", "return", "old", "edge", "enter", "ready_",
           "enclave_ready_", "Finished", "barrier", "LocalYield", "asleep", "do_exit_",
           "clear", "gone"}
LoopLabels == {"ready_", "enclave_ready_", "finished_", "ping", "do_exit_", "join"}

TypeOK ==
    /\ notified \in [Notifs -> NotifiedState]
    /\ phase \in [Threads -> Phases]
    /\ pc \in [Threads -> {<<l>> : l \in Labels} \cup (LoopLabels \X (1 .. Last))]
    /\ fault \in BOOLEAN
    /\ is_online \in [Procs -> BOOLEAN] /\ online \in Procs \cup {None}
    /\ agents \in [Procs -> SUBSET Cpus]
    /\ agentOn \in [Cpus -> Procs \cup {None}]
    /\ stale \in [Procs \X Cpus -> BOOLEAN]
    /\ mutex \in [Procs -> Clients \cup {None}]
    /\ rpc_req \in [Procs -> (Clients \X (Nat \ {0})) \cup {NoCall}]
    /\ rpc_res \in [Procs -> (Clients \X (Nat \ {0})) \cup {NoCall, ENODEV}]
    /\ calls \in [Procs -> Nat]

Init ==
    /\ notified = [n \in Notifs |-> "kNoWaiter"]
    /\ phase = [th \in Threads |-> Running]
    /\ pc = [th \in Threads |-> IF th[2] \in {"parent"} \cup Clients THEN <<"idle">>
                                                                     ELSE <<"none">>]
    /\ fault = FALSE
    /\ is_online = [p \in Procs |-> FALSE] /\ online = None
    /\ agents = [p \in Procs |-> {}] /\ agentOn = [c \in Cpus |-> None]
    /\ stale = [a \in Procs \X Cpus |-> FALSE]
    /\ mutex = [p \in Procs |-> None]
    /\ rpc_req = [p \in Procs |-> NoCall] /\ rpc_res = [p \in Procs |-> NoCall]
    /\ calls = [p \in Procs |-> 0]

Parent(p) == <<p, "parent">>
Main(p) == <<p, "main">>
RpcThread(p) == <<p, "rpc">>

\* The thread is at a step that is not inside a Notification.
Step(th, from, to) ==
    /\ pc[th] = from /\ Goto(th, to)
    /\ UNCHANGED <<notified, phase>>

-----------------------------------------------------------------------------
(* The parent: AgentProcess's constructor and destructor. *)

Starting(p) == pc[Main(p)] \in {<<"start">>, <<"attached">>, <<"online">>}
                               \cup ({"ready_", "enclave_ready_"} \X (1 .. Last))

\* A new agent is started when the one before it is online, or going.
Fork(p) ==
    /\ \A q \in Procs : ~Starting(q) /\ (q < p => pc[Parent(q)] # <<"idle">>)
    /\ pc[Parent(p)] = <<"idle">>
    /\ pc' = [pc EXCEPT ![Parent(p)] = <<"agent_ready_">>, ![Main(p)] = <<"start">>]
    /\ UNCHANGED <<notified, phase, fault, evars, cvars>>

AwaitAgentReady(p) ==
    /\ WaitForNotification(Parent(p), <<p, "agent_ready_">>, <<"agent_ready_">>, <<"up">>)
    /\ UNCHANGED <<evars, cvars>>

\* No thread of the parent is in a call of the object it destroys.
Destroy(p) ==
    /\ \A k \in Clients : pc[<<p, k>>] = <<"idle">>
    /\ Step(Parent(p), <<"up">>, <<"kill_agent_">>)
    /\ UNCHANGED <<fault, evars, cvars>>

KillAgent(p) ==
    /\ Notify(Parent(p), <<p, "kill_agent_">>, <<"kill_agent_">>, <<"reap">>)
    /\ UNCHANGED <<evars, cvars>>

\* The memory of process p and the memory it shared with its parent are gone.
Forget(p) ==
    /\ notified' = [n \in Notifs |-> IF n[1] = p THEN "kNoWaiter" ELSE notified[n]]
    /\ phase' = [th \in Threads |-> IF th[1] = p THEN Running ELSE phase[th]]
    /\ is_online' = [is_online EXCEPT ![p] = FALSE]
    /\ agents' = [agents EXCEPT ![p] = {}]
    /\ stale' = [a \in Procs \X Cpus |-> a[1] # p /\ stale[a]]
    /\ mutex' = [mutex EXCEPT ![p] = None]
    /\ rpc_req' = [rpc_req EXCEPT ![p] = NoCall]
    /\ rpc_res' = [rpc_res EXCEPT ![p] = NoCall]

WaitForChildExit(p) ==
    /\ pc[Parent(p)] = <<"reap">> /\ pc[Main(p)] = <<"exited">>
    /\ Goto(Parent(p), <<"done">>)
    /\ Forget(p)
    /\ UNCHANGED <<fault, online, agentOn, calls>>

-----------------------------------------------------------------------------
(* Rpc, in the parent. *)

\* rpc_mutex_, then the request into shared memory.
PerformRpc(p, k) ==
    /\ pc[Parent(p)] = <<"up">> /\ mutex[p] = None /\ calls[p] < MaxRpcs[p]
    /\ mutex' = [mutex EXCEPT ![p] = k]
    /\ calls' = [calls EXCEPT ![p] = @ + 1]
    /\ rpc_req' = [rpc_req EXCEPT ![p] = <<k, calls[p] + 1>>]
    /\ Step(<<p, k>>, <<"idle">>, <<"rpc_pending_">>)
    /\ UNCHANGED <<fault, evars, rpc_res>>

NotifyRpcPending(p, k) ==
    /\ Notify(<<p, k>>, <<p, "rpc_pending_">>, <<"rpc_pending_">>, <<"rpc_done_">>)
    /\ UNCHANGED <<evars, cvars>>

AwaitRpcDone(p, k) ==
    /\ WaitForNotification(<<p, k>>, <<p, "rpc_done_">>, <<"rpc_done_">>, <<"reset">>)
    /\ UNCHANGED <<evars, cvars>>

ResetRpcDone(p, k) ==
    /\ Reset(<<p, k>>, <<p, "rpc_done_">>, <<"reset">>, <<"return">>)
    /\ UNCHANGED <<evars, cvars>>

\* The response is read, and the mutex released.
RpcReturns(p, k) ==
    /\ Step(<<p, k>>, <<"return">>, <<"idle">>)
    /\ mutex' = [mutex EXCEPT ![p] = None]
    /\ UNCHANGED <<fault, evars, rpc_req, rpc_res, calls>>

-----------------------------------------------------------------------------
(* The RPC thread of the child. *)

AwaitRpcPending(p) ==
    /\ WaitForNotification(RpcThread(p), <<p, "rpc_pending_">>, <<"rpc_pending_">>, <<"reset">>)
    /\ UNCHANGED <<evars, cvars>>

\* A slip: rpc_pending_ is not reset.
KeepRpcPending(p) ==
    /\ Step(RpcThread(p), <<"reset">>, <<"handle">>)
    /\ UNCHANGED <<fault, evars, cvars>>

ResetRpcPending(p) ==
    /\ Reset(RpcThread(p), <<p, "rpc_pending_">>, <<"reset">>, <<"handle">>)
    /\ UNCHANGED <<evars, cvars>>

\* The handler answers the request that is in shared memory.
RpcHandler(p) ==
    /\ Step(RpcThread(p), <<"handle">>, <<"rpc_done_">>)
    /\ rpc_res' = [rpc_res EXCEPT ![p] = IF is_online[p] THEN rpc_req[p] ELSE ENODEV]
    /\ UNCHANGED <<fault, evars, mutex, rpc_req, calls>>

NotifyRpcDone(p) ==
    /\ Notify(RpcThread(p), <<p, "rpc_done_">>, <<"rpc_done_">>, <<"rpc_pending_">>)
    /\ UNCHANGED <<evars, cvars>>

-----------------------------------------------------------------------------
(* The main thread of the child. *)

\* A slip: the loop over agents_ runs past its end.
FollowingPast(label, i, after) == <<label, i + 1>>

\* The loop over agents_: `label' again for the next agent, or on to `after'.
Following(label, i, after) == IF i = Last THEN after ELSE <<label, i + 1>>

\* StartBegin for every cpu.
StartAgentTasks(p) ==
    /\ pc[Main(p)] = <<"start">>
    /\ pc' = [th \in Threads |->
                IF th = Main(p) THEN <<"ready_", 1>>
                ELSE IF th[1] = p /\ th[2] \in Cpus THEN <<"old">> ELSE pc[th]]
    /\ UNCHANGED <<notified, phase, fault, evars, cvars>>

StartComplete(p) ==
    /\ \E i \in 1 .. Last :
         WaitForNotification(Main(p), <<p, "ready_", CpuList[i]>>, <<"ready_", i>>,
                             Following("ready_", i, <<"attached">>))
    /\ UNCHANGED <<evars, cvars>>

\* Ready: mu_ is taken once every agent is attached.
ReadyLockWhen(p) ==
    /\ agents[p] = Cpus
    /\ Step(Main(p), <<"attached">>, <<"enclave_ready_", 1>>)
    /\ UNCHANGED <<fault, evars, cvars>>

\* Ready: GetAgent finds every cpu's agent.
EnclaveReady(p) ==
    /\ \E i \in 1 .. Last :
         Notify(Main(p), <<p, "enclave_ready_", CpuList[i]>>, <<"enclave_ready_", i>>,
                Following("enclave_ready_", i, <<"online">>))
    /\ UNCHANGED <<evars, cvars>>

\* CHECK_GE(agent_online_fd_, 0): only one can have it open.  The RPC thread starts.
AdvertiseOnline(p) ==
    /\ pc[Main(p)] = <<"online">>
    /\ fault' = (fault \/ online # None)
    /\ online' = p
    /\ is_online' = [is_online EXCEPT ![p] = TRUE]
    /\ pc' = [pc EXCEPT ![Main(p)] = <<"agent_ready_">>, ![RpcThread(p)] = <<"rpc_pending_">>]
    /\ UNCHANGED <<notified, phase, agents, agentOn, stale, cvars>>

NotifyAgentReady(p) ==
    /\ Notify(Main(p), <<p, "agent_ready_">>, <<"agent_ready_">>, <<"kill_agent_">>)
    /\ UNCHANGED <<evars, cvars>>

AwaitKillAgent(p) ==
    /\ WaitForNotification(Main(p), <<p, "kill_agent_">>, <<"kill_agent_">>, <<"prepare">>)
    /\ UNCHANGED <<evars, cvars>>

\* TerminateAgentTasks begins: IsOnline() is false before agent_online is closed.
PrepareToExit(p) ==
    /\ Step(Main(p), <<"prepare">>, <<"finished_", 1>>)
    /\ is_online' = [is_online EXCEPT ![p] = FALSE]
    /\ online' = None
    /\ UNCHANGED <<fault, agents, agentOn, stale, cvars>>

\* TerminateBegin of every agent: finished_, a ping, do_exit_.
NotifyFinished(p) ==
    /\ \E i \in 1 .. Last :
         Notify(Main(p), <<p, "finished_", CpuList[i]>>, <<"finished_", i>>, <<"ping", i>>)
    /\ UNCHANGED <<evars, cvars>>

\* A slip: the agent is not pinged.
PingNobody(p) ==
    /\ \E i \in 1 .. Last : Step(Main(p), <<"ping", i>>, <<"do_exit_", i>>)
    /\ UNCHANGED <<fault, evars, cvars>>

Ping(p) ==
    /\ \E i \in 1 .. Last :
         /\ Step(Main(p), <<"ping", i>>, <<"do_exit_", i>>)
         /\ stale' = [stale EXCEPT ![<<p, CpuList[i]>>] = TRUE]
    /\ UNCHANGED <<fault, is_online, online, agents, agentOn, cvars>>

NotifyDoExit(p) ==
    /\ \E i \in 1 .. Last :
         Notify(Main(p), <<p, "do_exit_", CpuList[i]>>, <<"do_exit_", i>>,
                Following("finished_", i, <<"join", 1>>))
    /\ UNCHANGED <<evars, cvars>>

\* The thread is joined, and the kernel has let go of its task.
TerminateComplete(p) ==
    /\ \E i \in 1 .. Last :
         /\ pc[<<p, CpuList[i]>>] = <<"gone">> /\ agentOn[CpuList[i]] # p
         /\ Step(Main(p), <<"join", i>>, Following("join", i, <<"clear">>))
    /\ UNCHANGED <<fault, evars, cvars>>

\* agents_.clear(): ~Notification's CHECKs; then _exit, which the RPC thread shares.
ClearAndExit(p) ==
    /\ pc[Main(p)] = <<"clear">>
    /\ fault' = (fault \/ \E n \in Notifs : Len(n) = 3 /\ n[1] = p /\ notified[n] = "kWaiter")
    /\ agents' = [agents EXCEPT ![p] = {}]
    /\ pc' = [pc EXCEPT ![Main(p)] = <<"exited">>, ![RpcThread(p)] = <<"gone">>]
    /\ phase' = [phase EXCEPT ![RpcThread(p)] = Running]
    /\ UNCHANGED <<notified, is_online, online, agentOn, stale, cvars>>

-----------------------------------------------------------------------------
(* The agent of cpu c. *)

\* TestAgent of api_test.cc reads the barrier first; the AgentThreads of the
\* schedulers and of the other tests test Finished() first.
LoopHead == IF BarrierFirst THEN <<"barrier">> ELSE <<"Finished">>

\* A slip: the old agent is not waited for, as EBUSY would tell of it.
WaitForNobody(p, c) ==
    /\ Step(<<p, c>>, <<"old">>, <<"enter">>)
    /\ UNCHANGED <<fault, evars, cvars>>

\* WaitForAgentOnlineValue(0): return, or wait for the value to change.
WaitForOldAgent(p, c) ==
    /\ Step(<<p, c>>, <<"old">>, IF online = None THEN <<"enter">> ELSE <<"edge">>)
    /\ UNCHANGED <<fault, evars, cvars>>

\* agent_online changes from 1 to 0 only: no other process is starting.
OldAgentIsOffline(p, c) ==
    /\ online = None
    /\ Step(<<p, c>>, <<"edge">>, <<"enter">>)
    /\ UNCHANGED <<fault, evars, cvars>>

\* SchedAgentEnterGhost, tried again while it returns EBUSY; then AttachAgent.
EnterGhost(p, c) ==
    /\ agentOn[c] = None
    /\ Step(<<p, c>>, <<"enter">>, <<"ready_">>)
    /\ agentOn' = [agentOn EXCEPT ![c] = p]
    /\ agents' = [agents EXCEPT ![p] = @ \cup {c}]
    /\ UNCHANGED <<fault, is_online, online, stale, cvars>>

SignalReady(p, c) ==
    /\ Notify(<<p, c>>, <<p, "ready_", c>>, <<"ready_">>, <<"enclave_ready_">>)
    /\ UNCHANGED <<evars, cvars>>

WaitForEnclaveReady(p, c) ==
    /\ WaitForNotification(<<p, c>>, <<p, "enclave_ready_", c>>, <<"enclave_ready_">>, LoopHead)
    /\ UNCHANGED <<evars, cvars>>

\* AgentThread's loop: test Finished(), read the barrier, schedule, yield.
TestFinished(p, c) ==
    /\ Step(<<p, c>>, <<"Finished">>,
            IF notified[<<p, "finished_", c>>] = "kNotified" THEN <<"do_exit_">>
            ELSE IF BarrierFirst THEN <<"LocalYield">> ELSE <<"barrier">>)
    /\ UNCHANGED <<fault, evars, cvars>>

ReadBarrier(p, c) ==
    /\ Step(<<p, c>>, <<"barrier">>, IF BarrierFirst THEN <<"Finished">> ELSE <<"LocalYield">>)
    /\ stale' = [stale EXCEPT ![<<p, c>>] = FALSE]
    /\ UNCHANGED <<fault, is_online, online, agents, agentOn, cvars>>

\* GHOST_RUN fails with ESTALE if the barrier has moved; else the agent sleeps.
LocalYield(p, c) ==
    /\ Step(<<p, c>>, <<"LocalYield">>, IF stale[<<p, c>>] THEN LoopHead ELSE <<"asleep">>)
    /\ UNCHANGED <<fault, evars, cvars>>

AgentWakes(p, c) ==
    /\ stale[<<p, c>>]
    /\ Step(<<p, c>>, <<"asleep">>, LoopHead)
    /\ UNCHANGED <<fault, evars, cvars>>

\* WaitForExitNotification, and the thread's end.
WaitForExitNotification(p, c) ==
    /\ WaitForNotification(<<p, c>>, <<p, "do_exit_", c>>, <<"do_exit_">>, <<"gone">>)
    /\ UNCHANGED <<evars, cvars>>

-----------------------------------------------------------------------------
(* The kernel. *)

\* task_dead of an agent whose thread has ended: status_word().can_free().
AgentDead(p, c) ==
    /\ pc[<<p, c>>] = <<"gone">> /\ agentOn[c] = p
    /\ agentOn' = [agentOn EXCEPT ![c] = None]
    /\ UNCHANGED <<notified, phase, pc, fault, is_online, online, agents, stale, cvars>>

Spurious(th) == SpuriousWakeup(th) /\ UNCHANGED <<evars, cvars>>

\* The process is killed, and its parent with it (HandleIfAbnormalExit): its threads
\* end, its agents leave their cpus and its files are closed one by one.
Crash(p) ==
    /\ Crashes /\ pc[Main(p)] \notin {<<"none">>, <<"exited">>, <<"gone">>}
    /\ pc' = [th \in Threads |-> IF th[1] = p THEN <<"gone">> ELSE pc[th]]
    /\ Forget(p)
    /\ UNCHANGED <<fault, online, agentOn, calls>>

CloseAgentOnline(p) ==
    /\ pc[Main(p)] = <<"gone">> /\ online = p
    /\ online' = None
    /\ UNCHANGED <<notified, phase, pc, fault, is_online, agents, agentOn, stale, cvars>>

\* What the threads of a process and of its parent do once they are called, and what
\* the kernel does when they end.
ParentNext(p) ==
    \/ AwaitAgentReady(p) \/ KillAgent(p) \/ WaitForChildExit(p)
    \/ \E k \in Clients : \/ NotifyRpcPending(p, k) \/ AwaitRpcDone(p, k)
                          \/ ResetRpcDone(p, k) \/ RpcReturns(p, k)

RpcNext(p) ==
    \/ AwaitRpcPending(p) \/ ResetRpcPending(p) \/ RpcHandler(p) \/ NotifyRpcDone(p)

MainNext(p) ==
    \/ StartAgentTasks(p) \/ StartComplete(p) \/ ReadyLockWhen(p) \/ EnclaveReady(p)
    \/ AdvertiseOnline(p) \/ NotifyAgentReady(p) \/ AwaitKillAgent(p) \/ PrepareToExit(p)
    \/ NotifyFinished(p) \/ Ping(p) \/ NotifyDoExit(p) \/ TerminateComplete(p)
    \/ ClearAndExit(p)

AgentNext(p, c) ==
    \/ WaitForOldAgent(p, c) \/ OldAgentIsOffline(p, c) \/ EnterGhost(p, c)
    \/ SignalReady(p, c) \/ WaitForEnclaveReady(p, c) \/ TestFinished(p, c)
    \/ ReadBarrier(p, c) \/ LocalYield(p, c) \/ AgentWakes(p, c)
    \/ WaitForExitNotification(p, c)

Program(p) == \/ ParentNext(p) \/ RpcNext(p) \/ MainNext(p) \/ CloseAgentOnline(p)
              \/ \E c \in Cpus : AgentNext(p, c) \/ AgentDead(p, c)

Interrupt == \E th \in Threads : Spurious(th)

Next ==
    \/ \E p \in Procs : \/ Program(p) \/ Fork(p) \/ Destroy(p) \/ Crash(p)
                        \/ \E k \in Clients : PerformRpc(p, k)
    \/ Interrupt

Spec == Init /\ [][Next]_vars

\* While some thread of a process can take a step, one does; wakeups without a cause
\* are finitely many.  A program has no loop without a wait, so this is no more than
\* fairness to every thread.  Nothing is assumed of forks, calls, destructors, crashes.
Fairness == (\A p \in Procs : WF_vars(Program(p))) /\ <>[][~Interrupt]_vars

FairSpec == Spec /\ Fairness

-----------------------------------------------------------------------------
(* Properties. *)

\* A thread that sleeps in Futex::Wait has a wakeup to come: the word still says that
\* there is a waiter, or the thread that replaced it has yet to call Wake.  Notify
\* wakes only if it saw kWaiter, and rpc_pending_ and rpc_done_ are Reset and used
\* again while the other side may be about to sleep.
NoLostWakeup ==
    \A th \in Threads, n \in Notifs :
      phase[th] = <<"asleep", n>> => \/ notified[n] = "kWaiter"
                                     \/ \E u \in Threads : phase[u] = <<"waking", n>>

\* No CHECK of these files fails: nothing is notified twice,
\* agent_online is never open twice, no notification is destroyed
\* with a waiter.
NoCheckFails == ~fault

\* An RPC returns the answer to its own request, never the one to an earlier call or
\* to another thread's: the two notifications hand shared memory back and forth.
RpcAnswersItsCaller ==
    \A p \in Procs, k \in Clients :
      pc[<<p, k>>] \in {<<"reset">>, <<"return">>} => rpc_res[p] = rpc_req[p] /\ rpc_req[p][1] = k

\* While a process is online, no agent of another process is on a cpu of the enclave;
\* and a process is never online without an agent on every cpu, unless it was killed.
OneProcessSchedules ==
    online # None => \A c \in Cpus : \/ agentOn[c] = online
                                     \/ agentOn[c] = None /\ pc[Main(online)] = <<"gone">>

\* p's parent is not inside the constructor or the destructor of its AgentProcess, other
\* than to wait for an earlier process that is online, and no client is inside Rpc.
NobodyWaits(p) ==
    /\ \/ pc[Parent(p)] \in {<<"idle">>, <<"up">>, <<"done">>, <<"gone">>}
       \/ pc[Parent(p)] = <<"agent_ready_">> /\ online \notin {None, p}
    /\ \A k \in Clients : pc[<<p, k>>] \in {<<"idle">>, <<"gone">>}

\* A process takes over once the one before it has closed agent_online, whether that
\* one was told to exit or killed; every RPC returns; and ~AgentProcess returns: every
\* agent wakes, observes Finished() and exits.
EveryWaitEnds == []<>(\A p \in Procs : NobodyWaits(p))

\* lib/agent.h on TerminateBegin: it "guarantees that the agent will wake to observe"
\* Finished().  Once it has returned, a sleeping agent has a wakeup to come.
FinishedIsObserved ==
    \A p \in Procs, c \in Cpus :
      pc[<<p, c>>] = <<"asleep">> /\ notified[<<p, "do_exit_", c>>] = "kNotified" => stale[<<p, c>>]
=============================================================================
