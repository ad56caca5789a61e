---------------------------- MODULE GhostKernel ----------------------------
(***************************************************************************)
(* The ghOSt scheduling class of the kernel, as the agents under src/ see  *)
(* it.  The kernel is not in the repository: this module is an external    *)
(* model, read off the way lib/ and schedulers/ use it.                    *)
(*                                                                         *)
(* Every task event is announced by a message in the channel the task is   *)
(* associated with, and bumps the barrier of the task's status word; the   *)
(* message carries the new barrier as its seqnum.  A run transaction is    *)
(* refused when it was filled in with an older barrier, so that an agent   *)
(* can never run a task about which it has an unread message.              *)
(*                                                                         *)
(* An agent barrier is only ever compared with its last value read, so it  *)
(* is kept as one bit: stale[c] holds when it moved since the agent of     *)
(* cpu c read it.                                                          *)
(***************************************************************************)
EXTENDS Integers, Sequences

CONSTANTS Tasks,        \* client threads that may enter the enclave
          Cpus,         \* the enclave's cpus, one agent each
          Channels,     \* message channels; channel c in Cpus wakes agent c
          DefaultChan,  \* where the kernel sends MSG_TASK_NEW
          NoTask,
          MaxBarrier    \* bound: no optional event once a barrier is there

ASSUME KernelAssumption ==
    /\ DefaultChan \in Channels
    /\ NoTask \notin Tasks
    /\ MaxBarrier \in Nat \ {0}

VARIABLES
    kstate,     \* out | blocked | runnable | running | dying | gone
    kcur,       \* the ghOSt task each cpu is switched to, if any
    chain,      \* is kcur[c] there by SwitchTo, behind the agent's back?
    on_cpu,     \* GHOST_SW_TASK_ONCPU, cleared some time after the message
    barrier,    \* status_word.barrier of each task
    assoc,      \* the channel each task is associated with
    channel,    \* messages produced and not yet consumed
    stale,      \* the agent barrier moved since the agent read it
    agentRuns,  \* the agent is on its cpu, not blocked in GHOST_RUN
    cfs         \* a higher class wants the cpu: GHOST_SW_BOOST_PRIO

kvars == <<kstate, kcur, chain, on_cpu, barrier, assoc, channel, stale,
           agentRuns, cfs>>

\* What an agent that only reads messages and pings leaves alone.
kquiet == <<kstate, kcur, chain, on_cpu, barrier, assoc, agentRuns, cfs>>

\* Barriers: the bound, and room for the events that are not optional.
Seqnums == 0 .. MaxBarrier + 8

MsgTypes == {"NEW", "WAKEUP", "BLOCKED", "YIELD", "PREEMPT", "SWITCHTO",
             "DEPARTED", "DEAD", "AFFINITY_CHANGED", "CPU_TICK"}

\* flag is payload->runnable of NEW and payload->deferrable of WAKEUP;
\* fsw is payload->from_switchto and cpu is payload->cpu.
Messages == [type : MsgTypes, task : Tasks \cup {NoTask}, seqnum : Seqnums,
             flag : BOOLEAN, fsw : BOOLEAN, cpu : Cpus]

KTypeOK ==
    /\ kstate \in [Tasks -> {"out", "blocked", "runnable", "running",
                             "dying", "gone"}]
    /\ kcur \in [Cpus -> Tasks \cup {NoTask}]
    /\ chain \in [Cpus -> BOOLEAN]
    /\ on_cpu \in [Tasks -> BOOLEAN]
    /\ barrier \in [Tasks -> Seqnums]
    /\ assoc \in [Tasks -> Channels]
    /\ channel \in [Channels -> Seq(Messages)]
    /\ stale \in [Cpus -> BOOLEAN]
    /\ agentRuns \in [Cpus -> BOOLEAN]
    /\ cfs \in [Cpus -> BOOLEAN]

KInit ==
    /\ kstate = [t \in Tasks |-> "out"]
    /\ kcur = [c \in Cpus |-> NoTask]
    /\ chain = [c \in Cpus |-> FALSE]
    /\ on_cpu = [t \in Tasks |-> FALSE]
    /\ barrier = [t \in Tasks |-> 0]
    /\ assoc = [t \in Tasks |-> DefaultChan]
    /\ channel = [q \in Channels |-> << >>]
    /\ stale = [c \in Cpus |-> FALSE]
    /\ agentRuns = [c \in Cpus |-> TRUE]
    /\ cfs = [c \in Cpus |-> FALSE]

-----------------------------------------------------------------------------
(* Producing messages and waking agents. *)

\* payload->cpu of a message that has no such field.
AnyCpu == CHOOSE c \in Cpus : TRUE

Msg(type, t, flag, fsw, c) ==
    [type |-> type, task |-> t, seqnum |-> barrier[t] + 1,
     flag |-> flag, fsw |-> fsw, cpu |-> c]

\* Append m to the task's channel and bump its barrier.
Send(m) ==
    /\ barrier' = [barrier EXCEPT ![m.task] = m.seqnum]
    /\ channel' = [channel EXCEPT ![assoc[m.task]] = Append(@, m)]

\* ... and bump the barrier of the agent the channel wakes, if it wakes one.
Notify(m) == stale' = [c \in Cpus |-> stale[c] \/ c = assoc[m.task]]

Produce(m) == Send(m) /\ Notify(m)

\* GHOST_RUN with GHOST_AGENT_GTID (Agent::Ping): move c's agent barrier.
KPing(c) == stale' = [stale EXCEPT ![c] = TRUE]

-----------------------------------------------------------------------------
(* Task events. *)

\* The ghOSt task on c executes: no higher class is in its way.
Executes(c) == kcur[c] # NoTask /\ ~cfs[c]

\* Optional events stop at the bound; exits do not, so every task can finish.
InBound(t) == barrier[t] < MaxBarrier

\* A thread enters the enclave (sched_setscheduler), runnable or blocked.
KNew(t, runnable) ==
    /\ kstate[t] = "out" /\ InBound(t)
    /\ kstate' = [kstate EXCEPT ![t] = IF runnable THEN "runnable" ELSE "blocked"]
    /\ Produce(Msg("NEW", t, runnable, FALSE, AnyCpu))
    /\ UNCHANGED <<kcur, chain, on_cpu, assoc, agentRuns, cfs>>

KWakeup(t, deferrable) ==
    /\ kstate[t] = "blocked" /\ InBound(t)
    /\ kstate' = [kstate EXCEPT ![t] = "runnable"]
    /\ Produce(Msg("WAKEUP", t, deferrable, FALSE, AnyCpu))
    /\ UNCHANGED <<kcur, chain, on_cpu, assoc, agentRuns, cfs>>

\* The task on c leaves it: the status word keeps on_cpu until KOffCpu.
LeaveCpu(c, type, to) ==
    /\ kstate' = [kstate EXCEPT ![kcur[c]] = to]
    /\ kcur' = [kcur EXCEPT ![c] = NoTask]
    /\ chain' = [chain EXCEPT ![c] = FALSE]
    /\ Produce(Msg(type, kcur[c], FALSE, chain[c], c))
    /\ UNCHANGED <<on_cpu, assoc, agentRuns, cfs>>

KBlock(c) == Executes(c) /\ InBound(kcur[c]) /\ LeaveCpu(c, "BLOCKED", "blocked")

KYield(c) == Executes(c) /\ InBound(kcur[c]) /\ LeaveCpu(c, "YIELD", "runnable")

\* exit(): the task blocks for good, then MSG_TASK_DEAD follows.
KExit(c) == Executes(c) /\ LeaveCpu(c, "BLOCKED", "dying")

KDead(t) ==
    /\ kstate[t] = "dying" /\ ~on_cpu[t]
    /\ kstate' = [kstate EXCEPT ![t] = "gone"]
    /\ Produce(Msg("DEAD", t, FALSE, FALSE, AnyCpu))
    /\ UNCHANGED <<kcur, chain, on_cpu, assoc, agentRuns, cfs>>

\* A higher class takes the cpu from the ghOSt task.
KPreempt(c) ==
    /\ kcur[c] # NoTask
    /\ cfs[c] \/ InBound(kcur[c])
    /\ LeaveCpu(c, "PREEMPT", "runnable")

\* The task on c switches to the blocked task b.  Only the first switch of a
\* chain is announced, and the announcement does not wake the agent.
KSwitchTo(c, b) ==
    LET a == kcur[c]
        m == Msg("SWITCHTO", a, FALSE, FALSE, c)
    IN  /\ Executes(c) /\ InBound(a)
        /\ kstate[b] = "blocked" /\ InBound(b) /\ ~on_cpu[b]
        /\ kstate' = [kstate EXCEPT ![a] = "blocked", ![b] = "running"]
        /\ kcur' = [kcur EXCEPT ![c] = b]
        /\ chain' = [chain EXCEPT ![c] = TRUE]
        /\ on_cpu' = [on_cpu EXCEPT ![b] = TRUE]
        /\ IF chain[c] THEN UNCHANGED <<barrier, channel>> ELSE Send(m)
        /\ UNCHANGED <<assoc, stale, agentRuns, cfs>>

\* A third party moves t out of ghOSt.  It may come back with the same gtid.
KDepart(t, back) ==
    LET running == \E x \in Cpus : kcur[x] = t
        c == IF running THEN CHOOSE x \in Cpus : kcur[x] = t ELSE AnyCpu
    IN  /\ kstate[t] \in {"blocked", "runnable", "running"}
        /\ kstate' = [kstate EXCEPT ![t] = IF back THEN "out" ELSE "gone"]
        /\ kcur' = [kcur EXCEPT ![c] = IF running THEN NoTask ELSE @]
        /\ chain' = [chain EXCEPT ![c] = @ /\ ~running]
        /\ on_cpu' = [on_cpu EXCEPT ![t] = FALSE]
        /\ Produce(Msg("DEPARTED", t, FALSE, running /\ chain[c], c))
        /\ assoc' = [assoc EXCEPT ![t] = DefaultChan]
        /\ UNCHANGED <<agentRuns, cfs>>

\* The switch away from t completes.
KOffCpu(t) ==
    /\ on_cpu[t] /\ \A c \in Cpus : kcur[c] # t
    /\ on_cpu' = [on_cpu EXCEPT ![t] = FALSE]
    /\ UNCHANGED <<kstate, kcur, chain, barrier, assoc, channel, stale,
                   agentRuns, cfs>>

KCfsArrives(c) ==
    /\ ~cfs[c]
    /\ kcur[c] # NoTask => InBound(kcur[c])
    /\ cfs' = [cfs EXCEPT ![c] = TRUE]
    /\ UNCHANGED <<kstate, kcur, chain, on_cpu, barrier, assoc, channel,
                   stale, agentRuns>>

KCfsLeaves(c) ==
    /\ cfs[c]
    /\ cfs' = [cfs EXCEPT ![c] = FALSE]
    /\ UNCHANGED <<kstate, kcur, chain, on_cpu, barrier, assoc, channel,
                   stale, agentRuns>>

-----------------------------------------------------------------------------
(* What a call of an agent does in the kernel. *)

\* Channel::AssociateTask succeeds iff the agent has seen every message.
CanAssociate(t, seqnum) ==
    kstate[t] \notin {"out", "gone"} /\ barrier[t] = seqnum

\* The outcome of committing "run t on c" with barrier seqnum and a current
\* agent barrier; the outcomes CompleteRunRequest expects are the first two.
CommitOutcome(t, seqnum) ==
    IF kstate[t] \in {"out", "gone"} THEN "TARGET_NOT_FOUND"
    ELSE IF barrier[t] # seqnum THEN "TARGET_STALE"
    ELSE IF on_cpu[t] THEN "TARGET_ONCPU"
    ELSE IF kstate[t] \in {"blocked", "dying"} THEN "TARGET_NOT_RUNNABLE"
    ELSE "COMPLETE"

\* c switches to t.  A ghOSt task that was running there is preempted.
KSwitch(c, t) ==
    LET prev == kcur[c]
    IN  /\ kcur' = [kcur EXCEPT ![c] = t]
        /\ chain' = [chain EXCEPT ![c] = FALSE]
        /\ kstate' = [u \in Tasks |-> IF u = t THEN "running"
                                      ELSE IF u = prev THEN "runnable"
                                      ELSE kstate[u]]
        /\ on_cpu' = [on_cpu EXCEPT ![t] = TRUE]
        /\ IF prev \in {t, NoTask}
             THEN UNCHANGED <<barrier, channel, stale>>
             ELSE Produce(Msg("PREEMPT", prev, FALSE, chain[c], c))

\* The agent of c takes its cpu back.  The task it had put there is off the
\* cpu, with a message (announce: what the comments of the global schedulers rely
\* on) or without (what FifoSchedule's use of `current' relies on); a task that
\* came by SwitchTo is always announced to the agent it belongs to.
KAgentOnCpu(c, announce) ==
    LET prev == kcur[c]
    IN  /\ announce => prev # NoTask /\ InBound(prev)
        /\ agentRuns' = [agentRuns EXCEPT ![c] = TRUE]
        /\ kcur' = [kcur EXCEPT ![c] = NoTask]
        /\ chain' = [chain EXCEPT ![c] = FALSE]
        /\ kstate' = [t \in Tasks |-> IF t = prev THEN "runnable" ELSE kstate[t]]
        /\ on_cpu' = [t \in Tasks |-> on_cpu[t] /\ t # prev]
        /\ IF announce \/ chain[c]
             THEN Produce(Msg("PREEMPT", prev, FALSE, chain[c], c))
             ELSE UNCHANGED <<barrier, channel, stale>>
        /\ UNCHANGED <<assoc, cfs>>
=============================================================================
