-------------------------------- MODULE Cfs --------------------------------
(***************************************************************************)
(* The CFS scheduler, schedulers/cfs, composed with the kernel: one agent  *)
(* and one run queue, ordered by vruntime, per cpu.  A task that becomes   *)
(* runnable goes to the migration queue of the agent that reads about it,  *)
(* which hands it to a run queue once its channel is drained; an agent     *)
(* about to idle takes tasks from the longest run queue.                   *)
(*                                                                         *)
(* A run queue's mutex protects the queue and the tasks associated with    *)
(* it.  Every critical section is one step, but for the drain of an        *)
(* agent's own channel: pc[c] = "drain" is that agent holding its mutex.   *)
(*                                                                         *)
(* The fields of the scheduler object are one record, so that its methods  *)
(* are operators from record to record; `ok' is false once a CHECK (of a   *)
(* debug build) failed.  vruntime and the runtime a tick compares are data *)
(* that only order choices: what a run adds to the former, and whether a   *)
(* tick finds the task over its granularity, is any value.                 *)
(***************************************************************************)
EXTENDS GhostKernel, FiniteSets, SequencesExt

CONSTANTS NoCpu,         \* int cpu = -1
          Departs,       \* may a task leave the enclave alive?
          SwitchTo,      \* do threads use SwitchTo?
          CfsCpus,       \* the cpus a higher class competes for
          AgentPreempts, \* is the task an agent displaces announced?
          Ticks,         \* are there MSG_CPU_TICKs?
          Masks,         \* the affinity masks threads have
          MaxVruntime    \* bound: no task is charged beyond it

VARIABLES
    sched,      \* the scheduler object
    pc,         \* where each agent's thread is
    nxt,        \* MigrateTasks: the task being handed over
    dest,       \* ... and to which cpu; LoadBalance: from which
    work,       \* tasks still to migrate; tasks detached and not attached
    on_idle,    \* RTLA_ON_IDLE was passed to LocalYield
    kaffinity   \* what sched_getaffinity returns

svars == <<sched, pc, nxt, dest, work, on_idle, kaffinity>>
vars == <<kvars, svars>>

CfsTask == [state : {"kBlocked", "kRunnable", "kRunning", "kDone"},
            on_rq : {"kDequeued", "kQueued", "kMigrating"},
            cpu : Cpus \cup {NoCpu}, cpu_affinity : SUBSET Cpus,
            vruntime : 0 .. MaxVruntime, seqnum : Seqnums]
NewTask == [state |-> "kBlocked", on_rq |-> "kDequeued", cpu |-> NoCpu,
            cpu_affinity |-> {}, vruntime |-> 0, seqnum |-> 0]

PCs == {"loop", "drain", "migrate", "associate", "ping", "sched", "balance", "detach",
        "attach", "pick", "commit", "yield", "asleep", "in_run"}

TypeOK ==
    /\ KTypeOK
    /\ sched.known \subseteq Tasks
    /\ sched.task \in [Tasks -> CfsTask]
    /\ sched.rq \in [Cpus -> SUBSET Tasks] /\ sched.mq \in [Cpus -> SUBSET Tasks]
    /\ sched.current \in [Cpus -> Tasks \cup {NoTask}]
    /\ sched.preempt_curr \in [Cpus -> BOOLEAN]
    /\ sched.min_vruntime \in [Cpus -> 0 .. MaxVruntime]
    /\ sched.ok \in BOOLEAN /\ sched.freed \in BOOLEAN
    /\ pc \in [Cpus -> PCs]
    /\ nxt \in [Cpus -> Tasks \cup {NoTask}]
    /\ dest \in [Cpus -> Cpus \cup {NoCpu}]
    /\ work \in [Cpus -> SUBSET Tasks]
    /\ on_idle \in [Cpus -> BOOLEAN]
    /\ kaffinity \in [Tasks -> Masks]

Init ==
    /\ KInit
    /\ sched = [known |-> {}, task |-> [t \in Tasks |-> NewTask],
                rq |-> [c \in Cpus |-> {}], mq |-> [c \in Cpus |-> {}],
                current |-> [c \in Cpus |-> NoTask],
                preempt_curr |-> [c \in Cpus |-> FALSE],
                min_vruntime |-> [c \in Cpus |-> 0], ok |-> TRUE, freed |-> FALSE]
    /\ pc = [c \in Cpus |-> "loop"]
    /\ nxt = [c \in Cpus |-> NoTask] /\ dest = [c \in Cpus |-> NoCpu]
    /\ work = [c \in Cpus |-> {}] /\ on_idle = [c \in Cpus |-> FALSE]
    /\ kaffinity \in [Tasks -> Masks]

-----------------------------------------------------------------------------
(* CfsTaskState and CfsRq. *)

Check(s, cond) == [s EXCEPT !.ok = @ /\ cond]

State(s, t) == s.task[t].state

\* AssertValidTransition: the states each state may be entered from.
ToState == [kBlocked  |-> {"kRunning", "kBlocked"},
            kRunnable |-> {"kBlocked", "kRunning", "kRunnable"},
            kRunning  |-> {"kRunnable", "kRunning"},
            kDone     |-> {"kRunnable", "kBlocked", "kRunning"}]
ToOnRq == [kDequeued  |-> {"kQueued"},
           kQueued    |-> {"kDequeued", "kMigrating"},
           kMigrating |-> {"kDequeued", "kQueued"}]

SetState(s, t, state) ==
    Check([s EXCEPT !.task[t].state = state], State(s, t) \in ToState[state])

SetOnRq(s, t, on_rq) ==
    Check([s EXCEPT !.task[t].on_rq = on_rq], s.task[t].on_rq \in ToOnRq[on_rq])

\* The smallest vruntime on c's run queue, which is not empty.
Leftmost(s, c) == Min({s.task[t].vruntime : t \in s.rq[c]})

\* Tasks of equal vruntime are ordered by their addresses.
LeftmostRqTask(s, c) == {t \in s.rq[c] : s.task[t].vruntime = Leftmost(s, c)}

InsertTaskIntoRq(s, c, t) ==
    LET s1 == [SetOnRq(s, t, "kQueued") EXCEPT !.rq[c] = @ \cup {t}]
    IN  [s1 EXCEPT !.min_vruntime[c] = Leftmost(s1, c)]

EnqueueTask(s, c, t) ==
    InsertTaskIntoRq([s EXCEPT !.task[t].vruntime = Max({@, s.min_vruntime[c]})], c, t)

DequeueTask(s, c, t) ==
    IF t \in s.rq[c] THEN SetOnRq([s EXCEPT !.rq[c] = @ \ {t}], t, "kDequeued") ELSE s

FreeTask(s, t) == [s EXCEPT !.known = @ \ {t}, !.task[t] = NewTask]

\* What a build may find in the memory of a freed task: nothing it counts, or a
\* runnable task of any vruntime.
NoJunk == -1
Junk == {NoJunk} \cup (0 .. MaxVruntime)

\* The vruntimes min_vruntime_ is raised to the smallest of: that of the leftmost
\* task and, if it counts, of cs->current.
Contenders(s, c, junk) ==
    LET cur == s.current[c]
        counts == cur # NoTask /\ State(s, cur) \in {"kRunnable", "kRunning"}
    IN  (IF s.rq[c] = {} THEN {} ELSE {Leftmost(s, c)})
          \cup (IF cur # NoTask /\ cur \notin s.known THEN {junk} \ {NoJunk}
                ELSE IF counts THEN {s.task[cur].vruntime} ELSE {})

UpdateMinVruntime(s, c, junk) ==
    LET vs == Contenders(s, c, junk)
    IN  [s EXCEPT !.min_vruntime[c] = IF vs = {} THEN @ ELSE Max({@, Min(vs)}),
                  !.freed = @ \/ (s.current[c] # NoTask /\ s.current[c] \notin s.known)]

-----------------------------------------------------------------------------
(* CfsMq, and the moves between the queues. *)

\* StartMigrateTask, of a task of c.
StartMigrateTask(s, c, t) ==
    [SetOnRq(DequeueTask(s, c, t), t, "kMigrating") EXCEPT !.mq[c] = @ \cup {t}]

NotCurrent(s, c, t) == [s EXCEPT !.current[c] = IF @ = t THEN NoTask ELSE @]

\* CfsScheduler::PutPrevTask.
PutPrevTask(s, c, t) ==
    LET s1 == SetState(NotCurrent(s, c, t), t, "kRunnable")
    IN  IF s.task[t].cpu \in s.task[t].cpu_affinity
          THEN InsertTaskIntoRq(s1, c, t)
          ELSE StartMigrateTask(s1, c, t)

-----------------------------------------------------------------------------
(* Schedule: read the agent barrier, then drain the channel under the lock. *)

At(c, label) == sched.ok /\ pc[c] = label

Goto(c, label) == pc' = [pc EXCEPT ![c] = label]

ReadBarrier(c) ==
    /\ At(c, "loop")
    /\ stale' = [stale EXCEPT ![c] = FALSE]
    /\ Goto(c, "drain")
    /\ UNCHANGED <<kquiet, channel, sched, nxt, dest, work, on_idle, kaffinity>>

ChannelEmpty(c) ==
    /\ At(c, "drain") /\ channel[c] = << >>
    /\ Goto(c, "migrate")
    /\ work' = [work EXCEPT ![c] = sched.mq[c]]
    /\ UNCHANGED <<kvars, sched, nxt, dest, on_idle, kaffinity>>

Peek(c) == Head(channel[c])

Dispatching(c, type) ==
    /\ At(c, "drain") /\ channel[c] # << >> /\ Peek(c).type = type
    /\ type # "CPU_TICK" => (type = "NEW" <=> Peek(c).task \notin sched.known)

\* The rest of a handler: what it made of the scheduler, and the Ping it did.
Dispatched(c, after, ping) ==
    /\ sched' = after
    /\ IF ping THEN KPing(Peek(c).cpu) ELSE UNCHANGED stale
    /\ channel' = [channel EXCEPT ![c] = Tail(@)]
    /\ UNCHANGED <<kquiet, pc, nxt, dest, work, on_idle, kaffinity>>

\* Task::Advance.
Advance(s, t, seqnum) ==
    Check([s EXCEPT !.task[t].seqnum = seqnum], seqnum > s.task[t].seqnum)

\* SchedGetAffinity fails if the thread is gone: all cpus are eligible.
Affinity(t) ==
    {kaffinity[t]} \cup (IF kstate[t] \in {"out", "gone"} THEN {Cpus} ELSE {})

\* Runnable, and to be handed to some run queue after the drain.
EntersMq(s, c, t) ==
    [SetOnRq(SetState(s, t, "kRunnable"), t, "kMigrating") EXCEPT !.mq[c] = @ \cup {t}]

TaskNew(c) ==
    LET m == Peek(c)
        t == m.task
        new(mask) == [sched EXCEPT !.known = @ \cup {t},
                        !.task[t] = [NewTask EXCEPT !.cpu = c, !.cpu_affinity = mask,
                                                    !.seqnum = m.seqnum]]
    IN  /\ Dispatching(c, "NEW")
        /\ \E mask \in Affinity(t) :
             Dispatched(c, IF m.flag THEN EntersMq(new(mask), c, t) ELSE new(mask), FALSE)

TaskRunnable(c) ==
    LET t == Peek(c).task
        s == Check(NotCurrent(Advance(sched, t, Peek(c).seqnum), c, t), sched.task[t].cpu = c)
    IN  Dispatching(c, "WAKEUP") /\ Dispatched(c, EntersMq(s, c, t), FALSE)

\* A task that is some cpu's current one is freed by PickNextTask.
FreesNow(s, c, t) == s.current[c] # t

\* HandleTaskDone, where UpdateMinVruntime finds cs->current alive.
HandleTaskDone(s, c, t) ==
    LET s1 == Check(SetState([s EXCEPT !.mq[c] = @ \ {t}], t, "kDone"), s.task[t].cpu = c)
    IN  IF FreesNow(s, c, t)
          THEN UpdateMinVruntime(FreeTask(DequeueTask(s1, c, t), t), c, NoJunk)
          ELSE s1

TaskDeparted(c) ==
    /\ Dispatching(c, "DEPARTED")
    /\ Dispatched(c, HandleTaskDone(sched, c, Peek(c).task), Peek(c).fsw)

TaskDead(c) ==
    /\ Dispatching(c, "DEAD")
    /\ Dispatched(c, HandleTaskDone(sched, c, Peek(c).task), FALSE)

\* The CHECKs of TaskYield, TaskBlocked and TaskPreempted; a SwitchTo chain that
\* ended on another cpu is announced to its agent.
OffCpu(c) ==
    LET m == Peek(c)
    IN  Check(Advance(sched, m.task, m.seqnum),
              /\ m.fsw \/ (sched.current[c] = m.task /\ m.cpu = c)
              /\ sched.task[m.task].on_rq = "kDequeued")

TaskYield(c) ==
    /\ Dispatching(c, "YIELD")
    /\ Dispatched(c, PutPrevTask(OffCpu(c), c, Peek(c).task), Peek(c).cpu # c)

\* A slip: the task stays the current one.
TaskPreemptedStays(c) ==
    /\ Dispatching(c, "PREEMPT")
    /\ Dispatched(c, OffCpu(c), Peek(c).cpu # c)

TaskPreempted(c) ==
    /\ Dispatching(c, "PREEMPT")
    /\ Dispatched(c, PutPrevTask(OffCpu(c), c, Peek(c).task), Peek(c).cpu # c)

TaskBlocked(c) ==
    LET t == Peek(c).task
    IN  /\ Dispatching(c, "BLOCKED")
        /\ Dispatched(c, SetState(NotCurrent(OffCpu(c), c, t), t, "kBlocked"), Peek(c).cpu # c)

TaskSwitchto(c) ==
    LET t == Peek(c).task
    IN  /\ Dispatching(c, "SWITCHTO")
        /\ Dispatched(c, SetState(NotCurrent(OffCpu(c), c, t), t, "kBlocked"), FALSE)

\* Only a task that waits on the wrong run queue moves now.
TaskAffinityChanged(c) ==
    LET t == Peek(c).task
        s(mask) == [Advance(Check(sched, sched.task[t].cpu = c), t, Peek(c).seqnum)
                      EXCEPT !.task[t].cpu_affinity = mask]
        moves(mask) == /\ c \notin mask /\ State(sched, t) = "kRunnable"
                       /\ sched.task[t].on_rq # "kMigrating"
    IN  /\ Dispatching(c, "AFFINITY_CHANGED")
        /\ \E mask \in Affinity(t) :
             Dispatched(c, IF moves(mask) THEN StartMigrateTask(s(mask), c, t) ELSE s(mask),
                        FALSE)

\* CpuTick, CheckPreemptTick: has the current task run for its granularity?
CpuTick(c) ==
    /\ Dispatching(c, "CPU_TICK")
    /\ \E over \in IF sched.current[c] = NoTask THEN {FALSE} ELSE BOOLEAN :
         Dispatched(c, [sched EXCEPT !.preempt_curr[c] = @ \/ over], FALSE)

-----------------------------------------------------------------------------
(* MigrateTasks: each entry of the migration queue is tried once. *)

\* The run queue of d can be locked by another agent.
Unlocked(c, d) == c = d \/ pc[d] # "drain"

\* The agent's own cpu if it is eligible and its run queue is empty; else the sizes
\* of the other queues decide, read one lock at a time.  No cpu eligible: its own.
SelectTaskRq(c, t) ==
    LET eligible == Cpus \cap sched.task[t].cpu_affinity
    IN  IF eligible = {} \/ (c \in eligible /\ sched.rq[c] = {}) THEN {c} ELSE eligible

MigrateNext(c) ==
    /\ At(c, "migrate")
    /\ \E t \in work[c] : \E d \in SelectTaskRq(c, t) :
         /\ sched' = Check(sched, sched.task[t].on_rq = "kMigrating")
         /\ nxt' = [nxt EXCEPT ![c] = t] /\ dest' = [dest EXCEPT ![c] = d]
         /\ work' = [work EXCEPT ![c] = @ \ {t}]
    /\ Goto(c, "associate")
    /\ UNCHANGED <<kvars, on_idle, kaffinity>>

MigrationsEnd(c) ==
    /\ At(c, "migrate") /\ work[c] = {}
    /\ Goto(c, "sched")
    /\ UNCHANGED <<kvars, sched, nxt, dest, work, on_idle, kaffinity>>

\* task->task_state.IsRunnable() lets it in.
Arrives(s, d, t) == IF State(s, t) = "kRunnable" THEN EnqueueTask(s, d, t) ELSE s

\* Migrate, with the lock of the destination.
Associates(c) ==
    LET t == nxt[c]
        d == dest[c]
    IN  /\ At(c, "associate") /\ Unlocked(c, d)
        /\ IF sched.task[t].cpu = d
             THEN /\ sched' = [Arrives(sched, d, t) EXCEPT !.mq[c] = @ \ {t}]
                  /\ Goto(c, "migrate") /\ UNCHANGED assoc
           ELSE IF CanAssociate(t, sched.task[t].seqnum)
             THEN /\ assoc' = [assoc EXCEPT ![t] = d]
                  /\ sched' = Arrives([sched EXCEPT !.task[t].cpu = d], d, t)
                  /\ Goto(c, "ping")
           ELSE Goto(c, "migrate") /\ UNCHANGED <<assoc, sched>>
        /\ UNCHANGED <<kstate, kcur, chain, on_cpu, barrier, channel, stale, agentRuns, cfs,
                       nxt, dest, work, on_idle, kaffinity>>

\* A slip: the agent that gets the task is not told.
PingsNobody(c) == UNCHANGED stale

PingCpu(c) == KPing(dest[c])

\* PingCpu, then the entry is erased.
Migrated(c) ==
    /\ At(c, "ping")
    /\ PingCpu(c)
    /\ sched' = [sched EXCEPT !.mq[c] = @ \ {nxt[c]}]
    /\ Goto(c, "migrate")
    /\ UNCHANGED <<kquiet, channel, nxt, dest, work, on_idle, kaffinity>>

-----------------------------------------------------------------------------
(* CfsSchedule. *)

\* What PickNextTask, and an agent that must yield, do with the current task.
Reconciled(s, c) ==
    LET prev == s.current[c]
    IN  IF prev = NoTask \/ State(s, prev) = "kBlocked" THEN s
        ELSE IF State(s, prev) = "kDone" THEN FreeTask(DequeueTask(s, c, prev), prev)
        ELSE SetState(InsertTaskIntoRq(s, c, prev), prev, "kRunnable")

\* prio_boost: the task goes back to the run queue, and the agent yields.
YieldBoosted(c) ==
    LET s == [Reconciled(sched, c) EXCEPT !.preempt_curr[c] = FALSE, !.current[c] = NoTask]
    IN  /\ At(c, "sched") /\ cfs[c]
        /\ sched' = IF sched.current[c] = NoTask THEN sched ELSE UpdateMinVruntime(s, c, NoJunk)
        /\ on_idle' = [on_idle EXCEPT ![c] = TRUE]
        /\ Goto(c, "yield")
        /\ UNCHANGED <<kvars, nxt, dest, work, kaffinity>>

\* CfsSchedule has found no task: cs->current = nullptr, once it goes on to yield.
Idle(s, c, to) == [s EXCEPT !.current[c] = IF to = "yield" THEN NoTask ELSE @]

\* The end of PickNextTask: next is dequeued, or there is none; cs->current is
\* still the previous task when min_vruntime_ is updated.
PickFrom(s, c, otherwise) ==
    /\ \E junk \in IF s.current[c] \in s.known \cup {NoTask} THEN {NoJunk} ELSE Junk :
         \/ /\ s.rq[c] = {}
            /\ sched' = Idle(UpdateMinVruntime(s, c, junk), c, otherwise)
            /\ Goto(c, otherwise)
         \/ \E t \in LeftmostRqTask(s, c) :
              /\ s.rq[c] # {}
              /\ sched' = [UpdateMinVruntime(SetState(DequeueTask(s, c, t), t, "kRunning"), c,
                                             junk) EXCEPT !.current[c] = t]
              /\ Goto(c, "commit")
    /\ on_idle' = [on_idle EXCEPT ![c] = FALSE]
    /\ UNCHANGED <<kvars, nxt, dest, work, kaffinity>>

KeepsRunning(c) ==
    /\ sched.current[c] # NoTask /\ State(sched, sched.current[c]) = "kRunning"
    /\ ~sched.preempt_curr[c]

PickNextTask(c) ==
    /\ At(c, "sched") /\ ~cfs[c]
    /\ IF KeepsRunning(c)
         THEN /\ Goto(c, "commit")
              /\ UNCHANGED <<kvars, sched, nxt, dest, work, on_idle, kaffinity>>
         ELSE PickFrom([Reconciled(sched, c) EXCEPT !.preempt_curr[c] = FALSE], c, "balance")

-----------------------------------------------------------------------------
(* NewIdleBalance. *)

Size(c) == Cardinality(sched.rq[c])

Busiest == Min({c \in Cpus : \A d \in Cpus : Size(d) <= Size(c)})

\* CalculateImbalance; kMaxTasksToLoadBalance is beyond any bound here.
Imbalance(c, src) ==
    LET excess == Size(src) - Size(c) IN IF excess >= 2 THEN excess \div 2 ELSE 0

\* The sizes are read without locks.
LoadBalance(c) ==
    /\ At(c, "balance")
    /\ IF Size(c) = 0 /\ Busiest # c /\ Imbalance(c, Busiest) > 0
         THEN Goto(c, "detach") /\ dest' = [dest EXCEPT ![c] = Busiest] /\ UNCHANGED sched
         ELSE Goto(c, "yield") /\ sched' = Idle(sched, c, "yield") /\ UNCHANGED dest
    /\ UNCHANGED <<kvars, nxt, work, on_idle, kaffinity>>

\* A slip: a task about which a message is unread may go too.
CanMigrateUnread(c, t) == c \in sched.task[t].cpu_affinity

CanMigrateTask(c, t) ==
    /\ c \in sched.task[t].cpu_affinity
    /\ CanAssociate(t, sched.task[t].seqnum)

\* The leftmost tasks that can leave src for c, n at most, and one stays.
Detachable(c, src, n) ==
    LET able == {t \in sched.rq[src] : CanMigrateTask(c, t)}
        k == Min({n, Size(src) - 1, Cardinality(able)})
    IN  {D \in SUBSET able :
           /\ Cardinality(D) = Max({k, 0})
           /\ \A t \in D, u \in able \ D : sched.task[t].vruntime <= sched.task[u].vruntime}

\* DetachTasks, with the lock of the source; n was computed from sizes that may have
\* changed since.
DetachTasks(c) ==
    LET src == dest[c]
    IN  /\ At(c, "detach") /\ Unlocked(c, src)
        /\ \E n \in 1 .. Cardinality(Tasks) \div 2 : \E D \in Detachable(c, src, n) :
             /\ sched' = [Idle(sched, c, IF D = {} THEN "yield" ELSE "attach") EXCEPT
                            !.rq[src] = @ \ D,
                            !.task = [t \in Tasks |-> IF t \notin D THEN @[t] ELSE
                                        [@[t] EXCEPT !.cpu = c, !.on_rq = "kDequeued"]]]
             /\ assoc' = [t \in Tasks |-> IF t \in D THEN c ELSE assoc[t]]
             /\ work' = [work EXCEPT ![c] = D]
             /\ Goto(c, IF D = {} THEN "yield" ELSE "attach")
        /\ UNCHANGED <<kstate, kcur, chain, on_cpu, barrier, channel, stale, agentRuns, cfs,
                       nxt, dest, on_idle, kaffinity>>

\* AttachTasks, one task at a time under one lock: nobody sees the steps between.
AttachTasks(c) ==
    /\ At(c, "attach")
    /\ \E t \in work[c] :
         /\ \A u \in work[c] : sched.task[t].vruntime <= sched.task[u].vruntime
         /\ sched' = EnqueueTask(sched, c, t)
         /\ work' = [work EXCEPT ![c] = @ \ {t}]
         /\ Goto(c, IF work[c] = {t} THEN "pick" ELSE "attach")
    /\ UNCHANGED <<kvars, nxt, dest, on_idle, kaffinity>>

\* PickNextTask(nullptr).
PickAttached(c) ==
    /\ At(c, "pick")
    /\ PickFrom([sched EXCEPT !.preempt_curr[c] = FALSE], c, "yield")

-----------------------------------------------------------------------------
(* The commit, and the agent's sleep. *)

\* LocalYield: GHOST_RUN fails with ESTALE when the agent barrier moved.
LocalYield(c) ==
    /\ At(c, "yield")
    /\ agentRuns' = [agentRuns EXCEPT ![c] = stale[c]]
    /\ Goto(c, IF stale[c] THEN "loop" ELSE "asleep")
    /\ UNCHANGED <<kstate, kcur, chain, on_cpu, barrier, assoc, channel, stale, cfs, sched,
                   nxt, dest, work, on_idle, kaffinity>>

\* Commit, once next->status_word.on_cpu() is false: the agent blocks, next runs.
CommitSucceeds(c) ==
    LET t == sched.current[c]
    IN  /\ At(c, "commit") /\ ~on_cpu[t] /\ ~stale[c]
        /\ CommitOutcome(t, sched.task[t].seqnum) = "COMPLETE"
        /\ cfs[c] => InBound(t)
        /\ KSwitch(c, t)
        /\ agentRuns' = [agentRuns EXCEPT ![c] = FALSE]
        /\ Goto(c, "in_run")
        /\ UNCHANGED <<assoc, cfs, sched, nxt, dest, work, on_idle, kaffinity>>

\* next stays cs->current, whatever became of it.
CommitFails(c) ==
    LET t == sched.current[c]
        outcome == CommitOutcome(t, sched.task[t].seqnum)
    IN  /\ At(c, "commit") /\ ~on_cpu[t]
        /\ stale[c] \/ cfs[c] \/ outcome # "COMPLETE"
        /\ sched' = Check(sched, stale[c] \/ outcome # "TARGET_NOT_RUNNABLE")
        /\ Goto(c, "loop")
        /\ UNCHANGED <<kvars, nxt, dest, work, on_idle, kaffinity>>

\* The agent is back on its cpu; a commit that succeeded returns here, and the
\* task is charged for its run.
AgentWakes(c) ==
    LET t == sched.current[c]
        charged(v) == [sched EXCEPT !.task[t].vruntime = Min({@ + v, MaxVruntime})]
    IN  /\ At(c, "asleep") \/ At(c, "in_run")
        /\ stale[c] \/ (pc[c] = "asleep" /\ on_idle[c] /\ ~cfs[c] /\ kcur[c] = NoTask)
        /\ \E announce \in AgentPreempts : KAgentOnCpu(c, announce)
        /\ IF pc[c] = "in_run" THEN \E v \in 0 .. 1 : sched' = charged(v) ELSE UNCHANGED sched
        /\ Goto(c, "loop")
        /\ UNCHANGED <<nxt, dest, work, on_idle, kaffinity>>

-----------------------------------------------------------------------------
(* Kernel events only this scheduler handles. *)

\* A tick on a busy cpu; one at a time in a channel.
KTick(c) ==
    /\ kcur[c] # NoTask
    /\ \A i \in DOMAIN channel[c] : channel[c][i].type # "CPU_TICK"
    /\ channel' = [channel EXCEPT ![c] =
         Append(@, [type |-> "CPU_TICK", task |-> NoTask, seqnum |-> 0, flag |-> FALSE,
                    fsw |-> FALSE, cpu |-> c])]
    /\ KPing(c)
    /\ UNCHANGED <<kquiet, svars>>

\* sched_setaffinity.  A task that is running is forced off its cpu.
KSetAffinity(t, mask) ==
    LET m == Msg("AFFINITY_CHANGED", t, FALSE, FALSE, AnyCpu)
        on == {c \in Cpus : kcur[c] = t}
        off == [c \in on |-> [Msg("PREEMPT", t, FALSE, chain[c], c) EXCEPT !.seqnum = @ + 1]]
        ms == IF on = {} THEN <<m>> ELSE <<m, off[Min(on)]>>
    IN  /\ kstate[t] \in {"blocked", "runnable", "running"} /\ InBound(t)
        /\ mask # kaffinity[t]
        /\ kaffinity' = [kaffinity EXCEPT ![t] = mask]
        /\ barrier' = [barrier EXCEPT ![t] = @ + Len(ms)]
        /\ channel' = [channel EXCEPT ![assoc[t]] = @ \o ms]
        /\ KPing(assoc[t])
        /\ kstate' = [kstate EXCEPT ![t] = IF on = {} THEN @ ELSE "runnable"]
        /\ kcur' = [c \in Cpus |-> IF c \in on THEN NoTask ELSE kcur[c]]
        /\ chain' = [c \in Cpus |-> chain[c] /\ c \notin on]
        /\ UNCHANGED <<on_cpu, assoc, agentRuns, cfs, sched, pc, nxt, dest, work, on_idle>>

-----------------------------------------------------------------------------
(* Composition. *)

Agent(c) ==
    \/ ReadBarrier(c) \/ ChannelEmpty(c)
    \/ TaskNew(c) \/ TaskRunnable(c) \/ TaskDeparted(c) \/ TaskDead(c)
    \/ TaskYield(c) \/ TaskPreempted(c) \/ TaskBlocked(c) \/ TaskSwitchto(c)
    \/ TaskAffinityChanged(c) \/ CpuTick(c)
    \/ MigrateNext(c) \/ MigrationsEnd(c) \/ Associates(c) \/ Migrated(c)
    \/ YieldBoosted(c) \/ PickNextTask(c)
    \/ LoadBalance(c) \/ DetachTasks(c) \/ AttachTasks(c) \/ PickAttached(c)
    \/ LocalYield(c) \/ CommitSucceeds(c) \/ CommitFails(c) \/ AgentWakes(c)

Kernel ==
    \/ \E t \in Tasks, flag \in BOOLEAN : KNew(t, flag) /\ UNCHANGED svars
    \/ \E t \in Tasks : KWakeup(t, FALSE) /\ UNCHANGED svars
    \/ \E t \in Tasks : KDead(t) /\ UNCHANGED svars
    \/ \E t \in Tasks : KOffCpu(t) /\ UNCHANGED svars
    \/ \E t \in Tasks : Departs /\ InBound(t) /\ KDepart(t, FALSE) /\ UNCHANGED svars
    \/ \E c \in Cpus : KBlock(c) /\ UNCHANGED svars
    \/ \E c \in Cpus : KYield(c) /\ UNCHANGED svars
    \/ \E c \in Cpus : KExit(c) /\ UNCHANGED svars
    \/ \E c \in Cpus : KPreempt(c) /\ UNCHANGED svars
    \/ \E c \in Cpus, b \in Tasks : SwitchTo /\ KSwitchTo(c, b) /\ UNCHANGED svars
    \/ \E c \in CfsCpus : KCfsArrives(c) /\ UNCHANGED svars
    \/ \E c \in Cpus : KCfsLeaves(c) /\ UNCHANGED svars
    \/ \E c \in Cpus : Ticks /\ KTick(c)
    \/ \E t \in Tasks, mask \in Masks : KSetAffinity(t, mask)

\* No client thread wants a cpu and no agent has anything to do.
Done ==
    /\ \A t \in Tasks : kstate[t] \in {"out", "blocked", "gone"}
    /\ \A c \in Cpus : pc[c] = "asleep" /\ ~stale[c]
    /\ UNCHANGED vars

Next == Kernel \/ (\E c \in Cpus : Agent(c)) \/ Done

Spec == Init /\ [][Next]_vars

-----------------------------------------------------------------------------
(* Properties. *)

\* No CHECK fails, no state transition is one that AssertValidTransition refuses,
\* no handler touches a task of a cpu whose lock its agent does not hold, and no
\* commit ends in an unexpected state.
NoFault == sched.ok

\* The agent of c has moved t and not yet erased it from its migration queue.
HandedOver(c, t) == pc[c] = "ping" /\ nxt[c] = t

\* Detached from one run queue and not yet attached to another.
InHand(c, t) == pc[c] = "attach" /\ t \in work[c]

\* cfs_scheduler.h: a non-blocked task is on the run queue or on the migration queue
\* of its cpu, never on both, as its OnRq state says; a running one is on neither and
\* is its cpu's current task.
QueuesMatchStates ==
    \A t \in sched.known, c \in Cpus :
        LET k == sched.task[t]
        IN  /\ t \in sched.rq[c] <=> k.on_rq = "kQueued" /\ k.cpu = c
            /\ t \in sched.mq[c] <=> HandedOver(c, t) \/ (k.on_rq = "kMigrating" /\ k.cpu = c)
            /\ sched.current[c] = t => /\ k.cpu = c /\ k.on_rq = "kDequeued"
                                       /\ k.state \in {"kRunning", "kDone"}
            /\ k.cpu = c => CASE k.state = "kBlocked"  -> k.on_rq = "kDequeued"
                              [] k.state = "kRunnable" -> k.on_rq # "kDequeued" \/ InHand(c, t)
                              [] OTHER                 -> sched.current[c] = t

\* Nothing in any channel is about t.
NoMessage(t) ==
    \A q \in Channels : \A i \in DOMAIN channel[q] : channel[q][i].task # t

\* When every message about a task has been consumed, the agents' books agree with
\* the kernel, however often the task was migrated or taken by another cpu: a runnable
\* task is waiting at the cpu it is associated with, a running one is the one that
\* cpu's agent committed, and a task that left is freed or about to be.
BooksAgree ==
    \A t \in Tasks : NoMessage(t) =>
        LET k == sched.task[t]
        IN  CASE kstate[t] \in {"out", "gone"} -> t \notin sched.known \/ k.state = "kDone"
              [] kstate[t] \in {"blocked", "dying"} -> t \in sched.known /\ k.state = "kBlocked"
              [] kstate[t] = "runnable" ->
                   t \in sched.known /\ k.cpu = assoc[t] /\ k.state \in {"kRunnable", "kRunning"}
              [] kstate[t] = "running" ->
                   /\ t \in sched.known
                   /\ IF \E d \in Cpus : kcur[d] = t /\ chain[d]
                        THEN k.state = "kBlocked"
                        ELSE kcur[k.cpu] = t /\ sched.current[k.cpu] = t

\* Another agent is about to ping c: it has just handed a task over, or has still to
\* read that the SwitchTo chain on c ended.
PingComing(c) ==
    \/ \E d \in Cpus : pc[d] = "ping" /\ dest[d] = c
    \/ \E d \in Cpus : \E i \in DOMAIN channel[d] :
         channel[d][i].fsw /\ channel[d][i].cpu = c

\* No agent sleeps on work: asleep with nothing to wake it, it has no unread message
\* and no task to run or to migrate, or the kernel returns to it on idle; blocked in a
\* commit that succeeded, the cpu it gave away is not idle.
NoSleepOnWork ==
    \A c \in Cpus : ~agentRuns[c] /\ ~stale[c] /\ ~PingComing(c) =>
        IF pc[c] = "asleep"
          THEN /\ channel[c] = << >>
               /\ \/ sched.rq[c] = {} /\ sched.mq[c] = {} /\ sched.current[c] = NoTask
                  \/ on_idle[c]
          ELSE kcur[c] # NoTask

=============================================================================
