---------------------------- MODULE PerCpuFifo ----------------------------
(***************************************************************************)
(* The per-cpu FIFO scheduler, schedulers/fifo/per_cpu: one agent thread   *)
(* and one run queue per cpu, composed with the kernel.  The first cpu's   *)
(* channel is the default one; its agent hands every new task over to the  *)
(* cpu that will own it (Migrate).                                         *)
(*                                                                         *)
(* An agent's step is what it does between two accesses to state another   *)
(* thread shares: the agent barrier, a run queue, a channel, a system      *)
(* call.  The CHECKs of the code, and the use of a freed task, are         *)
(* recorded in `fault'; the program stops there.                           *)
(***************************************************************************)
EXTENDS GhostKernel, FiniteSets, FiniteSetsExt

CONSTANTS NoCpu,           \* FifoTask::cpu == -1
          Departures,      \* "none" | "settled" | "any": which tasks depart
          Returns,         \* may a departed task come back?
          SwitchTo,        \* "none" | "assigned" | "any": SwitchTo targets
          CfsCpus,         \* the cpus a higher class competes for
          AgentPreempts    \* is the task an agent displaces announced?

ASSUME FifoAssumption ==
    /\ Cpus \subseteq Nat /\ Channels = Cpus
    /\ DefaultChan = CHOOSE c \in Cpus : \A d \in Cpus : c <= d
    /\ NoCpu \notin Cpus /\ AgentPreempts \subseteq BOOLEAN

VARIABLES
    known,      \* tasks the allocator holds
    task,       \* FifoTask of each known task
    rq,         \* CpuState::run_queue
    current,    \* CpuState::current
    pc,         \* where each agent's thread is
    nxt,        \* FifoSchedule's `next'
    dest,       \* Migrate's destination, per migrating agent
    rr,         \* AssignCpu's static iterator
    on_idle,    \* RTLA_ON_IDLE was passed to LocalYield
    fault       \* a CHECK failed or a freed task was used

svars == <<known, task, rq, current, pc, nxt, dest, rr, on_idle, fault>>
vars == <<kvars, svars>>

RunStates == {"kBlocked", "kRunnable", "kQueued", "kOnCpu"}
FifoTask == [run_state : RunStates, cpu : Cpus \cup {NoCpu},
             prio_boost : BOOLEAN, seqnum : Seqnums]
NewTask == [run_state |-> "kBlocked", cpu |-> NoCpu, prio_boost |-> FALSE,
            seqnum |-> 0]

PCs == {"loop", "drain", "associate", "set_queued", "push", "ping", "advance",
        "sched", "spin", "commit", "yield", "asleep", "in_run"}

TypeOK ==
    /\ KTypeOK
    /\ known \subseteq Tasks
    /\ task \in [Tasks -> FifoTask]
    /\ rq \in [Cpus -> Seq(Tasks)]
    /\ current \in [Cpus -> Tasks \cup {NoTask}]
    /\ pc \in [Cpus -> PCs]
    /\ nxt \in [Cpus -> Tasks \cup {NoTask}]
    /\ dest \in [Cpus -> Cpus \cup {NoCpu}]
    /\ rr \in Cpus
    /\ on_idle \in [Cpus -> BOOLEAN]
    /\ fault \in BOOLEAN

Init ==
    /\ KInit
    /\ known = {}
    /\ task = [t \in Tasks |-> NewTask]
    /\ rq = [c \in Cpus |-> << >>]
    /\ current = [c \in Cpus |-> NoTask]
    /\ pc = [c \in Cpus |-> "loop"]
    /\ nxt = [c \in Cpus |-> NoTask]
    /\ dest = [c \in Cpus |-> NoCpu]
    /\ rr = DefaultChan
    /\ on_idle = [c \in Cpus |-> FALSE]
    /\ fault = FALSE

-----------------------------------------------------------------------------
(* FifoRq and the pieces the handlers share. *)

\* Enqueue's second half, under the mutex.
Pushed(queue, t, prio_boost) ==
    IF prio_boost THEN <<t>> \o queue ELSE Append(queue, t)

\* Erase looks at the back of the queue first, then from its beginning.
Contains(queue, t) == \E i \in DOMAIN queue : queue[i] = t
Erase(queue, t) ==
    LET size == Len(queue)
        pos == IF queue[size] = t THEN size
               ELSE Min({i \in DOMAIN queue : queue[i] = t})
    IN  SubSeq(queue, 1, pos - 1) \o SubSeq(queue, pos + 1, size)

\* Agent::Ping of the agent on whose cpu a SwitchTo chain just ended.
PingChainCpu(m) == IF m.fsw THEN KPing(m.cpu) ELSE UNCHANGED stale

Consume(c) == channel' = [channel EXCEPT ![c] = Tail(@)]

\* What TaskOffCpu CHECKs before it takes t off the cpu in its books.
OffCpuOK(t, from_switchto) ==
    /\ task[t].cpu # NoCpu
    /\ IF task[t].run_state = "kOnCpu"
         THEN current[task[t].cpu] = t
         ELSE from_switchto /\ task[t].run_state = "kBlocked"

\* `current' after TaskOffCpu.
OffCpu(t) == [c \in Cpus |-> IF task[t].run_state = "kOnCpu" /\ c = task[t].cpu
                               THEN NoTask ELSE current[c]]

\* Task::Advance.
AdvanceOK(t, seqnum) == seqnum > task[t].seqnum

\* The thread is here, and the process is alive.
At(c, label) == ~fault /\ pc[c] = label

Peek(c) == Head(channel[c])

\* The agent of c dispatches a message of this type about a task it knows.
Dispatching(c, type) ==
    /\ At(c, "drain") /\ channel[c] # << >>
    /\ Peek(c).type = type /\ Peek(c).task \in known

-----------------------------------------------------------------------------
(* Schedule: read the agent barrier, then drain the channel. *)

ReadBarrier(c) ==
    /\ At(c, "loop")
    /\ stale' = [stale EXCEPT ![c] = FALSE]
    /\ pc' = [pc EXCEPT ![c] = "drain"]
    /\ UNCHANGED <<kquiet, channel, known, task, rq, current, nxt, dest, rr,
                   on_idle, fault>>

ChannelEmpty(c) ==
    /\ At(c, "drain") /\ channel[c] = << >>
    /\ pc' = [pc EXCEPT ![c] = "sched"]
    /\ UNCHANGED <<kvars, known, task, rq, current, nxt, dest, rr, on_idle,
                   fault>>

\* DispatchMessage drops a MSG_TASK_NEW for a task it has, and any other
\* message for a task it does not have.
DropMessage(c) ==
    /\ At(c, "drain") /\ channel[c] # << >>
    /\ (Peek(c).type = "NEW") <=> (Peek(c).task \in known)
    /\ Consume(c)
    /\ UNCHANGED <<kquiet, stale, svars>>

\* A runnable task goes through Migrate before its message is consumed.
TaskNew(c) ==
    /\ At(c, "drain") /\ channel[c] # << >>
    /\ Peek(c).type = "NEW" /\ Peek(c).task \notin known
    /\ LET m == Peek(c) IN
        /\ known' = known \cup {m.task}
        /\ task' = [task EXCEPT ![m.task] =
                      [NewTask EXCEPT !.seqnum = m.seqnum,
                         !.run_state = IF m.flag THEN "kRunnable" ELSE "kBlocked"]]
        /\ IF m.flag
             THEN pc' = [pc EXCEPT ![c] = "associate"] /\ UNCHANGED channel
             ELSE Consume(c) /\ UNCHANGED pc
    /\ UNCHANGED <<kquiet, stale, rq, current, nxt, dest, rr, on_idle, fault>>

TaskRunnable(c) ==
    /\ Dispatching(c, "WAKEUP")
    /\ LET m == Peek(c)
           t == m.task
           assigned == task[t].cpu # NoCpu
       IN  /\ fault' = ~(/\ task[t].run_state = "kBlocked"
                         /\ assigned => AdvanceOK(t, m.seqnum))
           /\ IF assigned
                THEN /\ task' = [task EXCEPT ![t].run_state = "kQueued",
                                             ![t].prio_boost = ~m.flag,
                                             ![t].seqnum = m.seqnum]
                     /\ rq' = [rq EXCEPT ![task[t].cpu] = Pushed(@, t, ~m.flag)]
                     /\ Consume(c) /\ UNCHANGED pc
                ELSE /\ task' = [task EXCEPT ![t].run_state = "kRunnable",
                                             ![t].prio_boost = ~m.flag]
                     /\ pc' = [pc EXCEPT ![c] = "associate"]
                     /\ UNCHANGED <<rq, channel>>
    /\ UNCHANGED <<kquiet, stale, known, current, nxt, dest, rr, on_idle>>

-----------------------------------------------------------------------------
(* Migrate, step by step: its caller holds the message at Peek(c). *)

Freed(t) == t \notin known

\* Slip: the iterator is not put back to begin().
NextCpuNoWrap(c) == c + 1

NextCpu(c) == LET after == {d \in Cpus : d > c}
              IN  IF after # {} THEN Min(after) ELSE DefaultChan

\* AssignCpu, then AssociateTask; dest keeps Migrate's `cpu'.
MigrateAssociate(c) ==
    LET m == Peek(c)
        t == m.task
    IN  /\ At(c, "associate")
        /\ fault' = ~(/\ task[t].run_state = "kRunnable" /\ task[t].cpu = NoCpu
                      /\ CanAssociate(t, m.seqnum) /\ ~Freed(t))
        /\ rr' = NextCpu(rr)
        /\ dest' = [dest EXCEPT ![c] = rr]
        /\ assoc' = [assoc EXCEPT ![t] = rr]
        /\ pc' = [pc EXCEPT ![c] = "set_queued"]
        /\ UNCHANGED <<kstate, kcur, chain, on_cpu, barrier, channel, stale,
                       agentRuns, cfs, known, task, rq, current, nxt, on_idle>>

\* task->cpu = cpu, then the part of Enqueue that runs before the mutex.
MigrateSetQueued(c) ==
    LET t == Peek(c).task
    IN  /\ At(c, "set_queued")
        /\ task' = [task EXCEPT ![t].cpu = dest[c], ![t].run_state = "kQueued"]
        /\ fault' = ~(task[t].run_state = "kRunnable" /\ ~Freed(t))
        /\ pc' = [pc EXCEPT ![c] = "push"]
        /\ UNCHANGED <<kvars, known, rq, current, nxt, dest, rr, on_idle>>

MigratePush(c) ==
    LET t == Peek(c).task
    IN  /\ At(c, "push")
        /\ rq' = [rq EXCEPT ![dest[c]] = Pushed(@, t, task[t].prio_boost)]
        /\ fault' = Freed(t)
        /\ pc' = [pc EXCEPT ![c] = "ping"]
        /\ UNCHANGED <<kvars, known, task, current, nxt, dest, rr, on_idle>>

MigratePing(c) ==
    /\ At(c, "ping")
    /\ KPing(dest[c])
    /\ pc' = [pc EXCEPT ![c] = "advance"]
    /\ UNCHANGED <<kquiet, channel, known, task, rq, current, nxt, dest, rr,
                   on_idle, fault>>

\* Back in DispatchMessage: Advance after a wakeup, then Consume.
MigrateReturn(c) ==
    LET m == Peek(c)
        t == m.task
    IN  /\ At(c, "advance")
        /\ IF m.type = "WAKEUP"
             THEN /\ task' = [task EXCEPT ![t].seqnum = m.seqnum]
                  /\ fault' = ~(AdvanceOK(t, m.seqnum) /\ ~Freed(t))
             ELSE UNCHANGED <<task, fault>>
        /\ Consume(c)
        /\ dest' = [dest EXCEPT ![c] = NoCpu]
        /\ pc' = [pc EXCEPT ![c] = "drain"]
        /\ UNCHANGED <<kquiet, stale, known, rq, current, nxt, rr, on_idle>>

-----------------------------------------------------------------------------
(* The remaining message handlers. *)

\* TaskYield and TaskPreempted: off the cpu and back on the run queue, ahead
\* of the others when the kernel preempted it.
OffCpuRequeue(c, boost) ==
    LET m == Peek(c)
        t == m.task
    IN  /\ fault' = ~(OffCpuOK(t, m.fsw) /\ AdvanceOK(t, m.seqnum))
        /\ current' = OffCpu(t)
        /\ task' = [task EXCEPT ![t].run_state = "kQueued",
                                ![t].prio_boost = @ \/ boost,
                                ![t].seqnum = m.seqnum]
        /\ rq' = [rq EXCEPT ![task[t].cpu] =
                    Pushed(@, t, task[t].prio_boost \/ boost)]
        /\ PingChainCpu(m)
        /\ Consume(c)
        /\ UNCHANGED <<kquiet, known, pc, nxt, dest, rr, on_idle>>

TaskYield(c) == Dispatching(c, "YIELD") /\ OffCpuRequeue(c, FALSE)

TaskPreempted(c) == Dispatching(c, "PREEMPT") /\ OffCpuRequeue(c, TRUE)

\* TaskBlocked and TaskSwitchto: off the cpu, until a wakeup.
OffCpuBlock(c, from_switchto) ==
    LET m == Peek(c)
        t == m.task
    IN  /\ fault' = ~(OffCpuOK(t, from_switchto) /\ AdvanceOK(t, m.seqnum))
        /\ current' = OffCpu(t)
        /\ task' = [task EXCEPT ![t].run_state = "kBlocked",
                                ![t].seqnum = m.seqnum]
        /\ PingChainCpu(m)
        /\ Consume(c)
        /\ UNCHANGED <<kquiet, known, rq, pc, nxt, dest, rr, on_idle>>

TaskBlocked(c) == Dispatching(c, "BLOCKED") /\ OffCpuBlock(c, Peek(c).fsw)

TaskSwitchto(c) == Dispatching(c, "SWITCHTO") /\ OffCpuBlock(c, FALSE)

\* FreeTask.
Free(t) == known' = known \ {t} /\ task' = [task EXCEPT ![t] = NewTask]

TaskDeparted(c) ==
    /\ Dispatching(c, "DEPARTED")
    /\ LET m == Peek(c)
           t == m.task
           state == task[t].run_state
           off == state = "kOnCpu" \/ m.fsw
           queued == ~off /\ state = "kQueued"
           found == queued /\ Contains(rq[task[t].cpu], t)
       IN  /\ fault' = ~(IF off THEN OffCpuOK(t, m.fsw)
                         ELSE IF queued THEN found
                         ELSE state = "kBlocked")
           /\ current' = IF off THEN OffCpu(t) ELSE current
           /\ rq' = IF found THEN [rq EXCEPT ![task[t].cpu] = Erase(@, t)]
                             ELSE rq
           /\ PingChainCpu(m)
           /\ Free(t)
    /\ Consume(c)
    /\ UNCHANGED <<kquiet, pc, nxt, dest, rr, on_idle>>

TaskDead(c) ==
    /\ Dispatching(c, "DEAD")
    /\ fault' = (task[Peek(c).task].run_state # "kBlocked")
    /\ Free(Peek(c).task)
    /\ Consume(c)
    /\ UNCHANGED <<kquiet, stale, rq, current, pc, nxt, dest, rr, on_idle>>

-----------------------------------------------------------------------------
(* FifoSchedule. *)

\* Slip: Dequeue reads the front of the queue and does not pop it.
PickNextNoPop(c) ==
    /\ At(c, "sched") /\ ~cfs[c]
    /\ nxt' = [nxt EXCEPT ![c] = IF current[c] = NoTask /\ rq[c] # << >>
                                   THEN Head(rq[c]) ELSE current[c]]
    /\ pc' = [pc EXCEPT ![c] = IF nxt'[c] = NoTask THEN "yield" ELSE "spin"]
    /\ task' = [t \in Tasks |-> IF t = nxt'[c] /\ t # current[c]
                  THEN [task[t] EXCEPT !.run_state = "kRunnable"] ELSE task[t]]
    /\ UNCHANGED <<kvars, known, rq, current, dest, rr, on_idle, fault>>

\* Slip: a boosted agent yields without asking to be woken on idle.
YieldFlagsDropped(c) == FALSE

\* flags of the LocalYield that a boosted agent does.
YieldFlags(c) == cfs[c] /\ (current[c] # NoTask \/ rq[c] # << >>)

\* Nothing while a higher class is boosting the agent, else the current task,
\* else the head of the run queue.
PickNext(c) ==
    LET cur == IF cfs[c] THEN NoTask ELSE current[c]
        dequeue == ~cfs[c] /\ cur = NoTask /\ rq[c] # << >>
        next == IF dequeue THEN Head(rq[c]) ELSE cur
    IN  /\ At(c, "sched")
        /\ nxt' = [nxt EXCEPT ![c] = next]
        /\ IF dequeue
             THEN /\ rq' = [rq EXCEPT ![c] = Tail(@)]
                  /\ task' = [task EXCEPT ![next].run_state = "kRunnable"]
                  /\ fault' = (task[next].run_state # "kQueued")
             ELSE UNCHANGED <<rq, task, fault>>
        /\ pc' = [pc EXCEPT ![c] = IF next = NoTask THEN "yield" ELSE "spin"]
        /\ on_idle' = [on_idle EXCEPT ![c] = YieldFlags(c)]
        /\ UNCHANGED <<kvars, known, current, dest, rr>>

\* LocalYield: GHOST_RUN fails with ESTALE when the agent barrier moved.
LocalYield(c) ==
    /\ At(c, "yield")
    /\ agentRuns' = [agentRuns EXCEPT ![c] = stale[c]]
    /\ pc' = [pc EXCEPT ![c] = IF stale[c] THEN "loop" ELSE "asleep"]
    /\ UNCHANGED <<kstate, kcur, chain, on_cpu, barrier, assoc, channel, stale,
                   cfs, known, task, rq, current, nxt, dest, rr, on_idle, fault>>

\* while (next->status_word.on_cpu()) Pause();
WaitOffCpu(c) ==
    /\ At(c, "spin") /\ ~on_cpu[nxt[c]]
    /\ pc' = [pc EXCEPT ![c] = "commit"]
    /\ UNCHANGED <<kvars, known, task, rq, current, nxt, dest, rr, on_idle,
                   fault>>

\* The barriers hold: the agent blocks and `next' runs in its place.
CommitSucceeds(c) ==
    LET t == nxt[c]
    IN  /\ At(c, "commit") /\ ~stale[c]
        /\ CommitOutcome(t, task[t].seqnum) = "COMPLETE"
        /\ cfs[c] => InBound(t)
        /\ KSwitch(c, t)
        /\ agentRuns' = [agentRuns EXCEPT ![c] = FALSE]
        /\ pc' = [pc EXCEPT ![c] = "in_run"]
        /\ UNCHANGED <<assoc, cfs, known, task, rq, current, nxt, dest, rr,
                       on_idle, fault>>

\* A stale barrier, a task that left, or a cpu taken by a higher class: next
\* goes to the front of the run queue.  Any other failure is a GHOST_ERROR.
CommitFails(c) ==
    LET t == nxt[c]
        outcome == CommitOutcome(t, task[t].seqnum)
    IN  /\ At(c, "commit")
        /\ stale[c] \/ cfs[c] \/ outcome # "COMPLETE"
        /\ fault' = (\/ ~stale[c] /\ outcome \in {"TARGET_ONCPU", "TARGET_NOT_RUNNABLE"}
                     \/ t = current[c] /\ ~OffCpuOK(t, FALSE))
        /\ current' = IF t = current[c] THEN OffCpu(t) ELSE current
        /\ task' = [task EXCEPT ![t].run_state = "kQueued", ![t].prio_boost = TRUE]
        /\ rq' = [rq EXCEPT ![c] = Pushed(@, t, TRUE)]
        /\ nxt' = [nxt EXCEPT ![c] = NoTask]
        /\ pc' = [pc EXCEPT ![c] = "loop"]
        /\ UNCHANGED <<kvars, known, dest, rr, on_idle>>

\* The agent is back on its cpu: its barrier moved, or RTLA_ON_IDLE.  A commit
\* that succeeded returns here, and TaskOnCpu follows.
AgentWakes(c) ==
    LET t == nxt[c]
    IN  /\ At(c, "asleep") \/ At(c, "in_run")
        /\ \/ stale[c]
           \/ pc[c] = "asleep" /\ on_idle[c] /\ ~cfs[c] /\ kcur[c] = NoTask
        /\ \E announce \in AgentPreempts : KAgentOnCpu(c, announce)
        /\ IF pc[c] = "in_run"
             THEN /\ current' = [current EXCEPT ![c] = t]
                  /\ task' = [task EXCEPT ![t].run_state = "kOnCpu",
                                          ![t].cpu = c, ![t].prio_boost = FALSE]
             ELSE UNCHANGED <<current, task>>
        /\ nxt' = [nxt EXCEPT ![c] = NoTask]
        /\ pc' = [pc EXCEPT ![c] = "loop"]
        /\ UNCHANGED <<known, rq, dest, rr, on_idle, fault>>

-----------------------------------------------------------------------------
(* Composition. *)

Agent(c) ==
    \/ ReadBarrier(c) \/ ChannelEmpty(c) \/ DropMessage(c)
    \/ TaskNew(c) \/ TaskRunnable(c) \/ TaskYield(c) \/ TaskPreempted(c)
    \/ TaskBlocked(c) \/ TaskSwitchto(c) \/ TaskDeparted(c) \/ TaskDead(c)
    \/ MigrateAssociate(c) \/ MigrateSetQueued(c) \/ MigratePush(c)
    \/ MigratePing(c) \/ MigrateReturn(c)
    \/ PickNext(c) \/ LocalYield(c) \/ WaitOffCpu(c)
    \/ CommitSucceeds(c) \/ CommitFails(c) \/ AgentWakes(c)

\* t has no owner yet, or is being handed over: Migrate has to do its work.
Unsettled(t) ==
    \/ kstate[t] = "runnable" /\ (t \notin known \/ task[t].cpu = NoCpu)
    \/ \E c \in Cpus : dest[c] # NoCpu /\ Peek(c).task = t

MayDepart(t) ==
    /\ InBound(t)
    /\ Departures = "any" \/ (Departures = "settled" /\ ~Unsettled(t))

MaySwitchTo(b) ==
    \/ SwitchTo = "any"
    \/ SwitchTo = "assigned" /\ b \in known /\ task[b].cpu # NoCpu

\* The kernel goes on whatever becomes of the agent process.
Kernel ==
    \/ \E t \in Tasks, flag \in BOOLEAN : KNew(t, flag) /\ UNCHANGED svars
    \/ \E t \in Tasks, flag \in BOOLEAN : KWakeup(t, flag) /\ UNCHANGED svars
    \/ \E t \in Tasks : KDead(t) /\ UNCHANGED svars
    \/ \E t \in Tasks : KOffCpu(t) /\ UNCHANGED svars
    \/ \E t \in Tasks, back \in {FALSE, Returns} :
         MayDepart(t) /\ KDepart(t, back) /\ UNCHANGED svars
    \/ \E c \in Cpus : KBlock(c) /\ UNCHANGED svars
    \/ \E c \in Cpus : KYield(c) /\ UNCHANGED svars
    \/ \E c \in Cpus : KExit(c) /\ UNCHANGED svars
    \/ \E c \in Cpus : KPreempt(c) /\ UNCHANGED svars
    \/ \E c \in Cpus, b \in Tasks :
         MaySwitchTo(b) /\ KSwitchTo(c, b) /\ UNCHANGED svars
    \/ \E c \in CfsCpus : KCfsArrives(c) /\ UNCHANGED svars
    \/ \E c \in Cpus : KCfsLeaves(c) /\ UNCHANGED svars

\* No client thread wants a cpu and no agent has anything to do.
Done ==
    /\ \A t \in Tasks : kstate[t] \in {"out", "blocked", "gone"}
    /\ \A c \in Cpus : pc[c] = "asleep" /\ ~stale[c]
    /\ UNCHANGED vars

Next == Kernel \/ (\E c \in Cpus : Agent(c)) \/ Done

Spec == Init /\ [][Next]_vars

-----------------------------------------------------------------------------
(* Properties. *)

\* No CHECK of the scheduler fails, no commit ends in a state that
\* CompleteRunRequest calls unexpected, and no freed task is touched,
\* whatever the order in which events reach the agents.
NoFault == ~fault

\* Migrate has marked t queued and has not yet taken the queue's mutex.
Pushing(t) == \E c \in Cpus : pc[c] = "push" /\ Peek(c).task = t

\* A task is on at most one run queue and at most once, that of its cpu, and
\* it is there exactly when its run_state says so (Erase and Dequeue rely on
\* it); a task is some cpu's current one exactly when it is kOnCpu.
QueuesMatchStates ==
    \A t \in known, c \in Cpus :
        /\ Cardinality({i \in DOMAIN rq[c] : rq[c][i] = t}) =
             IF task[t].run_state = "kQueued" /\ task[t].cpu = c /\ ~Pushing(t)
               THEN 1 ELSE 0
        /\ current[c] = t <=> task[t].run_state = "kOnCpu" /\ task[t].cpu = c

\* Nothing in any channel is about t.
NoMessage(t) ==
    \A q \in Channels : \A i \in DOMAIN channel[q] : channel[q][i].task # t

\* Held by the agent of c between Dequeue and the end of the commit.
InHand(c, t) == pc[c] \in {"spin", "commit", "in_run"} /\ nxt[c] = t

\* When every message about a task has been consumed, the agents' books agree
\* with the kernel: a runnable task is queued on, current on or in the hands of
\* the cpu it is associated with, a running one is the one that cpu's agent
\* committed, and a task that left was freed.  No task is lost or kept.
BooksAgree ==
    \A t \in Tasks : NoMessage(t) =>
        LET state == task[t].run_state
            c == task[t].cpu
        IN  CASE kstate[t] \in {"out", "gone"} -> t \notin known
              [] kstate[t] \in {"blocked", "dying"} ->
                   t \in known /\ state = "kBlocked"
              [] kstate[t] = "runnable" ->
                   /\ t \in known /\ c = assoc[t]
                   /\ state \in {"kQueued", "kOnCpu"} \/ InHand(c, t)
              [] kstate[t] = "running" ->
                   /\ t \in known
                   /\ IF \E d \in Cpus : kcur[d] = t /\ chain[d]
                        THEN state = "kBlocked"
                        ELSE kcur[c] = t /\ InHand(c, t)

\* Another agent is about to ping c: it has just pushed a task there, or has
\* still to read that the SwitchTo chain on c ended.
PingComing(c) ==
    \/ \E d \in Cpus : pc[d] = "ping" /\ dest[d] = c
    \/ \E d \in Cpus : \E i \in DOMAIN channel[d] :
         channel[d][i].fsw /\ channel[d][i].cpu = c

\* No agent sleeps on work.  Blocked in LocalYield with nothing to wake it, it
\* has no unread message and no task, or the kernel returns to it on idle;
\* blocked in a commit that succeeded, the cpu it gave away is not idle.
NoSleepOnWork ==
    \A c \in Cpus : ~agentRuns[c] /\ ~stale[c] /\ ~PingComing(c) =>
        IF pc[c] = "asleep"
          THEN /\ channel[c] = << >>
               /\ (rq[c] = << >> /\ current[c] = NoTask) \/ on_idle[c]
          ELSE kcur[c] # NoTask

\* scheduler.h, of a MSG_TASK_NEW for a task the allocator still holds: "This
\* probably cannot happen".
NewTaskIsUnknown ==
    \A c \in Cpus : pc[c] = "drain" /\ channel[c] # << >> =>
        ~(Peek(c).type = "NEW" /\ Peek(c).task \in known)

-----------------------------------------------------------------------------
(* What the code's comments say, and departures refute. *)

\* fifo_scheduler.cc: "There cannot be any more messages pending for this task
\* after a MSG_TASK_WAKEUP (until the agent puts it oncpu) so it's safe to
\* migrate": the AssociateTask that Migrate CHECKs has the last barrier.
SafeToMigrate ==
    \A c \in Cpus : pc[c] = "associate" =>
        CanAssociate(Peek(c).task, Peek(c).seqnum)
=============================================================================
