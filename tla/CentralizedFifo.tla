-------------------------- MODULE CentralizedFifo --------------------------
(***************************************************************************)
(* The centralized FIFO scheduler, schedulers/fifo/centralized, composed   *)
(* with the kernel.  One agent is global: it alone reads the channel, owns *)
(* the run queue and fills the other cpus by remote transactions; the      *)
(* other agents yield their cpus.  No lock protects the run queue: only    *)
(* global_cpu_ says who may touch it, and the global agent gives that role *)
(* away when a higher class wants its cpu (PickNextGlobalCPU).             *)
(*                                                                         *)
(* SwitchTo is left out: the scheduler does not override TaskSwitchto.     *)
(***************************************************************************)
EXTENDS GhostKernel, FiniteSets, FiniteSetsExt

CONSTANTS NoCpu,           \* a Cpu that is not valid()
          FirstGlobal,     \* the global cpu of the configuration
          TimeSlice,       \* is preemption_time_slice_ finite?
          Departs,         \* may a task leave the enclave alive,
          Returns,         \* and come back?
          CfsCpus          \* the cpus a higher class competes for

ASSUME CentralizedAssumption ==
    /\ Cpus \subseteq Nat /\ CfsCpus \subseteq Cpus
    /\ FirstGlobal \in Cpus /\ NoCpu \notin Cpus
    /\ Channels = {DefaultChan} /\ DefaultChan \notin Cpus
    /\ {TimeSlice, Departs, Returns} \subseteq BOOLEAN

VARIABLES
    known,      \* tasks the allocator holds
    task,       \* FifoTask of each known task
    run_queue,  \* run_queue_
    yielding,   \* yielding_tasks_
    current,    \* CpuState::current
    global_cpu, \* global_cpu_
    pc,         \* where each agent's thread is
    target,     \* PickNextGlobalCPU's `target', until it is pinged
    available,  \* GlobalSchedule's `available'
    txn,        \* each cpu's transaction; those not "none" are `assigned'
    fault       \* a CHECK failed, or a commit ended unexpectedly

svars == <<known, task, run_queue, yielding, current, global_cpu, pc, target,
           available, txn, fault>>
vars == <<kvars, svars>>

\* The agents' roles and GlobalSchedule's locals: no handler touches them.
rvars == <<global_cpu, pc, target, available, txn>>

RunStates == {"kBlocked", "kQueued", "kRunnable", "kOnCpu", "kYielding"}
FifoTask == [run_state : RunStates, cpu : Cpus \cup {NoCpu}, preempted : BOOLEAN,
             prio_boost : BOOLEAN, seqnum : Seqnums]
NewTask == [run_state |-> "kBlocked", cpu |-> NoCpu, preempted |-> FALSE,
            prio_boost |-> FALSE, seqnum |-> 0]

PCs == {"loop", "check", "ping", "drain", "avail", "assign", "commit", "yield",
        "asleep"}

TypeOK ==
    /\ KTypeOK
    /\ known \subseteq Tasks
    /\ task \in [Tasks -> FifoTask]
    /\ run_queue \in Seq(Tasks) /\ yielding \in Seq(Tasks)
    /\ current \in [Cpus -> Tasks \cup {NoTask}]
    /\ global_cpu \in Cpus
    /\ pc \in [Cpus -> PCs]
    /\ target \in [Cpus -> Cpus \cup {NoCpu}]
    /\ available \subseteq Cpus
    /\ txn \in [Cpus -> {"none", "open", "complete", "failed"}]
    /\ fault \in BOOLEAN

Init ==
    /\ KInit
    /\ known = {}
    /\ task = [t \in Tasks |-> NewTask]
    /\ run_queue = << >> /\ yielding = << >>
    /\ current = [c \in Cpus |-> NoTask]
    /\ global_cpu = FirstGlobal
    /\ pc = [c \in Cpus |-> "loop"]
    /\ target = [c \in Cpus |-> NoCpu]
    /\ available = {}
    /\ txn = [c \in Cpus |-> "none"]
    /\ fault = FALSE

-----------------------------------------------------------------------------
(* The run queue, and the pieces the handlers share. *)

Pushed(queue, t, front) == IF front THEN <<t>> \o queue ELSE Append(queue, t)

\* RemoveFromRunqueue looks for t from the back of the queue, Unyield from the
\* front.
Positions(queue, t) == {i \in DOMAIN queue : queue[i] = t}
Contains(queue, t) == \E i \in DOMAIN queue : queue[i] = t
Erase(queue, i) == SubSeq(queue, 1, i - 1) \o SubSeq(queue, i + 1, Len(queue))
RemoveFromRunqueue(queue, t) ==
    IF Contains(queue, t) THEN Erase(queue, Max(Positions(queue, t))) ELSE queue
Unyield(queue, t) ==
    IF Contains(queue, t) THEN Erase(queue, Min(Positions(queue, t))) ELSE queue

\* Enqueue.
Enqueue(queue, t) == Pushed(queue, t, task[t].prio_boost \/ task[t].preempted)

State(t) == task[t].run_state

\* The CHECKs of cpu_state_of.
OnItsCpu(t) == task[t].cpu # NoCpu /\ current[task[t].cpu] = t

\* cs->current = nullptr, when t is oncpu().
OffCpu(t) == [c \in Cpus |-> IF State(t) = "kOnCpu" /\ c = task[t].cpu
                               THEN NoTask ELSE current[c]]

\* Task::Advance.
AdvanceOK(t, seqnum) == seqnum > task[t].seqnum

\* The thread is here, and the process is alive.
At(c, label) == ~fault /\ pc[c] = label

Goto(c, label) == pc' = [pc EXCEPT ![c] = label]

Peek == Head(channel[DefaultChan])

Consume == channel' = [channel EXCEPT ![DefaultChan] = Tail(@)]

\* The agent of c dispatches a message of this type.
Dispatching(c, type) ==
    /\ At(c, "drain") /\ channel[DefaultChan] # << >>
    /\ Peek.type = type /\ (type = "NEW" <=> Peek.task \notin known)

-----------------------------------------------------------------------------
(* AgentThread: a satellite yields, the global agent may give its role away. *)

ReadBarrier(c) ==
    /\ At(c, "loop")
    /\ stale' = [stale EXCEPT ![c] = FALSE]
    /\ Goto(c, "check")
    /\ UNCHANGED <<kquiet, channel, known, task, run_queue, yielding, current,
                   global_cpu, target, available, txn, fault>>

IsSatellite(c) ==
    /\ At(c, "check") /\ global_cpu # c
    /\ Goto(c, "yield")
    /\ UNCHANGED <<kvars, known, task, run_queue, yielding, current, global_cpu,
                   target, available, txn, fault>>

\* LocalYield: GHOST_RUN fails with ESTALE when the agent barrier moved.
LocalYield(c) ==
    /\ At(c, "yield")
    /\ agentRuns' = [agentRuns EXCEPT ![c] = stale[c]]
    /\ Goto(c, IF stale[c] THEN "loop" ELSE "asleep")
    /\ UNCHANGED <<kstate, kcur, chain, on_cpu, barrier, assoc, channel, stale,
                   cfs, known, task, run_queue, yielding, current, global_cpu,
                   target, available, txn, fault>>

\* The agent takes its cpu back when its barrier moved; the kernel announces
\* the task it displaces, as PickNextGlobalCPU expects.
AgentWakes(c) ==
    /\ At(c, "asleep") /\ stale[c]
    /\ KAgentOnCpu(c, kcur[c] # NoTask)
    /\ Goto(c, "loop")
    /\ UNCHANGED <<known, task, run_queue, yielding, current, global_cpu, target,
                   available, txn, fault>>

\* Available(cpu) of a cpu that is not the caller's.
Candidates(c) == {d \in Cpus \ {c} : ~cfs[d]}

IsGlobal(c) ==
    /\ At(c, "check") /\ global_cpu = c
    /\ cfs[c] => Candidates(c) = {}
    /\ Goto(c, "drain")
    /\ UNCHANGED <<kvars, known, task, run_queue, yielding, current, global_cpu,
                   target, available, txn, fault>>

\* Slip: the old global agent schedules once more after SetGlobalCPU.
PickNextGlobalCPUGoesOn(c) ==
    /\ At(c, "check") /\ global_cpu = c /\ cfs[c]
    /\ \E d \in Candidates(c) : global_cpu' = d /\ KPing(d)
    /\ Goto(c, "drain")
    /\ UNCHANGED <<kquiet, channel, known, task, run_queue, yielding, current,
                   target, available, txn, fault>>

\* The search order (siblings, L3, NUMA node, the rest) only prefers one
\* candidate.  The early return on iterations_ is never taken: no code
\* increments that counter.
PickNextGlobalCPU(c) ==
    /\ At(c, "check") /\ global_cpu = c /\ cfs[c]
    /\ \E d \in Candidates(c) :
         /\ kcur[d] # NoTask => InBound(kcur[d])
         /\ fault' = (current[d] # NoTask /\ State(current[d]) # "kOnCpu")
         /\ global_cpu' = d
         /\ target' = [target EXCEPT ![c] = d]
    /\ Goto(c, "ping")
    /\ UNCHANGED <<kvars, known, task, run_queue, yielding, current, available, txn>>

\* Slip: the Ping is forgotten.
PingGlobalForgotten(c) ==
    /\ At(c, "ping")
    /\ target' = [target EXCEPT ![c] = NoCpu]
    /\ Goto(c, "loop")
    /\ UNCHANGED <<kvars, known, task, run_queue, yielding, current, global_cpu,
                   available, txn, fault>>

PingGlobal(c) ==
    /\ At(c, "ping")
    /\ KPing(target[c])
    /\ target' = [target EXCEPT ![c] = NoCpu]
    /\ Goto(c, "loop")
    /\ UNCHANGED <<kquiet, channel, known, task, run_queue, yielding, current,
                   global_cpu, available, txn, fault>>

-----------------------------------------------------------------------------
(* DispatchMessage and the handlers. *)

ChannelEmpty(c) ==
    /\ At(c, "drain") /\ channel[DefaultChan] = << >>
    /\ Goto(c, "avail")
    /\ UNCHANGED <<kvars, known, task, run_queue, yielding, current, global_cpu,
                   target, available, txn, fault>>

TaskNew(c) ==
    /\ Dispatching(c, "NEW")
    /\ LET t == Peek.task IN
        /\ known' = known \cup {t}
        /\ task' = [task EXCEPT ![t] =
                      [NewTask EXCEPT !.seqnum = Peek.seqnum,
                         !.run_state = IF Peek.flag THEN "kQueued" ELSE "kBlocked"]]
        /\ run_queue' = IF Peek.flag THEN Pushed(run_queue, t, FALSE) ELSE run_queue
    /\ Consume
    /\ UNCHANGED <<kquiet, stale, yielding, current, rvars, fault>>

TaskRunnable(c) ==
    /\ Dispatching(c, "WAKEUP")
    /\ LET t == Peek.task IN
        /\ fault' = ~(State(t) = "kBlocked" /\ AdvanceOK(t, Peek.seqnum))
        /\ task' = [task EXCEPT ![t].run_state = "kQueued",
                                ![t].prio_boost = ~Peek.flag,
                                ![t].seqnum = Peek.seqnum]
        /\ run_queue' = Pushed(run_queue, t, ~Peek.flag \/ task[t].preempted)
    /\ Consume
    /\ UNCHANGED <<kquiet, stale, known, yielding, current, rvars>>

\* FreeTask.
Free(t) == known' = known \ {t} /\ task' = [task EXCEPT ![t] = NewTask]

\* Slip: the task is not given back to the allocator.
TaskDepartedNotFreed(c) ==
    /\ Dispatching(c, "DEPARTED")
    /\ yielding' = Unyield(yielding, Peek.task)
    /\ current' = OffCpu(Peek.task)
    /\ run_queue' = RemoveFromRunqueue(run_queue, Peek.task)
    /\ task' = [task EXCEPT ![Peek.task].run_state = "kBlocked"]
    /\ Consume
    /\ UNCHANGED <<kquiet, stale, known, rvars, fault>>

\* A yielding task goes through Unyield, and from there is queued().
TaskDeparted(c) ==
    /\ Dispatching(c, "DEPARTED")
    /\ LET t == Peek.task IN
        /\ fault' = ~(CASE State(t) = "kYielding" -> Contains(yielding, t)
                        [] State(t) = "kOnCpu"    -> OnItsCpu(t)
                        [] State(t) = "kQueued"   -> Contains(run_queue, t)
                        [] OTHER                  -> State(t) = "kBlocked")
        /\ yielding' = Unyield(yielding, t)
        /\ current' = OffCpu(t)
        /\ run_queue' = RemoveFromRunqueue(run_queue, t)
        /\ Free(t)
    /\ Consume
    /\ UNCHANGED <<kquiet, stale, rvars>>

TaskDead(c) ==
    /\ Dispatching(c, "DEAD")
    /\ fault' = (State(Peek.task) # "kBlocked")
    /\ Free(Peek.task)
    /\ Consume
    /\ UNCHANGED <<kquiet, stale, run_queue, yielding, current, rvars>>

TaskBlocked(c) ==
    /\ Dispatching(c, "BLOCKED")
    /\ LET t == Peek.task IN
        /\ fault' = ~(/\ IF State(t) = "kOnCpu" THEN OnItsCpu(t)
                         ELSE State(t) = "kQueued" /\ Contains(run_queue, t)
                      /\ AdvanceOK(t, Peek.seqnum))
        /\ current' = OffCpu(t)
        /\ run_queue' = IF State(t) = "kOnCpu" THEN run_queue
                         ELSE RemoveFromRunqueue(run_queue, t)
        /\ task' = [task EXCEPT ![t].run_state = "kBlocked",
                                ![t].seqnum = Peek.seqnum]
    /\ Consume
    /\ UNCHANGED <<kquiet, stale, known, yielding, rvars>>

\* What TaskPreempted and TaskYield CHECK: a task that is not on its cpu was
\* displaced by the scheduler and is queued already.
MayLeaveCpu(t) == IF State(t) = "kOnCpu" THEN OnItsCpu(t) ELSE State(t) = "kQueued"

\* Slip: the task is put back on the run queue although it is there.
TaskPreemptedTwice(c) ==
    /\ Dispatching(c, "PREEMPT")
    /\ current' = OffCpu(Peek.task)
    /\ task' = [task EXCEPT ![Peek.task].run_state = "kQueued",
                            ![Peek.task].preempted = TRUE,
                            ![Peek.task].seqnum = Peek.seqnum]
    /\ run_queue' = Pushed(run_queue, Peek.task, TRUE)
    /\ Consume
    /\ UNCHANGED <<kquiet, stale, known, yielding, rvars, fault>>

TaskPreempted(c) ==
    /\ Dispatching(c, "PREEMPT")
    /\ LET t == Peek.task
           oncpu == State(t) = "kOnCpu"
       IN  /\ fault' = ~(MayLeaveCpu(t) /\ AdvanceOK(t, Peek.seqnum))
           /\ current' = OffCpu(t)
           /\ task' = [task EXCEPT ![t].run_state = IF oncpu THEN "kQueued" ELSE @,
                                   ![t].preempted = TRUE,
                                   ![t].seqnum = Peek.seqnum]
           /\ run_queue' = IF oncpu THEN Pushed(run_queue, t, TRUE) ELSE run_queue
    /\ Consume
    /\ UNCHANGED <<kquiet, stale, known, yielding, rvars>>

\* Slip: a task that yielded waits for a wakeup.
TaskYieldBlocks(c) ==
    /\ Dispatching(c, "YIELD")
    /\ current' = OffCpu(Peek.task)
    /\ task' = [task EXCEPT ![Peek.task].run_state = "kBlocked",
                            ![Peek.task].seqnum = Peek.seqnum]
    /\ Consume
    /\ UNCHANGED <<kquiet, stale, known, run_queue, yielding, rvars, fault>>

TaskYield(c) ==
    /\ Dispatching(c, "YIELD")
    /\ LET t == Peek.task
           oncpu == State(t) = "kOnCpu"
       IN  /\ fault' = ~(MayLeaveCpu(t) /\ AdvanceOK(t, Peek.seqnum))
           /\ current' = OffCpu(t)
           /\ task' = [task EXCEPT ![t].run_state = IF oncpu THEN "kYielding" ELSE @,
                                   ![t].seqnum = Peek.seqnum]
           /\ yielding' = IF oncpu THEN Append(yielding, t) ELSE yielding
    /\ Consume
    /\ UNCHANGED <<kquiet, stale, known, run_queue, rvars>>

-----------------------------------------------------------------------------
(* GlobalSchedule. *)

\* The cpus that may get a task: no higher class has them, and they are free
\* or their task's time slice is over (`expired').
FindAvailable(c) ==
    /\ At(c, "avail")
    /\ fault' = (current[c] # NoTask)
    /\ \E expired \in SUBSET {d \in Cpus : /\ TimeSlice /\ current[d] # NoTask
                                           /\ InBound(current[d])} :
         available' = {d \in Candidates(c) : current[d] = NoTask \/ d \in expired}
    /\ Goto(c, "assign")
    /\ UNCHANGED <<kvars, known, task, run_queue, yielding, current, global_cpu,
                   target, txn>>

\* Slip: status_word.on_cpu() is not looked at.
NotReadyIgnoresOnCpu(t) == task[t].seqnum # barrier[t]

\* `next' is still on a cpu, or has messages the agent did not read yet.
NotReady(t) == on_cpu[t] \/ task[t].seqnum # barrier[t]

\* Dequeue a task that must skip this round.
SkipTask(c) ==
    /\ At(c, "assign") /\ available # {} /\ run_queue # << >>
    /\ LET next == Head(run_queue) IN
        /\ NotReady(next)
        /\ fault' = (State(next) # "kQueued")
        /\ task' = [task EXCEPT ![next].run_state = "kYielding"]
        /\ yielding' = Append(yielding, next)
    /\ run_queue' = Tail(run_queue)
    /\ UNCHANGED <<kvars, known, current, rvars>>

\* Slip: cs->current is put back on the run queue without testing for null.
AssignTaskEnqueuesNull(c) ==
    /\ At(c, "assign") /\ available # {} /\ run_queue # << >>
    /\ LET next == Head(run_queue)
           cpu == Min(available)
       IN  /\ ~NotReady(next)
           /\ task' = [task EXCEPT ![next].run_state = "kRunnable"]
           /\ run_queue' = Append(Tail(run_queue), current[cpu])
           /\ current' = [current EXCEPT ![cpu] = next]
           /\ available' = available \ {cpu}
           /\ txn' = [txn EXCEPT ![cpu] = "open"]
    /\ UNCHANGED <<kvars, known, yielding, global_cpu, pc, target, fault>>

\* Dequeue a task and open a transaction for it on the first available cpu,
\* instead of the one whose time slice is over, if any.
AssignTask(c) ==
    /\ At(c, "assign") /\ available # {} /\ run_queue # << >>
    /\ LET next == Head(run_queue)
           cpu == Min(available)
           prev == current[cpu]
       IN  /\ ~NotReady(next)
           /\ fault' = (State(next) # "kQueued")
           /\ task' = [t \in Tasks |->
                         IF t = next THEN [task[t] EXCEPT !.run_state = "kRunnable"]
                         ELSE IF t = prev THEN [task[t] EXCEPT !.run_state = "kQueued"]
                         ELSE task[t]]
           /\ run_queue' = IF prev = NoTask THEN Tail(run_queue)
                                            ELSE Enqueue(Tail(run_queue), prev)
           /\ current' = [current EXCEPT ![cpu] = next]
           /\ available' = available \ {cpu}
           /\ txn' = [txn EXCEPT ![cpu] = "open"]
    /\ UNCHANGED <<kvars, known, yielding, global_cpu, pc, target>>

AssignEnds(c) ==
    /\ At(c, "assign") /\ (available = {} \/ run_queue = << >>)
    /\ available' = {}
    /\ Goto(c, "commit")
    /\ UNCHANGED <<kvars, known, task, run_queue, yielding, current, global_cpu,
                   target, txn, fault>>

\* An open transaction is committed, by CommitRunRequests or, any time before,
\* by the target cpu itself.  It fails when another class or the agent has the
\* cpu, or the task moved on; any other failure is a GHOST_ERROR.
CommitTxn(d) ==
    LET t == current[d]
        outcome == IF cfs[d] \/ agentRuns[d] THEN "CPU_UNAVAIL"
                   ELSE CommitOutcome(t, task[t].seqnum)
    IN  /\ ~fault /\ txn[d] = "open"
        /\ fault' = (outcome \in {"TARGET_ONCPU", "TARGET_NOT_RUNNABLE"})
        /\ IF outcome = "COMPLETE"
             THEN /\ KSwitch(d, t)
                  /\ txn' = [txn EXCEPT ![d] = "complete"]
                  /\ UNCHANGED <<assoc, agentRuns, cfs>>
             ELSE /\ txn' = [txn EXCEPT ![d] = "failed"]
                  /\ UNCHANGED kvars
        /\ UNCHANGED <<known, task, run_queue, yielding, current, global_cpu, pc,
                       target, available>>

\* `assigned', from which a cpu is dropped once its transaction was looked at.
Assigned == {d \in Cpus : txn[d] # "none"}

\* CommitRunRequests has returned, and d is the next cpu to look at.
Committed(c, d) ==
    /\ At(c, "commit") /\ \A e \in Cpus : txn[e] # "open"
    /\ Assigned # {} /\ d = Min(Assigned)

\* TaskOnCpu.
TxnSucceeded(c) ==
    \E d \in Cpus :
        /\ Committed(c, d) /\ txn[d] = "complete"
        /\ task' = [task EXCEPT ![current[d]] =
                      [@ EXCEPT !.run_state = "kOnCpu", !.cpu = d, !.preempted = FALSE,
                                !.prio_boost = FALSE]]
        /\ txn' = [txn EXCEPT ![d] = "none"]
        /\ UNCHANGED <<kvars, known, run_queue, yielding, current, global_cpu, pc, target,
                       available, fault>>

\* The task goes to the front of the run queue.
TxnFailed(c) ==
    \E d \in Cpus :
        /\ Committed(c, d) /\ txn[d] = "failed"
        /\ fault' = (State(current[d]) # "kRunnable")
        /\ task' = [task EXCEPT ![current[d]] =
                      [@ EXCEPT !.run_state = "kQueued", !.prio_boost = TRUE]]
        /\ run_queue' = Pushed(run_queue, current[d], TRUE)
        /\ current' = [current EXCEPT ![d] = NoTask]
        /\ txn' = [txn EXCEPT ![d] = "none"]
        /\ UNCHANGED <<kvars, known, yielding, global_cpu, pc, target, available>>

\* A yielding task is queued again, having skipped this round.
Requeue(c) ==
    /\ At(c, "commit") /\ Assigned = {} /\ yielding # << >>
    /\ LET t == Head(yielding) IN
        /\ fault' = (State(t) # "kYielding")
        /\ task' = [task EXCEPT ![t].run_state = "kQueued"]
        /\ run_queue' = Enqueue(run_queue, t)
    /\ yielding' = Tail(yielding)
    /\ UNCHANGED <<kvars, known, current, rvars>>

EndSchedule(c) ==
    /\ At(c, "commit") /\ Assigned = {} /\ yielding = << >>
    /\ Goto(c, "loop")
    /\ UNCHANGED <<kvars, known, task, run_queue, yielding, current, global_cpu,
                   target, available, txn, fault>>

-----------------------------------------------------------------------------
(* Composition. *)

Agent(c) ==
    \/ ReadBarrier(c) \/ IsSatellite(c) \/ LocalYield(c) \/ AgentWakes(c)
    \/ IsGlobal(c) \/ PickNextGlobalCPU(c) \/ PingGlobal(c) \/ ChannelEmpty(c)
    \/ TaskNew(c) \/ TaskRunnable(c) \/ TaskDeparted(c) \/ TaskDead(c)
    \/ TaskBlocked(c) \/ TaskPreempted(c) \/ TaskYield(c)
    \/ FindAvailable(c) \/ SkipTask(c) \/ AssignTask(c) \/ AssignEnds(c)
    \/ TxnSucceeded(c) \/ TxnFailed(c) \/ Requeue(c) \/ EndSchedule(c)

\* The kernel goes on whatever becomes of the agent process.
Kernel ==
    \/ \E t \in Tasks, flag \in BOOLEAN : KNew(t, flag) /\ UNCHANGED svars
    \/ \E t \in Tasks, flag \in BOOLEAN : KWakeup(t, flag) /\ UNCHANGED svars
    \/ \E t \in Tasks : KDead(t) /\ UNCHANGED svars
    \/ \E t \in Tasks : KOffCpu(t) /\ UNCHANGED svars
    \/ \E t \in Tasks, back \in {FALSE, Returns} :
         Departs /\ InBound(t) /\ KDepart(t, back) /\ UNCHANGED svars
    \/ \E c \in Cpus : KBlock(c) /\ UNCHANGED svars
    \/ \E c \in Cpus : KYield(c) /\ UNCHANGED svars
    \/ \E c \in Cpus : KExit(c) /\ UNCHANGED svars
    \/ \E c \in Cpus : KPreempt(c) /\ UNCHANGED svars
    \/ \E c \in CfsCpus : KCfsArrives(c) /\ UNCHANGED svars
    \/ \E c \in Cpus : KCfsLeaves(c) /\ UNCHANGED svars

Next ==
    \/ Kernel
    \/ \E c \in Cpus : Agent(c)
    \/ \E c \in Cpus : CommitTxn(c)

Spec == Init /\ [][Next]_vars

-----------------------------------------------------------------------------
(* Properties. *)

\* No CHECK of the scheduler fails and no commit ends in a state that
\* CompleteRunRequest calls unexpected.
NoFault == ~fault

\* At most one agent at a time is between DispatchMessage and the end of
\* GlobalSchedule: global_cpu_ alone keeps the agents from sharing the run
\* queue, the channel and the transactions, which no lock protects.
OneGlobalAgent ==
    \A c, d \in Cpus :
        {pc[c], pc[d]} \subseteq {"drain", "avail", "assign", "commit"} => c = d

\* The agent that is global is awake, or will be: a satellite that read
\* global_cpu_ just before it changed does not sleep through the ping.
GlobalAgentAwake ==
    \/ pc[global_cpu] # "asleep" \/ stale[global_cpu]
    \/ \E c \in Cpus : target[c] = global_cpu

\* A known task is in exactly one place, once, and its run_state says which:
\* run_queue_, yielding_tasks_, some cpu's current, or nowhere when blocked.
\* No task that was freed is in any of them.
QueuesMatchStates ==
    /\ \A t \in known :
         /\ Cardinality({i \in DOMAIN run_queue : run_queue[i] = t}) =
              IF State(t) = "kQueued" THEN 1 ELSE 0
         /\ Cardinality({i \in DOMAIN yielding : yielding[i] = t}) =
              IF State(t) = "kYielding" THEN 1 ELSE 0
         /\ Cardinality({c \in Cpus : current[c] = t}) =
              IF State(t) \in {"kOnCpu", "kRunnable"} THEN 1 ELSE 0
    /\ \A t \in Tasks \ known :
         /\ ~Contains(run_queue, t) /\ ~Contains(yielding, t)
         /\ \A c \in Cpus : current[c] # t

\* When every message about a task has been consumed, the books agree with the
\* kernel: a runnable task is queued, yielding or in an unfinished transaction;
\* a running one is its cpu's current task, unless the scheduler decided to
\* displace it and it is queued again; a task that left was freed.
BooksAgree ==
    \A t \in Tasks :
        (\A i \in DOMAIN channel[DefaultChan] : channel[DefaultChan][i].task # t) =>
        CASE kstate[t] \in {"out", "gone"} -> t \notin known
          [] kstate[t] \in {"blocked", "dying"} -> t \in known /\ State(t) = "kBlocked"
          [] kstate[t] = "runnable" ->
               t \in known /\ State(t) \in {"kQueued", "kYielding", "kRunnable"}
          [] kstate[t] = "running" ->
               /\ t \in known
               /\ \/ \E c \in Cpus : kcur[c] = t /\ current[c] = t
                  \/ TimeSlice /\ State(t) \in {"kQueued", "kYielding"}

\* With one channel no message is ever dropped: MSG_TASK_NEW finds no task of
\* that gtid, and every other message finds its task.
NothingDropped ==
    \A i \in DOMAIN channel[DefaultChan] :
        LET m == channel[DefaultChan][i]
            before == \E j \in 1 .. i - 1 : channel[DefaultChan][j].task = m.task
        IN  ~before => (m.type = "NEW" <=> m.task \notin known)

\* The tasks that are in both queues are in the same order in both.
SameOrder(q, r) ==
    \A i, j \in DOMAIN q, k, l \in DOMAIN r :
        i < j /\ q[i] = r[k] /\ q[j] = r[l] => k < l

\* Tasks that stay in the run queue keep their order: none overtakes another but by
\* leaving the queue, although handlers take tasks out of its middle and displaced,
\* boosted and failed ones come back at its front.
FifoOrder == [][SameOrder(run_queue, run_queue')]_vars
=============================================================================
