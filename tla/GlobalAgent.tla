---------------------------- MODULE GlobalAgent ----------------------------
(***************************************************************************)
(* What the EDF, Shinjuku and SOL schedulers have in common: one global    *)
(* agent that reads the only channel and fills the other cpus by remote    *)
(* transactions, and gives its role away when a higher class wants its     *)
(* cpu.  That at most one agent is in the loop at a time is checked, for   *)
(* the same protocol, in CentralizedFifo; here the loop is one thread,     *)
(* which moves to the new global cpu once the agent there is awake.        *)
(*                                                                         *)
(* The fields of the scheduler object are one record, so that its methods  *)
(* are operators from record to record; `ok' is false once a CHECK failed. *)
(***************************************************************************)
EXTENDS GhostKernel, FiniteSets, SequencesExt

CONSTANTS NoCpu,     \* int cpu = -1
          Departs,   \* may a task leave the enclave alive?
          CfsCpus,   \* the cpus a higher class competes for
          Steady     \* threads that never block, exit or leave

ASSUME GlobalAssumption ==
    /\ Cpus \subseteq Nat /\ NoCpu \notin Cpus /\ Steady \subseteq Tasks
    /\ Channels = {DefaultChan} /\ DefaultChan \notin Cpus

VARIABLES sched,       \* the scheduler object
          global_cpu,  \* global_cpu_
          pc,          \* where the global agent is in its loop
          todo         \* GlobalSchedule: the cpus still to look at

gvars == <<sched, global_cpu, pc, todo>>

At(label) == sched.ok /\ pc = label

State(s, t) == s.task[t].run_state

\* CHECK.
Check(s, cond) == [s EXCEPT !.ok = @ /\ cond]

SetState(s, t, state) == [s EXCEPT !.task[t].run_state = state]

\* cpu_state_of's CHECKs, and cs->current = nullptr.
LeavesCpu(s, t) ==
    LET c == s.task[t].cpu
    IN  Check([s EXCEPT !.current = [d \in Cpus |-> IF d = c THEN NoTask ELSE @[d]]],
              c # NoCpu /\ s.current[c] = t)

\* FreeTask.
FreeTask(s, t, new) == [s EXCEPT !.known = @ \ {t}, !.task[t] = new]

-----------------------------------------------------------------------------
(* AgentThread. *)

\* Available(cpu).
Available(c) == ~cfs[c]

Candidates == {c \in Cpus \ {global_cpu} : Available(c)}

Boosted == cfs[global_cpu]

\* The first candidate becomes global, and its agent is pinged.
PickNextGlobalCPU ==
    /\ At("loop") /\ Boosted /\ Candidates # {}
    /\ LET c == Min(Candidates)
           prev == sched.current[c]
       IN  /\ kcur[c] # NoTask => InBound(kcur[c])
           /\ sched' = Check(sched, prev # NoTask => State(sched, prev) = "kOnCpu")
           /\ global_cpu' = c
    /\ pc' = "wake"
    /\ UNCHANGED <<kvars, todo>>

\* The pinged agent takes its cpu, from the task there if there is one.
AgentWakes ==
    /\ At("wake")
    /\ KAgentOnCpu(global_cpu, kcur[global_cpu] # NoTask)
    /\ pc' = "loop"
    /\ UNCHANGED <<sched, global_cpu, todo>>

\* LocalYield of an agent that is not, or no longer, global.
SatelliteYields(c) ==
    /\ sched.ok /\ c # global_cpu /\ agentRuns[c]
    /\ agentRuns' = [agentRuns EXCEPT ![c] = FALSE]
    /\ UNCHANGED <<kstate, kcur, chain, on_cpu, barrier, assoc, channel, stale, cfs,
                   gvars>>

StartDrain ==
    /\ At("loop") /\ ~Boosted
    /\ pc' = "drain"
    /\ UNCHANGED <<kvars, sched, global_cpu, todo>>

Peek == Head(channel[DefaultChan])

\* Peek, DispatchMessage and Consume: a task's message other than TASK_NEW
\* first advances its seqnum.
Dispatch(type, after) ==
    /\ At("drain") /\ channel[DefaultChan] # << >>
    /\ Peek.type = type /\ (type = "NEW" <=> Peek.task \notin sched.known)
    /\ sched' = after
    /\ channel' = [channel EXCEPT ![DefaultChan] = Tail(@)]
    /\ UNCHANGED <<kquiet, stale, global_cpu, pc, todo>>

\* Task::Advance.
Advance(s, t, seqnum) ==
    Check([s EXCEPT !.task[t].seqnum = seqnum], seqnum > s.task[t].seqnum)

DrainEnds(to) ==
    /\ At("drain") /\ channel[DefaultChan] = << >>
    /\ pc' = to
    /\ todo' = Cpus
    /\ UNCHANGED <<kvars, sched, global_cpu>>

-----------------------------------------------------------------------------
(* Transactions on another cpu. *)

\* The outcome of running t on c.
Outcome(c, t, seqnum) ==
    IF cfs[c] \/ agentRuns[c] THEN "CPU_UNAVAIL" ELSE CommitOutcome(t, seqnum)

Expected(outcome) == outcome \notin {"TARGET_ONCPU", "TARGET_NOT_RUNNABLE"}

\* c switches to t, or nothing happens.
Commits(c, t, outcome) ==
    IF outcome = "COMPLETE" THEN KSwitch(c, t) /\ UNCHANGED <<assoc, agentRuns, cfs>>
                            ELSE UNCHANGED kvars

\* OpenUnschedule or target Gtid(0): the task on c, if there still is one, is
\* taken off.  The code CHECKs that this commit succeeds.
Unschedules(c) ==
    IF kcur[c] # NoTask THEN LeaveCpu(c, "PREEMPT", "runnable") ELSE UNCHANGED kvars

-----------------------------------------------------------------------------
(* The kernel's steps, and the agents' changes of role. *)

Kernel ==
    \/ \E t \in Tasks, flag \in BOOLEAN : KNew(t, flag)
    \/ \E t \in Tasks, flag \in BOOLEAN : KWakeup(t, flag)
    \/ \E t \in Tasks : KDead(t)
    \/ \E t \in Tasks : KOffCpu(t)
    \/ \E t \in Tasks \ Steady : Departs /\ InBound(t) /\ KDepart(t, TRUE)
    \/ \E c \in Cpus : kcur[c] \notin Steady /\ KBlock(c)
    \/ \E c \in Cpus : KYield(c)
    \/ \E c \in Cpus : kcur[c] \notin Steady /\ KExit(c)
    \/ \E c \in Cpus : KPreempt(c)
    \/ \E c \in CfsCpus : KCfsArrives(c)
    \/ \E c \in Cpus : KCfsLeaves(c)

Roles == PickNextGlobalCPU \/ AgentWakes \/ StartDrain \/ \E c \in Cpus : SatelliteYields(c)

-----------------------------------------------------------------------------
(* What every scheduler must keep. *)

\* Where the books of a scheduler may have a task that the kernel has in this
\* state and about which no message is unread.
Unread(t) == \E i \in DOMAIN channel[DefaultChan] : channel[DefaultChan][i].task = t

Times(seq, t) == Cardinality({i \in DOMAIN seq : seq[i] = t})
=============================================================================
