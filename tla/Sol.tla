-------------------------------- MODULE Sol --------------------------------
(***************************************************************************)
(* The SOL scheduler, schedulers/sol, composed with the kernel.  Its       *)
(* transactions are asynchronous: GlobalSchedule submits them and goes on, *)
(* the target cpu commits them later, and the outcome is reaped by a later *)
(* GlobalSchedule, by the handler of a message about the task, or by       *)
(* PickNextGlobalCPU, which aborts what was not committed.  Until then the *)
(* task is kPending and is its cpu's `next'.                               *)
(*                                                                         *)
(* Here SwitchTo is in use: a task may run behind the scheduler's back, on *)
(* a cpu whose `current' is null.                                          *)
(***************************************************************************)
EXTENDS GlobalAgent

CONSTANTS TimeSlice,   \* is preemption_time_slice_ finite?
          SwitchTo,    \* do threads use SwitchTo?
          Siblings     \* cpu.siblings()

VARIABLES txn,         \* the RunRequest of each cpu
          available    \* GlobalSchedule: available

svars == <<gvars, txn, available>>
vars == <<kvars, svars>>

RunStates == {"kBlocked", "kQueued", "kRunnable", "kOnCpu", "kYielding", "kPending",
              "kPreemptedByAgent"}
SolTask == [run_state : RunStates, cpu : Cpus \cup {NoCpu}, preempted : BOOLEAN,
            prio_boost : BOOLEAN, seqnum : Seqnums]
NewTask == [run_state |-> "kBlocked", cpu |-> NoCpu, preempted |-> FALSE,
            prio_boost |-> FALSE, seqnum |-> 0]

\* ghost_txn_state: READY, and the outcomes CompleteRunRequest tells apart.
Outcomes == {"COMPLETE", "FAILED", "UNEXPECTED"}
Txn == [state : {"READY"} \cup Outcomes, target : Tasks \cup {NoTask},
        target_barrier : Seqnums]
Committed(outcome) == [state |-> outcome, target |-> NoTask, target_barrier |-> 0]

TypeOK ==
    /\ KTypeOK
    /\ sched.known \subseteq Tasks
    /\ sched.task \in [Tasks -> SolTask]
    /\ sched.run_queue \in Seq(Tasks) /\ sched.yielding \in Seq(Tasks)
    /\ sched.current \in [Cpus -> Tasks \cup {NoTask}]
    /\ sched.next \in [Cpus -> Tasks \cup {NoTask}]
    /\ sched.ok \in BOOLEAN
    /\ txn \in [Cpus -> Txn] /\ available \subseteq Cpus
    /\ global_cpu \in Cpus /\ todo \subseteq Cpus
    /\ pc \in {"loop", "wake", "drain", "reap", "assign"}

Init ==
    /\ KInit
    /\ sched = [known |-> {}, task |-> [t \in Tasks |-> NewTask], run_queue |-> << >>,
                yielding |-> << >>, current |-> [c \in Cpus |-> NoTask],
                next |-> [c \in Cpus |-> NoTask], ok |-> TRUE]
    /\ txn = [c \in Cpus |-> Committed("COMPLETE")] /\ available = {}
    /\ global_cpu = Min(Cpus) /\ pc = "loop" /\ todo = {}

-----------------------------------------------------------------------------
(* The run queue and the state of the cpus. *)

IsCommitted(c) == txn[c].state \in Outcomes

Enqueue(s, t) ==
    LET front == s.task[t].prio_boost \/ s.task[t].preempted
    IN  Check([SetState(s, t, "kQueued") EXCEPT
                 !.run_queue = IF front THEN <<t>> \o @ ELSE Append(@, t)],
              State(s, t) = "kRunnable")

\* Dequeue, of a queue that is not empty; the task is its head before.
Dequeue(s) ==
    LET t == Head(s.run_queue)
    IN  Check([SetState(s, t, "kRunnable") EXCEPT !.run_queue = Tail(@)],
              State(s, t) = "kQueued")

RemoveFromRunqueue(s, t) ==
    Check([SetState(s, t, "kRunnable") EXCEPT !.run_queue = Remove(@, t)],
          State(s, t) = "kQueued" /\ Contains(s.run_queue, t))

Yield(s, t) ==
    Check([SetState(s, t, "kYielding") EXCEPT !.yielding = Append(@, t)],
          State(s, t) \in {"kOnCpu", "kRunnable"})

Requeue(s, t) == Enqueue(SetState(s, t, "kRunnable"), t)

Unyield(s, t) ==
    Requeue(Check([s EXCEPT !.yielding = Remove(@, t)], Contains(s.yielding, t)), t)

\* A slip: the task that was running keeps its state.
DisplacesQuietly(s, c) == s

\* The task the transaction of c preempted; its own message is still to come.
Displaces(s, c) ==
    IF s.current[c] = NoTask THEN s
    ELSE SetState(Check(s, State(s, s.current[c]) = "kOnCpu"), s.current[c],
                  "kPreemptedByAgent")

\* SyncCpuState, for the outcome of c's transaction.
SyncCpuState(s, c, outcome) ==
    LET next == s.next[c]
        s1 == [Check(s, State(s, next) = "kPending" /\ ~s.task[next].preempted) EXCEPT
                 !.next[c] = NoTask]
    IN  IF outcome = "COMPLETE"
          THEN [Displaces(s1, c) EXCEPT
                  !.current[c] = next, !.task[next].run_state = "kOnCpu",
                  !.task[next].prio_boost = FALSE]
          ELSE Requeue(s1, next)

\* A message about a pending task says that its transaction succeeded.
SyncTaskState(s, t) ==
    LET c == s.task[t].cpu
    IN  IF State(s, t) # "kPending" THEN s
        ELSE SyncCpuState(Check(s, /\ s.current[c] = NoTask /\ s.next[c] = t
                                   /\ txn[c].state = "COMPLETE"), c, txn[c].state)

\* from_switchto: t ran behind the scheduler's back.
TaskOffCpu(s, t, from_switchto, state) ==
    SetState(IF State(s, t) = "kOnCpu" THEN LeavesCpu(s, t)
             ELSE Check(s, from_switchto /\ State(s, t) = "kBlocked"), t, state)

-----------------------------------------------------------------------------
(* DispatchMessage: the handlers. *)

TaskNew ==
    LET t == Peek.task
        new == [sched EXCEPT !.known = @ \cup {t},
                             !.task[t] = [NewTask EXCEPT !.seqnum = Peek.seqnum]]
    IN  Dispatch("NEW", IF Peek.flag THEN Requeue(new, t) ELSE new)

TaskRunnable ==
    LET t == Peek.task
        s == Check(Advance(sched, t, Peek.seqnum), State(sched, t) = "kBlocked")
    IN  Dispatch("WAKEUP", Requeue([s EXCEPT !.task[t].prio_boost = ~Peek.flag], t))

\* A slip: the transaction of a task that departs is not waited for.
AwaitsNothing(t) == TRUE

\* CompleteRunRequest: there may be no other message to reap the transaction with.
AwaitsTxn(t) == State(sched, t) = "kPending" => IsCommitted(sched.task[t].cpu)

TaskDeparted ==
    LET t == Peek.task
        c == sched.task[t].cpu
        s1 == IF State(sched, t) = "kPending"
                THEN SyncCpuState(Check(sched, txn[c].state # "UNEXPECTED"), c, txn[c].state)
                ELSE sched
        s2 == IF State(s1, t) = "kYielding" THEN Unyield(s1, t) ELSE s1
        off == IF State(s2, t) = "kOnCpu" \/ Peek.fsw
                 THEN TaskOffCpu(s2, t, Peek.fsw, "kRunnable")
               ELSE IF State(s2, t) = "kQueued" THEN RemoveFromRunqueue(s2, t)
               ELSE Check(s2, State(s2, t) = "kBlocked")
    IN  /\ At("drain") /\ channel[DefaultChan] # << >> /\ AwaitsTxn(t)
        /\ Dispatch("DEPARTED", FreeTask(off, t, NewTask))

TaskDead ==
    LET t == Peek.task
    IN  Dispatch("DEAD", FreeTask(Check(sched, State(sched, t) = "kBlocked"), t, NewTask))

TaskBlocked ==
    LET t == Peek.task
        s == SyncTaskState(Advance(sched, t, Peek.seqnum), t)
        off == IF State(s, t) = "kOnCpu" \/ Peek.fsw
                 THEN TaskOffCpu(s, t, Peek.fsw, "kBlocked")
               ELSE IF State(s, t) = "kPreemptedByAgent" THEN s
               ELSE RemoveFromRunqueue(s, t)
    IN  Dispatch("BLOCKED", SetState(off, t, "kBlocked"))

TaskPreempted ==
    LET t == Peek.task
        s == [SyncTaskState(Advance(sched, t, Peek.seqnum), t) EXCEPT
                !.task[t].preempted = TRUE]
    IN  Dispatch("PREEMPT",
          IF State(s, t) = "kOnCpu" \/ Peek.fsw
            THEN Enqueue(TaskOffCpu(s, t, Peek.fsw, "kRunnable"), t)
          ELSE IF State(s, t) = "kPreemptedByAgent" THEN Requeue(s, t)
          ELSE Check(s, State(s, t) = "kQueued"))

TaskSwitchto ==
    LET t == Peek.task
    IN  Dispatch("SWITCHTO", TaskOffCpu(SyncTaskState(Advance(sched, t, Peek.seqnum), t),
                                        t, FALSE, "kBlocked"))

TaskYield ==
    LET t == Peek.task
        s == SyncTaskState(Advance(sched, t, Peek.seqnum), t)
    IN  Dispatch("YIELD",
          IF State(s, t) = "kOnCpu" \/ Peek.fsw
            THEN Yield(TaskOffCpu(s, t, Peek.fsw, "kRunnable"), t)
          ELSE IF State(s, t) = "kPreemptedByAgent" THEN Requeue(s, t)
          ELSE Check(s, State(s, t) = "kQueued"))

Handlers ==
    \/ TaskNew \/ TaskRunnable \/ TaskDeparted \/ TaskDead \/ TaskBlocked
    \/ TaskPreempted \/ TaskSwitchto \/ TaskYield

-----------------------------------------------------------------------------
(* GlobalSchedule. *)

\* The first loop, for one cpu.  It becomes available unless its transaction is
\* still pending, or the task there is in its time slice.
Reap ==
    /\ At("reap") /\ todo # {}
    /\ LET c == Min(todo)
           pending == sched.next[c] # NoTask
           synced == pending /\ IsCommitted(c)
           s == IF synced THEN SyncCpuState(sched, c, txn[c].state) ELSE sched
       IN  /\ IF c = global_cpu
                THEN /\ sched' = Check(sched, /\ sched.current[c] = NoTask /\ ~pending
                                              /\ IsCommitted(c))
                     /\ UNCHANGED available
                ELSE /\ sched' = s
                     /\ \/ /\ ~pending \/ synced
                           /\ s.current[c] # NoTask => TimeSlice /\ InBound(s.current[c])
                           /\ available' = available \cup {c}
                        \/ /\ (pending /\ ~synced) \/ s.current[c] # NoTask
                           /\ UNCHANGED available
           /\ todo' = todo \ {c}
    /\ UNCHANGED <<kvars, global_cpu, pc, txn>>

ReapEnds ==
    /\ At("reap") /\ todo = {}
    /\ pc' = "assign"
    /\ UNCHANGED <<kvars, sched, global_cpu, todo, txn, available>>

First == Head(sched.run_queue)

\* Not off its cpu yet, or there is a message about it.
NotReady(t) == on_cpu[t] \/ sched.task[t].seqnum # barrier[t]

\* Its own cpu, a sibling, or else the first.
CpuFor(t) ==
    LET own == sched.task[t].cpu
        near == IF own = NoCpu THEN {}
                ELSE IF own \in available THEN {own} ELSE Siblings[own] \cap available
    IN  Min(IF near # {} THEN near ELSE available)

SkipTask ==
    /\ At("assign") /\ available # {} /\ sched.run_queue # << >>
    /\ NotReady(First)
    /\ sched' = Yield(Dequeue(sched), First)
    /\ UNCHANGED <<kvars, global_cpu, pc, todo, txn, available>>

\* Open, from when on the kernel may commit: SOL sets no commit_flags.  A task that
\* was preempted goes first if the commit fails.
AssignTask ==
    /\ At("assign") /\ available # {} /\ sched.run_queue # << >>
    /\ ~NotReady(First)
    /\ LET t == First
           c == CpuFor(t)
           s == Check(Dequeue(sched), sched.next[c] = NoTask)
       IN  /\ sched' = [s EXCEPT
                          !.next[c] = t,
                          !.task[t] = [@ EXCEPT !.run_state = "kPending", !.cpu = c,
                                                !.preempted = FALSE,
                                                !.prio_boost = @ \/ s.task[t].preempted]]
           /\ txn' = [txn EXCEPT ![c] = [state |-> "READY", target |-> t,
                                         target_barrier |-> sched.task[t].seqnum]]
           /\ available' = available \ {c}
    /\ UNCHANGED <<kvars, global_cpu, pc, todo>>

\* SubmitRunRequests; the tasks that skipped this round are queued again.
EndSchedule ==
    /\ At("assign") /\ (available = {} \/ sched.run_queue = << >>)
    /\ sched' = [FoldLeft(LAMBDA s, t : Requeue(Check(s, State(s, t) = "kYielding"), t),
                          sched, sched.yielding) EXCEPT !.yielding = << >>]
    /\ available' = {}
    /\ pc' = "loop"
    /\ UNCHANGED <<kvars, global_cpu, todo, txn>>

GlobalSchedule == Reap \/ ReapEnds \/ SkipTask \/ AssignTask \/ EndSchedule

-----------------------------------------------------------------------------
(* AgentThread, and the kernel's side of a transaction. *)

\* The role moves, in one of 256 iterations, to an available cpu that the
\* topology prefers; its transaction is aborted unless it was committed.
MoveTo(c) ==
    LET aborted == txn[c].state = "READY"
        outcome == IF aborted THEN "FAILED" ELSE txn[c].state
        s == IF sched.next[c] = NoTask THEN sched
             ELSE SyncCpuState(Check(sched, outcome # "UNEXPECTED"), c, outcome)
    IN  /\ At("loop") /\ Boosted /\ c \in Candidates
        /\ kcur[c] # NoTask => InBound(kcur[c])
        /\ txn' = [txn EXCEPT ![c] = IF aborted THEN Committed("FAILED") ELSE @]
        /\ sched' = Check(s, /\ outcome \in Outcomes
                             /\ s.current[c] # NoTask => State(s, s.current[c]) = "kOnCpu")
        /\ global_cpu' = c
        /\ pc' = "wake"
        /\ UNCHANGED <<kvars, todo, available>>

\* A boosted agent that does not move goes on scheduling.
StartSchedule ==
    /\ At("loop")
    /\ pc' = "drain"
    /\ UNCHANGED <<kvars, sched, global_cpu, todo>>

Agent ==
    \/ (AgentWakes \/ StartSchedule \/ Handlers) /\ UNCHANGED <<txn, available>>
    \/ (DrainEnds("reap") \/ \E c \in Cpus : SatelliteYields(c)) /\ UNCHANGED <<txn, available>>
    \/ \E c \in Cpus : MoveTo(c)
    \/ GlobalSchedule

\* The target cpu commits a transaction, at the latest when it is submitted.
KTxnCommits(c) ==
    LET outcome == Outcome(c, txn[c].target, txn[c].target_barrier)
    IN  /\ sched.ok /\ txn[c].state = "READY"
        /\ Commits(c, txn[c].target, outcome)
        /\ txn' = [txn EXCEPT ![c] = Committed(
                     IF outcome = "COMPLETE" THEN "COMPLETE"
                     ELSE IF Expected(outcome) THEN "FAILED" ELSE "UNEXPECTED")]
        /\ UNCHANGED <<gvars, available>>

SwitchesTo == SwitchTo /\ \E c \in Cpus, b \in Tasks : KSwitchTo(c, b)

Next ==
    \/ (Kernel \/ SwitchesTo) /\ UNCHANGED svars
    \/ \E c \in Cpus : KTxnCommits(c)
    \/ Agent

Spec == Init /\ [][Next]_vars

-----------------------------------------------------------------------------
(* Properties. *)

\* No CHECK fails.
NoFault == sched.ok

\* A known task is in one place, once, and its run_state says where.
QueuesMatchStates ==
    \A t \in Tasks :
      LET in(state) == IF t \in sched.known /\ State(sched, t) = state THEN 1 ELSE 0
      IN  /\ Times(sched.run_queue, t) = in("kQueued")
          /\ Times(sched.yielding, t) = in("kYielding")
          /\ Cardinality({c \in Cpus : sched.next[c] = t}) = in("kPending")
          /\ Cardinality({c \in Cpus : sched.current[c] = t}) = in("kOnCpu")
          /\ State(sched, t) # "kRunnable"

\* A transaction that was not committed is the one of its cpu's next task, and
\* the global agent's own cpu has none.
TransactionsAreReaped ==
    \A c \in Cpus :
      /\ ~IsCommitted(c) => txn[c].target = sched.next[c] /\ c # global_cpu
      /\ sched.next[c] # NoTask => State(sched, sched.next[c]) = "kPending"

\* With no message about it unread, a running task is its cpu's current task, or
\* next if its transaction was not reaped yet, or was switched to; a runnable one
\* waits or is pending; one that blocked or left is not scheduled.
BooksAgree ==
    \A t \in Tasks : ~Unread(t) =>
      CASE kstate[t] \in {"out", "gone"} -> t \notin sched.known
        [] kstate[t] \in {"blocked", "dying"} ->
             t \in sched.known /\ State(sched, t) = "kBlocked"
        [] kstate[t] = "runnable" ->
             t \in sched.known /\ State(sched, t) \in {"kQueued", "kYielding", "kPending"}
        [] kstate[t] = "running" ->
             \E c \in Cpus : /\ kcur[c] = t
                             /\ \/ sched.current[c] = t
                                \/ sched.next[c] = t /\ txn[c].state = "COMPLETE"
                                \/ chain[c] /\ State(sched, t) = "kBlocked"
=============================================================================
