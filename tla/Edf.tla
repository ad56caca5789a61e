-------------------------------- MODULE Edf --------------------------------
(***************************************************************************)
(* The earliest-deadline-first scheduler, schedulers/edf, composed with    *)
(* the kernel and the application's table.  The run queue is a binary heap *)
(* in a vector whose order depends on fields that handlers, the cached     *)
(* table and the clock change under it, so each change of a queued task    *)
(* must be followed by UpdateRunqueue.                                     *)
(*                                                                         *)
(* sched_deadline is a deadline minus an estimate of the runtime left: any *)
(* value of Deadlines whenever CalculateSchedDeadline runs.  rq_pos is the *)
(* task's index in run_queue.                                              *)
(***************************************************************************)
EXTENDS Orchestrator

CONSTANT Deadlines   \* in Nat; the largest stands for InfiniteFuture

VARIABLE in_sync     \* GlobalSchedule: no commit failed so far

evars == <<gvars, tvars, in_sync>>
vars == <<kvars, evars>>

RunStates == {"kBlocked", "kQueued", "kOnCpu", "kYielding", "kPaused"}
EdfTask == [run_state : RunStates, cpu : Cpus \cup {NoCpu}, prio_boost : BOOLEAN,
            seqnum : Seqnums, has_work : BOOLEAN,
            sched_deadline : Deadlines]
NewTask == [run_state |-> "kBlocked", cpu |-> NoCpu, prio_boost |-> FALSE,
            seqnum |-> 0, has_work |-> FALSE, sched_deadline |-> Max(Deadlines)]

TypeOK ==
    /\ KTypeOK /\ TableTypeOK
    /\ sched.known \subseteq Tasks
    /\ sched.task \in [Tasks -> EdfTask]
    /\ sched.run_queue \in Seq(Tasks) /\ sched.yielding \in Seq(Tasks)
    /\ sched.current \in [Cpus -> Tasks \cup {NoTask}]
    /\ sched.next \in [Cpus -> Tasks \cup {NoTask}]
    /\ sched.cached \in [Tasks -> Item]
    /\ sched.ok \in BOOLEAN /\ in_sync \in BOOLEAN
    /\ global_cpu \in Cpus /\ todo \subseteq Cpus
    /\ pc \in {"loop", "wake", "drain", "params", "copy", "pick", "commit"}

Init ==
    /\ KInit /\ TableInit
    /\ sched = [known |-> {}, task |-> [t \in Tasks |-> NewTask], run_queue |-> << >>,
                yielding |-> << >>, current |-> [c \in Cpus |-> NoTask],
                next |-> [c \in Cpus |-> NoTask],
                cached |-> [t \in Tasks |-> EmptyItem], ok |-> TRUE]
    /\ global_cpu = Min(Cpus) /\ pc = "loop" /\ todo = {} /\ in_sync = TRUE

-----------------------------------------------------------------------------
(* The heap. *)

\* SchedDeadlineGreater, on what it compares of a and b.
Greater(a, b) ==
    IF a.boost # b.boost THEN b.boost
    ELSE IF a.qos # b.qos THEN a.qos < b.qos
    ELSE a.deadline > b.deadline

Keys(s) == [t \in Tasks |-> [boost |-> s.task[t].prio_boost, qos |-> GetQoS(s, t),
                             deadline |-> s.task[t].sched_deadline]]

Swap(q, i, j) == [q EXCEPT ![i] = q[j], ![j] = q[i]]

RECURSIVE SiftUp(_, _, _)
SiftUp(q, pos, key) ==
    IF pos > 1 /\ Greater(key[q[pos \div 2]], key[q[pos]])
      THEN SiftUp(Swap(q, pos, pos \div 2), pos \div 2, key)
      ELSE q

\* The child that comes first.
FirstChild(q, pos, key) ==
    IF 2 * pos + 1 <= Len(q) /\ Greater(key[q[2 * pos]], key[q[2 * pos + 1]])
      THEN 2 * pos + 1
      ELSE 2 * pos

RECURSIVE SiftDown(_, _, _)
SiftDown(q, pos, key) ==
    LET child == FirstChild(q, pos, key)
    IN  IF child <= Len(q) /\ Greater(key[q[pos]], key[q[child]])
          THEN SiftDown(Swap(q, pos, child), child, key)
          ELSE q

UpdateRunqueuePosition(q, pos, key) ==
    IF pos > 1 /\ Greater(key[q[pos \div 2]], key[q[pos]])
      THEN SiftUp(q, pos, key)
      ELSE SiftDown(q, pos, key)

\* Move the last element to pos and repair; pos may be the last one.
Extract(q, pos, key) ==
    LET rest == Front(Swap(q, pos, Len(q)))
    IN  IF pos <= Len(rest) THEN UpdateRunqueuePosition(rest, pos, key) ELSE rest

IsHeap(q, key) == \A i \in 2 .. Len(q) : ~Greater(key[q[i \div 2]], key[q[i]])

-----------------------------------------------------------------------------
(* The run queue and the scheduler's other methods. *)

Position(s, t) == CHOOSE i \in DOMAIN s.run_queue : s.run_queue[i] = t

\* A task without work is paused instead.
Enqueue(s, t) ==
    IF ~s.task[t].has_work THEN SetState(s, t, "kPaused")
    ELSE LET q == Append(s.run_queue, t)
         IN  Check([SetState(s, t, "kQueued") EXCEPT
                      !.run_queue = UpdateRunqueuePosition(q, Len(q), Keys(s))],
                   ~Contains(s.run_queue, t))

\* Dequeue, of a queue that is not empty; the task is its head before.
Dequeue(s) ==
    Check([s EXCEPT !.run_queue = Extract(@, 1, Keys(s))],
          s.task[Head(s.run_queue)].has_work)

IsQueued(s, t) == State(s, t) = "kQueued" /\ Contains(s.run_queue, t)

RemoveFromRunqueue(s, t) ==
    IF ~IsQueued(s, t) THEN Check(s, FALSE)
    ELSE [SetState(s, t, "kPaused") EXCEPT
            !.run_queue = Extract(@, Position(s, t), Keys(s))]

UpdateRunqueue(s, t) ==
    IF ~IsQueued(s, t) THEN Check(s, FALSE)
    ELSE [s EXCEPT !.run_queue = UpdateRunqueuePosition(@, Position(s, t), Keys(s))]

Yield(s, t) ==
    Check([SetState(s, t, "kYielding") EXCEPT !.yielding = Append(@, t)],
          State(s, t) \in {"kOnCpu", "kQueued"})

Unyield(s, t) ==
    Enqueue(Check([s EXCEPT !.yielding = Remove(@, t)], Contains(s.yielding, t)), t)

-----------------------------------------------------------------------------
(* DispatchMessage: the handlers. *)

\* GetSchedParams finds the thread's item if it was copied before: for a task
\* that had no work this is all the callback does.
WithParams(s, t, d) ==
    LET sp == s.cached[t]
        with == [s EXCEPT !.task[t].has_work = sp.runnable, !.task[t].sched_deadline = d]
    IN  IF t \in Orphans \/ ~sp.gpid THEN s
        ELSE IF State(s, t) = "kPaused" /\ sp.runnable THEN Enqueue(with, t)
        ELSE with

\* HandleNewGtid gives a task without a table something to do.
TaskNew ==
    \E d \in Deadlines :
      LET t == Peek.task
          new == [sched EXCEPT !.known = @ \cup {t},
                    !.task[t] = [NewTask EXCEPT !.seqnum = Peek.seqnum,
                                                !.has_work = t \in Orphans]]
      IN  Dispatch("NEW", WithParams(IF Peek.flag THEN Enqueue(new, t) ELSE new, t, d))

TaskRunnable ==
    LET t == Peek.task
        s == Check(Advance(sched, t, Peek.seqnum), State(sched, t) = "kBlocked")
    IN  Dispatch("WAKEUP", Enqueue([s EXCEPT !.task[t].prio_boost = ~Peek.flag], t))

\* UpdateTaskRuntime of a task that leaves its cpu, which ends in CalculateSchedDeadline.
OffCpu(s, t, d) == [LeavesCpu(s, t) EXCEPT !.task[t].sched_deadline = d]

TaskDeparted ==
    LET t == Peek.task
        s == IF State(sched, t) = "kYielding" THEN Unyield(sched, t) ELSE sched
        off == CASE State(s, t) = "kOnCpu"  -> LeavesCpu(s, t)
                 [] State(s, t) = "kQueued" -> RemoveFromRunqueue(s, t)
                 [] OTHER -> Check(s, State(s, t) \in {"kBlocked", "kPaused"})
    IN  Dispatch("DEPARTED", FreeTask(off, t, NewTask))

TaskDead ==
    LET t == Peek.task
    IN  Dispatch("DEAD", FreeTask(Check(sched, State(sched, t) = "kBlocked"), t, NewTask))

TaskBlocked ==
    \E d \in Deadlines :
      LET t == Peek.task
          s == Advance(sched, t, Peek.seqnum)
          off == CASE State(s, t) = "kOnCpu"  -> OffCpu(s, t, d)
                   [] State(s, t) = "kQueued" -> RemoveFromRunqueue(s, t)
                   [] OTHER -> Check(s, State(s, t) = "kPaused")
      IN  Dispatch("BLOCKED", SetState(off, t, "kBlocked"))

TaskPreempted ==
    \E d \in Deadlines :
      LET t == Peek.task
          s == [Advance(sched, t, Peek.seqnum) EXCEPT !.task[t].prio_boost = TRUE]
      IN  Dispatch("PREEMPT",
            CASE State(s, t) = "kOnCpu"  -> Enqueue(OffCpu(s, t, d), t)
              [] State(s, t) = "kQueued" -> UpdateRunqueue(s, t)
              [] OTHER -> Check(s, State(s, t) = "kPaused"))

TaskYield ==
    \E d \in Deadlines :
      LET t == Peek.task
          s == Advance(sched, t, Peek.seqnum)
      IN  Dispatch("YIELD",
            IF State(s, t) = "kOnCpu" THEN Yield(OffCpu(s, t, d), t)
            ELSE Check(s, State(s, t) \in {"kQueued", "kPaused"}))

Handlers ==
    \/ TaskNew \/ TaskRunnable \/ TaskDeparted \/ TaskDead \/ TaskBlocked
    \/ TaskPreempted \/ TaskYield

-----------------------------------------------------------------------------
(* UpdateSchedParams: SchedParamsCallback. *)

\* PreemptTask(task, nullptr) as far as the scheduler's own state goes.
Paused(s, t) == SetState(LeavesCpu(s, t), t, "kPaused")

\* Case (c): the task gave up its work; a repeatable gets it back at once.
WorkEnds(s, t) ==
    LET off == CASE State(s, t) = "kOnCpu"  -> Paused(s, t)
                 [] State(s, t) = "kQueued" -> RemoveFromRunqueue(s, t)
                 [] OTHER -> Check(s, FALSE)
    IN  IF t \in Repeating
          THEN Enqueue([MakeEngineRunnable(off, t) EXCEPT !.task[t].has_work = TRUE], t)
          ELSE off

\* A slip: the queued task stays where its old deadline put it.
LeaveQueued(s, t) == Check(s, t \notin Repeating)

\* Case (d) of a queued task: its sched item is used for another closure.
RepositionQueued(s, t) == Check(UpdateRunqueue(s, t), t \notin Repeating)

\* cached is the copy just made of the table, d the new sched_deadline.
Callback(cached, t, d) ==
    LET copy == [sched EXCEPT !.cached = cached]
        awake == IF State(copy, t) = "kYielding" THEN Unyield(copy, t) ELSE copy
        had_work == sched.task[t].has_work
        has_work == cached[t].runnable
        s == [awake EXCEPT !.task[t].has_work = has_work, !.task[t].sched_deadline = d]
    IN  CASE ~cached[t].gpid \/ t \notin sched.known -> copy
          [] State(sched, t) = "kBlocked" -> s
          [] ~had_work -> IF has_work THEN Enqueue(Check(s, State(s, t) = "kPaused"), t)
                          ELSE Check(s, State(s, t) = "kPaused")
          [] had_work /\ has_work /\ State(s, t) = "kQueued" ->
               RepositionQueued(s, t)
          [] had_work /\ has_work -> Check(s, State(s, t) # "kPaused")
          [] OTHER -> WorkEnds(s, t)

\* Does the callback take the task off its cpu?
ForcesOff(cached, t) ==
    /\ cached[t].gpid /\ t \in sched.known /\ State(sched, t) = "kOnCpu"
    /\ sched.task[t].has_work /\ ~cached[t].runnable

SchedParamsCallback ==
    LET t == wc.sid
        cached == SeqCopyParams(sched.cached, t)
        changed == Changed(sched.cached, t)
    IN  /\ pc = "copy"
        /\ \E d \in Deadlines :
             LET after == IF changed THEN Callback(cached, t, d)
                                     ELSE [sched EXCEPT !.cached = cached]
             IN  Copied(after, {u \in {t} : after.cached[u].runnable /\ ~cached[u].runnable})
        /\ IF changed /\ ForcesOff(cached, t)
             THEN Unschedules(sched.task[t].cpu) ELSE UNCHANGED kvars
        /\ UNCHANGED in_sync

-----------------------------------------------------------------------------
(* GlobalSchedule. *)

\* A cpu is skipped if it is not available, is the agent's own, or runs a task
\* whose QoS class is not below that of the first queued one.
Skipped(c) ==
    LET q == sched.run_queue
        current == sched.current[c]
    IN  \/ ~Available(c) \/ c = global_cpu
        \/ /\ current # NoTask /\ q # << >>
           /\ GetQoS(sched, Head(q)) <= GetQoS(sched, current)

\* The cpus still to look at, without those the loop would skip now.
Left == {c \in todo : ~Skipped(c)}

\* A task that has not got off its cpu yet skips this round.
YieldOnCpu ==
    /\ At("pick") /\ Left # {} /\ sched.run_queue # << >>
    /\ LET t == Head(sched.run_queue) IN
        /\ on_cpu[t]
        /\ sched' = Yield(Dequeue(sched), t)
    /\ todo' = {c \in todo : c >= Min(Left)}
    /\ UNCHANGED <<kvars, global_cpu, pc, tvars, in_sync>>

PickTask ==
    /\ At("pick") /\ Left # {} /\ sched.run_queue # << >>
    /\ LET t == Head(sched.run_queue)
           cpu == Min(Left)
       IN  /\ ~on_cpu[t]
           /\ sched' = [Dequeue(sched) EXCEPT !.next[cpu] = t]
           /\ todo' = {c \in todo : c > cpu}
    /\ UNCHANGED <<kvars, global_cpu, pc, tvars, in_sync>>

\* Every cpu was looked at, or no task is left.
PickEnds ==
    /\ At("pick") /\ (Left = {} \/ sched.run_queue = << >>)
    /\ todo' = {c \in Cpus : sched.next[c] # NoTask}
    /\ pc' = "commit"
    /\ UNCHANGED <<kvars, sched, global_cpu, tvars, in_sync>>

\* What a successful commit of next on c does to the scheduler: the task it
\* displaces is queued again.
Latched(s, c, next) ==
    LET prev == s.current[c]
        s1 == IF prev = NoTask THEN s
              ELSE Enqueue(Check(SetState(s, prev, "kPaused"), State(s, prev) = "kOnCpu"),
                           prev)
    IN  [s1 EXCEPT !.current[c] = next,
                   !.task[next] = [@ EXCEPT !.run_state = "kOnCpu", !.cpu = c,
                                            !.prio_boost = FALSE]]

\* A slip: the task whose commit failed is dropped.
RequeueForgotten(s, t) == s

\* In the stale case.
Requeue(s, t) == Enqueue(s, t)

\* Once a commit failed the others are not tried: "we'll just reschedule".
CommitNext ==
    /\ At("commit") /\ todo # {}
    /\ LET c == Min(todo)
           t == sched.next[c]
           s == [sched EXCEPT !.next[c] = NoTask]
           outcome == Outcome(c, t, sched.task[t].seqnum)
           done == in_sync /\ outcome = "COMPLETE"
       IN  /\ sched' = IF done THEN Latched(s, c, t)
                       ELSE Check(Requeue(s, t), in_sync => Expected(outcome))
           /\ in_sync' = done
           /\ IF in_sync THEN Commits(c, t, outcome) ELSE UNCHANGED kvars
    /\ todo' = todo \ {Min(todo)}
    /\ UNCHANGED <<global_cpu, pc, tvars>>

\* The tasks that skipped this round are queued again.
EndSchedule ==
    /\ At("commit") /\ todo = {}
    /\ sched' = [FoldLeft(LAMBDA s, t : Enqueue(Check(s, State(s, t) = "kYielding"), t),
                          sched, sched.yielding) EXCEPT !.yielding = << >>]
    /\ in_sync' = TRUE
    /\ pc' = "loop"
    /\ UNCHANGED <<kvars, global_cpu, todo, tvars>>

GlobalSchedule == YieldOnCpu \/ PickTask \/ PickEnds \/ CommitNext \/ EndSchedule

-----------------------------------------------------------------------------

Agent ==
    \/ (Roles \/ Handlers \/ DrainEnds("params")) /\ UNCHANGED <<tvars, in_sync>>
    \/ (RefreshSchedParam \/ RefreshEnds("pick")) /\ UNCHANGED in_sync
    \/ SchedParamsCallback
    \/ GlobalSchedule

Next ==
    \/ Kernel /\ UNCHANGED evars
    \/ Application /\ UNCHANGED in_sync
    \/ Agent

Spec == Init /\ [][Next]_vars

-----------------------------------------------------------------------------
(* Properties. *)

\* No CHECK fails and no commit ends in a state CompleteRunRequest calls unexpected.
NoFault == sched.ok

\* edf_scheduler.cc, CheckRunQueue: "Verify that 'run_queue_' is a proper heap."
HeapOrdered == IsHeap(sched.run_queue, Keys(sched))

\* A known task is in one place, once, and its run_state says where; a task in
\* cs->next is still called queued.
QueuesMatchStates ==
    \A t \in Tasks :
      LET in(state) == IF t \in sched.known /\ State(sched, t) = state THEN 1 ELSE 0
      IN  /\ Times(sched.run_queue, t) + Cardinality({c \in Cpus : sched.next[c] = t})
               = in("kQueued")
          /\ Times(sched.yielding, t) = in("kYielding")
          /\ Cardinality({c \in Cpus : sched.current[c] = t}) = in("kOnCpu")
          /\ t \in sched.known /\ State(sched, t) \in {"kQueued", "kYielding", "kOnCpu"}
               => sched.task[t].has_work
          /\ t \in sched.known /\ State(sched, t) = "kPaused" => ~sched.task[t].has_work

\* With no message about it unread, a task that the kernel has runnable is
\* queued, yielding or, without work, paused; a running one is its cpu's current
\* task, or was displaced; one that blocked or left is not scheduled.
BooksAgree ==
    \A t \in Tasks : ~Unread(t) =>
      CASE kstate[t] \in {"out", "gone"} -> t \notin sched.known
        [] kstate[t] \in {"blocked", "dying"} ->
             t \in sched.known /\ State(sched, t) = "kBlocked"
        [] kstate[t] = "runnable" ->
             t \in sched.known /\ State(sched, t) \in {"kQueued", "kYielding", "kPaused"}
        [] kstate[t] = "running" ->
             \E c \in Cpus : kcur[c] = t /\ sched.current[c] = t
=============================================================================
