------------------------------ MODULE Shinjuku ------------------------------
(***************************************************************************)
(* The Shinjuku scheduler, schedulers/shinjuku, composed with the kernel   *)
(* and the application's table.  There is one FIFO per QoS class; a task   *)
(* is preempted for a higher class, when its time slice is over, or when   *)
(* its item changed.  A task whose item says it has no work any more is    *)
(* not taken off its cpu at once: its unschedule_level defers that to      *)
(* GlobalSchedule, which may pair it with a new task.  A repeatable that   *)
(* went idle waits in paused_repeatables_ until its period is over.        *)
(***************************************************************************)
EXTENDS Orchestrator

CONSTANT TimeSlice   \* is preemption_time_slice_ finite?

VARIABLE iter        \* GlobalSchedule: i of its outer loop

jvars == <<gvars, tvars, iter>>
vars == <<kvars, jvars>>

RunStates == {"kBlocked", "kQueued", "kOnCpu", "kYielding", "kPaused"}
UnscheduleLevels == {"kNoUnschedule", "kCouldUnschedule", "kMustUnschedule"}
ShinjukuTask ==
    [run_state : RunStates, cpu : Cpus \cup {NoCpu}, prio_boost : BOOLEAN,
     seqnum : Seqnums, has_work : BOOLEAN, level : UnscheduleLevels]
NewTask == [run_state |-> "kBlocked", cpu |-> NoCpu, prio_boost |-> FALSE,
            seqnum |-> 0, has_work |-> FALSE, level |-> "kNoUnschedule"]

TypeOK ==
    /\ KTypeOK /\ TableTypeOK
    /\ sched.known \subseteq Tasks
    /\ sched.task \in [Tasks -> ShinjukuTask]
    /\ sched.run_queue \in [QoS -> Seq(Tasks)]
    /\ sched.yielding \in Seq(Tasks) /\ sched.paused \in Seq(Tasks)
    /\ sched.current \in [Cpus -> Tasks \cup {NoTask}]
    /\ sched.next \in [Cpus -> Tasks \cup {NoTask}]
    /\ sched.cached \in [Tasks -> Item]
    /\ sched.ok \in BOOLEAN /\ iter \in {0, 1}
    /\ global_cpu \in Cpus /\ todo \subseteq Cpus
    /\ pc \in {"loop", "wake", "drain", "params", "copy", "pick", "settle", "commit"}

Init ==
    /\ KInit /\ TableInit
    /\ sched = [known |-> {}, task |-> [t \in Tasks |-> NewTask],
                run_queue |-> [q \in QoS |-> << >>], yielding |-> << >>,
                paused |-> << >>, current |-> [c \in Cpus |-> NoTask],
                next |-> [c \in Cpus |-> NoTask],
                cached |-> [t \in Tasks |-> EmptyItem], ok |-> TRUE]
    /\ global_cpu = Min(Cpus) /\ pc = "loop" /\ todo = {} /\ iter = 0

-----------------------------------------------------------------------------
(* The run queues and the scheduler's other methods. *)

RunqueueEmpty(s) == \A q \in QoS : s.run_queue[q] = << >>

FirstFilledRunqueue(s) == Max({q \in QoS : s.run_queue[q] # << >>})

First(s) == Head(s.run_queue[FirstFilledRunqueue(s)])

\* A task without work is paused instead.
Enqueue(s, t, back) ==
    LET c == Check(s, s.task[t].level = "kNoUnschedule")
        q == GetQoS(s, t)
    IN  IF ~s.task[t].has_work THEN SetState(c, t, "kPaused")
        ELSE [SetState(c, t, "kQueued") EXCEPT
                !.run_queue[q] = IF back /\ ~s.task[t].prio_boost THEN Append(@, t)
                                                                  ELSE <<t>> \o @]

\* Dequeue, of queues that are not all empty; the task is First(s) before.
Dequeue(s) ==
    Check([s EXCEPT !.run_queue[FirstFilledRunqueue(s)] = Tail(@)],
          s.task[First(s)].has_work /\ s.task[First(s)].level = "kNoUnschedule")

RemoveFromRunqueue(s, t) ==
    Check([SetState(s, t, "kPaused") EXCEPT
             !.run_queue = [q \in QoS |-> Remove(@[q], t)]],
          State(s, t) = "kQueued" /\ \E q \in QoS : Contains(s.run_queue[q], t))

Yield(s, t) ==
    Check([SetState(s, t, "kYielding") EXCEPT !.yielding = Append(@, t)],
          State(s, t) \in {"kOnCpu", "kQueued"})

Unyield(s, t) ==
    Enqueue(Check([s EXCEPT !.yielding = Remove(@, t)], Contains(s.yielding, t)), t, TRUE)

\* A slip: the deferred unschedule stays pending.
UnscheduleTaskPending(s, t) ==
    SetState(Check(LeavesCpu(s, t), State(s, t) = "kOnCpu"), t, "kPaused")

\* UnscheduleTask, on the scheduler's side.
UnscheduleTask(s, t) ==
    [SetState(Check(LeavesCpu(s, t), State(s, t) = "kOnCpu"), t, "kPaused") EXCEPT
       !.task[t].level = "kNoUnschedule"]

-----------------------------------------------------------------------------
(* DispatchMessage: the handlers. *)

\* GetSchedParams finds the thread's item if it was copied before.  A task of an
\* orphan has no orch to call it on.
WithParams(s, t) ==
    LET sp == s.cached[t]
        with == [s EXCEPT !.task[t].has_work = sp.runnable]
    IN  IF t \in Orphans THEN Check(s, FALSE)
        ELSE IF ~sp.gpid THEN s
        ELSE IF State(s, t) = "kPaused" /\ sp.runnable THEN Enqueue(with, t, TRUE)
        ELSE with

TaskNew ==
    LET t == Peek.task
        new == [sched EXCEPT !.known = @ \cup {t},
                  !.task[t] = [NewTask EXCEPT !.seqnum = Peek.seqnum,
                                              !.has_work = t \in Orphans]]
    IN  Dispatch("NEW", WithParams(IF Peek.flag THEN Enqueue(new, t, TRUE) ELSE new, t))

TaskRunnable ==
    LET t == Peek.task
        s == Check(Advance(sched, t, Peek.seqnum), State(sched, t) = "kBlocked")
    IN  Dispatch("WAKEUP", Enqueue([s EXCEPT !.task[t].prio_boost = ~Peek.flag], t, FALSE))

\* The task stays in paused_repeatables_.
TaskDeparted ==
    LET t == Peek.task
        s == IF State(sched, t) = "kYielding" THEN Unyield(sched, t) ELSE sched
        off == CASE State(s, t) = "kOnCpu"  -> LeavesCpu(s, t)
                 [] State(s, t) = "kQueued" -> RemoveFromRunqueue(s, t)
                 [] OTHER -> Check(s, State(s, t) \in {"kBlocked", "kPaused"})
    IN  Dispatch("DEPARTED", FreeTask(off, t, NewTask))

TaskDead ==
    LET t == Peek.task
    IN  Dispatch("DEAD", FreeTask(Check(sched, State(sched, t) = "kBlocked"), t, NewTask))

TaskBlocked ==
    LET t == Peek.task
        s == Advance(sched, t, Peek.seqnum)
        off == CASE State(s, t) = "kOnCpu"  -> LeavesCpu(s, t)
                 [] State(s, t) = "kQueued" -> RemoveFromRunqueue(s, t)
                 [] OTHER -> Check(s, State(s, t) = "kPaused")
    IN  Dispatch("BLOCKED", SetState(off, t, "kBlocked"))

TaskPreempted ==
    LET t == Peek.task
        s == [Advance(sched, t, Peek.seqnum) EXCEPT !.task[t].prio_boost = TRUE]
    IN  Dispatch("PREEMPT",
          CASE State(s, t) = "kOnCpu"  -> Enqueue(LeavesCpu(s, t), t, TRUE)
            [] State(s, t) = "kQueued" -> Enqueue(RemoveFromRunqueue(s, t), t, TRUE)
            [] OTHER -> Check(s, State(s, t) = "kPaused"))

TaskYield ==
    LET t == Peek.task
        s == Advance(sched, t, Peek.seqnum)
    IN  Dispatch("YIELD",
          IF State(s, t) = "kOnCpu" THEN Yield(LeavesCpu(s, t), t)
          ELSE Check(s, State(s, t) \in {"kQueued", "kPaused"}))

Handlers ==
    \/ TaskNew \/ TaskRunnable \/ TaskDeparted \/ TaskDead \/ TaskBlocked
    \/ TaskPreempted \/ TaskYield

-----------------------------------------------------------------------------
(* UpdateSchedParams: SchedParamsCallback. *)

Level(s, t, level) == [s EXCEPT !.task[t].level = level]

\* Cases (a) and (b).
WorkBegins(s, t) ==
    LET c == Check(s, \/ State(s, t) = "kPaused"
                      \/ State(s, t) = "kOnCpu" /\ s.task[t].level = "kMustUnschedule")
    IN  CASE ~s.task[t].has_work      -> c
          [] State(s, t) = "kPaused" -> Enqueue(c, t, TRUE)
          [] OTHER                   -> Level(c, t, "kCouldUnschedule")

\* Case (d).
WorkChanges(s, t) ==
    CASE State(s, t) = "kQueued" -> Check(s, t \notin Repeating)
      [] State(s, t) = "kOnCpu"  -> Level(s, t, "kCouldUnschedule")
      [] OTHER                   -> Check(s, FALSE)

\* Case (c).
WorkEnds(s, t) ==
    LET off == CASE State(s, t) = "kOnCpu"  -> Level(s, t, "kMustUnschedule")
                 [] State(s, t) = "kQueued" -> RemoveFromRunqueue(s, t)
                 [] OTHER -> Check(s, FALSE)
    IN  IF t \in Repeating THEN [off EXCEPT !.paused = Append(@, t)] ELSE off

\* cached is the copy just made of the table.
Callback(cached, t) ==
    LET copy == [sched EXCEPT !.cached = cached]
        awake == IF State(copy, t) = "kYielding" THEN Unyield(copy, t) ELSE copy
        s == [awake EXCEPT !.task[t].has_work = cached[t].runnable]
    IN  CASE ~cached[t].gpid \/ t \notin sched.known -> copy
          [] State(sched, t) = "kBlocked"  -> s
          [] ~sched.task[t].has_work       -> WorkBegins(s, t)
          [] cached[t].runnable            -> WorkChanges(s, t)
          [] OTHER                         -> WorkEnds(s, t)

SchedParamsCallback ==
    LET t == wc.sid
        cached == SeqCopyParams(sched.cached, t)
    IN  /\ pc = "copy"
        /\ Copied(IF Changed(sched.cached, t) THEN Callback(cached, t)
                  ELSE [sched EXCEPT !.cached = cached], {})
        /\ UNCHANGED <<kvars, iter>>

-----------------------------------------------------------------------------
(* GlobalSchedule. *)

\* In the first iteration only idle cpus, and those that must be freed, get a
\* task; in the second the others may be preempted.
SkipForSchedule(c) ==
    LET current == sched.current[c]
    IN  \/ ~Available(c) \/ c = global_cpu
        \/ /\ iter = 0 /\ current # NoTask
           /\ sched.task[current].level # "kMustUnschedule"
        \/ iter = 1 /\ sched.next[c] # NoTask

\* expired: the task on c has used up its time slice.
ShouldPreempt(c, expired) ==
    LET current == sched.current[c]
        mine == GetQoS(sched, current)
        peek == GetQoS(sched, First(sched))
    IN  /\ ~RunqueueEmpty(sched)
        /\ \/ mine < peek
           \/ /\ mine = peek
              /\ \/ expired /\ current \notin Orphans \cup Repeating
                 \/ sched.task[current].level # "kNoUnschedule"

\* The cpus still to look at, without those the loop would skip now.
Left(expired) ==
    {c \in todo : /\ ~SkipForSchedule(c)
                  /\ sched.current[c] # NoTask => ShouldPreempt(c, c \in expired)}

\* The cpus whose task's time slice is over.  The code compares with the time at
\* which the round began; here each step may choose.
Expirations == IF TimeSlice
                 THEN SUBSET {c \in todo : /\ sched.current[c] # NoTask
                                           /\ InBound(sched.current[c])}
                 ELSE {{}}

\* A task that has not got off its cpu yet skips this round.
YieldOnCpu ==
    /\ At("pick") /\ ~RunqueueEmpty(sched) /\ on_cpu[First(sched)]
    /\ \E expired \in Expirations :
         /\ Left(expired) # {}
         /\ todo' = {c \in todo : c >= Min(Left(expired))}
    /\ sched' = Yield(Dequeue(sched), First(sched))
    /\ UNCHANGED <<kvars, global_cpu, pc, tvars, iter>>

PickTask ==
    /\ At("pick") /\ ~RunqueueEmpty(sched) /\ ~on_cpu[First(sched)]
    /\ \E expired \in Expirations :
         /\ Left(expired) # {}
         /\ LET cpu == Min(Left(expired))
            IN  /\ sched' = [Dequeue(sched) EXCEPT !.next[cpu] = First(sched)]
                /\ todo' = {c \in todo : c > cpu}
    /\ UNCHANGED <<kvars, global_cpu, pc, tvars, iter>>

PickEnds ==
    /\ At("pick")
    /\ RunqueueEmpty(sched) \/ \E expired \in Expirations : Left(expired) = {}
    /\ todo' = {}
    /\ pc' = "settle"
    /\ UNCHANGED <<kvars, sched, global_cpu, tvars, iter>>

\* The cpus that keep their task in this iteration.
Unpaired == {c \in Cpus : sched.current[c] # NoTask /\ sched.next[c] = NoTask}

Must == {c \in Unpaired : sched.task[sched.current[c]].level = "kMustUnschedule"}

\* A task that must go, and that no new one replaces.
UnscheduleUnpaired ==
    /\ At("settle") /\ Must # {}
    /\ sched' = UnscheduleTask(sched, sched.current[Min(Must)])
    /\ Unschedules(Min(Must))
    /\ UNCHANGED <<global_cpu, pc, todo, tvars, iter>>

\* A slip: i <= 2.
IterateThrice == iter <= 1

\* i < 2, after i++.
IterateAgain == iter < 1

\* A task that could go stays, as nothing replaces it; on to the next
\* iteration, or to the commits.
SettleEnds ==
    /\ At("settle") /\ Must = {}
    /\ sched' = [sched EXCEPT !.task = [t \in Tasks |->
                   IF \E c \in Unpaired : sched.current[c] = t
                     THEN [@[t] EXCEPT !.level = "kNoUnschedule"] ELSE @[t]]]
    /\ IF IterateAgain THEN iter' = iter + 1 /\ todo' = Cpus /\ pc' = "pick"
       ELSE iter' = 0 /\ todo' = {c \in Cpus : sched.next[c] # NoTask} /\ pc' = "commit"
    /\ UNCHANGED <<kvars, global_cpu, tvars>>

\* A slip: prev keeps its level, and the queue's CHECK sees it.
LatchedPending(s, c, next) ==
    LET prev == s.current[c]
        s1 == IF prev = NoTask THEN s
              ELSE Enqueue(Check(s, State(s, prev) = "kOnCpu"), prev, TRUE)
    IN  [s1 EXCEPT !.current[c] = next,
                   !.task[next] = [@ EXCEPT !.run_state = "kOnCpu", !.cpu = c,
                                            !.prio_boost = FALSE]]

\* next runs on c; the task it displaces is queued again.
Latched(s, c, next) ==
    LET prev == s.current[c]
        s1 == IF prev = NoTask THEN s
              ELSE Enqueue(Level(Check(s, State(s, prev) = "kOnCpu"), prev, "kNoUnschedule"),
                           prev, TRUE)
    IN  [s1 EXCEPT !.current[c] = next,
                   !.task[next] = [@ EXCEPT !.run_state = "kOnCpu", !.cpu = c,
                                            !.prio_boost = FALSE]]

\* The commit of c failed: next is first again, and a task that was to go goes.
CommitNext ==
    /\ At("commit") /\ todo # {}
    /\ LET c == Min(todo)
           t == sched.next[c]
           prev == sched.current[c]
           s == [sched EXCEPT !.next[c] = NoTask]
           outcome == Outcome(c, t, sched.task[t].seqnum)
           failed == Check(Enqueue(s, t, FALSE), Expected(outcome))
           goes == prev # NoTask /\ sched.task[prev].level # "kNoUnschedule"
       IN  IF outcome = "COMPLETE"
             THEN sched' = Latched(s, c, t) /\ Commits(c, t, outcome)
             ELSE IF goes THEN sched' = UnscheduleTask(failed, prev) /\ Unschedules(c)
             ELSE sched' = failed /\ UNCHANGED kvars
    /\ todo' = todo \ {Min(todo)}
    /\ UNCHANGED <<global_cpu, pc, tvars, iter>>

\* The period of a repeatable is over; a task that was freed must not be here.
RunAgain(s, t) ==
    Enqueue([MakeEngineRunnable(Check(s, t \in s.known), t) EXCEPT
               !.task[t].has_work = TRUE], t, TRUE)

\* The tasks that skipped this round are queued again, then the repeatables
\* whose period is over.
EndSchedule ==
    /\ At("commit") /\ todo = {}
    /\ \E due \in SUBSET Range(sched.paused) :
         LET s == FoldLeft(LAMBDA r, t : Enqueue(Check(r, State(r, t) = "kYielding"), t, TRUE),
                           [sched EXCEPT !.yielding = << >>], sched.yielding)
             ready == SelectSeq(sched.paused, LAMBDA t : t \in due)
         IN  /\ sched' = [FoldLeft(RunAgain, s, ready) EXCEPT
                            !.paused = SelectSeq(@, LAMBDA t : t \notin due)]
             /\ item' = [t \in Tasks |-> [item[t] EXCEPT !.runnable = @ \/ t \in due]]
    /\ pc' = "loop"
    /\ UNCHANGED <<kvars, global_cpu, todo, draft, writes, announced, fresh, wc, iter>>

GlobalSchedule ==
    \/ YieldOnCpu \/ PickTask \/ PickEnds \/ UnscheduleUnpaired \/ SettleEnds
    \/ CommitNext \/ EndSchedule

-----------------------------------------------------------------------------

Agent ==
    \/ (Roles \/ Handlers \/ DrainEnds("params")) /\ UNCHANGED <<tvars, iter>>
    \/ (RefreshSchedParam \/ RefreshEnds("pick")) /\ UNCHANGED iter
    \/ SchedParamsCallback
    \/ GlobalSchedule

Next ==
    \/ Kernel /\ UNCHANGED jvars
    \/ Application /\ UNCHANGED iter
    \/ Agent

Spec == Init /\ [][Next]_vars

-----------------------------------------------------------------------------
(* Properties. *)

\* No CHECK fails, no freed task is used and no commit ends unexpectedly.
NoFault == sched.ok

Queued(t) == FoldFunction(LAMBDA q, n : Times(q, t) + n, 0, sched.run_queue)

\* A known task is in one place, once, and its run_state says where; a task in
\* cs->next is still called queued.
QueuesMatchStates ==
    \A t \in Tasks :
      LET in(state) == IF t \in sched.known /\ State(sched, t) = state THEN 1 ELSE 0
      IN  /\ Queued(t) + Cardinality({c \in Cpus : sched.next[c] = t}) = in("kQueued")
          /\ Times(sched.yielding, t) = in("kYielding")
          /\ Cardinality({c \in Cpus : sched.current[c] = t}) = in("kOnCpu")
          /\ Times(sched.paused, t) <= 1

\* Only a task on its cpu has an unschedule pending, and none outside the round
\* that learnt of it; a task that has no work is not queued, and goes.
DeferralsAreSettled ==
    \A t \in sched.known :
      LET level == sched.task[t].level
          state == State(sched, t)
      IN  /\ level # "kNoUnschedule" =>
               state = "kOnCpu" /\ pc \notin {"loop", "wake", "drain"}
          /\ ~sched.task[t].has_work => \/ state \in {"kBlocked", "kPaused"}
                                        \/ level = "kMustUnschedule"
          /\ state = "kPaused" => ~sched.task[t].has_work

\* As in Edf.
BooksAgree ==
    \A t \in Tasks : ~Unread(t) =>
      CASE kstate[t] \in {"out", "gone"} -> t \notin sched.known
        [] kstate[t] \in {"blocked", "dying"} ->
             t \in sched.known /\ State(sched, t) = "kBlocked"
        [] kstate[t] = "runnable" ->
             t \in sched.known /\ State(sched, t) \in {"kQueued", "kYielding", "kPaused"}
        [] kstate[t] = "running" ->
             \E c \in Cpus : kcur[c] = t /\ sched.current[c] = t
=============================================================================
