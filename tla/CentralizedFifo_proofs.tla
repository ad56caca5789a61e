----------------------- MODULE CentralizedFifo_proofs -----------------------
(***************************************************************************)
(* The steps of the global agent that read and change the scheduler's      *)
(* books, GlobalSchedule and the message handlers; and the theorems: IInv  *)
(* is inductive and implies every safety property of CentralizedFifo.      *)
(***************************************************************************)
EXTENDS CentralizedFifo_steps

\* A step that changes nothing preserves the invariant.
LEMMA StutterStep ==
    ASSUME IInv, UNCHANGED vars
    PROVE  IInv'
  <1>1. UNCHANGED kvars /\ UNCHANGED svars
    BY DEF vars
  <1>2. ~fault' /\ Roles' /\ Rounds' /\ Places' /\ TypeOK'
    BY <1>1, KernelFrame, SvarsType, SMTT(30) DEF IInv, TypeOK, KTypeOK, kvars
  <1>3. Mail'
    BY <1>1, MailFrame, EventFrame DEF kvars, Mailbox
  <1>4. Mailbox' = Mailbox
    BY <1>1, SMTT(30) DEF kvars, Mailbox
  <1>5. \A c \in Cpus : RunsOn(c)' /\ Booked(c)'
    BY <1>1, <1>4, EventFrame DEF IInv, Switches, RunsOn, Booked, kvars, State, InBound
  <1>6. Switches'
    BY <1>1, <1>5, SMTT(30) DEF IInv, Switches, kvars
  <1> QED  BY <1>2, <1>3, <1>6 DEF IInv

-----------------------------------------------------------------------------
(* GlobalSchedule. *)

\* What a step of GlobalSchedule preserves when it moves no task behind the
\* kernel's back: the kernel does not change, and no task's view does.
LEMMA ScheduleFrame ==
    ASSUME IInv, MidRound, UNCHANGED kvars, UNCHANGED <<known, global_cpu, pc, target>>,
           available' \subseteq available,
           \A t \in Tasks : /\ task'[t].seqnum = task[t].seqnum
                            /\ task'[t].run_state = "kBlocked" <=> State(t) = "kBlocked",
           \A d \in Cpus : kcur[d] # NoTask =>
             \/ current'[d] = kcur[d]
             \/ /\ TimeSlice /\ InBound(kcur[d])
                /\ task'[kcur[d]].run_state \in {"kQueued", "kYielding"},
           \A d \in Cpus : Booked(d)'
    PROVE  /\ MidRound' /\ Roles' /\ Switches' /\ Mail' /\ KTypeOK'
  <1>1. MidRound'
    BY DEF MidRound
  <1>2. Roles'
    BY DEF IInv, Roles, kvars
  <1>3. Mailbox' = Mailbox
    BY DEF Mailbox, kvars
  <1>4. ASSUME NEW d \in Cpus  PROVE RunsOn(d)'
    <2>1. RunsOn(d)
      BY DEF IInv, Switches
    <2> QED  BY <1>1, <1>3, <2>1 DEF RunsOn, kvars, State, InBound
  <1>5. Switches'
    BY <1>4 DEF IInv, Switches, kvars
  <1>6. \A t \in Tasks : View(t, known', State(t)') = View(t, known, State(t))
    BY DEF View, State
  <1>7. \A i \in DOMAIN Mailbox : Letter(i)'
    <2> SUFFICES ASSUME NEW i \in DOMAIN Mailbox  PROVE Letter(i)'
      OBVIOUS
    <2>1. Letter(i)
      BY DEF IInv, Mail
    <2>2. Mailbox[i].task \in Tasks
      BY <2>1 DEF Letter
    <2> QED  BY <1>1, <1>3, <1>6, <2>1, <2>2 DEF Letter, kvars
  <1>8. \A i, j \in DOMAIN Mailbox : Successive(i, j)'
    BY <1>3, SMTT(30) DEF IInv, Mail, Successive
  <1>9. \A t \in Tasks : Settled(t)'
    BY <1>3, <1>6, SMTT(30) DEF IInv, Mail, Settled, kvars
  <1>10. Mail'
    BY <1>3, <1>7, <1>8, <1>9 DEF Mail
  <1>11. KTypeOK'
    BY DEF IInv, TypeOK, KTypeOK, kvars
  <1> QED  BY <1>1, <1>2, <1>5, <1>10, <1>11

\* Only the global agent is in a round, and no faster than its label says.
LEMMA Schedules ==
    ASSUME IInv, NEW c \in Cpus, pc[c] \in {"assign", "commit"}
    PROVE  global_cpu = c /\ MidRound
  BY DEF IInv, Roles, Scheduling, MidRound

\* A task that is not ready skips the round.
LEMMA SkipStep ==
    ASSUME IInv, NEW c \in Cpus, SkipTask(c)
    PROVE  IInv'
  <1> DEFINE next == Head(run_queue)
  <1>0. TypeOK /\ InState("kQueued") \in SUBSET Tasks /\ InState("kYielding") \in SUBSET Tasks
    BY DEF IInv, TypeOK, InState
  <1>1. /\ pc[c] = "assign" /\ run_queue # << >>
        /\ fault' = (State(next) # "kQueued")
        /\ task' = [task EXCEPT ![next].run_state = "kYielding"]
        /\ yielding' = Append(yielding, next)
        /\ run_queue' = Tail(run_queue)
        /\ UNCHANGED <<kvars, known, current, rvars>>
    BY DEF SkipTask, At
  <1>2. MidRound /\ global_cpu = c
    BY <1>1, Schedules
  <1>3. /\ run_queue \in Seq(Tasks) /\ yielding \in Seq(Tasks)
        /\ Lists(run_queue, InState("kQueued")) /\ Lists(yielding, InState("kYielding"))
    BY <1>0, SMTT(30) DEF IInv, Places, TypeOK
  <1>4. /\ next \in InState("kQueued")
        /\ Tail(run_queue) \in Seq(Tasks)
        /\ Lists(Tail(run_queue), InState("kQueued") \ {next})
    BY <1>0, <1>1, <1>3, TailLists, Zenon
  <1>5. next \in Tasks /\ next \in known /\ State(next) = "kQueued"
    BY <1>0, <1>4 DEF InState
  <1>6. /\ yielding' \in Seq(Tasks)
        /\ Lists(yielding', InState("kYielding") \cup {next})
    BY <1>0, <1>1, <1>3, <1>5, PushLists, Zenon DEF Pushed, InState
  <1> HIDE DEF next
  <1>7. /\ task' \in [Tasks -> FifoTask]
        /\ task'[next].run_state = "kYielding" /\ task'[next].seqnum = task[next].seqnum
        /\ \A t \in Tasks : t # next => task'[t] = task[t]
    BY <1>0, <1>1, <1>5, ZenonT(60) DEF TypeOK, FifoTask, RunStates
  <1>8. /\ InState("kQueued")' = InState("kQueued") \ {next}
        /\ InState("kYielding")' = InState("kYielding") \cup {next}
    BY <1>0, <1>1, <1>5, <1>7 DEF InState, State, TypeOK
  <1>9. \A d \in Cpus : current[d] # NoTask => current[d] # next
    BY <1>5 DEF IInv, Places, Placed
  <1>10. Places'
    <2>1. Lists(run_queue', InState("kQueued")') /\ Lists(yielding', InState("kYielding")')
      BY <1>1, <1>4, <1>6, <1>8, Zenon
    <2>2. \A d \in Cpus : Placed(d)'
      <3> SUFFICES ASSUME NEW d \in Cpus, current[d] # NoTask  PROVE Placed(d)'
        BY <1>1 DEF Placed
      <3>1. task'[current[d]] = task[current[d]]
        BY <1>0, <1>7, <1>9 DEF TypeOK
      <3>2. Placed(d)
        BY DEF IInv, Places
      <3> QED  BY <1>1, <3>1, <3>2, Zenon DEF Placed, State, rvars
    <2>3. \A t \in known : task'[t].run_state \in {"kOnCpu", "kRunnable"} =>
            \E d \in Cpus : current[d] = t
      BY <1>0, <1>5, <1>7 DEF IInv, Places, State, TypeOK
    <2>4. \A d, e \in Cpus : current[d] = current[e] /\ current[d] # NoTask => d = e
      BY DEF IInv, Places
    <2> QED  BY <1>1, <2>1, <2>2, <2>3, <2>4 DEF Places, State
  <1>11. ASSUME NEW d \in Cpus  PROVE Booked(d)'
    BY <1>1, Zenon DEF IInv, Switches, Booked, kvars, rvars, Mailbox
  <1>12. \A t \in Tasks : /\ task'[t].seqnum = task[t].seqnum
                          /\ task'[t].run_state = "kBlocked" <=> State(t) = "kBlocked"
    BY <1>5, <1>7 DEF State
  <1>13. ASSUME NEW d \in Cpus, kcur[d] # NoTask
         PROVE  \/ current'[d] = kcur[d]
                \/ /\ TimeSlice /\ InBound(kcur[d])
                   /\ task'[kcur[d]].run_state \in {"kQueued", "kYielding"}
    BY <1>0, <1>1, <1>7, <1>13, SMTT(30) DEF IInv, Switches, RunsOn, State, TypeOK, KTypeOK
  <1>14. MidRound' /\ Roles' /\ Switches' /\ Mail' /\ KTypeOK'
    BY <1>1, <1>2, <1>11, <1>12, <1>13, ScheduleFrame, Zenon DEF rvars
  <1>15. Rounds'
    BY <1>1, <1>14 DEF IInv, Rounds, rvars
  <1>16. TypeOK' /\ ~fault'
    BY <1>0, <1>1, <1>4, <1>5, <1>6, <1>7, <1>14, Zenon DEF TypeOK, rvars
  <1> QED  BY <1>10, <1>14, <1>15, <1>16 DEF IInv

\* The tasks that skipped the round are queued again.
LEMMA RequeueStep ==
    ASSUME IInv, NEW c \in Cpus, Requeue(c)
    PROVE  IInv'
  <1> DEFINE next == Head(yielding)
  <1>0. TypeOK /\ InState("kQueued") \in SUBSET Tasks /\ InState("kYielding") \in SUBSET Tasks
    BY DEF IInv, TypeOK, InState
  <1>1. /\ pc[c] = "commit" /\ yielding # << >>
        /\ fault' = (State(next) # "kYielding")
        /\ task' = [task EXCEPT ![next].run_state = "kQueued"]
        /\ run_queue' = Enqueue(run_queue, next)
        /\ yielding' = Tail(yielding)
        /\ UNCHANGED <<kvars, known, current, rvars>>
    BY DEF Requeue, At
  <1>2. MidRound /\ global_cpu = c
    BY <1>1, Schedules
  <1>3. /\ run_queue \in Seq(Tasks) /\ yielding \in Seq(Tasks)
        /\ Lists(run_queue, InState("kQueued")) /\ Lists(yielding, InState("kYielding"))
    BY <1>0, Zenon DEF IInv, Places, TypeOK
  <1>4. /\ next \in InState("kYielding")
        /\ Tail(yielding) \in Seq(Tasks)
        /\ Lists(Tail(yielding), InState("kYielding") \ {next})
    BY <1>0, <1>1, <1>3, TailLists, Zenon
  <1>5. next \in Tasks /\ next \in known /\ State(next) = "kYielding"
    BY <1>0, <1>4, Zenon DEF InState
  <1>6. /\ run_queue' \in Seq(Tasks)
        /\ Lists(run_queue', InState("kQueued") \cup {next})
    BY <1>0, <1>1, <1>3, <1>5, PushLists, Zenon DEF Enqueue, InState
  <1> HIDE DEF next
  <1>7. /\ task' \in [Tasks -> FifoTask]
        /\ task'[next].run_state = "kQueued" /\ task'[next].seqnum = task[next].seqnum
        /\ \A t \in Tasks : t # next => task'[t] = task[t]
    BY <1>0, <1>1, <1>5, ZenonT(60) DEF TypeOK, FifoTask, RunStates
  <1>8. /\ InState("kQueued")' = InState("kQueued") \cup {next}
        /\ InState("kYielding")' = InState("kYielding") \ {next}
    BY <1>0, <1>1, <1>5, <1>7 DEF InState, State, TypeOK
  <1>9. \A d \in Cpus : current[d] # NoTask => current[d] # next
    BY <1>5 DEF IInv, Places, Placed
  <1>10. Places'
    <2>1. Lists(run_queue', InState("kQueued")') /\ Lists(yielding', InState("kYielding")')
      BY <1>1, <1>4, <1>6, <1>8, Zenon
    <2>2. \A d \in Cpus : Placed(d)'
      <3> SUFFICES ASSUME NEW d \in Cpus, current[d] # NoTask  PROVE Placed(d)'
        BY <1>1 DEF Placed
      <3>1. task'[current[d]] = task[current[d]]
        BY <1>0, <1>7, <1>9 DEF TypeOK
      <3>2. Placed(d)
        BY DEF IInv, Places
      <3> QED  BY <1>1, <3>1, <3>2, Zenon DEF Placed, State, rvars
    <2>3. \A t \in known : task'[t].run_state \in {"kOnCpu", "kRunnable"} =>
            \E d \in Cpus : current[d] = t
      BY <1>0, <1>5, <1>7 DEF IInv, Places, State, TypeOK
    <2>4. \A d, e \in Cpus : current[d] = current[e] /\ current[d] # NoTask => d = e
      BY DEF IInv, Places
    <2> QED  BY <1>1, <2>1, <2>2, <2>3, <2>4 DEF Places, State
  <1>11. ASSUME NEW d \in Cpus  PROVE Booked(d)'
    BY <1>1, Zenon DEF IInv, Switches, Booked, kvars, rvars, Mailbox
  <1>12. \A t \in Tasks : /\ task'[t].seqnum = task[t].seqnum
                          /\ task'[t].run_state = "kBlocked" <=> State(t) = "kBlocked"
    BY <1>5, <1>7 DEF State
  <1>13. ASSUME NEW d \in Cpus, kcur[d] # NoTask
         PROVE  \/ current'[d] = kcur[d]
                \/ /\ TimeSlice /\ InBound(kcur[d])
                   /\ task'[kcur[d]].run_state \in {"kQueued", "kYielding"}
    BY <1>0, <1>1, <1>7, <1>13, SMTT(30) DEF IInv, Switches, RunsOn, State, TypeOK, KTypeOK
  <1>14. MidRound' /\ Roles' /\ Switches' /\ Mail' /\ KTypeOK'
    BY <1>1, <1>2, <1>11, <1>12, <1>13, ScheduleFrame, Zenon DEF rvars
  <1>15. Rounds'
    BY <1>1, <1>14 DEF IInv, Rounds, rvars
  <1>16. TypeOK' /\ ~fault'
    BY <1>0, <1>1, <1>4, <1>5, <1>6, <1>7, <1>14, Zenon DEF TypeOK, rvars
  <1> QED  BY <1>10, <1>14, <1>15, <1>16 DEF IInv

\* TaskOnCpu, after a commit that succeeded.
LEMMA SucceededStep ==
    ASSUME IInv, NEW c \in Cpus, TxnSucceeded(c)
    PROVE  IInv'
  <1>0. TypeOK
    BY Zenon DEF IInv
  <1>1. PICK d \in Cpus :
        /\ pc[c] = "commit" /\ txn[d] = "complete"
        /\ task' = [task EXCEPT ![current[d]] =
                      [@ EXCEPT !.run_state = "kOnCpu", !.cpu = d, !.preempted = FALSE,
                                !.prio_boost = FALSE]]
        /\ txn' = [txn EXCEPT ![d] = "none"]
        /\ UNCHANGED <<kvars, known, run_queue, yielding, current, global_cpu, pc, target,
                       available, fault>>
    BY Zenon DEF TxnSucceeded, Committed, At
  <1> DEFINE t == current[d]
  <1>2. MidRound /\ global_cpu = c
    BY <1>1, Schedules
  <1>3. t # NoTask /\ t \in known /\ State(t) = "kRunnable" /\ t \in Tasks
    <2>1. t # NoTask /\ Placed(d)
      BY <1>1 DEF IInv, Rounds, Places
    <2> QED  BY <1>0, <1>1, <2>1, SMTT(30) DEF Placed, TypeOK
  <1>4. /\ task' \in [Tasks -> FifoTask]
        /\ task'[t].run_state = "kOnCpu" /\ task'[t].cpu = d
        /\ task'[t].seqnum = task[t].seqnum
        /\ \A u \in Tasks : u # t => task'[u] = task[u]
    BY <1>0, <1>1, <1>3, ZenonT(60) DEF TypeOK, FifoTask, RunStates
  <1>5. txn'[d] = "none" /\ \A e \in Cpus : e # d => txn'[e] = txn[e]
    BY <1>0, <1>1 DEF TypeOK
  <1>6. \A e \in Cpus : e # d /\ current[e] # NoTask => current[e] # t
    BY <1>3 DEF IInv, Places
  <1> HIDE DEF t
  <1>7. Places'
    <2>1. InState("kQueued")' = InState("kQueued") /\ InState("kYielding")' = InState("kYielding")
      BY <1>0, <1>1, <1>3, <1>4 DEF InState, State, TypeOK
    <2>2. ASSUME NEW e \in Cpus  PROVE Placed(e)'
      <3>1. CASE e = d
        BY <1>1, <1>3, <1>4, <1>5, <3>1 DEF Placed, State, t
      <3>2. CASE e # d /\ current[e] # NoTask
        <4>1. Placed(e) /\ task'[current[e]] = task[current[e]]
          BY <1>0, <1>4, <1>6, <3>2 DEF IInv, Places, TypeOK
        <4> QED  BY <1>1, <1>5, <3>2, <4>1, Zenon DEF Placed, State
      <3> QED  BY <1>1, <3>1, <3>2 DEF Placed
    <2>3. \A u \in known : task'[u].run_state \in {"kOnCpu", "kRunnable"} =>
            \E e \in Cpus : current[e] = u
      BY <1>0, <1>3, <1>4 DEF IInv, Places, State, TypeOK
    <2> QED  BY <1>1, <2>1, <2>2, <2>3, Zenon DEF IInv, Places, State
  <1>8. ASSUME NEW e \in Cpus  PROVE Booked(e)'
    <2>1. Booked(e)
      BY DEF IInv, Switches
    <2> QED  BY <1>1, <1>5, <2>1, Zenon DEF Booked, kvars, Mailbox
  <1>9. \A u \in Tasks : /\ task'[u].seqnum = task[u].seqnum
                         /\ task'[u].run_state = "kBlocked" <=> State(u) = "kBlocked"
    BY <1>3, <1>4 DEF State
  <1>10. ASSUME NEW e \in Cpus, kcur[e] # NoTask
         PROVE  \/ current'[e] = kcur[e]
                \/ /\ TimeSlice /\ InBound(kcur[e])
                   /\ task'[kcur[e]].run_state \in {"kQueued", "kYielding"}
    BY <1>0, <1>1, <1>3, <1>4, <1>10, ZenonT(60) DEF IInv, Switches, RunsOn, State, TypeOK, KTypeOK
  <1>11. MidRound' /\ Roles' /\ Switches' /\ Mail' /\ KTypeOK'
    BY <1>1, <1>2, <1>8, <1>9, <1>10, ScheduleFrame
  <1>12. Rounds'
    BY <1>0, <1>1, <1>5, <1>11, Zenon DEF IInv, Rounds, TypeOK
  <1>13. TypeOK' /\ ~fault'
    BY <1>0, <1>1, <1>4, <1>11 DEF IInv, TypeOK
  <1> QED  BY <1>7, <1>11, <1>12, <1>13, Zenon DEF IInv

\* A task whose commit failed goes back to the run queue.
LEMMA FailedStep ==
    ASSUME IInv, NEW c \in Cpus, TxnFailed(c)
    PROVE  IInv'
  <1>0. TypeOK /\ InState("kQueued") \in SUBSET Tasks
    BY Zenon DEF IInv, TypeOK, InState
  <1>1. PICK d \in Cpus :
        /\ pc[c] = "commit" /\ txn[d] = "failed"
        /\ fault' = (State(current[d]) # "kRunnable")
        /\ task' = [task EXCEPT ![current[d]] =
                      [@ EXCEPT !.run_state = "kQueued", !.prio_boost = TRUE]]
        /\ run_queue' = Pushed(run_queue, current[d], TRUE)
        /\ current' = [current EXCEPT ![d] = NoTask]
        /\ txn' = [txn EXCEPT ![d] = "none"]
        /\ UNCHANGED <<kvars, known, yielding, global_cpu, pc, target, available>>
    BY Zenon DEF TxnFailed, Committed, At
  <1> DEFINE t == current[d]
  <1>2. MidRound /\ global_cpu = c
    BY <1>1, Schedules
  <1>3. t # NoTask /\ t \in known /\ State(t) = "kRunnable" /\ t \in Tasks
    <2>1. t # NoTask /\ Placed(d)
      BY <1>1, SMTT(30) DEF IInv, Rounds, Places
    <2> QED  BY <1>0, <1>1, <2>1 DEF Placed, TypeOK
  <1>4. /\ task' \in [Tasks -> FifoTask]
        /\ task'[t].run_state = "kQueued" /\ task'[t].seqnum = task[t].seqnum
        /\ \A u \in Tasks : u # t => task'[u] = task[u]
    BY <1>0, <1>1, <1>3, ZenonT(60) DEF TypeOK, FifoTask, RunStates
  <1>5. /\ txn'[d] = "none" /\ current'[d] = NoTask
        /\ \A e \in Cpus : e # d => txn'[e] = txn[e] /\ current'[e] = current[e]
    BY <1>0, <1>1 DEF TypeOK
  <1>6. \A e \in Cpus : e # d /\ current[e] # NoTask => current[e] # t
    BY <1>3 DEF IInv, Places
  <1>7. \A e \in Cpus : kcur[e] # t
    BY <1>1, <1>3, Zenon DEF IInv, Switches, Booked
  <1>8. /\ run_queue' \in Seq(Tasks)
        /\ Lists(run_queue', InState("kQueued") \cup {t})
    <2>1. run_queue \in Seq(Tasks) /\ Lists(run_queue, InState("kQueued"))
      BY <1>0 DEF IInv, Places, TypeOK
    <2>2. t \in Tasks \ InState("kQueued")
      BY <1>3 DEF InState
    <2> QED  BY <1>0, <1>1, <2>1, <2>2, PushLists, Zenon
  <1> HIDE DEF t
  <1>9. Places'
    <2>1. InState("kQueued")' = InState("kQueued") \cup {t}
      BY <1>0, <1>1, <1>3, <1>4 DEF InState, State, TypeOK
    <2>2. InState("kYielding")' = InState("kYielding")
      BY <1>0, <1>1, <1>3, <1>4 DEF InState, State, TypeOK
    <2>3. ASSUME NEW e \in Cpus  PROVE Placed(e)'
      <3>1. CASE e = d
        BY <1>5, <3>1, Zenon DEF Placed
      <3>2. CASE e # d /\ current[e] # NoTask
        <4>1. Placed(e) /\ task'[current[e]] = task[current[e]]
          BY <1>0, <1>4, <1>6, <3>2, SMTT(30) DEF IInv, Places, TypeOK
        <4>2. current'[e] = current[e] /\ txn'[e] = txn[e] /\ known' = known
          BY <1>1, <1>5, <3>2, Zenon
        <4> QED  BY <3>2, <4>1, <4>2 DEF Placed, State
      <3> QED  BY <1>5, <3>1, <3>2 DEF Placed
    <2>4. ASSUME NEW u \in known, task'[u].run_state \in {"kOnCpu", "kRunnable"}
          PROVE  \E e \in Cpus : current'[e] = u
      <3>1. u # t /\ State(u) \in {"kOnCpu", "kRunnable"}
        BY <1>0, <1>4, <2>4 DEF State, TypeOK
      <3>2. PICK e \in Cpus : current[e] = u
        BY <3>1 DEF IInv, Places
      <3> QED  BY <1>5, <3>1, <3>2, Zenon DEF t
    <2>5. \A e, f \in Cpus : current'[e] = current'[f] /\ current'[e] # NoTask => e = f
      BY <1>5, SMTT(30) DEF IInv, Places
    <2> QED  BY <1>1, <1>8, <2>1, <2>2, <2>3, <2>4, <2>5, Zenon DEF IInv, Places, State
  <1>10. ASSUME NEW e \in Cpus  PROVE Booked(e)'
    <2>1. Booked(e)
      BY DEF IInv, Switches
    <2> QED  BY <1>1, <1>5, <2>1, Zenon DEF Booked, kvars, Mailbox
  <1>11. \A u \in Tasks : /\ task'[u].seqnum = task[u].seqnum
                          /\ task'[u].run_state = "kBlocked" <=> State(u) = "kBlocked"
    BY <1>3, <1>4, Zenon DEF State
  <1>12. ASSUME NEW e \in Cpus, kcur[e] # NoTask
         PROVE  \/ current'[e] = kcur[e]
                \/ /\ TimeSlice /\ InBound(kcur[e])
                   /\ task'[kcur[e]].run_state \in {"kQueued", "kYielding"}
    <2>1. kcur[e] \in Tasks /\ RunsOn(e) /\ task'[kcur[e]] = task[kcur[e]]
      BY <1>0, <1>4, <1>7, <1>12, SMTT(30) DEF IInv, Switches, TypeOK, KTypeOK
    <2>2. current[e] = kcur[e] => current'[e] = kcur[e]
      BY <1>5, <1>7 DEF t
    <2> QED  BY <1>12, <2>1, <2>2 DEF RunsOn, State
  <1>13. MidRound' /\ Roles' /\ Switches' /\ Mail' /\ KTypeOK'
    BY <1>1, <1>2, <1>10, <1>11, <1>12, ScheduleFrame, Zenon
  <1>14. Rounds'
    BY <1>0, <1>1, <1>5, <1>13 DEF IInv, Rounds, TypeOK
  <1>15. TypeOK' /\ ~fault'
    BY <1>0, <1>1, <1>3, <1>4, <1>8, <1>13, Zenon DEF IInv, TypeOK, t
  <1> QED  BY <1>9, <1>13, <1>14, <1>15, Zenon DEF IInv

-----------------------------------------------------------------------------
(* The message handlers. *)

\* When a handler runs no round is under way, and the message it handles is one
\* the scheduler can expect of the task.
LEMMA DispatchFacts ==
    ASSUME IInv, NEW c \in Cpus, NEW type, Dispatching(c, type)
    PROVE  /\ pc[c] = "drain" /\ global_cpu = c /\ ~MidRound
           /\ available = {} /\ \A d \in Cpus : txn[d] = "none"
           /\ Mailbox # << >> /\ Mailbox \in Seq(Messages)
           /\ Peek = Head(Mailbox) /\ Peek \in Messages /\ Peek.type = type
           /\ Peek.task \in Tasks
           /\ Fits(View(Peek.task, known, State(Peek.task)), Peek)
           /\ type \in Leaving => State(Peek.task) \in {"kOnCpu", "kQueued"}
           /\ Peek.task \in known => Peek.seqnum > task[Peek.task].seqnum
  <1>1. /\ pc[c] = "drain" /\ Mailbox # << >> /\ Peek = Head(Mailbox) /\ Peek.type = type
    BY DEF Dispatching, At, Mailbox, Peek
  <1>2. global_cpu = c /\ ~MidRound
    BY <1>1, Zenon DEF IInv, Roles, Scheduling, MidRound
  <1>3. available = {} /\ \A d \in Cpus : txn[d] = "none"
    BY <1>2, Idle
  <1>4. Mailbox \in Seq(Messages)
    BY MailTyped
  <1>5. Peek = Mailbox[1] /\ 1 \in DOMAIN Mailbox
    BY <1>1, <1>4, TailFacts
  <1>6. Letter(1) /\ Mailbox[1] \in Messages
    BY <1>5, MailTyped DEF IInv, Mail
  <1>7. FirstIn(Mailbox, 1)
    BY SMTT(30) DEF FirstIn
  <1> QED  BY <1>1, <1>2, <1>3, <1>4, <1>5, <1>6, <1>7 DEF Letter

\* Messages about other tasks stay unread.
LEMMA AboutTail ==
    ASSUME NEW q \in Seq(Messages), q # << >>
    PROVE  /\ \A u : About(Tail(q), u) => About(q, u)
           /\ \A u : About(q, u) /\ u # Head(q).task => About(Tail(q), u)
  <1>1. /\ Len(q) \in Nat \ {0}
        /\ DOMAIN q = 1 .. Len(q) /\ DOMAIN Tail(q) = 1 .. Len(q) - 1
        /\ \A i \in 1 .. Len(q) - 1 : Tail(q)[i] = q[i + 1]
        /\ \A i \in 2 .. Len(q) : q[i] = Tail(q)[i - 1]
        /\ Head(q) = q[1]
    BY TailFacts
  <1>2. ASSUME NEW u, About(Tail(q), u)  PROVE About(q, u)
    <2>1. PICK i \in 1 .. Len(q) - 1 : Tail(q)[i].task = u
      BY ONLY <1>1, <1>2 DEF About
    <2>2. i + 1 \in DOMAIN q /\ q[i + 1].task = u
      BY ONLY <1>1, <2>1, SMTT(30)
    <2> QED  BY <2>2, Zenon DEF About
  <1>3. ASSUME NEW u, About(q, u), u # Head(q).task  PROVE About(Tail(q), u)
    <2>1. PICK i \in 1 .. Len(q) : q[i].task = u
      BY ONLY <1>1, <1>3 DEF About
    <2>2. i \in 2 .. Len(q)
      BY ONLY <1>1, <1>3, <2>1
    <2>3. i - 1 \in DOMAIN Tail(q) /\ Tail(q)[i - 1].task = u
      BY ONLY <1>1, <2>1, <2>2
    <2> QED  BY <2>3, Zenon DEF About
  <1> QED  BY <1>2, <1>3, Zenon

\* What every handler does: the task t of message m ends up where its new run_state
\* says, off its cpu, and the scheduler knows of it what the message says.
Handled(t, m) ==
    /\ Consume /\ UNCHANGED <<kquiet, stale, rvars>>
    /\ ~fault' /\ fault' \in BOOLEAN
    /\ known' \in SUBSET Tasks /\ task' \in [Tasks -> FifoTask]
    /\ run_queue' \in Seq(Tasks) /\ yielding' \in Seq(Tasks)
    /\ current' \in [Cpus -> Tasks \cup {NoTask}]
    /\ \A d \in Cpus : current'[d] = IF current[d] = t THEN NoTask ELSE current[d]
    /\ \A u \in Tasks : u # t => (u \in known' <=> u \in known) /\ task'[u] = task[u]
    /\ View(t, known', task'[t].run_state) = After(m)
    /\ t \in known' => task'[t].seqnum = m.seqnum
    /\ t \in known' => task'[t].run_state \in {"kBlocked", "kQueued", "kYielding"}
    /\ Lists(run_queue', InState("kQueued")') /\ Lists(yielding', InState("kYielding")')

\* A handler that does that preserves the invariant.
LEMMA HandlerStep ==
    ASSUME IInv, NEW c \in Cpus, NEW type, Dispatching(c, type), Handled(Peek.task, Peek)
    PROVE  IInv'
  <1> DEFINE t == Peek.task
             m == Peek
  <1>a. Handled(t, m) /\ t = Peek.task /\ m = Peek
    BY Zenon
  <1> HIDE DEF t, m
  <1>b. /\ Consume /\ UNCHANGED <<kquiet, stale, rvars>>
        /\ ~fault' /\ fault' \in BOOLEAN
        /\ known' \in SUBSET Tasks /\ task' \in [Tasks -> FifoTask]
        /\ run_queue' \in Seq(Tasks) /\ yielding' \in Seq(Tasks)
        /\ current' \in [Cpus -> Tasks \cup {NoTask}]
        /\ \A d \in Cpus : current'[d] = IF current[d] = t THEN NoTask ELSE current[d]
        /\ \A u \in Tasks : u # t => (u \in known' <=> u \in known) /\ task'[u] = task[u]
        /\ View(t, known', task'[t].run_state) = After(m)
        /\ t \in known' => task'[t].seqnum = m.seqnum
        /\ t \in known' => task'[t].run_state \in {"kBlocked", "kQueued", "kYielding"}
        /\ Lists(run_queue', InState("kQueued")') /\ Lists(yielding', InState("kYielding")')
    BY <1>a, Zenon DEF Handled
  <1> USE <1>b
  <1>0. TypeOK /\ KTypeOK
    BY Zenon DEF IInv, TypeOK
  <1>1. /\ pc[c] = "drain" /\ global_cpu = c /\ ~MidRound
        /\ available = {} /\ \A d \in Cpus : txn[d] = "none"
        /\ Mailbox # << >> /\ Mailbox \in Seq(Messages)
        /\ t \in Tasks /\ m = Head(Mailbox) /\ m.task = t
    BY <1>a, DispatchFacts, Zenon
  <1>2. ~MidRound' /\ Roles' /\ Rounds'
    BY <1>1, Zenon DEF MidRound, IInv, Roles, Rounds, rvars, kquiet
  <1>3. Mailbox' = Tail(Mailbox)
    BY <1>0, Constants, Zenon DEF Consume, Mailbox, KTypeOK
  <1>4. KTypeOK'
    <2>1. Tail(Mailbox) \in Seq(Messages)
      BY <1>1, TailFacts, Zenon
    <2>2. channel' \in [Channels -> Seq(Messages)]
      BY <1>0, <2>1, Constants, Zenon DEF Consume, Mailbox, KTypeOK
    <2> QED  BY <1>0, <2>2, Zenon DEF KTypeOK, kquiet
  <1>5. TypeOK'
    BY <1>0, <1>4, Zenon DEF TypeOK, rvars
  <1>6. Mail'
    BY <1>0, <1>1, <1>2, <1>3, TakeMail, Zenon DEF IInv, kquiet
  <1>7. /\ \A u : About(Mailbox', u) => About(Mailbox, u)
        /\ \A u : About(Mailbox, u) /\ u # t => About(Mailbox', u)
        /\ About(Mailbox, t)
    <2>1. About(Mailbox, t)
      <3>1. Len(Mailbox) \in Nat \ {0} /\ DOMAIN Mailbox = 1 .. Len(Mailbox)
        BY <1>1, TailFacts, Zenon
      <3>2. 1 \in DOMAIN Mailbox
        BY ONLY <3>1
      <3>3. Mailbox[1].task = t
        BY <1>1, TailFacts, Zenon
      <3> QED  BY ONLY <3>2, <3>3, Zenon DEF About
    <2> QED  BY <1>1, <1>3, <2>1, AboutTail, Zenon
  <1>8. ASSUME NEW d \in Cpus  PROVE RunsOn(d)'
    <2> SUFFICES ASSUME kcur[d] # NoTask  PROVE RunsOn(d)'
      BY Zenon DEF RunsOn, kquiet
    <2>0. kcur[d] \in Tasks
      BY ONLY <1>0, d \in Cpus, kcur[d] # NoTask, Zenon DEF KTypeOK
    <2>1. RunsOn(d) /\ kcur[d] \in Tasks
      BY <2>0, Zenon DEF IInv, Switches
    <2>2. kcur[d] # t
      BY <1>7, <2>1, Zenon DEF RunsOn
    <2>3. /\ kcur[d] \in known' <=> kcur[d] \in known
          /\ task'[kcur[d]] = task[kcur[d]]
          /\ current[d] = kcur[d] => current'[d] = kcur[d]
      BY <2>1, <2>2, Zenon
    <2>4. available' = available /\ available = {}
      BY <1>1, Zenon DEF rvars
    <2> QED  BY <1>1, <1>7, <2>1, <2>3, <2>4, Zenon DEF RunsOn, kquiet, State, InBound
  <1>9. ASSUME NEW d \in Cpus  PROVE Booked(d)'
    <2>1. Booked(d) /\ txn'[d] = "none" /\ txn[d] = "none"
      BY <1>1, Zenon DEF IInv, Switches, rvars
    <2> QED  BY <1>7, <2>1, Zenon DEF Booked, kquiet
  <1>10. Switches'
    BY <1>8, <1>9, Zenon DEF IInv, Switches, kquiet
  <1>11. ASSUME NEW d \in Cpus  PROVE Placed(d)'
    <2> SUFFICES ASSUME current'[d] # NoTask  PROVE Placed(d)'
      BY Zenon DEF Placed
    <2>0. current[d] \in Tasks \cup {NoTask}
      BY ONLY <1>0, d \in Cpus, Zenon DEF TypeOK
    <2>1. current'[d] = current[d] /\ current[d] # t /\ Placed(d) /\ current[d] \in Tasks
      BY <2>0, Zenon DEF IInv, Places
    <2>2. txn'[d] = "none" /\ txn[d] = "none"
      BY <1>1, Zenon DEF rvars
    <2> QED  BY <2>1, <2>2, Zenon DEF Placed, State
  <1>12. ASSUME NEW u \in known', task'[u].run_state \in {"kOnCpu", "kRunnable"}
         PROVE  \E d \in Cpus : current'[d] = u
    <2>1. u # t /\ u \in Tasks /\ u \in known /\ State(u) \in {"kOnCpu", "kRunnable"}
      BY <1>12, Zenon DEF State
    <2>2. PICK d \in Cpus : current[d] = u
      BY <2>1, ZenonT(60) DEF IInv, Places
    <2> QED  BY <2>1, <2>2, Zenon
  <1>13. \A d, e \in Cpus : current'[d] = current'[e] /\ current'[d] # NoTask => d = e
    BY SMTT(30) DEF IInv, Places
  <1>14. Places'
    BY <1>11, <1>12, <1>13, Zenon DEF Places, State
  <1> QED  BY <1>2, <1>5, <1>6, <1>10, <1>14, Zenon DEF IInv

\* Between two rounds, where a known task is.
LEMMA OffCpuFacts ==
    ASSUME IInv, ~MidRound, NEW t \in known
    PROVE  /\ OffCpu(t) = [d \in Cpus |-> IF current[d] = t THEN NoTask ELSE current[d]]
           /\ State(t) = "kOnCpu" => OnItsCpu(t)
           /\ State(t) \in {"kBlocked", "kQueued", "kOnCpu", "kYielding"}
           /\ State(t) # "kOnCpu" => \A d \in Cpus : current[d] # t
  <1>0. t \in Tasks /\ t # NoTask
    BY Constants, Zenon DEF IInv, TypeOK
  <1>1. \A d \in Cpus : current[d] = t => State(t) = "kOnCpu" /\ task[t].cpu = d
    BY <1>0, Idle DEF IInv, Places, Placed
  <1>2. State(t) \in {"kOnCpu", "kRunnable"} => \E d \in Cpus : current[d] = t
    BY DEF IInv, Places
  <1>3. State(t) \in RunStates
    BY <1>0, Zenon DEF State, IInv, TypeOK, FifoTask
  <1>4. State(t) \in {"kBlocked", "kQueued", "kOnCpu", "kYielding"}
    BY <1>1, <1>2, <1>3, SMTT(30) DEF RunStates
  <1>5. State(t) = "kOnCpu" => OnItsCpu(t)
    BY <1>1, <1>2, Constants DEF OnItsCpu
  <1>6. \A d \in Cpus : (State(t) = "kOnCpu" /\ d = task[t].cpu) <=> current[d] = t
    BY <1>1, <1>2, Zenon
  <1>7. OffCpu(t) = [d \in Cpus |-> IF current[d] = t THEN NoTask ELSE current[d]]
    BY <1>6 DEF OffCpu
  <1> QED  BY <1>1, <1>4, <1>5, <1>7
\* The queues before a handler.
LEMMA Queues ==
    ASSUME IInv
    PROVE  /\ InState("kQueued") \in SUBSET Tasks /\ InState("kYielding") \in SUBSET Tasks
           /\ run_queue \in Seq(Tasks) /\ yielding \in Seq(Tasks)
           /\ Lists(run_queue, InState("kQueued")) /\ Lists(yielding, InState("kYielding"))
           /\ known \in SUBSET Tasks /\ task \in [Tasks -> FifoTask]
           /\ current \in [Cpus -> Tasks \cup {NoTask}]
  BY Zenon DEF IInv, Places, TypeOK, InState

\* A task is taken out of a queue, whether or not it is there.
LEMMA RemoveAny ==
    ASSUME NEW S \in SUBSET Tasks, NEW q \in Seq(Tasks), Lists(q, S), NEW t \in Tasks
    PROVE  /\ RemoveFromRunqueue(q, t) \in Seq(Tasks) /\ Unyield(q, t) \in Seq(Tasks)
           /\ Lists(RemoveFromRunqueue(q, t), S \ {t}) /\ Lists(Unyield(q, t), S \ {t})
           /\ t \in S => Contains(q, t)
  <1>1. CASE t \in S
    BY <1>1, RemoveLists, Zenon
  <1>2. CASE t \notin S
    <2>1. S \ {t} = S
      BY <1>2
    <2> QED  BY <1>2, <2>1, AbsentLists, Zenon
  <1> QED  BY <1>1, <1>2, Zenon

\* TaskNew.
LEMMA NewStep ==
    ASSUME IInv, NEW c \in Cpus, TaskNew(c)
    PROVE  IInv'
  <1> DEFINE t == Peek.task
  <1>1. /\ Dispatching(c, "NEW") /\ Consume
        /\ known' = known \cup {t}
        /\ task' = [task EXCEPT ![t] =
                      [NewTask EXCEPT !.seqnum = Peek.seqnum,
                         !.run_state = IF Peek.flag THEN "kQueued" ELSE "kBlocked"]]
        /\ run_queue' = IF Peek.flag THEN Pushed(run_queue, t, FALSE) ELSE run_queue
        /\ UNCHANGED <<kquiet, stale, yielding, current, rvars, fault>>
    BY DEF TaskNew
  <1>2. /\ ~MidRound /\ Peek \in Messages /\ Peek.type = "NEW" /\ t \in Tasks /\ t \notin known
    BY <1>1, DispatchFacts DEF Dispatching
  <1>3. Peek.seqnum \in Seqnums /\ Peek.flag \in BOOLEAN
    BY <1>2, SMTT(30) DEF Messages
  <1> HIDE DEF t
  <1>4. /\ task' \in [Tasks -> FifoTask]
        /\ task'[t].run_state = (IF Peek.flag THEN "kQueued" ELSE "kBlocked")
        /\ task'[t].seqnum = Peek.seqnum
        /\ \A u \in Tasks : u # t => task'[u] = task[u]
    BY <1>1, <1>2, <1>3, Queues, Zenon DEF NewTask, FifoTask, RunStates
  <1>5. /\ known' \in SUBSET Tasks /\ t \in known'
        /\ \A u \in Tasks : u # t => (u \in known' <=> u \in known)
    BY <1>1, <1>2, Queues, Zenon
  <1>6. \A d \in Cpus : current[d] # t
    BY <1>2, Constants DEF IInv, Places, Placed
  <1>7. View(t, known', task'[t].run_state) = After(Peek)
    BY <1>2, <1>3, <1>4, <1>5, SMTT(30) DEF View, After
  <1>8. InState("kQueued")' = IF Peek.flag THEN InState("kQueued") \cup {t} ELSE InState("kQueued")
    BY <1>1, <1>2, <1>4, <1>5 DEF InState, State
  <1>9. InState("kYielding")' = InState("kYielding")
    BY <1>1, <1>2, <1>4, <1>5, SMTT(30) DEF InState, State
  <1>10. run_queue' \in Seq(Tasks) /\ Lists(run_queue', InState("kQueued")')
    <2>1. t \in Tasks \ InState("kQueued")
      BY <1>2, Zenon DEF InState
    <2>2. CASE Peek.flag
      <3>1. /\ Pushed(run_queue, t, FALSE) \in Seq(Tasks)
            /\ Lists(Pushed(run_queue, t, FALSE), InState("kQueued") \cup {t})
        BY <2>1, Queues, PushLists, Zenon
      <3>2. /\ run_queue' = Pushed(run_queue, t, FALSE)
            /\ InState("kQueued")' = InState("kQueued") \cup {t}
        BY <1>1, <1>8, <2>2 DEF t
      <3> QED  BY <3>1, <3>2, Zenon
    <2>3. CASE ~Peek.flag
      BY <1>1, <1>8, <2>3, Queues, Zenon
    <2> QED  BY <2>2, <2>3
  <1>11. yielding' \in Seq(Tasks) /\ Lists(yielding', InState("kYielding")')
    BY <1>1, <1>9, Queues
  <1>12. /\ current' \in [Cpus -> Tasks \cup {NoTask}]
         /\ \A d \in Cpus : current'[d] = IF current[d] = t THEN NoTask ELSE current[d]
    BY <1>1, <1>6, Queues
  <1>13. ~fault' /\ fault' \in BOOLEAN
    BY <1>1 DEF IInv, TypeOK
  <1>14. Handled(t, Peek)
    BY <1>1, <1>4, <1>5, <1>7, <1>10, <1>11, <1>12, <1>13, ZenonT(60) DEF Handled
  <1> QED  BY <1>1, <1>14, HandlerStep DEF t

\* TaskRunnable: the task was blocked and had not read this seqnum.
LEMMA RunnableStep ==
    ASSUME IInv, NEW c \in Cpus, TaskRunnable(c)
    PROVE  IInv'
  <1> DEFINE t == Peek.task
  <1>1. /\ Dispatching(c, "WAKEUP") /\ Consume
        /\ fault' = ~(State(t) = "kBlocked" /\ AdvanceOK(t, Peek.seqnum))
        /\ task' = [task EXCEPT ![t].run_state = "kQueued",
                                ![t].prio_boost = ~Peek.flag,
                                ![t].seqnum = Peek.seqnum]
        /\ run_queue' = Pushed(run_queue, t, ~Peek.flag \/ task[t].preempted)
        /\ UNCHANGED <<kquiet, stale, known, yielding, current, rvars>>
    BY DEF TaskRunnable
  <1>2. /\ ~MidRound /\ Peek \in Messages /\ Peek.type = "WAKEUP" /\ t \in Tasks
        /\ Fits(View(t, known, State(t)), Peek)
        /\ t \in known => Peek.seqnum > task[t].seqnum
    BY <1>1, DispatchFacts
  <1>3. t \in known /\ State(t) = "kBlocked"
    <2>1. View(t, known, State(t)) = "blocked"
      BY <1>2, SMTT(30) DEF Fits, Leaving
    <2> QED  BY <2>1, SMTT(30) DEF View
  <1>4. Peek.seqnum \in Seqnums /\ Peek.flag \in BOOLEAN
    BY <1>2, Zenon DEF Messages
  <1> HIDE DEF t
  <1>5. /\ task' \in [Tasks -> FifoTask]
        /\ task'[t].run_state = "kQueued"
        /\ task'[t].seqnum = Peek.seqnum
        /\ \A u \in Tasks : u # t => task'[u] = task[u]
    <2> DEFINE boost == ~Peek.flag
    <2>0. boost \in BOOLEAN
      OBVIOUS
    <2>1. task'[t] = [task[t] EXCEPT !.run_state = "kQueued", !.prio_boost = boost,
                                     !.seqnum = Peek.seqnum]
      BY <1>1, <1>2, Queues, Zenon
    <2> HIDE DEF boost
    <2>2. /\ task'[t] \in FifoTask /\ task'[t].run_state = "kQueued"
          /\ task'[t].seqnum = Peek.seqnum
      <3>1. task[t] \in FifoTask /\ "kQueued" \in RunStates
        BY <1>2, Queues DEF RunStates
      <3> QED  BY ONLY <1>4, <2>0, <2>1, <3>1, ZenonT(60) DEF FifoTask
    <2>3. /\ \A u \in Tasks : u # t => task'[u] = task[u]
          /\ task' \in [Tasks -> FifoTask]
      BY <1>1, <2>2, Queues, ZenonT(60)
    <2> QED  BY <2>2, <2>3
  <1>6. \A d \in Cpus : current[d] # t
    BY <1>2, <1>3, OffCpuFacts
  <1>7. View(t, known', task'[t].run_state) = After(Peek)
    BY <1>1, <1>2, <1>3, <1>5 DEF View, After
  <1>8. InState("kQueued")' = InState("kQueued") \cup {t}
    BY <1>1, <1>2, <1>3, <1>5, Queues DEF InState, State
  <1>9. InState("kYielding")' = InState("kYielding")
    BY <1>1, <1>2, <1>3, <1>5, Queues, Zenon DEF InState, State
  <1>10. run_queue' \in Seq(Tasks) /\ Lists(run_queue', InState("kQueued")')
    <2>1. t \in Tasks \ InState("kQueued")
      BY <1>2, <1>3, Zenon DEF InState
    <2> QED  BY <1>1, <1>8, <2>1, Queues, PushLists, SMTT(30)
  <1>11. yielding' \in Seq(Tasks) /\ Lists(yielding', InState("kYielding")')
    BY <1>1, <1>9, Queues
  <1>12. /\ current' \in [Cpus -> Tasks \cup {NoTask}]
         /\ \A d \in Cpus : current'[d] = IF current[d] = t THEN NoTask ELSE current[d]
    BY <1>1, <1>6, Queues
  <1>13. ~fault' /\ fault' \in BOOLEAN
    BY <1>1, <1>2, <1>3, Zenon DEF AdvanceOK
  <1>14. known' \in SUBSET Tasks
    BY <1>1, Queues, Zenon
  <1>15. Handled(t, Peek)
    BY <1>1, <1>5, <1>7, <1>10, <1>11, <1>12, <1>13, <1>14, ZenonT(60) DEF Handled
  <1> QED  BY <1>1, <1>15, HandlerStep DEF t

\* TaskDeparted finds the task wherever its run_state says, and frees it.
LEMMA DepartedStep ==
    ASSUME IInv, NEW c \in Cpus, TaskDeparted(c)
    PROVE  IInv'
  <1> DEFINE t == Peek.task
  <1>1. /\ Dispatching(c, "DEPARTED") /\ Consume
        /\ fault' = ~(CASE State(t) = "kYielding" -> Contains(yielding, t)
                        [] State(t) = "kOnCpu"    -> OnItsCpu(t)
                        [] State(t) = "kQueued"   -> Contains(run_queue, t)
                        [] OTHER                  -> State(t) = "kBlocked")
        /\ yielding' = Unyield(yielding, t)
        /\ current' = OffCpu(t)
        /\ run_queue' = RemoveFromRunqueue(run_queue, t)
        /\ known' = known \ {t} /\ task' = [task EXCEPT ![t] = NewTask]
        /\ UNCHANGED <<kquiet, stale, rvars>>
    BY DEF TaskDeparted, Free
  <1>2. /\ ~MidRound /\ Peek.type = "DEPARTED" /\ t \in Tasks /\ t \in known
    BY <1>1, DispatchFacts DEF Dispatching
  <1> HIDE DEF t
  <1>3. task' \in [Tasks -> FifoTask] /\ \A u \in Tasks : u # t => task'[u] = task[u]
    BY <1>1, <1>2, Queues, Constants, SMTT(30) DEF NewTask, FifoTask, RunStates, Seqnums
  <1>4. /\ known' \in SUBSET Tasks /\ t \notin known'
        /\ \A u \in Tasks : u # t => (u \in known' <=> u \in known)
    BY <1>1, Queues
  <1>5. /\ InState("kQueued")' = InState("kQueued") \ {t}
        /\ InState("kYielding")' = InState("kYielding") \ {t}
    BY <1>1, <1>3, <1>4, Queues DEF InState, State
  <1>6. /\ run_queue' \in Seq(Tasks) /\ Lists(run_queue', InState("kQueued") \ {t})
        /\ yielding' \in Seq(Tasks) /\ Lists(yielding', InState("kYielding") \ {t})
        /\ State(t) = "kQueued" => Contains(run_queue, t)
        /\ State(t) = "kYielding" => Contains(yielding, t)
    BY <1>1, <1>2, Queues, RemoveAny, Zenon DEF InState
  <1>7. /\ current' = [d \in Cpus |-> IF current[d] = t THEN NoTask ELSE current[d]]
        /\ State(t) = "kOnCpu" => OnItsCpu(t)
        /\ State(t) \in {"kBlocked", "kQueued", "kOnCpu", "kYielding"}
    BY <1>1, <1>2, OffCpuFacts
  <1>8. ~fault' /\ fault' \in BOOLEAN
    BY <1>1, <1>6, <1>7, Zenon
  <1>9. View(t, known', task'[t].run_state) = After(Peek)
    BY <1>2, <1>4, Zenon DEF View, After
  <1>10. current' \in [Cpus -> Tasks \cup {NoTask}]
    BY <1>7, Queues
  <1>11. Handled(t, Peek)
    BY <1>1, <1>3, <1>4, <1>5, <1>6, <1>7, <1>8, <1>9, <1>10, ZenonT(60) DEF Handled
  <1> QED  BY <1>1, <1>11, HandlerStep DEF t

\* TaskDead: the task was blocked.
LEMMA DeadStep ==
    ASSUME IInv, NEW c \in Cpus, TaskDead(c)
    PROVE  IInv'
  <1> DEFINE t == Peek.task
  <1>1. /\ Dispatching(c, "DEAD") /\ Consume
        /\ fault' = (State(t) # "kBlocked")
        /\ known' = known \ {t} /\ task' = [task EXCEPT ![t] = NewTask]
        /\ UNCHANGED <<kquiet, stale, run_queue, yielding, current, rvars>>
    BY Zenon DEF TaskDead, Free
  <1>2. /\ ~MidRound /\ Peek.type = "DEAD" /\ t \in Tasks
        /\ Fits(View(t, known, State(t)), Peek)
    BY <1>1, DispatchFacts
  <1>3. t \in known /\ State(t) = "kBlocked"
    <2>1. View(t, known, State(t)) = "blocked"
      BY <1>2, SMTT(30) DEF Fits, Leaving
    <2> QED  BY <2>1, SMTT(30) DEF View
  <1> HIDE DEF t
  <1>4. task' \in [Tasks -> FifoTask] /\ \A u \in Tasks : u # t => task'[u] = task[u]
    BY <1>1, <1>2, Queues, Constants DEF NewTask, FifoTask, RunStates, Seqnums
  <1>5. /\ known' \in SUBSET Tasks /\ t \notin known'
        /\ \A u \in Tasks : u # t => (u \in known' <=> u \in known)
    BY <1>1, Queues, SMTT(30)
  <1>6. /\ InState("kQueued")' = InState("kQueued")
        /\ InState("kYielding")' = InState("kYielding")
    BY <1>1, <1>3, <1>4, <1>5, Queues DEF InState, State
  <1>7. \A d \in Cpus : current[d] # t
    BY <1>2, <1>3, OffCpuFacts, Zenon
  <1>8. ~fault' /\ fault' \in BOOLEAN
    BY <1>1, <1>3, Zenon
  <1>9. View(t, known', task'[t].run_state) = After(Peek)
    BY <1>2, <1>5, Zenon DEF View, After
  <1>10. Handled(t, Peek)
    BY <1>1, <1>4, <1>5, <1>6, <1>7, <1>8, <1>9, Queues, Zenon DEF Handled
  <1> QED  BY <1>1, <1>10, HandlerStep DEF t

\* TaskBlocked: the task was on its cpu, or displaced and queued.
LEMMA BlockedStep ==
    ASSUME IInv, NEW c \in Cpus, TaskBlocked(c)
    PROVE  IInv'
  <1> DEFINE t == Peek.task
  <1>1. /\ Dispatching(c, "BLOCKED") /\ Consume
        /\ fault' = ~(/\ IF State(t) = "kOnCpu" THEN OnItsCpu(t)
                         ELSE State(t) = "kQueued" /\ Contains(run_queue, t)
                      /\ AdvanceOK(t, Peek.seqnum))
        /\ current' = OffCpu(t)
        /\ run_queue' = IF State(t) = "kOnCpu" THEN run_queue
                         ELSE RemoveFromRunqueue(run_queue, t)
        /\ task' = [task EXCEPT ![t].run_state = "kBlocked", ![t].seqnum = Peek.seqnum]
        /\ UNCHANGED <<kquiet, stale, known, yielding, rvars>>
    BY Zenon DEF TaskBlocked
  <1>2. /\ ~MidRound /\ Peek \in Messages /\ Peek.type = "BLOCKED" /\ t \in Tasks /\ t \in known
        /\ State(t) \in {"kOnCpu", "kQueued"} /\ Peek.seqnum > task[t].seqnum
    BY <1>1, DispatchFacts, Zenon DEF Dispatching, Leaving
  <1>3. Peek.seqnum \in Seqnums
    BY <1>2, SMTT(30) DEF Messages
  <1> HIDE DEF t
  <1>4. /\ task' \in [Tasks -> FifoTask]
        /\ task'[t].run_state = "kBlocked" /\ task'[t].seqnum = Peek.seqnum
        /\ \A u \in Tasks : u # t => task'[u] = task[u]
    <2>1. task'[t] = [task[t] EXCEPT !.run_state = "kBlocked", !.seqnum = Peek.seqnum]
      BY <1>1, <1>2, Queues
    <2>2. task[t] \in FifoTask /\ "kBlocked" \in RunStates
      BY <1>2, Queues, SMTT(30) DEF RunStates
    <2>3. /\ task'[t] \in FifoTask /\ task'[t].run_state = "kBlocked"
          /\ task'[t].seqnum = Peek.seqnum
      BY ONLY <1>3, <2>1, <2>2, Zenon DEF FifoTask
    <2>4. /\ \A u \in Tasks : u # t => task'[u] = task[u]
          /\ task' \in [Tasks -> FifoTask]
      BY <1>1, <2>3, Queues, Zenon
    <2> QED  BY <2>3, <2>4
  <1>5. /\ InState("kQueued")' = InState("kQueued") \ {t}
        /\ InState("kYielding")' = InState("kYielding")
    BY <1>1, <1>2, <1>4, Queues DEF InState, State
  <1>6. /\ run_queue' \in Seq(Tasks) /\ Lists(run_queue', InState("kQueued") \ {t})
        /\ State(t) = "kQueued" => Contains(run_queue, t)
    <2>1. CASE State(t) = "kOnCpu"
      <3>1. InState("kQueued") \ {t} = InState("kQueued")
        BY <2>1 DEF InState
      <3> QED  BY <1>1, <2>1, <3>1, Queues, Zenon DEF t
    <2>2. CASE State(t) = "kQueued"
      BY <1>1, <1>2, <2>2, Queues, RemoveAny, Zenon DEF InState
    <2> QED  BY <1>2, <2>1, <2>2
  <1>7. /\ current' = [d \in Cpus |-> IF current[d] = t THEN NoTask ELSE current[d]]
        /\ State(t) = "kOnCpu" => OnItsCpu(t)
    BY <1>1, <1>2, OffCpuFacts
  <1>8. ~fault' /\ fault' \in BOOLEAN
    BY <1>1, <1>2, <1>6, <1>7, Zenon DEF AdvanceOK
  <1>9. View(t, known', task'[t].run_state) = After(Peek)
    BY <1>1, <1>2, <1>4 DEF View, After
  <1>10. current' \in [Cpus -> Tasks \cup {NoTask}]
    BY <1>7, Queues
  <1>11. Handled(t, Peek)
    BY <1>1, <1>4, <1>5, <1>6, <1>7, <1>8, <1>9, <1>10, Queues, ZenonT(60) DEF Handled
  <1> QED  BY <1>1, <1>11, HandlerStep DEF t

\* TaskPreempted.
LEMMA PreemptedStep ==
    ASSUME IInv, NEW c \in Cpus, TaskPreempted(c)
    PROVE  IInv'
  <1> DEFINE t == Peek.task
  <1>1. /\ Dispatching(c, "PREEMPT") /\ Consume
        /\ fault' = ~(MayLeaveCpu(t) /\ AdvanceOK(t, Peek.seqnum))
        /\ current' = OffCpu(t)
        /\ task' = [task EXCEPT ![t].run_state = IF State(t) = "kOnCpu" THEN "kQueued" ELSE @,
                                ![t].preempted = TRUE,
                                ![t].seqnum = Peek.seqnum]
        /\ run_queue' = IF State(t) = "kOnCpu" THEN Pushed(run_queue, t, TRUE) ELSE run_queue
        /\ UNCHANGED <<kquiet, stale, known, yielding, rvars>>
    BY DEF TaskPreempted
  <1>2. /\ ~MidRound /\ Peek \in Messages /\ Peek.type = "PREEMPT" /\ t \in Tasks /\ t \in known
        /\ State(t) \in {"kOnCpu", "kQueued"} /\ Peek.seqnum > task[t].seqnum
    BY <1>1, DispatchFacts, Zenon DEF Dispatching, Leaving
  <1>3. Peek.seqnum \in Seqnums
    BY <1>2 DEF Messages
  <1> HIDE DEF t
  <1>4. /\ task' \in [Tasks -> FifoTask]
        /\ task'[t].run_state = "kQueued" /\ task'[t].seqnum = Peek.seqnum
        /\ \A u \in Tasks : u # t => task'[u] = task[u]
    <2>1. task'[t] = [task[t] EXCEPT !.run_state = IF State(t) = "kOnCpu" THEN "kQueued" ELSE @,
                                     !.preempted = TRUE, !.seqnum = Peek.seqnum]
      BY <1>1, <1>2, Queues, Zenon
    <2>2. task[t] \in FifoTask /\ "kQueued" \in RunStates
      BY <1>2, Queues, SMTT(30) DEF RunStates
    <2>3. State(t) = "kQueued" \/ State(t) = "kOnCpu"
      BY <1>2, SMTT(30)
    <2>4. /\ task'[t] \in FifoTask /\ task'[t].run_state = "kQueued"
          /\ task'[t].seqnum = Peek.seqnum
      BY ONLY <1>3, <2>1, <2>2, <2>3, Zenon DEF FifoTask, State
    <2>5. /\ \A u \in Tasks : u # t => task'[u] = task[u]
          /\ task' \in [Tasks -> FifoTask]
      BY <1>1, <2>4, Queues, Zenon
    <2> QED  BY <2>4, <2>5, SMTT(30)
  <1>5. /\ InState("kQueued")' = InState("kQueued") \cup {t}
        /\ InState("kYielding")' = InState("kYielding")
    BY <1>1, <1>2, <1>4, Queues DEF InState, State
  <1>6. run_queue' \in Seq(Tasks) /\ Lists(run_queue', InState("kQueued") \cup {t})
    <2>1. CASE State(t) = "kOnCpu"
      <3>1. t \in Tasks \ InState("kQueued")
        BY <1>2, <2>1, Zenon DEF InState
      <3>2. /\ Pushed(run_queue, t, TRUE) \in Seq(Tasks)
            /\ Lists(Pushed(run_queue, t, TRUE), InState("kQueued") \cup {t})
        BY <3>1, Queues, PushLists, Zenon
      <3> QED  BY <1>1, <2>1, <3>2, Zenon DEF t
    <2>2. CASE State(t) = "kQueued"
      <3>1. InState("kQueued") \cup {t} = InState("kQueued")
        BY <1>2, <2>2 DEF InState
      <3>2. run_queue' = run_queue
        BY <1>1, <2>2 DEF t
      <3> QED  BY <3>1, <3>2, Queues, Zenon
    <2> QED  BY <1>2, <2>1, <2>2, SMTT(30)
  <1>7. /\ current' = [d \in Cpus |-> IF current[d] = t THEN NoTask ELSE current[d]]
        /\ State(t) = "kOnCpu" => OnItsCpu(t)
    BY <1>1, <1>2, OffCpuFacts, SMTT(30)
  <1>8. ~fault' /\ fault' \in BOOLEAN
    BY <1>1, <1>2, <1>7, Zenon DEF AdvanceOK, MayLeaveCpu
  <1>9. View(t, known', task'[t].run_state) = After(Peek)
    BY <1>1, <1>2, <1>4 DEF View, After
  <1>10. current' \in [Cpus -> Tasks \cup {NoTask}]
    BY <1>7, Queues
  <1>11. Handled(t, Peek)
    BY <1>1, <1>4, <1>5, <1>6, <1>7, <1>8, <1>9, <1>10, Queues, ZenonT(60) DEF Handled
  <1> QED  BY <1>1, <1>11, HandlerStep, SMTT(30) DEF t

\* TaskYield.
LEMMA YieldStep ==
    ASSUME IInv, NEW c \in Cpus, TaskYield(c)
    PROVE  IInv'
  <1> DEFINE t == Peek.task
             rs == IF State(t) = "kOnCpu" THEN "kYielding" ELSE "kQueued"
  <1>1. /\ Dispatching(c, "YIELD") /\ Consume
        /\ fault' = ~(MayLeaveCpu(t) /\ AdvanceOK(t, Peek.seqnum))
        /\ current' = OffCpu(t)
        /\ task' = [task EXCEPT ![t].run_state = IF State(t) = "kOnCpu" THEN "kYielding" ELSE @,
                                ![t].seqnum = Peek.seqnum]
        /\ yielding' = IF State(t) = "kOnCpu" THEN Append(yielding, t) ELSE yielding
        /\ UNCHANGED <<kquiet, stale, known, run_queue, rvars>>
    BY Zenon DEF TaskYield
  <1>2. /\ ~MidRound /\ Peek \in Messages /\ Peek.type = "YIELD" /\ t \in Tasks /\ t \in known
        /\ State(t) \in {"kOnCpu", "kQueued"} /\ Peek.seqnum > task[t].seqnum
    BY <1>1, DispatchFacts, Zenon DEF Dispatching, Leaving
  <1>3. Peek.seqnum \in Seqnums
    BY <1>2, SMTT(30) DEF Messages
  <1> HIDE DEF t
  <1>4. /\ task' \in [Tasks -> FifoTask]
        /\ task'[t].run_state = rs /\ task'[t].seqnum = Peek.seqnum
        /\ \A u \in Tasks : u # t => task'[u] = task[u]
    <2>1. task'[t] = [task[t] EXCEPT !.run_state = IF State(t) = "kOnCpu" THEN "kYielding" ELSE @,
                                     !.seqnum = Peek.seqnum]
      BY <1>1, <1>2, Queues, Zenon
    <2>2. task[t] \in FifoTask /\ "kQueued" \in RunStates /\ "kYielding" \in RunStates
      BY <1>2, Queues, SMTT(30) DEF RunStates
    <2>3. State(t) = "kQueued" \/ State(t) = "kOnCpu"
      BY <1>2, Zenon
    <2>4. /\ task'[t] \in FifoTask /\ task'[t].run_state = rs
          /\ task'[t].seqnum = Peek.seqnum
      BY ONLY <1>3, <2>1, <2>2, <2>3, Zenon DEF FifoTask, State
    <2>5. /\ \A u \in Tasks : u # t => task'[u] = task[u]
          /\ task' \in [Tasks -> FifoTask]
      BY <1>1, <2>4, Queues, Zenon
    <2> QED  BY <2>4, <2>5
  <1>5. InState("kQueued")' = InState("kQueued")
    BY <1>1, <1>2, <1>4, Queues DEF InState, State
  <1>6. /\ yielding' \in Seq(Tasks) /\ Lists(yielding', InState("kYielding")')
    <2>1. CASE State(t) = "kOnCpu"
      <3>1. t \in Tasks \ InState("kYielding")
        BY <1>2, <2>1, Zenon DEF InState
      <3>2. /\ Pushed(yielding, t, FALSE) \in Seq(Tasks)
            /\ Lists(Pushed(yielding, t, FALSE), InState("kYielding") \cup {t})
        BY <3>1, Queues, PushLists, Zenon
      <3>3. yielding' = Pushed(yielding, t, FALSE)
        BY <1>1, <2>1 DEF t, Pushed
      <3>4. InState("kYielding")' = InState("kYielding") \cup {t}
        BY <1>1, <1>2, <1>4, <2>1, Queues DEF InState, State
      <3> QED  BY <3>2, <3>3, <3>4, Zenon
    <2>2. CASE State(t) = "kQueued"
      <3>1. InState("kYielding")' = InState("kYielding")
        BY <1>1, <1>2, <1>4, <2>2, Queues DEF InState, State
      <3>2. yielding' = yielding
        BY <1>1, <2>2, SMTT(30) DEF t
      <3> QED  BY <3>1, <3>2, Queues, SMTT(30)
    <2> QED  BY <1>2, <2>1, <2>2, SMTT(30)
  <1>7. /\ current' = [d \in Cpus |-> IF current[d] = t THEN NoTask ELSE current[d]]
        /\ State(t) = "kOnCpu" => OnItsCpu(t)
    BY <1>1, <1>2, OffCpuFacts
  <1>8. ~fault' /\ fault' \in BOOLEAN
    BY <1>1, <1>2, <1>7, Zenon DEF AdvanceOK, MayLeaveCpu
  <1>9. View(t, known', task'[t].run_state) = After(Peek)
    BY <1>1, <1>2, <1>4, SMTT(30) DEF View, After
  <1>10. current' \in [Cpus -> Tasks \cup {NoTask}]
    BY <1>7, Queues
  <1>11. Handled(t, Peek)
    BY <1>1, <1>4, <1>5, <1>6, <1>7, <1>8, <1>9, <1>10, Queues, ZenonT(60) DEF Handled
  <1> QED  BY <1>1, <1>11, HandlerStep DEF t

-----------------------------------------------------------------------------
(* The loop of GlobalSchedule that assigns cpus to tasks. *)

\* A task is assigned to an available cpu, and displaces the one there. (That
\* Min finds a cpu is MinExists, below: it needs the order of Nat.)
LEMMA AssignStep ==
    ASSUME IInv, NEW c \in Cpus, AssignTask(c), Min(available) \in available
    PROVE  IInv'
  <1> DEFINE next == Head(run_queue)
             cpu == Min(available)
             prev == current[cpu]
  <1>0. TypeOK /\ InState("kQueued") \in SUBSET Tasks
    BY DEF IInv, TypeOK, InState
  <1>1. /\ pc[c] = "assign" /\ available # {} /\ run_queue # << >>
        /\ ~NotReady(next)
        /\ fault' = (State(next) # "kQueued")
        /\ task' = [t \in Tasks |->
                      IF t = next THEN [task[t] EXCEPT !.run_state = "kRunnable"]
                      ELSE IF t = prev THEN [task[t] EXCEPT !.run_state = "kQueued"]
                      ELSE task[t]]
        /\ run_queue' = IF prev = NoTask THEN Tail(run_queue)
                                         ELSE Enqueue(Tail(run_queue), prev)
        /\ current' = [current EXCEPT ![cpu] = next]
        /\ available' = available \ {cpu}
        /\ txn' = [txn EXCEPT ![cpu] = "open"]
        /\ UNCHANGED <<kvars, known, yielding, global_cpu, pc, target>>
    BY DEF AssignTask, At
  <1>2. MidRound /\ global_cpu = c
    BY <1>1, Schedules, Zenon
  <1>3. cpu \in available /\ cpu \in Cpus /\ cpu # c /\ txn[cpu] = "none"
    BY <1>0, <1>2, ZenonT(60) DEF IInv, Rounds, TypeOK
  <1>4. /\ next \in InState("kQueued")
        /\ Tail(run_queue) \in Seq(Tasks)
        /\ Lists(Tail(run_queue), InState("kQueued") \ {next})
    BY <1>0, <1>1, TailLists, Zenon DEF IInv, Places, TypeOK
  <1>5. /\ next \in Tasks /\ next \in known /\ State(next) = "kQueued" /\ next # NoTask
        /\ ~on_cpu[next] /\ task[next].seqnum = barrier[next]
    BY <1>0, <1>1, <1>4, Constants DEF InState, NotReady
  <1> HIDE DEF next, cpu
  <1>6. prev # NoTask => prev \in known /\ prev \in Tasks /\ State(prev) = "kOnCpu" /\ prev # next
    <2>1. Placed(cpu)
      BY <1>3 DEF IInv, Places
    <2> QED  BY <1>0, <1>3, <1>5, <2>1, ZenonT(60) DEF Placed, TypeOK
  <1>7. /\ current'[cpu] = next /\ txn'[cpu] = "open"
        /\ \A e \in Cpus : e # cpu => txn'[e] = txn[e] /\ current'[e] = current[e]
    BY <1>0, <1>1, <1>3, ZenonT(60) DEF TypeOK
  <1>8. \A e \in Cpus : kcur[e] # next
    BY <1>5, ZenonT(60) DEF IInv, Switches, RunsOn
  <1>9. \A e \in Cpus : current[e] # next
    BY <1>5, ZenonT(60) DEF IInv, Places, Placed
  <1>10. \A e \in Cpus : e # cpu /\ current[e] # NoTask => current[e] # prev
    BY <1>3 DEF IInv, Places
  <1> HIDE DEF prev
  <1>11. /\ task' \in [Tasks -> FifoTask]
         /\ task'[next].run_state = "kRunnable"
         /\ prev # NoTask => task'[prev].run_state = "kQueued"
         /\ \A u \in Tasks : task'[u].seqnum = task[u].seqnum
         /\ \A u \in Tasks : u # next /\ u # prev => task'[u] = task[u]
    BY <1>0, <1>1, <1>5, <1>6, ZenonT(60) DEF TypeOK, FifoTask, RunStates
  <1>12. /\ run_queue' \in Seq(Tasks)
         /\ Lists(run_queue', IF prev = NoTask THEN InState("kQueued") \ {next}
                              ELSE (InState("kQueued") \ {next}) \cup {prev})
    <2>1. CASE prev = NoTask
      BY <1>1, <1>4, <2>1, Zenon DEF prev
    <2>2. CASE prev # NoTask
      <3>1. prev \in Tasks \ (InState("kQueued") \ {next})
        BY <1>6, <2>2 DEF InState
      <3>2. InState("kQueued") \ {next} \in SUBSET Tasks
        BY <1>0
      <3>3. run_queue' = Pushed(Tail(run_queue), prev, task[prev].prio_boost \/ task[prev].preempted)
        BY <1>1, <2>2 DEF Enqueue, prev
      <3> QED  BY <1>4, <2>2, <3>1, <3>2, <3>3, PushLists, Zenon
    <2> QED  BY <2>1, <2>2
  <1>13. Places'
    <2>1. InState("kQueued")' = IF prev = NoTask THEN InState("kQueued") \ {next}
                                ELSE (InState("kQueued") \ {next}) \cup {prev}
      <3>1. CASE prev = NoTask
        BY <1>0, <1>1, <1>5, <1>11, <3>1, Constants, ZenonT(60) DEF InState, State, TypeOK
      <3>2. CASE prev # NoTask
        BY <1>0, <1>1, <1>5, <1>6, <1>11, <3>2 DEF InState, State, TypeOK
      <3> QED  BY <3>1, <3>2
    <2>2. InState("kYielding")' = InState("kYielding")
      BY <1>0, <1>1, <1>5, <1>6, <1>11, Constants DEF InState, State, TypeOK
    <2>3. ASSUME NEW e \in Cpus  PROVE Placed(e)'
      <3>1. CASE e = cpu
        BY <1>1, <1>5, <1>7, <1>11, <3>1 DEF Placed, State
      <3>2. CASE e # cpu /\ current[e] # NoTask
        <4>1. Placed(e) /\ task'[current[e]] = task[current[e]]
          <5>1. Placed(e)
            BY Zenon DEF IInv, Places
          <5>2. current[e] \in Tasks
            BY <1>0, <3>2, Zenon DEF TypeOK
          <5>3. current[e] # next /\ current[e] # prev
            BY ONLY <1>9, <1>10, <3>2, e \in Cpus, Zenon
          <5> QED  BY ONLY <1>11, <5>1, <5>2, <5>3, Zenon
        <4>2. current'[e] = current[e] /\ txn'[e] = txn[e] /\ known' = known
          BY <1>1, <1>7, <3>2, Zenon
        <4> QED  BY <3>2, <4>1, <4>2, ZenonT(60) DEF Placed, State
      <3> QED  BY <1>7, <3>1, <3>2, Zenon DEF Placed
    <2>4. ASSUME NEW u \in known, task'[u].run_state \in {"kOnCpu", "kRunnable"}
          PROVE  \E e \in Cpus : current'[e] = u
      <3>1. CASE u = next
        BY <1>3, <1>7, <3>1, ZenonT(60)
      <3>2. CASE u # next
        <4>1. u \in Tasks /\ u # prev /\ State(u) \in {"kOnCpu", "kRunnable"}
          BY <1>0, <1>11, <2>4, <3>2, Constants, ZenonT(60) DEF State, TypeOK
        <4>2. PICK e \in Cpus : current[e] = u
          BY <4>1, ZenonT(60) DEF IInv, Places
        <4>3. e # cpu
          BY ONLY <4>1, <4>2, Zenon DEF prev
        <4> QED  BY ONLY <1>7, <4>2, <4>3, Zenon
      <3> QED  BY <3>1, <3>2, Zenon
    <2>5. \A e, f \in Cpus : current'[e] = current'[f] /\ current'[e] # NoTask => e = f
      <3>1. \A e, f \in Cpus : current[e] = current[f] /\ current[e] # NoTask => e = f
        BY Zenon DEF IInv, Places
      <3> QED  BY ONLY <1>7, <1>9, <3>1, Zenon
    <2>6. Lists(yielding', InState("kYielding")')
      BY <1>1, <2>2 DEF IInv, Places
    <2> QED  BY <1>1, <1>12, <2>1, <2>3, <2>4, <2>5, <2>6, ZenonT(60) DEF Places, State
  <1>14. ASSUME NEW e \in Cpus  PROVE Booked(e)'
    <2>1. Booked(e)
      BY Zenon DEF IInv, Switches
    <2>2. CASE e = cpu
      BY <1>1, <1>5, <1>7, <1>8, <2>2 DEF Booked, kvars
    <2>3. CASE e # cpu
      BY <1>1, <1>7, <2>1, <2>3, Zenon DEF Booked, kvars, Mailbox
    <2> QED  BY <2>2, <2>3, Zenon
  <1>15. \A u \in Tasks : /\ task'[u].seqnum = task[u].seqnum
                          /\ task'[u].run_state = "kBlocked" <=> State(u) = "kBlocked"
    BY <1>5, <1>6, <1>11, Constants, Zenon DEF State
  <1>16. ASSUME NEW e \in Cpus, kcur[e] # NoTask
         PROVE  \/ current'[e] = kcur[e]
                \/ /\ TimeSlice /\ InBound(kcur[e])
                   /\ task'[kcur[e]].run_state \in {"kQueued", "kYielding"}
    <2>1. kcur[e] \in Tasks /\ RunsOn(e) /\ kcur[e] # next
      BY <1>0, <1>8, <1>16 DEF IInv, Switches, TypeOK, KTypeOK
    <2>2. CASE current[e] = kcur[e] /\ e = cpu
      <3>1. kcur[e] = prev /\ prev # NoTask
        BY <1>16, <2>2, Zenon DEF prev
      <3> QED  BY <1>3, <1>11, <1>16, <2>1, <2>2, <3>1, Zenon DEF RunsOn
    <2>3. CASE current[e] = kcur[e] /\ e # cpu
      BY <1>7, <2>3, Zenon
    <2>4. CASE current[e] # kcur[e]
      <3>1. /\ TimeSlice /\ InBound(kcur[e]) /\ State(kcur[e]) \in {"kQueued", "kYielding"}
        BY <1>16, <2>1, <2>4, Zenon DEF RunsOn
      <3>2. kcur[e] # prev
        BY <1>6, <1>16, <3>1
      <3> QED  BY <1>11, <2>1, <3>1, <3>2, Zenon DEF State
    <2> QED  BY <2>2, <2>3, <2>4, Zenon
  <1>17. MidRound' /\ Roles' /\ Switches' /\ Mail' /\ KTypeOK'
    BY <1>1, <1>2, <1>14, <1>15, <1>16, ScheduleFrame, Zenon
  <1>18. Rounds'
    <2>1. available' # {} => pc'[global_cpu'] = "assign"
      BY <1>1, <1>2, Zenon
    <2>2. \A d \in available' : d # global_cpu' /\ txn'[d] = "none"
      BY <1>0, <1>1, <1>7, ZenonT(60) DEF IInv, Rounds, TypeOK, cpu
    <2>3. \A d \in Cpus : txn'[d] # "none" => MidRound' /\ current'[d] # NoTask
      BY <1>5, <1>7, <1>17 DEF IInv, Rounds
    <2>4. current'[global_cpu'] = NoTask
      BY <1>1, <1>2, <1>3, <1>7, Zenon DEF IInv, Rounds
    <2> QED  BY <2>1, <2>2, <2>3, <2>4 DEF Rounds
  <1>19. TypeOK' /\ ~fault'
    BY <1>0, <1>1, <1>3, <1>5, <1>11, <1>12, <1>17, Zenon DEF TypeOK, cpu, next
  <1> QED  BY <1>13, <1>17, <1>18, <1>19 DEF IInv

-----------------------------------------------------------------------------
(* The initial states. *)

\* The initial states satisfy the invariant.
LEMMA InitIInv == Init => IInv
  <1> SUFFICES ASSUME Init  PROVE IInv
    OBVIOUS
  <1>1. Mailbox = << >> /\ available = {} /\ known = {} /\ ~fault
    BY Constants DEF Init, KInit, Mailbox
  <1>2. TypeOK
    <2>1. KTypeOK
      <3>1. 0 \in Seqnums /\ << >> \in Seq(Messages)
        BY Constants DEF Seqnums
      <3> QED  BY <3>1, Constants DEF Init, KInit, KTypeOK
    <2>2. NewTask \in FifoTask
      BY Constants DEF NewTask, FifoTask, RunStates, Seqnums
    <2>3. << >> \in Seq(Tasks)
      OBVIOUS
    <2> QED  BY <2>1, <2>2, <2>3, Constants, Zenon DEF Init, TypeOK, PCs
  <1>3. Roles /\ Rounds
    BY Constants, Zenon DEF Init, KInit, Roles, Rounds, Scheduling
  <1>4. Places
    BY Constants DEF Init, Places, Lists, InState, Placed
  <1>5. Switches
    BY Constants, SMTT(30) DEF Init, KInit, Switches, RunsOn, Booked, Slack
  <1>6. Mail
    BY <1>1 DEF Init, KInit, Mail, Settled, View, KView, About
  <1> QED  BY <1>1, <1>2, <1>3, <1>4, <1>5, <1>6, SMTT(30) DEF IInv

-----------------------------------------------------------------------------
(* What the invariant says. *)

\* A task without unread messages is settled.
LEMMA InvBooksAgree == IInv => BooksAgree
  <1> SUFFICES ASSUME IInv, NEW t \in Tasks,
                      \A i \in DOMAIN channel[DefaultChan] : channel[DefaultChan][i].task # t
               PROVE  CASE kstate[t] \in {"out", "gone"} -> t \notin known
                        [] kstate[t] \in {"blocked", "dying"} -> t \in known /\ State(t) = "kBlocked"
                        [] kstate[t] = "runnable" ->
                             t \in known /\ State(t) \in {"kQueued", "kYielding", "kRunnable"}
                        [] kstate[t] = "running" ->
                             /\ t \in known
                             /\ \/ \E c \in Cpus : kcur[c] = t /\ current[c] = t
                                \/ TimeSlice /\ State(t) \in {"kQueued", "kYielding"}
    BY Zenon DEF BooksAgree
  <1>0. kstate[t] \in {"out", "blocked", "runnable", "running", "dying", "gone"} /\ t # NoTask
    BY Constants DEF IInv, TypeOK, KTypeOK
  <1>1. ~About(Mailbox, t)
    BY ZenonT(60) DEF About, Mailbox
  <1>2. View(t, known, State(t)) = KView(kstate[t])
    BY <1>1, ZenonT(60) DEF IInv, Mail, Settled
  <1>3. kstate[t] \in {"out", "gone"} => t \notin known
    BY <1>2 DEF View, KView
  <1>4. kstate[t] \in {"blocked", "dying"} => t \in known /\ State(t) = "kBlocked"
    BY <1>2, Zenon DEF View, KView
  <1>5. ASSUME kstate[t] = "runnable"
        PROVE  t \in known /\ State(t) \in {"kQueued", "kYielding", "kRunnable"}
    <2>1. t \in known /\ State(t) # "kBlocked"
      BY <1>2, <1>5, Zenon DEF View, KView
    <2>2. State(t) \in RunStates
      BY Zenon DEF State, IInv, TypeOK, FifoTask
    <2>3. State(t) # "kOnCpu"
      <3> SUFFICES ASSUME State(t) = "kOnCpu"  PROVE FALSE
        OBVIOUS
      <3>1. PICK d \in Cpus : current[d] = t
        BY <2>1, ZenonT(60) DEF IInv, Places
      <3>2. txn[d] = "none"
        BY <1>0, <3>1 DEF IInv, Places, Placed
      <3>3. kcur[d] = t
        BY <1>0, <1>1, <3>1, <3>2, Zenon DEF IInv, Switches, Booked
      <3> QED  BY <1>0, <1>5, <3>3, ZenonT(60) DEF IInv, Switches, RunsOn
    <2> QED  BY <2>1, <2>2, <2>3 DEF RunStates
  <1>6. ASSUME kstate[t] = "running"
        PROVE  /\ t \in known
               /\ \/ \E c \in Cpus : kcur[c] = t /\ current[c] = t
                  \/ TimeSlice /\ State(t) \in {"kQueued", "kYielding"}
    <2>1. PICK d \in Cpus : kcur[d] = t
      BY <1>6 DEF IInv, Switches
    <2>2. RunsOn(d)
      BY Zenon DEF IInv, Switches
    <2> QED  BY <1>0, <2>1, <2>2, Zenon DEF RunsOn
  <1> QED  BY <1>0, <1>3, <1>4, <1>5, <1>6, Zenon

\* The first unread message of a task fits what the scheduler knows of it.
LEMMA InvNothingDropped == IInv => NothingDropped
  <1> SUFFICES ASSUME IInv, NEW i \in DOMAIN Mailbox,
                      ~ \E j \in 1 .. i - 1 : Mailbox[j].task = Mailbox[i].task
               PROVE  Mailbox[i].type = "NEW" <=> Mailbox[i].task \notin known
    BY DEF NothingDropped, Mailbox
  <1>1. FirstIn(Mailbox, i) /\ Letter(i)
    BY ZenonT(60) DEF FirstIn, IInv, Mail
  <1>2. Fits(View(Mailbox[i].task, known, State(Mailbox[i].task)), Mailbox[i])
    BY <1>1 DEF Letter
  <1> QED  BY <1>2, SMTT(30) DEF Fits, View, Leaving

\* Roles names the one agent that may schedule.
LEMMA InvRoles == IInv => OneGlobalAgent /\ GlobalAgentAwake
  BY Zenon DEF IInv, Roles, OneGlobalAgent, GlobalAgentAwake, Scheduling

-----------------------------------------------------------------------------
(* The order of the run queue. *)

\* Every step keeps the order of the run queue.
LEMMA StepOrder ==
    ASSUME IInv, [Next]_vars, ~fault',
           \A c \in Cpus : AssignTask(c) => Min(available) \in available
    PROVE  SameOrder(run_queue, run_queue')
  <1> DEFINE Q == InState("kQueued")
  <1>0. /\ Q \in SUBSET Tasks /\ run_queue \in Seq(Tasks) /\ Lists(run_queue, Q)
        /\ known \in SUBSET Tasks
        /\ \A t \in Q : t \in known /\ State(t) = "kQueued"
    BY Queues, Zenon DEF InState
  <1> HIDE DEF Q
  <1>2. CASE UNCHANGED run_queue
    BY <1>0, <1>2, OrderSame, Zenon
  <1>3. ASSUME NEW c \in Cpus, Agent(c)  PROVE SameOrder(run_queue, run_queue')
    <2>0. pc[c] = "drain" /\ Mailbox # << >> => Peek.task \in Tasks
      <3>1. Mailbox # << >> => 1 \in DOMAIN Mailbox /\ Peek = Mailbox[1]
        BY MailTyped DEF Peek, Mailbox
      <3> QED  BY <3>1 DEF IInv, Mail, Letter
    <2>1. CASE TaskNew(c)
      <3>1. Peek.task \in Tasks /\ Peek.task \notin Q
        BY <1>0, <2>0, <2>1 DEF TaskNew, Dispatching, At, Mailbox
      <3> QED  BY <1>0, <1>2, <2>1, <3>1, OrderPushed, Zenon DEF TaskNew
    <2>2. CASE TaskRunnable(c)
      <3>1. Peek.task \in Tasks /\ Peek.task \notin Q
        BY <1>0, <2>0, <2>2, Zenon DEF TaskRunnable, Dispatching, At, Mailbox
      <3> QED  BY <1>0, <2>2, <3>1, OrderPushed DEF TaskRunnable
    <2>3. CASE TaskDeparted(c)
      BY <1>0, <2>0, <2>3, OrderRemove DEF TaskDeparted, Dispatching, At, Mailbox
    <2>4. CASE TaskBlocked(c)
      BY <1>0, <1>2, <2>0, <2>4, OrderRemove DEF TaskBlocked, Dispatching, At, Mailbox
    <2>5. CASE TaskPreempted(c)
      <3>1. Peek.task \in Tasks
        BY <2>0, <2>5 DEF TaskPreempted, Dispatching, At, Mailbox
      <3>2. CASE State(Peek.task) = "kOnCpu"
        <4>1. Peek.task \notin Q
          BY <1>0, <3>2
        <4> QED  BY <1>0, <2>5, <3>1, <3>2, <4>1, OrderPushed, Zenon DEF TaskPreempted
      <3> QED  BY <1>2, <2>5, <3>2, Zenon DEF TaskPreempted
    <2>6. CASE SkipTask(c)
      BY <1>0, <2>6, OrderTail DEF SkipTask
    <2>7. CASE AssignTask(c)
      <3> DEFINE prev == current[Min(available)]
      <3>1. CASE prev = NoTask
        BY <1>0, <2>7, <3>1, OrderTail DEF AssignTask
      <3>2. CASE prev # NoTask
        <4>2. Min(available) \in Cpus
          BY <2>7, Zenon DEF IInv, TypeOK
        <4>3. prev \in known /\ State(prev) \in {"kOnCpu", "kRunnable"}
          BY <3>2, <4>2, ZenonT(60) DEF IInv, Places, Placed
        <4>4. prev \in Tasks \ Q
          BY <1>0, <4>3
        <4> QED  BY <1>0, <2>7, <3>2, <4>4, OrderReplace DEF AssignTask, Enqueue
      <3> QED  BY <3>1, <3>2
    <2>8. CASE TxnFailed(c)
      <3>1. PICK d \in Cpus : /\ txn[d] = "failed" /\ fault' = (State(current[d]) # "kRunnable")
                              /\ run_queue' = Pushed(run_queue, current[d], TRUE)
        BY <2>8, Zenon DEF TxnFailed
      <3>2. current[d] # NoTask
        BY <3>1 DEF IInv, Rounds
      <3>3. current[d] \in known /\ State(current[d]) = "kRunnable"
        BY <3>1, <3>2, Zenon DEF IInv, Places, Placed
      <3>4. current[d] \in Tasks \ Q
        BY <1>0, <3>3
      <3> QED  BY <1>0, <3>1, <3>4, OrderPushed, Zenon
    <2>9. CASE Requeue(c)
      <3>1. Head(yielding) \in InState("kYielding")
        BY <2>9, Queues, TailLists, Zenon DEF Requeue
      <3>2. Head(yielding) \in Tasks \ Q
        BY <1>0, <3>1 DEF InState
      <3> QED  BY <1>0, <2>9, <3>2, OrderPushed DEF Requeue, Enqueue
    <2> QED  BY <1>2, <1>3, <2>1, <2>2, <2>3, <2>4, <2>5, <2>6, <2>7, <2>8, <2>9, ZenonT(60)
             DEF Agent, ReadBarrier, IsSatellite, LocalYield, AgentWakes, IsGlobal,
                 PickNextGlobalCPU, PingGlobal, ChannelEmpty, TaskDead, TaskYield,
                 FindAvailable, AssignEnds, TxnSucceeded, EndSchedule
  <1>4. CASE Kernel
    BY <1>2, <1>4, Zenon DEF Kernel, svars
  <1>5. ASSUME NEW d \in Cpus, CommitTxn(d)  PROVE UNCHANGED run_queue
    BY <1>5, Zenon DEF CommitTxn
  <1>6. CASE UNCHANGED vars
    BY <1>2, <1>6, Zenon DEF vars, svars
  <1> QED  BY <1>2, <1>3, <1>4, <1>5, <1>6, Zenon DEF Next

-----------------------------------------------------------------------------
(* The facts about finite sets and the order of Nat that the theorems use.  *)

\* Of two numbers, one is not less than the other.
LEMMA NotLess == \A x, y \in Nat : ~(y < x) => x <= y
  OBVIOUS

\* The size of a set of none.
LEMMA NoElement == Cardinality({}) = 0
  <1> DEFINE Count(f) == [T \in SUBSET {} |->
                            IF T = {} THEN 0 ELSE 1 + f[T \ {CHOOSE x : x \in T}]]
             CS == CHOOSE f : f = Count(f)
  <1>1. \E f : f = Count(f)
    <2> DEFINE z == [T \in SUBSET {} |-> 0]
    <2>1. z = Count(z)
      OBVIOUS
    <2> QED  BY <2>1, Zenon
  <1>2. CS = Count(CS)
    BY <1>1, Zenon
  <1> HIDE DEF CS
  <1>3. CS[{}] = 0
    BY <1>2
  <1> QED  BY <1>3, Zenon DEF Cardinality, CS

\* The size of a set of one element.
LEMMA OneElement ==
    ASSUME NEW e
    PROVE  Cardinality({e}) = 1
  <1> DEFINE Count(f) == [T \in SUBSET {e} |->
                            IF T = {} THEN 0 ELSE 1 + f[T \ {CHOOSE x : x \in T}]]
             CS == CHOOSE f : f = Count(f)
  <1>1. /\ (CHOOSE x : x \in {e}) = e /\ {e} \ {e} = {} /\ {} \in SUBSET {e}
        /\ \A T \in SUBSET {e} : T = {} \/ T = {e}
    OBVIOUS
  <1>2. \E f : f = Count(f)
    <2> DEFINE z == [T \in SUBSET {e} |-> IF T = {} THEN 0 ELSE 1]
    <2>1. z[{}] = 0 /\ 1 + 0 = 1
      BY <1>1
    <2>2. ASSUME NEW T \in SUBSET {e}
          PROVE  z[T] = IF T = {} THEN 0 ELSE 1 + z[T \ {CHOOSE x : x \in T}]
      <3>1. CASE T = {}
        BY <3>1
      <3>2. CASE T # {}
        <4>1. T = {e}
          BY <1>1, <3>2, Zenon
        <4>2. T \ {CHOOSE x : x \in T} = {}
          BY <1>1, <4>1, Zenon
        <4> QED  BY <2>1, <3>2, <4>2
      <3> QED  BY <3>1, <3>2, Zenon
    <2>3. z = Count(z)
      BY <2>2
    <2> QED  BY <2>3, Zenon
  <1>3. CS = Count(CS)
    BY <1>2, Zenon
  <1> HIDE DEF CS
  <1>4. CS[{}] = 0
    BY <1>3
  <1>5. CS[{e}] = 1 + CS[{e} \ {e}]
    BY <1>1, <1>3
  <1>6. CS[{e}] = 1
    BY <1>1, <1>4, <1>5
  <1> QED  BY <1>6, Zenon DEF Cardinality, CS

\* The positions of a task in a queue that lists S.
LEMMA CountInList ==
    ASSUME NEW S, NEW q \in Seq(Tasks), Lists(q, S), NEW t
    PROVE  Cardinality({i \in DOMAIN q : q[i] = t}) = IF t \in S THEN 1 ELSE 0
  <1>1. CASE t \in S
    <2>1. PICK k \in DOMAIN q : q[k] = t
      BY <1>1 DEF Lists
    <2>2. {i \in DOMAIN q : q[i] = t} = {k}
      BY <2>1 DEF Lists
    <2> QED  BY <1>1, <2>2, OneElement, Zenon
  <1>2. CASE t \notin S
    <2>1. {i \in DOMAIN q : q[i] = t} = {}
      BY <1>2 DEF Lists
    <2> QED  BY <1>2, <2>1, NoElement, Zenon
  <1> QED  BY <1>1, <1>2, SMTT(30)

\* Places counts the tasks.
LEMMA InvQueuesMatchStates == IInv => QueuesMatchStates
  <1> SUFFICES ASSUME IInv  PROVE QueuesMatchStates
    OBVIOUS
  <1>1. ASSUME NEW t \in known
        PROVE  /\ Cardinality({i \in DOMAIN run_queue : run_queue[i] = t}) =
                    IF State(t) = "kQueued" THEN 1 ELSE 0
               /\ Cardinality({i \in DOMAIN yielding : yielding[i] = t}) =
                    IF State(t) = "kYielding" THEN 1 ELSE 0
    <2>1. /\ t \in InState("kQueued") <=> State(t) = "kQueued"
          /\ t \in InState("kYielding") <=> State(t) = "kYielding"
      BY DEF InState
    <2> QED  BY <2>1, Queues, CountInList
  <1>2. ASSUME NEW t \in known
        PROVE  Cardinality({c \in Cpus : current[c] = t}) =
                 IF State(t) \in {"kOnCpu", "kRunnable"} THEN 1 ELSE 0
    <2>0. t # NoTask
      BY Queues, Constants, SMTT(30)
    <2>1. CASE State(t) \in {"kOnCpu", "kRunnable"}
      <3>1. PICK d \in Cpus : current[d] = t
        BY <2>1, SMTT(30) DEF IInv, Places
      <3>2. {c \in Cpus : current[c] = t} = {d}
        BY <2>0, <3>1 DEF IInv, Places
      <3> QED  BY <2>1, <3>2, OneElement, Zenon
    <2>2. CASE State(t) \notin {"kOnCpu", "kRunnable"}
      <3>1. {c \in Cpus : current[c] = t} = {}
        BY <2>0, <2>2, SMTT(30) DEF IInv, Places, Placed
      <3> QED  BY <2>2, <3>1, NoElement
    <2> QED  BY <2>1, <2>2
  <1>3. ASSUME NEW t \in Tasks \ known
        PROVE  /\ ~Contains(run_queue, t) /\ ~Contains(yielding, t)
               /\ \A c \in Cpus : current[c] # t
    <2>1. t \notin InState("kQueued") /\ t \notin InState("kYielding")
      BY DEF InState
    <2>2. ~Contains(run_queue, t) /\ ~Contains(yielding, t)
      BY <2>1, Queues, AbsentLists, Zenon
    <2>3. \A c \in Cpus : current[c] # t
      BY Constants DEF IInv, Places, Placed
    <2> QED  BY <2>2, <2>3
  <1> DEFINE InOnePlace(t) ==
               /\ Cardinality({i \in DOMAIN run_queue : run_queue[i] = t}) =
                    IF State(t) = "kQueued" THEN 1 ELSE 0
               /\ Cardinality({i \in DOMAIN yielding : yielding[i] = t}) =
                    IF State(t) = "kYielding" THEN 1 ELSE 0
               /\ Cardinality({c \in Cpus : current[c] = t}) =
                    IF State(t) \in {"kOnCpu", "kRunnable"} THEN 1 ELSE 0
             InNoPlace(t) ==
               /\ ~Contains(run_queue, t) /\ ~Contains(yielding, t)
               /\ \A c \in Cpus : current[c] # t
  <1> SUFFICES (\A t \in known : InOnePlace(t)) /\ (\A t \in Tasks \ known : InNoPlace(t))
    BY Zenon DEF QueuesMatchStates
  <1>4. ASSUME NEW t \in known  PROVE InOnePlace(t)
    BY <1>1, <1>2, Zenon
  <1>5. ASSUME NEW t \in Tasks \ known  PROVE InNoPlace(t)
    BY <1>3, Zenon
  <1> HIDE DEF InOnePlace, InNoPlace
  <1> QED  BY <1>4, <1>5, Zenon

LOCAL INSTANCE WellFoundedInduction

\* Min finds the first cpu of a set.
LEMMA MinExists ==
    ASSUME NEW S \in SUBSET Nat, S # {}
    PROVE  Min(S) \in S
  <1> DEFINE R == OpToRel(<, Nat)
  <1>1. \E x \in S : \A y \in S : <<y, x>> \notin R
    BY NatLessThanWellFounded, WFMin, Zenon
  <1>2. \A x, y \in Nat : <<y, x>> \in R <=> y < x
    BY DEF OpToRel
  <1> HIDE DEF R
  <1>3. PICK x \in S : \A y \in S : <<y, x>> \notin R
    BY <1>1
  <1>4. \A y \in S : x \in Nat /\ y \in Nat /\ ~(y < x)
    BY <1>2, <1>3, Zenon
  <1>5. \A y \in S : x <= y
    BY <1>4, NotLess, Zenon
  <1> QED  BY <1>5, Zenon DEF Min

\* GlobalSchedule finds a cpu when some are available.
LEMMA AvailableMin ==
    ASSUME IInv, NEW c \in Cpus, AssignTask(c)
    PROVE  Min(available) \in available
  BY Constants, MinExists, Zenon DEF IInv, TypeOK, AssignTask

-----------------------------------------------------------------------------
(* The theorems. *)

\* Every step preserves it.
LEMMA StepIInv == IInv /\ [Next]_vars => IInv'
  <1> SUFFICES ASSUME IInv, [Next]_vars  PROVE IInv'
    BY SMTT(30)
  <1>1. CASE Kernel
    BY <1>1, KernelStep, SMTT(30)
  <1>2. ASSUME NEW c \in Cpus, Agent(c)  PROVE IInv'
    <2>1. CASE ReadBarrier(c) \/ IsSatellite(c) \/ LocalYield(c) \/ IsGlobal(c)
      BY <2>1, LoopStep, SMTT(30)
    <2>2. CASE PickNextGlobalCPU(c) \/ PingGlobal(c)
      BY <2>2, HandOverStep
    <2>3. CASE AgentWakes(c)
      BY <2>3, WakeStep
    <2>4. CASE ChannelEmpty(c) \/ FindAvailable(c) \/ AssignEnds(c) \/ EndSchedule(c)
      BY <2>4, PhaseStep, SMTT(30)
    <2>5. CASE TaskNew(c) \/ TaskRunnable(c) \/ TaskDeparted(c) \/ TaskDead(c)
      BY <2>5, NewStep, RunnableStep, DepartedStep, DeadStep
    <2>6. CASE TaskBlocked(c) \/ TaskPreempted(c) \/ TaskYield(c)
      BY <2>6, BlockedStep, PreemptedStep, YieldStep, SMTT(30)
    <2>7. CASE SkipTask(c) \/ AssignTask(c) \/ TxnSucceeded(c) \/ TxnFailed(c) \/ Requeue(c)
      BY <2>7, AvailableMin, SkipStep, AssignStep, SucceededStep, FailedStep, RequeueStep, ZenonT(60)
    <2> QED  BY <1>2, <2>1, <2>2, <2>3, <2>4, <2>5, <2>6, <2>7, ZenonT(60) DEF Agent
  <1>3. ASSUME NEW d \in Cpus, CommitTxn(d)  PROVE IInv'
    BY <1>3, CommitStep, SMTT(30)
  <1>4. CASE UNCHANGED vars
    BY <1>4, StutterStep, Zenon
  <1> QED  BY <1>1, <1>2, <1>3, <1>4, Zenon DEF Next

\* The invariant is inductive.
THEOREM Inductive == Spec => []IInv
  BY InitIInv, StepIInv, PTL DEF Spec

\* Every variable keeps its type.
THEOREM TypeCorrect == Spec => []TypeOK
  BY Inductive, PTL DEF IInv

\* No CHECK of the centralized scheduler fails, whatever the order of messages,
\* commits and hand-overs.
THEOREM NoFaultHolds == Spec => []NoFault
  BY Inductive, PTL DEF IInv, NoFault

\* A known task is in exactly one queue or cpu, the one its run_state names.
THEOREM QueuesMatchStatesHolds == Spec => []QueuesMatchStates
  BY Inductive, InvQueuesMatchStates, PTL

\* The books agree with the kernel for every task whose messages were all read.
THEOREM BooksAgreeHolds == Spec => []BooksAgree
  BY Inductive, InvBooksAgree, PTL

\* No message is dropped.
THEOREM NothingDroppedHolds == Spec => []NothingDropped
  BY Inductive, InvNothingDropped, PTL

\* Two agents never schedule at the same time.
THEOREM OneGlobalAgentHolds == Spec => []OneGlobalAgent
  BY Inductive, InvRoles, PTL

\* The global agent does not sleep through the ping that made it global.
THEOREM GlobalAgentAwakeHolds == Spec => []GlobalAgentAwake
  BY Inductive, InvRoles, PTL

\* No task overtakes another while both stay in the run queue.
THEOREM FifoOrderHolds == Spec => FifoOrder
  <1>1. IInv /\ [Next]_vars => SameOrder(run_queue, run_queue')
    BY StepIInv, StepOrder, AvailableMin, Zenon DEF IInv
  <1> QED  BY <1>1, Inductive, PTL DEF Spec, FifoOrder

=============================================================================
