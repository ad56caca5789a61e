----------------------- MODULE CentralizedFifo_steps ------------------------
(***************************************************************************)
(* The safety of the centralized FIFO scheduler, for any number of tasks   *)
(* and cpus.  The inductive invariant IInv has one part per idea:          *)
(*                                                                         *)
(*   Roles     who may schedule, and why the global agent is awake;        *)
(*   Rounds    when cpus are available and transactions under way;         *)
(*   Places    a task is in the one place its run_state names;             *)
(*   Switches  what the kernel runs, and what the scheduler thinks of it;  *)
(*   Mail      the unread messages of a task lead from what the scheduler  *)
(*             knows of it to what it is, by one legal event each.         *)
(***************************************************************************)
EXTENDS CentralizedFifo, TLAPS

Scheduling == {"drain", "avail", "assign", "commit"}

Roles ==
    /\ \A c \in Cpus : pc[c] \in Scheduling => global_cpu = c
    /\ \A c \in Cpus : pc[c] = "ping" <=> target[c] # NoCpu
    /\ pc[global_cpu] \in {"yield", "asleep"} =>
         stale[global_cpu] \/ \E c \in Cpus : target[c] = global_cpu
    /\ \A c \in Cpus : agentRuns[c] <=> pc[c] # "asleep"

\* GlobalSchedule is assigning tasks or looking at its transactions.
MidRound == pc[global_cpu] \in {"assign", "commit"}

Rounds ==
    /\ available # {} => pc[global_cpu] = "assign"
    /\ \A d \in available : d # global_cpu /\ txn[d] = "none"
    /\ \A d \in Cpus : txn[d] # "none" => MidRound /\ current[d] # NoTask
    /\ pc[global_cpu] \in {"avail", "assign", "commit"} => current[global_cpu] = NoTask

\* The queue holds the tasks of S, each of them once.
Lists(queue, S) ==
    /\ \A i \in DOMAIN queue : queue[i] \in S
    /\ \A i, j \in DOMAIN queue : queue[i] = queue[j] => i = j
    /\ \A t \in S : \E i \in DOMAIN queue : queue[i] = t

InState(state) == {t \in known : State(t) = state}

\* The current task of c is on c, or a transaction for it is under way.
Placed(c) ==
    current[c] # NoTask =>
      /\ current[c] \in known
      /\ IF txn[c] = "none" THEN State(current[c]) = "kOnCpu" /\ task[current[c]].cpu = c
                            ELSE State(current[c]) = "kRunnable"

Places ==
    /\ Lists(run_queue, InState("kQueued"))
    /\ Lists(yielding, InState("kYielding"))
    /\ \A c \in Cpus : Placed(c)
    /\ \A c, d \in Cpus : current[c] = current[d] /\ current[c] # NoTask => c = d
    /\ \A t \in known : State(t) \in {"kOnCpu", "kRunnable"} => \E c \in Cpus : current[c] = t

Mailbox == channel[DefaultChan]
About(q, t) == \E i \in DOMAIN q : q[i].task = t

\* The task on c is known, has no unread message, and is c's current task or was
\* displaced by the scheduler.
RunsOn(c) ==
    kcur[c] # NoTask =>
      /\ ~agentRuns[c]
      /\ kstate[kcur[c]] = "running" /\ on_cpu[kcur[c]]
      /\ kcur[c] \in known /\ ~About(Mailbox, kcur[c])
      /\ \/ current[c] = kcur[c]
         \/ /\ TimeSlice /\ InBound(kcur[c])
            /\ State(kcur[c]) = "kQueued" \/ (State(kcur[c]) = "kYielding" /\ MidRound)
      /\ cfs[c] \/ c \in available => InBound(kcur[c])
      /\ c \in available => TimeSlice

\* The current task of c is on c, or there is an unread message about it, or its
\* transaction has not put it there.
Booked(c) ==
    current[c] # NoTask =>
      /\ txn[c] = "open" => ~on_cpu[current[c]]
      /\ txn[c] \in {"open", "failed"} => \A d \in Cpus : kcur[d] # current[c]
      /\ txn[c] \in {"none", "complete"} => kcur[c] = current[c] \/ About(Mailbox, current[c])

\* How far a barrier is beyond the bound: exits are not optional.
Slack(ks) == IF ks = "gone" THEN 2 ELSE IF ks = "dying" THEN 1 ELSE 0

Switches ==
    /\ \A c \in Cpus : ~chain[c] /\ RunsOn(c) /\ Booked(c)
    /\ \A c, d \in Cpus : kcur[c] = kcur[d] /\ kcur[c] # NoTask => c = d
    /\ \A t \in Tasks : /\ kstate[t] = "running" => \E c \in Cpus : kcur[c] = t
                       /\ barrier[t] <= MaxBarrier + Slack(kstate[t])

\* What the scheduler knows of a task, what a task is in the kernel, and what it
\* is after message m.
View(t, S, run_state) == IF t \notin S THEN "out"
                         ELSE IF run_state = "kBlocked" THEN "blocked" ELSE "runnable"
KView(ks) == CASE ks \in {"out", "gone"} -> "out"
               [] ks \in {"blocked", "dying"} -> "blocked"
               [] OTHER -> "runnable"
After(m) == CASE m.type \in {"DEPARTED", "DEAD"} -> "out"
              [] m.type = "BLOCKED" \/ (m.type = "NEW" /\ ~m.flag) -> "blocked"
              [] OTHER -> "runnable"

\* The messages of a task that leaves its cpu, and m may come next in view v.
Leaving == {"BLOCKED", "YIELD", "PREEMPT"}
Fits(v, m) == CASE m.type = "NEW" -> v = "out"
                [] m.type \in {"WAKEUP", "DEAD"} -> v = "blocked"
                [] m.type \in Leaving -> v = "runnable"
                [] m.type = "DEPARTED" -> v # "out"
                [] OTHER -> FALSE

\* Position i of q is its task's first or last, or its next is j.
FirstIn(q, i) == \A j \in 1 .. i - 1 : q[j].task # q[i].task
LastIn(q, i) == \A j \in i + 1 .. Len(q) : q[j].task # q[i].task
Adjacent(q, i, j) ==
    /\ i < j /\ q[i].task = q[j].task
    /\ \A k \in i + 1 .. j - 1 : q[k].task # q[i].task

Letter(i) ==
    LET m == Mailbox[i]
        t == m.task
    IN  /\ t \in Tasks
        /\ m.seqnum <= barrier[t]
        /\ t \in known => m.seqnum > task[t].seqnum
        /\ FirstIn(Mailbox, i) =>
             /\ Fits(View(t, known, State(t)), m)
             /\ m.type \in Leaving /\ ~MidRound => State(t) \in {"kOnCpu", "kQueued"}
        /\ LastIn(Mailbox, i) => After(m) = KView(kstate[t]) /\ m.seqnum = barrier[t]

Successive(i, j) ==
    /\ Mailbox[i].task = Mailbox[j].task /\ i < j => Mailbox[i].seqnum < Mailbox[j].seqnum
    /\ Adjacent(Mailbox, i, j) =>
         Fits(After(Mailbox[i]), Mailbox[j]) /\ Mailbox[j].type \notin Leaving

Settled(t) ==
    /\ t \in known => task[t].seqnum <= barrier[t]
    /\ ~About(Mailbox, t) => /\ View(t, known, State(t)) = KView(kstate[t])
                             /\ t \in known => task[t].seqnum = barrier[t]

Mail == /\ \A i \in DOMAIN Mailbox : Letter(i)
        /\ \A i, j \in DOMAIN Mailbox : Successive(i, j)
        /\ \A t \in Tasks : Settled(t)

IInv == TypeOK /\ ~fault /\ Roles /\ Rounds /\ Places /\ Switches /\ Mail

\* A number is not both above and not above another.
LEMMA NotBoth ==
    ASSUME NEW a \in Nat, NEW b \in Nat, a <= b, a > b
    PROVE  FALSE
  OBVIOUS

\* A task that lives is within the bound.
LEMMA SlackFacts ==
    ASSUME NEW ks, ks \in {"running", "runnable"}, NEW b, b <= MaxBarrier, MaxBarrier \in Nat
    PROVE  b <= MaxBarrier + Slack(ks)
  BY DEF Slack

\* An empty queue lists no task.
LEMMA EmptyLists ==
    ASSUME NEW S, Lists(<< >>, S)
    PROVE  S = {}
  BY DEF Lists

\* A sequence and one element more.
LEMMA AppendFacts ==
    ASSUME NEW S, NEW q \in Seq(S), NEW m \in S
    PROVE  LET r == Append(q, m) IN
           /\ r \in Seq(S) /\ Len(r) = Len(q) + 1 /\ Len(q) \in Nat
           /\ DOMAIN q = 1 .. Len(q) /\ DOMAIN r = 1 .. Len(q) + 1
           /\ \A i \in 1 .. Len(q) : r[i] = q[i]
           /\ r[Len(q) + 1] = m
  OBVIOUS

\* A sequence and its first element less.
LEMMA TailFacts ==
    ASSUME NEW S, NEW q \in Seq(S), q # << >>
    PROVE  LET r == Tail(q) IN
           /\ r \in Seq(S) /\ Len(r) = Len(q) - 1 /\ Len(q) \in Nat \ {0}
           /\ DOMAIN q = 1 .. Len(q) /\ DOMAIN r = 1 .. Len(q) - 1
           /\ \A i \in 1 .. Len(q) - 1 : r[i] = q[i + 1]
           /\ \A i \in 2 .. Len(q) : q[i] = r[i - 1]
           /\ Head(q) = q[1]
  OBVIOUS

\* A message that is legal in the task's state is added to the mail.
LEMMA PostMail ==
    ASSUME TypeOK, Mail, NEW t \in Tasks, NEW m \in Messages,
           m.task = t, m.seqnum = barrier[t] + 1,
           Mailbox' = Append(Mailbox, m),
           barrier' = [barrier EXCEPT ![t] = m.seqnum],
           known' = known, task' = task, MidRound' <=> MidRound,
           \A u \in Tasks : u # t => KView(kstate'[u]) = KView(kstate[u]),
           Fits(KView(kstate[t]), m), After(m) = KView(kstate'[t]),
           m.type \in Leaving =>
             ~About(Mailbox, t) /\ (~MidRound => State(t) \in {"kOnCpu", "kQueued"})
    PROVE  Mail'
  <1> DEFINE q == Mailbox
             n == Len(Mailbox)
             r == Mailbox'
  <1>1. q \in Seq(Messages)
    BY KernelAssumption DEF TypeOK, KTypeOK, Mailbox
  <1>2. /\ n \in Nat /\ DOMAIN q = 1 .. n /\ DOMAIN r = 1 .. n + 1 /\ Len(r) = n + 1
        /\ \A i \in 1 .. n : r[i] = q[i]
        /\ r[n + 1] = m
    BY <1>1, AppendFacts
  <1>3. /\ barrier \in [Tasks -> Nat] /\ barrier'[t] = barrier[t] + 1
        /\ \A u \in Tasks : u # t => barrier'[u] = barrier[u]
        /\ \A u \in Tasks : task[u].seqnum \in Nat
        /\ \A i \in 1 .. n : q[i].seqnum \in Nat
    <2>1. barrier \in [Tasks -> Nat]
      BY KernelAssumption DEF TypeOK, KTypeOK, Seqnums
    <2>2. ASSUME NEW u \in Tasks  PROVE task[u].seqnum \in Nat
      BY KernelAssumption DEF TypeOK, FifoTask, Seqnums
    <2>3. ASSUME NEW i \in 1 .. n  PROVE q[i].seqnum \in Nat
      <3>1. q[i] \in Messages
        BY <1>1, <1>2
      <3> QED  BY <3>1, KernelAssumption DEF Messages, Seqnums
    <2> QED  BY <2>1, <2>2, <2>3
  <1>4. /\ \A u : About(r, u) <=> About(q, u) \/ u = t
        /\ \A i \in 1 .. n : FirstIn(r, i) <=> FirstIn(q, i)
        /\ \A i \in 1 .. n : LastIn(r, i) <=> LastIn(q, i) /\ q[i].task # t
        /\ \A i \in 1 .. n : Adjacent(r, i, n + 1) <=> q[i].task = t /\ LastIn(q, i)
        /\ \A i, j \in 1 .. n : Adjacent(r, i, j) <=> Adjacent(q, i, j)
        /\ FirstIn(r, n + 1) <=> ~About(q, t)
    <2>1. \A u : About(r, u) <=> About(q, u) \/ u = t
      BY <1>2 DEF About
    <2>2. \A i \in 1 .. n : FirstIn(r, i) <=> FirstIn(q, i)
      BY <1>2 DEF FirstIn
    <2>3. \A i \in 1 .. n : LastIn(r, i) <=> LastIn(q, i) /\ q[i].task # t
      BY <1>2 DEF LastIn
    <2>4. \A i \in 1 .. n : Adjacent(r, i, n + 1) <=> q[i].task = t /\ LastIn(q, i)
      BY <1>2 DEF Adjacent, LastIn
    <2>5. \A i, j \in 1 .. n : Adjacent(r, i, j) <=> Adjacent(q, i, j)
      BY <1>2 DEF Adjacent
    <2>6. FirstIn(r, n + 1) <=> ~About(q, t)
      BY <1>2 DEF FirstIn, About
    <2> QED  BY <2>1, <2>2, <2>3, <2>4, <2>5, <2>6
  <1>5. \A i \in 1 .. n + 1 : ~Adjacent(r, n + 1, i)
    BY <1>2 DEF Adjacent
  <1>6. ASSUME NEW i \in DOMAIN r  PROVE Letter(i)'
    <2>1. CASE i \in 1 .. n
      <3>1. Letter(i)
        BY <2>1, <1>2, Zenon DEF Mail
      <3>2. r[i] = q[i] /\ (FirstIn(r, i) <=> FirstIn(q, i))
            /\ (LastIn(r, i) <=> LastIn(q, i) /\ q[i].task # t)
        BY <2>1, <1>2, <1>4, Zenon
      <3> QED  BY <3>1, <3>2, <1>3, SMTT(30) DEF Letter, State
    <2>2. CASE i = n + 1
      <3>1. r[i] = m /\ (FirstIn(r, i) => ~About(q, t))
        BY <2>2, <1>2, <1>4
      <3>2. Settled(t)
        BY Zenon DEF Mail
      <3> QED  BY <3>1, <3>2, <1>3 DEF Letter, Settled, State
    <2> QED  BY <1>2, <2>1, <2>2, SMTT(30)
  <1>7. ASSUME NEW i \in DOMAIN r, NEW j \in DOMAIN r
        PROVE  Successive(i, j)'
    <2>1. CASE i \in 1 .. n /\ j \in 1 .. n
      BY <2>1, <1>2, <1>4 DEF Mail, Successive
    <2>2. CASE i \in 1 .. n /\ j = n + 1
      <3>1. Letter(i)
        BY <2>2, <1>2, Zenon DEF Mail
      <3>2. r[i] = q[i] /\ r[j] = m /\ (Adjacent(r, i, j) => q[i].task = t /\ LastIn(q, i))
        BY <2>2, <1>2, <1>4
      <3>3. q[i].task = t => About(q, t)
        BY <2>2, <1>2, Zenon DEF About
      <3> QED  BY <3>1, <3>2, <3>3, <1>3, <2>2, SMTT(30) DEF Letter, Successive
    <2>3. CASE i = n + 1
      BY <2>3, <1>2, <1>5 DEF Successive
    <2> QED  BY <1>2, <2>1, <2>2, <2>3
  <1>8. ASSUME NEW u \in Tasks  PROVE Settled(u)'
    BY <1>8, <1>3, <1>4 DEF Mail, Settled, State
  <1> QED  BY <1>6, <1>7, <1>8 DEF Mail

\* The scheduler reads the first message and knows what it says.
LEMMA TakeMail ==
    ASSUME TypeOK, Mail, NEW t, Mailbox # << >>, Head(Mailbox).task = t,
           Mailbox' = Tail(Mailbox), kstate' = kstate, barrier' = barrier,
           ~MidRound, ~MidRound',
           \A u \in Tasks : u # t => (u \in known' <=> u \in known) /\ task'[u] = task[u],
           View(t, known', task'[t].run_state) = After(Head(Mailbox)),
           t \in known' => task'[t].seqnum = Head(Mailbox).seqnum
    PROVE  Mail'
  <1> DEFINE q == Mailbox
             n == Len(Mailbox)
             r == Mailbox'
             m == Head(Mailbox)
  <1>1. q \in Seq(Messages)
    BY KernelAssumption, Zenon DEF TypeOK, KTypeOK, Mailbox
  <1>2. /\ n \in Nat \ {0} /\ DOMAIN q = 1 .. n
        /\ DOMAIN r = 1 .. n - 1 /\ Len(r) = n - 1
        /\ \A i \in 1 .. n - 1 : r[i] = q[i + 1]
        /\ \A i \in 2 .. n : q[i] = r[i - 1]
        /\ m = q[1]
    BY <1>1, TailFacts
  <1>3. /\ barrier \in [Tasks -> Nat]
        /\ \A u \in Tasks : task[u].seqnum \in Nat
        /\ \A i \in 1 .. n : q[i].seqnum \in Nat
    <2>1. barrier \in [Tasks -> Nat]
      BY KernelAssumption DEF TypeOK, KTypeOK, Seqnums
    <2>2. ASSUME NEW u \in Tasks  PROVE task[u].seqnum \in Nat
      BY KernelAssumption DEF TypeOK, FifoTask, Seqnums
    <2>3. ASSUME NEW i \in 1 .. n  PROVE q[i].seqnum \in Nat
      <3>1. q[i] \in Messages
        BY <1>1, <1>2
      <3> QED  BY <3>1, KernelAssumption DEF Messages, Seqnums
    <2> QED  BY <2>1, <2>2, <2>3, Zenon
  <1>4. Letter(1) /\ FirstIn(q, 1) /\ 1 \in DOMAIN q
    BY <1>2 DEF Mail, FirstIn
  <1>5. /\ \A u : About(q, u) <=> About(r, u) \/ u = t
        /\ \A i \in 1 .. n - 1 : q[i + 1].task # t => (FirstIn(r, i) <=> FirstIn(q, i + 1))
        /\ \A i \in 1 .. n - 1 : q[i + 1].task = t => (FirstIn(r, i) <=> Adjacent(q, 1, i + 1))
        /\ \A i \in 1 .. n - 1 : LastIn(r, i) <=> LastIn(q, i + 1)
        /\ \A i, j \in 1 .. n - 1 : Adjacent(r, i, j) <=> Adjacent(q, i + 1, j + 1)
        /\ ~About(r, t) => LastIn(q, 1)
    <2>1. ASSUME NEW u  PROVE About(q, u) <=> About(r, u) \/ u = t
      <3>1. ASSUME NEW i \in DOMAIN q, q[i].task = u  PROVE About(r, u) \/ u = t
        BY ONLY <3>1, <1>2, m.task = t DEF About
      <3>2. ASSUME NEW i \in DOMAIN r, r[i].task = u  PROVE About(q, u)
        <4>1. i + 1 \in DOMAIN q /\ q[i + 1].task = u
          BY ONLY <3>2, <1>2
        <4> QED  BY ONLY <4>1 DEF About
      <3>3. About(q, t)
        BY ONLY <1>2, m.task = t DEF About
      <3> QED  BY ONLY <3>1, <3>2, <3>3, Zenon DEF About
    <2>2. \A i \in 1 .. n - 1 : q[i + 1].task # t => (FirstIn(r, i) <=> FirstIn(q, i + 1))
      BY ONLY <1>2, m.task = t DEF FirstIn
    <2>3. \A i \in 1 .. n - 1 : q[i + 1].task = t => (FirstIn(r, i) <=> Adjacent(q, 1, i + 1))
      BY ONLY <1>2, m.task = t DEF FirstIn, Adjacent
    <2>4. ASSUME NEW i \in 1 .. n - 1  PROVE LastIn(r, i) <=> LastIn(q, i + 1)
      <3>1. r[i] = q[i + 1] /\ \A j \in i + 2 .. n : q[j] = r[j - 1] /\ j - 1 \in i + 1 .. n - 1
        BY ONLY <1>2, i \in 1 .. n - 1
      <3>2. \A j \in i + 1 .. n - 1 : r[j] = q[j + 1] /\ j + 1 \in i + 2 .. n
        BY ONLY <1>2, i \in 1 .. n - 1
      <3>3. ASSUME LastIn(r, i), NEW j \in i + 1 + 1 .. n  PROVE q[j].task # q[i + 1].task
        <4>1. j \in i + 2 .. n
          BY ONLY i \in 1 .. n - 1, j \in i + 1 + 1 .. n
        <4> QED  BY ONLY <3>1, <3>3, <4>1, <1>2 DEF LastIn
      <3>4. ASSUME LastIn(q, i + 1), NEW j \in i + 1 .. n - 1  PROVE r[j].task # r[i].task
        <4>1. j + 1 \in i + 1 + 1 .. n
          BY ONLY i \in 1 .. n - 1, j \in i + 1 .. n - 1, <1>2
        <4> QED  BY ONLY <3>1, <3>2, <3>4, <4>1, Zenon DEF LastIn
      <3> QED  BY ONLY <3>3, <3>4, <1>2, Zenon DEF LastIn
    <2>5. \A i, j \in 1 .. n - 1 : Adjacent(r, i, j) <=> Adjacent(q, i + 1, j + 1)
      BY ONLY <1>2, m.task = t DEF Adjacent
    <2>6. ~About(r, t) => LastIn(q, 1)
      BY ONLY <1>2, m.task = t DEF LastIn, About
    <2> QED  BY <2>1, <2>2, <2>3, <2>4, <2>5, <2>6, Zenon
  <1>6. ASSUME NEW i \in DOMAIN r  PROVE Letter(i)'
    <2>1. i \in 1 .. n - 1 /\ i + 1 \in DOMAIN q /\ r[i] = q[i + 1]
      BY <1>2
    <2>2. Letter(i + 1) /\ Successive(1, i + 1)
      BY <2>1, <1>4, Zenon DEF Mail
    <2>3. CASE q[i + 1].task # t
      <3> DEFINE u == q[i + 1].task
      <3>1. u \in Tasks
        BY <2>2, Zenon DEF Letter
      <3>2. (u \in known' <=> u \in known) /\ task'[u] = task[u]
        BY <3>1, <2>3, Zenon
      <3>3. (FirstIn(r, i) <=> FirstIn(q, i + 1)) /\ (LastIn(r, i) <=> LastIn(q, i + 1))
        BY <2>1, <2>3, <1>5, Zenon
      <3>4. View(u, known', task'[u].run_state) = View(u, known, task[u].run_state)
        BY <3>2, Zenon DEF View
      <3> QED  BY <2>1, <2>2, <3>2, <3>3, <3>4, Zenon DEF Letter, State
    <2>4. CASE q[i + 1].task = t
      <3>1. q[1].seqnum < q[i + 1].seqnum
        BY <2>1, <2>2, <2>4, <1>2, SMTT(30) DEF Successive
      <3>2. FirstIn(r, i) => Fits(After(q[1]), q[i + 1]) /\ q[i + 1].type \notin Leaving
        BY <2>1, <2>2, <2>4, <1>5, Zenon DEF Successive
      <3> QED  BY <2>1, <2>2, <2>4, <3>1, <3>2, <1>2, <1>5 DEF Letter, State
    <2> QED  BY <2>3, <2>4, Zenon
  <1>7. ASSUME NEW i \in DOMAIN r, NEW j \in DOMAIN r
        PROVE  Successive(i, j)'
    <2>1. /\ i \in 1 .. n - 1 /\ i + 1 \in DOMAIN q /\ r[i] = q[i + 1]
          /\ j \in 1 .. n - 1 /\ j + 1 \in DOMAIN q /\ r[j] = q[j + 1]
      BY <1>2
    <2>2. Successive(i + 1, j + 1)
      BY <2>1 DEF Mail
    <2> QED  BY <2>1, <2>2, <1>5 DEF Successive
  <1>8. ASSUME NEW u \in Tasks  PROVE Settled(u)'
    <2>1. CASE u # t
      <3>1. (About(r, u) <=> About(q, u)) /\ Settled(u)
        BY <2>1, <1>5 DEF Mail
      <3>2. /\ (u \in known' <=> u \in known) /\ task'[u] = task[u]
            /\ View(u, known', task'[u].run_state) = View(u, known, task[u].run_state)
        BY <2>1, Zenon DEF View
      <3> QED  BY <3>1, <3>2, Zenon DEF Settled, State
    <2>2. CASE u = t
      BY <2>2, <1>2, <1>3, <1>4, <1>5, Zenon DEF Letter, Settled, State
    <2> QED  BY <2>1, <2>2, Zenon
  <1> QED  BY <1>6, <1>7, <1>8, Zenon DEF Mail

-----------------------------------------------------------------------------
(* What the queue operations do to a queue that lists a set of tasks. *)

\* Enqueue, in front or behind: one task more is listed.
LEMMA PushLists ==
    ASSUME NEW S \in SUBSET Tasks, NEW q \in Seq(Tasks), Lists(q, S),
           NEW t \in Tasks \ S, NEW front
    PROVE  Pushed(q, t, front) \in Seq(Tasks) /\ Lists(Pushed(q, t, front), S \cup {t})
  <1>1. CASE front
    <2> DEFINE r == <<t>> \o q
    <2>1. /\ Len(q) \in Nat /\ DOMAIN q = 1 .. Len(q) /\ DOMAIN r = 1 .. Len(q) + 1
          /\ r \in Seq(Tasks) /\ r[1] = t
          /\ \A i \in 2 .. Len(q) + 1 : r[i] = q[i - 1] /\ i - 1 \in DOMAIN q
          /\ \A i \in DOMAIN q : q[i] = r[i + 1] /\ i + 1 \in DOMAIN r
      OBVIOUS
    <2>2. \A i \in DOMAIN r : r[i] \in S \cup {t}
      BY ONLY <2>1, Lists(q, S) DEF Lists
    <2>3. ASSUME NEW i \in DOMAIN r, NEW j \in DOMAIN r, r[i] = r[j]  PROVE i = j
      <3>1. i = 1 \/ (i \in 2 .. Len(q) + 1 /\ r[i] = q[i - 1] /\ i - 1 \in DOMAIN q)
        BY ONLY <2>1, i \in DOMAIN r
      <3>2. j = 1 \/ (j \in 2 .. Len(q) + 1 /\ r[j] = q[j - 1] /\ j - 1 \in DOMAIN q)
        BY ONLY <2>1, j \in DOMAIN r
      <3> QED  BY ONLY <2>1, <2>3, <3>1, <3>2, Lists(q, S), t \notin S DEF Lists
    <2>4. \A u \in S \cup {t} : \E i \in DOMAIN r : r[i] = u
      <3>1. ASSUME NEW u \in S  PROVE \E i \in DOMAIN r : r[i] = u
        <4>1. PICK i \in DOMAIN q : q[i] = u
          BY ONLY Lists(q, S), u \in S DEF Lists
        <4> QED  BY ONLY <2>1, <4>1, Zenon
      <3>2. \E i \in DOMAIN r : r[i] = t
        BY ONLY <2>1
      <3> QED  BY ONLY <3>1, <3>2, Zenon
    <2>5. Lists(r, S \cup {t})
      BY ONLY <2>2, <2>3, <2>4 DEF Lists
    <2> QED  BY <1>1, <2>1, <2>5, Zenon DEF Pushed
  <1>2. CASE ~front
    <2> DEFINE r == Append(q, t)
    <2>1. /\ Len(q) \in Nat /\ DOMAIN q = 1 .. Len(q) /\ DOMAIN r = 1 .. Len(q) + 1
          /\ r \in Seq(Tasks) /\ r[Len(q) + 1] = t
          /\ \A i \in DOMAIN q : r[i] = q[i] /\ i \in DOMAIN r
      OBVIOUS
    <2>2. Lists(r, S \cup {t})
      BY <2>1 DEF Lists
    <2> QED  BY <1>2, <2>1, <2>2 DEF Pushed
  <1> QED  BY <1>1, <1>2

\* Dequeue: the head is listed, and the rest lists the others.
LEMMA TailLists ==
    ASSUME NEW S \in SUBSET Tasks, NEW q \in Seq(Tasks), Lists(q, S), q # << >>
    PROVE  /\ Head(q) \in S
           /\ Tail(q) \in Seq(Tasks) /\ Lists(Tail(q), S \ {Head(q)})
  <1> DEFINE r == Tail(q)
  <1>1. /\ r \in Seq(Tasks) /\ Len(q) \in Nat \ {0}
        /\ DOMAIN q = 1 .. Len(q) /\ DOMAIN r = 1 .. Len(q) - 1 /\ Head(q) = q[1]
        /\ \A i \in DOMAIN r : r[i] = q[i + 1] /\ i + 1 \in DOMAIN q
        /\ \A i \in 2 .. Len(q) : q[i] = r[i - 1] /\ i - 1 \in DOMAIN r
    BY TailFacts
  <1>2. Lists(r, S \ {Head(q)})
    <2>1. ASSUME NEW i \in DOMAIN r  PROVE r[i] \in S \ {Head(q)}
      BY ONLY <1>1, i \in DOMAIN r, Lists(q, S) DEF Lists
    <2>2. ASSUME NEW i \in DOMAIN r, NEW j \in DOMAIN r, r[i] = r[j]  PROVE i = j
      BY ONLY <1>1, <2>2, Lists(q, S) DEF Lists
    <2>3. ASSUME NEW u \in S \ {Head(q)}  PROVE \E i \in DOMAIN r : r[i] = u
      <3>1. PICK j \in DOMAIN q : q[j] = u
        BY ONLY u \in S \ {Head(q)}, Lists(q, S), Zenon DEF Lists
      <3>2. j \in 2 .. Len(q)
        BY ONLY <1>1, <3>1, u \in S \ {Head(q)}
      <3> QED  BY ONLY <1>1, <3>1, <3>2, Zenon
    <2> QED  BY ONLY <2>1, <2>2, <2>3 DEF Lists
  <1> QED  BY <1>1, <1>2 DEF Lists

\* What the operators of Sequences return.
LEMMA ConcatFacts ==
    ASSUME NEW S, NEW a \in Seq(S), NEW b \in Seq(S)
    PROVE  /\ a \o b \in Seq(S) /\ Len(a \o b) = Len(a) + Len(b)
           /\ DOMAIN (a \o b) = 1 .. Len(a) + Len(b)
           /\ \A i \in 1 .. Len(a) + Len(b) :
                (a \o b)[i] = IF i <= Len(a) THEN a[i] ELSE b[i - Len(a)]
  OBVIOUS

\* A queue without its k-th task.
LEMMA EraseFacts ==
    ASSUME NEW q \in Seq(Tasks), NEW k \in DOMAIN q
    PROVE  LET r == Erase(q, k) IN
           /\ r \in Seq(Tasks) /\ Len(r) = Len(q) - 1 /\ DOMAIN r = 1 .. Len(q) - 1
           /\ \A i \in 1 .. k - 1 : r[i] = q[i]
           /\ \A i \in k .. Len(q) - 1 : r[i] = q[i + 1]
  <1> DEFINE r == Erase(q, k)
  <1>0. Len(q) \in Nat /\ DOMAIN q = 1 .. Len(q) /\ k \in 1 .. Len(q)
    OBVIOUS
  <1> DEFINE a == SubSeq(q, 1, k - 1)
             b == SubSeq(q, k + 1, Len(q))
  <1>1. a \in Seq(Tasks) /\ Len(a) = k - 1 /\ \A i \in 1 .. k - 1 : a[i] = q[i]
    BY ONLY <1>0, q \in Seq(Tasks)
  <1>2. b \in Seq(Tasks) /\ Len(b) = Len(q) - k /\ \A i \in 1 .. Len(q) - k : b[i] = q[k + i]
    BY ONLY <1>0, q \in Seq(Tasks)
  <1> HIDE DEF a, b
  <1>3. /\ a \o b \in Seq(Tasks) /\ Len(a \o b) = Len(q) - 1
        /\ DOMAIN (a \o b) = 1 .. Len(q) - 1
        /\ \A i \in 1 .. k - 1 : (a \o b)[i] = a[i]
        /\ \A i \in k .. Len(q) - 1 : (a \o b)[i] = b[i - (k - 1)]
    <2>1. /\ a \o b \in Seq(Tasks) /\ Len(a \o b) = Len(a) + Len(b)
          /\ DOMAIN (a \o b) = 1 .. Len(a) + Len(b)
          /\ \A i \in 1 .. Len(a) + Len(b) :
               (a \o b)[i] = IF i <= Len(a) THEN a[i] ELSE b[i - Len(a)]
      BY ONLY <1>1, <1>2, ConcatFacts, Zenon
    <2>2. Len(a) + Len(b) = Len(q) - 1
      BY ONLY <1>0, <1>1, <1>2
    <2>3. ASSUME NEW i \in 1 .. k - 1  PROVE (a \o b)[i] = a[i]
      <3>1. i \in 1 .. Len(a) + Len(b) /\ i <= Len(a)
        BY ONLY <1>0, <1>1, <1>2
      <3> QED  BY ONLY <2>1, <3>1, Zenon
    <2>4. ASSUME NEW i \in k .. Len(q) - 1  PROVE (a \o b)[i] = b[i - (k - 1)]
      <3>1. i \in 1 .. Len(a) + Len(b) /\ ~(i <= Len(a)) /\ Len(a) = k - 1
        BY ONLY <1>0, <1>1, <1>2
      <3> QED  BY ONLY <2>1, <3>1, Zenon
    <2> QED  BY ONLY <2>1, <2>2, <2>3, <2>4, Zenon
  <1>4. r = a \o b
    BY Zenon DEF Erase, a, b
  <1>5. \A i \in k .. Len(q) - 1 : b[i - (k - 1)] = q[i + 1]
    <2>1. ASSUME NEW i \in k .. Len(q) - 1  PROVE b[i - (k - 1)] = q[i + 1]
      <3>1. i - (k - 1) \in 1 .. Len(q) - k /\ k + (i - (k - 1)) = i + 1
        BY ONLY <1>0, i \in k .. Len(q) - 1
      <3> QED  BY ONLY <3>1, <1>2
    <2> QED  BY ONLY <2>1, ZenonT(60)
  <1> QED  BY ONLY <1>0, <1>1, <1>3, <1>4, <1>5, Zenon

\* RemoveFromRunqueue and Unyield find a listed task wherever it is.
LEMMA Found ==
    ASSUME NEW S, NEW q \in Seq(Tasks), Lists(q, S), NEW t \in S
    PROVE  \E k \in DOMAIN q : /\ q[k] = t /\ Contains(q, t)
                               /\ RemoveFromRunqueue(q, t) = Erase(q, k)
                               /\ Unyield(q, t) = Erase(q, k)
  <1>1. PICK k \in DOMAIN q : q[k] = t
    BY DEF Lists
  <1>2. k \in Nat
    OBVIOUS
  <1>3. Contains(q, t)
    BY <1>1, Zenon DEF Contains
  <1>4. Positions(q, t) = {k}
    BY <1>1 DEF Positions, Lists
  <1>5. Max(Positions(q, t)) = k /\ Min(Positions(q, t)) = k
    BY <1>4, <1>2 DEF Max, Min
  <1> QED  BY <1>1, <1>3, <1>5, Zenon DEF RemoveFromRunqueue, Unyield

\* They take it out.
LEMMA RemoveLists ==
    ASSUME NEW S \in SUBSET Tasks, NEW q \in Seq(Tasks), Lists(q, S), NEW t \in S
    PROVE  /\ Contains(q, t)
           /\ RemoveFromRunqueue(q, t) \in Seq(Tasks)
           /\ Lists(RemoveFromRunqueue(q, t), S \ {t})
           /\ Unyield(q, t) = RemoveFromRunqueue(q, t)
  <1>1. PICK k \in DOMAIN q : /\ q[k] = t /\ Contains(q, t)
                             /\ RemoveFromRunqueue(q, t) = Erase(q, k)
                             /\ Unyield(q, t) = Erase(q, k)
    BY Found, Zenon
  <1>2. Len(q) \in Nat /\ DOMAIN q = 1 .. Len(q) /\ k \in 1 .. Len(q)
    OBVIOUS
  <1> DEFINE r == Erase(q, k)
  <1>7. /\ r \in Seq(Tasks) /\ Len(r) = Len(q) - 1 /\ DOMAIN r = 1 .. Len(q) - 1
        /\ \A i \in 1 .. k - 1 : r[i] = q[i]
        /\ \A i \in k .. Len(q) - 1 : r[i] = q[i + 1]
    BY EraseFacts, Zenon
  <1> HIDE DEF r
  <1>8. Lists(r, S \ {t})
    <2>1. ASSUME NEW i \in DOMAIN r
          PROVE  \/ i \in 1 .. k - 1 /\ i \in DOMAIN q /\ r[i] = q[i]
                 \/ i \in k .. Len(q) - 1 /\ i + 1 \in DOMAIN q /\ r[i] = q[i + 1]
      BY ONLY <1>2, <1>7, i \in DOMAIN r
    <2>2. ASSUME NEW i \in DOMAIN r  PROVE r[i] \in S \ {t}
      BY ONLY <2>1, <1>1, <1>2, i \in DOMAIN r, Lists(q, S) DEF Lists
    <2>3. ASSUME NEW i \in DOMAIN r, NEW j \in DOMAIN r, r[i] = r[j]  PROVE i = j
      BY ONLY <2>1, <2>3, <1>2, <1>7, Lists(q, S) DEF Lists
    <2>4. ASSUME NEW u \in S \ {t}  PROVE \E i \in DOMAIN r : r[i] = u
      <3>1. PICK j \in DOMAIN q : q[j] = u
        BY ONLY u \in S \ {t}, Lists(q, S) DEF Lists
      <3>2. CASE j < k
        BY ONLY <1>2, <1>7, <3>1, <3>2
      <3>3. CASE j > k
        <4>1. j - 1 \in DOMAIN r /\ r[j - 1] = q[j]
          BY ONLY <1>2, <1>7, <3>1, <3>3
        <4> QED  BY ONLY <4>1, <3>1
      <3> QED  BY ONLY <1>1, <1>2, <3>1, <3>2, <3>3, u \in S \ {t}
    <2> QED  BY ONLY <2>2, <2>3, <2>4 DEF Lists
  <1> QED  BY <1>1, <1>7, <1>8, Zenon DEF r

\* A task that is not listed is not found.
LEMMA AbsentLists ==
    ASSUME NEW S \in SUBSET Tasks, NEW q \in Seq(Tasks), Lists(q, S), NEW t, t \notin S
    PROVE  ~Contains(q, t) /\ RemoveFromRunqueue(q, t) = q /\ Unyield(q, t) = q
  <1>1. ~Contains(q, t)
    BY DEF Contains, Lists
  <1> QED  BY <1>1 DEF RemoveFromRunqueue, Unyield

-----------------------------------------------------------------------------
(* Facts the steps share. *)

\* What the assumptions say of the constants.
LEMMA Constants ==
    /\ DefaultChan \in Channels /\ Channels = {DefaultChan} /\ DefaultChan \notin Cpus
    /\ NoTask \notin Tasks /\ MaxBarrier \in Nat /\ MaxBarrier > 0
    /\ Cpus \subseteq Nat /\ CfsCpus \subseteq Cpus /\ FirstGlobal \in Cpus /\ NoCpu \notin Cpus
    /\ AnyCpu \in Cpus
    /\ TimeSlice \in BOOLEAN /\ Returns \in BOOLEAN
  BY KernelAssumption, CentralizedAssumption DEF AnyCpu

\* The channel holds messages.
LEMMA MailTyped ==
    ASSUME IInv
    PROVE  Mailbox \in Seq(Messages) /\ \A i \in DOMAIN Mailbox : Mailbox[i] \in Messages
  <1>1. Mailbox \in Seq(Messages)
    BY Constants, Zenon DEF IInv, TypeOK, KTypeOK, Mailbox
  <1> QED  BY <1>1, SMTT(30)

\* A kernel event leaves alone what only the scheduler changes.
LEMMA KernelFrame ==
    ASSUME IInv, UNCHANGED svars, stale' = stale, agentRuns' = agentRuns
    PROVE  /\ ~fault' /\ Roles' /\ Rounds' /\ Places'
           /\ known' = known /\ task' = task /\ (MidRound' <=> MidRound)
  BY DEF IInv, svars, Roles, Rounds, Places, MidRound, Placed, InState, State

\* Typing of a step of the kernel alone.
LEMMA SvarsType == ASSUME TypeOK, UNCHANGED svars, KTypeOK'  PROVE TypeOK'
  BY Zenon DEF TypeOK, svars

\* The mail does not tell a runnable task from a running one.
LEMMA MailFrame ==
    ASSUME IInv, Mailbox' = Mailbox, barrier' = barrier, known' = known, task' = task,
           MidRound' <=> MidRound,
           \A u \in Tasks : KView(kstate'[u]) = KView(kstate[u])
    PROVE  Mail'
  <1>1. \A i \in DOMAIN Mailbox : Letter(i)'
    BY Zenon DEF IInv, Mail, Letter, State
  <1>2. \A i, j \in DOMAIN Mailbox : Successive(i, j)'
    BY Zenon DEF IInv, Mail, Successive
  <1>3. \A t \in Tasks : Settled(t)'
    BY Zenon DEF IInv, Mail, Settled, State
  <1> QED  BY <1>1, <1>2, <1>3, Zenon DEF Mail

\* Outside GlobalSchedule nothing is available and no transaction is under way.
LEMMA Idle ==
    ASSUME IInv, ~MidRound
    PROVE  available = {} /\ \A d \in Cpus : txn[d] = "none"
  BY DEF IInv, Rounds, MidRound

-----------------------------------------------------------------------------
(* The order of a queue. *)

\* A queue in which no task is twice agrees with itself.
LEMMA OrderSame ==
    ASSUME NEW S, NEW q \in Seq(Tasks), Lists(q, S)
    PROVE  SameOrder(q, q)
  BY DEF SameOrder, Lists

\* Enqueue of a task that is not there keeps the order, ...
LEMMA OrderPushed ==
    ASSUME NEW S, NEW q \in Seq(Tasks), Lists(q, S), NEW t \in Tasks \ S, NEW front
    PROVE  SameOrder(q, Pushed(q, t, front))
  <1> SUFFICES ASSUME NEW i \in DOMAIN q, NEW j \in DOMAIN q,
                      NEW k \in DOMAIN Pushed(q, t, front), NEW l \in DOMAIN Pushed(q, t, front),
                      i < j, q[i] = Pushed(q, t, front)[k], q[j] = Pushed(q, t, front)[l]
               PROVE  k < l
    BY DEF SameOrder
  <1>0. /\ Len(q) \in Nat /\ DOMAIN q = 1 .. Len(q) /\ i \in 1 .. Len(q) /\ j \in 1 .. Len(q)
        /\ q[i] # t /\ q[j] # t
        /\ \A a, b \in 1 .. Len(q) : q[a] = q[b] => a = b
    BY DEF Lists
  <1>1. CASE front
    <2> DEFINE r == <<t>> \o q
    <2>1. /\ DOMAIN r = 1 .. Len(q) + 1 /\ r[1] = t
          /\ \A a \in 2 .. Len(q) + 1 : r[a] = q[a - 1]
      OBVIOUS
    <2>2. r = Pushed(q, t, front)
      BY <1>1 DEF Pushed
    <2> HIDE DEF r
    <2>3. /\ k \in 2 .. Len(q) + 1 /\ l \in 2 .. Len(q) + 1
          /\ q[k - 1] = q[i] /\ q[l - 1] = q[j]
      BY <1>0, <2>1, <2>2
    <2>4. k - 1 \in 1 .. Len(q) /\ l - 1 \in 1 .. Len(q)
      BY <1>0, <2>3
    <2>5. k - 1 = i /\ l - 1 = j
      BY <1>0, <2>3, <2>4
    <2> QED  BY <1>0, <2>3, <2>5
  <1>2. CASE ~front
    <2> DEFINE r == Append(q, t)
    <2>1. /\ DOMAIN r = 1 .. Len(q) + 1 /\ r[Len(q) + 1] = t
          /\ \A a \in 1 .. Len(q) : r[a] = q[a]
      OBVIOUS
    <2>2. r = Pushed(q, t, front)
      BY <1>2 DEF Pushed
    <2> HIDE DEF r
    <2>3. /\ k \in 1 .. Len(q) /\ l \in 1 .. Len(q) /\ q[k] = q[i] /\ q[l] = q[j]
      BY <1>0, <2>1, <2>2
    <2>4. k = i /\ l = j
      BY <1>0, <2>3
    <2> QED  BY <2>4
  <1> QED  BY <1>1, <1>2

\* ... as does taking the k-th task out, ...
LEMMA OrderErase ==
    ASSUME NEW S, NEW q \in Seq(Tasks), Lists(q, S), NEW h \in DOMAIN q
    PROVE  SameOrder(q, Erase(q, h))
  <1> DEFINE r == Erase(q, h)
  <1>0. /\ DOMAIN r = 1 .. Len(q) - 1
        /\ \A i \in 1 .. h - 1 : r[i] = q[i]
        /\ \A i \in h .. Len(q) - 1 : r[i] = q[i + 1]
    BY EraseFacts, Zenon
  <1> HIDE DEF r
  <1>1. /\ Len(q) \in Nat /\ DOMAIN q = 1 .. Len(q) /\ h \in 1 .. Len(q)
        /\ \A a, b \in 1 .. Len(q) : q[a] = q[b] => a = b
    BY DEF Lists
  <1>2. SUFFICES ASSUME NEW i \in DOMAIN q, NEW j \in DOMAIN q, NEW k \in DOMAIN r, NEW l \in DOMAIN r,
                        i < j, q[i] = r[k], q[j] = r[l]
                 PROVE  k < l
    BY Zenon DEF SameOrder, r
  <1>3. ASSUME NEW a \in DOMAIN q, NEW m \in DOMAIN r, q[a] = r[m]
        PROVE  (m < h /\ m = a) \/ (h <= m /\ m + 1 = a)
    <2>1. a \in 1 .. Len(q) /\ m \in 1 .. Len(q) /\ m + 1 \in 1 .. Len(q)
      BY ONLY <1>0, <1>1, a \in DOMAIN q, m \in DOMAIN r
    <2>2. CASE m < h
      <3>1. r[m] = q[m]
        BY ONLY <1>0, <1>1, <2>1, <2>2
      <3> QED  BY ONLY <1>1, <1>3, <2>1, <2>2, <3>1
    <2>3. CASE h <= m
      <3>1. r[m] = q[m + 1]
        BY ONLY <1>0, <1>1, <2>1, <2>3, m \in DOMAIN r
      <3> QED  BY ONLY <1>1, <1>3, <2>1, <2>3, <3>1
    <2> QED  BY ONLY <1>1, <2>1, <2>2, <2>3
  <1>4. /\ (k < h /\ k = i) \/ (h <= k /\ k + 1 = i)
        /\ (l < h /\ l = j) \/ (h <= l /\ l + 1 = j)
    BY <1>2, <1>3
  <1> QED  BY <1>0, <1>1, <1>2, <1>3, <1>4

\* ... wherever it is, if it is there at all, ...
LEMMA OrderRemove ==
    ASSUME NEW S \in SUBSET Tasks, NEW q \in Seq(Tasks), Lists(q, S), NEW t \in Tasks
    PROVE  SameOrder(q, RemoveFromRunqueue(q, t))
  <1>1. CASE t \in S
    <2>1. PICK k \in DOMAIN q : RemoveFromRunqueue(q, t) = Erase(q, k)
      BY <1>1, Found, Zenon
    <2> QED  BY <2>1, OrderErase
  <1>2. CASE t \notin S
    BY <1>2, AbsentLists, OrderSame
  <1> QED  BY <1>1, <1>2

\* ... and Dequeue.
LEMMA OrderTail ==
    ASSUME NEW S, NEW q \in Seq(Tasks), Lists(q, S), q # << >>
    PROVE  SameOrder(q, Tail(q))
  <1> DEFINE r == Tail(q)
  <1>1. /\ Len(q) \in Nat /\ DOMAIN q = 1 .. Len(q) /\ DOMAIN r = 1 .. Len(q) - 1
        /\ \A i \in 1 .. Len(q) - 1 : r[i] = q[i + 1]
        /\ \A a, b \in 1 .. Len(q) : q[a] = q[b] => a = b
    BY TailFacts DEF Lists
  <1> HIDE DEF r
  <1>2. SUFFICES ASSUME NEW i \in DOMAIN q, NEW j \in DOMAIN q, NEW k \in DOMAIN r, NEW l \in DOMAIN r,
                        i < j, q[i] = r[k], q[j] = r[l]
                 PROVE  k < l
    BY Zenon DEF SameOrder, r
  <1>3. /\ k + 1 \in 1 .. Len(q) /\ l + 1 \in 1 .. Len(q)
        /\ r[k] = q[k + 1] /\ r[l] = q[l + 1]
    BY ONLY <1>1, k \in DOMAIN r, l \in DOMAIN r
  <1>4. k + 1 = i /\ l + 1 = j
    BY ONLY <1>1, <1>2, <1>3, i \in DOMAIN q, j \in DOMAIN q
  <1> QED  BY <1>1, <1>2, <1>4

\* Dequeue of the head, and Enqueue of a task that was not there.
LEMMA OrderReplace ==
    ASSUME NEW S \in SUBSET Tasks, NEW q \in Seq(Tasks), Lists(q, S), q # << >>,
           NEW t \in Tasks \ S, NEW front
    PROVE  SameOrder(q, Pushed(Tail(q), t, front))
  <1> DEFINE p == Tail(q)
             r == Pushed(p, t, front)
  <1>1. /\ p \in Seq(Tasks) /\ Lists(p, S \ {Head(q)}) /\ t \in Tasks \ (S \ {Head(q)})
    BY TailLists
  <1>2. SameOrder(q, p) /\ SameOrder(p, r)
    BY <1>1, OrderTail, OrderPushed, Zenon
  <1>3. \A k \in DOMAIN r : r[k] = t \/ \E a \in DOMAIN p : r[k] = p[a]
    <2>1. Lists(r, (S \ {Head(q)}) \cup {t}) /\ S \ {Head(q)} \in SUBSET Tasks
      BY <1>1, PushLists, Zenon
    <2> HIDE DEF p, r
    <2> QED  BY <1>1, <2>1, Zenon DEF Lists
  <1>4. \A i \in DOMAIN q : q[i] # t
    BY DEF Lists
  <1> HIDE DEF p, r
  <1>5. SUFFICES ASSUME NEW i \in DOMAIN q, NEW j \in DOMAIN q, NEW k \in DOMAIN r, NEW l \in DOMAIN r,
                        i < j, q[i] = r[k], q[j] = r[l]
                 PROVE  k < l
    BY Zenon DEF SameOrder, p, r
  <1>6. PICK a \in DOMAIN p : r[k] = p[a]
    BY <1>3, <1>4, <1>5, Zenon
  <1>7. PICK b \in DOMAIN p : r[l] = p[b]
    BY <1>3, <1>4, <1>5, Zenon
  <1>8. a < b
    BY <1>2, <1>5, <1>6, <1>7, Zenon DEF SameOrder
  <1> QED  BY <1>2, <1>6, <1>7, <1>8, Zenon DEF SameOrder

-----------------------------------------------------------------------------
(* Messages. *)

\* What a message about t does to the kernel's state.
LEMMA ProduceFacts ==
    ASSUME TypeOK, NEW t \in Tasks, barrier[t] <= MaxBarrier + 2,
           NEW type \in MsgTypes, NEW flag \in BOOLEAN, NEW fsw \in BOOLEAN, NEW c \in Cpus,
           NEW m, m = Msg(type, t, flag, fsw, c), Produce(m)
    PROVE  /\ m \in Messages /\ m.task = t /\ m.type = type /\ m.flag = flag
           /\ m.seqnum = barrier[t] + 1
           /\ Mailbox' = Append(Mailbox, m)
           /\ barrier' = [barrier EXCEPT ![t] = m.seqnum]
           /\ barrier' \in [Tasks -> Seqnums]
           /\ channel' \in [Channels -> Seq(Messages)]
           /\ stale' = stale
           /\ Mailbox \in Seq(Messages)
  <1>1. /\ m.task = t /\ m.type = type /\ m.flag = flag /\ m.seqnum = barrier[t] + 1
        /\ m \in Messages
    BY Constants DEF Msg, Messages, Seqnums, TypeOK, KTypeOK
  <1>2. assoc[t] = DefaultChan /\ Mailbox \in Seq(Messages)
    BY Constants DEF TypeOK, KTypeOK, Mailbox
  <1>3. /\ barrier' = [barrier EXCEPT ![t] = m.seqnum]
        /\ channel' = [channel EXCEPT ![DefaultChan] = Append(@, m)]
        /\ stale' = [d \in Cpus |-> stale[d] \/ d = DefaultChan]
    BY <1>1, <1>2 DEF Produce, Send, Notify
  <1>4. Mailbox' = Append(Mailbox, m)
    BY <1>3, Constants DEF Mailbox, TypeOK, KTypeOK
  <1>5. barrier' \in [Tasks -> Seqnums]
    BY <1>1, <1>3, ZenonT(60) DEF TypeOK, KTypeOK, Messages
  <1>6. channel' \in [Channels -> Seq(Messages)]
    BY <1>1, <1>2, <1>3, Constants DEF TypeOK, KTypeOK, Mailbox
  <1>7. stale' = stale
    BY <1>3, Constants DEF TypeOK, KTypeOK
  <1> QED  BY <1>1, <1>2, <1>3, <1>4, <1>5, <1>6, <1>7

\* A new message is unread.
LEMMA AboutAppend ==
    ASSUME NEW q \in Seq(Messages), NEW m \in Messages
    PROVE  \A u : About(Append(q, m), u) <=> About(q, u) \/ u = m.task
  <1>1. /\ Len(q) \in Nat /\ DOMAIN q = 1 .. Len(q) /\ DOMAIN Append(q, m) = 1 .. Len(q) + 1
        /\ \A i \in 1 .. Len(q) : Append(q, m)[i] = q[i]
        /\ Append(q, m)[Len(q) + 1] = m
    BY AppendFacts
  <1> QED  BY <1>1 DEF About

-----------------------------------------------------------------------------
(* Kernel events. *)

\* Message m about t is sent, and t, if it was on a cpu, leaves it.
Event(t, m, ks) ==
    /\ Produce(m)
    /\ kstate' \in [Tasks -> {"out", "blocked", "runnable", "dying", "gone", "running"}]
    /\ \A u \in Tasks : kstate'[u] = IF u = t THEN ks ELSE kstate[u]
    /\ kcur' \in [Cpus -> Tasks \cup {NoTask}]
    /\ \A d \in Cpus : kcur'[d] = IF kcur[d] = t THEN NoTask ELSE kcur[d]
    /\ chain' = chain
    /\ on_cpu' \in [Tasks -> BOOLEAN]
    /\ \A u \in Tasks : on_cpu'[u] = on_cpu[u] \/ (u = t /\ ~on_cpu'[u])
    /\ agentRuns' \in [Cpus -> BOOLEAN]
    /\ \A d \in Cpus : agentRuns'[d] => agentRuns[d] \/ kcur'[d] = NoTask
    /\ assoc' = assoc /\ cfs' = cfs
    /\ known' = known /\ task' = task /\ current' = current /\ txn' = txn
    /\ available' = available /\ (MidRound' <=> MidRound)

\* The event is legal for t.
Legal(t, type, flag, ks) ==
    /\ ks \in {"out", "blocked", "runnable", "dying", "gone"}
    /\ barrier[t] + 1 <= MaxBarrier + Slack(ks)
    /\ Fits(KView(kstate[t]), [type |-> type, flag |-> flag])
    /\ After([type |-> type, flag |-> flag]) = KView(ks)
    /\ type \in Leaving => \E d \in Cpus : kcur[d] = t

\* A task's barrier is within the bound but for the events of its exit.
LEMMA BarrierBound ==
    ASSUME IInv, NEW t \in Tasks
    PROVE  /\ barrier[t] \in Nat /\ MaxBarrier \in Nat
           /\ kstate[t] = "dying" => barrier[t] <= MaxBarrier + 1
           /\ kstate[t] \notin {"dying", "gone"} => barrier[t] <= MaxBarrier
  <1>1. barrier[t] \in Nat /\ MaxBarrier \in Nat
    BY Constants DEF IInv, TypeOK, KTypeOK, Seqnums
  <1>2. barrier[t] <= MaxBarrier + Slack(kstate[t])
    BY DEF IInv, Switches
  <1> QED  BY <1>1, <1>2 DEF Slack

\* ... so that the seqnum of a legal event exists.
LEMMA LegalBound ==
    ASSUME TypeOK, NEW t \in Tasks, NEW type, NEW flag, NEW ks, Legal(t, type, flag, ks)
    PROVE  barrier[t] <= MaxBarrier + 2 /\ barrier[t] \in Nat
  <1>1. barrier[t] \in Nat /\ MaxBarrier \in Nat
    BY Constants DEF TypeOK, KTypeOK, Seqnums
  <1>2. Slack(ks) \in 0 .. 2
    BY DEF Slack
  <1>3. barrier[t] + 1 <= MaxBarrier + Slack(ks)
    BY Zenon DEF Legal
  <1> QED  BY <1>1, <1>2, <1>3

\* What a legal event's message is, and where it goes.
LEMMA EventFacts ==
    ASSUME IInv, NEW t \in Tasks, NEW type \in MsgTypes, NEW flag \in BOOLEAN,
           NEW fsw \in BOOLEAN, NEW c \in Cpus, NEW ks, NEW m,
           m = Msg(type, t, flag, fsw, c), Event(t, m, ks), Legal(t, type, flag, ks)
    PROVE  /\ m \in Messages /\ m.task = t /\ m.type = type /\ m.flag = flag
           /\ m.seqnum = barrier[t] + 1
           /\ Mailbox' = Append(Mailbox, m)
           /\ barrier' = [barrier EXCEPT ![t] = m.seqnum]
           /\ barrier' \in [Tasks -> Seqnums]
           /\ channel' \in [Channels -> Seq(Messages)]
           /\ stale' = stale
           /\ Mailbox \in Seq(Messages)
  <1>1. TypeOK /\ barrier[t] <= MaxBarrier + 2
    BY LegalBound, Zenon DEF IInv
  <1>2. Produce(m)
    BY Zenon DEF Event
  <1> QED  BY <1>1, <1>2, ProduceFacts

\* A legal event adds one legal message to the mail.
LEMMA EventMail ==
    ASSUME IInv, NEW t \in Tasks, NEW type \in MsgTypes, NEW flag \in BOOLEAN,
           NEW fsw \in BOOLEAN, NEW c \in Cpus, NEW ks,
           Event(t, Msg(type, t, flag, fsw, c), ks), Legal(t, type, flag, ks)
    PROVE  Mail' /\ KTypeOK'
  <1> DEFINE m == Msg(type, t, flag, fsw, c)
  <1>0. TypeOK /\ Mail /\ barrier[t] <= MaxBarrier + 2
    BY LegalBound, Zenon DEF IInv
  <1>1. /\ m \in Messages /\ m.task = t /\ m.type = type /\ m.flag = flag
        /\ m.seqnum = barrier[t] + 1
        /\ Mailbox' = Append(Mailbox, m)
        /\ barrier' = [barrier EXCEPT ![t] = m.seqnum]
        /\ barrier' \in [Tasks -> Seqnums]
        /\ channel' \in [Channels -> Seq(Messages)]
        /\ stale' = stale
        /\ Mailbox \in Seq(Messages)
    BY EventFacts, Zenon
  <1> HIDE DEF m
  <1>2. KTypeOK'
    BY <1>0, <1>1, ZenonT(60) DEF Event, TypeOK, KTypeOK
  <1>3. Fits(KView(kstate[t]), m) /\ After(m) = KView(kstate'[t])
    BY <1>1 DEF Legal, Event, Fits, After
  <1>4. m.type \in Leaving =>
             ~About(Mailbox, t) /\ (~MidRound => State(t) \in {"kOnCpu", "kQueued"})
    <2> SUFFICES ASSUME m.type \in Leaving
                 PROVE  ~About(Mailbox, t) /\ (~MidRound => State(t) \in {"kOnCpu", "kQueued"})
      OBVIOUS
    <2>1. PICK d \in Cpus : kcur[d] = t
      BY <1>1, Zenon DEF Legal
    <2>2. RunsOn(d) /\ Placed(d) /\ t # NoTask
      BY Constants, Zenon DEF IInv, Switches, Places
    <2>3. ~MidRound => txn[d] = "none"
      BY DEF IInv, Rounds
    <2> QED  BY <2>1, <2>2, <2>3, Zenon DEF RunsOn, Placed
  <1>5. \A u \in Tasks : u # t => KView(kstate'[u]) = KView(kstate[u])
    BY Zenon DEF Event
  <1> QED  BY <1>0, <1>1, <1>2, <1>3, <1>4, <1>5, PostMail, Zenon DEF Event

\* A legal event leaves what the kernel runs and the scheduler's current tasks in
\* step: the task that left its cpu has an unread message.
LEMMA EventSwitches ==
    ASSUME IInv, NEW t \in Tasks, NEW type \in MsgTypes, NEW flag \in BOOLEAN,
           NEW fsw \in BOOLEAN, NEW c \in Cpus, NEW ks,
           Event(t, Msg(type, t, flag, fsw, c), ks), Legal(t, type, flag, ks)
    PROVE  Switches' /\ stale' = stale
  <1> DEFINE m == Msg(type, t, flag, fsw, c)
  <1>0. TypeOK /\ barrier[t] <= MaxBarrier + 2
    BY LegalBound, Zenon DEF IInv
  <1>1. /\ m \in Messages /\ m.task = t /\ m.type = type /\ m.flag = flag
        /\ m.seqnum = barrier[t] + 1
        /\ Mailbox' = Append(Mailbox, m)
        /\ barrier' = [barrier EXCEPT ![t] = m.seqnum]
        /\ barrier' \in [Tasks -> Seqnums]
        /\ channel' \in [Channels -> Seq(Messages)]
        /\ stale' = stale
        /\ Mailbox \in Seq(Messages)
    BY EventFacts, Zenon
  <1> HIDE DEF m
  <1>2. \A u : About(Mailbox', u) <=> About(Mailbox, u) \/ u = t
    BY <1>1, AboutAppend, Zenon
  <1>3. \A u \in Tasks : u # t => barrier'[u] = barrier[u]
    BY <1>1, Zenon DEF TypeOK, KTypeOK, IInv
  <1>4. \A d \in Cpus : RunsOn(d)'
    <2> SUFFICES ASSUME NEW d \in Cpus, kcur'[d] # NoTask  PROVE RunsOn(d)'
      BY Zenon DEF RunsOn
    <2>1. kcur'[d] = kcur[d] /\ kcur[d] # t /\ kcur[d] # NoTask /\ kcur[d] \in Tasks
      BY <1>0, SMTT(30) DEF Event, TypeOK, KTypeOK
    <2>2. RunsOn(d)
      BY Zenon DEF IInv, Switches
    <2>3. kstate'[kcur[d]] = kstate[kcur[d]] /\ (on_cpu'[kcur[d]] = on_cpu[kcur[d]])
          /\ barrier'[kcur[d]] = barrier[kcur[d]]
      BY <1>3, <2>1, Zenon DEF Event
    <2>4. agentRuns'[d] => agentRuns[d]
      BY <2>1, Zenon DEF Event
    <2> QED  BY <1>2, <2>1, <2>2, <2>3, <2>4, Zenon DEF RunsOn, Event, InBound, State
  <1>5. \A d \in Cpus : Booked(d)'
    <2> SUFFICES ASSUME NEW d \in Cpus, current[d] # NoTask  PROVE Booked(d)'
      BY Zenon DEF Booked, Event
    <2>1. Booked(d) /\ current[d] \in Tasks
      BY <1>0, ZenonT(60) DEF IInv, Switches, TypeOK
    <2>2. on_cpu'[current[d]] => on_cpu[current[d]]
      BY <2>1, Zenon DEF Event
    <2>3. (\A e \in Cpus : kcur[e] # current[d]) => \A e \in Cpus : kcur'[e] # current[d]
      BY Zenon DEF Event
    <2>4. kcur[d] = current[d] => kcur'[d] = current[d] \/ current[d] = t
      BY Zenon DEF Event
    <2> QED  BY <1>2, <2>1, <2>2, <2>3, <2>4, Zenon DEF Booked, Event
  <1>6. \A d \in Cpus : ~chain'[d]
    BY Zenon DEF Event, IInv, Switches
  <1>7. \A d, e \in Cpus : kcur'[d] = kcur'[e] /\ kcur'[d] # NoTask => d = e
    BY ZenonT(60) DEF Event, IInv, Switches
  <1>8. ASSUME NEW u \in Tasks
        PROVE  /\ kstate'[u] = "running" => \E d \in Cpus : kcur'[d] = u
               /\ barrier'[u] <= MaxBarrier + Slack(kstate'[u])
    <2>1. CASE u = t
      BY <2>1, <1>0, <1>1, Zenon DEF Event, Legal, TypeOK, KTypeOK
    <2>2. CASE u # t
      <3>1. kstate'[u] = kstate[u] /\ barrier'[u] = barrier[u]
        BY <2>2, <1>3, Zenon DEF Event
      <3>2. /\ kstate[u] = "running" => \E d \in Cpus : kcur[d] = u
            /\ barrier[u] <= MaxBarrier + Slack(kstate[u])
        BY Zenon DEF IInv, Switches
      <3> QED  BY <2>2, <3>1, <3>2, Zenon DEF Event
    <2> QED  BY <2>1, <2>2, Zenon
  <1>9. \A d \in Cpus : ~chain'[d] /\ RunsOn(d)' /\ Booked(d)'
    BY <1>4, <1>5, <1>6, Zenon
  <1>10. \A u \in Tasks : /\ kstate'[u] = "running" => \E d \in Cpus : kcur'[d] = u
                          /\ barrier'[u] <= MaxBarrier + Slack(kstate'[u])
    BY <1>8, Zenon
  <1> QED  BY <1>1, <1>7, <1>9, <1>10, Zenon DEF Switches

\* A legal event preserves the invariant.
LEMMA KernelEvent ==
    ASSUME IInv, NEW t \in Tasks, NEW type \in MsgTypes, NEW flag \in BOOLEAN,
           NEW fsw \in BOOLEAN, NEW c \in Cpus, NEW ks,
           Event(t, Msg(type, t, flag, fsw, c), ks), Legal(t, type, flag, ks),
           UNCHANGED svars, agentRuns' = agentRuns
    PROVE  IInv'
  <1>1. Mail' /\ KTypeOK'
    BY EventMail
  <1>2. Switches' /\ stale' = stale
    BY EventSwitches
  <1>3. /\ ~fault' /\ Roles' /\ Rounds' /\ Places'
    BY <1>2, KernelFrame
  <1>4. TypeOK'
    BY <1>1, SvarsType DEF IInv
  <1> QED  BY <1>1, <1>2, <1>3, <1>4 DEF IInv

\* No kernel event touches what the scheduler keeps.
LEMMA EventFrame ==
    ASSUME UNCHANGED svars
    PROVE  /\ known' = known /\ task' = task /\ current' = current /\ txn' = txn
           /\ available' = available /\ (MidRound' <=> MidRound)
  BY Zenon DEF svars, MidRound

\* An event of a task that is on no cpu.
LEMMA QuietEvent ==
    ASSUME IInv, NEW t \in Tasks, NEW type \in MsgTypes, NEW flag \in BOOLEAN, NEW ks,
           kstate[t] # "running",
           kstate' = [kstate EXCEPT ![t] = ks],
           Produce(Msg(type, t, flag, FALSE, AnyCpu)),
           UNCHANGED <<kcur, chain, on_cpu, assoc, agentRuns, cfs>>,
           Legal(t, type, flag, ks), UNCHANGED svars
    PROVE  IInv'
  <1>1. \A d \in Cpus : kcur[d] # t
    <2>1. \A d \in Cpus : RunsOn(d)
      BY Zenon DEF IInv, Switches
    <2>2. t # NoTask
      BY Constants, ZenonT(60)
    <2> QED  BY <2>1, <2>2, Zenon DEF RunsOn
  <1>2. KTypeOK /\ ks \in {"out", "blocked", "runnable", "dying", "gone", "running"}
    BY DEF IInv, TypeOK, Legal
  <1>3. Event(t, Msg(type, t, flag, FALSE, AnyCpu), ks)
    BY <1>1, <1>2, EventFrame, Zenon DEF Event, KTypeOK
  <1> QED  BY <1>3, KernelEvent, Constants, Zenon

\* An event of the task on cpu c.
LEMMA LeaveCpuEvent ==
    ASSUME IInv, NEW c \in Cpus, NEW type \in Leaving, NEW ks, kcur[c] # NoTask,
           LeaveCpu(c, type, ks),
           ks \in {"blocked", "runnable", "dying"},
           InBound(kcur[c]) \/ ks = "dying",
           type = "BLOCKED" <=> ks # "runnable", UNCHANGED svars
    PROVE  IInv'
  <1> DEFINE t == kcur[c]
  <1>1. t \in Tasks /\ TypeOK /\ KTypeOK /\ RunsOn(c) /\ ~chain[c]
    BY Zenon DEF IInv, TypeOK, KTypeOK, Switches
  <1>2. \A d \in Cpus : kcur[d] = t => d = c
    BY Zenon DEF IInv, Switches
  <1>3. kstate[t] = "running"
    BY <1>1, Zenon DEF RunsOn
  <1>4. barrier[t] \in Nat /\ barrier[t] <= MaxBarrier
    BY <1>1, <1>3, BarrierBound, Zenon
  <1>5. Legal(t, type, FALSE, ks)
    <2>1. barrier[t] + 1 <= MaxBarrier + Slack(ks)
      BY <1>4, Constants, SMTT(30) DEF Slack, InBound
    <2> QED  BY <2>1, <1>3 DEF Legal, Fits, KView, After, Leaving
  <1>6. Event(t, Msg(type, t, FALSE, FALSE, c), ks)
    <2>1. chain' = chain /\ chain[c] = FALSE
      BY <1>1 DEF LeaveCpu, KTypeOK
    <2>2. Produce(Msg(type, t, FALSE, FALSE, c))
      BY <2>1, Zenon DEF LeaveCpu
    <2>3. /\ kcur' \in [Cpus -> Tasks \cup {NoTask}]
          /\ \A d \in Cpus : kcur'[d] = IF kcur[d] = t THEN NoTask ELSE kcur[d]
      BY <1>1, <1>2 DEF LeaveCpu, KTypeOK
    <2>4. /\ kstate' \in [Tasks -> {"out", "blocked", "runnable", "dying", "gone", "running"}]
          /\ \A u \in Tasks : kstate'[u] = IF u = t THEN ks ELSE kstate[u]
      BY <1>1 DEF LeaveCpu, KTypeOK
    <2>5. UNCHANGED <<on_cpu, assoc, agentRuns, cfs>>
      BY DEF LeaveCpu
    <2> QED  BY <1>1, <2>1, <2>2, <2>3, <2>4, <2>5, EventFrame, Zenon DEF Event, KTypeOK
  <1> HIDE DEF t
  <1>7. agentRuns' = agentRuns
    BY DEF LeaveCpu
  <1> QED  BY <1>1, <1>5, <1>6, <1>7, KernelEvent, Zenon DEF Leaving, MsgTypes

\* Arrivals, wakeups, exits and the ways to leave a cpu are legal events.
LEMMA KernelMessages ==
    ASSUME IInv, UNCHANGED svars
    PROVE  /\ \A t \in Tasks, flag \in BOOLEAN : KNew(t, flag) \/ KWakeup(t, flag) => IInv'
           /\ \A t \in Tasks : KDead(t) => IInv'
           /\ \A c \in Cpus : KBlock(c) \/ KYield(c) \/ KExit(c) \/ KPreempt(c) => IInv'
  <1>1. ASSUME NEW t \in Tasks, NEW flag \in BOOLEAN, KNew(t, flag)  PROVE IInv'
    <2> DEFINE ks == IF flag THEN "runnable" ELSE "blocked"
    <2>1. barrier[t] + 1 <= MaxBarrier + Slack(ks)
      BY <1>1, BarrierBound DEF KNew, InBound, Slack
    <2>2. Legal(t, "NEW", flag, ks)
      BY <1>1, <2>1 DEF KNew, Legal, Fits, KView, After, Leaving
    <2> QED  BY <1>1, <2>2, QuietEvent, Zenon DEF KNew, MsgTypes
  <1>2. ASSUME NEW t \in Tasks, NEW flag \in BOOLEAN, KWakeup(t, flag)  PROVE IInv'
    <2>1. barrier[t] + 1 <= MaxBarrier + Slack("runnable")
      BY <1>2, BarrierBound DEF KWakeup, InBound, Slack
    <2>2. Legal(t, "WAKEUP", flag, "runnable")
      BY <1>2, <2>1 DEF KWakeup, Legal, Fits, KView, After, Leaving
    <2> QED  BY <1>2, <2>2, QuietEvent, Zenon DEF KWakeup, MsgTypes
  <1>3. ASSUME NEW t \in Tasks, KDead(t)  PROVE IInv'
    <2>1. barrier[t] + 1 <= MaxBarrier + Slack("gone")
      BY <1>3, BarrierBound DEF KDead, Slack
    <2>2. Legal(t, "DEAD", FALSE, "gone")
      BY <1>3, <2>1 DEF KDead, Legal, Fits, KView, After, Leaving
    <2> QED  BY <1>3, <2>2, QuietEvent, Zenon DEF KDead, MsgTypes
  <1>4. ASSUME NEW c \in Cpus, KBlock(c) \/ KYield(c) \/ KExit(c) \/ KPreempt(c)
        PROVE  IInv'
    <2>1. KPreempt(c) => InBound(kcur[c])
      BY DEF KPreempt, IInv, Switches, RunsOn
    <2> QED  BY <1>4, <2>1, LeaveCpuEvent, ZenonT(60)
             DEF KBlock, KYield, KExit, KPreempt, Executes, Leaving
  <1> QED  BY <1>1, <1>2, <1>3, <1>4

\* So is a task that leaves ghOSt, be it running, runnable or blocked.
LEMMA KernelDeparts ==
    ASSUME IInv, NEW t \in Tasks, NEW back \in BOOLEAN, InBound(t), KDepart(t, back),
           UNCHANGED svars
    PROVE  IInv'
  <1> DEFINE running == \E x \in Cpus : kcur[x] = t
             c == IF running THEN CHOOSE x \in Cpus : kcur[x] = t ELSE AnyCpu
             ks == IF back THEN "out" ELSE "gone"
  <1>1. KTypeOK /\ c \in Cpus /\ (running => kcur[c] = t)
    BY Constants, Zenon DEF IInv, TypeOK
  <1>2. /\ kstate[t] \in {"blocked", "runnable", "running"}
        /\ kstate' = [kstate EXCEPT ![t] = ks]
        /\ kcur' = [kcur EXCEPT ![c] = IF running THEN NoTask ELSE @]
        /\ chain' = [chain EXCEPT ![c] = @ /\ ~running]
        /\ on_cpu' = [on_cpu EXCEPT ![t] = FALSE]
        /\ Produce(Msg("DEPARTED", t, FALSE, running /\ chain[c], c))
        /\ assoc' = [assoc EXCEPT ![t] = DefaultChan]
        /\ UNCHANGED <<agentRuns, cfs>>
    BY Zenon DEF KDepart
  <1>3. \A d \in Cpus : kcur[d] = t => d = c
    BY <1>1, Constants, ZenonT(60) DEF IInv, Switches
  <1>4. chain[c] = FALSE /\ chain' = chain /\ (running /\ chain[c]) = FALSE
    BY <1>1, <1>2 DEF IInv, Switches, KTypeOK
  <1>5. Produce(Msg("DEPARTED", t, FALSE, FALSE, c))
    BY <1>2, <1>4, Zenon
  <1>6. assoc' = assoc
    BY <1>1, <1>2, Constants, SMTT(30) DEF KTypeOK
  <1>7. /\ kcur' \in [Cpus -> Tasks \cup {NoTask}]
        /\ \A d \in Cpus : kcur'[d] = IF kcur[d] = t THEN NoTask ELSE kcur[d]
    BY <1>1, <1>2, <1>3, Zenon DEF KTypeOK
  <1>8. /\ kstate' \in [Tasks -> {"out", "blocked", "runnable", "dying", "gone", "running"}]
        /\ \A u \in Tasks : kstate'[u] = IF u = t THEN ks ELSE kstate[u]
    BY <1>1, <1>2, Zenon DEF KTypeOK
  <1>9. /\ on_cpu' \in [Tasks -> BOOLEAN]
        /\ \A u \in Tasks : on_cpu'[u] = on_cpu[u] \/ (u = t /\ ~on_cpu'[u])
    BY <1>1, <1>2, Zenon DEF KTypeOK
  <1>10. Legal(t, "DEPARTED", FALSE, ks)
    <2>1. barrier[t] + 1 <= MaxBarrier + Slack(ks)
      BY BarrierBound DEF InBound, Slack
    <2> QED  BY <1>2, <2>1, Zenon DEF Legal, Fits, KView, After, Leaving
  <1> HIDE DEF running, c, ks
  <1>11. Event(t, Msg("DEPARTED", t, FALSE, FALSE, c), ks)
    BY <1>1, <1>2, <1>4, <1>5, <1>6, <1>7, <1>8, <1>9, EventFrame, Zenon DEF Event, KTypeOK
  <1> QED  BY <1>1, <1>2, <1>10, <1>11, KernelEvent, Zenon DEF MsgTypes

\* The events that send nothing.
LEMMA KernelSilent ==
    ASSUME IInv, UNCHANGED svars,
           \/ \E t \in Tasks : KOffCpu(t)
           \/ \E c \in Cpus : KCfsArrives(c) \/ KCfsLeaves(c)
    PROVE  IInv'
  <1>1. UNCHANGED <<kstate, kcur, chain, barrier, assoc, channel, stale, agentRuns>>
    BY DEF KOffCpu, KCfsArrives, KCfsLeaves
  <1>2. on_cpu' \in [Tasks -> BOOLEAN] /\ cfs' \in [Cpus -> BOOLEAN]
    BY Zenon DEF KOffCpu, KCfsArrives, KCfsLeaves, IInv, TypeOK, KTypeOK
  <1>3. \A u \in Tasks : on_cpu'[u] => on_cpu[u]
    BY Zenon DEF KOffCpu, KCfsArrives, KCfsLeaves, IInv, TypeOK, KTypeOK
  <1>4. \A d \in Cpus : kcur[d] # NoTask => on_cpu'[kcur[d]] = on_cpu[kcur[d]]
    BY DEF KOffCpu, KCfsArrives, KCfsLeaves, IInv, TypeOK, KTypeOK
  <1>5. \A d \in Cpus : cfs'[d] /\ kcur[d] # NoTask => cfs[d] \/ InBound(kcur[d])
    BY ZenonT(60) DEF KOffCpu, KCfsArrives, KCfsLeaves, IInv, TypeOK, KTypeOK
  <1>6. TypeOK' /\ ~fault' /\ Roles' /\ Rounds' /\ Places'
    BY <1>1, <1>2, KernelFrame, SvarsType DEF IInv, TypeOK, KTypeOK
  <1>7. Mailbox' = Mailbox
    BY <1>1, Zenon DEF Mailbox
  <1>8. Mail'
    BY <1>1, <1>7, EventFrame, Zenon DEF IInv, Mail, Letter, Successive, Settled, State
  <1>9. ASSUME NEW d \in Cpus  PROVE RunsOn(d)' /\ Booked(d)'
    <2>1. RunsOn(d) /\ Booked(d) /\ (current[d] # NoTask => current[d] \in Tasks)
      BY Zenon DEF IInv, Switches, TypeOK
    <2>2. RunsOn(d)'
      BY <1>1, <1>4, <1>5, <1>7, <2>1, EventFrame, Zenon DEF RunsOn, State, InBound
    <2>3. Booked(d)'
      BY <1>1, <1>3, <1>7, <2>1, EventFrame, Zenon DEF Booked
    <2> QED  BY <2>2, <2>3, Zenon
  <1>10. Switches'
    BY <1>1, <1>9, Zenon DEF IInv, Switches
  <1> QED  BY <1>6, <1>8, <1>10, ZenonT(60) DEF IInv

\* Every step of the kernel preserves the invariant.
LEMMA KernelStep == ASSUME IInv, Kernel  PROVE IInv'
  <1>1. ASSUME NEW t \in Tasks, NEW back \in {FALSE, Returns},
               InBound(t) /\ KDepart(t, back) /\ UNCHANGED svars
        PROVE  IInv'
    BY <1>1, KernelDeparts, Constants, Zenon
  <1> QED  BY <1>1, KernelMessages, KernelSilent, Constants, Zenon DEF Kernel

-----------------------------------------------------------------------------
(* Commits. *)

\* A task whose barrier the scheduler has seen has no unread message, and the
\* scheduler knows what it is.
LEMMA UpToDate ==
    ASSUME IInv, NEW t \in known, task[t].seqnum = barrier[t]
    PROVE  ~About(Mailbox, t) /\ View(t, known, State(t)) = KView(kstate[t])
  <1>0. t \in Tasks /\ barrier[t] \in Nat
    BY SMTT(30), Zenon DEF IInv, TypeOK, KTypeOK, Seqnums
  <1>1. ASSUME NEW i \in DOMAIN Mailbox, Mailbox[i].task = t  PROVE FALSE
    <2>1. Mailbox[i].seqnum <= barrier[t] /\ Mailbox[i].seqnum > task[t].seqnum
      BY <1>1, Zenon DEF IInv, Mail, Letter
    <2>2. Mailbox[i].seqnum \in Nat
      BY MailTyped, Constants DEF Messages, Seqnums
    <2> QED  BY <1>0, <2>1, <2>2, NotBoth, Zenon
  <1>2. ~About(Mailbox, t)
    BY <1>1, Zenon DEF About
  <1> QED  BY <1>0, <1>2, Zenon DEF IInv, Mail, Settled

\* The task of an open transaction.
LEMMA OpenTxn ==
    ASSUME IInv, NEW d \in Cpus, txn[d] = "open"
    PROVE  /\ MidRound /\ d \notin available
           /\ current[d] \in known /\ current[d] \in Tasks /\ current[d] # NoTask
           /\ State(current[d]) = "kRunnable" /\ ~on_cpu[current[d]]
           /\ \A e \in Cpus : kcur[e] # current[d]
           /\ kstate[current[d]] # "running"
  <1>1. MidRound /\ current[d] # NoTask /\ d \notin available
    BY Zenon DEF IInv, Rounds
  <1>2. current[d] \in known /\ State(current[d]) = "kRunnable"
    BY <1>1, ZenonT(60) DEF IInv, Places, Placed
  <1>3. ~on_cpu[current[d]] /\ \A e \in Cpus : kcur[e] # current[d]
    BY <1>1 DEF IInv, Switches, Booked
  <1>4. current[d] \in Tasks
    BY <1>2, Zenon DEF IInv, TypeOK
  <1>5. kstate[current[d]] # "running"
    BY <1>3, <1>4, Zenon DEF IInv, Switches
  <1> QED  BY <1>1, <1>2, <1>3, <1>4, <1>5, Zenon

\* After a commit the cpu runs its current task, and the task displaced by it has
\* an unread message.
LEMMA CommitSwitches ==
    ASSUME IInv, NEW d \in Cpus, NEW t \in Tasks, t = current[d], txn[d] = "open",
           ~agentRuns[d], ~cfs[d], ~About(Mailbox, t),
           kcur' = [kcur EXCEPT ![d] = t], chain' = [chain EXCEPT ![d] = FALSE],
           kstate' = [u \in Tasks |-> IF u = t THEN "running"
                                      ELSE IF u = kcur[d] THEN "runnable" ELSE kstate[u]],
           on_cpu' = [on_cpu EXCEPT ![t] = TRUE],
           txn' = [txn EXCEPT ![d] = "complete"],
           UNCHANGED <<agentRuns, cfs, known, task, current, available>>,
           MidRound' <=> MidRound,
           kstate[t] = "runnable",
           \A u \in Tasks : About(Mailbox', u) <=> About(Mailbox, u) \/ u = kcur[d],
           \A u \in Tasks : u # kcur[d] => barrier'[u] = barrier[u],
           kcur[d] # NoTask => barrier'[kcur[d]] <= MaxBarrier
    PROVE  Switches'
  <1>0. TypeOK /\ KTypeOK
    BY Zenon DEF IInv, TypeOK
  <1>1. /\ MidRound /\ d \notin available /\ t \in known /\ t # NoTask
        /\ State(t) = "kRunnable" /\ \A e \in Cpus : kcur[e] # t
    BY OpenTxn, Zenon
  <1>2. /\ kcur'[d] = t /\ \A e \in Cpus : e # d => kcur'[e] = kcur[e]
        /\ txn'[d] = "complete" /\ \A e \in Cpus : e # d => txn'[e] = txn[e]
        /\ on_cpu'[t] /\ \A u \in Tasks : u # t => on_cpu'[u] = on_cpu[u]
        /\ kstate'[t] = "running"
        /\ \A u \in Tasks : u # t => kstate'[u] = IF u = kcur[d] THEN "runnable" ELSE kstate[u]
    BY <1>0, Zenon DEF TypeOK, KTypeOK
  <1>3. \A e \in Cpus : ~chain'[e]
    BY <1>0, Zenon DEF IInv, Switches, KTypeOK
  <1>4. RunsOn(d)'
    <2>1. /\ kcur'[d] = t /\ ~agentRuns'[d] /\ kstate'[t] = "running" /\ on_cpu'[t]
          /\ t \in known' /\ current'[d] = t /\ ~cfs'[d] /\ d \notin available'
      BY <1>1, <1>2, Zenon
    <2>2. ~About(Mailbox', t)
      BY <1>1, Zenon
    <2> QED  BY ONLY <2>1, <2>2, Zenon DEF RunsOn
  <1>5. ASSUME NEW e \in Cpus, e # d  PROVE RunsOn(e)'
    <2>0. kcur[e] # NoTask => kcur[e] \in Tasks
      BY ONLY <1>0, e \in Cpus, Zenon DEF KTypeOK
    <2>1. RunsOn(e) /\ (kcur[e] # NoTask => kcur[e] \in Tasks)
      BY <2>0, Zenon DEF IInv, Switches
    <2>2. kcur[e] # NoTask => kcur[e] # kcur[d] /\ kcur[e] # t
      BY <1>1, <1>5, Zenon DEF IInv, Switches
    <2> SUFFICES ASSUME kcur[e] # NoTask  PROVE RunsOn(e)'
      BY <1>2, <1>5, Zenon DEF RunsOn
    <2>3. /\ kcur'[e] = kcur[e] /\ kcur[e] \in Tasks /\ kcur[e] # t /\ kcur[e] # kcur[d]
      BY <1>2, <1>5, <2>0, <2>2, Zenon
    <2>4. /\ kstate'[kcur[e]] = kstate[kcur[e]] /\ on_cpu'[kcur[e]] = on_cpu[kcur[e]]
          /\ (About(Mailbox', kcur[e]) <=> About(Mailbox, kcur[e]))
          /\ barrier'[kcur[e]] = barrier[kcur[e]]
      BY <1>2, <2>3, ZenonT(60)
    <2>5. /\ UNCHANGED <<agentRuns, cfs, known, task, current, available>>
          /\ (MidRound' <=> MidRound)
      OBVIOUS
    <2> QED  BY ONLY <2>1, <2>3, <2>4, <2>5, Zenon DEF RunsOn, InBound, State
  <1>6. Booked(d)'
    BY <1>2, Zenon DEF Booked
  <1>7. ASSUME NEW e \in Cpus, e # d  PROVE Booked(e)'
    <2>1. Booked(e) /\ (current[e] # NoTask => current[e] \in Tasks)
      BY <1>0, SMTT(30) DEF IInv, Switches, TypeOK
    <2>2. current[e] # NoTask => current[e] # t
      BY <1>1, <1>7, Zenon DEF IInv, Places
    <2>3. current[e] # NoTask /\ (\A x \in Cpus : kcur[x] # current[e]) =>
            \A x \in Cpus : kcur'[x] # current[e]
      <3> SUFFICES ASSUME current[e] # NoTask, \A x \in Cpus : kcur[x] # current[e], NEW x \in Cpus
                   PROVE  kcur'[x] # current[e]
        BY Zenon
      <3> QED  BY <1>2, <2>2, ZenonT(60)
    <2> SUFFICES ASSUME current[e] # NoTask  PROVE Booked(e)'
      BY Zenon DEF Booked
    <2>4. /\ current'[e] = current[e] /\ txn'[e] = txn[e] /\ kcur'[e] = kcur[e]
          /\ on_cpu'[current[e]] = on_cpu[current[e]]
          /\ (About(Mailbox, current[e]) => About(Mailbox', current[e]))
      BY <1>2, <1>7, <2>1, <2>2, Zenon
    <2> QED  BY ONLY <2>1, <2>3, <2>4, current[e] # NoTask, ZenonT(60) DEF Booked
  <1>8. \A x, y \in Cpus : kcur'[x] = kcur'[y] /\ kcur'[x] # NoTask => x = y
    <2> TAKE x, y \in Cpus
    <2>1. \A e \in Cpus : e # d => kcur'[e] = kcur[e] /\ kcur[e] # t
      BY <1>1, <1>2, Zenon
    <2>2. kcur[x] = kcur[y] /\ kcur[x] # NoTask => x = y
      BY Zenon DEF IInv, Switches
    <2> QED  BY ONLY <1>2, <2>1, <2>2, x \in Cpus, y \in Cpus, Zenon
  <1>9. ASSUME NEW u \in Tasks
        PROVE  /\ kstate'[u] = "running" => \E c \in Cpus : kcur'[c] = u
               /\ barrier'[u] <= MaxBarrier + Slack(kstate'[u])
    <2>1. CASE u = t
      <3>1. barrier'[u] = barrier[u] /\ barrier[u] <= MaxBarrier /\ MaxBarrier \in Nat
        BY <1>1, <2>1, BarrierBound, Zenon
      <3>2. kstate'[u] = "running" /\ kcur'[d] = u
        BY <1>2, <2>1, Zenon
      <3> QED  BY <3>1, <3>2, SlackFacts, Zenon
    <2>2. CASE u # t /\ u = kcur[d]
      <3>1. kstate'[u] = "runnable" /\ barrier'[u] <= MaxBarrier /\ MaxBarrier \in Nat
        BY <1>2, <2>2, Constants, Zenon
      <3> QED  BY <3>1, SlackFacts, Zenon
    <2>3. CASE u # t /\ u # kcur[d]
      <3>1. kstate'[u] = kstate[u] /\ barrier'[u] = barrier[u]
        BY <1>2, <2>3, Zenon
      <3>2. kstate[u] = "running" => \E c \in Cpus : kcur[c] = u /\ c # d
        BY <2>3, Zenon DEF IInv, Switches
      <3>3. kstate'[u] = "running" => \E c \in Cpus : kcur'[c] = u
        <4> SUFFICES ASSUME kstate'[u] = "running"  PROVE \E c \in Cpus : kcur'[c] = u
          BY ZenonT(60)
        <4>1. PICK c \in Cpus : kcur[c] = u /\ c # d
          BY ONLY kstate'[u] = "running", <3>1, <3>2, Zenon
        <4> QED  BY ONLY <1>2, <4>1, ZenonT(60)
      <3>4. barrier[u] <= MaxBarrier + Slack(kstate[u])
        BY Zenon DEF IInv, Switches
      <3> QED  BY <3>1, <3>3, <3>4, Zenon
    <2> QED  BY <2>1, <2>2, <2>3, Zenon
  <1> QED  BY <1>3, <1>4, <1>5, <1>6, <1>7, <1>8, <1>9, Zenon DEF Switches

\* A commit, at whatever moment the target cpu makes it, preserves the invariant and
\* never ends in a GHOST_ERROR.
LEMMA CommitStep ==
    ASSUME IInv, NEW d \in Cpus, CommitTxn(d)
    PROVE  IInv'
  <1> DEFINE t == current[d]
             outcome == IF cfs[d] \/ agentRuns[d] THEN "CPU_UNAVAIL"
                        ELSE CommitOutcome(t, task[t].seqnum)
  <1>0. TypeOK /\ KTypeOK
    BY Zenon DEF IInv, TypeOK
  <1>1. /\ txn[d] = "open"
        /\ fault' = (outcome \in {"TARGET_ONCPU", "TARGET_NOT_RUNNABLE"})
        /\ IF outcome = "COMPLETE"
             THEN /\ KSwitch(d, t)
                  /\ txn' = [txn EXCEPT ![d] = "complete"]
                  /\ UNCHANGED <<assoc, agentRuns, cfs>>
             ELSE /\ txn' = [txn EXCEPT ![d] = "failed"]
                  /\ UNCHANGED kvars
        /\ UNCHANGED <<known, task, run_queue, yielding, current, global_cpu, pc,
                       target, available>>
    BY Zenon DEF CommitTxn
  <1>2. /\ MidRound /\ d \notin available
        /\ t \in known /\ t \in Tasks /\ t # NoTask
        /\ State(t) = "kRunnable" /\ ~on_cpu[t]
        /\ \A e \in Cpus : kcur[e] # t
        /\ kstate[t] # "running"
    BY <1>1, OpenTxn, Zenon
  <1>3. MidRound' <=> MidRound
    BY <1>1, Zenon DEF MidRound
  <1>4. ~(cfs[d] \/ agentRuns[d]) /\ task[t].seqnum = barrier[t] =>
          ~About(Mailbox, t) /\ KView(kstate[t]) = "runnable"
    BY <1>2, UpToDate, Zenon DEF View
  <1>5. ~fault'
    <2>1. outcome # "TARGET_ONCPU"
      BY <1>2, Zenon DEF CommitOutcome
    <2>2. outcome # "TARGET_NOT_RUNNABLE"
      BY <1>4, Zenon DEF CommitOutcome, KView
    <2> QED  BY <1>1, <2>1, <2>2, Zenon
  <1>6. \E r \in {"complete", "failed"} : txn' = [txn EXCEPT ![d] = r]
    BY <1>1, Zenon
  <1>7. Rounds' /\ Places'
    <2>1. txn'[d] # "none" /\ \A e \in Cpus : e # d => txn'[e] = txn[e]
      BY <1>0, <1>6, Zenon DEF TypeOK
    <2>2. Rounds'
      BY <1>0, <1>1, <1>2, <1>3, <2>1, Zenon DEF IInv, Rounds, TypeOK
    <2>3. \A e \in Cpus : Placed(e)'
      BY <1>1, <2>1, Zenon DEF IInv, Places, Placed, State
    <2> QED  BY <1>1, <2>2, <2>3, Zenon DEF IInv, Places, InState, State
  <1>8. CASE outcome # "COMPLETE"
    <2>1. txn' = [txn EXCEPT ![d] = "failed"] /\ UNCHANGED kvars
      BY <1>1, <1>8, ZenonT(60)
    <2>2. TypeOK'
      BY <1>0, <1>1, <1>5, <2>1 DEF TypeOK, KTypeOK, kvars
    <2>3. Roles'
      BY <1>1, <2>1, Zenon DEF IInv, Roles, kvars
    <2>4. Mail'
      BY <1>1, <1>3, <2>1, MailFrame, Zenon DEF kvars, Mailbox
    <2>5. ASSUME NEW e \in Cpus  PROVE RunsOn(e)' /\ Booked(e)'
      <3>1. RunsOn(e) /\ Booked(e)
        BY Zenon DEF IInv, Switches
      <3>2. RunsOn(e)'
        BY <1>1, <1>3, <2>1, <3>1, Zenon DEF RunsOn, kvars, Mailbox, State, InBound
      <3>3. CASE e = d
        BY <1>0, <1>1, <1>2, <2>1, <3>2, <3>3, Zenon DEF Booked, kvars, TypeOK
      <3>4. CASE e # d
        BY <1>0, <1>1, <2>1, <3>1, <3>2, <3>4, Zenon DEF Booked, kvars, Mailbox, TypeOK
      <3> QED  BY <3>2, <3>3, <3>4, Zenon
    <2>6. Switches'
      BY <2>1, <2>5, Zenon DEF IInv, Switches, kvars
    <2> QED  BY <1>5, <1>7, <2>2, <2>3, <2>4, <2>6, SMTT(30) DEF IInv
  <1>9. CASE outcome = "COMPLETE"
    <2>1. /\ KSwitch(d, t)
          /\ txn' = [txn EXCEPT ![d] = "complete"]
          /\ UNCHANGED <<assoc, agentRuns, cfs>>
      BY <1>1, <1>9, Zenon
    <2>2. ~cfs[d] /\ ~agentRuns[d] /\ task[t].seqnum = barrier[t]
      BY <1>9, Zenon DEF CommitOutcome
    <2>3. ~About(Mailbox, t) /\ kstate[t] = "runnable"
      BY <1>0, <1>2, <1>4, <2>2, SMTT(30) DEF KView, KTypeOK
    <2> DEFINE prev == kcur[d]
    <2>4. /\ kcur' = [kcur EXCEPT ![d] = t]
          /\ chain' = [chain EXCEPT ![d] = FALSE]
          /\ kstate' = [u \in Tasks |-> IF u = t THEN "running"
                                        ELSE IF u = prev THEN "runnable"
                                        ELSE kstate[u]]
          /\ on_cpu' = [on_cpu EXCEPT ![t] = TRUE]
      BY <2>1, Zenon DEF KSwitch
    <2>5. /\ \A u \in Tasks : About(Mailbox', u) <=> About(Mailbox, u) \/ u = prev
          /\ \A u \in Tasks : u # prev => barrier'[u] = barrier[u]
          /\ prev # NoTask => barrier'[prev] <= MaxBarrier
          /\ stale' = stale /\ Mail'
          /\ barrier' \in [Tasks -> Seqnums] /\ channel' \in [Channels -> Seq(Messages)]
      <3>1. CASE prev = NoTask
        <4>1. UNCHANGED <<barrier, channel, stale>>
          BY <2>1, <3>1, Zenon DEF KSwitch
        <4>2. Mailbox' = Mailbox
          BY <4>1, Zenon DEF Mailbox
        <4>3. \A u \in Tasks : KView(kstate'[u]) = KView(kstate[u])
          BY <2>3, <2>4, <3>1, Constants, Zenon DEF KView
        <4>4. Mail'
          BY <1>1, <1>3, <4>1, <4>2, <4>3, MailFrame, Zenon
        <4> QED  BY <1>0, <3>1, <4>1, <4>2, <4>4, Constants DEF KTypeOK
      <3>2. CASE prev # NoTask
        <4> DEFINE m == Msg("PREEMPT", prev, FALSE, FALSE, d)
        <4>1. prev \in Tasks /\ prev # t /\ RunsOn(d)
          BY <1>0, <1>2, <3>2, Zenon DEF KTypeOK, IInv, Switches
        <4>2. ~About(Mailbox, prev) /\ kstate[prev] = "running" /\ InBound(prev)
          BY <3>2, <4>1, Zenon DEF RunsOn
        <4>3. chain[d] = FALSE
          BY <1>0, Zenon DEF KTypeOK, IInv, Switches
        <4>4. Produce(m)
          BY <2>1, <3>2, <4>1, <4>3, Zenon DEF KSwitch
        <4>5. barrier[prev] <= MaxBarrier + 2 /\ barrier[prev] + 1 <= MaxBarrier
          BY <4>1, <4>2, BarrierBound, SMTT(30) DEF InBound
        <4>6. /\ m \in Messages /\ m.task = prev /\ m.type = "PREEMPT" /\ m.flag = FALSE
              /\ m.seqnum = barrier[prev] + 1
              /\ Mailbox' = Append(Mailbox, m)
              /\ barrier' = [barrier EXCEPT ![prev] = m.seqnum]
              /\ barrier' \in [Tasks -> Seqnums]
              /\ channel' \in [Channels -> Seq(Messages)]
              /\ stale' = stale
              /\ Mailbox \in Seq(Messages)
          BY <1>0, <4>1, <4>4, <4>5, ProduceFacts, Zenon DEF MsgTypes
        <4> HIDE DEF m
        <4>7. \A u : About(Mailbox', u) <=> About(Mailbox, u) \/ u = prev
          BY <4>6, AboutAppend, Zenon
        <4>8. Fits(KView(kstate[prev]), m) /\ After(m) = KView(kstate'[prev])
          BY <2>4, <4>1, <4>2, <4>6, Zenon DEF Fits, After, KView, Leaving
        <4>9. \A u \in Tasks : u # prev => KView(kstate'[u]) = KView(kstate[u])
          BY <2>3, <2>4, Zenon DEF KView
        <4>10. Mail'
          BY <1>0, <1>1, <1>2, <1>3, <4>1, <4>2, <4>6, <4>8, <4>9, PostMail, Zenon DEF IInv
        <4>11. /\ \A u \in Tasks : u # prev => barrier'[u] = barrier[u]
               /\ barrier'[prev] <= MaxBarrier
          BY <1>0, <4>1, <4>5, <4>6, Zenon DEF KTypeOK
        <4> QED  BY <4>6, <4>7, <4>10, <4>11, Zenon
      <3> QED  BY <3>1, <3>2, Zenon
    <2>6. Switches'
      BY <1>1, <1>2, <1>3, <2>1, <2>2, <2>3, <2>4, <2>5, CommitSwitches, Zenon
    <2>7. KTypeOK'
      <3>1. kstate' \in [Tasks -> {"out", "blocked", "runnable", "running", "dying", "gone"}]
        BY <1>0, <2>4 DEF KTypeOK
      <3> QED  BY <1>0, <1>2, <2>1, <2>4, <2>5, <3>1, Zenon DEF KTypeOK
    <2>8. TypeOK'
      <3>1. txn' \in [Cpus -> {"none", "open", "complete", "failed"}]
        BY <1>0, <2>1, Zenon DEF TypeOK
      <3>2. fault' \in BOOLEAN
        BY ONLY <1>1
      <3>3. UNCHANGED <<known, task, run_queue, yielding, current, global_cpu, pc,
                        target, available>>
        BY ONLY <1>1, Zenon
      <3> QED  BY ONLY <1>0, <2>7, <3>1, <3>2, <3>3, Zenon DEF TypeOK
    <2>9. Roles'
      BY <1>1, <2>1, <2>5, Zenon DEF IInv, Roles
    <2> QED  BY <1>5, <1>7, <2>5, <2>6, <2>8, <2>9, ZenonT(30) DEF IInv
  <1> QED  BY <1>8, <1>9

-----------------------------------------------------------------------------
(* The agents' loop. *)

\* What steps that leave the tasks and the messages alone preserve.
LEMMA AgentFrame ==
    ASSUME IInv,
           UNCHANGED <<known, task, run_queue, yielding, current, txn>>,
           UNCHANGED <<kstate, kcur, chain, on_cpu, barrier, channel, cfs>>,
           \/ MidRound' \/ ~MidRound
           \/ \A t \in known : State(t) \notin {"kYielding", "kRunnable"},
           \A d \in Cpus : agentRuns'[d] => agentRuns[d] \/ kcur[d] = NoTask,
           \A d \in available' : kcur[d] # NoTask => TimeSlice /\ InBound(kcur[d])
    PROVE  Places' /\ Switches' /\ Mail'
  <1>1. Mailbox' = Mailbox
    BY ZenonT(60) DEF Mailbox
  <1>2. Places'
    BY SMTT(30) DEF IInv, Places, Placed, InState, State
  <1>3. ASSUME NEW d \in Cpus  PROVE RunsOn(d)' /\ Booked(d)'
    <2>1. RunsOn(d) /\ Booked(d)
      BY Zenon DEF IInv, Switches
    <2>2. RunsOn(d)'
      BY <1>1, <2>1, Zenon DEF RunsOn, State, InBound
    <2>3. Booked(d)'
      BY <1>1, <2>1, Zenon DEF Booked
    <2> QED  BY <2>2, <2>3, Zenon
  <1>4. Switches'
    BY <1>3, Zenon DEF IInv, Switches
  <1>5. ASSUME NEW i \in DOMAIN Mailbox  PROVE Letter(i)'
    <2>1. Letter(i)
      BY Zenon DEF IInv, Mail
    <2>2. ASSUME FirstIn(Mailbox, i), Mailbox[i].type \in Leaving, MidRound, ~MidRound'
          PROVE  State(Mailbox[i].task) \in {"kOnCpu", "kQueued"}
      <3> DEFINE t == Mailbox[i].task
      <3>1. t \in Tasks /\ View(t, known, State(t)) = "runnable"
        BY <2>1, <2>2, Zenon DEF Letter, Fits, Leaving
      <3>2. t \in known /\ State(t) # "kBlocked"
        BY <3>1, Zenon DEF View
      <3>3. State(t) \in RunStates
        BY <3>1, Zenon DEF State, IInv, TypeOK, FifoTask
      <3> QED  BY <2>2, <3>2, <3>3, Zenon DEF RunStates
    <2> QED  BY <1>1, <2>1, <2>2, Zenon DEF Letter, State
  <1>6. Mail'
    BY <1>1, <1>5, Zenon DEF IInv, Mail, Successive, Settled, State
  <1> QED  BY <1>2, <1>4, <1>6, Zenon

\* The agents' loop: reading the barrier, choosing the role, yielding the cpu.
LEMMA LoopStep ==
    ASSUME IInv, NEW c \in Cpus,
           ReadBarrier(c) \/ IsSatellite(c) \/ LocalYield(c) \/ IsGlobal(c)
    PROVE  IInv'
  <1>0. TypeOK /\ KTypeOK
    BY Zenon DEF IInv, TypeOK
  <1>1. /\ UNCHANGED <<known, task, run_queue, yielding, current, txn>>
        /\ UNCHANGED <<kstate, kcur, chain, on_cpu, barrier, channel, cfs>>
        /\ UNCHANGED <<global_cpu, available, target, fault, assoc>>
    BY Zenon DEF ReadBarrier, IsSatellite, LocalYield, IsGlobal, kvars, kquiet
  <1>2. /\ pc[c] \in {"loop", "check", "yield"}
        /\ \E l \in PCs \ {"assign", "commit", "avail", "ping"} : pc' = [pc EXCEPT ![c] = l]
    BY Zenon DEF ReadBarrier, IsSatellite, LocalYield, IsGlobal, At, Goto, PCs
  <1>3. stale' \in [Cpus -> BOOLEAN] /\ agentRuns' \in [Cpus -> BOOLEAN]
    BY <1>0, Zenon DEF ReadBarrier, IsSatellite, LocalYield, IsGlobal, KTypeOK, kvars, kquiet
  <1>4. TypeOK'
    BY <1>0, <1>1, <1>2, <1>3, ZenonT(60) DEF TypeOK, KTypeOK
  <1>5. MidRound' <=> MidRound
    BY <1>0, <1>1, <1>2 DEF MidRound, TypeOK
  <1>6. Rounds'
    BY <1>0, <1>1, <1>2, <1>5, Zenon DEF IInv, Rounds, TypeOK
  <1>7. \A d \in Cpus : agentRuns'[d] => agentRuns[d]
    BY <1>0, Zenon DEF ReadBarrier, IsSatellite, LocalYield, IsGlobal, KTypeOK, kvars, kquiet,
                At, IInv, Roles
  <1>8. \A d \in available' : kcur[d] # NoTask => TimeSlice /\ InBound(kcur[d])
    BY <1>0, <1>1, Zenon DEF IInv, Switches, RunsOn, TypeOK
  <1>9. Places' /\ Switches' /\ Mail'
    BY <1>1, <1>5, <1>7, <1>8, AgentFrame, Zenon
  <1>10. Roles'
    <2>1. CASE ReadBarrier(c)
      BY <2>1, <1>0, ZenonT(60) DEF ReadBarrier, At, Goto, IInv, Roles, Scheduling, TypeOK, KTypeOK, kquiet
    <2>2. CASE IsSatellite(c)
      BY <2>2, <1>0, ZenonT(60) DEF IsSatellite, At, Goto, IInv, Roles, Scheduling, TypeOK, KTypeOK, kvars
    <2>3. CASE LocalYield(c)
      BY <2>3, <1>0, ZenonT(60) DEF LocalYield, At, Goto, IInv, Roles, Scheduling, TypeOK, KTypeOK
    <2>4. CASE IsGlobal(c)
      <3>1. /\ pc[c] = "check" /\ global_cpu = c
            /\ pc'[c] = "drain" /\ \A d \in Cpus : d # c => pc'[d] = pc[d]
            /\ UNCHANGED <<target, stale, agentRuns>>
        BY <2>4, <1>0, Zenon DEF IsGlobal, At, Goto, TypeOK, kvars
      <3> QED  BY <1>1, <3>1, ZenonT(30) DEF IInv, Roles, Scheduling
    <2> QED  BY <2>1, <2>2, <2>3, <2>4, Zenon
  <1> QED  BY <1>1, <1>4, <1>6, <1>9, <1>10 DEF IInv

\* PickNextGlobalCPU and its Ping hand the role over.
LEMMA HandOverStep ==
    ASSUME IInv, NEW c \in Cpus, PickNextGlobalCPU(c) \/ PingGlobal(c)
    PROVE  IInv'
  <1>0. TypeOK /\ KTypeOK
    BY Zenon DEF IInv, TypeOK
  <1>1. /\ UNCHANGED <<known, task, run_queue, yielding, current, txn>>
        /\ UNCHANGED <<kstate, kcur, chain, on_cpu, barrier, channel, cfs>>
        /\ UNCHANGED <<available, agentRuns, assoc>>
    BY Zenon DEF PickNextGlobalCPU, PingGlobal, kvars, kquiet
  <1>2. CASE PickNextGlobalCPU(c)
    <2>1. PICK d \in Cpus : /\ d # c
                            /\ fault' = (current[d] # NoTask /\ State(current[d]) # "kOnCpu")
                            /\ global_cpu' = d
                            /\ target' = [target EXCEPT ![c] = d]
      BY <1>2, Zenon DEF PickNextGlobalCPU, Candidates
    <2>2. /\ pc[c] = "check" /\ global_cpu = c /\ pc' = [pc EXCEPT ![c] = "ping"]
          /\ stale' = stale
      BY <1>2, Zenon DEF PickNextGlobalCPU, At, Goto, kvars
    <2>3. ~MidRound /\ pc[d] \notin Scheduling
      BY <2>1, <2>2, Zenon DEF MidRound, IInv, Roles
    <2>4. ~MidRound'
      BY <1>0, <2>1, <2>2, <2>3, Zenon DEF MidRound, Scheduling, TypeOK
    <2>5. available = {} /\ \A e \in Cpus : txn[e] = "none"
      BY <2>3, Idle, SMTT(30)
    <2>6. ~fault'
      BY <2>1, <2>5, Zenon DEF IInv, Places, Placed
    <2>7. TypeOK'
      BY <1>0, <1>1, <2>1, <2>2, <2>6, ZenonT(60) DEF TypeOK, KTypeOK, PCs
    <2>8. Rounds'
      BY <1>0, <1>1, <2>1, <2>2, <2>3, <2>4, <2>5, SMTT(30) DEF Rounds, Scheduling, TypeOK
    <2>9. Roles'
      BY <1>0, <1>1, <2>1, <2>2, <2>3, Constants, Zenon DEF IInv, Roles, Scheduling, TypeOK
    <2>10. Places' /\ Switches' /\ Mail'
      BY <1>1, <2>3, <2>5, AgentFrame, Zenon
    <2> QED  BY <2>6, <2>7, <2>8, <2>9, <2>10, Zenon DEF IInv
  <1>3. CASE PingGlobal(c)
    <2>1. /\ pc[c] = "ping" /\ pc' = [pc EXCEPT ![c] = "loop"]
          /\ stale' = [stale EXCEPT ![target[c]] = TRUE]
          /\ target' = [target EXCEPT ![c] = NoCpu]
          /\ global_cpu' = global_cpu /\ fault' = fault
      BY <1>3, SMTT(30) DEF PingGlobal, At, Goto, KPing
    <2>2. TypeOK'
      BY <1>0, <1>1, <2>1, Zenon DEF TypeOK, KTypeOK, PCs
    <2>3. MidRound' <=> MidRound
      BY <1>0, <2>1, Zenon DEF MidRound, TypeOK
    <2>4. Rounds'
      BY <1>0, <1>1, <2>1, <2>3, Zenon DEF IInv, Rounds, TypeOK
    <2>5. Roles'
      <3>1. target[c] \in Cpus
        BY <1>0, <2>1, Zenon DEF IInv, Roles, TypeOK
      <3>2. \A d \in Cpus : pc'[d] \in Scheduling => global_cpu' = d
        BY <1>0, <2>1, Zenon DEF IInv, Roles, TypeOK, Scheduling
      <3>3. \A d \in Cpus : pc'[d] = "ping" <=> target'[d] # NoCpu
        BY <1>0, <2>1, Zenon DEF IInv, Roles, TypeOK
      <3>4. \A d \in Cpus : agentRuns'[d] <=> pc'[d] # "asleep"
        BY <1>0, <1>1, <2>1, Zenon DEF IInv, Roles, TypeOK
      <3>5. ASSUME pc'[global_cpu'] \in {"yield", "asleep"}
            PROVE  stale'[global_cpu'] \/ \E d \in Cpus : target'[d] = global_cpu'
        BY <1>0, <2>1, <3>1, <3>5, ZenonT(60) DEF IInv, Roles, TypeOK, KTypeOK
      <3> QED  BY <3>2, <3>3, <3>4, <3>5, Zenon DEF Roles
    <2>6. \A d \in available' : kcur[d] # NoTask => TimeSlice /\ InBound(kcur[d])
      BY <1>0, <1>1, Zenon DEF IInv, Switches, RunsOn, TypeOK
    <2>7. Places' /\ Switches' /\ Mail'
      BY <1>1, <2>3, <2>6, AgentFrame, Zenon
    <2> QED  BY <2>1, <2>2, <2>4, <2>5, <2>7, Zenon DEF IInv
  <1> QED  BY <1>2, <1>3, Zenon

\* An agent that wakes takes its cpu back; the task there is announced.
LEMMA WakeStep ==
    ASSUME IInv, NEW c \in Cpus, AgentWakes(c)
    PROVE  IInv'
  <1>0. TypeOK /\ KTypeOK /\ ~chain[c] /\ RunsOn(c)
    BY Zenon DEF IInv, TypeOK, Switches
  <1>1. /\ UNCHANGED <<known, task, run_queue, yielding, current, txn>>
        /\ UNCHANGED <<global_cpu, available, target, fault>>
        /\ pc[c] = "asleep" /\ pc' = [pc EXCEPT ![c] = "loop"]
        /\ KAgentOnCpu(c, kcur[c] # NoTask)
    BY Zenon DEF AgentWakes, At, Goto
  <1>2. MidRound' <=> MidRound
    BY <1>0, <1>1, Zenon DEF MidRound, TypeOK
  <1>3. Rounds'
    BY <1>0, <1>1, <1>2, Zenon DEF IInv, Rounds, TypeOK
  <1>4. Places'
    BY <1>1, Zenon DEF IInv, Places, Placed, InState, State
  <1>5. /\ agentRuns' = [agentRuns EXCEPT ![c] = TRUE]
        /\ kcur' = [kcur EXCEPT ![c] = NoTask]
        /\ chain' = [chain EXCEPT ![c] = FALSE]
        /\ kstate' = [t \in Tasks |-> IF t = kcur[c] THEN "runnable" ELSE kstate[t]]
        /\ on_cpu' = [t \in Tasks |-> on_cpu[t] /\ t # kcur[c]]
        /\ UNCHANGED <<assoc, cfs>>
    BY <1>1, Zenon DEF KAgentOnCpu
  <1>6. chain' = chain /\ chain[c] = FALSE
    BY <1>0, <1>5 DEF KTypeOK
  <1>7. CASE kcur[c] # NoTask
    <2> DEFINE t == kcur[c]
    <2>1. t \in Tasks /\ InBound(t) /\ Produce(Msg("PREEMPT", t, FALSE, FALSE, c))
      BY <1>0, <1>1, <1>6, <1>7, Zenon DEF KAgentOnCpu, KTypeOK
    <2>2. \A d \in Cpus : kcur[d] = t => d = c
      BY <1>7, ZenonT(60) DEF IInv, Switches
    <2>3. /\ kcur' \in [Cpus -> Tasks \cup {NoTask}]
          /\ \A d \in Cpus : kcur'[d] = IF kcur[d] = t THEN NoTask ELSE kcur[d]
      BY <1>0, <1>5, <2>2 DEF KTypeOK
    <2>4. /\ kstate' \in [Tasks -> {"out", "blocked", "runnable", "dying", "gone", "running"}]
          /\ \A u \in Tasks : kstate'[u] = IF u = t THEN "runnable" ELSE kstate[u]
      BY <1>0, <1>5, Zenon DEF KTypeOK
    <2>5. /\ on_cpu' \in [Tasks -> BOOLEAN]
          /\ \A u \in Tasks : on_cpu'[u] = on_cpu[u] \/ (u = t /\ ~on_cpu'[u])
      BY <1>0, <1>5, Zenon DEF KTypeOK
    <2>6. /\ agentRuns' \in [Cpus -> BOOLEAN]
          /\ \A d \in Cpus : agentRuns'[d] => agentRuns[d] \/ kcur'[d] = NoTask
      BY <1>0, <1>5, Zenon DEF KTypeOK
    <2>7. Event(t, Msg("PREEMPT", t, FALSE, FALSE, c), "runnable")
      BY <1>1, <1>2, <1>5, <1>6, <2>1, <2>3, <2>4, <2>5, <2>6, Zenon DEF Event
    <2>8. kstate[t] = "running"
      BY <1>0, <1>7, Zenon DEF RunsOn
    <2>9. Legal(t, "PREEMPT", FALSE, "runnable")
      <3>1. barrier[t] + 1 <= MaxBarrier + Slack("runnable")
        BY <2>1, BarrierBound DEF InBound, Slack
      <3> QED  BY <2>8, <3>1, ZenonT(60) DEF Legal, Fits, KView, After, Leaving
    <2>10. Mail' /\ KTypeOK' /\ Switches' /\ stale' = stale
      BY <2>1, <2>7, <2>9, EventMail, EventSwitches, Zenon DEF MsgTypes
    <2>11. TypeOK'
      BY <1>0, <1>1, <2>10, Zenon DEF TypeOK, PCs
    <2>12. Roles'
      <3>1. /\ pc'[c] = "loop" /\ \A d \in Cpus : d # c => pc'[d] = pc[d]
            /\ agentRuns'[c] /\ \A d \in Cpus : d # c => agentRuns'[d] = agentRuns[d]
        BY <1>0, <1>1, <1>5, Zenon DEF TypeOK, KTypeOK
      <3>2. pc[c] = "asleep" /\ global_cpu \in Cpus /\ Roles
        BY <1>0, <1>1, Zenon DEF IInv, TypeOK
      <3>3. UNCHANGED <<global_cpu, target, stale>>
        BY <1>1, <2>10, Zenon
      <3> QED  BY ONLY <3>1, <3>2, <3>3, ZenonT(60) DEF Roles, Scheduling
    <2> QED  BY <1>1, <1>3, <1>4, <2>10, <2>11, <2>12, SMTT(30) DEF IInv
  <1>8. CASE kcur[c] = NoTask
    <2>1. kstate' = kstate /\ kcur' = kcur /\ on_cpu' = on_cpu
      BY <1>0, <1>5, <1>8, Constants, SMTT(30) DEF KTypeOK
    <2>2. barrier' = barrier /\ channel' = channel /\ stale' = stale
      BY <1>1, <1>6, <1>8, ZenonT(60) DEF KAgentOnCpu
    <2>3. TypeOK'
      BY <1>0, <1>1, <1>5, <1>6, <2>1, <2>2, SMTT(30) DEF TypeOK, KTypeOK, PCs
    <2>4. Roles'
      BY <1>0, <1>1, <1>5, <2>2, ZenonT(60) DEF IInv, Roles, Scheduling, TypeOK, KTypeOK
    <2>5. \A d \in available' : kcur[d] # NoTask => TimeSlice /\ InBound(kcur[d])
      BY <1>0, <1>1, Zenon DEF IInv, Switches, RunsOn, TypeOK
    <2>6. \A d \in Cpus : agentRuns'[d] => agentRuns[d] \/ kcur[d] = NoTask
      BY <1>0, <1>5, <1>8, Zenon DEF KTypeOK
    <2>7. Switches' /\ Mail'
      BY <1>1, <1>2, <1>5, <1>6, <2>1, <2>2, <2>5, <2>6, AgentFrame, Zenon
    <2> QED  BY <1>1, <1>3, <1>4, <2>3, <2>4, <2>7, ZenonT(60) DEF IInv
  <1> QED  BY <1>7, <1>8, Zenon

\* The steps between the phases of a round.
LEMMA PhaseStep ==
    ASSUME IInv, NEW c \in Cpus,
           ChannelEmpty(c) \/ FindAvailable(c) \/ AssignEnds(c) \/ EndSchedule(c)
    PROVE  IInv'
  <1>0. TypeOK /\ KTypeOK
    BY Zenon DEF IInv, TypeOK
  <1>1. /\ UNCHANGED <<known, task, run_queue, yielding, current, txn>>
        /\ UNCHANGED kvars /\ UNCHANGED <<global_cpu, target>>
    BY Zenon DEF ChannelEmpty, FindAvailable, AssignEnds, EndSchedule
  <1>2. /\ pc[c] \in Scheduling
        /\ \E l \in {"avail", "assign", "commit", "loop"} : pc' = [pc EXCEPT ![c] = l]
    BY Zenon DEF ChannelEmpty, FindAvailable, AssignEnds, EndSchedule, At, Goto, Scheduling
  <1>3. global_cpu = c /\ pc[c] \notin {"ping", "asleep"} /\ pc'[c] \notin {"ping", "asleep"}
    BY <1>0, <1>2, ZenonT(60) DEF IInv, Roles, Scheduling, TypeOK
  <1>4. Roles'
    BY <1>0, <1>1, <1>2, <1>3, ZenonT(60) DEF IInv, Roles, Scheduling, TypeOK, kvars
  <1>5. agentRuns[c]
    BY <1>3, Zenon DEF IInv, Roles
  <1>6. CASE ChannelEmpty(c)
    <2>1. /\ pc[c] = "drain" /\ pc' = [pc EXCEPT ![c] = "avail"] /\ Mailbox = << >>
          /\ available' = available /\ fault' = fault
      BY <1>6, Zenon DEF ChannelEmpty, At, Goto, Mailbox
    <2>2. ~MidRound /\ ~MidRound'
      BY <1>0, <1>1, <1>3, <2>1, Zenon DEF MidRound, TypeOK
    <2>3. available = {} /\ \A d \in Cpus : txn[d] = "none"
      BY <2>2, Idle, Zenon
    <2>4. current[c] = NoTask
      <3>1. Booked(c) /\ RunsOn(c)
        BY Zenon DEF IInv, Switches
      <3>2. \A t : ~About(Mailbox, t)
        BY <2>1, SMTT(30) DEF About
      <3> QED  BY <1>5, <2>3, <3>1, <3>2, Zenon DEF Booked, RunsOn
    <2>5. Rounds'
      BY <1>0, <1>1, <1>3, <2>1, <2>3, <2>4, Zenon DEF Rounds, TypeOK
    <2>6. TypeOK'
      BY <1>0, <1>1, <2>1, Zenon DEF TypeOK, KTypeOK, PCs, kvars
    <2>7. Places' /\ Switches' /\ Mail'
      BY <1>1, <2>1, <2>2, <2>3, AgentFrame, Zenon DEF kvars
    <2> QED  BY <1>4, <2>1, <2>5, <2>6, <2>7 DEF IInv
  <1>7. CASE FindAvailable(c)
    <2>1. PICK expired \in SUBSET {d \in Cpus : /\ TimeSlice /\ current[d] # NoTask
                                                /\ InBound(current[d])} :
                 available' = {d \in Candidates(c) : current[d] = NoTask \/ d \in expired}
      BY <1>7, Zenon DEF FindAvailable
    <2>2. /\ pc[c] = "avail" /\ pc' = [pc EXCEPT ![c] = "assign"]
          /\ fault' = (current[c] # NoTask)
      BY <1>7, Zenon DEF FindAvailable, At, Goto
    <2>3. ~MidRound /\ MidRound' /\ current[c] = NoTask
      BY <1>0, <1>1, <1>3, <2>2, Zenon DEF MidRound, TypeOK, IInv, Rounds
    <2>4. \A d \in Cpus : txn[d] = "none"
      BY <2>3, Idle, Zenon
    <2>5. available' \subseteq Cpus /\ c \notin available'
      BY <2>1, Zenon DEF Candidates
    <2>6. Rounds'
      BY <1>0, <1>1, <1>3, <2>2, <2>3, <2>4, <2>5, Zenon DEF Rounds, TypeOK
    <2>7. TypeOK'
      BY <1>0, <1>1, <2>2, <2>5, Zenon DEF TypeOK, KTypeOK, PCs, kvars
    <2>8. ASSUME NEW d \in available', kcur[d] # NoTask
          PROVE  TimeSlice /\ InBound(kcur[d])
      <3>1. d \in Cpus /\ RunsOn(d)
        BY <2>5, Zenon DEF IInv, Switches
      <3>2. kcur[d] = current[d] \/ (TimeSlice /\ InBound(kcur[d]))
        BY <2>8, <3>1, Zenon DEF RunsOn
      <3>3. current[d] = NoTask \/ (TimeSlice /\ InBound(current[d]))
        BY <2>1, <2>8, Zenon
      <3> QED  BY <2>8, <3>2, <3>3, Zenon
    <2>9. Places' /\ Switches' /\ Mail'
      BY <1>1, <2>3, <2>8, AgentFrame, Zenon DEF kvars
    <2> QED  BY <1>4, <2>2, <2>3, <2>6, <2>7, <2>9, Zenon DEF IInv
  <1>8. CASE AssignEnds(c)
    <2>1. /\ pc[c] = "assign" /\ pc' = [pc EXCEPT ![c] = "commit"]
          /\ available' = {} /\ fault' = fault
      BY <1>8, SMTT(30) DEF AssignEnds, At, Goto
    <2>2. MidRound'
      BY <1>0, <1>1, <1>3, <2>1 DEF MidRound, TypeOK
    <2>3. Rounds'
      BY <1>0, <1>1, <1>3, <2>1, <2>2, Zenon DEF IInv, Rounds, TypeOK
    <2>4. TypeOK'
      BY <1>0, <1>1, <2>1, Zenon DEF TypeOK, KTypeOK, PCs, kvars
    <2>5. Places' /\ Switches' /\ Mail'
      BY <1>1, <2>1, <2>2, AgentFrame, Zenon DEF kvars
    <2> QED  BY <1>4, <2>1, <2>3, <2>4, <2>5, Zenon DEF IInv
  <1>9. CASE EndSchedule(c)
    <2>1. /\ pc[c] = "commit" /\ pc' = [pc EXCEPT ![c] = "loop"]
          /\ available' = available /\ fault' = fault
          /\ yielding = << >> /\ Assigned = {}
      BY <1>9, Zenon DEF EndSchedule, At, Goto
    <2>2. available = {} /\ \A d \in Cpus : txn[d] = "none"
      BY <1>3, <2>1, Zenon DEF IInv, Rounds, Assigned
    <2>3. \A t \in known : State(t) \notin {"kYielding", "kRunnable"}
      <3>1. ASSUME NEW t \in known, State(t) = "kYielding"  PROVE FALSE
        <4>1. Lists(yielding, InState("kYielding")) /\ t \in InState("kYielding")
          BY <3>1, Zenon DEF IInv, Places, InState
        <4> QED  BY <2>1, <4>1, EmptyLists, Zenon
      <3>2. ASSUME NEW t \in known, State(t) = "kRunnable"  PROVE FALSE
        <4>1. PICK d \in Cpus : current[d] = t
          BY <3>2, Zenon DEF IInv, Places
        <4>2. Placed(d) /\ t # NoTask
          BY <1>0, Constants, ZenonT(60) DEF IInv, Places, TypeOK
        <4> QED  BY <2>2, <3>2, <4>1, <4>2, Zenon DEF Placed
      <3> QED  BY <3>1, <3>2, Zenon
    <2>4. Rounds'
      BY <1>0, <1>1, <1>3, <2>1, <2>2 DEF Rounds, TypeOK
    <2>5. TypeOK'
      BY <1>0, <1>1, <2>1, Zenon DEF TypeOK, KTypeOK, PCs, kvars
    <2>6. Places' /\ Switches' /\ Mail'
      BY <1>1, <2>1, <2>2, <2>3, AgentFrame, Zenon DEF kvars
    <2> QED  BY <1>4, <2>1, <2>4, <2>5, <2>6, Zenon DEF IInv
  <1> QED  BY <1>6, <1>7, <1>8, <1>9

=============================================================================
